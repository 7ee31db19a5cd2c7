SPECIFICATION MCSpec
CONSTANTS
  Graphs <- CompileGraphs
  MaxRoots = 2
  Networks <- EvalNetworks
  P = 3
INVARIANTS
  CompiledGraph
  EvalGivesValue
  GradIsDerivative
  ValueAsDocumented
PROPERTY GradIsSlope
