SPECIFICATION MCSpec
CONSTANTS
  BufferSize = 5
  Word = {w1, w2}
  Zero = w1
  ExpBits = 3
  ManBits = 4
  LowestBit = 1
  Inputs <- MCInputs
INVARIANTS
  NoOverrun
  SumWithinUlp
  NoMemory
  ProductWithinUlp
PROPERTY
  ImplementsFifo
