SPECIFICATION Spec
CONSTANTS
  Shapes <- MCShapes
  Tile = 2
  OffloadLen = 5
  WEIGHT_BUFFER_SIZE = 3
INVARIANTS
  EachElementOnce
