SPECIFICATION Spec
CONSTANTS
  Shapes <- MCProductShapes
  Tile = 2
  OffloadLen = 8
  WEIGHT_BUFFER_SIZE = 3
INVARIANT ProductOfRows
