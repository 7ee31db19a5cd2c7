SPECIFICATION Spec
CONSTANTS
    PixelBufferDepth = 4
    BlockCount = 2
    FilterRowSize = 2
    ResultBufferSize = 2
    MaxCommands = 2
    QuietCommands = FALSE
    MCRows = 9
    Float <- MCFloat
    Zero <- MCZero
    FpAdd <- MCFpAdd
    FpMul <- MCFpMul
    Pixels <- MCPixels
    Coeff <- MCCoeff
INVARIANTS
    ReadsCompleteRows
    PixelRingNeverFull
    OperandsInOrder
    AtMostOneStaleResult
