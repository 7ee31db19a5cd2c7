SPECIFICATION FairSpec
CONSTANTS
    PixelBufferDepth = 4
    BlockCount = 2
    FilterRowSize = 2
    ResultBufferSize = 2
    MaxCommands = 2
    QuietCommands = TRUE
    MCRows = 13
    Float <- MCFloat
    Zero <- MCZero
    FpAdd <- MCFpAdd
    FpMul <- MCFpMul
    Pixels <- MCPixels
    Coeff <- MCCoeff
INVARIANTS
    ResultsOfOwnRows
    NothingLostWhenQuiet
PROPERTY
    EveryRowIsStored
