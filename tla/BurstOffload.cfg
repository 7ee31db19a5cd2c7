SPECIFICATION FairSpec
CONSTANTS
    WEIGHT_BUFFER_SIZE = 3
    IMAGE_BUFFER_SIZE = 3
    RESULT_BUFFER_SIZE = 2
    MaxRows = 2
    Float <- MCFloat
    Zero <- MCZero
    FpAdd <- MCFpAdd
    FpMul <- MCFpMul
    Weights <- MCWeights
    Images <- MCImages
INVARIANTS
    ResultsInOrder
    EveryRowHasItsResult
    CountsAgree
PROPERTY
    TransferEnds
