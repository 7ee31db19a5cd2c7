SPECIFICATION Spec
CONSTANTS
    WEIGHT_BUFFER_SIZE = 5
    IMAGE_BUFFER_SIZE = 3
    DmaWords = 5
    SettleCycles = 2
    Float <- MCFloat
    Zero <- MCZero
    FpAdd <- MCFpAdd
    FpMul <- MCFpMul
    Weights <- MCWeights
    Images <- MCImages
INVARIANTS
    ReturnsDotProduct
    AlignedBetweenCalls
    ImageNeverOverruns
    SumMatchesCount
PROPERTIES
    ImplementsService
