SPECIFICATION MCSpec
CONSTANTS
    WEIGHT_BUFFER_SIZE = 3
    IMAGE_BUFFER_SIZE = 3
    RESULT_BUFFER_SIZE = 2
    Float <- MCFloat
    Zero = 0
    FpAdd <- MCFpAdd
    FpMul <- MCFpMul
INVARIANTS
    ImageNeverOverruns
    RowIsAtomic
    RowStartsClean
