CONSTANTS
    WordSize = 8
    NVM_CHECKSUM_REG = 3
    NVM_SUM = 2
    Base = 4
    MaxCount = 2
    PageSize = 2
    HalfSize = 4
    MaxCalls = 1
SPECIFICATION Spec
INVARIANT ReadsEveryWord
CHECK_DEADLOCK FALSE
