CONSTANTS
    WordSize = 8
    NVM_CHECKSUM_REG = 3
    NVM_SUM = 2
    Base = 4
    MaxCount = 2
    PageSize = 2
    HalfSize = 4
    MaxCalls = 2
    PbaWords = 5
    Offset0 = 0
    Guard = 8
    Empty = 9
    PbaNumLength = 11
    InvmSize = 4
    RsaSize = 2
    Parts <- ManyParts
    Timeout = 2
    BlockLength = 2
    MaxLength = 5
    MaxCommands = 2
    MaxRequests = 2
    MaxUnsolicited = 1
    MaxHashes = 1
    MaxMulticast = 2
SPECIFICATION ServicesSpec
INVARIANTS
    ServicesTypeOK
    NothingLeftBehind
    TransfersWhatWasAsked
    ContentsConsistent
    HostInterfaceTrue
    Conversation
    UnreadIsAnnounced
    PageDiscipline
    SemaphoreBalanced
PROPERTY CommittedAddsUp
CHECK_DEADLOCK FALSE
