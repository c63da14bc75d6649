CONSTANTS
    Threads = {t1, t2}
    Resources = {EEP, PHY0}
    FirmwareUses = {PHY0}
    Timeout = 2
    Prompt = FALSE
SPECIFICATION FairSpec
INVARIANTS
    TypeOK
    ExclusiveUnlessRobbed
    BitsMatchUnlessRobbed
    HeldOnlyInside
PROPERTIES
    AbandonedIsCleared
    ReleaseReturns
    ImplementsLock
