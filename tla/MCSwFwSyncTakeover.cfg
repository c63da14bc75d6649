CONSTANTS
    Threads = {t1, t2}
    Resources = {EEP, PHY0}
    FirmwareUses = {PHY0}
    Timeout = 2
    Prompt = TRUE
SPECIFICATION Spec
INVARIANT Exclusive
