CONSTANTS
    RxQueues <- OneRxQueue
    Tx = Tx
    Misc = Misc
    TXDW = TXDW
    LSC = LSC
    NoQueue = NoQueue
    Processors = {p1, p2}
    Setups <- AllSetups
SPECIFICATION Spec
INVARIANTS
    TypeOK
    NothingStranded
    NotifiesRegisteredMsix
