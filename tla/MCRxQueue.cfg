CONSTANTS
    RingSize = 6
SPECIFICATION FairSpec
INVARIANTS
    TypeOK
    FilledInOrder
    DeviceHasOnlyPosted
PROPERTIES
    ImplementsHandOver
    ReceptionContinues
