CONSTANTS
    PacketRingSize = 3
    FragmentRingSize = 6
    Clients <- EachExtension
SPECIFICATION FairSpec
INVARIANTS
    TypeOK
    InFlightDisjoint
    DeviceSeesAllPosted
    DeviceReadsOwnedMemory
    FragmentsFollowPackets
PROPERTIES
    ImplementsHandOver
    CanceledNeverPosted
    EveryPacketReturned
