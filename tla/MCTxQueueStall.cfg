CONSTANTS
    PacketRingSize = 2
    FragmentRingSize = 4
    Clients <- NoExtension
SPECIFICATION FairSpec
PROPERTIES
    BailsOnlyForLackOfDescriptors
