CONSTANTS
    PacketRingSize = 4
    FragmentRingSize = 4
    Clients <- AlwaysTags
SPECIFICATION Spec
INVARIANTS
    InFlightDisjoint
