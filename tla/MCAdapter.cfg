CONSTANTS
    MaxInterrupts = 3
    MaxRxQueues = 2
    MaxResources = 4
    MaxPrepares = 2
    Multicast <- TwoAddresses
    DPCs = {dpc1, dpc2}
    MaxChanges = 3
SPECIFICATION MCSpec
INVARIANTS
    ResourcesBalanced
    FilterHonoured
    LinkTypeOK
    FlowControlAgrees
PROPERTY RealLinkReported
CHECK_DEADLOCK FALSE
