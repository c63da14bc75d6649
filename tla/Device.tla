------------------------------- MODULE Device -------------------------------
(***************************************************************************)
(* The life of the device: its resources and initialisation, every step of *)
(* which may fail, power, release and preparing again; and the receive     *)
(* filters the client sets meanwhile (driver.cpp, device.cpp, power.cpp,   *)
(* adapter.cpp, and what they call of e1000_api.c, e1000_mac.c,            *)
(* e1000_base.c and e1000_82575.c).                                        *)
(*                                                                         *)
(* Addresses are names; of a multicast address its last two bytes count.   *)
(* A filter is set and a queue started in two parts, between which the     *)
(* other may run, because both read RCTL first and write it last.          *)
(***************************************************************************)
EXTENDS Naturals, Sequences, FiniteSets, FiniteSetsExt

CONSTANTS
    MaxInterrupts, MaxRxQueues,  \* IGB_MAX_INTERRUPTS, IGB_MAX_RX_QUEUES
    MaxResources,                \* bound: the resources a device is given
    MaxPrepares,                 \* bound: how often it is given some
    Multicast                    \* multicast addresses: <<mc_addr[4], mc_addr[5]>>

ASSUME DeviceAssumption ==
    /\ {MaxInterrupts, MaxRxQueues} \subseteq Nat \ {0}
    /\ MaxResources \in Nat /\ MaxPrepares \in Nat
    /\ Multicast \subseteq (0 .. 255) \X (0 .. 255)

VARIABLES
    type,                           \* mac.type: before or after the 82580
    phase,                          \* where the framework has the device
    next,                           \* what remains of EvtDevicePrepareHardware
    prepares,
    mappings, MMIOAddress,          \* mappings: how often the registers are mapped
    interrupts, MsiInterrupts,      \* interrupts: how many objects were created
    mac_addr, CurrentAddress,
    configured,                     \* the address in the registry
    RAR0, MTA, RCTL,
    mc_filter_type,
    PacketFilterFlags, MCAddressList,
    filter, start,                  \* EvtSetReceiveFilter and EvtRxQueueStart at work
    filtered,                       \* history: a filter was set since power-up
    raced                           \* history: the two overlapped

resources == <<mappings, MMIOAddress, interrupts, MsiInterrupts>>
addresses == <<mac_addr, CurrentAddress, RAR0>>
filters == <<PacketFilterFlags, MCAddressList, filter, start, filtered, raced>>
given == <<type, configured, mc_filter_type>>
vars == <<given, phase, next, prepares, resources, addresses, MTA, RCTL, filters>>

Flags == {"Multicast", "AllMulticast", "Broadcast", "Promiscuous"}
Off == [EN |-> FALSE, UPE |-> FALSE, MPE |-> FALSE, BAM |-> FALSE, MO |-> 0]
None == [at |-> "idle", rctl |-> Off]
-----------------------------------------------------------------------------
(* The multicast table. Its 4096 bits are numbered; MTA is the set of      *)
(* those that are set.                                                     *)

MtaRegCount == 128

(* The first of 1 .. 4 that leaves 0xFF of the mask, or 4.                 *)
BitShift ==
    LET mask == MtaRegCount * 32 - 1
        fits == {s \in 1 .. 4 : mask \div 2 ^ s = 255}
    IN IF fits = {} THEN 4 ELSE Min(fits)
ExtraShift == IF mc_filter_type = 3 THEN 4 ELSE mc_filter_type

ShiftOfType(addr) ==  \* mutant: mc_filter_type 3 adds three bits
    LET shift == BitShift + mc_filter_type
    IN (addr[1] \div 2 ^ (8 - shift) + addr[2] * 2 ^ shift) % (MtaRegCount * 32)
e1000_hash_mc_addr_generic(addr) ==
    LET shift == BitShift + ExtraShift
    IN (addr[1] \div 2 ^ (8 - shift) + addr[2] * 2 ^ shift) % (MtaRegCount * 32)

e1000_update_mc_addr_list_generic(list) == {e1000_hash_mc_addr_generic(a) : a \in list}
-----------------------------------------------------------------------------
(* EvtDriverDeviceAdd and EvtDevicePrepareHardware. *)

Init ==
    /\ type \in {"82575", "i210"} /\ configured \in {"none", "local"}
    /\ mc_filter_type \in 0 .. 3
    /\ phase = "new" /\ next = <<>> /\ prepares = 0
    /\ mappings = 0 /\ MMIOAddress = FALSE /\ interrupts = 0 /\ MsiInterrupts = 0
    /\ mac_addr = "none" /\ CurrentAddress = "none" /\ RAR0 = "nvm"
    /\ MTA = {} /\ RCTL = Off
    /\ PacketFilterFlags = {} /\ MCAddressList = {} /\ filter = None /\ start = None
    /\ filtered = FALSE /\ raced = FALSE

(* Any of its calls may fail.                                              *)
EvtDriverDeviceAdd ==
    /\ phase = "new"
    /\ phase' \in {"added", "removed"}
    /\ UNCHANGED <<given, next, prepares, resources, addresses, MTA, RCTL, filters>>

IgbInitializeHardware ==
    <<"open_configuration", "resources", "init_funcs", "dma", "reset", "mac_address",
      "adapter_start">>

EvtDevicePrepareHardware ==
    /\ phase \in {"added", "released"} /\ prepares < MaxPrepares
    /\ phase' = "preparing" /\ prepares' = prepares + 1
    /\ next' = IgbInitializeHardware
    /\ UNCHANGED <<given, resources, addresses, MTA, RCTL, filters>>

Now(step) == phase = "preparing" /\ next # <<>> /\ Head(next) = step
Done == next' = Tail(next) /\ phase' = IF Tail(next) = <<>> THEN "D3" ELSE phase
Fails == next' = <<>> /\ phase' = "failed"

(* NetAdapterOpenConfiguration, the functions for the mac.type, whose own  *)
(* initialisation may fail, and WdfDmaEnablerCreate.                       *)
e1000_setup_init_funcs ==
    /\ \/ Now("open_configuration") \/ Now("init_funcs") \/ Now("dma")
    /\ Done \/ Fails
    /\ UNCHANGED <<given, prepares, resources, addresses, MTA, RCTL, filters>>

Lists == UNION {[1 .. n -> {"memory", kind}] :
                   n \in 0 .. MaxResources, kind \in {"interrupt", "message"}}
Places(list, types) == {i \in DOMAIN list : list[i] \in types}
MapsEach(list) == Cardinality(Places(list, {"memory"}))  \* mutant
MapsFirst(list) == IF Places(list, {"memory"}) = {} THEN 0 ELSE 1
FirstInterrupts(list) ==
    {i \in Places(list, {"interrupt", "message"}) :
       Cardinality(Places(SubSeq(list, 1, i), {"interrupt", "message"})) <= MaxInterrupts}
MessagesTaken(list) == Cardinality(FirstInterrupts(list) \cap Places(list, {"message"}))

(* The loop ends early when an interrupt cannot be created: what comes     *)
(* before it in the list is taken. The registers may not be mapped.        *)
IgbGetResources ==
    /\ Now("resources")
    /\ \E list \in Lists, maps \in BOOLEAN, whole \in BOOLEAN, bus \in BOOLEAN :
         /\ mappings' = mappings + (IF maps THEN MapsFirst(list) ELSE 0)
         /\ MMIOAddress' = (MMIOAddress \/ (maps /\ MapsFirst(list) = 1))
         /\ interrupts' = Cardinality(FirstInterrupts(list))
         /\ MsiInterrupts' = MsiInterrupts + MessagesTaken(list)
         /\ IF whole /\ bus /\ MMIOAddress' /\ FirstInterrupts(list) # {} THEN Done ELSE Fails
    /\ UNCHANGED <<given, prepares, addresses, MTA, RCTL, filters>>

(* A reset turns reception off and loads RAR0; on the older parts an       *)
(* alternate address in NVM, should it be read, replaces it. It leaves the *)
(* multicast table to chance. Its result is not looked at.                 *)
e1000_reset_hw ==
    /\ Now("reset")
    /\ RCTL' = Off /\ MTA' \in {{}, {1}}
    /\ RAR0' \in (IF type = "82575" THEN {"nvm", "alternate"} ELSE {"nvm"})
    /\ Done
    /\ UNCHANGED <<given, prepares, resources, mac_addr, CurrentAddress, filters>>

e1000_read_mac_addr ==
    /\ Now("mac_address")
    /\ \/ Fails /\ UNCHANGED addresses
       \/ /\ RAR0' \in (IF type = "82575" THEN {RAR0, "alternate"} ELSE {RAR0})
          /\ mac_addr' = RAR0'
          /\ CurrentAddress' = IF configured = "none" THEN RAR0' ELSE configured
          /\ Done
    /\ UNCHANGED <<given, prepares, resources, MTA, RCTL, filters>>

(* IgbUpdateReceiveFilters with the filter of the former life: it leaves   *)
(* RCTL.                                                                   *)
Receives(rctl) ==
    LET promiscuous == "Promiscuous" \in PacketFilterFlags
        all == "AllMulticast" \in PacketFilterFlags
        broadcast == "Broadcast" \in PacketFilterFlags
    IN [rctl EXCEPT !.UPE = promiscuous, !.MPE = promiscuous \/ all,
                    !.BAM = @ \/ promiscuous \/ broadcast]

(* Address and table are left alone as long as everything is received.     *)
WritesAddresses ==
    IF "Promiscuous" \in PacketFilterFlags THEN UNCHANGED <<RAR0, MTA>>
    ELSE /\ RAR0' = CurrentAddress
         /\ MTA' = e1000_update_mc_addr_list_generic(
                     IF "Multicast" \in PacketFilterFlags THEN MCAddressList ELSE {})

(* e1000_init_hw then writes the address of the NVM into RAR0 and clears   *)
(* the multicast table, except on an I210 without flash whose PLL does not *)
(* start. What it returns is not looked at.                                *)
e1000_init_hw_base == RAR0' = mac_addr /\ MTA' = {}

IgbAdapterStart ==
    /\ Now("adapter_start")
    /\ RCTL' = Receives(RCTL)
    /\ e1000_init_hw_base \/ (type = "i210" /\ WritesAddresses)
    /\ Done \/ Fails
    /\ UNCHANGED <<given, prepares, resources, mac_addr, CurrentAddress, filters>>

EvtDeviceReleaseHardware ==
    /\ phase \in {"D3", "failed"}
    /\ phase' = IF phase = "failed" THEN "removed" ELSE "released"
    /\ mappings' = IF MMIOAddress THEN mappings - 1 ELSE mappings
    /\ MMIOAddress' = FALSE /\ interrupts' = 0
    /\ UNCHANGED <<given, next, prepares, MsiInterrupts, addresses, MTA, RCTL, filters>>
-----------------------------------------------------------------------------
(* Power. Asleep, the device forgets what was set; nothing sets it again   *)
(* but the client.                                                         *)

EvtDeviceD0Entry ==
    /\ phase = "D3"
    /\ phase' = "D0"
    /\ UNCHANGED <<given, next, prepares, resources, addresses, MTA, RCTL, filters>>

EvtDeviceD0Exit ==
    /\ phase = "D0" /\ filter = None /\ start = None
    /\ phase' = "D3"
    /\ RCTL' = Off /\ MTA' = {} /\ RAR0' = "nvm"
    /\ filtered' = FALSE /\ raced' = FALSE
    /\ UNCHANGED <<given, next, prepares, resources, mac_addr, CurrentAddress,
                   PacketFilterFlags, MCAddressList, filter, start>>
-----------------------------------------------------------------------------
(* Receive filters and the start of a receive queue. *)

EvtSetReceiveFilter ==
    /\ phase = "D0" /\ filter = None
    /\ \E flags \in SUBSET Flags, list \in SUBSET Multicast :
         PacketFilterFlags' = flags /\ MCAddressList' = list
    /\ filter' = [at |-> "update", rctl |-> RCTL]
    /\ raced' = (raced \/ start # None)
    /\ UNCHANGED <<given, phase, next, prepares, resources, addresses, MTA, RCTL, start,
                   filtered>>

IgbUpdateReceiveFilters ==
    /\ filter # None
    /\ WritesAddresses
    /\ RCTL' = Receives(filter.rctl)
    /\ filter' = None /\ filtered' = TRUE
    /\ UNCHANGED <<given, phase, next, prepares, resources, mac_addr, CurrentAddress,
                   PacketFilterFlags, MCAddressList, start, raced>>

EvtRxQueueStart ==
    /\ phase = "D0" /\ start = None
    /\ start' = [at |-> "enable", rctl |-> RCTL]
    /\ RCTL' = [RCTL EXCEPT !.EN = FALSE]
    /\ raced' = (raced \/ filter # None)
    /\ UNCHANGED <<given, phase, next, prepares, resources, addresses, MTA, PacketFilterFlags,
                   MCAddressList, filter, filtered>>

EnablesReceives ==
    /\ start # None
    /\ RCTL' = [start.rctl EXCEPT !.EN = TRUE, !.BAM = TRUE, !.MO = mc_filter_type]
    /\ start' = None
    /\ UNCHANGED <<given, phase, next, prepares, resources, addresses, MTA, PacketFilterFlags,
                   MCAddressList, filter, filtered, raced>>

Next ==
    \/ EvtDriverDeviceAdd \/ EvtDevicePrepareHardware \/ EvtDeviceReleaseHardware
    \/ e1000_setup_init_funcs \/ IgbGetResources \/ e1000_reset_hw \/ e1000_read_mac_addr
    \/ IgbAdapterStart \/ EvtDeviceD0Entry \/ EvtDeviceD0Exit
    \/ EvtSetReceiveFilter \/ IgbUpdateReceiveFilters \/ EvtRxQueueStart \/ EnablesReceives

Spec == Init /\ [][Next]_vars
-----------------------------------------------------------------------------
(* Where the driver sends the causes (IgbInterruptInitialize) and how many *)
(* receive queues it offers (IgbAdapterSetDatapathCapabilities).           *)

maxRxQueues == IF MsiInterrupts > 1 THEN Min({MaxRxQueues, MsiInterrupts - 1}) ELSE MaxRxQueues
Vectors == IF MsiInterrupts > 1 THEN (0 .. (maxRxQueues - 1)) \cup {MsiInterrupts - 1} ELSE {0}
-----------------------------------------------------------------------------
(* Properties. *)

(* Through every failure and every second life the registers are mapped    *)
(* once while the driver uses them and not at all when the device is       *)
(* released or gone; and in its first life every vector the driver uses is *)
(* of an interrupt it was given.                                           *)
ResourcesBalanced ==
    /\ mappings <= 1 /\ (MMIOAddress <=> mappings = 1)
    /\ phase \in {"new", "added", "released", "removed"} => mappings = 0
    /\ phase \in {"D3", "D0"} =>
         /\ mappings = 1
         /\ prepares = 1 => \A v \in Vectors : v < interrupts

(* What the device accepts: the bits of the address that RCTL.MO selects,  *)
(* 47 to 36 and on downwards, are a bit of the table.                      *)
Hashed(addr) ==
    LET from == CASE RCTL.MO = 0 -> 4 [] RCTL.MO = 1 -> 3 [] RCTL.MO = 2 -> 2 [] RCTL.MO = 3 -> 0
    IN ((addr[2] * 256 + addr[1]) \div 2 ^ from) % 4096
Accepts(addr) == RCTL.MPE \/ Hashed(addr) \in MTA

(* After any sequence of filters, in particular after promiscuous ones,    *)
(* which do not touch addresses: the device accepts what the latest filter *)
(* asks for, and nothing of the kind it does not ask for but broadcasts    *)
(* and what hashes alike. Not when a queue was started at the same time.   *)
FilterHonoured ==
    phase = "D0" /\ filtered /\ filter = None /\ start = None /\ ~raced /\ RCTL.EN =>
        /\ RCTL.UPE \/ RAR0 = CurrentAddress
        /\ RCTL.UPE => "Promiscuous" \in PacketFilterFlags
        /\ RCTL.MPE => PacketFilterFlags \cap {"Promiscuous", "AllMulticast"} # {}
        /\ "Promiscuous" \in PacketFilterFlags => RCTL.UPE /\ RCTL.MPE
        /\ "AllMulticast" \in PacketFilterFlags => RCTL.MPE
        /\ PacketFilterFlags \cap {"Promiscuous", "Broadcast"} # {} => RCTL.BAM
        /\ "Multicast" \in PacketFilterFlags => \A a \in MCAddressList : Accepts(a)
        /\ \A a \in Multicast : Accepts(a) /\ ~RCTL.MPE =>
             /\ "Multicast" \in PacketFilterFlags
             /\ \E asked \in MCAddressList : Hashed(a) = Hashed(asked)
=============================================================================
