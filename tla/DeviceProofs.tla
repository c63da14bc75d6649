---------------------------- MODULE DeviceProofs ----------------------------
(***************************************************************************)
(* Proofs about Device, for any number of interrupts, queues and resources,*)
(* any number of lives of the device and any multicast addresses.          *)
(***************************************************************************)
EXTENDS Device, FiniteSetTheorems, TLAPS

LEMMA Bounds ==
    /\ MaxInterrupts \in Nat /\ MaxRxQueues \in Nat /\ MaxRxQueues >= 1
    /\ MaxResources \in Nat /\ MaxPrepares \in Nat
    /\ \A a \in Multicast : a[1] \in 0 .. 255 /\ a[2] \in 0 .. 255
BY DeviceAssumption
-----------------------------------------------------------------------------
(* The registers and the interrupts. *)

(* What is left of EvtDevicePrepareHardware before the resources are       *)
(* taken, and after.                                                       *)
All == <<"open_configuration", "resources", "init_funcs", "dma", "reset", "mac_address",
         "adapter_start">>
FromResources == <<"resources", "init_funcs", "dma", "reset", "mac_address", "adapter_start">>
FromInitFuncs == <<"init_funcs", "dma", "reset", "mac_address", "adapter_start">>
FromDma == <<"dma", "reset", "mac_address", "adapter_start">>
FromReset == <<"reset", "mac_address", "adapter_start">>
FromMacAddress == <<"mac_address", "adapter_start">>
FromAdapterStart == <<"adapter_start">>

BeforeResources == {All, FromResources}
AfterResources == {FromInitFuncs, FromDma, FromReset, FromMacAddress, FromAdapterStart}

(* Their first steps, and what is left after these. *)
LEMMA Rests ==
    /\ Head(All) = "open_configuration" /\ Tail(All) = FromResources
    /\ Head(FromResources) = "resources" /\ Tail(FromResources) = FromInitFuncs
    /\ Head(FromInitFuncs) = "init_funcs" /\ Tail(FromInitFuncs) = FromDma
    /\ Head(FromDma) = "dma" /\ Tail(FromDma) = FromReset
    /\ Head(FromReset) = "reset" /\ Tail(FromReset) = FromMacAddress
    /\ Head(FromMacAddress) = "mac_address" /\ Tail(FromMacAddress) = FromAdapterStart
    /\ Head(FromAdapterStart) = "adapter_start" /\ Tail(FromAdapterStart) = <<>>
<1>1. Head(All) = "open_configuration"
  BY DEF All
<1>11. Tail(All) = FromResources
  BY DEF All, FromResources
<1>2. Head(FromResources) = "resources"
  BY DEF FromResources
<1>12. Tail(FromResources) = FromInitFuncs
  BY DEF FromResources, FromInitFuncs
<1>3. Head(FromInitFuncs) = "init_funcs"
  BY DEF FromInitFuncs
<1>13. Tail(FromInitFuncs) = FromDma
  BY DEF FromInitFuncs, FromDma
<1>4. Head(FromDma) = "dma"
  BY DEF FromDma
<1>14. Tail(FromDma) = FromReset
  BY DEF FromDma, FromReset
<1>5. Head(FromReset) = "reset"
  BY DEF FromReset
<1>15. Tail(FromReset) = FromMacAddress
  BY DEF FromReset, FromMacAddress
<1>6. Head(FromMacAddress) = "mac_address"
  BY DEF FromMacAddress
<1>16. Tail(FromMacAddress) = FromAdapterStart
  BY DEF FromMacAddress, FromAdapterStart
<1>7. Head(FromAdapterStart) = "adapter_start"
  BY DEF FromAdapterStart
<1>17. Tail(FromAdapterStart) = <<>>
  BY DEF FromAdapterStart
<1>8. QED
  BY <1>1, <1>2, <1>3, <1>4, <1>5, <1>6, <1>7,
     <1>11, <1>12, <1>13, <1>14, <1>15, <1>16, <1>17

LEMMA RestsDiffer ==
    /\ BeforeResources \cap AfterResources = {}
    /\ <<>> \notin BeforeResources \cup AfterResources
<1>1. BeforeResources \cap AfterResources = {}
  BY Rests DEF BeforeResources, AfterResources
<1>2. <<>> \notin BeforeResources \cup AfterResources
  BY DEF BeforeResources, AfterResources, All, FromResources, FromInitFuncs, FromDma, FromReset,
         FromMacAddress, FromAdapterStart
<1>3. QED
  BY <1>1, <1>2

(* In its first life the device has an interrupt for every message it      *)
(* counts, and one in any case.                                            *)
Counted == prepares = 1 => 1 <= interrupts /\ MsiInterrupts <= interrupts

ResourcesInvariant ==
    /\ prepares \in Nat /\ interrupts \in Nat /\ MsiInterrupts \in Nat
    /\ MMIOAddress \in BOOLEAN
    /\ (MMIOAddress => mappings = 1) /\ (~MMIOAddress => mappings = 0)
    /\ phase \in {"new", "added", "preparing", "failed", "D3", "D0", "released", "removed"}
    /\ phase \in {"new", "added", "released", "removed"} => ~MMIOAddress
    /\ phase \in {"new", "added"} => prepares = 0 /\ MsiInterrupts = 0
    /\ phase \in {"released", "preparing", "D3", "D0"} => prepares >= 1
    /\ phase = "preparing" =>
         \/ /\ next \in BeforeResources /\ ~MMIOAddress
            /\ prepares = 1 => MsiInterrupts = 0
         \/ next \in AfterResources /\ MMIOAddress /\ Counted
    /\ phase \in {"D3", "D0"} => MMIOAddress /\ Counted

(* The next step of EvtDevicePrepareHardware. *)
LEMMA StepsInOrder ==
    ASSUME ResourcesInvariant, NEW step, Now(step)
    PROVE  /\ step = "open_configuration" =>
                /\ next \in BeforeResources /\ Tail(next) \in BeforeResources
           /\ step = "resources" => next \in BeforeResources /\ Tail(next) \in AfterResources
           /\ step \in {"init_funcs", "dma", "reset", "mac_address", "adapter_start"} =>
                /\ next \in AfterResources
                /\ Tail(next) \in AfterResources \/ Tail(next) = <<>>
<1>1. /\ next \in BeforeResources \cup AfterResources /\ Head(next) = step
  BY DEF Now, ResourcesInvariant
<1>2. CASE next \in BeforeResources
  BY <1>1, <1>2, Rests DEF BeforeResources, AfterResources
<1>3. CASE next \in AfterResources
  BY <1>1, <1>3, Rests DEF AfterResources
<1>4. QED
  BY <1>1, <1>2, <1>3

(* A step that is done or fails and takes no resources. *)
LEMMA StepKeepsResources ==
    ASSUME ResourcesInvariant, NEW step, Now(step), step # "resources",
           step \in {"open_configuration", "init_funcs", "dma", "reset", "mac_address",
                     "adapter_start"},
           Done \/ Fails, UNCHANGED <<prepares, resources>>
    PROVE  ResourcesInvariant'
<1>1. phase = "preparing" /\ UNCHANGED <<prepares, mappings, MMIOAddress, interrupts, MsiInterrupts>>
  BY DEF Now, resources
<1>2. CASE Fails
  BY <1>1, <1>2 DEF Fails, ResourcesInvariant
<1>3. CASE Done /\ step = "open_configuration"
  <2>1. next \in BeforeResources /\ next' = Tail(next) /\ next' \in BeforeResources
    BY <1>3, StepsInOrder DEF Done
  <2>2. next' # <<>> /\ phase' = phase
    BY <1>3, <2>1, RestsDiffer DEF Done
  <2>3. next \notin AfterResources
    BY <2>1, RestsDiffer
  <2>4. QED
    BY <1>1, <2>1, <2>2, <2>3 DEF ResourcesInvariant
<1>4. CASE Done /\ step # "open_configuration"
  <2>1. /\ next \in AfterResources /\ next' = Tail(next)
        /\ next' \in AfterResources \/ next' = <<>>
    BY <1>4, StepsInOrder DEF Done
  <2>2. phase' = IF next' = <<>> THEN "D3" ELSE "preparing"
    BY <1>1, <1>4 DEF Done
  <2>3. next \notin BeforeResources
    BY <2>1, RestsDiffer
  <2>4. MMIOAddress /\ Counted
    BY <1>1, <2>3 DEF ResourcesInvariant
  <2>5. MMIOAddress' /\ Counted'
    BY <1>1, <2>4 DEF Counted
  <2>6. QED
    BY <1>1, <2>1, <2>2, <2>5 DEF ResourcesInvariant
<1>5. QED
  BY <1>2, <1>3, <1>4

(* The interrupts taken from a list, and the messages among them. *)
LEMMA InterruptsTaken ==
    ASSUME NEW list \in Lists
    PROVE  /\ Cardinality(FirstInterrupts(list)) \in Nat
           /\ MessagesTaken(list) \in Nat
           /\ MessagesTaken(list) <= Cardinality(FirstInterrupts(list))
           /\ FirstInterrupts(list) # {} => 1 <= Cardinality(FirstInterrupts(list))
           /\ MapsFirst(list) \in {0, 1}
<1>1. PICK n \in Nat : DOMAIN list = 1 .. n
  BY Bounds DEF Lists
<1>2. IsFiniteSet(DOMAIN list)
  BY <1>1, FS_Interval
<1>3. FirstInterrupts(list) \subseteq DOMAIN list
  BY DEF FirstInterrupts, Places
<1>4. IsFiniteSet(FirstInterrupts(list)) /\ Cardinality(FirstInterrupts(list)) \in Nat
  BY <1>2, <1>3, FS_Subset, FS_CardinalityType
<1>5. /\ MessagesTaken(list) \in Nat
      /\ MessagesTaken(list) <= Cardinality(FirstInterrupts(list))
  <2>1. FirstInterrupts(list) \cap Places(list, {"message"}) \subseteq FirstInterrupts(list)
    OBVIOUS
  <2>2. QED
    BY <1>4, <2>1, FS_Subset, FS_CardinalityType DEF MessagesTaken
<1>6. FirstInterrupts(list) # {} => 1 <= Cardinality(FirstInterrupts(list))
  BY <1>4, FS_EmptySet
<1>7. MapsFirst(list) \in {0, 1}
  BY DEF MapsFirst
<1>8. QED
  BY <1>4, <1>5, <1>6, <1>7

LEMMA ResourcesTaken ==
    ASSUME ResourcesInvariant, IgbGetResources
    PROVE  ResourcesInvariant'
<1>1. PICK list \in Lists, maps \in BOOLEAN, whole \in BOOLEAN, bus \in BOOLEAN :
        /\ mappings' = mappings + (IF maps THEN MapsFirst(list) ELSE 0)
        /\ MMIOAddress' = (MMIOAddress \/ (maps /\ MapsFirst(list) = 1))
        /\ interrupts' = Cardinality(FirstInterrupts(list))
        /\ MsiInterrupts' = MsiInterrupts + MessagesTaken(list)
        /\ IF whole /\ bus /\ MMIOAddress' /\ FirstInterrupts(list) # {} THEN Done ELSE Fails
  BY DEF IgbGetResources
<1>2. /\ Now("resources") /\ phase = "preparing" /\ prepares' = prepares
      /\ next \in BeforeResources /\ Tail(next) \in AfterResources
  BY StepsInOrder DEF IgbGetResources, Now
<1>3. next \notin AfterResources
  BY <1>2, RestsDiffer
<1>4. ~MMIOAddress /\ mappings = 0 /\ (prepares = 1 => MsiInterrupts = 0) /\ MsiInterrupts \in Nat
  BY <1>2, <1>3 DEF ResourcesInvariant
<1>5. /\ MMIOAddress' \in BOOLEAN
      /\ (MMIOAddress' => mappings' = 1) /\ (~MMIOAddress' => mappings' = 0)
  <2>1. MMIOAddress' <=> maps /\ MapsFirst(list) = 1
    BY <1>1, <1>4
  <2>2. MMIOAddress' \in BOOLEAN
    BY <1>1
  <2>3. mappings' = IF maps THEN MapsFirst(list) ELSE 0
    BY <1>1, <1>4, InterruptsTaken
  <2>4. QED
    BY <2>1, <2>2, <2>3, InterruptsTaken
<1>9. interrupts' \in Nat /\ MsiInterrupts' \in Nat
  BY <1>1, <1>4, InterruptsTaken
<1>6. CASE Fails
  BY <1>2, <1>5, <1>6, <1>9 DEF Fails, ResourcesInvariant
<1>7. CASE Done /\ MMIOAddress' /\ FirstInterrupts(list) # {}
  <2>1. next' \in AfterResources /\ phase' = "preparing"
    BY <1>2, <1>7, RestsDiffer DEF Done
  <2>2. Counted'
    BY <1>1, <1>2, <1>4, <1>7, InterruptsTaken DEF Counted
  <2>3. QED
    BY <1>2, <1>5, <1>7, <1>9, <2>1, <2>2 DEF ResourcesInvariant
<1>8. QED
  BY <1>1, <1>6, <1>7

LEMMA NextResources == ResourcesInvariant /\ [Next]_vars => ResourcesInvariant'
<1> SUFFICES ASSUME ResourcesInvariant, [Next]_vars PROVE ResourcesInvariant'
  OBVIOUS
<1>1. CASE EvtDriverDeviceAdd
  BY <1>1 DEF EvtDriverDeviceAdd, ResourcesInvariant, resources
<1>2. CASE EvtDevicePrepareHardware
  <2>1. /\ phase \in {"added", "released"} /\ phase' = "preparing" /\ prepares' = prepares + 1
        /\ next' \in BeforeResources
        /\ UNCHANGED <<mappings, MMIOAddress, interrupts, MsiInterrupts>>
    BY <1>2 DEF EvtDevicePrepareHardware, IgbInitializeHardware, BeforeResources, All, resources
  <2>2. prepares' = 1 => MsiInterrupts' = 0
    BY <2>1 DEF ResourcesInvariant
  <2>3. QED
    BY <2>1, <2>2 DEF ResourcesInvariant
<1>3. CASE EvtDeviceReleaseHardware
  <2>1. /\ phase \in {"D3", "failed"} /\ phase' \in {"removed", "released"}
        /\ phase' = "released" => phase = "D3"
        /\ MMIOAddress' = FALSE /\ interrupts' = 0
        /\ UNCHANGED <<prepares, MsiInterrupts>>
    BY <1>3 DEF EvtDeviceReleaseHardware
  <2>2. mappings' = 0
    <3>1. mappings' = IF MMIOAddress THEN mappings - 1 ELSE mappings
      BY <1>3 DEF EvtDeviceReleaseHardware
    <3>2. QED
      BY <3>1 DEF ResourcesInvariant
  <2>3. QED
    BY <2>1, <2>2 DEF ResourcesInvariant
<1>4. CASE e1000_setup_init_funcs
  <2>1. PICK step \in {"open_configuration", "init_funcs", "dma"} : Now(step)
    BY <1>4 DEF e1000_setup_init_funcs
  <2>2. (Done \/ Fails) /\ UNCHANGED <<prepares, resources>>
    BY <1>4 DEF e1000_setup_init_funcs
  <2>3. QED
    BY <2>1, <2>2, StepKeepsResources
<1>5. CASE IgbGetResources
  BY <1>5, ResourcesTaken
<1>6. CASE e1000_reset_hw
  BY <1>6, StepKeepsResources DEF e1000_reset_hw
<1>7. CASE e1000_read_mac_addr
  BY <1>7, StepKeepsResources DEF e1000_read_mac_addr
<1>8. CASE IgbAdapterStart
  BY <1>8, StepKeepsResources DEF IgbAdapterStart
<1>9. CASE EvtDeviceD0Entry \/ EvtDeviceD0Exit
  BY <1>9 DEF EvtDeviceD0Entry, EvtDeviceD0Exit, ResourcesInvariant, Counted, resources
<1>10. CASE \/ EvtSetReceiveFilter \/ IgbUpdateReceiveFilters \/ EvtRxQueueStart
            \/ EnablesReceives \/ UNCHANGED vars
  <2>1. UNCHANGED <<phase, next, prepares, resources>>
    BY <1>10 DEF EvtSetReceiveFilter, IgbUpdateReceiveFilters, EvtRxQueueStart,
                 EnablesReceives, vars
  <2>2. QED
    BY <2>1 DEF ResourcesInvariant, Counted, resources
<1>11. QED
  BY <1>1, <1>2, <1>3, <1>4, <1>5, <1>6, <1>7, <1>8, <1>9, <1>10 DEF Next

LEMMA MinOfTwo ==
    ASSUME NEW a \in Nat, NEW b \in Nat
    PROVE  Min({a, b}) \in {a, b} /\ Min({a, b}) <= a /\ Min({a, b}) <= b
BY DEF Min

(* Whatever fails and however often hardware is prepared, the registers    *)
(* are mapped once while they are used; a first life uses no vector        *)
(* without an interrupt.                                                   *)
THEOREM ResourcesAreBalanced == Spec => []ResourcesBalanced
<1>1. Init => ResourcesInvariant
  <2> SUFFICES ASSUME Init PROVE ResourcesInvariant
    OBVIOUS
  <2>1. /\ phase = "new" /\ prepares = 0 /\ interrupts = 0 /\ MsiInterrupts = 0
        /\ mappings = 0
    BY DEF Init
  <2>2. MMIOAddress = FALSE
    BY DEF Init
  <2>3. MMIOAddress \in BOOLEAN /\ ~MMIOAddress
    BY <2>2
  <2>4. QED
    BY <2>1, <2>3 DEF ResourcesInvariant
<1>2. ResourcesInvariant => ResourcesBalanced
  <2> SUFFICES ASSUME ResourcesInvariant PROVE ResourcesBalanced
    OBVIOUS
  <2>1. ASSUME phase \in {"D3", "D0"}, prepares = 1, NEW v \in Vectors
        PROVE  v < interrupts
    <3>1. 1 <= interrupts /\ MsiInterrupts <= interrupts /\ interrupts \in Nat
          /\ MsiInterrupts \in Nat
      BY <2>1 DEF ResourcesInvariant, Counted
    <3>2. CASE MsiInterrupts > 1
      <4>1. maxRxQueues \in Nat /\ maxRxQueues <= MsiInterrupts - 1
        BY <3>1, <3>2, Bounds, MinOfTwo DEF maxRxQueues
      <4>2. v \in 0 .. (maxRxQueues - 1) \/ v = MsiInterrupts - 1
        BY <2>1, <3>2 DEF Vectors
      <4>3. QED
        BY <3>1, <4>1, <4>2
    <3>3. CASE ~(MsiInterrupts > 1)
      BY <2>1, <3>1, <3>3 DEF Vectors
    <3>4. QED
      BY <3>2, <3>3
  <2>2. QED
    BY <2>1 DEF ResourcesInvariant, ResourcesBalanced
<1>3. QED
  BY <1>1, <1>2, NextResources, PTL DEF Spec
-----------------------------------------------------------------------------
(* The receive filters. *)

RctlType == [EN : BOOLEAN, UPE : BOOLEAN, MPE : BOOLEAN, BAM : BOOLEAN, MO : 0 .. 3]

FilterTypes ==
    /\ mc_filter_type \in 0 .. 3
    /\ RCTL \in RctlType
    /\ filter \in [at : {"idle", "update"}, rctl : RctlType]
    /\ start \in [at : {"idle", "enable"}, rctl : RctlType]
    /\ PacketFilterFlags \subseteq Flags /\ MCAddressList \subseteq Multicast

(* Filters are set and queues started while the device has power.          *)
OnlyInD0 == phase # "D0" => filter = None /\ start = None /\ ~filtered /\ ~raced

(* What either has read of RCTL is still in it, but for the bit a start    *)
(* clears, as long as the other does not run meanwhile.                    *)
ReadIsKept ==
    ~raced =>
      /\ start # None => filter = None /\ RCTL = [start.rctl EXCEPT !.EN = FALSE]
      /\ filter # None => filter.rctl = RCTL

(* Whoever receives hashes as the driver does.                             *)
HashSelected == ~raced /\ RCTL.EN => RCTL.MO = mc_filter_type

(* What the latest filter has left, whether or not a queue is being        *)
(* started.                                                                *)
Asked == IF "Multicast" \in PacketFilterFlags THEN MCAddressList ELSE {}
FilterSet ==
    filtered /\ filter = None /\ ~raced =>
      /\ RCTL.UPE <=> "Promiscuous" \in PacketFilterFlags
      /\ RCTL.MPE <=> PacketFilterFlags \cap {"Promiscuous", "AllMulticast"} # {}
      /\ PacketFilterFlags \cap {"Promiscuous", "Broadcast"} # {} => RCTL.BAM
      /\ "Promiscuous" \notin PacketFilterFlags =>
           RAR0 = CurrentAddress /\ MTA = e1000_update_mc_addr_list_generic(Asked)

FilterInvariant ==
    FilterTypes /\ OnlyInD0 /\ ReadIsKept /\ HashSelected /\ FilterSet

(* The mask of a table of 4096 bits leaves 0xFF after four shifts.         *)
LEMMA FourBits == BitShift = 4
<1>1. MtaRegCount * 32 - 1 = 4095
  BY DEF MtaRegCount
<1>2. 2 ^ 1 = 2 /\ 2 ^ 2 = 4 /\ 2 ^ 3 = 8 /\ 2 ^ 4 = 16
  OBVIOUS
<1>3. 4095 \div 2 # 255 /\ 4095 \div 4 # 255 /\ 4095 \div 8 # 255 /\ 4095 \div 16 = 255
  OBVIOUS
<1>4. ASSUME NEW s \in 1 .. 4 PROVE 4095 \div 2 ^ s = 255 <=> s = 4
  <2>1. s = 1 \/ s = 2 \/ s = 3 \/ s = 4
    OBVIOUS
  <2>2. CASE s = 1
    BY <1>2, <1>3, <2>2
  <2>3. CASE s = 2
    BY <1>2, <1>3, <2>3
  <2>4. CASE s = 3
    BY <1>2, <1>3, <2>4
  <2>5. CASE s = 4
    BY <1>2, <1>3, <2>5
  <2>6. QED
    BY <2>1, <2>2, <2>3, <2>4, <2>5
<1>5. {s \in 1 .. 4 : 4095 \div 2 ^ s = 255} = {4}
  <2> DEFINE P(s) == 4095 \div 2 ^ s = 255
  <2>1. \A s \in 1 .. 4 : P(s) <=> s = 4
    BY <1>4
  <2>2. 4 \in 1 .. 4
    OBVIOUS
  <2> HIDE DEF P
  <2>3. {s \in 1 .. 4 : P(s)} = {4}
    BY <2>1, <2>2
  <2>4. QED
    BY <2>3 DEF P
<1>6. Min({4}) = 4
  BY DEF Min
<1> DEFINE fits == {s \in 1 .. 4 : (MtaRegCount * 32 - 1) \div 2 ^ s = 255}
<1>7. fits = {4}
  BY <1>1, <1>5
<1>8. BitShift = IF fits = {} THEN 4 ELSE Min(fits)
  BY DEF BitShift
<1> HIDE DEF fits
<1>9. QED
  BY <1>6, <1>7, <1>8

(* The driver sets the bit of the table the device looks at.               *)
LEMMA HashesAgree ==
    ASSUME mc_filter_type \in 0 .. 3, RCTL.MO = mc_filter_type,
           NEW a \in (0 .. 255) \X (0 .. 255)
    PROVE  Hashed(a) = e1000_hash_mc_addr_generic(a)
<1> DEFINE low == a[1]
           high == a[2]
<1>1. low \in 0 .. 255 /\ high \in 0 .. 255
  OBVIOUS
<1>2. MtaRegCount * 32 = 4096
  BY DEF MtaRegCount
<1>3. e1000_hash_mc_addr_generic(a) =
        (low \div 2 ^ (8 - (4 + ExtraShift)) + high * 2 ^ (4 + ExtraShift)) % 4096
  BY <1>2, FourBits DEF e1000_hash_mc_addr_generic
<1>4. mc_filter_type = 0 \/ mc_filter_type = 1 \/ mc_filter_type = 2 \/ mc_filter_type = 3
  OBVIOUS
<1> DEFINE from == CASE RCTL.MO = 0 -> 4 [] RCTL.MO = 1 -> 3 [] RCTL.MO = 2 -> 2
                     [] RCTL.MO = 3 -> 0
<1>5. Hashed(a) = ((high * 256 + low) \div 2 ^ from) % 4096
  BY DEF Hashed
<1> HIDE DEF low, high
<1>6. CASE mc_filter_type = 0
  <2>1. ExtraShift = 0 /\ from = 4
    BY <1>6 DEF ExtraShift
  <2>2. 2 ^ (8 - (4 + 0)) = 16 /\ 2 ^ (4 + 0) = 16 /\ 2 ^ 4 = 16
    OBVIOUS
  <2>3. (high * 256 + low) \div 16 = low \div 16 + high * 16
    BY <1>1
  <2>4. QED
    BY <1>3, <1>5, <2>1, <2>2, <2>3
<1>7. CASE mc_filter_type = 1
  <2>1. ExtraShift = 1 /\ from = 3
    BY <1>7 DEF ExtraShift
  <2>2. 2 ^ (8 - (4 + 1)) = 8 /\ 2 ^ (4 + 1) = 32 /\ 2 ^ 3 = 8
    OBVIOUS
  <2>3. (high * 256 + low) \div 8 = low \div 8 + high * 32
    BY <1>1
  <2>4. QED
    BY <1>3, <1>5, <2>1, <2>2, <2>3
<1>8. CASE mc_filter_type = 2
  <2>1. ExtraShift = 2 /\ from = 2
    BY <1>8 DEF ExtraShift
  <2>2. 2 ^ (8 - (4 + 2)) = 4 /\ 2 ^ (4 + 2) = 64 /\ 2 ^ 2 = 4
    OBVIOUS
  <2>3. (high * 256 + low) \div 4 = low \div 4 + high * 64
    BY <1>1
  <2>4. QED
    BY <1>3, <1>5, <2>1, <2>2, <2>3
<1>9. CASE mc_filter_type = 3
  <2>1. ExtraShift = 4 /\ from = 0
    BY <1>9 DEF ExtraShift
  <2>2. 2 ^ (8 - (4 + 4)) = 1 /\ 2 ^ (4 + 4) = 256 /\ 2 ^ 0 = 1
    OBVIOUS
  <2>3. (high * 256 + low) \div 1 = low \div 1 + high * 256
    BY <1>1
  <2>4. QED
    BY <1>3, <1>5, <2>1, <2>2, <2>3
<1>10. QED
  BY <1>4, <1>6, <1>7, <1>8, <1>9

(* What a filter writes into RCTL.                                         *)
LEMMA ReceivesFields ==
    ASSUME NEW rctl \in RctlType
    PROVE  /\ Receives(rctl) \in RctlType
           /\ Receives(rctl).EN = rctl.EN /\ Receives(rctl).MO = rctl.MO
           /\ Receives(rctl).UPE <=> "Promiscuous" \in PacketFilterFlags
           /\ Receives(rctl).MPE <=> PacketFilterFlags \cap {"Promiscuous", "AllMulticast"} # {}
           /\ PacketFilterFlags \cap {"Promiscuous", "Broadcast"} # {} => Receives(rctl).BAM
<1> DEFINE promiscuous == "Promiscuous" \in PacketFilterFlags
           all == "AllMulticast" \in PacketFilterFlags
           broadcast == "Broadcast" \in PacketFilterFlags
           multicast == promiscuous \/ all
           broadcasts == rctl.BAM \/ promiscuous \/ broadcast
<1>1. Receives(rctl) = [rctl EXCEPT !.UPE = promiscuous, !.MPE = multicast, !.BAM = broadcasts]
  BY DEF Receives
<1>2. /\ promiscuous \in BOOLEAN /\ multicast \in BOOLEAN /\ broadcasts \in BOOLEAN
      /\ multicast <=> PacketFilterFlags \cap {"Promiscuous", "AllMulticast"} # {}
      /\ PacketFilterFlags \cap {"Promiscuous", "Broadcast"} # {} => broadcasts
  OBVIOUS
<1>3. rctl.EN \in BOOLEAN /\ rctl.MO \in 0 .. 3
  BY DEF RctlType
<1> HIDE DEF promiscuous, multicast, broadcasts
<1>4. Receives(rctl) = [EN |-> rctl.EN, UPE |-> promiscuous, MPE |-> multicast,
                        BAM |-> broadcasts, MO |-> rctl.MO]
  BY <1>1 DEF RctlType
<1>5. Receives(rctl) \in RctlType
  BY <1>2, <1>3, <1>4 DEF RctlType
<1>6. /\ Receives(rctl).EN = rctl.EN /\ Receives(rctl).MO = rctl.MO
      /\ Receives(rctl).UPE = promiscuous /\ Receives(rctl).MPE = multicast
      /\ Receives(rctl).BAM = broadcasts
  BY <1>4
<1>7. promiscuous <=> "Promiscuous" \in PacketFilterFlags
  BY DEF promiscuous
<1>10. QED
  BY <1>2, <1>5, <1>6, <1>7

LEMMA OffTyped == Off \in RctlType /\ ~Off.EN /\ None.at = "idle" /\ None.rctl = Off
BY DEF Off, None, RctlType

LEMMA FilterInit == Init => FilterInvariant
<1> SUFFICES ASSUME Init PROVE FilterInvariant
  OBVIOUS
<1>1. /\ mc_filter_type \in 0 .. 3 /\ RCTL = Off /\ filter = None /\ start = None
      /\ PacketFilterFlags = {} /\ MCAddressList = {} /\ filtered = FALSE /\ raced = FALSE
  BY DEF Init
<1>2. ~filtered /\ ~raced
  BY <1>1
<1>3. None \in [at : {"idle", "update"}, rctl : RctlType]
      /\ None \in [at : {"idle", "enable"}, rctl : RctlType]
  BY OffTyped DEF None
<1>4. FilterTypes
  BY <1>1, <1>3, OffTyped DEF FilterTypes
<1>5. OnlyInD0 /\ ReadIsKept /\ HashSelected /\ FilterSet
  BY <1>1, <1>2, OffTyped DEF OnlyInD0, ReadIsKept, HashSelected, FilterSet
<1>6. QED
  BY <1>4, <1>5 DEF FilterInvariant

(* Before power, what a step does to the device matters only in that it    *)
(* keeps reception as it is, or turns it off.                              *)
LEMMA WithoutPower ==
    ASSUME FilterInvariant, phase # "D0", phase' # "D0",
           UNCHANGED <<given, filters>>, RCTL' \in RctlType,
           RCTL'.EN => RCTL.EN /\ RCTL'.MO = RCTL.MO
    PROVE  FilterInvariant'
<1>1. filter = None /\ start = None /\ ~filtered /\ ~raced
  BY DEF FilterInvariant, OnlyInD0
<1>2. filter' = None /\ start' = None /\ ~filtered' /\ ~raced'
  BY <1>1 DEF filters
<1>3. FilterTypes'
  BY DEF FilterInvariant, FilterTypes, filters, given
<1>4. HashSelected'
  BY <1>1 DEF FilterInvariant, HashSelected, given
<1>5. OnlyInD0' /\ ReadIsKept' /\ FilterSet'
  BY <1>2 DEF OnlyInD0, ReadIsKept, FilterSet
<1>6. QED
  BY <1>3, <1>4, <1>5 DEF FilterInvariant

(* What the table holds does not change while RCTL only is written.        *)
LEMMA TableKept ==
    ASSUME mc_filter_type' = mc_filter_type, PacketFilterFlags' = PacketFilterFlags,
           MCAddressList' = MCAddressList
    PROVE  e1000_update_mc_addr_list_generic(Asked)' = e1000_update_mc_addr_list_generic(Asked)
BY DEF e1000_update_mc_addr_list_generic, e1000_hash_mc_addr_generic, Asked, ExtraShift

LEMMA FilterQuiet ==
    ASSUME FilterInvariant, UNCHANGED <<given, RAR0, CurrentAddress, MTA, RCTL, filters>>,
           phase' = "D0" \/ phase' = phase
    PROVE  FilterInvariant'
<1>1. /\ mc_filter_type' = mc_filter_type /\ RCTL' = RCTL /\ filter' = filter
      /\ start' = start /\ PacketFilterFlags' = PacketFilterFlags
      /\ MCAddressList' = MCAddressList /\ filtered' = filtered /\ raced' = raced
      /\ RAR0' = RAR0 /\ CurrentAddress' = CurrentAddress /\ MTA' = MTA
  BY DEF given, filters
<1>2. FilterTypes' /\ ReadIsKept' /\ HashSelected' /\ OnlyInD0'
  BY <1>1 DEF FilterInvariant, FilterTypes, ReadIsKept, HashSelected, OnlyInD0
<1>3. e1000_update_mc_addr_list_generic(Asked)' = e1000_update_mc_addr_list_generic(Asked)
  BY <1>1, TableKept
<1>4. FilterSet'
  BY <1>1, <1>3 DEF FilterInvariant, FilterSet
<1>5. QED
  BY <1>2, <1>4 DEF FilterInvariant

(* The steps of the device's life. *)
LEMMA FilterLife ==
    ASSUME FilterInvariant,
           \/ EvtDriverDeviceAdd \/ EvtDevicePrepareHardware \/ EvtDeviceReleaseHardware
           \/ e1000_setup_init_funcs \/ IgbGetResources \/ e1000_reset_hw
           \/ e1000_read_mac_addr \/ IgbAdapterStart \/ EvtDeviceD0Entry \/ EvtDeviceD0Exit
    PROVE  FilterInvariant'
<1>1. RCTL \in RctlType
  BY DEF FilterInvariant, FilterTypes
<1>2. CASE EvtDriverDeviceAdd \/ EvtDevicePrepareHardware \/ EvtDeviceReleaseHardware
  <2>1. /\ phase # "D0" /\ phase' # "D0" /\ UNCHANGED <<given, filters>> /\ RCTL' = RCTL
    BY <1>2 DEF EvtDriverDeviceAdd, EvtDevicePrepareHardware, EvtDeviceReleaseHardware
  <2>2. QED
    BY <1>1, <2>1, WithoutPower
<1>3. CASE e1000_setup_init_funcs \/ IgbGetResources \/ e1000_read_mac_addr
  <2>1. phase = "preparing" /\ (Done \/ Fails) /\ UNCHANGED <<given, filters>> /\ RCTL' = RCTL
    BY <1>3 DEF e1000_setup_init_funcs, IgbGetResources, e1000_read_mac_addr, Now
  <2>2. phase # "D0" /\ phase' # "D0"
    BY <2>1 DEF Done, Fails
  <2>3. QED
    BY <1>1, <2>1, <2>2, WithoutPower
<1>4. CASE e1000_reset_hw
  <2>1. phase = "preparing" /\ Done /\ UNCHANGED <<given, filters>> /\ RCTL' = Off
    BY <1>4 DEF e1000_reset_hw, Now
  <2>2. phase # "D0" /\ phase' # "D0"
    BY <2>1 DEF Done
  <2>3. QED
    BY <2>1, <2>2, OffTyped, WithoutPower
<1>5. CASE IgbAdapterStart
  <2>1. phase = "preparing" /\ (Done \/ Fails) /\ UNCHANGED <<given, filters>>
        /\ RCTL' = Receives(RCTL)
    BY <1>5 DEF IgbAdapterStart, Now
  <2>2. phase # "D0" /\ phase' # "D0"
    BY <2>1 DEF Done, Fails
  <2>3. Receives(RCTL) \in RctlType /\ Receives(RCTL).EN = RCTL.EN
        /\ Receives(RCTL).MO = RCTL.MO
    BY <1>1, ReceivesFields
  <2>4. QED
    BY <2>1, <2>2, <2>3, WithoutPower
<1>6. CASE EvtDeviceD0Entry
  <2>1. phase' = "D0" /\ UNCHANGED <<given, RAR0, CurrentAddress, MTA, RCTL, filters>>
    BY <1>6 DEF EvtDeviceD0Entry, addresses
  <2>2. QED
    BY <2>1, FilterQuiet
<1>7. CASE EvtDeviceD0Exit
  <2>1. /\ filter' = None /\ start' = None /\ filtered' = FALSE /\ raced' = FALSE
        /\ RCTL' = Off /\ mc_filter_type' = mc_filter_type
        /\ PacketFilterFlags' = PacketFilterFlags /\ MCAddressList' = MCAddressList
    BY <1>7 DEF EvtDeviceD0Exit, given
  <2>2. ~filtered' /\ ~raced'
    BY <2>1
  <2>3. None \in [at : {"idle", "update"}, rctl : RctlType]
        /\ None \in [at : {"idle", "enable"}, rctl : RctlType]
    BY OffTyped DEF None
  <2>4. FilterTypes'
    BY <2>1, <2>3, OffTyped DEF FilterInvariant, FilterTypes
  <2>5. OnlyInD0' /\ ReadIsKept' /\ HashSelected' /\ FilterSet'
    BY <2>1, <2>2, OffTyped DEF OnlyInD0, ReadIsKept, HashSelected, FilterSet
  <2>6. QED
    BY <2>4, <2>5 DEF FilterInvariant
<1>8. QED
  BY <1>2, <1>3, <1>4, <1>5, <1>6, <1>7

(* The four steps of the client. *)
LEMMA FilterBegins == FilterInvariant /\ EvtSetReceiveFilter => FilterInvariant'
<1> SUFFICES ASSUME FilterInvariant, EvtSetReceiveFilter PROVE FilterInvariant'
  OBVIOUS
<1>1. /\ phase = "D0" /\ filter = None /\ filter' = [at |-> "update", rctl |-> RCTL]
      /\ PacketFilterFlags' \subseteq Flags /\ MCAddressList' \subseteq Multicast
      /\ phase' = phase /\ RCTL' = RCTL /\ start' = start /\ mc_filter_type' = mc_filter_type
      /\ raced' = (raced \/ start # None)
  BY DEF EvtSetReceiveFilter, given
<1>2. RCTL \in RctlType
  BY DEF FilterInvariant, FilterTypes
<1>3. filter' \in [at : {"idle", "update"}, rctl : RctlType] /\ filter' # None
      /\ filter'.rctl = RCTL
  BY <1>1, <1>2, OffTyped
<1>4. ~raced' => ~raced /\ start = None
  BY <1>1
<1>5. FilterTypes'
  BY <1>1, <1>2, <1>3 DEF FilterInvariant, FilterTypes
<1>6. OnlyInD0' /\ ReadIsKept' /\ FilterSet'
  BY <1>1, <1>3, <1>4 DEF OnlyInD0, ReadIsKept, FilterSet
<1>7. HashSelected'
  BY <1>1, <1>4 DEF FilterInvariant, HashSelected
<1>8. QED
  BY <1>5, <1>6, <1>7 DEF FilterInvariant

LEMMA FilterEnds == FilterInvariant /\ IgbUpdateReceiveFilters => FilterInvariant'
<1> SUFFICES ASSUME FilterInvariant, IgbUpdateReceiveFilters PROVE FilterInvariant'
  OBVIOUS
<1>1. /\ filter # None /\ WritesAddresses /\ RCTL' = Receives(filter.rctl)
      /\ filter' = None /\ phase' = phase /\ start' = start /\ raced' = raced
      /\ PacketFilterFlags' = PacketFilterFlags /\ MCAddressList' = MCAddressList
      /\ CurrentAddress' = CurrentAddress /\ mc_filter_type' = mc_filter_type
  BY DEF IgbUpdateReceiveFilters, given
<1>2. filter.rctl \in RctlType
  BY DEF FilterInvariant, FilterTypes
<1>3. phase = "D0"
  BY <1>1 DEF FilterInvariant, OnlyInD0
<1>4. ~raced => start = None /\ filter.rctl = RCTL
  BY <1>1 DEF FilterInvariant, ReadIsKept
<1>5. None \in [at : {"idle", "update"}, rctl : RctlType]
  BY OffTyped DEF None
<1>6. /\ RCTL' \in RctlType /\ RCTL'.EN = filter.rctl.EN /\ RCTL'.MO = filter.rctl.MO
      /\ RCTL'.UPE <=> "Promiscuous" \in PacketFilterFlags
      /\ RCTL'.MPE <=> PacketFilterFlags \cap {"Promiscuous", "AllMulticast"} # {}
      /\ PacketFilterFlags \cap {"Promiscuous", "Broadcast"} # {} => RCTL'.BAM
  BY <1>1, <1>2, ReceivesFields
<1>7. FilterTypes'
  BY <1>1, <1>5, <1>6 DEF FilterInvariant, FilterTypes
<1>8. OnlyInD0' /\ ReadIsKept'
  BY <1>1, <1>3, <1>4 DEF OnlyInD0, ReadIsKept
<1>9. HashSelected'
  BY <1>1, <1>4, <1>6 DEF FilterInvariant, HashSelected
<1>10. FilterSet'
  <2>1. "Promiscuous" \notin PacketFilterFlags =>
          RAR0' = CurrentAddress /\ MTA' = e1000_update_mc_addr_list_generic(Asked)
    BY <1>1 DEF WritesAddresses, Asked
  <2>2. e1000_update_mc_addr_list_generic(Asked)' = e1000_update_mc_addr_list_generic(Asked)
    BY <1>1, TableKept
  <2>3. QED
    BY <1>1, <1>6, <2>1, <2>2 DEF FilterSet
<1>11. QED
  BY <1>7, <1>8, <1>9, <1>10 DEF FilterInvariant

LEMMA StartBegins == FilterInvariant /\ EvtRxQueueStart => FilterInvariant'
<1> SUFFICES ASSUME FilterInvariant, EvtRxQueueStart PROVE FilterInvariant'
  OBVIOUS
<1>1. /\ phase = "D0" /\ start = None /\ start' = [at |-> "enable", rctl |-> RCTL]
      /\ RCTL' = [RCTL EXCEPT !.EN = FALSE] /\ raced' = (raced \/ filter # None)
      /\ phase' = phase /\ mc_filter_type' = mc_filter_type /\ filter' = filter
      /\ filtered' = filtered
      /\ PacketFilterFlags' = PacketFilterFlags /\ MCAddressList' = MCAddressList
      /\ RAR0' = RAR0 /\ CurrentAddress' = CurrentAddress /\ MTA' = MTA
  BY DEF EvtRxQueueStart, given, addresses
<1>2. RCTL \in RctlType
  BY DEF FilterInvariant, FilterTypes
<1>3. RCTL' \in RctlType /\ ~RCTL'.EN /\ RCTL'.UPE = RCTL.UPE /\ RCTL'.MPE = RCTL.MPE
      /\ RCTL'.BAM = RCTL.BAM
  BY <1>1, <1>2 DEF RctlType
<1>4. start' \in [at : {"idle", "enable"}, rctl : RctlType] /\ start' # None
      /\ start'.rctl = RCTL
  BY <1>1, <1>2, OffTyped
<1>5. ~raced' => ~raced /\ filter = None
  BY <1>1
<1>6. FilterTypes'
  BY <1>1, <1>3, <1>4 DEF FilterInvariant, FilterTypes
<1>7. OnlyInD0' /\ ReadIsKept' /\ HashSelected'
  BY <1>1, <1>3, <1>4, <1>5 DEF OnlyInD0, ReadIsKept, HashSelected
<1>8. FilterSet'
  BY <1>1, <1>3, <1>5, TableKept DEF FilterInvariant, FilterSet
<1>9. QED
  BY <1>6, <1>7, <1>8 DEF FilterInvariant

LEMMA StartEnds == FilterInvariant /\ EnablesReceives => FilterInvariant'
<1> SUFFICES ASSUME FilterInvariant, EnablesReceives PROVE FilterInvariant'
  OBVIOUS
<1>1. /\ start # None /\ start' = None
      /\ RCTL' = [start.rctl EXCEPT !.EN = TRUE, !.BAM = TRUE, !.MO = mc_filter_type]
      /\ phase' = phase /\ mc_filter_type' = mc_filter_type /\ filter' = filter
      /\ filtered' = filtered /\ raced' = raced
      /\ PacketFilterFlags' = PacketFilterFlags /\ MCAddressList' = MCAddressList
      /\ RAR0' = RAR0 /\ CurrentAddress' = CurrentAddress /\ MTA' = MTA
  BY DEF EnablesReceives, given, addresses
<1>2. start.rctl \in RctlType /\ mc_filter_type \in 0 .. 3
  BY DEF FilterInvariant, FilterTypes
<1>3. RCTL' = [EN |-> TRUE, UPE |-> start.rctl.UPE, MPE |-> start.rctl.MPE, BAM |-> TRUE,
               MO |-> mc_filter_type]
  BY <1>1, <1>2 DEF RctlType
<1>4. start.rctl.UPE \in BOOLEAN /\ start.rctl.MPE \in BOOLEAN
  BY <1>2 DEF RctlType
<1>5. /\ RCTL' \in RctlType /\ RCTL'.UPE = start.rctl.UPE /\ RCTL'.MPE = start.rctl.MPE
      /\ RCTL'.BAM = TRUE /\ RCTL'.MO = mc_filter_type
  BY <1>2, <1>3, <1>4 DEF RctlType
<1>6. ~raced => /\ filter = None
                /\ RCTL.UPE = start.rctl.UPE /\ RCTL.MPE = start.rctl.MPE
  <2>1. ~raced => filter = None /\ RCTL = [start.rctl EXCEPT !.EN = FALSE]
    BY <1>1 DEF FilterInvariant, ReadIsKept
  <2>2. QED
    BY <1>2, <2>1 DEF RctlType
<1>7. None \in [at : {"idle", "enable"}, rctl : RctlType]
  BY OffTyped DEF None
<1>8. FilterTypes'
  BY <1>1, <1>5, <1>7 DEF FilterInvariant, FilterTypes
<1>9. phase = "D0"
  BY <1>1 DEF FilterInvariant, OnlyInD0
<1>10. OnlyInD0' /\ ReadIsKept' /\ HashSelected'
  BY <1>1, <1>5, <1>6, <1>9 DEF OnlyInD0, ReadIsKept, HashSelected
<1>11. FilterSet'
  BY <1>1, <1>5, <1>6, TableKept DEF FilterInvariant, FilterSet
<1>12. QED
  BY <1>8, <1>10, <1>11 DEF FilterInvariant

(* After any sequence of filters and starts that do not overlap, through   *)
(* sleep and new lives, and whatever mc_filter_type is, the device accepts *)
(* what the latest filter asks for and little else.                        *)
THEOREM FilterIsHonoured == Spec => []FilterHonoured
<1>1. FilterInvariant /\ [Next]_vars => FilterInvariant'
  <2>1. FilterInvariant /\ UNCHANGED vars => FilterInvariant'
    BY FilterQuiet DEF vars, given, addresses
  <2>2. QED
    BY <2>1, FilterLife, FilterBegins, FilterEnds, StartBegins, StartEnds DEF Next
<1>2. FilterInvariant => FilterHonoured
  <2> SUFFICES ASSUME FilterInvariant, phase = "D0", filtered, filter = None, start = None,
                      ~raced, RCTL.EN
               PROVE  /\ RCTL.UPE \/ RAR0 = CurrentAddress
                      /\ RCTL.UPE => "Promiscuous" \in PacketFilterFlags
                      /\ RCTL.MPE => PacketFilterFlags \cap {"Promiscuous", "AllMulticast"} # {}
                      /\ "Promiscuous" \in PacketFilterFlags => RCTL.UPE /\ RCTL.MPE
                      /\ "AllMulticast" \in PacketFilterFlags => RCTL.MPE
                      /\ PacketFilterFlags \cap {"Promiscuous", "Broadcast"} # {} => RCTL.BAM
                      /\ "Multicast" \in PacketFilterFlags =>
                           \A a \in MCAddressList : Accepts(a)
                      /\ \A a \in Multicast : Accepts(a) /\ ~RCTL.MPE =>
                           /\ "Multicast" \in PacketFilterFlags
                           /\ \E asked \in MCAddressList : Hashed(a) = Hashed(asked)
    BY DEF FilterHonoured
  <2>1. /\ RCTL.UPE <=> "Promiscuous" \in PacketFilterFlags
        /\ RCTL.MPE <=> PacketFilterFlags \cap {"Promiscuous", "AllMulticast"} # {}
        /\ PacketFilterFlags \cap {"Promiscuous", "Broadcast"} # {} => RCTL.BAM
        /\ "Promiscuous" \notin PacketFilterFlags =>
             RAR0 = CurrentAddress /\ MTA = e1000_update_mc_addr_list_generic(Asked)
    BY DEF FilterInvariant, FilterSet
  <2>2. /\ mc_filter_type \in 0 .. 3 /\ RCTL.MO = mc_filter_type
        /\ MCAddressList \subseteq Multicast
    BY DEF FilterInvariant, FilterTypes, HashSelected
  <2>3. \A a \in Multicast : Hashed(a) = e1000_hash_mc_addr_generic(a)
    BY <2>2, HashesAgree, DeviceAssumption
  <2>4. ~RCTL.MPE => MTA = {e1000_hash_mc_addr_generic(a) : a \in Asked}
    BY <2>1 DEF e1000_update_mc_addr_list_generic
  <2>5. "Multicast" \in PacketFilterFlags => \A a \in MCAddressList : Accepts(a)
    BY <2>2, <2>3, <2>4 DEF Accepts, Asked
  <2>6. ASSUME NEW a \in Multicast, Accepts(a), ~RCTL.MPE
        PROVE  /\ "Multicast" \in PacketFilterFlags
               /\ \E asked \in MCAddressList : Hashed(a) = Hashed(asked)
    <3>1. PICK asked \in Asked : Hashed(a) = e1000_hash_mc_addr_generic(asked)
      BY <2>4, <2>6 DEF Accepts
    <3>2. "Multicast" \in PacketFilterFlags /\ asked \in MCAddressList
      BY <3>1 DEF Asked
    <3>3. Hashed(a) = Hashed(asked)
      BY <2>2, <2>3, <3>1, <3>2
    <3>4. QED
      BY <3>2, <3>3
  <2>7. QED
    BY <2>1, <2>5, <2>6
<1>3. QED
  BY <1>1, <1>2, FilterInit, PTL DEF Spec
=============================================================================
