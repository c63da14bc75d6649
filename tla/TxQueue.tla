------------------------------ MODULE TxQueue ------------------------------
(***************************************************************************)
(* The transmit queue of the driver (txqueue.cpp): packets the client puts *)
(* in the packet ring are described in a ring of hardware descriptors,     *)
(* transmitted by the device, and returned when the descriptor that        *)
(* carries the report-status bit comes back with DD set.                   *)
(*                                                                         *)
(* The loops of IgbTransmitPackets and IgbCompleteTransmitPackets take one *)
(* step per packet, so the device and the handlers that change the offload *)
(* settings interleave with them. The client (NetAdapterCx) never runs two *)
(* callbacks of one queue at once and leaves the rings alone meanwhile.    *)
(***************************************************************************)
EXTENDS NetRing, FiniteSets

CONSTANTS
    PacketRingSize,    \* NumberOfElements of the packet ring
    FragmentRingSize,  \* NumberOfElements of the fragment ring
    Clients            \* the clients considered: see ClientType

USHORT_MAX == 65535

(* IgbTxQueueInitialize: one descriptor per fragment, up to 16 bits. *)
NumTxDesc == IF FragmentRingSize > USHORT_MAX THEN USHORT_MAX ELSE FragmentRingSize

(* What a client negotiated, the Enabled flags of three packet extensions, *)
(* and whether it sends packets it could not prepare, marked with Ignore.  *)
ClientType == [vlan: BOOLEAN, gso: BOOLEAN, csum: BOOLEAN, marks: BOOLEAN]

ASSUME RingSizes ==
    /\ PacketRingSize \in Nat /\ PacketRingSize >= 2
    /\ FragmentRingSize \in Nat /\ FragmentRingSize >= 2
    /\ Clients \subseteq ClientType

(* Twice the packets the rings can hold fit in the descriptor ring. The    *)
(* code does not check this; what holds only under it says so.             *)
RingsFit == 2 * (PacketRingSize - 1) < NumTxDesc

VARIABLES
    phase,        \* where the client is in the life cycle of the queue
    client,       \* its client
    offload,      \* adapter->Tx*HwChkSum and adapter->LSOv4/LSOv6
    pr,           \* the packet ring's indices
    fr,           \* the fragment ring's indices
    packet,       \* NET_PACKET: Ignore and FragmentIndex of every slot
    tcb,          \* tx->PacketContext
    TxDescIndex,  \* tx->TxDescIndex
    txd,          \* tx->TxdBase, the descriptors
    TDH, TDT,     \* head and tail registers of the queue
    txEnabled,    \* TXDCTL.QUEUE_ENABLE
    pc,           \* what EvtTxQueueAdvance is executing
    local,        \* its local variables
    sent          \* history: how often the device transmitted each packet

vars == <<phase, client, offload, pr, fr, packet, tcb, TxDescIndex, txd, TDH,
          TDT, txEnabled, pc, local, sent>>

Slots == 0 .. PacketRingSize - 1
Fragments == 0 .. FragmentRingSize - 1
Descriptors == 0 .. NumTxDesc - 1

(* A descriptor is zero, a context descriptor, a data descriptor, or one   *)
(* the device wrote back: DD, over what it read (e1000_adv_tx_desc is a    *)
(* union). A data descriptor carries a fragment's address and, being the   *)
(* only one of its packet (IGB_MAX_PHYS_BUF_COUNT is 1), EOP and RS; the   *)
(* packet it belongs to is history.                                        *)
Zero == [kind |-> "zero", fragment |-> 0, packet |-> 0]
Context == [kind |-> "context", fragment |-> 0, packet |-> 0]
Data(f, i) == [kind |-> "data", fragment |-> f, packet |-> i]
Done == [kind |-> "DD", fragment |-> 0, packet |-> 0]

DescriptorType == [kind: {"zero", "context", "data", "DD"}, fragment: Fragments,
                   packet: Slots]

TypeOK ==
    /\ phase \in {"none", "failed", "created", "started", "canceled", "stopped"}
    /\ client \in ClientType
    /\ offload \in [csum: BOOLEAN, lso: BOOLEAN]
    /\ pr \in RingType(PacketRingSize)
    /\ fr \in RingType(FragmentRingSize)
    /\ packet \in [Slots -> [Ignore: BOOLEAN, FragmentIndex: Fragments]]
    /\ tcb \in [Slots -> [FirstTxDescIdx: Descriptors, NumTxDesc: 0 .. 2]]
    /\ TxDescIndex \in Descriptors
    /\ txd \in [Descriptors -> DescriptorType]
    /\ TDH \in Descriptors /\ TDT \in Descriptors
    /\ txEnabled \in BOOLEAN
    /\ pc \in {"idle", "transmit", "complete"}
    /\ local \in [packetIndex: Slots, fragmentIndex: Fragments,
                  available: 0 .. NumTxDesc, programmed: BOOLEAN]
    /\ sent \in [Slots -> 0 .. 2]

NoLocals == [packetIndex |-> 0, fragmentIndex |-> 0, available |-> 0,
             programmed |-> FALSE]

NoPacket == [Ignore |-> TRUE, FragmentIndex |-> 0]
NoPackets == [i \in Slots |-> NoPacket]
NoTcbs == [i \in Slots |-> [FirstTxDescIdx |-> 0, NumTxDesc |-> 0]]
Unsent == [i \in Slots |-> 0]

Init ==
    /\ phase = "none"
    /\ client \in Clients
    /\ offload = [csum |-> FALSE, lso |-> FALSE]
    /\ pr = EmptyRing /\ fr = EmptyRing
    /\ packet = NoPackets /\ sent = Unsent
    /\ tcb = NoTcbs
    /\ TxDescIndex = 0
    /\ txd = [d \in Descriptors |-> Zero]
    /\ TDH = 0 /\ TDT = 0
    /\ txEnabled = FALSE
    /\ pc = "idle" /\ local = NoLocals

rings == <<pr, fr, packet, sent>>
device == <<txd, TDH, TDT, txEnabled>>
posting == <<tcb, TxDescIndex>>
running == <<pc, local>>
-----------------------------------------------------------------------------
(* Creation, start, stop and destruction of the queue. *)

(* The creation or one of its allocations may fail. The TCBs are not        *)
(* initialised: whatever is in them is written before it is read.          *)
EvtAdapterCreateTxQueue ==
    /\ phase = "none"
    /\ phase' \in {"created", "failed"}
    /\ UNCHANGED <<client, offload, rings, device, posting, running>>

(* Every descriptor is zeroed and the two registers and the index restart; *)
(* the TCBs keep what the last start left in them. The client starts a     *)
(* queue with empty rings.                                                 *)
EvtTxQueueStart ==
    /\ phase \in {"created", "stopped"}
    /\ phase' = "started"
    /\ txd' = [d \in Descriptors |-> Zero]
    /\ TxDescIndex' = 0
    /\ TDH' = 0 /\ TDT' = 0
    /\ txEnabled' = TRUE
    /\ pr' = EmptyRing /\ fr' = EmptyRing
    /\ packet' = NoPackets /\ sent' = Unsent
    /\ UNCHANGED <<client, offload, tcb, running>>

(* The packets the driver holds, marked. *)
LeftUnmarked == packet  \* mutant: Ignore is not set
MarkedIgnored == [i \in Slots |-> IF Owned(i, pr, PacketRingSize)
                                    THEN [packet[i] EXCEPT !.Ignore = TRUE]
                                    ELSE packet[i]]

(* The queue is disabled, and every packet the driver holds is marked and  *)
(* returned, whether or not the device is done with it. NextIndex stays.   *)
EvtTxQueueCancel ==
    /\ phase = "started" /\ pc = "idle"
    /\ phase' = "canceled"
    /\ txEnabled' = FALSE
    /\ packet' = MarkedIgnored
    /\ pr' = [pr EXCEPT !.BeginIndex = pr.EndIndex]
    /\ fr' = [fr EXCEPT !.BeginIndex = fr.EndIndex]
    /\ UNCHANGED <<client, offload, sent, txd, TDH, TDT, posting, running>>

EvtTxQueueStop ==
    /\ phase = "canceled" /\ pc = "idle"
    /\ phase' = "stopped"
    /\ UNCHANGED <<client, offload, rings, device, posting, running>>

(* The descriptors, and with the queue object its TCBs, go.                *)
EvtTxQueueDestroy ==
    /\ phase \in {"failed", "created", "stopped"}
    /\ phase' = "none"
    /\ tcb' = NoTcbs /\ txd' = [d \in Descriptors |-> Zero]
    /\ UNCHANGED <<client, offload, rings, TxDescIndex, TDH, TDT, txEnabled, running>>
-----------------------------------------------------------------------------
(* The client and the device. *)

(* NetAdapterCx puts a packet with its one fragment at the end of the      *)
(* rings, or a packet it could not prepare, marked to be ignored.          *)
ClientAppends ==
    /\ phase = "started" /\ pc = "idle"
    /\ Inc(pr.EndIndex, PacketRingSize) # pr.BeginIndex
    /\ \E ignore \in BOOLEAN:
         /\ ignore => client.marks
         /\ ~ignore => Inc(fr.EndIndex, FragmentRingSize) # fr.BeginIndex
         /\ packet' = [packet EXCEPT ![pr.EndIndex] =
                         [Ignore |-> ignore, FragmentIndex |-> fr.EndIndex]]
         /\ fr' = IF ignore THEN fr
                  ELSE [fr EXCEPT !.EndIndex = Inc(@, FragmentRingSize)]
    /\ pr' = [pr EXCEPT !.EndIndex = Inc(@, PacketRingSize)]
    /\ sent' = [sent EXCEPT ![pr.EndIndex] = 0]
    /\ UNCHANGED <<phase, client, offload, device, posting, running>>

(* The two handlers of adapter.cpp that change what the posting loop reads *)
(* (any of the three checksum settings, either of the two of segmentation);*)
(* a setting is read only when its extension is enabled.                   *)
EvtAdapterOffloadSetTxChecksum ==
    /\ client.csum
    /\ offload' = [offload EXCEPT !.csum = ~@]
    /\ UNCHANGED <<phase, client, rings, device, posting, running>>

EvtAdapterOffloadSetGso ==
    /\ client.gso
    /\ offload' = [offload EXCEPT !.lso = ~@]
    /\ UNCHANGED <<phase, client, rings, device, posting, running>>

(* The device takes the descriptor at its head. After a data descriptor    *)
(* the packet is on the wire and its status is written back (WTHRESH 1).   *)
DeviceTransmits ==
    /\ txEnabled /\ TDH # TDT
    /\ TDH' = Inc(TDH, NumTxDesc)
    /\ IF txd[TDH].kind = "data"
         THEN /\ txd' = [txd EXCEPT ![TDH] = Done]
              /\ sent' = [sent EXCEPT ![txd[TDH].packet] = IF @ < 2 THEN @ + 1 ELSE 2]
         ELSE UNCHANGED <<txd, sent>>
    /\ UNCHANGED <<phase, client, offload, pr, fr, packet, TDT, txEnabled, posting,
                   running>>
-----------------------------------------------------------------------------
(* EvtTxQueueAdvance: IgbTransmitPackets, then IgbCompleteTransmitPackets. *)

(* Whether the packet gets a context descriptor in front of its data. *)
contextUsed ==
    \/ client.vlan
    \/ client.gso /\ offload.lso
    \/ client.csum /\ offload.csum

EvtTxQueueAdvance ==
    /\ phase \in {"started", "canceled"} /\ pc = "idle"
    /\ pc' = "transmit"
    /\ local' = [local EXCEPT !.packetIndex = pr.NextIndex,
                              !.available = NumTxDesc - TxDescIndex,
                              !.programmed = FALSE]
    /\ UNCHANGED <<phase, client, offload, rings, device, posting>>

(* The loop leaves a packet with one fragment for later when fewer than    *)
(* two descriptors remain of those it counted on entry.                    *)
TooFewDescriptorsByOne == 3 > local.available  \* mutant: one more is reserved
TooFewDescriptors == 2 > local.available

(* Where the data descriptor goes: after the context descriptor, if any.   *)
contextCount == IF contextUsed THEN 1 ELSE 0

DataOverContext == TxDescIndex  \* mutant: the index does not move past it
DataTxDescIdx == Wrap(TxDescIndex + contextCount, NumTxDesc)

(* Where the packet's descriptors start and how many they are. *)
TcbKeepingFirst ==  \* mutant: FirstTxDescIdx is not set again
    [tcb[local.packetIndex] EXCEPT !.NumTxDesc = contextCount + 1]
TcbOfPacket == [FirstTxDescIdx |-> TxDescIndex, NumTxDesc |-> contextCount + 1]

(* One packet is described: the context descriptor if one is used, then    *)
(* the data descriptor, each at TxDescIndex, which moves on.               *)
IgbPostPacket ==
    LET i == local.packetIndex
        data == DataTxDescIdx
        frag == packet[i].FragmentIndex
    IN  /\ pc = "transmit"
        /\ i # pr.EndIndex /\ ~packet[i].Ignore /\ ~TooFewDescriptors
        /\ tcb' = [tcb EXCEPT ![i] = TcbOfPacket]
        /\ txd' = [[txd EXCEPT ![TxDescIndex] = Context]
                    EXCEPT ![data] = Data(frag, i)]
        /\ TxDescIndex' = Inc(data, NumTxDesc)
        /\ fr' = [fr EXCEPT !.NextIndex = Inc(frag, FragmentRingSize)]
        /\ local' = [local EXCEPT !.packetIndex = Inc(i, PacketRingSize),
                                  !.available = @ - (contextCount + 1),
                                  !.programmed = TRUE]
        /\ UNCHANGED <<phase, client, offload, pr, packet, TDH, TDT, txEnabled, pc, sent>>

IgbSkipIgnored ==
    /\ pc = "transmit" /\ local.packetIndex # pr.EndIndex
    /\ packet[local.packetIndex].Ignore
    /\ local' = [local EXCEPT !.packetIndex = Inc(@, PacketRingSize)]
    /\ UNCHANGED <<phase, client, offload, rings, device, posting, pc>>

(* The tail the device gets: the index past the last descriptor written,   *)
(* if any was.                                                             *)
TailOnLast == IF local.programmed  \* mutant: the last descriptor written
                THEN Wrap((TxDescIndex + NumTxDesc) - 1, NumTxDesc) ELSE TDT
NewTail == IF local.programmed THEN TxDescIndex ELSE TDT

(* The loop ends; NextIndex is stored and, if anything was described,      *)
(* IgbFlushTransaction gives the device the new tail. The completion loop  *)
(* starts at the two BeginIndexes.                                         *)
IgbFlushTransaction ==
    /\ pc = "transmit"
    /\ \/ local.packetIndex = pr.EndIndex
       \/ /\ local.packetIndex # pr.EndIndex
          /\ ~packet[local.packetIndex].Ignore /\ TooFewDescriptors
    /\ pr' = [pr EXCEPT !.NextIndex = local.packetIndex]
    /\ TDT' = NewTail
    /\ pc' = "complete"
    /\ local' = [NoLocals EXCEPT !.packetIndex = pr.BeginIndex,
                                 !.fragmentIndex = fr.BeginIndex]
    /\ UNCHANGED <<phase, client, offload, fr, packet, sent, txd, TDH, txEnabled, posting>>

(* DD on the last descriptor of the packet. *)
lastTxDescIdx(i) == Wrap(tcb[i].FirstTxDescIdx + tcb[i].NumTxDesc - 1, NumTxDesc)

AssumedComplete(i) == TRUE  \* mutant: DD is not tested
IgbIsPacketTransferComplete(i) == txd[lastTxDescIdx(i)].kind = "DD"

(* An ignored packet's fragments are not counted. *)
FragmentOfEach(i) == 1  \* mutant: they are
FragmentCount(i) == IF packet[i].Ignore THEN 0 ELSE 1

IgbCompletePacket ==
    LET i == local.packetIndex
    IN  /\ pc = "complete" /\ i # pr.NextIndex
        /\ ~packet[i].Ignore => IgbIsPacketTransferComplete(i)
        /\ local' = [local EXCEPT !.packetIndex = Inc(i, PacketRingSize),
                                  !.fragmentIndex = Wrap(@ + FragmentCount(i),
                                                         FragmentRingSize)]
        /\ UNCHANGED <<phase, client, offload, rings, device, posting, pc>>

(* The loop stops at the first packet that is not complete; everything     *)
(* before it goes back to the client, which does with it what it likes.    *)
IgbReturnPackets ==
    /\ pc = "complete"
    /\ \/ local.packetIndex = pr.NextIndex
       \/ /\ local.packetIndex # pr.NextIndex
          /\ ~packet[local.packetIndex].Ignore
          /\ ~IgbIsPacketTransferComplete(local.packetIndex)
    /\ pr' = [pr EXCEPT !.BeginIndex = local.packetIndex]
    /\ fr' = [fr EXCEPT !.BeginIndex = local.fragmentIndex]
    /\ LET kept(i) == Owned(i, pr', PacketRingSize)
       IN  /\ packet' = [i \in Slots |-> IF kept(i) THEN packet[i] ELSE NoPacket]
           /\ sent' = [i \in Slots |-> IF kept(i) THEN sent[i] ELSE 0]
    /\ pc' = "idle" /\ local' = NoLocals
    /\ UNCHANGED <<phase, client, offload, device, posting>>

AdvanceStep ==
    \/ IgbPostPacket \/ IgbSkipIgnored \/ IgbFlushTransaction
    \/ IgbCompletePacket \/ IgbReturnPackets
-----------------------------------------------------------------------------
Next ==
    \/ EvtAdapterCreateTxQueue \/ EvtTxQueueStart \/ EvtTxQueueCancel
    \/ EvtTxQueueStop \/ EvtTxQueueDestroy
    \/ ClientAppends
    \/ EvtAdapterOffloadSetTxChecksum \/ EvtAdapterOffloadSetGso
    \/ DeviceTransmits
    \/ EvtTxQueueAdvance \/ AdvanceStep

Spec == Init /\ [][Next]_vars

(* The client polls a started queue, a callback once entered returns, and  *)
(* an enabled device works off its ring.                                   *)
FairSpec ==
    /\ Spec
    /\ WF_vars(EvtTxQueueAdvance /\ phase = "started")
    /\ WF_vars(AdvanceStep)
    /\ WF_vars(DeviceTransmits)
-----------------------------------------------------------------------------
(* Properties. *)

(* The packets described to the device and not yet returned. *)
Frontier == IF pc = "transmit" THEN local.packetIndex ELSE pr.NextIndex

InFlight(i) ==
    /\ phase = "started"
    /\ Within(i, pr.BeginIndex, Frontier, PacketRingSize)
    /\ ~packet[i].Ignore

PacketDescriptors(i) ==
    {Wrap(tcb[i].FirstTxDescIdx + k, NumTxDesc) : k \in 0 .. tcb[i].NumTxDesc - 1}

(* No two packets in flight are described by the same descriptor: the      *)
(* bail-out test of IgbTransmitPackets, which counts the descriptors up to *)
(* the end of the ring and not those in use, never lets one be overwritten.*)
InFlightDisjoint ==
    \A i, j \in Slots : InFlight(i) /\ InFlight(j) /\ i # j
        => PacketDescriptors(i) \cap PacketDescriptors(j) = {}

(* Outside IgbTransmitPackets, a packet in flight that was not transmitted *)
(* has its data between head and tail: the tail IgbFlushTransaction writes *)
(* never stops short of it or laps the head.                               *)
DeviceSeesAllPosted ==
    pc # "transmit" =>
        \A i \in Slots : InFlight(i) /\ sent[i] = 0
            => Within(lastTxDescIdx(i), TDH, TDT, NumTxDesc)

(* Every descriptor the device has yet to take was written by the driver   *)
(* and not yet taken, and points to a fragment the client has not got      *)
(* back: fr->BeginIndex never runs ahead of the device, and the tail never *)
(* makes it replay a stale descriptor.                                     *)
DeviceReadsOwnedMemory ==
    txEnabled =>
        \A d \in Descriptors :
            Within(d, TDH, TDT, NumTxDesc)
                => \/ txd[d].kind = "context"
                   \/ /\ txd[d].kind = "data"
                      /\ Owned(txd[d].fragment, fr, FragmentRingSize)

(* Between two calls of EvtTxQueueAdvance the fragment ring starts at the  *)
(* fragment of the first packet that has one: the completion loop releases *)
(* exactly the fragments of the packets it releases.                       *)
FragmentsFollowPackets ==
    (phase = "started" /\ pc = "idle") =>
        LET withFragment == {i \in Slots : Owned(i, pr, PacketRingSize) /\ ~packet[i].Ignore}
        IN  /\ withFragment = {} => fr.BeginIndex = fr.EndIndex
            /\ \A i \in withFragment :
                 (\A j \in withFragment : ~Before(j, i, pr.BeginIndex, PacketRingSize))
                     => fr.BeginIndex = packet[i].FragmentIndex

(* A packet the completion loop hands back was transmitted exactly once,   *)
(* unless it was to be ignored: DD belongs to this packet and not to an    *)
(* earlier use of the descriptor or of the slot's TCB.                     *)
ReturnedWasSentOnce ==
    [][\A i \in Slots :
         /\ Owned(i, pr, PacketRingSize) /\ ~Owned(i, pr', PacketRingSize)
         /\ ~packet[i].Ignore /\ phase' = "started"
         => sent[i] = 1]_vars

(* The queue is a HandOver of packets: they go on the wire in the order in *)
(* which the client put them in the ring, each once, whatever the two      *)
(* loops, the offload handlers and the device do to each other; none goes  *)
(* back before, unless it was to be ignored, and none out of order.        *)
Packets == [i \in Slots |-> [skip |-> packet[i].Ignore, uses |-> sent[i]]]

Promise == INSTANCE HandOver WITH
    open <- phase = "started", held <- InOrder(Packets, pr, PacketRingSize)

ImplementsHandOver == Promise!Spec

(* Once EvtTxQueueCancel has given the packets back, no later call of      *)
(* EvtTxQueueAdvance, whose NextIndex may still point at some of them,     *)
(* describes one to the device or moves the tail.                          *)
CanceledNeverPosted == [][phase = "canceled" => UNCHANGED <<txd, TDT>>]_vars

(* While every packet takes a context descriptor, a packet given to a      *)
(* started queue comes back, or the queue is canceled: no packet is left   *)
(* behind by the bail-out, the tail or the order of the two loops.         *)
EveryPacketReturned ==
    [](phase = "started" => contextUsed) =>
        \A i \in Slots :
            (phase = "started" /\ Owned(i, pr, PacketRingSize))
                ~> (phase # "started" \/ ~Owned(i, pr, PacketRingSize))

(* "Bail out if there are not enough TX descriptors to describe the whole  *)
(* packet" (txqueue.cpp:276): the driver does not hold packets back for    *)
(* ever while every descriptor of the ring is free.                        *)
AllDescriptorsFree == \A i \in Slots : ~InFlight(i)

BailsOnlyForLackOfDescriptors ==
    ~<>[](/\ phase = "started" /\ pr.NextIndex # pr.EndIndex
          /\ ~packet[pr.NextIndex].Ignore /\ AllDescriptorsFree)
=============================================================================
