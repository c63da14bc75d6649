--------------------------- MODULE TxQueueProofs ---------------------------
(***************************************************************************)
(* Proofs about TxQueue for every ring size and every set of clients.      *)
(***************************************************************************)
EXTENDS TxQueue, NetRingProofs, TLAPS

(* The sizes are positive, and so is the descriptor count. *)
LEMMA Sizes ==
    /\ PacketRingSize \in Nat /\ PacketRingSize >= 2
    /\ FragmentRingSize \in Nat /\ FragmentRingSize >= 2
    /\ NumTxDesc \in Nat /\ NumTxDesc >= 2
BY RingSizes DEF NumTxDesc, USHORT_MAX

-----------------------------------------------------------------------------
(* Types. *)

(* Index 0 is in every ring. *)
LEMMA Zeros ==
    0 \in Slots /\ 0 \in Fragments /\ 0 \in Descriptors /\ 0 \in 0 .. NumTxDesc
BY Sizes DEF Slots, Fragments, Descriptors

(* What the variables start with and are reset to. *)
LEMMA ResetTypes ==
    /\ EmptyRing \in RingType(PacketRingSize) /\ EmptyRing \in RingType(FragmentRingSize)
    /\ NoPacket \in [Ignore: BOOLEAN, FragmentIndex: Fragments]
    /\ NoPackets \in [Slots -> [Ignore: BOOLEAN, FragmentIndex: Fragments]]
    /\ NoTcbs \in [Slots -> [FirstTxDescIdx: Descriptors, NumTxDesc: 0 .. 2]]
    /\ Unsent \in [Slots -> 0 .. 2]
    /\ [d \in Descriptors |-> Zero] \in [Descriptors -> DescriptorType]
    /\ NoLocals \in [packetIndex: Slots, fragmentIndex: Fragments,
                     available: 0 .. NumTxDesc, programmed: BOOLEAN]
<1>1. EmptyRing \in RingType(PacketRingSize) /\ EmptyRing \in RingType(FragmentRingSize)
  BY Zeros DEF EmptyRing, RingType, Slots, Fragments
<1>2. NoPacket \in [Ignore: BOOLEAN, FragmentIndex: Fragments]
  BY Zeros DEF NoPacket
<1>3. NoPackets \in [Slots -> [Ignore: BOOLEAN, FragmentIndex: Fragments]]
  BY <1>2 DEF NoPackets
<1>4. NoTcbs \in [Slots -> [FirstTxDescIdx: Descriptors, NumTxDesc: 0 .. 2]]
  BY Zeros DEF NoTcbs
<1>5. Unsent \in [Slots -> 0 .. 2]
  BY DEF Unsent
<1>6. Zero \in DescriptorType
  BY Zeros DEF Zero, DescriptorType
<1>7. NoLocals \in [packetIndex: Slots, fragmentIndex: Fragments,
                   available: 0 .. NumTxDesc, programmed: BOOLEAN]
  BY Zeros DEF NoLocals
<1>8. QED
  BY <1>1, <1>2, <1>3, <1>4, <1>5, <1>6, <1>7

LEMMA InitTypeOK == Init => TypeOK
<1> SUFFICES ASSUME Init PROVE TypeOK
  OBVIOUS
<1>1. client \in ClientType
  BY RingSizes DEF Init
<1>2. /\ offload \in [csum: BOOLEAN, lso: BOOLEAN]
      /\ phase = "none" /\ pc = "idle" /\ txEnabled = FALSE
      /\ TxDescIndex \in Descriptors /\ TDH \in Descriptors /\ TDT \in Descriptors
  BY Zeros DEF Init
<1>3. /\ pr \in RingType(PacketRingSize) /\ fr \in RingType(FragmentRingSize)
      /\ packet \in [Slots -> [Ignore: BOOLEAN, FragmentIndex: Fragments]]
      /\ tcb \in [Slots -> [FirstTxDescIdx: Descriptors, NumTxDesc: 0 .. 2]]
      /\ txd \in [Descriptors -> DescriptorType]
      /\ sent \in [Slots -> 0 .. 2]
      /\ local \in [packetIndex: Slots, fragmentIndex: Fragments,
                    available: 0 .. NumTxDesc, programmed: BOOLEAN]
  BY ResetTypes DEF Init
<1>4. QED
  BY <1>1, <1>2, <1>3 DEF TypeOK

(* The offsets the loops use keep to their rings. *)
LEMMA PostingTypes ==
    ASSUME TypeOK
    PROVE  /\ contextCount \in {0, 1}
           /\ DataTxDescIdx \in Descriptors
           /\ Inc(DataTxDescIdx, NumTxDesc) \in Descriptors
           /\ \A f \in Fragments : Inc(f, FragmentRingSize) \in Fragments
           /\ \A i \in Slots : Inc(i, PacketRingSize) \in Slots
           /\ \A d \in Descriptors : Inc(d, NumTxDesc) \in Descriptors
<1>1. contextCount \in {0, 1}
  BY DEF contextCount
<1>2. TxDescIndex \in 0 .. NumTxDesc - 1
  BY DEF TypeOK, Descriptors
<1>3. DataTxDescIdx \in Descriptors
  BY <1>1, <1>2, Sizes DEF DataTxDescIdx, Wrap, Descriptors
<1>4. QED
  BY <1>1, <1>3, Sizes, IndexType DEF Descriptors, Fragments, Slots

LEMMA NextTypeOK == TypeOK /\ [Next]_vars => TypeOK'
<1> SUFFICES ASSUME TypeOK, [Next]_vars PROVE TypeOK'
  OBVIOUS
<1> USE DEF TypeOK
<1>1. CASE EvtAdapterCreateTxQueue
  BY <1>1 DEF EvtAdapterCreateTxQueue, rings, device, posting, running
<1>2. CASE EvtTxQueueStart
  BY <1>2, ResetTypes, Zeros DEF EvtTxQueueStart, running
<1>3. CASE EvtTxQueueCancel
  BY <1>3 DEF EvtTxQueueCancel, posting, running, RingType, MarkedIgnored
<1>4. CASE EvtTxQueueStop
  BY <1>4 DEF EvtTxQueueStop, rings, device, posting, running
<1>5. CASE EvtTxQueueDestroy
  BY <1>5, ResetTypes DEF EvtTxQueueDestroy, rings, running
<1>6. CASE ClientAppends
  <2>1. PICK ignore \in BOOLEAN :
          /\ packet' = [packet EXCEPT ![pr.EndIndex] =
                          [Ignore |-> ignore, FragmentIndex |-> fr.EndIndex]]
          /\ fr' = IF ignore THEN fr
                   ELSE [fr EXCEPT !.EndIndex = Inc(@, FragmentRingSize)]
    BY <1>6 DEF ClientAppends
  <2>2. pr.EndIndex \in Slots /\ fr.EndIndex \in Fragments
    BY DEF RingType, Slots, Fragments
  <2>3. pr' \in RingType(PacketRingSize)
    BY <1>6, <2>2, PostingTypes DEF ClientAppends, RingType, Slots
  <2>4. fr' \in RingType(FragmentRingSize)
    BY <2>1, <2>2, PostingTypes DEF RingType, Fragments
  <2>5. packet' \in [Slots -> [Ignore: BOOLEAN, FragmentIndex: Fragments]]
    BY <2>1, <2>2
  <2>6. sent' \in [Slots -> 0 .. 2]
    BY <1>6, <2>2 DEF ClientAppends
  <2>7. QED
    BY <1>6, <2>3, <2>4, <2>5, <2>6 DEF ClientAppends, device, posting, running
<1>7. CASE EvtAdapterOffloadSetTxChecksum
  BY <1>7 DEF EvtAdapterOffloadSetTxChecksum, rings, device, posting, running
<1>8. CASE EvtAdapterOffloadSetGso
  BY <1>8 DEF EvtAdapterOffloadSetGso, rings, device, posting, running
<1>9. CASE DeviceTransmits
  <2>1. TDH' \in Descriptors
    BY <1>9, PostingTypes DEF DeviceTransmits
  <2>2. txd[TDH] \in DescriptorType
    OBVIOUS
  <2>3. txd' \in [Descriptors -> DescriptorType]
    <3>1. Done \in DescriptorType
      BY Zeros DEF Done, DescriptorType
    <3>2. QED
      BY <1>9, <3>1 DEF DeviceTransmits
  <2>4. sent' \in [Slots -> 0 .. 2]
    <3>1. txd[TDH].packet \in Slots
      BY <2>2 DEF DescriptorType
    <3>2. \A k \in 0 .. 2 : (IF k < 2 THEN k + 1 ELSE 2) \in 0 .. 2
      OBVIOUS
    <3>3. QED
      BY <1>9, <3>1, <3>2 DEF DeviceTransmits
  <2>5. QED
    BY <1>9, <2>1, <2>3, <2>4 DEF DeviceTransmits, posting, running
<1>10. CASE EvtTxQueueAdvance
  <2>1. pr.NextIndex \in Slots /\ NumTxDesc - TxDescIndex \in 0 .. NumTxDesc
    BY Sizes DEF RingType, Slots, Descriptors
  <2>2. local' \in [packetIndex: Slots, fragmentIndex: Fragments,
                    available: 0 .. NumTxDesc, programmed: BOOLEAN]
    BY <1>10, <2>1 DEF EvtTxQueueAdvance
  <2>3. QED
    BY <1>10, <2>2 DEF EvtTxQueueAdvance, rings, device, posting
<1>11. CASE IgbPostPacket
  <2> DEFINE i == local.packetIndex
             frag == packet[i].FragmentIndex
  <2>1. i \in Slots /\ frag \in Fragments
    OBVIOUS
  <2>2. tcb' \in [Slots -> [FirstTxDescIdx: Descriptors, NumTxDesc: 0 .. 2]]
    <3>1. TcbOfPacket \in [FirstTxDescIdx: Descriptors, NumTxDesc: 0 .. 2]
      BY PostingTypes DEF TcbOfPacket
    <3>2. QED
      BY <1>11, <2>1, <3>1 DEF IgbPostPacket
  <2>3. txd' \in [Descriptors -> DescriptorType]
    <3>1. Context \in DescriptorType /\ Data(frag, i) \in DescriptorType
      BY <2>1, Sizes DEF Context, Data, DescriptorType, Fragments, Slots
    <3>2. QED
      BY <1>11, <3>1, PostingTypes DEF IgbPostPacket
  <2>4. TxDescIndex' \in Descriptors
    BY <1>11, PostingTypes DEF IgbPostPacket
  <2>5. fr' \in RingType(FragmentRingSize)
    BY <1>11, <2>1, PostingTypes DEF IgbPostPacket, RingType, Fragments
  <2>6. local' \in [packetIndex: Slots, fragmentIndex: Fragments,
                    available: 0 .. NumTxDesc, programmed: BOOLEAN]
    <3>1. local.available - (contextCount + 1) \in 0 .. NumTxDesc
      BY <1>11, PostingTypes, Sizes DEF IgbPostPacket, TooFewDescriptors
    <3>2. QED
      BY <1>11, <2>1, <3>1, PostingTypes DEF IgbPostPacket
  <2>7. QED
    BY <1>11, <2>2, <2>3, <2>4, <2>5, <2>6 DEF IgbPostPacket
<1>12. CASE IgbSkipIgnored
  BY <1>12, PostingTypes DEF IgbSkipIgnored, rings, device, posting
<1>13. CASE IgbFlushTransaction
  <2>1. pr.BeginIndex \in Slots /\ fr.BeginIndex \in Fragments
    BY DEF RingType, Slots, Fragments
  <2>2. pr' \in RingType(PacketRingSize)
    BY <1>13 DEF IgbFlushTransaction, RingType, Slots
  <2>3. local' \in [packetIndex: Slots, fragmentIndex: Fragments,
                    available: 0 .. NumTxDesc, programmed: BOOLEAN]
    BY <1>13, <2>1, ResetTypes DEF IgbFlushTransaction
  <2>4. TDT' \in Descriptors
    BY <1>13 DEF IgbFlushTransaction, NewTail
  <2>5. QED
    BY <1>13, <2>2, <2>3, <2>4 DEF IgbFlushTransaction, posting
<1>14. CASE IgbCompletePacket
  <2>1. \A i \in Slots : FragmentCount(i) \in {0, 1}
    BY DEF FragmentCount
  <2>2. Wrap(local.fragmentIndex + FragmentCount(local.packetIndex), FragmentRingSize)
          \in Fragments
    <3>1. local.fragmentIndex \in Fragments /\ local.packetIndex \in Slots
      OBVIOUS
    <3>2. FragmentCount(local.packetIndex) \in 0 .. FragmentRingSize
      BY <2>1, <3>1, Sizes
    <3> HIDE DEF TypeOK
    <3>3. QED
      BY <3>1, <3>2, Sizes, IndexType DEF Fragments
  <2>3. QED
    BY <1>14, <2>2, PostingTypes DEF IgbCompletePacket, rings, device, posting
<1>15. CASE IgbReturnPackets
  <2>1. pr' \in RingType(PacketRingSize) /\ fr' \in RingType(FragmentRingSize)
    BY <1>15 DEF IgbReturnPackets, RingType, Slots, Fragments
  <2>2. packet' \in [Slots -> [Ignore: BOOLEAN, FragmentIndex: Fragments]]
    BY <1>15, ResetTypes DEF IgbReturnPackets
  <2>3. sent' \in [Slots -> 0 .. 2]
    BY <1>15 DEF IgbReturnPackets
  <2>4. local' \in [packetIndex: Slots, fragmentIndex: Fragments,
                    available: 0 .. NumTxDesc, programmed: BOOLEAN]
    BY <1>15, ResetTypes DEF IgbReturnPackets
  <2>5. QED
    BY <1>15, <2>1, <2>2, <2>3, <2>4 DEF IgbReturnPackets, device, posting
<1>16. CASE UNCHANGED vars
  BY <1>16 DEF vars
<1>17. QED
  BY <1>1, <1>2, <1>3, <1>4, <1>5, <1>6, <1>7, <1>8, <1>9, <1>10, <1>11, <1>12, <1>13, <1>14,
     <1>15, <1>16 DEF Next, AdvanceStep

(* Whatever the ring sizes, every index the driver computes, on the packet *)
(* ring, the fragment ring or the descriptors, stays inside its ring, and  *)
(* the descriptors the loop counted on never run out under a packet.       *)
THEOREM TypesHold == Spec => []TypeOK
<1>1. Init => TypeOK
  BY InitTypeOK
<1>2. TypeOK /\ [Next]_vars => TypeOK'
  BY NextTypeOK
<1>3. QED
  BY <1>1, <1>2, PTL DEF Spec
-----------------------------------------------------------------------------
(* The inductive invariant. *)

(* How far a slot is from the first packet the driver holds, and how many  *)
(* descriptors were written since the packet's first, including it.        *)
Offset(i) == Dist(pr.BeginIndex, i, PacketRingSize)
Written(i) == Dist(tcb[i].FirstTxDescIdx, TxDescIndex, NumTxDesc)

(* The loops run only between start and stop, and keep to the stretch of   *)
(* the ring they are to work on.                                           *)
LoopsInOrder ==
    /\ pc # "idle" => phase \in {"started", "canceled"}
    /\ phase = "started" =>
         /\ Offset(Frontier) <= Offset(pr.EndIndex)
         /\ pc = "complete" => Offset(local.packetIndex) <= Offset(pr.NextIndex)

(* A packet in flight has its own descriptors among those written since,   *)
(* no packet up to the frontier took more than two, and those of a packet  *)
(* posted later were written later.                                        *)
DescriptorsInOrder ==
    \A i \in Slots : InFlight(i) =>
        /\ 1 <= tcb[i].NumTxDesc /\ tcb[i].NumTxDesc <= Written(i)
        /\ Written(i) <= 2 * (Offset(Frontier) - Offset(i))
        /\ \A j \in Slots : InFlight(j) /\ Offset(i) < Offset(j)
             => Written(j) + tcb[i].NumTxDesc <= Written(i)

Invariant == TypeOK /\ LoopsInOrder /\ DescriptorsInOrder

LEMMA OffsetType ==
    ASSUME TypeOK
    PROVE  /\ pr.BeginIndex \in Slots /\ pr.NextIndex \in Slots /\ pr.EndIndex \in Slots
           /\ Frontier \in Slots
           /\ \A i \in Slots : Offset(i) \in 0 .. PacketRingSize - 1
           /\ \A i \in Slots, j \in Slots : Offset(i) = Offset(j) => i = j
<1>1. pr.BeginIndex \in Slots /\ pr.NextIndex \in Slots /\ pr.EndIndex \in Slots
  BY DEF TypeOK, RingType, Slots
<1>2. Frontier \in Slots
  BY <1>1 DEF Frontier, TypeOK
<1>3. QED
  BY <1>1, <1>2, Sizes, DistType, DistInjective DEF Offset, Slots

LEMMA WrittenType ==
    ASSUME TypeOK, NEW i \in Slots
    PROVE  Written(i) \in 0 .. NumTxDesc - 1
<1>1. tcb[i].FirstTxDescIdx \in 0 .. NumTxDesc - 1 /\ TxDescIndex \in 0 .. NumTxDesc - 1
  BY DEF TypeOK, Descriptors
<1>2. QED
  BY <1>1, Sizes, DistType DEF Written

(* A step that touches nothing the order of the descriptors depends on.    *)
LEMMA OrderKept ==
    ASSUME DescriptorsInOrder, UNCHANGED <<phase, tcb, TxDescIndex, packet>>,
           pr'.BeginIndex = pr.BeginIndex, Frontier' = Frontier
    PROVE  DescriptorsInOrder'
BY DEF DescriptorsInOrder, InFlight, Offset, Written

(* Nothing is in flight but in a started queue. *)
LEMMA NothingInFlight ==
    ASSUME phase' # "started"
    PROVE  DescriptorsInOrder'
BY DEF DescriptorsInOrder, InFlight

(* The loop of IgbTransmitPackets can go on: the frontier moves by one.    *)
LEMMA FrontierMoves ==
    ASSUME TypeOK, LoopsInOrder, phase = "started", pc = "transmit",
           local.packetIndex # pr.EndIndex
    PROVE  /\ Offset(Inc(local.packetIndex, PacketRingSize)) = Offset(local.packetIndex) + 1
           /\ Offset(local.packetIndex) + 1 <= Offset(pr.EndIndex)
<1>1. Frontier = local.packetIndex
  BY DEF Frontier
<1>2. Offset(local.packetIndex) < Offset(pr.EndIndex)
  BY <1>1, OffsetType DEF LoopsInOrder
<1>3. Offset(local.packetIndex) + 1 < PacketRingSize
  BY <1>1, <1>2, OffsetType, Sizes
<1>4. QED
  BY <1>1, <1>2, <1>3, OffsetType, DistInc, Sizes DEF Offset, Slots

(* IgbPostPacket gives the packet at the frontier the descriptors after    *)
(* all those in flight, and RingsFit keeps the count below a full circle.  *)
LEMMA PostKeepsOrder ==
    ASSUME RingsFit, Invariant, IgbPostPacket, phase = "started"
    PROVE  DescriptorsInOrder'
<1>1. TypeOK /\ LoopsInOrder /\ DescriptorsInOrder
  BY DEF Invariant
<1>f. PICK f \in Slots : f = local.packetIndex
  BY <1>1 DEF TypeOK
<1>c. PICK c \in {0, 1} : c = contextCount
  BY <1>1, PostingTypes
<1>2. f \in Slots /\ c \in {0, 1} /\ TxDescIndex \in 0 .. NumTxDesc - 1
  BY <1>1 DEF TypeOK, Descriptors
<1>3. /\ pc = "transmit" /\ f # pr.EndIndex
      /\ tcb' = [tcb EXCEPT ![f] = [FirstTxDescIdx |-> TxDescIndex, NumTxDesc |-> c + 1]]
      /\ TxDescIndex' = Inc(Wrap(TxDescIndex + c, NumTxDesc), NumTxDesc)
      /\ local'.packetIndex = Inc(f, PacketRingSize)
      /\ UNCHANGED <<phase, pr, packet, pc>>
  BY <1>1, <1>f, <1>c DEF IgbPostPacket, TcbOfPacket, DataTxDescIdx, TypeOK
<1>4. Frontier = f /\ Frontier' = Inc(f, PacketRingSize)
  BY <1>3, <1>f DEF Frontier
<1>5. \A i \in Slots : Offset(i)' = Offset(i)
  BY <1>3 DEF Offset
<1>6. Offset(Frontier)' = Offset(f) + 1
  BY <1>1, <1>3, <1>4, <1>f, FrontierMoves DEF Offset
<1>7. ASSUME NEW i \in Slots, InFlight(i)'
      PROVE  i = f \/ (InFlight(i) /\ Offset(i) < Offset(f))
  <2>1. Offset(i)' < Offset(Frontier)' /\ ~packet[i].Ignore
    BY <1>3, <1>7 DEF InFlight, Within, Offset
  <2>2. i = f \/ Offset(i) < Offset(f)
    BY <1>1, <1>2, <1>5, <1>6, <2>1, OffsetType
  <2>3. QED
    BY <1>4, <2>1, <2>2 DEF InFlight, Within, Offset
<1>8. tcb'[f] = [FirstTxDescIdx |-> TxDescIndex, NumTxDesc |-> c + 1]
  BY <1>1, <1>2, <1>3 DEF TypeOK
<1>9. NumTxDesc >= 3
  BY Sizes DEF RingsFit
<1>10. Written(f)' = c + 1
  <2>1. Dist(TxDescIndex, TxDescIndex, NumTxDesc) = 0
    BY <1>2, Sizes DEF Dist
  <2>2. QED
    BY <1>2, <1>3, <1>8, <1>9, <2>1, DistAdvance, Sizes DEF Written
<1>11. ASSUME NEW i \in Slots, InFlight(i), i # f, Offset(i) < Offset(f)
       PROVE  tcb'[i] = tcb[i] /\ Written(i)' = Written(i) + c + 1
  <2>1. tcb'[i] = tcb[i]
    BY <1>1, <1>2, <1>3, <1>11 DEF TypeOK
  <2>2. Written(i) <= 2 * (Offset(f) - Offset(i))
    BY <1>1, <1>4, <1>11 DEF DescriptorsInOrder
  <2>3. Written(i) + c + 1 < NumTxDesc
    <3>1. Offset(f) + 1 <= PacketRingSize - 1 /\ Offset(f) \in Nat /\ Offset(i) \in Nat
      BY <1>1, <1>2, <1>3, <1>f, FrontierMoves, OffsetType, Sizes
    <3>2. QED
      BY <1>1, <1>2, <2>2, <3>1, WrittenType, Sizes DEF RingsFit
  <2>4. tcb[i].FirstTxDescIdx \in 0 .. NumTxDesc - 1
    BY <1>1 DEF TypeOK, Descriptors
  <2>5. QED
    BY <1>2, <1>3, <2>1, <2>3, <2>4, DistAdvance, Sizes DEF Written
<1>12. QED
  <2> SUFFICES ASSUME NEW i \in Slots, InFlight(i)'
               PROVE  /\ 1 <= tcb'[i].NumTxDesc /\ tcb'[i].NumTxDesc <= Written(i)'
                      /\ Written(i)' <= 2 * (Offset(Frontier)' - Offset(i)')
                      /\ \A j \in Slots : InFlight(j)' /\ Offset(i)' < Offset(j)'
                           => Written(j)' + tcb'[i].NumTxDesc <= Written(i)'
    BY DEF DescriptorsInOrder
  <2>1. /\ Offset(i)' = Offset(i) /\ Offset(i) \in Nat /\ Offset(f) \in Nat
        /\ Written(i) \in Nat /\ tcb[i].NumTxDesc \in 0 .. 2
    BY <1>1, <1>2, <1>5, OffsetType, WrittenType, Sizes DEF TypeOK
  <2>2. CASE i = f
    <3>1. \A j \in Slots : InFlight(j)' => ~(Offset(i)' < Offset(j)')
      BY <1>1, <1>2, <1>5, <1>7, <2>2, OffsetType
    <3>2. QED
      BY <1>2, <1>6, <1>8, <1>10, <2>1, <2>2, <3>1
  <2>3. CASE i # f
    <3>1. InFlight(i) /\ Offset(i) < Offset(f)
      BY <1>7, <2>3
    <3>2. tcb'[i] = tcb[i] /\ Written(i)' = Written(i) + c + 1
      BY <1>11, <2>3, <3>1
    <3>3. /\ 1 <= tcb[i].NumTxDesc /\ tcb[i].NumTxDesc <= Written(i)
          /\ Written(i) <= 2 * (Offset(f) - Offset(i))
      BY <1>1, <1>4, <3>1 DEF DescriptorsInOrder
    <3>4. ASSUME NEW j \in Slots, InFlight(j)', Offset(i)' < Offset(j)'
          PROVE  Written(j)' + tcb'[i].NumTxDesc <= Written(i)'
      <4>1. CASE j = f
        BY <1>2, <1>10, <2>1, <3>2, <3>3, <4>1
      <4>2. CASE j # f
        <5>1. InFlight(j) /\ Offset(j) < Offset(f) /\ Written(j) \in Nat
          BY <1>1, <1>7, <3>4, <4>2, WrittenType, Sizes
        <5>2. Written(j) + tcb[i].NumTxDesc <= Written(i)
          BY <1>1, <1>5, <3>1, <3>4, <5>1 DEF DescriptorsInOrder
        <5>3. Written(j)' = Written(j) + c + 1
          BY <1>11, <4>2, <5>1
        <5>4. QED
          BY <1>2, <2>1, <3>2, <5>1, <5>2, <5>3
      <4>3. QED
        BY <4>1, <4>2
    <3>5. QED
      BY <1>2, <1>6, <2>1, <3>2, <3>3, <3>4
  <2>4. QED
    BY <2>2, <2>3

(* An ignored packet at the frontier is passed over. *)
LEMMA SkipKeepsOrder ==
    ASSUME Invariant, IgbSkipIgnored, phase = "started"
    PROVE  DescriptorsInOrder'
<1>1. TypeOK /\ LoopsInOrder /\ DescriptorsInOrder
  BY DEF Invariant
<1>2. PICK f \in Slots : f = local.packetIndex
  BY <1>1 DEF TypeOK
<1>3. /\ pc = "transmit" /\ f # pr.EndIndex /\ packet[f].Ignore
      /\ local'.packetIndex = Inc(f, PacketRingSize)
      /\ UNCHANGED <<phase, pr, packet, pc, tcb, TxDescIndex>>
  BY <1>1, <1>2 DEF IgbSkipIgnored, rings, posting, TypeOK
<1>4. Frontier = f /\ Offset(Frontier)' = Offset(f) + 1
  BY <1>1, <1>2, <1>3, FrontierMoves DEF Frontier, Offset
<1>5. \A i \in Slots : Offset(i)' = Offset(i) /\ Written(i)' = Written(i)
  BY <1>3 DEF Offset, Written
<1>6. ASSUME NEW i \in Slots, InFlight(i)'
      PROVE  InFlight(i) /\ Offset(i) < Offset(f)
  <2>1. Offset(i)' < Offset(Frontier)' /\ ~packet[i].Ignore
    BY <1>3, <1>6 DEF InFlight, Within, Offset
  <2>2. i # f
    BY <1>3, <2>1
  <2>3. Offset(i) < Offset(f)
    BY <1>1, <1>4, <1>5, <2>1, <2>2, OffsetType
  <2>4. QED
    BY <1>4, <2>1, <2>3 DEF InFlight, Within, Offset
<1>7. \A i \in Slots : Written(i) \in Nat /\ Offset(i) \in Nat
  BY <1>1, OffsetType, WrittenType, Sizes
<1>8. QED
  BY <1>1, <1>3, <1>4, <1>5, <1>6, <1>7 DEF DescriptorsInOrder

(* The client writes at EndIndex, which no packet in flight occupies.      *)
LEMMA AppendKeepsOrder ==
    ASSUME Invariant, ClientAppends
    PROVE  DescriptorsInOrder'
<1>1. TypeOK /\ LoopsInOrder /\ DescriptorsInOrder
  BY DEF Invariant
<1>2. /\ phase = "started"
      /\ pr'.BeginIndex = pr.BeginIndex /\ pr'.NextIndex = pr.NextIndex
      /\ UNCHANGED <<phase, pc, local, tcb, TxDescIndex>>
      /\ \A i \in Slots : i # pr.EndIndex => packet'[i] = packet[i]
  BY <1>1 DEF ClientAppends, posting, running, TypeOK, RingType
<1>3. Frontier' = Frontier
  BY <1>2 DEF Frontier
<1>4. \A i \in Slots : Offset(i)' = Offset(i) /\ Written(i)' = Written(i)
  BY <1>2 DEF Offset, Written
<1>5. Offset(Frontier)' = Offset(Frontier)
  BY <1>2, <1>3 DEF Offset
<1>6. ASSUME NEW i \in Slots, InFlight(i)'
      PROVE  InFlight(i)
  <2>1. Offset(i) < Offset(Frontier)
    BY <1>4, <1>5, <1>6 DEF InFlight, Within, Offset
  <2>2. i # pr.EndIndex
    BY <1>1, <1>2, <2>1, OffsetType DEF LoopsInOrder
  <2>3. QED
    BY <1>2, <1>6, <2>1, <2>2 DEF InFlight, Within, Offset
<1>7. QED
  BY <1>1, <1>2, <1>4, <1>5, <1>6 DEF DescriptorsInOrder

(* Packets are returned from the start of the ring: those that stay are    *)
(* nearer to its new start by the number returned.                         *)
LEMMA ReturnShifts ==
    ASSUME TypeOK, LoopsInOrder, IgbReturnPackets, phase = "started",
           NEW i \in Slots, Within(i, pr'.BeginIndex, pr'.EndIndex, PacketRingSize)
    PROVE  /\ Offset(i)' = Offset(i) - Offset(local.packetIndex)
           /\ Offset(i) < Offset(pr.EndIndex)
<1>1. PICK b \in Slots : b = local.packetIndex
  BY DEF TypeOK
<1>2. pr'.BeginIndex = b /\ pr'.EndIndex = pr.EndIndex /\ pc = "complete"
  BY <1>1 DEF IgbReturnPackets, TypeOK, RingType
<1>3. Offset(b) <= Offset(pr.EndIndex)
  <2>1. Frontier = pr.NextIndex
    BY <1>2 DEF Frontier
  <2>2. QED
    BY <1>1, <1>2, <2>1, OffsetType, Sizes DEF LoopsInOrder
<1>4. /\ Offset(b) \in 0 .. PacketRingSize - 1
      /\ Offset(i) \in 0 .. PacketRingSize - 1
      /\ Offset(pr.EndIndex) \in 0 .. PacketRingSize - 1
  BY OffsetType
<1>5. Dist(b, pr.EndIndex, PacketRingSize) = Offset(pr.EndIndex) - Offset(b)
  <2>1. /\ pr.BeginIndex \in 0 .. PacketRingSize - 1
        /\ b \in 0 .. PacketRingSize - 1
        /\ pr.EndIndex \in 0 .. PacketRingSize - 1
    BY OffsetType DEF Slots
  <2>2. QED
    BY <1>3, <2>1, Sizes, DistShift DEF Offset
<1>6. /\ Offset(b) <= Offset(i)
           => Dist(b, i, PacketRingSize) = Offset(i) - Offset(b)
      /\ Offset(i) < Offset(b)
           => Dist(b, i, PacketRingSize) = (Offset(i) - Offset(b)) + PacketRingSize
  BY OffsetType, Sizes, DistShift DEF Offset, Slots
<1>7. Dist(b, i, PacketRingSize) < Dist(b, pr.EndIndex, PacketRingSize)
  BY <1>2 DEF Within
<1>8. Offset(b) <= Offset(i) /\ Offset(i) < Offset(pr.EndIndex)
  BY <1>4, <1>5, <1>6, <1>7, Sizes
<1>9. Offset(i)' = Dist(b, i, PacketRingSize)
  BY <1>2 DEF Offset
<1>10. QED
  BY <1>1, <1>6, <1>8, <1>9

LEMMA ReturnKeepsOrder ==
    ASSUME Invariant, IgbReturnPackets, phase = "started"
    PROVE  DescriptorsInOrder'
<1>1. TypeOK /\ LoopsInOrder /\ DescriptorsInOrder
  BY DEF Invariant
<1>2. PICK b \in Slots : b = local.packetIndex
  BY <1>1 DEF TypeOK
<1>3. /\ pc = "complete" /\ pc' = "idle"
      /\ pr'.BeginIndex = b /\ pr'.NextIndex = pr.NextIndex /\ pr'.EndIndex = pr.EndIndex
      /\ UNCHANGED <<phase, tcb, TxDescIndex>>
      /\ \A i \in Slots : ~packet'[i].Ignore
           => /\ packet'[i] = packet[i]
              /\ Within(i, pr'.BeginIndex, pr'.EndIndex, PacketRingSize)
  BY <1>1, <1>2 DEF IgbReturnPackets, posting, TypeOK, RingType, Owned, NoPacket
<1>4. Frontier = pr.NextIndex /\ Frontier' = pr.NextIndex
  BY <1>3 DEF Frontier
<1>5. Offset(b) <= Offset(pr.NextIndex) /\ Offset(b) \in Nat /\ Offset(pr.NextIndex) \in Nat
  BY <1>1, <1>2, <1>3, OffsetType, Sizes, phase = "started" DEF LoopsInOrder
<1>6. Offset(Frontier)' = Offset(pr.NextIndex) - Offset(b)
  <2>1. /\ pr.BeginIndex \in 0 .. PacketRingSize - 1
        /\ b \in 0 .. PacketRingSize - 1
        /\ pr.NextIndex \in 0 .. PacketRingSize - 1
    BY <1>1, OffsetType DEF Slots
  <2>2. Dist(b, pr.NextIndex, PacketRingSize) = Offset(pr.NextIndex) - Offset(b)
    BY <1>5, <2>1, Sizes, DistShift DEF Offset
  <2>3. QED
    BY <1>3, <1>4, <2>2 DEF Offset
<1>7. ASSUME NEW i \in Slots, InFlight(i)'
      PROVE  InFlight(i) /\ Offset(i)' = Offset(i) - Offset(b)
  <2>1. ~packet'[i].Ignore /\ Offset(i)' < Offset(Frontier)'
    BY <1>7 DEF InFlight, Within, Offset
  <2>2. /\ packet'[i] = packet[i]
        /\ Within(i, pr'.BeginIndex, pr'.EndIndex, PacketRingSize)
    BY <1>3, <2>1
  <2>3. Offset(i)' = Offset(i) - Offset(b)
    BY <1>1, <1>2, <2>2, ReturnShifts
  <2>4. Offset(i) \in Nat
    BY <1>1, OffsetType, Sizes
  <2>5. Offset(i) < Offset(pr.NextIndex)
    BY <1>5, <1>6, <2>1, <2>3, <2>4
  <2>6. QED
    BY <1>4, <2>1, <2>2, <2>3, <2>5 DEF InFlight, Within, Offset
<1>8. \A i \in Slots : Written(i)' = Written(i) /\ Offset(i) \in Nat
  BY <1>1, <1>3, OffsetType, Sizes DEF Written
<1>9. QED
  <2> SUFFICES ASSUME NEW i \in Slots, InFlight(i)'
               PROVE  /\ 1 <= tcb'[i].NumTxDesc /\ tcb'[i].NumTxDesc <= Written(i)'
                      /\ Written(i)' <= 2 * (Offset(Frontier)' - Offset(i)')
                      /\ \A j \in Slots : InFlight(j)' /\ Offset(i)' < Offset(j)'
                           => Written(j)' + tcb'[i].NumTxDesc <= Written(i)'
    BY DEF DescriptorsInOrder
  <2>1. InFlight(i) /\ Offset(i)' = Offset(i) - Offset(b)
    BY <1>7
  <2>2. /\ 1 <= tcb[i].NumTxDesc /\ tcb[i].NumTxDesc <= Written(i)
        /\ Written(i) <= 2 * (Offset(pr.NextIndex) - Offset(i))
    BY <1>1, <1>4, <2>1 DEF DescriptorsInOrder
  <2>3. ASSUME NEW j \in Slots, InFlight(j)', Offset(i)' < Offset(j)'
        PROVE  Written(j)' + tcb'[i].NumTxDesc <= Written(i)'
    <3>1. InFlight(j) /\ Offset(j)' = Offset(j) - Offset(b)
      BY <1>7, <2>3
    <3>2. Offset(i) < Offset(j)
      BY <1>5, <1>8, <2>1, <2>3, <3>1
    <3>3. QED
      BY <1>1, <1>3, <1>8, <2>1, <3>1, <3>2 DEF DescriptorsInOrder
  <2>4. QED
    BY <1>3, <1>5, <1>6, <1>8, <2>1, <2>2, <2>3
-----------------------------------------------------------------------------
(* The invariant holds. *)

LEMMA InitInvariant == Init => Invariant
BY InitTypeOK DEF Init, Invariant, LoopsInOrder, DescriptorsInOrder, InFlight

(* A step that leaves the packet ring and the loops alone. *)
LEMMA LoopsUntouched ==
    ASSUME LoopsInOrder, UNCHANGED <<phase, pr, pc, local>>
    PROVE  LoopsInOrder'
BY DEF LoopsInOrder, Offset, Frontier

(* A step after which the loops are idle and the queue is not started.     *)
LEMMA LoopsIdle ==
    ASSUME pc' = "idle", phase' # "started"
    PROVE  LoopsInOrder'
BY DEF LoopsInOrder

(* The loop of IgbTransmitPackets moves on by one packet. *)
LEMMA TransmitLoopMoves ==
    ASSUME TypeOK, LoopsInOrder, pc = "transmit", local.packetIndex # pr.EndIndex,
           local'.packetIndex = Inc(local.packetIndex, PacketRingSize),
           UNCHANGED <<phase, pr, pc>>
    PROVE  LoopsInOrder'
<1>1. phase \in {"started", "canceled"}
  BY DEF LoopsInOrder
<1>2. CASE phase = "started"
  <2>1. Frontier' = Inc(local.packetIndex, PacketRingSize)
    BY DEF Frontier
  <2>2. Offset(Frontier)' <= Offset(pr.EndIndex)'
    BY <1>2, <2>1, FrontierMoves DEF Offset
  <2>3. QED
    BY <1>2, <2>2 DEF LoopsInOrder
<1>3. CASE phase # "started"
  BY <1>1, <1>3 DEF LoopsInOrder
<1>4. QED
  BY <1>2, <1>3

(* A packet is appended in front of BeginIndex at the earliest. *)
LEMMA AppendKeepsLoops ==
    ASSUME TypeOK, LoopsInOrder, ClientAppends
    PROVE  LoopsInOrder'
<1>1. /\ phase = "started" /\ pc = "idle" /\ phase' = phase /\ pc' = pc
      /\ Inc(pr.EndIndex, PacketRingSize) # pr.BeginIndex
      /\ pr'.BeginIndex = pr.BeginIndex /\ pr'.NextIndex = pr.NextIndex
      /\ pr'.EndIndex = Inc(pr.EndIndex, PacketRingSize)
  BY DEF ClientAppends, running, TypeOK, RingType
<1>2. Frontier = pr.NextIndex /\ Frontier' = pr.NextIndex
  BY <1>1 DEF Frontier
<1>3. Offset(Frontier) <= Offset(pr.EndIndex)
  BY <1>1 DEF LoopsInOrder
<1>4. Offset(pr.EndIndex)' = Offset(pr.EndIndex) + 1
  BY <1>1, OffsetType, DistInc, Sizes DEF Offset, Slots
<1>5. Offset(Frontier)' = Offset(Frontier)
  BY <1>1, <1>2 DEF Offset
<1>6. Offset(Frontier) \in Nat /\ Offset(pr.EndIndex) \in Nat
  BY OffsetType, Sizes
<1>7. QED
  BY <1>1, <1>3, <1>4, <1>5, <1>6 DEF LoopsInOrder

(* The first loop ends where the second one's stretch ends. *)
LEMMA FlushKeepsLoops ==
    ASSUME TypeOK, LoopsInOrder, IgbFlushTransaction
    PROVE  LoopsInOrder'
<1>1. /\ pc = "transmit" /\ pc' = "complete" /\ phase' = phase
      /\ pr'.BeginIndex = pr.BeginIndex /\ pr'.NextIndex = local.packetIndex
      /\ pr'.EndIndex = pr.EndIndex
      /\ local'.packetIndex = pr.BeginIndex
  BY DEF IgbFlushTransaction, TypeOK, RingType, NoLocals
<1>2. Frontier = local.packetIndex /\ Frontier' = local.packetIndex
  BY <1>1 DEF Frontier
<1>3. /\ Offset(Frontier)' = Offset(Frontier) /\ Offset(pr.EndIndex)' = Offset(pr.EndIndex)
      /\ Offset(pr.NextIndex)' = Offset(Frontier)
      /\ Offset(local.packetIndex)' = Offset(pr.BeginIndex)
  BY <1>1, <1>2 DEF Offset
<1>4. Offset(pr.BeginIndex) <= Offset(Frontier)
  <2>1. Offset(pr.BeginIndex) = 0
    BY OffsetType, DistType, Sizes DEF Offset, Slots
  <2>2. QED
    BY <2>1, OffsetType, Sizes
<1>5. QED
  BY <1>1, <1>3, <1>4 DEF LoopsInOrder

LEMMA CompleteKeepsLoops ==
    ASSUME TypeOK, LoopsInOrder, IgbCompletePacket
    PROVE  LoopsInOrder'
<1>1. PICK b \in Slots : b = local.packetIndex
  BY DEF TypeOK
<1>2. /\ pc = "complete" /\ b # pr.NextIndex /\ UNCHANGED <<phase, pr, pc>>
      /\ local'.packetIndex = Inc(b, PacketRingSize)
  BY <1>1 DEF IgbCompletePacket, rings, TypeOK
<1>3. phase \in {"started", "canceled"}
  BY <1>2 DEF LoopsInOrder
<1>4. Frontier = pr.NextIndex /\ Frontier' = pr.NextIndex
  BY <1>2 DEF Frontier
<1>5. ASSUME phase = "started"
      PROVE  Offset(local.packetIndex)' <= Offset(pr.NextIndex)'
  <2>1. Offset(b) < Offset(pr.NextIndex)
    BY <1>1, <1>2, <1>5, OffsetType DEF LoopsInOrder
  <2>2. Offset(b) + 1 < PacketRingSize
    BY <1>1, <2>1, OffsetType, Sizes
  <2>3. Dist(pr.BeginIndex, Inc(b, PacketRingSize), PacketRingSize) = Offset(b) + 1
    BY <1>1, <2>2, OffsetType, DistInc, Sizes DEF Offset, Slots
  <2>4. Offset(local.packetIndex)' = Offset(b) + 1 /\ Offset(pr.NextIndex)' = Offset(pr.NextIndex)
    BY <1>2, <2>3 DEF Offset
  <2>5. QED
    BY <1>1, <2>1, <2>4, OffsetType, Sizes
<1>6. Offset(Frontier)' = Offset(Frontier) /\ Offset(pr.EndIndex)' = Offset(pr.EndIndex)
  BY <1>2, <1>4 DEF Offset
<1>7. QED
  BY <1>2, <1>3, <1>5, <1>6 DEF LoopsInOrder

LEMMA ReturnKeepsLoops ==
    ASSUME TypeOK, LoopsInOrder, IgbReturnPackets
    PROVE  LoopsInOrder'
<1>1. PICK b \in Slots : b = local.packetIndex
  BY DEF TypeOK
<1>2. /\ pc = "complete" /\ pc' = "idle" /\ phase' = phase
      /\ pr'.BeginIndex = b /\ pr'.NextIndex = pr.NextIndex /\ pr'.EndIndex = pr.EndIndex
  BY <1>1 DEF IgbReturnPackets, TypeOK, RingType
<1>3. Frontier = pr.NextIndex /\ Frontier' = pr.NextIndex
  BY <1>2 DEF Frontier
<1>4. ASSUME phase = "started"
      PROVE  Offset(Frontier)' <= Offset(pr.EndIndex)'
  <2>1. Offset(b) <= Offset(pr.NextIndex) /\ Offset(pr.NextIndex) <= Offset(pr.EndIndex)
    BY <1>1, <1>2, <1>3, <1>4 DEF LoopsInOrder
  <2>2. /\ pr.BeginIndex \in 0 .. PacketRingSize - 1
        /\ b \in 0 .. PacketRingSize - 1
        /\ pr.NextIndex \in 0 .. PacketRingSize - 1
        /\ pr.EndIndex \in 0 .. PacketRingSize - 1
    BY OffsetType DEF Slots
  <2>3. /\ Offset(b) \in Nat /\ Offset(pr.NextIndex) \in Nat /\ Offset(pr.EndIndex) \in Nat
    BY <1>1, OffsetType, Sizes
  <2>4. Dist(b, pr.NextIndex, PacketRingSize) = Offset(pr.NextIndex) - Offset(b)
    BY <2>1, <2>2, Sizes, DistShift DEF Offset
  <2>5. Dist(b, pr.EndIndex, PacketRingSize) = Offset(pr.EndIndex) - Offset(b)
    <3>1. Offset(b) <= Offset(pr.EndIndex)
      BY <2>1, <2>3
    <3>2. QED
      BY <2>2, <3>1, Sizes, DistShift DEF Offset
  <2>6. Offset(Frontier)' = Offset(pr.NextIndex) - Offset(b)
    BY <1>2, <1>3, <2>4 DEF Offset
  <2>7. Offset(pr.EndIndex)' = Offset(pr.EndIndex) - Offset(b)
    BY <1>2, <2>5 DEF Offset
  <2>8. QED
    BY <2>1, <2>3, <2>6, <2>7
<1>5. QED
  BY <1>2, <1>4 DEF LoopsInOrder

LEMMA LoopsKept ==
    ASSUME TypeOK, LoopsInOrder, [Next]_vars
    PROVE  LoopsInOrder'
<1>1. TypeOK /\ LoopsInOrder
  OBVIOUS
<1>2. CASE EvtTxQueueStart
  <2>1. pc' = "idle"
    BY <1>1, <1>2 DEF EvtTxQueueStart, running, LoopsInOrder
  <2>2. pr'.BeginIndex = 0 /\ pr'.EndIndex = 0 /\ Frontier' = 0
    BY <1>2, <2>1 DEF EvtTxQueueStart, EmptyRing, Frontier
  <2>3. Offset(Frontier)' = 0 /\ Offset(pr.EndIndex)' = 0
    BY <2>2 DEF Offset, Dist
  <2>4. QED
    BY <2>1, <2>3 DEF LoopsInOrder
<1>3. CASE EvtAdapterCreateTxQueue \/ EvtTxQueueCancel \/ EvtTxQueueStop \/ EvtTxQueueDestroy
  <2>1. pc' = "idle" /\ phase' # "started"
    BY <1>1, <1>3 DEF EvtAdapterCreateTxQueue, EvtTxQueueCancel, EvtTxQueueStop,
                     EvtTxQueueDestroy, running, LoopsInOrder
  <2>2. QED
    BY <2>1, LoopsIdle
<1>4. CASE \/ EvtAdapterOffloadSetTxChecksum \/ EvtAdapterOffloadSetGso
           \/ DeviceTransmits \/ UNCHANGED vars
  <2>1. UNCHANGED <<phase, pr, pc, local>>
    BY <1>4 DEF EvtAdapterOffloadSetTxChecksum, EvtAdapterOffloadSetGso, DeviceTransmits,
                vars, rings, running
  <2>2. QED
    BY <1>1, <2>1, LoopsUntouched
<1>5. CASE EvtTxQueueAdvance
  <2>1. /\ pc = "idle" /\ pc' = "transmit" /\ UNCHANGED <<phase, pr>>
        /\ phase \in {"started", "canceled"}
        /\ local'.packetIndex = pr.NextIndex
    BY <1>1, <1>5 DEF EvtTxQueueAdvance, rings, TypeOK
  <2>2. Frontier' = Frontier /\ Frontier = pr.NextIndex
    BY <2>1 DEF Frontier
  <2>3. QED
    BY <1>1, <2>1, <2>2 DEF LoopsInOrder, Offset
<1>6. CASE IgbPostPacket \/ IgbSkipIgnored
  <2>1. /\ pc = "transmit" /\ local.packetIndex # pr.EndIndex
        /\ local'.packetIndex = Inc(local.packetIndex, PacketRingSize)
        /\ UNCHANGED <<phase, pr, pc>>
    BY <1>1, <1>6 DEF IgbPostPacket, IgbSkipIgnored, rings, TypeOK
  <2>2. QED
    BY <1>1, <2>1, TransmitLoopMoves
<1>7. CASE ClientAppends
  BY <1>1, <1>7, AppendKeepsLoops
<1>8. CASE IgbFlushTransaction
  BY <1>1, <1>8, FlushKeepsLoops
<1>9. CASE IgbCompletePacket
  BY <1>1, <1>9, CompleteKeepsLoops
<1>10. CASE IgbReturnPackets
  BY <1>1, <1>10, ReturnKeepsLoops
<1>11. QED
  BY <1>2, <1>3, <1>4, <1>5, <1>6, <1>7, <1>8, <1>9, <1>10 DEF Next, AdvanceStep

LEMMA OrderInvariant ==
    ASSUME RingsFit, Invariant, [Next]_vars
    PROVE  DescriptorsInOrder'
<1>1. TypeOK /\ LoopsInOrder /\ DescriptorsInOrder
  BY DEF Invariant
<1>2. CASE phase' # "started"
  BY <1>2, NothingInFlight
<1>3. CASE phase' = "started" /\ EvtTxQueueStart
  <2>1. pr'.BeginIndex = 0 /\ Frontier' = 0
    BY <1>1, <1>3 DEF EvtTxQueueStart, EmptyRing, Frontier, running, LoopsInOrder
  <2>2. \A i \in Slots : ~InFlight(i)'
    BY <2>1 DEF InFlight, Within, Dist, Slots
  <2>3. QED
    BY <2>2 DEF DescriptorsInOrder
<1>4. CASE phase' = "started" /\ ~EvtTxQueueStart
  <2>1. phase = "started"
    BY <1>4 DEF Next, AdvanceStep, EvtAdapterCreateTxQueue, EvtTxQueueCancel, EvtTxQueueStop,
                EvtTxQueueDestroy, ClientAppends, EvtAdapterOffloadSetTxChecksum,
                EvtAdapterOffloadSetGso, DeviceTransmits, EvtTxQueueAdvance, IgbPostPacket,
                IgbSkipIgnored, IgbFlushTransaction, IgbCompletePacket, IgbReturnPackets, vars
  <2>2. CASE \/ EvtAdapterOffloadSetTxChecksum \/ EvtAdapterOffloadSetGso
             \/ DeviceTransmits \/ UNCHANGED vars
    <3>1. UNCHANGED <<phase, tcb, TxDescIndex, packet, pr, pc, local>>
      BY <2>2 DEF EvtAdapterOffloadSetTxChecksum, EvtAdapterOffloadSetGso, DeviceTransmits,
                  vars, rings, posting, running
    <3>2. QED
      BY <1>1, <3>1, OrderKept DEF Frontier
  <2>3. CASE EvtTxQueueAdvance
    <3>1. UNCHANGED <<phase, tcb, TxDescIndex, packet, pr>> /\ Frontier' = Frontier
      BY <1>1, <2>3 DEF EvtTxQueueAdvance, rings, posting, Frontier, TypeOK
    <3>2. QED
      BY <1>1, <3>1, OrderKept
  <2>4. CASE IgbFlushTransaction
    <3>1. /\ UNCHANGED <<phase, tcb, TxDescIndex, packet>>
          /\ pr'.BeginIndex = pr.BeginIndex /\ Frontier' = Frontier
      BY <1>1, <2>4 DEF IgbFlushTransaction, posting, Frontier, TypeOK, RingType
    <3>2. QED
      BY <1>1, <3>1, OrderKept
  <2>5. CASE IgbCompletePacket
    <3>1. UNCHANGED <<phase, tcb, TxDescIndex, packet, pr>> /\ Frontier' = Frontier
      BY <2>5 DEF IgbCompletePacket, rings, posting, Frontier
    <3>2. QED
      BY <1>1, <3>1, OrderKept
  <2>6. CASE ClientAppends
    BY <2>6, AppendKeepsOrder
  <2>7. CASE IgbPostPacket
    BY <2>1, <2>7, PostKeepsOrder
  <2>8. CASE IgbSkipIgnored
    BY <2>1, <2>8, SkipKeepsOrder
  <2>9. CASE IgbReturnPackets
    BY <2>1, <2>9, ReturnKeepsOrder
  <2>10. CASE EvtAdapterCreateTxQueue \/ EvtTxQueueCancel \/ EvtTxQueueStop \/ EvtTxQueueDestroy
    BY <1>4, <2>10 DEF EvtAdapterCreateTxQueue, EvtTxQueueCancel, EvtTxQueueStop,
                       EvtTxQueueDestroy
  <2>11. QED
    BY <1>4, <2>2, <2>3, <2>4, <2>5, <2>6, <2>7, <2>8, <2>9, <2>10 DEF Next, AdvanceStep
<1>5. QED
  BY <1>2, <1>3, <1>4

(* Packets whose descriptors were written one after the other have none in *)
(* common: those of the earlier one are all further back.                  *)
LEMMA OrderSeparates ==
    ASSUME TypeOK, DescriptorsInOrder, NEW i \in Slots, NEW j \in Slots,
           InFlight(i), InFlight(j), Offset(i) < Offset(j)
    PROVE  PacketDescriptors(i) \cap PacketDescriptors(j) = {}
<1>1. /\ Written(j) + tcb[i].NumTxDesc <= Written(i)
      /\ tcb[i].NumTxDesc <= Written(i) /\ tcb[j].NumTxDesc <= Written(j)
  BY DEF DescriptorsInOrder
<1>2. /\ Written(i) \in Nat /\ Written(j) \in Nat
      /\ tcb[i].NumTxDesc \in Nat /\ tcb[j].NumTxDesc \in Nat
  BY WrittenType, Sizes DEF TypeOK
<1>3. ASSUME NEW p \in Slots, tcb[p].NumTxDesc <= Written(p), tcb[p].NumTxDesc \in Nat,
             Written(p) \in Nat, NEW k \in 0 .. tcb[p].NumTxDesc - 1
      PROVE  Dist(Wrap(tcb[p].FirstTxDescIdx + k, NumTxDesc), TxDescIndex, NumTxDesc)
               = Written(p) - k
  <2>1. tcb[p].FirstTxDescIdx \in 0 .. NumTxDesc - 1 /\ TxDescIndex \in 0 .. NumTxDesc - 1
    BY DEF TypeOK, Descriptors
  <2>2. k \in Nat /\ k <= Written(p)
    BY <1>3
  <2>3. QED
    BY <2>1, <2>2, Sizes, DistWithin DEF Written
<1>4. ASSUME NEW d \in PacketDescriptors(i), d \in PacketDescriptors(j)
      PROVE  FALSE
  <2>1. PICK k \in 0 .. tcb[i].NumTxDesc - 1 :
               d = Wrap(tcb[i].FirstTxDescIdx + k, NumTxDesc)
    BY <1>4 DEF PacketDescriptors
  <2>2. PICK m \in 0 .. tcb[j].NumTxDesc - 1 :
               d = Wrap(tcb[j].FirstTxDescIdx + m, NumTxDesc)
    BY <1>4 DEF PacketDescriptors
  <2>3. Written(i) - k = Written(j) - m
    BY <1>1, <1>2, <1>3, <2>1, <2>2
  <2>4. QED
    BY <1>1, <1>2, <2>1, <2>2, <2>3
<1>5. QED
  BY <1>4

LEMMA InvariantSeparates == Invariant => InFlightDisjoint
<1> SUFFICES ASSUME Invariant, NEW i \in Slots, NEW j \in Slots,
                    InFlight(i), InFlight(j), i # j
             PROVE  PacketDescriptors(i) \cap PacketDescriptors(j) = {}
  BY DEF InFlightDisjoint
<1>1. TypeOK /\ DescriptorsInOrder
  BY DEF Invariant
<1>2. Offset(i) < Offset(j) \/ Offset(j) < Offset(i)
  BY <1>1, OffsetType, Sizes
<1>3. QED
  BY <1>1, <1>2, OrderSeparates

(* When a packet ring's worth of packets fits the descriptor ring twice,   *)
(* the loops of IgbTransmitPackets and IgbCompleteTransmitPackets, with    *)
(* any client, device and settings, never have two packets in flight share *)
(* a descriptor. The bail-out test alone does not ensure it.               *)
THEOREM NeverOverwritten == ASSUME RingsFit PROVE Spec => []InFlightDisjoint
<1>1. Init => Invariant
  BY InitInvariant
<1>2. Invariant /\ [Next]_vars => Invariant'
  <2> SUFFICES ASSUME Invariant, [Next]_vars PROVE Invariant'
    OBVIOUS
  <2>1. TypeOK'
    BY NextTypeOK DEF Invariant
  <2>2. LoopsInOrder'
    BY LoopsKept DEF Invariant
  <2>3. DescriptorsInOrder'
    BY OrderInvariant
  <2>4. QED
    BY <2>1, <2>2, <2>3 DEF Invariant
<1>3. Invariant => InFlightDisjoint
  BY InvariantSeparates
<1>4. QED
  BY <1>1, <1>2, <1>3, PTL DEF Spec
-----------------------------------------------------------------------------
(* A canceled queue. *)

(* What the loop of IgbTransmitPackets still has in front of it in a       *)
(* canceled queue, from a NextIndex that was left behind, is marked.       *)
CanceledMarked ==
    phase = "canceled" =>
        /\ txEnabled = FALSE
        /\ pc = "transmit" => local.programmed = FALSE
        /\ \A i \in Slots :
             Within(i, Frontier, pr.EndIndex, PacketRingSize) => packet[i].Ignore

(* EvtTxQueueCancel marks what the driver holds, and NextIndex lies in it. *)
LEMMA CancelMarks ==
    ASSUME TypeOK, LoopsInOrder, EvtTxQueueCancel
    PROVE  CanceledMarked'
<1>1. /\ phase = "started" /\ pc = "idle" /\ pc' = "idle" /\ txEnabled' = FALSE
      /\ pr'.NextIndex = pr.NextIndex /\ pr'.EndIndex = pr.EndIndex
      /\ \A i \in Slots : Owned(i, pr, PacketRingSize) => packet'[i].Ignore
  BY DEF EvtTxQueueCancel, running, MarkedIgnored, TypeOK, RingType
<1>2. Offset(pr.NextIndex) <= Offset(pr.EndIndex)
  BY <1>1 DEF LoopsInOrder, Frontier
<1>3. Frontier' = pr.NextIndex
  BY <1>1 DEF Frontier
<1>4. \A i \in Slots : Within(i, pr.NextIndex, pr.EndIndex, PacketRingSize)
                         => Owned(i, pr, PacketRingSize)
  BY <1>2, OffsetType, Sizes, WithinLater DEF Owned, Offset, Slots
<1>5. QED
  BY <1>1, <1>3, <1>4 DEF CanceledMarked

(* No step of a canceled queue unmarks one of them, describes one to the   *)
(* device or moves the tail.                                               *)
LEMMA CanceledSteps ==
    ASSUME TypeOK, CanceledMarked, phase = "canceled", [Next]_vars
    PROVE  CanceledMarked' /\ UNCHANGED <<txd, TDT>>
<1>1. PICK f \in Slots : f = local.packetIndex
  BY DEF TypeOK
<1>2. /\ txEnabled = FALSE /\ (pc = "transmit" => local.programmed = FALSE)
      /\ \A i \in Slots :
           Within(i, Frontier, pr.EndIndex, PacketRingSize) => packet[i].Ignore
  BY DEF CanceledMarked
<1>3. pr.EndIndex \in Slots
  BY OffsetType
<1>4. CASE EvtTxQueueStop
  BY <1>4 DEF EvtTxQueueStop, device, CanceledMarked
<1>5. CASE EvtAdapterOffloadSetTxChecksum \/ EvtAdapterOffloadSetGso \/ UNCHANGED vars
  <2>1. UNCHANGED <<phase, txd, TDT, txEnabled, pr, pc, local, packet>>
    BY <1>5 DEF EvtAdapterOffloadSetTxChecksum, EvtAdapterOffloadSetGso, vars, rings,
                device, running
  <2>2. QED
    BY <2>1 DEF CanceledMarked, Frontier
<1>6. CASE EvtTxQueueAdvance
  <2>1. /\ UNCHANGED <<txd, TDT, txEnabled, pr, packet>> /\ Frontier' = Frontier
        /\ local'.programmed = FALSE
    BY <1>6 DEF EvtTxQueueAdvance, rings, device, Frontier, TypeOK
  <2>2. QED
    BY <1>2, <2>1 DEF CanceledMarked
<1>7. ASSUME IgbPostPacket PROVE FALSE
  <2>1. pc = "transmit" /\ f # pr.EndIndex /\ ~packet[f].Ignore
    BY <1>1, <1>7 DEF IgbPostPacket
  <2>2. Frontier = f
    BY <1>1, <2>1 DEF Frontier
  <2>3. Within(f, f, pr.EndIndex, PacketRingSize)
    BY <1>1, <1>3, <2>1, Sizes, WithinRest DEF Slots
  <2>4. QED
    BY <1>1, <1>2, <2>1, <2>2, <2>3
<1>8. CASE IgbSkipIgnored
  <2>1. /\ pc = "transmit" /\ f # pr.EndIndex
        /\ UNCHANGED <<txd, TDT, txEnabled, pr, pc, packet>>
        /\ local'.packetIndex = Inc(f, PacketRingSize)
        /\ local'.programmed = local.programmed
    BY <1>1, <1>8 DEF IgbSkipIgnored, rings, device, TypeOK
  <2>2. Frontier = f /\ Frontier' = Inc(f, PacketRingSize)
    BY <1>1, <2>1 DEF Frontier
  <2>3. \A i \in Slots : Within(i, Inc(f, PacketRingSize), pr.EndIndex, PacketRingSize)
                           => Within(i, f, pr.EndIndex, PacketRingSize)
    BY <1>3, <2>1, Sizes, WithinRest DEF Slots
  <2>4. QED
    BY <1>2, <2>1, <2>2, <2>3 DEF CanceledMarked
<1>9. CASE IgbFlushTransaction
  <2>1. /\ pc = "transmit" /\ pc' = "complete"
        /\ UNCHANGED <<txd, txEnabled, packet>> /\ TDT' = NewTail
        /\ pr'.EndIndex = pr.EndIndex /\ pr'.NextIndex = f
    BY <1>1, <1>9 DEF IgbFlushTransaction, TypeOK, RingType
  <2>2. Frontier' = Frontier
    BY <1>1, <2>1 DEF Frontier
  <2>3. TDT' = TDT
    BY <1>2, <2>1 DEF NewTail
  <2>4. QED
    BY <1>2, <2>1, <2>2, <2>3 DEF CanceledMarked
<1>10. CASE IgbCompletePacket
  <2>1. UNCHANGED <<txd, TDT, txEnabled, pr, pc, packet>> /\ pc = "complete"
    BY <1>10 DEF IgbCompletePacket, rings, device
  <2>2. QED
    BY <1>2, <2>1 DEF CanceledMarked, Frontier
<1>11. CASE IgbReturnPackets
  <2>1. /\ pc = "complete" /\ pc' = "idle" /\ UNCHANGED <<txd, TDT, txEnabled>>
        /\ pr'.NextIndex = pr.NextIndex /\ pr'.EndIndex = pr.EndIndex
        /\ \A i \in Slots : packet'[i] = packet[i] \/ packet'[i] = NoPacket
    BY <1>11 DEF IgbReturnPackets, device, TypeOK, RingType
  <2>2. Frontier' = Frontier
    BY <2>1 DEF Frontier
  <2>3. QED
    BY <1>2, <2>1, <2>2 DEF CanceledMarked, NoPacket
<1>12. QED
  BY <1>2, <1>4, <1>5, <1>6, <1>7, <1>8, <1>9, <1>10, <1>11
     DEF Next, AdvanceStep, EvtAdapterCreateTxQueue, EvtTxQueueStart, EvtTxQueueCancel,
         EvtTxQueueDestroy, ClientAppends, DeviceTransmits

LEMMA NextCanceled ==
    ASSUME TypeOK, LoopsInOrder, CanceledMarked, [Next]_vars
    PROVE  CanceledMarked'
<1>1. CASE phase = "canceled"
  BY <1>1, CanceledSteps
<1>2. CASE phase # "canceled" /\ phase' = "canceled"
  <2>1. EvtTxQueueCancel
    BY <1>2 DEF Next, AdvanceStep, EvtAdapterCreateTxQueue, EvtTxQueueStart, EvtTxQueueStop,
                EvtTxQueueDestroy, ClientAppends, EvtAdapterOffloadSetTxChecksum,
                EvtAdapterOffloadSetGso, DeviceTransmits, EvtTxQueueAdvance, IgbPostPacket,
                IgbSkipIgnored, IgbFlushTransaction, IgbCompletePacket, IgbReturnPackets, vars
  <2>2. QED
    BY <2>1, CancelMarks
<1>3. CASE phase' # "canceled"
  BY <1>3 DEF CanceledMarked
<1>4. QED
  BY <1>1, <1>2, <1>3

(* Whatever EvtTxQueueCancel found half done, calls of EvtTxQueueAdvance   *)
(* made after it write no descriptor and leave the tail where it is.       *)
THEOREM CanceledStaysQuiet == Spec => CanceledNeverPosted
<1> DEFINE Quiet == TypeOK /\ LoopsInOrder /\ CanceledMarked
<1>1. Init => Quiet
  BY InitInvariant DEF Invariant, CanceledMarked, Init
<1>2. Quiet /\ [Next]_vars => Quiet'
  BY NextTypeOK, LoopsKept, NextCanceled
<1>3. Quiet /\ [Next]_vars => [phase = "canceled" => UNCHANGED <<txd, TDT>>]_vars
  BY CanceledSteps
<1>4. QED
  BY <1>1, <1>2, <1>3, PTL DEF Spec, CanceledNeverPosted
-----------------------------------------------------------------------------
(***************************************************************************)
(* What the device finds in the descriptor ring, and what the completion   *)
(* loop concludes from it: these proofs rest on the order shown above.     *)
(***************************************************************************)

(* The inductive invariant about the fragments. *)

(* A packet the driver holds that has a fragment, and how far a fragment   *)
(* is from the first one the driver holds.                                 *)
Carries(i) == Owned(i, pr, PacketRingSize) /\ ~packet[i].Ignore
FragmentOffset(g) == Dist(fr.BeginIndex, g, FragmentRingSize)
OffsetOfFragment(i) == FragmentOffset(packet[i].FragmentIndex)

(* The fragments the driver holds are those of the packets it holds, in    *)
(* the order of the packets.                                               *)
FragmentsInOrder ==
    phase = "started" =>
        /\ \A i \in Slots : Carries(i) =>
             /\ OffsetOfFragment(i) < FragmentOffset(fr.EndIndex)
             /\ \A j \in Slots : Carries(j) /\ Offset(i) < Offset(j)
                  => OffsetOfFragment(i) < OffsetOfFragment(j)
        /\ \A g \in Fragments : FragmentOffset(g) < FragmentOffset(fr.EndIndex)
             => \E i \in Slots : Carries(i) /\ packet[i].FragmentIndex = g

(* The completion loop has counted the fragments of the packets it passed. *)
FragmentsCounted ==
    phase = "started" /\ pc = "complete" =>
        /\ FragmentOffset(local.fragmentIndex) <= FragmentOffset(fr.EndIndex)
        /\ \A i \in Slots : Carries(i) =>
             (Offset(i) < Offset(local.packetIndex)
                <=> OffsetOfFragment(i) < FragmentOffset(local.fragmentIndex))
-----------------------------------------------------------------------------
(* The inductive invariant about the descriptors. *)

(* How far a descriptor is behind TxDescIndex, the last one of a packet,   *)
(* and the one the device takes next: all that are no further behind than  *)
(* that have yet to be taken.                                              *)
Behind(d) == Dist(d, TxDescIndex, NumTxDesc)
LastBehind(i) == (Written(i) - tcb[i].NumTxDesc) + 1
Pending == Behind(TDH)

(* The tail is the index past the last descriptor written, but for those   *)
(* the running IgbTransmitPackets has written and not flushed.             *)
TailInOrder ==
    phase = "started" =>
        /\ Behind(TDT) <= Pending
        /\ ~(pc = "transmit" /\ local.programmed) => TDT = TxDescIndex

(* A packet in flight has its data descriptor among those yet to be taken, *)
(* and was not sent, or has DD there, and was sent once. No other packet   *)
(* was sent.                                                               *)
PacketsDescribed ==
    phase = "started" =>
        \A i \in Slots :
            /\ InFlight(i) /\ LastBehind(i) <= Pending =>
                 txd[lastTxDescIdx(i)] = Data(packet[i].FragmentIndex, i) /\ sent[i] = 0
            /\ InFlight(i) /\ LastBehind(i) > Pending =>
                 txd[lastTxDescIdx(i)].kind = "DD" /\ sent[i] = 1
            /\ ~InFlight(i) => sent[i] = 0

(* A descriptor yet to be taken is the last one of a packet in flight, or  *)
(* a context descriptor in front of it.                                    *)
DescriptorsWritten ==
    phase = "started" =>
        \A d \in Descriptors : 1 <= Behind(d) /\ Behind(d) <= Pending =>
            \E i \in Slots :
                /\ InFlight(i) /\ LastBehind(i) <= Behind(d) /\ Behind(d) <= Written(i)
                /\ Behind(d) # LastBehind(i) => txd[d].kind = "context"

(* The completion loop has seen DD on every packet it passed. *)
SeenComplete ==
    phase = "started" /\ pc = "complete" =>
        \A i \in Slots : InFlight(i) /\ Offset(i) < Offset(local.packetIndex)
            => txd[lastTxDescIdx(i)].kind = "DD"

(* A queue that is not started holds no packets, and the device is off.    *)
EmptyUnlessStarted ==
    phase # "started" =>
        /\ ~txEnabled
        /\ pr.BeginIndex = pr.EndIndex
        /\ pc = "complete" => /\ pr.NextIndex = pr.EndIndex
                              /\ local.packetIndex = pr.BeginIndex

DeviceInvariant ==
    /\ TailInOrder /\ PacketsDescribed /\ DescriptorsWritten /\ SeenComplete
    /\ EmptyUnlessStarted
-----------------------------------------------------------------------------
(* Steps of a started queue. *)

(* A queue is started by EvtTxQueueStart alone, and only from rest. *)
LEMMA StaysStarted ==
    ASSUME [Next]_vars, phase' = "started", ~EvtTxQueueStart
    PROVE  phase = "started"
BY DEF Next, AdvanceStep, EvtAdapterCreateTxQueue, EvtTxQueueCancel, EvtTxQueueStop,
       EvtTxQueueDestroy, ClientAppends, EvtAdapterOffloadSetTxChecksum,
       EvtAdapterOffloadSetGso, DeviceTransmits, EvtTxQueueAdvance, IgbPostPacket,
       IgbSkipIgnored, IgbFlushTransaction, IgbCompletePacket, IgbReturnPackets, vars

(* The actions by which a started queue can stay started. *)
LEMMA StartedSteps ==
    ASSUME [Next]_vars, phase' = "started"
    PROVE  \/ EvtTxQueueStart
           \/ ClientAppends \/ DeviceTransmits \/ IgbPostPacket \/ IgbSkipIgnored
           \/ EvtTxQueueAdvance \/ IgbFlushTransaction \/ IgbCompletePacket \/ IgbReturnPackets
           \/ UNCHANGED <<phase, rings, device, posting, running>>
BY DEF Next, AdvanceStep, EvtAdapterCreateTxQueue, EvtTxQueueCancel, EvtTxQueueStop,
       EvtTxQueueDestroy, EvtAdapterOffloadSetTxChecksum, EvtAdapterOffloadSetGso,
       rings, device, posting, running, vars

(* What the completion loop has not passed is kept. *)
LEMMA KeptOnReturn ==
    ASSUME TypeOK, LoopsInOrder, IgbReturnPackets, phase = "started",
           NEW i \in Slots, Owned(i, pr, PacketRingSize)
    PROVE  Owned(i, pr', PacketRingSize) <=> ~(Offset(i) < Offset(local.packetIndex))
<1>1. PICK b \in Slots : b = local.packetIndex
  BY DEF TypeOK
<1>2. pr'.BeginIndex = b /\ pr'.EndIndex = pr.EndIndex /\ pc = "complete"
  BY <1>1 DEF IgbReturnPackets, TypeOK, RingType
<1>3. Offset(i) < Offset(pr.EndIndex)
  BY DEF Owned, Within, Offset
<1>4. /\ pr.BeginIndex \in 0 .. PacketRingSize - 1 /\ b \in 0 .. PacketRingSize - 1
      /\ pr.EndIndex \in 0 .. PacketRingSize - 1 /\ i \in 0 .. PacketRingSize - 1
  BY OffsetType DEF Slots
<1>5. /\ Offset(i) \in 0 .. PacketRingSize - 1 /\ Offset(b) \in 0 .. PacketRingSize - 1
      /\ Offset(pr.EndIndex) \in 0 .. PacketRingSize - 1
  BY OffsetType
<1>6. Offset(b) <= Offset(pr.EndIndex)
  BY <1>1, <1>2, <1>5, OffsetType, Sizes DEF LoopsInOrder, Frontier
<1>7. Dist(b, pr.EndIndex, PacketRingSize) = Offset(pr.EndIndex) - Offset(b)
  BY <1>4, <1>6, Sizes, DistShift DEF Offset
<1>8. /\ Offset(b) <= Offset(i) => Dist(b, i, PacketRingSize) = Offset(i) - Offset(b)
      /\ Offset(i) < Offset(b)
           => Dist(b, i, PacketRingSize) = (Offset(i) - Offset(b)) + PacketRingSize
  BY <1>4, Sizes, DistShift DEF Offset
<1>9. Owned(i, pr', PacketRingSize)
        <=> Dist(b, i, PacketRingSize) < Dist(b, pr.EndIndex, PacketRingSize)
  BY <1>2 DEF Owned, Within
<1>10. QED
  BY <1>1, <1>3, <1>5, <1>7, <1>8, <1>9, Sizes
-----------------------------------------------------------------------------
(* Fragments. *)

LEMMA FragmentType ==
    ASSUME TypeOK
    PROVE  /\ fr.BeginIndex \in Fragments /\ fr.EndIndex \in Fragments
           /\ local.fragmentIndex \in Fragments
           /\ \A i \in Slots : packet[i].FragmentIndex \in Fragments
           /\ \A g \in Fragments : FragmentOffset(g) \in 0 .. FragmentRingSize - 1
           /\ \A i \in Slots : OffsetOfFragment(i) \in 0 .. FragmentRingSize - 1
           /\ \A g \in Fragments, h \in Fragments :
                FragmentOffset(g) = FragmentOffset(h) => g = h
<1>1. /\ fr.BeginIndex \in Fragments /\ fr.EndIndex \in Fragments
      /\ local.fragmentIndex \in Fragments
      /\ \A i \in Slots : packet[i].FragmentIndex \in Fragments
  BY DEF TypeOK, RingType, Fragments
<1>2. \A g \in Fragments : FragmentOffset(g) \in 0 .. FragmentRingSize - 1
  BY <1>1, Sizes, DistType DEF FragmentOffset, Fragments
<1>3. \A g \in Fragments, h \in Fragments : FragmentOffset(g) = FragmentOffset(h) => g = h
  BY <1>1, Sizes, DistInjective DEF FragmentOffset, Fragments
<1>4. QED
  BY <1>1, <1>2, <1>3 DEF OffsetOfFragment

(* The steps that leave both rings' ends and the packets alone. *)
LEMMA FragmentsUntouched ==
    ASSUME FragmentsInOrder, UNCHANGED <<phase, packet>>,
           pr'.BeginIndex = pr.BeginIndex, pr'.EndIndex = pr.EndIndex,
           fr'.BeginIndex = fr.BeginIndex, fr'.EndIndex = fr.EndIndex
    PROVE  FragmentsInOrder'
BY DEF FragmentsInOrder, Carries, Owned, Offset, FragmentOffset, OffsetOfFragment

(* A new packet's fragment comes after those of all packets held. *)
LEMMA AppendKeepsFragments ==
    ASSUME TypeOK, FragmentsInOrder, ClientAppends
    PROVE  FragmentsInOrder'
<1>1. PICK ignore \in BOOLEAN :
        /\ ~ignore => Inc(fr.EndIndex, FragmentRingSize) # fr.BeginIndex
        /\ packet' = [packet EXCEPT ![pr.EndIndex] =
                        [Ignore |-> ignore, FragmentIndex |-> fr.EndIndex]]
        /\ fr' = IF ignore THEN fr ELSE [fr EXCEPT !.EndIndex = Inc(@, FragmentRingSize)]
  BY DEF ClientAppends
<1>2. /\ phase = "started"
      /\ Inc(pr.EndIndex, PacketRingSize) # pr.BeginIndex
      /\ pr'.BeginIndex = pr.BeginIndex /\ pr'.EndIndex = Inc(pr.EndIndex, PacketRingSize)
  BY DEF ClientAppends, TypeOK, RingType
<1>3. /\ fr'.BeginIndex = fr.BeginIndex
      /\ fr'.EndIndex = IF ignore THEN fr.EndIndex ELSE Inc(fr.EndIndex, FragmentRingSize)
  BY <1>1 DEF TypeOK, RingType
<1> DEFINE e == pr.EndIndex
<1>4. e \in Slots /\ fr.EndIndex \in Fragments
  BY OffsetType, FragmentType
<1>5. /\ packet'[e].Ignore = ignore /\ packet'[e].FragmentIndex = fr.EndIndex
      /\ \A i \in Slots : i # e => packet'[i] = packet[i]
  BY <1>1, <1>4 DEF TypeOK
<1>6. \A i \in Slots : Offset(i)' = Offset(i)
  BY <1>2 DEF Offset
<1>7. Offset(pr.EndIndex)' = Offset(e) + 1
  <2>1. Dist(pr.BeginIndex, Inc(e, PacketRingSize), PacketRingSize) = Offset(e) + 1
    BY <1>2, OffsetType, DistInc, Sizes DEF Offset, Slots
  <2>2. QED
    BY <1>2, <2>1 DEF Offset
<1>8. \A g \in Fragments : FragmentOffset(g)' = FragmentOffset(g)
  BY <1>3 DEF FragmentOffset
<1>9. FragmentOffset(fr.EndIndex)' = IF ignore THEN FragmentOffset(fr.EndIndex)
                                     ELSE FragmentOffset(fr.EndIndex) + 1
  <2>1. CASE ignore
    BY <1>3, <2>1 DEF FragmentOffset
  <2>2. CASE ~ignore
    <3>1. Dist(fr.BeginIndex, Inc(fr.EndIndex, FragmentRingSize), FragmentRingSize)
            = FragmentOffset(fr.EndIndex) + 1
      BY <1>1, <2>2, FragmentType, DistInc, Sizes DEF FragmentOffset, Fragments
    <3>2. QED
      BY <1>3, <2>2, <3>1 DEF FragmentOffset
  <2>3. QED
    BY <2>1, <2>2
<1>10. ASSUME NEW i \in Slots
       PROVE  /\ i # e => (Carries(i)' <=> Carries(i)) /\ OffsetOfFragment(i)' = OffsetOfFragment(i)
              /\ Carries(i) => i # e /\ Offset(i) < Offset(e)
              /\ i = e => /\ Carries(i)' <=> ~ignore
                          /\ OffsetOfFragment(i)' = FragmentOffset(fr.EndIndex)
  <2>1. Offset(i) \in Nat /\ Offset(e) \in Nat /\ (Offset(i) = Offset(e) => i = e)
    BY <1>4, OffsetType, Sizes
  <2>2. Carries(i)' <=> Offset(i) < Offset(e) + 1 /\ ~packet'[i].Ignore
    BY <1>6, <1>7 DEF Carries, Owned, Within, Offset
  <2>3. Carries(i) <=> Offset(i) < Offset(e) /\ ~packet[i].Ignore
    BY DEF Carries, Owned, Within, Offset
  <2>4. OffsetOfFragment(i)' = FragmentOffset(packet'[i].FragmentIndex)
    <3>1. packet'[i].FragmentIndex \in Fragments
      BY <1>4, <1>5, FragmentType
    <3>2. QED
      BY <1>3, <3>1 DEF OffsetOfFragment, FragmentOffset
  <2>5. i # e => Offset(i) # Offset(e)
    BY <2>1
  <2>6. QED
    BY <1>5, <2>1, <2>2, <2>3, <2>4, <2>5 DEF OffsetOfFragment
<1>11. /\ \A g \in Fragments : FragmentOffset(g) \in Nat
       /\ \A i \in Slots : OffsetOfFragment(i) \in Nat
  BY FragmentType, Sizes
<1>12. ASSUME NEW i \in Slots, Carries(i)'
       PROVE  /\ OffsetOfFragment(i)' < FragmentOffset(fr.EndIndex)'
              /\ \A j \in Slots : Carries(j)' /\ Offset(i)' < Offset(j)'
                   => OffsetOfFragment(i)' < OffsetOfFragment(j)'
  <2>1. CASE i = e
    <3>1. OffsetOfFragment(i)' < FragmentOffset(fr.EndIndex)'
      BY <1>4, <1>9, <1>10, <1>11, <1>12, <2>1
    <3>2. ASSUME NEW j \in Slots, Carries(j)', Offset(i) < Offset(j) PROVE FALSE
      BY <1>4, <1>10, <2>1, <3>2, OffsetType, Sizes
    <3>3. QED
      BY <1>6, <3>1, <3>2
  <2>2. CASE i # e
    <3>1. Carries(i) /\ OffsetOfFragment(i)' = OffsetOfFragment(i)
      BY <1>10, <1>12, <2>2
    <3>2. OffsetOfFragment(i) < FragmentOffset(fr.EndIndex)
      BY <1>2, <3>1 DEF FragmentsInOrder
    <3>3. OffsetOfFragment(i)' < FragmentOffset(fr.EndIndex)'
      BY <1>4, <1>9, <1>11, <3>1, <3>2
    <3>4. ASSUME NEW j \in Slots, Carries(j)', Offset(i) < Offset(j)
          PROVE  OffsetOfFragment(i)' < OffsetOfFragment(j)'
      <4>1. CASE j = e
        BY <1>10, <3>1, <3>2, <4>1
      <4>2. CASE j # e
        BY <1>2, <1>10, <3>1, <3>4, <4>2 DEF FragmentsInOrder
      <4>3. QED
        BY <4>1, <4>2
    <3>5. QED
      BY <1>6, <3>3, <3>4
  <2>3. QED
    BY <2>1, <2>2
<1>13. ASSUME NEW g \in Fragments, FragmentOffset(g)' < FragmentOffset(fr.EndIndex)'
       PROVE  \E i \in Slots : Carries(i)' /\ packet'[i].FragmentIndex = g
  <2>1. CASE g = fr.EndIndex
    <3>1. ~ignore
      BY <1>4, <1>8, <1>9, <1>11, <1>13, <2>1
    <3>2. QED
      BY <1>4, <1>5, <1>10, <2>1, <3>1
  <2>2. CASE g # fr.EndIndex
    <3>1. FragmentOffset(g) # FragmentOffset(fr.EndIndex)
      BY <1>4, <2>2, FragmentType
    <3>2. FragmentOffset(g) < FragmentOffset(fr.EndIndex)
      BY <1>4, <1>8, <1>9, <1>11, <1>13, <3>1
    <3>3. PICK i \in Slots : Carries(i) /\ packet[i].FragmentIndex = g
      BY <1>2, <3>2 DEF FragmentsInOrder
    <3>4. QED
      BY <1>5, <1>10, <3>3
  <2>3. QED
    BY <2>1, <2>2
<1>14. QED
  BY <1>12, <1>13 DEF FragmentsInOrder

(* The completion loop passes a packet, and its fragment if it has one.    *)
LEMMA CompleteCounts ==
    ASSUME TypeOK, LoopsInOrder, FragmentsInOrder, FragmentsCounted, IgbCompletePacket,
           phase = "started"
    PROVE  FragmentsCounted'
<1>1. PICK b \in Slots, g \in Fragments : b = local.packetIndex /\ g = local.fragmentIndex
  BY DEF TypeOK
<1>2. /\ pc = "complete" /\ b # pr.NextIndex
      /\ UNCHANGED <<phase, pr, fr, packet, pc>>
      /\ local'.packetIndex = Inc(b, PacketRingSize)
      /\ local'.fragmentIndex = Wrap(g + FragmentCount(b), FragmentRingSize)
  BY <1>1 DEF IgbCompletePacket, rings, TypeOK
<1>3. /\ \A i \in Slots : /\ Offset(i)' = Offset(i) /\ (Carries(i)' <=> Carries(i))
                          /\ OffsetOfFragment(i)' = OffsetOfFragment(i)
                          /\ Offset(i) \in Nat /\ OffsetOfFragment(i) \in Nat
      /\ \A h \in Fragments : FragmentOffset(h) \in Nat
  BY <1>2, OffsetType, FragmentType, Sizes
     DEF Offset, Carries, Owned, OffsetOfFragment, FragmentOffset
<1>4. FragmentOffset(g) <= FragmentOffset(fr.EndIndex)
  BY <1>1, <1>2 DEF FragmentsCounted
<1>5. \A i \in Slots : Carries(i) =>
        (Offset(i) < Offset(b) <=> OffsetOfFragment(i) < FragmentOffset(g))
  BY <1>1, <1>2 DEF FragmentsCounted
<1>6. Offset(b) < Offset(pr.NextIndex) /\ Offset(pr.NextIndex) <= Offset(pr.EndIndex)
  <2>1. Offset(b) <= Offset(pr.NextIndex) /\ Offset(pr.NextIndex) <= Offset(pr.EndIndex)
    BY <1>1, <1>2 DEF LoopsInOrder, Frontier
  <2>2. Offset(b) # Offset(pr.NextIndex)
    BY <1>2, OffsetType
  <2>3. QED
    BY <1>3, <2>1, <2>2, OffsetType
<1>7. Offset(local.packetIndex)' = Offset(b) + 1
  <2>1. Offset(b) + 1 < PacketRingSize
    BY <1>3, <1>6, OffsetType, Sizes
  <2>2. Dist(pr.BeginIndex, Inc(b, PacketRingSize), PacketRingSize) = Offset(b) + 1
    BY <2>1, OffsetType, DistInc, Sizes DEF Offset, Slots
  <2>3. QED
    BY <1>2, <2>2 DEF Offset
<1>8. CASE packet[b].Ignore
  <2>1. local'.fragmentIndex = g
    BY <1>1, <1>2, <1>8, Sizes DEF FragmentCount, Wrap, Fragments
  <2>2. FragmentOffset(local.fragmentIndex)' = FragmentOffset(g)
        /\ FragmentOffset(fr.EndIndex)' = FragmentOffset(fr.EndIndex)
    BY <1>2, <2>1 DEF FragmentOffset
  <2>3. \A i \in Slots : Carries(i) => (Offset(i) < Offset(b) + 1 <=> Offset(i) < Offset(b))
    <3>1. \A i \in Slots : Carries(i) => i # b
      BY <1>8 DEF Carries
    <3>2. \A i \in Slots : i # b => Offset(i) # Offset(b)
      BY OffsetType
    <3>3. QED
      BY <1>3, <3>1, <3>2
  <2>4. QED
    BY <1>3, <1>4, <1>5, <1>7, <2>2, <2>3 DEF FragmentsCounted
<1>9. CASE ~packet[b].Ignore
  <2>1. Carries(b)
    BY <1>3, <1>6, <1>9, OffsetType, Sizes DEF Carries, Owned, Within, Offset
  <2>2. FragmentOffset(g) <= OffsetOfFragment(b)
        /\ OffsetOfFragment(b) < FragmentOffset(fr.EndIndex)
    BY <1>1, <1>3, <1>5, <2>1, phase = "started" DEF FragmentsInOrder
  <2>3. FragmentOffset(g) \in Nat /\ FragmentOffset(fr.EndIndex) \in Nat
    BY <1>3, FragmentType
  <2>4. FragmentOffset(g) < FragmentOffset(fr.EndIndex)
    BY <1>3, <2>2, <2>3
  <2>5. PICK i \in Slots : Carries(i) /\ packet[i].FragmentIndex = g
    BY <2>4, phase = "started" DEF FragmentsInOrder
  <2>6. i = b
    <3>1. OffsetOfFragment(i) = FragmentOffset(g)
      BY <2>5 DEF OffsetOfFragment
    <3>2. ~(Offset(i) < Offset(b))
      BY <1>5, <2>3, <2>5, <3>1
    <3>3. ~(Offset(b) < Offset(i))
      <4>1. Offset(b) < Offset(i) => OffsetOfFragment(b) < OffsetOfFragment(i)
        BY <2>1, <2>5, phase = "started" DEF FragmentsInOrder
      <4>2. QED
        BY <1>3, <2>2, <2>3, <3>1, <4>1
    <3>4. QED
      BY <1>3, <3>2, <3>3, OffsetType
  <2>7. OffsetOfFragment(b) = FragmentOffset(g)
    BY <2>5, <2>6 DEF OffsetOfFragment
  <2>8. local'.fragmentIndex = Inc(g, FragmentRingSize)
    BY <1>1, <1>2, <1>9, Sizes DEF FragmentCount, Wrap, Inc, Fragments
  <2>9. FragmentOffset(local.fragmentIndex)' = FragmentOffset(g) + 1
    <3>1. FragmentOffset(g) + 1 < FragmentRingSize
      BY <2>3, <2>4, FragmentType, Sizes
    <3>2. Dist(fr.BeginIndex, Inc(g, FragmentRingSize), FragmentRingSize) = FragmentOffset(g) + 1
      BY <3>1, FragmentType, DistInc, Sizes DEF FragmentOffset, Fragments
    <3>3. QED
      BY <1>2, <2>8, <3>2 DEF FragmentOffset
  <2>10. FragmentOffset(fr.EndIndex)' = FragmentOffset(fr.EndIndex)
    BY <1>2 DEF FragmentOffset
  <2>11. ASSUME NEW j \in Slots, Carries(j)
         PROVE  Offset(j) < Offset(b) + 1 <=> OffsetOfFragment(j) < FragmentOffset(g) + 1
    <3>1. CASE j = b
      BY <1>3, <2>3, <2>7, <3>1
    <3>2. CASE j # b
      <4>1. Offset(j) # Offset(b)
        BY <3>2, OffsetType
      <4>2. Offset(j) < Offset(b) <=> OffsetOfFragment(j) < FragmentOffset(g)
        BY <1>5, <2>11
      <4>3. Offset(b) < Offset(j) => FragmentOffset(g) < OffsetOfFragment(j)
        BY <2>1, <2>7, <2>11, phase = "started" DEF FragmentsInOrder
      <4>4. QED
        BY <1>3, <2>3, <4>1, <4>2, <4>3
    <3>3. QED
      BY <3>1, <3>2
  <2>12. QED
    BY <1>2, <1>3, <1>7, <2>3, <2>4, <2>9, <2>10, <2>11 DEF FragmentsCounted
<1>10. QED
  BY <1>8, <1>9

(* Packets and fragments are returned together: what stays of either is    *)
(* nearer to the new start of its ring by what was returned of it.         *)
LEMMA ReturnKeepsFragments ==
    ASSUME TypeOK, LoopsInOrder, FragmentsInOrder, FragmentsCounted, IgbReturnPackets,
           phase = "started"
    PROVE  FragmentsInOrder'
<1>1. PICK b \in Slots, g \in Fragments : b = local.packetIndex /\ g = local.fragmentIndex
  BY DEF TypeOK
<1>2. /\ pc = "complete" /\ pc' = "idle" /\ phase' = phase
      /\ pr'.BeginIndex = b /\ pr'.NextIndex = pr.NextIndex /\ pr'.EndIndex = pr.EndIndex
      /\ fr'.BeginIndex = g /\ fr'.EndIndex = fr.EndIndex
      /\ packet' = [i \in Slots |-> IF Owned(i, pr', PacketRingSize) THEN packet[i]
                                    ELSE NoPacket]
  BY <1>1 DEF IgbReturnPackets, TypeOK, RingType
<1>3. /\ \A i \in Slots : Offset(i) \in Nat /\ OffsetOfFragment(i) \in Nat
      /\ \A h \in Fragments : FragmentOffset(h) \in Nat
      /\ fr.EndIndex \in Fragments
  BY OffsetType, FragmentType, Sizes
<1>4. ASSUME NEW i \in Slots, Carries(i)'
      PROVE  /\ Carries(i) /\ packet'[i] = packet[i]
             /\ Offset(i)' = Offset(i) - Offset(b)
             /\ FragmentOffset(g) <= OffsetOfFragment(i)
             /\ OffsetOfFragment(i)' = OffsetOfFragment(i) - FragmentOffset(g)
  <2>1. Within(i, pr'.BeginIndex, pr'.EndIndex, PacketRingSize) /\ ~packet'[i].Ignore
    BY <1>4 DEF Carries, Owned
  <2>2. Offset(i)' = Offset(i) - Offset(b) /\ Offset(i) < Offset(pr.EndIndex)
    BY <1>1, <2>1, ReturnShifts
  <2>3. packet'[i] = packet[i]
    BY <1>2, <2>1 DEF Owned
  <2>4. Carries(i)
    BY <2>1, <2>2, <2>3 DEF Carries, Owned, Within, Offset
  <2>5. Offset(i)' \in Nat
    <3>1. Dist(b, i, PacketRingSize) \in 0 .. PacketRingSize - 1
      BY <1>1, Sizes, DistType DEF Slots
    <3>2. QED
      BY <1>2, <3>1, Sizes DEF Offset
  <2>6. ~(Offset(i) < Offset(b))
    BY <1>3, <2>2, <2>5
  <2>7. FragmentOffset(g) <= OffsetOfFragment(i)
    <3>1. ~(OffsetOfFragment(i) < FragmentOffset(g))
      BY <1>1, <1>2, <2>4, <2>6, phase = "started" DEF FragmentsCounted
    <3>2. QED
      BY <1>3, <3>1
  <2>8. Dist(g, packet[i].FragmentIndex, FragmentRingSize)
          = OffsetOfFragment(i) - FragmentOffset(g)
    <3>1. /\ fr.BeginIndex \in 0 .. FragmentRingSize - 1
          /\ g \in 0 .. FragmentRingSize - 1
          /\ packet[i].FragmentIndex \in 0 .. FragmentRingSize - 1
      BY FragmentType DEF Fragments
    <3>2. QED
      BY <2>7, <3>1, Sizes, DistShift DEF OffsetOfFragment, FragmentOffset
  <2>9. OffsetOfFragment(i)' = Dist(g, packet[i].FragmentIndex, FragmentRingSize)
    BY <1>2, <2>3 DEF OffsetOfFragment, FragmentOffset
  <2>10. QED
    BY <2>2, <2>3, <2>4, <2>7, <2>8, <2>9
<1>5. ASSUME NEW h \in Fragments, FragmentOffset(g) <= FragmentOffset(h)
      PROVE  FragmentOffset(h)' = FragmentOffset(h) - FragmentOffset(g)
  <2>1. /\ fr.BeginIndex \in 0 .. FragmentRingSize - 1
        /\ g \in 0 .. FragmentRingSize - 1 /\ h \in 0 .. FragmentRingSize - 1
    BY FragmentType DEF Fragments
  <2>2. Dist(g, h, FragmentRingSize) = FragmentOffset(h) - FragmentOffset(g)
    BY <1>5, <2>1, Sizes, DistShift DEF FragmentOffset
  <2>3. QED
    BY <1>2, <2>2 DEF FragmentOffset
<1>6. FragmentOffset(g) <= FragmentOffset(fr.EndIndex)
  BY <1>1, <1>2, phase = "started" DEF FragmentsCounted
<1>7. FragmentOffset(fr.EndIndex)' = FragmentOffset(fr.EndIndex) - FragmentOffset(g)
  <2>1. Dist(fr'.BeginIndex, fr.EndIndex, FragmentRingSize)
          = FragmentOffset(fr.EndIndex) - FragmentOffset(g)
    BY <1>2, <1>3, <1>5, <1>6 DEF FragmentOffset
  <2>2. QED
    BY <1>2, <2>1 DEF FragmentOffset
<1>8. ASSUME NEW i \in Slots, Carries(i)'
      PROVE  /\ OffsetOfFragment(i)' < FragmentOffset(fr.EndIndex)'
             /\ \A j \in Slots : Carries(j)' /\ Offset(i)' < Offset(j)'
                  => OffsetOfFragment(i)' < OffsetOfFragment(j)'
  <2>1. OffsetOfFragment(i) < FragmentOffset(fr.EndIndex)
    BY <1>4, <1>8, phase = "started" DEF FragmentsInOrder
  <2>2. OffsetOfFragment(i)' < FragmentOffset(fr.EndIndex)'
    BY <1>1, <1>3, <1>4, <1>7, <1>8, <2>1
  <2>3. ASSUME NEW j \in Slots, Carries(j)', Offset(i)' < Offset(j)'
        PROVE  OffsetOfFragment(i)' < OffsetOfFragment(j)'
    <3>1. Offset(i) < Offset(j)
      BY <1>1, <1>3, <1>4, <1>8, <2>3
    <3>2. OffsetOfFragment(i) < OffsetOfFragment(j)
      BY <1>4, <1>8, <2>3, <3>1, phase = "started" DEF FragmentsInOrder
    <3>3. QED
      BY <1>1, <1>3, <1>4, <1>8, <2>3, <3>2
  <2>4. QED
    BY <2>2, <2>3
<1>9. ASSUME NEW h \in Fragments, FragmentOffset(h)' < FragmentOffset(fr.EndIndex)'
      PROVE  \E i \in Slots : Carries(i)' /\ packet'[i].FragmentIndex = h
  <2>1. FragmentOffset(g) <= FragmentOffset(h)
    <3>1. ASSUME FragmentOffset(h) < FragmentOffset(g)
          PROVE  FALSE
      <4>1. /\ fr.BeginIndex \in 0 .. FragmentRingSize - 1
            /\ g \in 0 .. FragmentRingSize - 1 /\ h \in 0 .. FragmentRingSize - 1
        BY FragmentType DEF Fragments
      <4>2. FragmentOffset(h)' = (FragmentOffset(h) - FragmentOffset(g)) + FragmentRingSize
        <5>1. Dist(g, h, FragmentRingSize)
                = (FragmentOffset(h) - FragmentOffset(g)) + FragmentRingSize
          BY <3>1, <4>1, Sizes, DistShift DEF FragmentOffset
        <5>2. QED
          BY <1>2, <5>1 DEF FragmentOffset
      <4>3. FragmentOffset(fr.EndIndex) < FragmentRingSize
        BY <1>3, FragmentType, Sizes
      <4>4. QED
        BY <1>1, <1>3, <1>7, <1>9, <4>2, <4>3, Sizes
    <3>2. QED
      BY <1>1, <1>3, <3>1
  <2>2. FragmentOffset(h) < FragmentOffset(fr.EndIndex)
    BY <1>1, <1>3, <1>5, <1>7, <1>9, <2>1
  <2>3. PICK i \in Slots : Carries(i) /\ packet[i].FragmentIndex = h
    BY <2>2, phase = "started" DEF FragmentsInOrder
  <2>4. ~(Offset(i) < Offset(b))
    <3>1. OffsetOfFragment(i) = FragmentOffset(h)
      BY <2>3 DEF OffsetOfFragment
    <3>2. ~(OffsetOfFragment(i) < FragmentOffset(g))
      BY <1>1, <1>3, <2>1, <3>1
    <3>3. QED
      BY <1>1, <1>2, <2>3, <3>2, phase = "started" DEF FragmentsCounted
  <2>5. Owned(i, pr', PacketRingSize)
    BY <1>1, <2>3, <2>4, KeptOnReturn DEF Carries
  <2>6. packet'[i] = packet[i]
    BY <1>2, <2>5
  <2>7. QED
    BY <2>3, <2>5, <2>6 DEF Carries
<1>10. QED
  BY <1>8, <1>9 DEF FragmentsInOrder

LEMMA NextFragments ==
    ASSUME TypeOK, LoopsInOrder, FragmentsInOrder, FragmentsCounted, [Next]_vars
    PROVE  FragmentsInOrder' /\ FragmentsCounted'
<1> DEFINE Goal == FragmentsInOrder' /\ FragmentsCounted'
<1>1. ASSUME phase' # "started" PROVE Goal
  BY <1>1 DEF FragmentsInOrder, FragmentsCounted
<1>2. ASSUME EvtTxQueueStart PROVE Goal
  <2>1. /\ pr'.BeginIndex = 0 /\ pr'.EndIndex = 0 /\ fr'.BeginIndex = 0 /\ fr'.EndIndex = 0
        /\ pc' = pc /\ pc = "idle"
    BY <1>2 DEF EvtTxQueueStart, EmptyRing, running, LoopsInOrder
  <2>2. ASSUME NEW n \in Nat, n >= 2, NEW i \in 0 .. n-1 PROVE ~(Dist(0, i, n) < Dist(0, 0, n))
    BY <2>2 DEF Dist
  <2>3. /\ \A i \in Slots : ~Carries(i)'
        /\ \A g \in Fragments : ~(FragmentOffset(g)' < FragmentOffset(fr.EndIndex)')
    BY <2>1, <2>2, Sizes DEF Carries, Owned, Within, FragmentOffset, Slots, Fragments
  <2>4. QED
    BY <2>1, <2>3 DEF FragmentsInOrder, FragmentsCounted
<1>3. ASSUME phase = "started", ClientAppends PROVE Goal
  <2>1. pc' = "idle"
    BY <1>3 DEF ClientAppends, running
  <2>2. QED
    BY <1>3, <2>1, AppendKeepsFragments DEF FragmentsCounted
<1>4. ASSUME phase = "started",
             \/ DeviceTransmits \/ IgbPostPacket \/ IgbSkipIgnored \/ EvtTxQueueAdvance
             \/ IgbFlushTransaction
             \/ IgbCompletePacket \/ UNCHANGED <<phase, rings, device, posting, running>>
      PROVE  FragmentsInOrder'
  <2>1. /\ UNCHANGED <<phase, packet>>
        /\ pr'.BeginIndex = pr.BeginIndex /\ pr'.EndIndex = pr.EndIndex
        /\ fr'.BeginIndex = fr.BeginIndex /\ fr'.EndIndex = fr.EndIndex
    BY <1>4 DEF DeviceTransmits, IgbPostPacket, IgbSkipIgnored, EvtTxQueueAdvance,
                IgbFlushTransaction, IgbCompletePacket, rings, TypeOK, RingType
  <2>2. QED
    BY <2>1, FragmentsUntouched
<1>5. ASSUME phase = "started",
             \/ IgbPostPacket \/ IgbSkipIgnored \/ EvtTxQueueAdvance
      PROVE  FragmentsCounted'
  <2>1. pc' = "transmit"
    BY <1>5 DEF IgbPostPacket, IgbSkipIgnored, EvtTxQueueAdvance
  <2>2. QED
    BY <2>1 DEF FragmentsCounted
<1>6. ASSUME phase = "started",
             DeviceTransmits \/ UNCHANGED <<phase, rings, device, posting, running>>
      PROVE  FragmentsCounted'
  <2>1. UNCHANGED <<phase, pr, fr, packet, pc, local>>
    BY <1>6 DEF DeviceTransmits, rings, running
  <2>2. QED
    BY <2>1 DEF FragmentsCounted, FragmentOffset, OffsetOfFragment, Carries, Owned, Offset
<1>7. ASSUME phase = "started", IgbFlushTransaction PROVE FragmentsCounted'
  <2>1. /\ local'.packetIndex = pr.BeginIndex /\ local'.fragmentIndex = fr.BeginIndex
        /\ pr'.BeginIndex = pr.BeginIndex /\ fr' = fr /\ packet' = packet
    BY <1>7 DEF IgbFlushTransaction, TypeOK, RingType, NoLocals
  <2>2. FragmentOffset(local.fragmentIndex)' = 0 /\ Offset(local.packetIndex)' = 0
    <3>1. Dist(pr.BeginIndex, pr.BeginIndex, PacketRingSize) = 0
          /\ Dist(fr.BeginIndex, fr.BeginIndex, FragmentRingSize) = 0
      BY OffsetType, FragmentType, DistType, Sizes DEF Slots, Fragments
    <3>2. QED
      BY <2>1, <3>1 DEF FragmentOffset, Offset
  <2>3. /\ \A i \in Slots : Offset(i)' \in Nat /\ OffsetOfFragment(i)' \in Nat
        /\ FragmentOffset(fr.EndIndex)' \in Nat
    BY <2>1, OffsetType, FragmentType, Sizes DEF Offset, FragmentOffset, OffsetOfFragment
  <2>4. QED
    BY <2>2, <2>3 DEF FragmentsCounted
<1>8. ASSUME phase = "started", IgbReturnPackets PROVE Goal
  <2>1. pc' = "idle"
    BY <1>8 DEF IgbReturnPackets
  <2>2. QED
    BY <1>8, <2>1, ReturnKeepsFragments DEF FragmentsCounted
<1>9. ASSUME phase = "started", IgbCompletePacket PROVE FragmentsCounted'
  BY <1>9, CompleteCounts
<1>10. Goal
  <2>1. CASE phase' = "started" /\ ~EvtTxQueueStart
    <3>1. phase = "started"
      BY <2>1, StaysStarted
    <3>2. QED
      BY <2>1, <3>1, <1>3, <1>4, <1>5, <1>6, <1>7, <1>8, <1>9, StartedSteps
  <2>2. QED
    BY <1>1, <1>2, <2>1
<1>11. QED
  BY <1>10

(* The completion loop releases exactly the fragments of the packets it    *)
(* releases, whichever packets are to be ignored: between two calls the    *)
(* fragment ring starts at the first packet's fragment.                    *)
THEOREM FragmentsReleasedWithPackets == Spec => []FragmentsFollowPackets
<1> DEFINE Counted == TypeOK /\ LoopsInOrder /\ FragmentsInOrder /\ FragmentsCounted
<1>1. Init => Counted
  BY InitInvariant DEF Init, Invariant, FragmentsInOrder, FragmentsCounted
<1>2. Counted /\ [Next]_vars => Counted'
  <2> SUFFICES ASSUME Counted, [Next]_vars PROVE Counted'
    OBVIOUS
  <2>1. TypeOK' /\ LoopsInOrder'
    BY NextTypeOK, LoopsKept
  <2>2. FragmentsInOrder' /\ FragmentsCounted'
    BY NextFragments
  <2>3. QED
    BY <2>1, <2>2
<1>3. Counted => FragmentsFollowPackets
  <2> SUFFICES ASSUME Counted, phase = "started"
               PROVE  /\ (\A i \in Slots : ~Carries(i)) => fr.BeginIndex = fr.EndIndex
                      /\ \A i \in Slots :
                           /\ Carries(i)
                           /\ \A j \in Slots : Carries(j) => ~(Offset(j) < Offset(i))
                           => fr.BeginIndex = packet[i].FragmentIndex
    BY DEF FragmentsFollowPackets, Carries, Before, Offset
  <2>1. FragmentOffset(fr.BeginIndex) = 0 /\ fr.BeginIndex \in Fragments
    BY FragmentType, DistType, Sizes DEF FragmentOffset, Fragments
  <2>2. FragmentOffset(fr.EndIndex) \in Nat
    BY FragmentType, Sizes
  <2>3. fr.BeginIndex = fr.EndIndex \/ 0 < FragmentOffset(fr.EndIndex)
    BY <2>1, <2>2, FragmentType
  <2>4. fr.BeginIndex = fr.EndIndex
        \/ \E j \in Slots : Carries(j) /\ packet[j].FragmentIndex = fr.BeginIndex
    BY <2>1, <2>3 DEF FragmentsInOrder
  <2>5. ASSUME NEW i \in Slots, Carries(i),
               \A j \in Slots : Carries(j) => ~(Offset(j) < Offset(i))
        PROVE  fr.BeginIndex = packet[i].FragmentIndex
    <3>1. OffsetOfFragment(i) < FragmentOffset(fr.EndIndex) /\ OffsetOfFragment(i) \in Nat
      BY <2>5, FragmentType, Sizes DEF FragmentsInOrder
    <3>2. fr.BeginIndex # fr.EndIndex
      BY <2>1, <2>2, <3>1
    <3>3. PICK j \in Slots : Carries(j) /\ packet[j].FragmentIndex = fr.BeginIndex
      BY <2>4, <3>2
    <3>4. OffsetOfFragment(j) = 0
      BY <2>1, <3>3 DEF OffsetOfFragment
    <3>5. ~(Offset(i) < Offset(j))
      BY <2>5, <3>1, <3>3, <3>4 DEF FragmentsInOrder
    <3>6. i = j
      BY <2>5, <3>3, <3>5, OffsetType
    <3>7. QED
      BY <3>3, <3>6
  <2>6. QED
    BY <2>4, <2>5
<1>4. QED
  BY <1>1, <1>2, <1>3, PTL DEF Spec
-----------------------------------------------------------------------------
(* Descriptors. *)

LEMMA BehindType ==
    ASSUME TypeOK
    PROVE  /\ \A d \in Descriptors : /\ Behind(d) \in 0 .. NumTxDesc - 1
                                     /\ Behind(d) = 0 <=> d = TxDescIndex
           /\ \A d \in Descriptors, e \in Descriptors : Behind(d) = Behind(e) => d = e
           /\ Pending \in 0 .. NumTxDesc - 1
           /\ TDH \in Descriptors /\ TDT \in Descriptors /\ TxDescIndex \in Descriptors
<1>1. TDH \in Descriptors /\ TDT \in Descriptors /\ TxDescIndex \in Descriptors
  BY DEF TypeOK
<1>2. \A d \in Descriptors : /\ Behind(d) \in 0 .. NumTxDesc - 1
                             /\ Behind(d) = 0 <=> d = TxDescIndex
  BY <1>1, DistType, Sizes DEF Behind, Descriptors
<1>3. \A d \in Descriptors, e \in Descriptors : Behind(d) = Behind(e) => d = e
  BY <1>1, DistInjective, Sizes DEF Behind, Descriptors
<1>4. QED
  BY <1>1, <1>2, <1>3 DEF Pending

(* The last descriptor of a packet in flight is among those written since. *)
LEMMA LastType ==
    ASSUME TypeOK, DescriptorsInOrder, NEW i \in Slots, InFlight(i)
    PROVE  /\ lastTxDescIdx(i) \in Descriptors
           /\ Behind(lastTxDescIdx(i)) = LastBehind(i)
           /\ LastBehind(i) \in Nat /\ 1 <= LastBehind(i) /\ LastBehind(i) <= Written(i)
           /\ LastBehind(i) + tcb[i].NumTxDesc = Written(i) + 1
<1>1. /\ tcb[i].FirstTxDescIdx \in 0 .. NumTxDesc - 1 /\ tcb[i].NumTxDesc \in Nat
      /\ TxDescIndex \in 0 .. NumTxDesc - 1 /\ Written(i) \in Nat
  <2>1. /\ tcb[i].FirstTxDescIdx \in 0 .. NumTxDesc - 1 /\ tcb[i].NumTxDesc \in 0 .. 2
        /\ TxDescIndex \in 0 .. NumTxDesc - 1
    BY DEF TypeOK, Descriptors
  <2>2. Written(i) \in 0 .. NumTxDesc - 1
    BY WrittenType
  <2>3. QED
    BY <2>1, <2>2, Sizes
<1>2. 1 <= tcb[i].NumTxDesc /\ tcb[i].NumTxDesc <= Written(i)
  BY DEF DescriptorsInOrder
<1>3. PICK k \in Nat : k = tcb[i].NumTxDesc - 1
  BY <1>1, <1>2
<1>4. lastTxDescIdx(i) = Wrap(tcb[i].FirstTxDescIdx + k, NumTxDesc)
  BY <1>1, <1>3 DEF lastTxDescIdx
<1>5. /\ Wrap(tcb[i].FirstTxDescIdx + k, NumTxDesc) \in 0 .. NumTxDesc - 1
      /\ Dist(Wrap(tcb[i].FirstTxDescIdx + k, NumTxDesc), TxDescIndex, NumTxDesc)
           = Written(i) - k
  <2>1. k <= Written(i)
    BY <1>1, <1>2, <1>3
  <2>2. QED
    BY <1>1, <2>1, Sizes, DistWithin DEF Written
<1>6. QED
  BY <1>1, <1>2, <1>3, <1>4, <1>5 DEF Behind, LastBehind, Descriptors

(* No two packets in flight end at the same descriptor. *)
LEMMA LastDiffers ==
    ASSUME TypeOK, DescriptorsInOrder, NEW i \in Slots, NEW j \in Slots,
           InFlight(i), InFlight(j), LastBehind(i) = LastBehind(j)
    PROVE  i = j
<1>1. ASSUME NEW a \in Slots, NEW b \in Slots, InFlight(a), InFlight(b),
             Offset(a) < Offset(b), LastBehind(a) = LastBehind(b)
      PROVE  FALSE
  <2>1. Written(b) + tcb[a].NumTxDesc <= Written(a)
    BY <1>1 DEF DescriptorsInOrder
  <2>2. /\ LastBehind(a) + tcb[a].NumTxDesc = Written(a) + 1 /\ LastBehind(a) \in Nat
        /\ LastBehind(b) <= Written(b)
    BY <1>1, LastType
  <2>3. Written(a) \in Nat /\ Written(b) \in Nat /\ tcb[a].NumTxDesc \in Nat
    BY WrittenType, Sizes DEF TypeOK
  <2>4. QED
    BY <1>1, <2>1, <2>2, <2>3
<1>2. Offset(i) < Offset(j) \/ Offset(j) < Offset(i) \/ i = j
  BY OffsetType, Sizes
<1>3. QED
  BY <1>1, <1>2

(* The steps of a started queue that write no descriptor: packets may      *)
(* leave flight, but none that the device has yet to send.                 *)
LEMMA DescriptionKept ==
    ASSUME PacketsDescribed, DescriptorsWritten, phase = "started",
           UNCHANGED <<phase, tcb, TxDescIndex, txd, TDH>>,
           \A i \in Slots :
             /\ InFlight(i)' => InFlight(i) /\ packet'[i] = packet[i] /\ sent'[i] = sent[i]
             /\ ~InFlight(i)' => sent'[i] = 0
             /\ InFlight(i) /\ LastBehind(i) <= Pending => InFlight(i)',
           TypeOK, DescriptorsInOrder
    PROVE  PacketsDescribed' /\ DescriptorsWritten'
<1>1. /\ \A i \in Slots : /\ LastBehind(i)' = LastBehind(i) /\ Written(i)' = Written(i)
                          /\ lastTxDescIdx(i)' = lastTxDescIdx(i)
      /\ \A d \in Descriptors : Behind(d)' = Behind(d)
      /\ Pending' = Pending
  BY DEF LastBehind, Written, lastTxDescIdx, Behind, Pending
<1>2. PacketsDescribed'
  BY <1>1 DEF PacketsDescribed
<1>3. DescriptorsWritten'
  <2> SUFFICES ASSUME NEW d \in Descriptors, 1 <= Behind(d), Behind(d) <= Pending
               PROVE  \E i \in Slots :
                        /\ InFlight(i)' /\ LastBehind(i) <= Behind(d) /\ Behind(d) <= Written(i)
                        /\ Behind(d) # LastBehind(i) => txd[d].kind = "context"
    BY <1>1 DEF DescriptorsWritten
  <2>1. PICK i \in Slots :
          /\ InFlight(i) /\ LastBehind(i) <= Behind(d) /\ Behind(d) <= Written(i)
          /\ Behind(d) # LastBehind(i) => txd[d].kind = "context"
    BY DEF DescriptorsWritten
  <2>2. LastBehind(i) <= Pending
    <3>1. LastBehind(i) \in Nat /\ Behind(d) \in Nat /\ Pending \in Nat
      BY <2>1, LastType, BehindType, Sizes
    <3>2. QED
      BY <2>1, <3>1
  <2>3. QED
    BY <2>1, <2>2
<1>4. QED
  BY <1>2, <1>3

(* The device takes a descriptor: a context descriptor, or the data of the *)
(* one packet whose last descriptor it is, which was not sent before.      *)
LEMMA TransmitKeepsDescription ==
    ASSUME TypeOK, DescriptorsInOrder, PacketsDescribed, DescriptorsWritten, TailInOrder,
           DeviceTransmits, phase = "started"
    PROVE  PacketsDescribed' /\ DescriptorsWritten' /\ TailInOrder'
<1>1. /\ TDH # TDT /\ TDH' = Inc(TDH, NumTxDesc)
      /\ UNCHANGED <<phase, pr, packet, TDT, tcb, TxDescIndex, pc, local>>
  BY DEF DeviceTransmits, posting, running
<1>2. Pending \in Nat /\ Behind(TDT) \in Nat /\ Behind(TDT) < Pending
  <2>1. Pending \in Nat /\ Behind(TDT) \in Nat /\ Behind(TDT) # Pending
    BY <1>1, BehindType, Sizes DEF Pending
  <2>2. Behind(TDT) <= Pending
    BY phase = "started" DEF TailInOrder
  <2>3. QED
    BY <2>1, <2>2
<1>3. /\ \A j \in Slots : /\ LastBehind(j)' = LastBehind(j) /\ Written(j)' = Written(j)
                          /\ lastTxDescIdx(j)' = lastTxDescIdx(j)
                          /\ InFlight(j)' <=> InFlight(j)
      /\ \A d \in Descriptors : Behind(d)' = Behind(d)
  BY <1>1 DEF LastBehind, Written, lastTxDescIdx, Behind, InFlight, Frontier
<1>4. Pending' = Pending - 1
  <2>1. TDH # TxDescIndex
    BY <1>2, BehindType DEF Pending
  <2>2. Dist(Inc(TDH, NumTxDesc), TxDescIndex, NumTxDesc)
          = Dist(TDH, TxDescIndex, NumTxDesc) - 1
    BY <2>1, BehindType, DistNext, Sizes DEF Descriptors
  <2>3. QED
    BY <1>1, <2>2 DEF Pending, Behind
<1>5. PICK i \in Slots :
        /\ InFlight(i) /\ LastBehind(i) <= Pending /\ Pending <= Written(i)
        /\ Pending # LastBehind(i) => txd[TDH].kind = "context"
  <2>1. 1 <= Behind(TDH) /\ Behind(TDH) <= Pending /\ TDH \in Descriptors
    BY <1>2, BehindType DEF Pending
  <2>2. QED
    BY <2>1, phase = "started" DEF DescriptorsWritten, Pending
<1>6. \A j \in Slots : InFlight(j) => /\ LastBehind(j) \in Nat /\ 1 <= LastBehind(j)
                                      /\ lastTxDescIdx(j) \in Descriptors
                                      /\ Behind(lastTxDescIdx(j)) = LastBehind(j)
  BY LastType
<1>7. \A j \in Slots : InFlight(j) =>
        (lastTxDescIdx(j) = TDH <=> LastBehind(j) = Pending)
  BY <1>6, BehindType DEF Pending
<1>8. TailInOrder'
  <2>1. Behind(TDT)' <= Pending'
    BY <1>1, <1>2, <1>3, <1>4, BehindType
  <2>2. QED
    BY <1>1, <2>1, phase = "started" DEF TailInOrder
<1>9. CASE LastBehind(i) = Pending
  <2>1. txd[TDH] = Data(packet[i].FragmentIndex, i) /\ sent[i] = 0
    BY <1>2, <1>5, <1>7, <1>9, phase = "started" DEF PacketsDescribed
  <2>2. /\ txd' = [txd EXCEPT ![TDH] = Done]
        /\ sent' = [sent EXCEPT ![i] = IF @ < 2 THEN @ + 1 ELSE 2]
    BY <2>1 DEF DeviceTransmits, Data
  <2>3. /\ \A d \in Descriptors : d # TDH => txd'[d] = txd[d]
        /\ txd'[TDH] = Done /\ sent'[i] = 1
        /\ \A j \in Slots : j # i => sent'[j] = sent[j]
    BY <2>1, <2>2 DEF TypeOK
  <2>4. ASSUME NEW j \in Slots
        PROVE  /\ InFlight(j) /\ LastBehind(j) <= Pending - 1 =>
                    /\ txd'[lastTxDescIdx(j)] = Data(packet[j].FragmentIndex, j)
                    /\ sent'[j] = 0
               /\ InFlight(j) /\ LastBehind(j) > Pending - 1 =>
                    txd'[lastTxDescIdx(j)].kind = "DD" /\ sent'[j] = 1
               /\ ~InFlight(j) => sent'[j] = 0
    <3>1. CASE j = i
      BY <1>2, <1>5, <1>7, <1>9, <2>3, <3>1 DEF Done
    <3>2. CASE j # i
      <4>1. InFlight(j) => LastBehind(j) # Pending
        BY <1>5, <1>9, <3>2, LastDiffers
      <4>2. InFlight(j) => txd'[lastTxDescIdx(j)] = txd[lastTxDescIdx(j)]
        BY <1>6, <1>7, <2>3, <4>1
      <4>3. sent'[j] = sent[j]
        BY <2>3, <3>2
      <4>4. InFlight(j) => (LastBehind(j) <= Pending - 1 <=> LastBehind(j) <= Pending)
        BY <1>2, <1>6, <4>1
      <4>5. InFlight(j) => (LastBehind(j) > Pending - 1 <=> LastBehind(j) > Pending)
        BY <1>2, <1>6, <4>1
      <4>6. QED
        BY <4>2, <4>3, <4>4, <4>5, phase = "started" DEF PacketsDescribed
    <3>3. QED
      BY <3>1, <3>2
  <2>5. PacketsDescribed'
    BY <1>1, <1>3, <1>4, <2>4 DEF PacketsDescribed
  <2>6. \A d \in Descriptors : Behind(d) <= Pending - 1 => txd'[d] = txd[d]
    BY <1>2, <2>3 DEF Pending
  <2>7. DescriptorsWritten'
    <3> SUFFICES ASSUME NEW d \in Descriptors, 1 <= Behind(d), Behind(d) <= Pending - 1
                 PROVE  \E j \in Slots :
                          /\ InFlight(j) /\ LastBehind(j) <= Behind(d)
                          /\ Behind(d) <= Written(j)
                          /\ Behind(d) # LastBehind(j) => txd'[d].kind = "context"
      BY <1>1, <1>3, <1>4 DEF DescriptorsWritten
    <3>1. Behind(d) \in Nat
      BY BehindType, Sizes
    <3>2. Behind(d) <= Pending
      BY <1>2, <3>1
    <3>3. QED
      BY <2>6, <3>2, phase = "started" DEF DescriptorsWritten
  <2>8. QED
    BY <1>8, <2>5, <2>7
<1>10. CASE LastBehind(i) # Pending
  <2>1. txd[TDH].kind = "context"
    BY <1>5, <1>10
  <2>2. UNCHANGED <<txd, sent>>
    BY <2>1 DEF DeviceTransmits
  <2>3. \A j \in Slots : InFlight(j) => LastBehind(j) # Pending
    <3>1. ASSUME NEW j \in Slots, InFlight(j), LastBehind(j) = Pending PROVE FALSE
      <4>1. txd[TDH] = Data(packet[j].FragmentIndex, j)
        BY <1>2, <1>7, <3>1, phase = "started" DEF PacketsDescribed
      <4>2. QED
        BY <2>1, <4>1 DEF Data
    <3>2. QED
      BY <3>1
  <2>4. \A j \in Slots : InFlight(j) =>
          /\ LastBehind(j) <= Pending - 1 <=> LastBehind(j) <= Pending
          /\ LastBehind(j) > Pending - 1 <=> LastBehind(j) > Pending
    BY <1>2, <1>6, <2>3
  <2>5. PacketsDescribed'
    BY <1>1, <1>3, <1>4, <2>2, <2>4, phase = "started" DEF PacketsDescribed
  <2>6. DescriptorsWritten'
    <3> SUFFICES ASSUME NEW d \in Descriptors, 1 <= Behind(d), Behind(d) <= Pending - 1
                 PROVE  \E j \in Slots :
                          /\ InFlight(j) /\ LastBehind(j) <= Behind(d)
                          /\ Behind(d) <= Written(j)
                          /\ Behind(d) # LastBehind(j) => txd[d].kind = "context"
      BY <1>1, <1>3, <1>4, <2>2 DEF DescriptorsWritten
    <3>1. Behind(d) \in Nat
      BY BehindType, Sizes
    <3>2. Behind(d) <= Pending
      BY <1>2, <3>1
    <3>3. QED
      BY <3>2, phase = "started" DEF DescriptorsWritten
  <2>7. QED
    BY <1>8, <2>5, <2>6
<1>11. QED
  BY <1>9, <1>10

(* There is room for the descriptors of one more packet behind those of    *)
(* every packet in flight, and behind those the device has yet to take.    *)
LEMMA PostFits ==
    ASSUME RingsFit, Invariant, DescriptorsWritten, IgbPostPacket, phase = "started"
    PROVE  /\ \A i \in Slots : InFlight(i) =>
                i # local.packetIndex /\ Written(i) + contextCount + 1 < NumTxDesc
           /\ Pending + contextCount + 1 < NumTxDesc
<1>1. TypeOK /\ LoopsInOrder /\ DescriptorsInOrder
  BY DEF Invariant
<1>2. PICK f \in Slots : f = local.packetIndex
  BY <1>1 DEF TypeOK
<1>3. PICK c \in {0, 1} : c = contextCount
  BY <1>1, PostingTypes
<1>4. pc = "transmit" /\ f # pr.EndIndex /\ Frontier = f
  BY <1>2 DEF IgbPostPacket, Frontier
<1>5. Offset(f) + 1 <= PacketRingSize - 1 /\ Offset(f) \in Nat
  BY <1>1, <1>2, <1>4, FrontierMoves, OffsetType, Sizes
<1>6. ASSUME NEW i \in Slots, InFlight(i)
      PROVE  i # f /\ Written(i) + c + 1 < NumTxDesc
  <2>1. Offset(i) < Offset(f) /\ Offset(i) \in Nat /\ Written(i) \in Nat
    BY <1>1, <1>4, <1>6, OffsetType, WrittenType, Sizes DEF InFlight, Within, Offset
  <2>2. Written(i) <= 2 * (Offset(f) - Offset(i))
    BY <1>1, <1>4, <1>6 DEF DescriptorsInOrder
  <2>3. QED
    BY <1>5, <2>1, <2>2, Sizes DEF RingsFit
<1>7. Pending + c + 1 < NumTxDesc
  <2>1. Pending \in Nat /\ TDH \in Descriptors /\ Pending = Behind(TDH)
    BY <1>1, BehindType, Sizes DEF Pending
  <2>2. CASE Pending = 0
    BY <2>2, Sizes DEF RingsFit
  <2>3. CASE 1 <= Pending
    <3>1. PICK i \in Slots : InFlight(i) /\ Pending <= Written(i)
      BY <2>1, <2>3, phase = "started" DEF DescriptorsWritten
    <3>2. Written(i) \in Nat
      BY <1>1, WrittenType, Sizes
    <3>3. QED
      BY <1>6, <2>1, <3>1, <3>2, Sizes
  <2>4. QED
    BY <2>1, <2>2, <2>3
<1>8. QED
  BY <1>2, <1>3, <1>6, <1>7

(* What posting a packet does to the descriptors: the new ones are one and *)
(* perhaps two behind TxDescIndex, all others as much further as it moved. *)
LEMMA PostMoves ==
    ASSUME RingsFit, TypeOK, IgbPostPacket, NEW f \in Slots, f = local.packetIndex,
           NEW c \in {0, 1}, c = contextCount
    PROVE  /\ TxDescIndex' \in Descriptors
           /\ \A d \in Descriptors :
                /\ Behind(d)' \in 0 .. NumTxDesc - 1
                /\ Behind(d) + c + 1 < NumTxDesc => Behind(d)' = Behind(d) + c + 1
                /\ c + 1 < Behind(d)' =>
                     Behind(d) = Behind(d)' - (c + 1) /\ txd'[d] = txd[d]
                /\ 1 < Behind(d)' /\ Behind(d)' <= c + 1 => txd'[d] = Context
           /\ DataTxDescIdx \in Descriptors
           /\ txd'[DataTxDescIdx] = Data(packet[f].FragmentIndex, f)
           /\ tcb'[f] = [FirstTxDescIdx |-> TxDescIndex, NumTxDesc |-> c + 1]
           /\ \A i \in Slots : i # f => tcb'[i] = tcb[i]
<1>1. TxDescIndex \in 0 .. NumTxDesc - 1 /\ NumTxDesc \in Nat /\ NumTxDesc >= 3
  BY Sizes DEF TypeOK, Descriptors, RingsFit
<1> DEFINE r == Wrap(TxDescIndex + c, NumTxDesc)
           e == Inc(r, NumTxDesc)
<1>2. /\ r = DataTxDescIdx /\ TxDescIndex' = e
      /\ tcb' = [tcb EXCEPT ![f] = [FirstTxDescIdx |-> TxDescIndex, NumTxDesc |-> c + 1]]
      /\ txd' = [[txd EXCEPT ![TxDescIndex] = Context]
                  EXCEPT ![r] = Data(packet[f].FragmentIndex, f)]
  BY DEF IgbPostPacket, DataTxDescIdx, TcbOfPacket
<1>3. /\ r \in 0 .. NumTxDesc - 1 /\ e \in 0 .. NumTxDesc - 1
      /\ Dist(TxDescIndex, e, NumTxDesc) = c + 1 /\ Dist(r, e, NumTxDesc) = 1
  BY <1>1, DistAdvanced
<1>4. /\ \A d \in Descriptors : d # r => txd'[d] = IF d = TxDescIndex THEN Context ELSE txd[d]
      /\ txd'[r] = Data(packet[f].FragmentIndex, f)
  BY <1>1, <1>2, <1>3 DEF TypeOK, Descriptors
<1>5. ASSUME NEW d \in Descriptors
      PROVE  /\ Dist(d, e, NumTxDesc) \in 0 .. NumTxDesc - 1
             /\ Behind(d) + c + 1 < NumTxDesc => Dist(d, e, NumTxDesc) = Behind(d) + c + 1
             /\ c + 1 < Dist(d, e, NumTxDesc) =>
                  Behind(d) = Dist(d, e, NumTxDesc) - (c + 1) /\ txd'[d] = txd[d]
             /\ 1 < Dist(d, e, NumTxDesc) /\ Dist(d, e, NumTxDesc) <= c + 1
                  => txd'[d] = Context
  <2>1. d \in 0 .. NumTxDesc - 1
    BY DEF Descriptors
  <2>2. Dist(d, e, NumTxDesc) \in 0 .. NumTxDesc - 1
    BY <1>1, <1>3, <2>1, DistType
  <2>3. Behind(d) + c + 1 < NumTxDesc => Dist(d, e, NumTxDesc) = Behind(d) + c + 1
    BY <1>1, <2>1, DistAdvance DEF Behind
  <2>4. c + 1 < Dist(d, e, NumTxDesc) => Behind(d) = Dist(d, e, NumTxDesc) - (c + 1)
    BY <1>1, <2>1, DistAdvanced DEF Behind
  <2>5. c + 1 < Dist(d, e, NumTxDesc) => d # r /\ d # TxDescIndex
    BY <1>3
  <2>6. 1 < Dist(d, e, NumTxDesc) /\ Dist(d, e, NumTxDesc) <= c + 1
          => d = TxDescIndex /\ d # r
    <3>1. ASSUME 1 < Dist(d, e, NumTxDesc), Dist(d, e, NumTxDesc) <= c + 1
          PROVE  d = TxDescIndex
      <4>1. Dist(d, e, NumTxDesc) = Dist(TxDescIndex, e, NumTxDesc)
        BY <1>3, <2>2, <3>1
      <4>2. QED
        BY <1>1, <1>3, <2>1, <4>1, DistInjective
    <3>2. QED
      BY <1>3, <3>1
  <2>7. QED
    BY <1>4, <2>2, <2>3, <2>4, <2>5, <2>6
<1>6. \A d \in Descriptors : Behind(d)' = Dist(d, e, NumTxDesc)
  BY <1>2 DEF Behind
<1>7. \A i \in Slots : tcb'[i] = IF i = f
        THEN [FirstTxDescIdx |-> TxDescIndex, NumTxDesc |-> c + 1] ELSE tcb[i]
  BY <1>2 DEF TypeOK
<1>8. TxDescIndex' \in Descriptors /\ DataTxDescIdx \in Descriptors
  BY <1>2, <1>3 DEF Descriptors
<1>9. txd'[DataTxDescIdx] = Data(packet[f].FragmentIndex, f)
  BY <1>2, <1>4
<1>10. QED
  BY <1>5, <1>6, <1>7, <1>8, <1>9

(* The packet at the frontier joins those in flight. *)
LEMMA PostFlight ==
    ASSUME TypeOK, LoopsInOrder, IgbPostPacket, phase = "started", NEW i \in Slots
    PROVE  InFlight(i)' <=> (InFlight(i) \/ i = local.packetIndex)
<1>1. PICK f \in Slots : f = local.packetIndex
  BY DEF TypeOK
<1>2. /\ pc = "transmit" /\ f # pr.EndIndex /\ ~packet[f].Ignore /\ Frontier = f
      /\ Frontier' = Inc(f, PacketRingSize)
      /\ UNCHANGED <<phase, pr, packet, pc>>
  BY <1>1 DEF IgbPostPacket, Frontier, TypeOK
<1>3. Offset(Frontier)' = Offset(f) + 1 /\ Offset(i)' = Offset(i)
  BY <1>1, <1>2, FrontierMoves DEF Offset
<1>4. InFlight(i)' <=> Offset(i) < Offset(f) + 1 /\ ~packet[i].Ignore
  BY <1>2, <1>3, phase = "started" DEF InFlight, Within, Offset
<1>5. InFlight(i) <=> Offset(i) < Offset(f) /\ ~packet[i].Ignore
  BY <1>2, phase = "started" DEF InFlight, Within, Offset
<1>6. Offset(i) \in Nat /\ Offset(f) \in Nat /\ (Offset(i) = Offset(f) => i = f)
  BY OffsetType, Sizes
<1>7. QED
  BY <1>1, <1>2, <1>4, <1>5, <1>6

LEMMA PostKeepsDescription ==
    ASSUME RingsFit, Invariant, PacketsDescribed, DescriptorsWritten, TailInOrder,
           IgbPostPacket, phase = "started"
    PROVE  PacketsDescribed' /\ DescriptorsWritten' /\ TailInOrder'
<1>1. TypeOK /\ LoopsInOrder /\ DescriptorsInOrder
  BY DEF Invariant
<1>2. PICK f \in Slots : f = local.packetIndex
  BY <1>1 DEF TypeOK
<1>3. PICK c \in {0, 1} : c = contextCount
  BY <1>1, PostingTypes
<1>4. /\ UNCHANGED <<phase, packet, TDH, TDT, pc, sent>> /\ pc = "transmit"
      /\ local'.programmed = TRUE
  BY <1>1 DEF IgbPostPacket, TypeOK
<1>5. /\ \A i \in Slots : InFlight(i) => i # f /\ Written(i) + c + 1 < NumTxDesc
      /\ Pending + c + 1 < NumTxDesc
  BY <1>2, <1>3, PostFits
<1>6. /\ \A d \in Descriptors :
           /\ Behind(d)' \in 0 .. NumTxDesc - 1
           /\ Behind(d) + c + 1 < NumTxDesc => Behind(d)' = Behind(d) + c + 1
           /\ c + 1 < Behind(d)' =>
                Behind(d) = Behind(d)' - (c + 1) /\ txd'[d] = txd[d]
           /\ 1 < Behind(d)' /\ Behind(d)' <= c + 1 => txd'[d] = Context
      /\ DataTxDescIdx \in Descriptors
      /\ txd'[DataTxDescIdx] = Data(packet[f].FragmentIndex, f)
      /\ tcb'[f] = [FirstTxDescIdx |-> TxDescIndex, NumTxDesc |-> c + 1]
      /\ \A i \in Slots : i # f => tcb'[i] = tcb[i]
  BY <1>1, <1>2, <1>3, PostMoves
<1>7. \A d \in Descriptors : Behind(d) \in Nat /\ Behind(d)' \in Nat
  BY <1>1, <1>6, BehindType, Sizes
<1>8. Pending \in Nat /\ Pending' = Pending + c + 1
  <2>1. TDH \in Descriptors
    BY <1>1, BehindType
  <2>2. Behind(TDH)' = Behind(TDH) + c + 1
    BY <1>4, <1>5, <1>6, <2>1 DEF Pending
  <2>3. QED
    BY <1>7, <2>1, <2>2 DEF Pending
<1>9. \A i \in Slots : InFlight(i)' <=> (InFlight(i) \/ i = f)
  BY <1>1, <1>2, PostFlight
<1>10. ASSUME NEW i \in Slots, InFlight(i)
       PROVE  /\ Written(i)' = Written(i) + c + 1 /\ LastBehind(i)' = LastBehind(i) + c + 1
              /\ lastTxDescIdx(i)' = lastTxDescIdx(i)
              /\ txd'[lastTxDescIdx(i)] = txd[lastTxDescIdx(i)]
              /\ Written(i) \in Nat /\ LastBehind(i) \in Nat
  <2>1. tcb'[i] = tcb[i] /\ Written(i) + c + 1 < NumTxDesc /\ i # f
    BY <1>5, <1>6, <1>10
  <2>2. tcb[i].FirstTxDescIdx \in Descriptors /\ tcb[i].NumTxDesc \in 0 .. 2
    BY <1>1 DEF TypeOK
  <2>3. Behind(tcb[i].FirstTxDescIdx) = Written(i)
    BY DEF Behind, Written
  <2>4. Behind(tcb[i].FirstTxDescIdx)' = Written(i)'
    BY <2>1 DEF Behind, Written
  <2>5. Behind(tcb[i].FirstTxDescIdx)' = Written(i)'
        /\ (Behind(tcb[i].FirstTxDescIdx) + c + 1 < NumTxDesc =>
              Dist(tcb[i].FirstTxDescIdx, TxDescIndex', NumTxDesc) = Written(i) + c + 1)
    BY <1>6, <2>1, <2>2, <2>3, <2>4 DEF Behind
  <2>6. Written(i)' = Written(i) + c + 1
    BY <2>1, <2>3, <2>5 DEF Written
  <2>7. Written(i) \in Nat
    BY <1>1, WrittenType, Sizes
  <2>8. LastBehind(i)' = LastBehind(i) + c + 1 /\ LastBehind(i) \in Nat
    <3>1. LastBehind(i)' = (Written(i)' - tcb[i].NumTxDesc) + 1
      BY <2>1 DEF LastBehind
    <3>2. LastBehind(i) \in Nat
      BY <1>1, <1>10, LastType
    <3>3. QED
      BY <2>2, <2>6, <2>7, <3>1, <3>2 DEF LastBehind
  <2>9. lastTxDescIdx(i)' = lastTxDescIdx(i)
    BY <2>1 DEF lastTxDescIdx
  <2>10. txd'[lastTxDescIdx(i)] = txd[lastTxDescIdx(i)]
    <3>1. /\ lastTxDescIdx(i) \in Descriptors /\ Behind(lastTxDescIdx(i)) = LastBehind(i)
          /\ 1 <= LastBehind(i) /\ LastBehind(i) <= Written(i)
      BY <1>1, <1>10, LastType
    <3>2. LastBehind(i) + c + 1 < NumTxDesc
      BY <2>1, <2>7, <2>8, <3>1, Sizes
    <3>3. Behind(lastTxDescIdx(i))' = LastBehind(i) + c + 1
      BY <1>6, <2>9, <3>1, <3>2
    <3>4. c + 1 < LastBehind(i) + c + 1
      BY <2>8, <3>1
    <3>5. QED
      BY <1>6, <2>9, <3>1, <3>3, <3>4
  <2>11. QED
    BY <2>6, <2>7, <2>8, <2>9, <2>10
<1>11. /\ Written(f)' = c + 1 /\ LastBehind(f)' = 1
       /\ lastTxDescIdx(f)' = DataTxDescIdx
  <2>1. tcb'[f].FirstTxDescIdx = TxDescIndex /\ tcb'[f].NumTxDesc = c + 1
    BY <1>6
  <2>2. TxDescIndex \in Descriptors /\ Behind(TxDescIndex) = 0
    BY <1>1, BehindType
  <2>3. Written(f)' = c + 1
    <3>1. Dist(TxDescIndex, TxDescIndex', NumTxDesc) = c + 1
      <4>1. 0 + c + 1 < NumTxDesc
        BY <1>5, <1>8, Sizes
      <4>2. \A d \in Descriptors : Behind(d) + c + 1 < NumTxDesc
                => Dist(d, TxDescIndex', NumTxDesc) = Behind(d) + c + 1
        BY <1>6 DEF Behind
      <4>3. QED
        BY <2>2, <4>1, <4>2
    <3>2. QED
      BY <2>1, <3>1 DEF Written
  <2>4. LastBehind(f)' = 1
    BY <2>1, <2>3 DEF LastBehind
  <2>5. lastTxDescIdx(f)' = DataTxDescIdx
    <3>1. (TxDescIndex + (c + 1)) - 1 = TxDescIndex + c
      BY <2>2, Sizes DEF Descriptors
    <3>2. QED
      BY <1>3, <2>1, <3>1 DEF lastTxDescIdx, DataTxDescIdx
  <2>6. QED
    BY <2>3, <2>4, <2>5
<1>12. ~InFlight(f) /\ sent[f] = 0
  BY <1>5, phase = "started" DEF PacketsDescribed
<1>13. PacketsDescribed'
  <2> SUFFICES ASSUME NEW i \in Slots
               PROVE  /\ InFlight(i)' /\ LastBehind(i)' <= Pending' =>
                           /\ txd'[lastTxDescIdx(i)'] = Data(packet[i].FragmentIndex, i)
                           /\ sent[i] = 0
                      /\ InFlight(i)' /\ LastBehind(i)' > Pending' =>
                           txd'[lastTxDescIdx(i)'].kind = "DD" /\ sent[i] = 1
                      /\ ~InFlight(i)' => sent[i] = 0
    BY <1>4 DEF PacketsDescribed
  <2>1. CASE i = f
    <3>1. LastBehind(i)' <= Pending' /\ ~(LastBehind(i)' > Pending')
      BY <1>8, <1>11, <2>1
    <3>2. QED
      BY <1>6, <1>9, <1>11, <1>12, <2>1, <3>1
  <2>2. CASE i # f /\ InFlight(i)
    <3>1. /\ LastBehind(i)' <= Pending' <=> LastBehind(i) <= Pending
          /\ LastBehind(i)' > Pending' <=> LastBehind(i) > Pending
      BY <1>8, <1>10, <2>2
    <3>2. QED
      BY <1>9, <1>10, <2>2, <3>1, phase = "started" DEF PacketsDescribed
  <2>3. CASE i # f /\ ~InFlight(i)
    BY <1>9, <2>3, phase = "started" DEF PacketsDescribed
  <2>4. QED
    BY <2>1, <2>2, <2>3
<1>14. DescriptorsWritten'
  <2> SUFFICES ASSUME NEW d \in Descriptors, 1 <= Behind(d)', Behind(d)' <= Pending'
               PROVE  \E i \in Slots :
                        /\ InFlight(i)' /\ LastBehind(i)' <= Behind(d)'
                        /\ Behind(d)' <= Written(i)'
                        /\ Behind(d)' # LastBehind(i)' => txd'[d].kind = "context"
    BY DEF DescriptorsWritten
  <2>1. CASE Behind(d)' <= c + 1
    <3>1. Behind(d)' # 1 => txd'[d].kind = "context"
      BY <1>6, <1>7, <2>1 DEF Context
    <3>2. QED
      BY <1>9, <1>11, <2>1, <3>1
  <2>2. CASE c + 1 < Behind(d)'
    <3>1. Behind(d) = Behind(d)' - (c + 1) /\ txd'[d] = txd[d]
      BY <1>6, <2>2
    <3>2. 1 <= Behind(d) /\ Behind(d) <= Pending
      BY <1>7, <1>8, <2>2, <3>1
    <3>3. PICK i \in Slots :
            /\ InFlight(i) /\ LastBehind(i) <= Behind(d) /\ Behind(d) <= Written(i)
            /\ Behind(d) # LastBehind(i) => txd[d].kind = "context"
      BY <3>2, phase = "started" DEF DescriptorsWritten
    <3>4. /\ LastBehind(i)' <= Behind(d)' /\ Behind(d)' <= Written(i)'
          /\ Behind(d)' # LastBehind(i)' => Behind(d) # LastBehind(i)
      BY <1>7, <1>10, <3>1, <3>3
    <3>5. QED
      BY <1>9, <3>1, <3>3, <3>4
  <2>3. QED
    BY <1>7, <2>1, <2>2
<1>15. TailInOrder'
  <2>1. TDT \in Descriptors /\ Behind(TDT) <= Pending
    BY <1>1, BehindType, phase = "started" DEF TailInOrder
  <2>2. Behind(TDT)' = Behind(TDT) + c + 1
    <3>1. \A d \in Descriptors : Behind(d) + c + 1 < NumTxDesc
            => Dist(d, TxDescIndex', NumTxDesc) = Behind(d) + c + 1
      BY <1>6 DEF Behind
    <3>2. Behind(TDT) + c + 1 < NumTxDesc
      BY <1>5, <1>7, <1>8, <2>1, Sizes
    <3>3. QED
      BY <1>4, <2>1, <3>1, <3>2 DEF Behind
  <2>3. Behind(TDT)' <= Pending'
    BY <1>7, <1>8, <2>1, <2>2
  <2>4. QED
    BY <1>4, <2>3 DEF TailInOrder
<1>16. QED
  BY <1>13, <1>14, <1>15

(* The new packet is behind the frontier, where nothing is in flight yet.  *)
LEMMA AppendKeepsDescription ==
    ASSUME TypeOK, LoopsInOrder, DescriptorsInOrder, PacketsDescribed, DescriptorsWritten,
           ClientAppends
    PROVE  PacketsDescribed' /\ DescriptorsWritten'
<1>1. /\ phase = "started" /\ pc = "idle"
      /\ pr'.BeginIndex = pr.BeginIndex /\ pr'.NextIndex = pr.NextIndex
      /\ UNCHANGED <<phase, pc, local, tcb, TxDescIndex, txd, TDH>>
      /\ sent'[pr.EndIndex] = 0
      /\ \A i \in Slots : i # pr.EndIndex => packet'[i] = packet[i] /\ sent'[i] = sent[i]
  BY OffsetType DEF ClientAppends, posting, running, device, TypeOK, RingType
<1>2. Frontier = pr.NextIndex /\ Frontier' = pr.NextIndex
  BY <1>1 DEF Frontier
<1>3. \A i \in Slots : Offset(i)' = Offset(i)
  BY <1>1 DEF Offset
<1>4. Offset(pr.NextIndex) <= Offset(pr.EndIndex)
  BY <1>1, <1>2 DEF LoopsInOrder
<1>5. ~(Offset(pr.EndIndex) < Offset(pr.NextIndex))
  BY <1>4, OffsetType, Sizes
<1>6. ASSUME NEW i \in Slots
      PROVE  /\ InFlight(i)' <=> InFlight(i)
             /\ InFlight(i) => i # pr.EndIndex
  <2>1. InFlight(i)' <=> Offset(i) < Offset(pr.NextIndex) /\ ~packet'[i].Ignore
    BY <1>1, <1>2 DEF InFlight, Within, Offset
  <2>2. InFlight(i) <=> Offset(i) < Offset(pr.NextIndex) /\ ~packet[i].Ignore
    BY <1>1, <1>2 DEF InFlight, Within, Offset
  <2>3. QED
    BY <1>1, <1>5, <2>1, <2>2
<1>7. \A i \in Slots :
        /\ InFlight(i)' => InFlight(i) /\ packet'[i] = packet[i] /\ sent'[i] = sent[i]
        /\ ~InFlight(i)' => sent'[i] = 0
        /\ InFlight(i) /\ LastBehind(i) <= Pending => InFlight(i)'
  BY <1>1, <1>6 DEF PacketsDescribed
<1>8. QED
  BY <1>1, <1>7, DescriptionKept

(* An ignored packet does not join those in flight. *)
LEMMA SkipFlight ==
    ASSUME TypeOK, LoopsInOrder, IgbSkipIgnored, phase = "started", NEW i \in Slots
    PROVE  InFlight(i)' <=> InFlight(i)
<1>1. PICK f \in Slots : f = local.packetIndex
  BY DEF TypeOK
<1>2. /\ pc = "transmit" /\ f # pr.EndIndex /\ packet[f].Ignore /\ Frontier = f
      /\ Frontier' = Inc(f, PacketRingSize)
      /\ UNCHANGED <<phase, pr, packet, pc>>
  BY <1>1 DEF IgbSkipIgnored, Frontier, TypeOK, rings
<1>3. Offset(Frontier)' = Offset(f) + 1 /\ Offset(i)' = Offset(i)
  BY <1>1, <1>2, FrontierMoves DEF Offset
<1>4. InFlight(i)' <=> Offset(i) < Offset(f) + 1 /\ ~packet[i].Ignore
  BY <1>2, <1>3, phase = "started" DEF InFlight, Within, Offset
<1>5. InFlight(i) <=> Offset(i) < Offset(f) /\ ~packet[i].Ignore
  BY <1>2, phase = "started" DEF InFlight, Within, Offset
<1>6. Offset(i) \in Nat /\ Offset(f) \in Nat /\ (Offset(i) = Offset(f) => i = f)
  BY OffsetType, Sizes
<1>7. QED
  BY <1>2, <1>4, <1>5, <1>6

(* Of the packets in flight those the loop has not passed stay so. *)
LEMMA ReturnFlight ==
    ASSUME TypeOK, LoopsInOrder, IgbReturnPackets, phase = "started", NEW i \in Slots
    PROVE  /\ InFlight(i)' <=> InFlight(i) /\ Owned(i, pr', PacketRingSize)
           /\ InFlight(i)' <=> InFlight(i) /\ ~(Offset(i) < Offset(local.packetIndex))
<1>1. PICK b \in Slots : b = local.packetIndex
  BY DEF TypeOK
<1>2. /\ pc = "complete" /\ pc' = "idle" /\ phase' = phase
      /\ pr'.BeginIndex = b /\ pr'.NextIndex = pr.NextIndex /\ pr'.EndIndex = pr.EndIndex
      /\ packet'[i] = IF Owned(i, pr', PacketRingSize) THEN packet[i] ELSE NoPacket
  BY <1>1 DEF IgbReturnPackets, TypeOK, RingType
<1>3. Frontier = pr.NextIndex /\ Frontier' = pr.NextIndex
  BY <1>2 DEF Frontier
<1>4. /\ Offset(b) <= Offset(pr.NextIndex) /\ Offset(pr.NextIndex) <= Offset(pr.EndIndex)
      /\ Offset(b) \in Nat /\ Offset(pr.NextIndex) \in Nat /\ Offset(i) \in Nat
      /\ Offset(pr.EndIndex) \in Nat
  BY <1>1, <1>2, <1>3, OffsetType, Sizes, phase = "started" DEF LoopsInOrder
<1>5. Offset(Frontier)' = Offset(pr.NextIndex) - Offset(b)
  <2>1. /\ pr.BeginIndex \in 0 .. PacketRingSize - 1
        /\ b \in 0 .. PacketRingSize - 1
        /\ pr.NextIndex \in 0 .. PacketRingSize - 1
    BY OffsetType DEF Slots
  <2>2. Dist(b, pr.NextIndex, PacketRingSize) = Offset(pr.NextIndex) - Offset(b)
    BY <1>4, <2>1, Sizes, DistShift DEF Offset
  <2>3. QED
    BY <1>2, <1>3, <2>2 DEF Offset
<1>6. InFlight(i) <=> Offset(i) < Offset(pr.NextIndex) /\ ~packet[i].Ignore
  BY <1>3, phase = "started" DEF InFlight, Within, Offset
<1>7. InFlight(i) => Owned(i, pr, PacketRingSize)
  <2>1. Offset(i) < Offset(pr.NextIndex) => Offset(i) < Offset(pr.EndIndex)
    BY <1>4
  <2>2. QED
    BY <1>6, <2>1 DEF Owned, Within, Offset
<1>8. InFlight(i)' <=> Offset(i)' < Offset(pr.NextIndex) - Offset(b) /\ ~packet'[i].Ignore
  BY <1>2, <1>5, phase = "started" DEF InFlight, Within, Offset
<1>9. Owned(i, pr', PacketRingSize) => Offset(i)' = Offset(i) - Offset(b)
  BY <1>1, ReturnShifts DEF Owned
<1>10. ~Owned(i, pr', PacketRingSize) => ~InFlight(i)'
  BY <1>2, <1>8 DEF NoPacket
<1>11. Owned(i, pr', PacketRingSize) => (InFlight(i)' <=> InFlight(i))
  BY <1>2, <1>4, <1>6, <1>8, <1>9
<1>12. InFlight(i) => (Owned(i, pr', PacketRingSize) <=> ~(Offset(i) < Offset(b)))
  BY <1>1, <1>7, KeptOnReturn
<1>13. QED
  BY <1>1, <1>10, <1>11, <1>12

LEMMA ReturnKeepsDescription ==
    ASSUME TypeOK, LoopsInOrder, DescriptorsInOrder, PacketsDescribed, DescriptorsWritten,
           SeenComplete, IgbReturnPackets, phase = "started"
    PROVE  PacketsDescribed' /\ DescriptorsWritten'
<1>1. pc = "complete" /\ UNCHANGED <<phase, tcb, TxDescIndex, txd, TDH>>
  BY DEF IgbReturnPackets, posting, device
<1>2. ASSUME NEW i \in Slots
      PROVE  /\ packet'[i] = IF Owned(i, pr', PacketRingSize) THEN packet[i] ELSE NoPacket
             /\ sent'[i] = IF Owned(i, pr', PacketRingSize) THEN sent[i] ELSE 0
  BY DEF IgbReturnPackets
<1>3. ASSUME NEW i \in Slots, InFlight(i), LastBehind(i) <= Pending
      PROVE  InFlight(i)'
  <2>1. txd[lastTxDescIdx(i)].kind = "data"
    <3>1. txd[lastTxDescIdx(i)] = Data(packet[i].FragmentIndex, i)
      BY <1>3, phase = "started" DEF PacketsDescribed
    <3>2. QED
      BY <3>1 DEF Data
  <2>2. ~(Offset(i) < Offset(local.packetIndex))
    BY <1>1, <1>3, <2>1, phase = "started" DEF SeenComplete
  <2>3. QED
    BY <1>3, <2>2, ReturnFlight
<1>4. ASSUME NEW i \in Slots
      PROVE  /\ InFlight(i)' => InFlight(i) /\ packet'[i] = packet[i] /\ sent'[i] = sent[i]
             /\ ~InFlight(i)' => sent'[i] = 0
  BY <1>2, ReturnFlight, phase = "started" DEF PacketsDescribed
<1>5. QED
  BY <1>1, <1>3, <1>4, DescriptionKept

(* The steps that leave the rings, the frontier and the device alone. *)
LEMMA DescriptionUntouched ==
    ASSUME PacketsDescribed, DescriptorsWritten, TypeOK, DescriptorsInOrder, phase = "started",
           UNCHANGED <<phase, tcb, TxDescIndex, txd, TDH, packet, sent>>,
           \A i \in Slots : InFlight(i)' <=> InFlight(i)
    PROVE  PacketsDescribed' /\ DescriptorsWritten'
<1>1. \A i \in Slots :
        /\ InFlight(i)' => InFlight(i) /\ packet'[i] = packet[i] /\ sent'[i] = sent[i]
        /\ ~InFlight(i)' => sent'[i] = 0
        /\ InFlight(i) /\ LastBehind(i) <= Pending => InFlight(i)'
  BY phase = "started" DEF PacketsDescribed
<1>2. QED
  BY <1>1, DescriptionKept

(* A queue starts with nothing in flight and nothing for the device.       *)
LEMMA StartDescribes ==
    ASSUME LoopsInOrder, EvtTxQueueStart
    PROVE  PacketsDescribed' /\ DescriptorsWritten' /\ TailInOrder' /\ SeenComplete'
<1>1. /\ TxDescIndex' = 0 /\ TDH' = 0 /\ TDT' = 0 /\ sent' = Unsent
      /\ pr'.BeginIndex = 0 /\ pr'.NextIndex = 0 /\ pc' = "idle"
  BY DEF EvtTxQueueStart, EmptyRing, running, LoopsInOrder
<1>2. ASSUME NEW i \in Slots PROVE ~InFlight(i)' /\ sent'[i] = 0
  BY <1>1 DEF InFlight, Within, Frontier, Dist, Slots, Unsent
<1>3. Pending' = 0 /\ Behind(TDT)' = 0
  BY <1>1 DEF Pending, Behind, Dist
<1>4. DescriptorsWritten'
  BY <1>1, <1>3, Sizes DEF DescriptorsWritten, Behind, Dist, Descriptors
<1>5. QED
  BY <1>1, <1>2, <1>3, <1>4 DEF PacketsDescribed, TailInOrder, SeenComplete

(* Every step of a started queue. *)
LEMMA NextDescription ==
    ASSUME RingsFit, Invariant, PacketsDescribed, DescriptorsWritten, TailInOrder, SeenComplete,
           [Next]_vars, phase' = "started"
    PROVE  PacketsDescribed' /\ DescriptorsWritten'
<1>1. TypeOK /\ LoopsInOrder /\ DescriptorsInOrder
  BY DEF Invariant
<1>2. CASE EvtTxQueueStart
  BY <1>1, <1>2, StartDescribes
<1>3. CASE ~EvtTxQueueStart
  <2>1. phase = "started"
    BY <1>3, StaysStarted
  <2>2. CASE ClientAppends
    BY <1>1, <2>2, AppendKeepsDescription
  <2>3. CASE DeviceTransmits
    BY <1>1, <2>1, <2>3, TransmitKeepsDescription
  <2>4. CASE IgbPostPacket
    BY <2>1, <2>4, PostKeepsDescription
  <2>5. CASE IgbSkipIgnored
    <3>1. UNCHANGED <<phase, tcb, TxDescIndex, txd, TDH, packet, sent>>
      BY <2>5 DEF IgbSkipIgnored, rings, device, posting
    <3>2. \A i \in Slots : InFlight(i)' <=> InFlight(i)
      BY <1>1, <2>1, <2>5, SkipFlight
    <3>3. QED
      BY <1>1, <2>1, <3>1, <3>2, DescriptionUntouched
  <2>6. CASE \/ EvtTxQueueAdvance \/ IgbFlushTransaction \/ IgbCompletePacket
             \/ UNCHANGED <<phase, rings, device, posting, running>>
    <3>1. /\ UNCHANGED <<phase, tcb, TxDescIndex, txd, TDH, packet, sent>>
          /\ pr'.BeginIndex = pr.BeginIndex /\ Frontier' = Frontier
      BY <1>1, <2>6 DEF EvtTxQueueAdvance, IgbFlushTransaction, IgbCompletePacket, rings,
                        device, posting, running, Frontier, TypeOK, RingType
    <3>2. \A i \in Slots : InFlight(i)' <=> InFlight(i)
      BY <3>1 DEF InFlight
    <3>3. QED
      BY <1>1, <2>1, <3>1, <3>2, DescriptionUntouched
  <2>7. CASE IgbReturnPackets
    BY <1>1, <2>1, <2>7, ReturnKeepsDescription
  <2>8. QED
    BY <1>3, <2>2, <2>3, <2>4, <2>5, <2>6, <2>7, StartedSteps
<1>4. QED
  BY <1>2, <1>3

LEMMA NextTailInOrder ==
    ASSUME RingsFit, Invariant, PacketsDescribed, DescriptorsWritten, TailInOrder,
           [Next]_vars, phase' = "started"
    PROVE  TailInOrder'
<1>1. TypeOK /\ LoopsInOrder /\ DescriptorsInOrder
  BY DEF Invariant
<1>2. CASE EvtTxQueueStart
  BY <1>1, <1>2, StartDescribes
<1>3. CASE ~EvtTxQueueStart
  <2>1. phase = "started"
    BY <1>3, StaysStarted
  <2>2. CASE DeviceTransmits
    BY <1>1, <2>1, <2>2, TransmitKeepsDescription
  <2>3. CASE IgbPostPacket
    BY <2>1, <2>3, PostKeepsDescription
  <2>4. CASE IgbFlushTransaction
    <3>1. /\ TDT' = TxDescIndex /\ UNCHANGED <<TDH, TxDescIndex>> /\ pc' = "complete"
      BY <2>1, <2>4 DEF IgbFlushTransaction, NewTail, TailInOrder, posting
    <3>2. Behind(TDT)' = 0 /\ Pending' \in Nat
      <4>1. Dist(TxDescIndex, TxDescIndex, NumTxDesc) = 0
        BY <1>1, BehindType DEF Behind
      <4>2. Pending \in Nat
        BY <1>1, BehindType, Sizes
      <4>3. Pending' = Pending
        BY <3>1 DEF Pending, Behind
      <4>4. QED
        BY <3>1, <4>1, <4>2, <4>3 DEF Behind
    <3>3. QED
      BY <3>1, <3>2 DEF TailInOrder
  <2>5. CASE \/ ClientAppends \/ IgbSkipIgnored \/ EvtTxQueueAdvance \/ IgbCompletePacket
             \/ IgbReturnPackets \/ UNCHANGED <<phase, rings, device, posting, running>>
    <3>1. /\ UNCHANGED <<phase, TDT, TDH, TxDescIndex>>
          /\ (pc' = "transmit" => pc = "idle" \/ (pc = pc' /\ local'.programmed = local.programmed))
      BY <1>1, <2>5 DEF ClientAppends, EvtTxQueueAdvance, IgbSkipIgnored, IgbCompletePacket,
                        IgbReturnPackets, rings, device, posting, running, TypeOK
    <3>2. Behind(TDT)' = Behind(TDT) /\ Pending' = Pending
      BY <3>1 DEF Behind, Pending
    <3>3. Behind(TDT) <= Pending /\ (~(pc = "transmit" /\ local.programmed) => TDT = TxDescIndex)
      BY <2>1 DEF TailInOrder
    <3>4. ~(pc' = "transmit" /\ local'.programmed) => TDT = TxDescIndex
      <4>1. CASE pc = "transmit" /\ local.programmed
        <5>1. IgbSkipIgnored \/ UNCHANGED <<phase, rings, device, posting, running>>
          BY <2>5, <4>1 DEF ClientAppends, EvtTxQueueAdvance, IgbCompletePacket,
                            IgbReturnPackets
        <5>2. pc' = pc /\ local'.programmed = local.programmed
          BY <1>1, <5>1 DEF IgbSkipIgnored, running, TypeOK
        <5>3. QED
          BY <4>1, <5>2
      <4>2. QED
        BY <3>3, <4>1
    <3>5. QED
      BY <3>1, <3>2, <3>3, <3>4 DEF TailInOrder
  <2>6. QED
    BY <1>3, <2>2, <2>3, <2>4, <2>5, StartedSteps
<1>4. QED
  BY <1>2, <1>3

(* DD stays on a descriptor while the completion loop runs, and the loop   *)
(* passes only packets that have it.                                       *)
LEMMA NextSeenComplete ==
    ASSUME TypeOK, LoopsInOrder, DescriptorsInOrder, SeenComplete, [Next]_vars, phase' = "started"
    PROVE  SeenComplete'
<1>1. CASE EvtTxQueueStart
  BY <1>1, StartDescribes
<1>2. CASE ~EvtTxQueueStart
  <2>1. phase = "started"
    BY <1>2, StaysStarted
  <2>2. CASE \/ ClientAppends \/ IgbPostPacket \/ IgbSkipIgnored \/ EvtTxQueueAdvance
             \/ IgbReturnPackets
    <3>1. pc' # "complete"
      BY <2>2 DEF ClientAppends, IgbPostPacket, IgbSkipIgnored, EvtTxQueueAdvance,
                  IgbReturnPackets, running
    <3>2. QED
      BY <3>1 DEF SeenComplete
  <2>3. CASE DeviceTransmits \/ UNCHANGED <<phase, rings, device, posting, running>>
    <3>1. /\ UNCHANGED <<phase, pr, packet, tcb, pc, local>>
          /\ \A d \in Descriptors : txd[d].kind = "DD" => txd'[d].kind = "DD"
      <4>1. CASE DeviceTransmits
        <5>1. UNCHANGED <<phase, pr, packet, tcb, pc, local>>
          BY <4>1 DEF DeviceTransmits, posting, running
        <5>2. txd' = txd \/ txd' = [txd EXCEPT ![TDH] = Done]
          BY <4>1 DEF DeviceTransmits
        <5>3. QED
          BY <5>1, <5>2 DEF Done, TypeOK
      <4>2. QED
        BY <2>3, <4>1 DEF rings, device, posting, running
    <3>2. ASSUME NEW i \in Slots
          PROVE  /\ InFlight(i) => lastTxDescIdx(i) \in Descriptors
                 /\ lastTxDescIdx(i)' = lastTxDescIdx(i)
                 /\ InFlight(i)' <=> InFlight(i)
                 /\ Offset(i)' = Offset(i)
      BY <3>1, LastType DEF lastTxDescIdx, InFlight, Offset, Frontier
    <3>3. Offset(local.packetIndex)' = Offset(local.packetIndex)
      BY <3>1 DEF Offset
    <3>4. QED
      BY <3>1, <3>2, <3>3 DEF SeenComplete
  <2>4. CASE IgbFlushTransaction
    <3>1. local'.packetIndex = pr.BeginIndex /\ pr'.BeginIndex = pr.BeginIndex
      BY <2>4 DEF IgbFlushTransaction, TypeOK, RingType, NoLocals
    <3>2. Offset(local.packetIndex)' = 0
      <4>1. Dist(pr.BeginIndex, pr.BeginIndex, PacketRingSize) = 0
        BY OffsetType, DistType, Sizes DEF Slots
      <4>2. QED
        BY <3>1, <4>1 DEF Offset
    <3>3. \A i \in Slots : Offset(i)' \in Nat
      BY <3>1, OffsetType, Sizes DEF Offset
    <3>4. QED
      BY <3>2, <3>3 DEF SeenComplete
  <2>5. CASE IgbCompletePacket
    <3>1. PICK b \in Slots : b = local.packetIndex
      BY DEF TypeOK
    <3>2. /\ pc = "complete" /\ b # pr.NextIndex
          /\ UNCHANGED <<phase, pr, packet, tcb, txd, pc>>
          /\ ~packet[b].Ignore => txd[lastTxDescIdx(b)].kind = "DD"
          /\ local'.packetIndex = Inc(b, PacketRingSize)
      BY <2>5, <3>1 DEF IgbCompletePacket, rings, posting, device, IgbIsPacketTransferComplete,
                        TypeOK
    <3>3. Offset(b) + 1 < PacketRingSize
      <4>1. Offset(b) <= Offset(pr.NextIndex)
        BY <2>1, <3>1, <3>2 DEF LoopsInOrder
      <4>2. Offset(b) # Offset(pr.NextIndex)
        BY <3>2, OffsetType
      <4>3. Offset(b) \in Nat /\ Offset(pr.NextIndex) \in 0 .. PacketRingSize - 1
        BY OffsetType, Sizes
      <4>4. QED
        BY <4>1, <4>2, <4>3, Sizes
    <3>4. Offset(local.packetIndex)' = Offset(b) + 1
      <4>1. Dist(pr.BeginIndex, Inc(b, PacketRingSize), PacketRingSize) = Offset(b) + 1
        BY <3>3, OffsetType, DistInc, Sizes DEF Offset, Slots
      <4>2. QED
        BY <3>2, <4>1 DEF Offset
    <3>5. ASSUME NEW i \in Slots, InFlight(i), Offset(i) < Offset(b) + 1
          PROVE  txd[lastTxDescIdx(i)].kind = "DD"
      <4>1. CASE i = b
        BY <3>2, <3>5, <4>1 DEF InFlight
      <4>2. CASE i # b
        <5>1. Offset(i) \in Nat /\ Offset(b) \in Nat /\ Offset(i) # Offset(b)
          BY <4>2, OffsetType, Sizes
        <5>2. Offset(i) < Offset(b)
          BY <3>5, <5>1
        <5>3. QED
          BY <2>1, <3>1, <3>2, <3>5, <5>2 DEF SeenComplete
      <4>3. QED
        BY <4>1, <4>2
    <3>6. \A i \in Slots : /\ InFlight(i)' <=> InFlight(i)
                           /\ Offset(i)' = Offset(i)
                           /\ lastTxDescIdx(i)' = lastTxDescIdx(i)
      BY <3>2 DEF InFlight, Frontier, Offset, lastTxDescIdx
    <3>7. QED
      BY <3>2, <3>4, <3>5, <3>6 DEF SeenComplete
  <2>6. QED
    BY <1>2, <2>2, <2>3, <2>4, <2>5, StartedSteps
<1>3. QED
  BY <1>1, <1>2

(* A queue that is not started has given everything back; a canceled one   *)
(* skips what is left of its ring and returns nothing more.                *)
LEMMA NextEmpty ==
    ASSUME TypeOK, LoopsInOrder, CanceledMarked, EmptyUnlessStarted, [Next]_vars,
           phase' # "started"
    PROVE  EmptyUnlessStarted'
<1>1. CASE EvtTxQueueCancel
  BY <1>1 DEF EvtTxQueueCancel, EmptyUnlessStarted, running, TypeOK, RingType
<1>2. CASE ~EvtTxQueueCancel
  <2>1. phase # "started"
    BY <1>2 DEF Next, AdvanceStep, EvtAdapterCreateTxQueue, EvtTxQueueStart, EvtTxQueueStop,
                EvtTxQueueDestroy, ClientAppends, EvtAdapterOffloadSetTxChecksum,
                EvtAdapterOffloadSetGso, DeviceTransmits, EvtTxQueueAdvance, IgbPostPacket,
                IgbSkipIgnored, IgbFlushTransaction, IgbCompletePacket, IgbReturnPackets, vars
  <2>2. /\ ~txEnabled /\ pr.BeginIndex = pr.EndIndex
        /\ pc = "complete" => pr.NextIndex = pr.EndIndex /\ local.packetIndex = pr.BeginIndex
    BY <2>1 DEF EmptyUnlessStarted
  <2>3. CASE \/ EvtAdapterCreateTxQueue \/ EvtTxQueueStop \/ EvtTxQueueDestroy
             \/ EvtAdapterOffloadSetTxChecksum \/ EvtAdapterOffloadSetGso \/ UNCHANGED vars
    <3>1. UNCHANGED <<pr, txEnabled, pc, local>>
      BY <2>3 DEF EvtAdapterCreateTxQueue, EvtTxQueueStop, EvtTxQueueDestroy,
                  EvtAdapterOffloadSetTxChecksum, EvtAdapterOffloadSetGso, vars, rings, device,
                  running
    <3>2. QED
      BY <2>2, <3>1 DEF EmptyUnlessStarted
  <2>4. CASE EvtTxQueueAdvance \/ IgbPostPacket \/ IgbSkipIgnored
    <3>1. UNCHANGED <<pr, txEnabled>> /\ pc' = "transmit"
      BY <2>4 DEF EvtTxQueueAdvance, IgbPostPacket, IgbSkipIgnored, rings, device
    <3>2. QED
      BY <2>2, <3>1 DEF EmptyUnlessStarted
  <2>5. CASE IgbFlushTransaction
    <3>1. PICK f \in Slots : f = local.packetIndex
      BY DEF TypeOK
    <3>2. /\ pc = "transmit" /\ (f = pr.EndIndex \/ ~packet[f].Ignore)
          /\ txEnabled' = txEnabled /\ pr' = [pr EXCEPT !.NextIndex = f]
          /\ local'.packetIndex = pr.BeginIndex
      BY <2>5, <3>1 DEF IgbFlushTransaction, NoLocals
    <3>3. f = pr.EndIndex
      <4>1. phase = "canceled"
        BY <2>1, <3>2 DEF LoopsInOrder
      <4>2. Within(f, Frontier, pr.EndIndex, PacketRingSize) => packet[f].Ignore
        BY <4>1 DEF CanceledMarked
      <4>3. Frontier = f
        BY <3>1, <3>2 DEF Frontier
      <4>4. f # pr.EndIndex => Within(f, f, pr.EndIndex, PacketRingSize)
        BY OffsetType, Sizes, WithinRest DEF Slots
      <4>5. QED
        BY <3>2, <4>2, <4>3, <4>4
    <3>4. QED
      BY <2>2, <3>2, <3>3 DEF EmptyUnlessStarted, TypeOK, RingType
  <2>6. CASE IgbReturnPackets
    <3>1. /\ pc = "complete" /\ pc' = "idle" /\ txEnabled' = txEnabled
          /\ pr' = [pr EXCEPT !.BeginIndex = local.packetIndex]
      BY <2>6 DEF IgbReturnPackets, device
    <3>2. QED
      BY <2>2, <3>1 DEF EmptyUnlessStarted, TypeOK, RingType
  <2>7. ~IgbCompletePacket /\ ~ClientAppends /\ ~DeviceTransmits
    BY <2>1, <2>2 DEF IgbCompletePacket, ClientAppends, DeviceTransmits
  <2>8. QED
    BY <1>2, <2>3, <2>4, <2>5, <2>6, <2>7 DEF Next, AdvanceStep, EvtTxQueueStart
<1>3. QED
  BY <1>1, <1>2
-----------------------------------------------------------------------------
(* What the device and the client find. *)

FullInvariant ==
    /\ Invariant /\ CanceledMarked /\ DeviceInvariant
    /\ FragmentsInOrder /\ FragmentsCounted

LEMMA InitFull == Init => FullInvariant
BY InitInvariant DEF Init, FullInvariant, CanceledMarked, DeviceInvariant, TailInOrder,
   PacketsDescribed, DescriptorsWritten, SeenComplete, EmptyUnlessStarted, EmptyRing,
   FragmentsInOrder, FragmentsCounted

LEMMA NextFull == RingsFit /\ FullInvariant /\ [Next]_vars => FullInvariant'
<1> SUFFICES ASSUME RingsFit, FullInvariant, [Next]_vars PROVE FullInvariant'
  OBVIOUS
<1>1. /\ Invariant /\ CanceledMarked /\ DeviceInvariant /\ FragmentsInOrder /\ FragmentsCounted
      /\ TypeOK /\ LoopsInOrder /\ DescriptorsInOrder
  BY DEF FullInvariant, Invariant
<1>2. Invariant'
  <2>1. TypeOK'
    BY <1>1, NextTypeOK
  <2>2. LoopsInOrder'
    BY <1>1, LoopsKept
  <2>3. DescriptorsInOrder'
    BY <1>1, OrderInvariant
  <2>4. QED
    BY <2>1, <2>2, <2>3 DEF Invariant
<1>3. CanceledMarked'
  BY <1>1, NextCanceled
<1>4. FragmentsInOrder' /\ FragmentsCounted'
  BY <1>1, NextFragments
<1>5. DeviceInvariant'
  <2>1. CASE phase' = "started"
    <3>1. PacketsDescribed' /\ DescriptorsWritten'
      BY <1>1, <2>1, NextDescription DEF DeviceInvariant
    <3>2. TailInOrder'
      BY <1>1, <2>1, NextTailInOrder DEF DeviceInvariant
    <3>3. SeenComplete'
      BY <1>1, <2>1, NextSeenComplete DEF DeviceInvariant
    <3>4. EmptyUnlessStarted'
      BY <2>1 DEF EmptyUnlessStarted
    <3>5. QED
      BY <3>1, <3>2, <3>3, <3>4 DEF DeviceInvariant
  <2>2. CASE phase' # "started"
    <3>1. EmptyUnlessStarted'
      BY <1>1, <2>2, NextEmpty DEF DeviceInvariant
    <3>2. TailInOrder' /\ PacketsDescribed' /\ DescriptorsWritten' /\ SeenComplete'
      BY <2>2 DEF TailInOrder, PacketsDescribed, DescriptorsWritten, SeenComplete
    <3>3. QED
      BY <3>1, <3>2 DEF DeviceInvariant
  <2>3. QED
    BY <2>1, <2>2
<1>6. QED
  BY <1>2, <1>3, <1>4, <1>5 DEF FullInvariant

LEMMA PostedIsSeen == FullInvariant => DeviceSeesAllPosted
<1> SUFFICES ASSUME FullInvariant, pc # "transmit", NEW i \in Slots, InFlight(i), sent[i] = 0
             PROVE  Within(lastTxDescIdx(i), TDH, TDT, NumTxDesc)
  BY DEF DeviceSeesAllPosted
<1>1. /\ phase = "started" /\ TypeOK /\ DescriptorsInOrder /\ PacketsDescribed /\ TailInOrder
  BY DEF FullInvariant, Invariant, DeviceInvariant, InFlight
<1>2. TDT = TxDescIndex
  BY <1>1 DEF TailInOrder
<1>3. /\ lastTxDescIdx(i) \in Descriptors /\ Behind(lastTxDescIdx(i)) = LastBehind(i)
      /\ LastBehind(i) \in Nat /\ 1 <= LastBehind(i)
  BY <1>1, LastType
<1>4. LastBehind(i) <= Pending
  <2>1. ~(LastBehind(i) > Pending)
    BY <1>1 DEF PacketsDescribed
  <2>2. Pending \in Nat
    BY <1>1, BehindType, Sizes
  <2>3. QED
    BY <1>3, <2>1, <2>2
<1>5. QED
  BY <1>1, <1>2, <1>3, <1>4, BehindType, WithinBehind, Sizes DEF Behind, Pending, Descriptors

(* For all rings that fit: the tail covers every packet described and not  *)
(* yet sent, so IgbFlushTransaction loses none.                            *)
THEOREM AllPostedAreSeen == ASSUME RingsFit PROVE Spec => []DeviceSeesAllPosted
<1>1. FullInvariant /\ [Next]_vars => FullInvariant'
  BY NextFull
<1>2. QED
  BY InitFull, <1>1, PostedIsSeen, PTL DEF Spec

LEMMA ReadIsOwned == FullInvariant => DeviceReadsOwnedMemory
<1> SUFFICES ASSUME FullInvariant, txEnabled, NEW d \in Descriptors,
                    Within(d, TDH, TDT, NumTxDesc)
             PROVE  \/ txd[d].kind = "context"
                    \/ /\ txd[d].kind = "data"
                       /\ Owned(txd[d].fragment, fr, FragmentRingSize)
  BY DEF DeviceReadsOwnedMemory
<1>1. /\ TypeOK /\ LoopsInOrder /\ DescriptorsInOrder /\ PacketsDescribed
      /\ DescriptorsWritten /\ TailInOrder /\ FragmentsInOrder /\ phase = "started"
  BY DEF FullInvariant, Invariant, DeviceInvariant, EmptyUnlessStarted
<1>2. /\ TDH \in 0 .. NumTxDesc - 1 /\ TDT \in 0 .. NumTxDesc - 1
      /\ TxDescIndex \in 0 .. NumTxDesc - 1 /\ d \in 0 .. NumTxDesc - 1
  BY <1>1, BehindType DEF Descriptors
<1>3. 1 <= Behind(d) /\ Behind(d) <= Pending
  <2>1. Dist(TDH, TDT, NumTxDesc) = Pending - Behind(TDT)
    BY <1>1, <1>2, DistSplit, Sizes DEF TailInOrder, Behind, Pending
  <2>2. /\ Pending \in Nat /\ Behind(TDT) \in Nat /\ Dist(TDH, d, NumTxDesc) \in Nat
    BY <1>1, <1>2, BehindType, DistType, Sizes DEF Descriptors
  <2>3. Dist(TDH, d, NumTxDesc) < Pending
    BY <2>1, <2>2 DEF Within
  <2>4. Behind(d) = Pending - Dist(TDH, d, NumTxDesc)
    BY <1>2, <2>2, <2>3, DistShift, Sizes DEF Behind, Pending
  <2>5. QED
    BY <2>2, <2>3, <2>4
<1>4. PICK i \in Slots :
        /\ InFlight(i) /\ LastBehind(i) <= Behind(d) /\ Behind(d) <= Written(i)
        /\ Behind(d) # LastBehind(i) => txd[d].kind = "context"
  BY <1>1, <1>3 DEF DescriptorsWritten
<1>5. CASE Behind(d) = LastBehind(i)
  <2>1. lastTxDescIdx(i) = d
    BY <1>1, <1>4, <1>5, LastType, BehindType
  <2>2. txd[d] = Data(packet[i].FragmentIndex, i)
    BY <1>1, <1>3, <1>4, <1>5, <2>1 DEF PacketsDescribed
  <2>3. Carries(i)
    <3>1. Offset(i) < Offset(Frontier) /\ Offset(Frontier) <= Offset(pr.EndIndex)
          /\ ~packet[i].Ignore
      BY <1>1, <1>4 DEF LoopsInOrder, InFlight, Within, Offset
    <3>2. Offset(i) \in Nat /\ Offset(Frontier) \in Nat /\ Offset(pr.EndIndex) \in Nat
      BY <1>1, OffsetType, Sizes
    <3>3. Offset(i) < Offset(pr.EndIndex)
      BY <3>1, <3>2
    <3>4. QED
      BY <3>1, <3>3 DEF Carries, Owned, Within, Offset
  <2>4. FragmentOffset(packet[i].FragmentIndex) < FragmentOffset(fr.EndIndex)
    BY <1>1, <2>3 DEF FragmentsInOrder, OffsetOfFragment
  <2>5. QED
    BY <2>2, <2>4 DEF Data, Owned, Within, FragmentOffset
<1>6. QED
  BY <1>4, <1>5

(* For all rings that fit: what the device may take is always a context    *)
(* descriptor or the data of a fragment the driver still holds.            *)
THEOREM OnlyOwnedMemoryRead == ASSUME RingsFit PROVE Spec => []DeviceReadsOwnedMemory
<1>1. FullInvariant /\ [Next]_vars => FullInvariant'
  BY NextFull
<1>2. QED
  BY InitFull, <1>1, ReadIsOwned, PTL DEF Spec

LEMMA ReturnStep ==
    ASSUME FullInvariant, [Next]_vars, NEW i \in Slots,
           Owned(i, pr, PacketRingSize), ~Owned(i, pr', PacketRingSize),
           ~packet[i].Ignore, phase' = "started"
    PROVE  sent[i] = 1
<1>1. /\ TypeOK /\ LoopsInOrder /\ DescriptorsInOrder /\ PacketsDescribed /\ SeenComplete
      /\ EmptyUnlessStarted
  BY DEF FullInvariant, Invariant, DeviceInvariant
<1>2. phase = "started"
  <2>1. ASSUME phase # "started" PROVE FALSE
    <3>1. pr.BeginIndex = pr.EndIndex
      BY <1>1, <2>1 DEF EmptyUnlessStarted
    <3>2. Offset(i) \in Nat
      BY <1>1, OffsetType, Sizes
    <3>3. Dist(pr.BeginIndex, pr.BeginIndex, PacketRingSize) = 0
      BY <1>1, OffsetType, DistType, Sizes DEF Slots
    <3>4. QED
      BY <3>1, <3>2, <3>3 DEF Owned, Within, Offset
  <2>2. QED
    BY <2>1
<1>3. CASE IgbReturnPackets
  <2>1. pc = "complete" /\ Offset(i) < Offset(local.packetIndex)
    BY <1>1, <1>2, <1>3, KeptOnReturn DEF IgbReturnPackets
  <2>2. Frontier = pr.NextIndex /\ Offset(local.packetIndex) <= Offset(pr.NextIndex)
    BY <1>1, <1>2, <2>1 DEF LoopsInOrder, Frontier
  <2>3. Offset(i) < Offset(pr.NextIndex)
    BY <1>1, <2>1, <2>2, OffsetType, Sizes DEF TypeOK
  <2>4. InFlight(i)
    BY <1>2, <2>2, <2>3 DEF InFlight, Within, Offset
  <2>5. txd[lastTxDescIdx(i)].kind = "DD"
    BY <1>1, <1>2, <2>1, <2>4 DEF SeenComplete
  <2>6. ~(LastBehind(i) <= Pending)
    <3>1. LastBehind(i) <= Pending => txd[lastTxDescIdx(i)] = Data(packet[i].FragmentIndex, i)
      BY <1>1, <1>2, <2>4 DEF PacketsDescribed
    <3>2. QED
      BY <2>5, <3>1 DEF Data
  <2>7. LastBehind(i) > Pending
    BY <1>1, <2>4, <2>6, LastType, BehindType, Sizes
  <2>8. QED
    BY <1>1, <1>2, <2>4, <2>7 DEF PacketsDescribed
<1>4. ASSUME ClientAppends PROVE FALSE
  <2>1. /\ Inc(pr.EndIndex, PacketRingSize) # pr.BeginIndex
        /\ pr'.BeginIndex = pr.BeginIndex /\ pr'.EndIndex = Inc(pr.EndIndex, PacketRingSize)
    BY <1>1, <1>4 DEF ClientAppends, TypeOK, RingType
  <2>2. Dist(pr.BeginIndex, Inc(pr.EndIndex, PacketRingSize), PacketRingSize)
          = Offset(pr.EndIndex) + 1
    BY <1>1, <2>1, OffsetType, DistInc, Sizes DEF Offset, Slots
  <2>3. Offset(i) \in Nat /\ Offset(pr.EndIndex) \in Nat /\ Offset(i) < Offset(pr.EndIndex)
    BY <1>1, OffsetType, Sizes DEF Owned, Within, Offset
  <2>4. Offset(i) < Offset(pr.EndIndex) + 1
    BY <2>3
  <2>5. QED
    BY <2>1, <2>2, <2>4 DEF Owned, Within, Offset
<1>5. ASSUME \/ DeviceTransmits \/ IgbPostPacket \/ IgbSkipIgnored \/ EvtTxQueueAdvance
             \/ IgbFlushTransaction \/ IgbCompletePacket
             \/ UNCHANGED <<phase, rings, device, posting, running>>
      PROVE  FALSE
  <2>1. pr'.BeginIndex = pr.BeginIndex /\ pr'.EndIndex = pr.EndIndex
    BY <1>1, <1>5 DEF DeviceTransmits, IgbPostPacket, IgbSkipIgnored, EvtTxQueueAdvance,
                      IgbFlushTransaction, IgbCompletePacket, rings, TypeOK, RingType
  <2>2. QED
    BY <2>1 DEF Owned
<1>6. ~EvtTxQueueStart
  BY <1>2 DEF EvtTxQueueStart
<1>7. QED
  BY <1>3, <1>4, <1>5, <1>6, StartedSteps

(* For all rings that fit: DD on a packet's last descriptor is always its  *)
(* own, so a packet goes back to the client after it was transmitted, once.*)
THEOREM ReturnedAfterSending == ASSUME RingsFit PROVE Spec => ReturnedWasSentOnce
<1>1. FullInvariant /\ [Next]_vars => FullInvariant'
  BY NextFull
<1>2. FullInvariant /\ [Next]_vars =>
        [\A i \in Slots :
           /\ Owned(i, pr, PacketRingSize) /\ ~Owned(i, pr', PacketRingSize)
           /\ ~packet[i].Ignore /\ phase' = "started"
           => sent[i] = 1]_vars
  BY ReturnStep
<1>3. QED
  BY InitFull, <1>1, <1>2, PTL DEF Spec, ReturnedWasSentOnce
-----------------------------------------------------------------------------
(***************************************************************************)
(* The queue as HandOver: with FullInvariant before and after it, a step   *)
(* is one of HandOver's or leaves what the client has handed over alone.   *)
(***************************************************************************)
ItemType == [skip: BOOLEAN, uses: 0 .. 2]
Held == InOrder(Packets, pr, PacketRingSize)

LEMMA PacketsType ==
    ASSUME TypeOK
    PROVE  /\ Packets \in [0 .. PacketRingSize - 1 -> ItemType]
           /\ pr \in RingType(PacketRingSize)
           /\ \A i \in Slots :
                Packets[i] = [skip |-> packet[i].Ignore, uses |-> sent[i]]
BY DEF TypeOK, Packets, ItemType, Slots

LEMMA PacketsTypeAfter ==
    ASSUME TypeOK'
    PROVE  /\ Packets' \in [0 .. PacketRingSize - 1 -> ItemType]
           /\ pr' \in RingType(PacketRingSize)
           /\ \A i \in Slots :
                Packets'[i] = [skip |-> packet'[i].Ignore, uses |-> sent'[i]]
BY DEF TypeOK, Packets, ItemType, Slots

(* The packets held are the same. *)
LEMMA HeldKept ==
    ASSUME TypeOK, TypeOK', pr'.BeginIndex = pr.BeginIndex, pr'.EndIndex = pr.EndIndex,
           \A i \in Slots : Owned(i, pr, PacketRingSize)
             => packet'[i] = packet[i] /\ sent'[i] = sent[i]
    PROVE  Held' = Held
<1>1. \A i \in 0 .. PacketRingSize - 1 : Owned(i, pr, PacketRingSize) => Packets'[i] = Packets[i]
  BY PacketsType, PacketsTypeAfter DEF Slots
<1>2. /\ Packets \in [0 .. PacketRingSize - 1 -> ItemType]
      /\ Packets' \in [0 .. PacketRingSize - 1 -> ItemType]
      /\ pr \in RingType(PacketRingSize) /\ pr' \in RingType(PacketRingSize)
  BY PacketsType, PacketsTypeAfter
<1>3. InOrder(Packets', pr', PacketRingSize) = InOrder(Packets, pr, PacketRingSize)
  BY <1>1, <1>2, Sizes, InOrderSame
<1>4. QED
  BY <1>3 DEF Held

(* Each place of the sequence stands for the slot as far from the first.   *)
LEMMA HeldPlaces ==
    ASSUME TypeOK
    PROVE  /\ Held \in Seq(ItemType) /\ Len(Held) = Offset(pr.EndIndex)
           /\ \A k \in 1 .. Len(Held) : \E i \in Slots :
                /\ Offset(i) = k - 1 /\ Owned(i, pr, PacketRingSize)
                /\ Held[k].skip = packet[i].Ignore /\ Held[k].uses = sent[i]
<1>1. /\ Packets \in [0 .. PacketRingSize - 1 -> ItemType] /\ pr \in RingType(PacketRingSize)
  BY PacketsType
<1>2. Held \in Seq(ItemType) /\ Len(Held) = Offset(pr.EndIndex)
  <2>1. \A i \in 0 .. PacketRingSize - 1 : Packets[i] \in ItemType
    BY <1>1
  <2>2. /\ InOrder(Packets, pr, PacketRingSize) \in Seq(ItemType)
        /\ Len(InOrder(Packets, pr, PacketRingSize))
             = Dist(pr.BeginIndex, pr.EndIndex, PacketRingSize)
    BY <1>1, <2>1, Sizes, InOrderType
  <2>3. QED
    BY <2>2 DEF Held, Offset
<1>3. ASSUME NEW k \in 1 .. Len(Held)
      PROVE  \E i \in Slots :
               /\ Offset(i) = k - 1 /\ Owned(i, pr, PacketRingSize)
               /\ Held[k].skip = packet[i].Ignore /\ Held[k].uses = sent[i]
  <2> DEFINE i == Wrap(pr.BeginIndex + (k - 1), PacketRingSize)
  <2>1. k \in 1 .. Dist(pr.BeginIndex, pr.EndIndex, PacketRingSize)
    BY <1>2, <1>3 DEF Offset
  <2>2. /\ i \in 0 .. PacketRingSize - 1 /\ Dist(pr.BeginIndex, i, PacketRingSize) = k - 1
        /\ Owned(i, pr, PacketRingSize)
    BY <1>1, <2>1, Sizes, InOrderIndex
  <2>3. InOrder(Packets, pr, PacketRingSize)[k] = Packets[i]
    BY <2>1 DEF InOrder
  <2> HIDE DEF i
  <2>4. i \in Slots /\ Offset(i) = k - 1 /\ Held[k] = Packets[i]
    BY <2>2, <2>3 DEF Slots, Offset, Held
  <2>5. Packets[i] = [skip |-> packet[i].Ignore, uses |-> sent[i]]
    BY <2>4, PacketsType
  <2>6. Held[k].skip = packet[i].Ignore /\ Held[k].uses = sent[i]
    BY <2>4, <2>5
  <2>7. QED
    BY <2>2, <2>4, <2>6
<1>4. QED
  BY <1>2, <1>3

(* The client's packet is appended. *)
LEMMA AppendGives ==
    ASSUME TypeOK, TypeOK', ClientAppends
    PROVE  Promise!Next
<1>1. PICK ignore \in BOOLEAN :
        /\ phase = "started" /\ phase' = phase
        /\ Inc(pr.EndIndex, PacketRingSize) # pr.BeginIndex
        /\ packet' = [packet EXCEPT ![pr.EndIndex] =
                        [Ignore |-> ignore, FragmentIndex |-> fr.EndIndex]]
        /\ pr' = [pr EXCEPT !.EndIndex = Inc(@, PacketRingSize)]
        /\ sent' = [sent EXCEPT ![pr.EndIndex] = 0]
  BY DEF ClientAppends
<1>2. /\ pr'.BeginIndex = pr.BeginIndex /\ pr'.EndIndex = Inc(pr.EndIndex, PacketRingSize)
      /\ pr.EndIndex \in Slots
      /\ \A i \in Slots : i # pr.EndIndex => packet'[i] = packet[i] /\ sent'[i] = sent[i]
      /\ packet'[pr.EndIndex].Ignore = ignore /\ sent'[pr.EndIndex] = 0
  BY <1>1, OffsetType DEF TypeOK, RingType
<1>3. /\ Packets \in [0 .. PacketRingSize - 1 -> ItemType]
      /\ Packets' \in [0 .. PacketRingSize - 1 -> ItemType]
      /\ pr \in RingType(PacketRingSize) /\ pr' \in RingType(PacketRingSize)
      /\ \A i \in 0 .. PacketRingSize - 1 : i # pr.EndIndex => Packets'[i] = Packets[i]
      /\ Packets'[pr.EndIndex] = [skip |-> ignore, uses |-> 0]
  BY <1>2, PacketsType, PacketsTypeAfter DEF Slots
<1>4. InOrder(Packets', pr', PacketRingSize)
        = Append(InOrder(Packets, pr, PacketRingSize), Packets'[pr.EndIndex])
  <2> DEFINE n == PacketRingSize
             f == Packets
             g == Packets'
             next == pr'
  <2>1. /\ n \in Nat /\ n >= 2 /\ pr \in RingType(n) /\ next \in RingType(n)
        /\ next.BeginIndex = pr.BeginIndex /\ next.EndIndex = Inc(pr.EndIndex, n)
        /\ Inc(pr.EndIndex, n) # pr.BeginIndex
        /\ \A i \in 0 .. n-1 : i # pr.EndIndex => g[i] = f[i]
    BY <1>1, <1>2, <1>3, Sizes
  <2> HIDE DEF n, f, g, next
  <2>2. InOrder(g, next, n) = Append(InOrder(f, pr, n), g[pr.EndIndex])
    BY <2>1, InOrderAppend
  <2>3. QED
    BY <2>2 DEF n, f, g, next
<1>5. Promise!Give(ignore)
  BY <1>1, <1>3, <1>4 DEF Promise!Give, Promise!Fresh
<1>6. QED
  BY <1>5 DEF Promise!Next

(* What the device transmits is the first packet not yet sent: the tail of *)
(* the ring was written in order, and the head has passed what is before.  *)
LEMMA DeviceTakes ==
    ASSUME FullInvariant, DeviceTransmits
    PROVE  \/ UNCHANGED sent
           \/ \E i \in Slots :
                /\ InFlight(i) /\ sent[i] = 0 /\ sent' = [sent EXCEPT ![i] = 1]
                /\ \A j \in Slots : Offset(j) < Offset(i) => packet[j].Ignore \/ sent[j] = 1
<1>1. /\ TypeOK /\ DescriptorsInOrder /\ PacketsDescribed /\ DescriptorsWritten
      /\ TailInOrder /\ phase = "started"
  BY DEF FullInvariant, Invariant, DeviceInvariant, EmptyUnlessStarted, DeviceTransmits
<1>2. Pending \in Nat /\ 1 <= Pending /\ TDH \in Descriptors /\ Behind(TDH) = Pending
  <2>1. /\ Pending \in Nat /\ Behind(TDT) \in Nat /\ Behind(TDT) # Pending
        /\ TDH \in Descriptors
    BY <1>1, BehindType, Sizes DEF Pending, DeviceTransmits
  <2>2. Behind(TDT) <= Pending
    BY <1>1 DEF TailInOrder
  <2>3. QED
    BY <2>1, <2>2 DEF Pending
<1>3. PICK i \in Slots :
        /\ InFlight(i) /\ LastBehind(i) <= Pending /\ Pending <= Written(i)
        /\ Pending # LastBehind(i) => txd[TDH].kind = "context"
  BY <1>1, <1>2 DEF DescriptorsWritten
<1>4. CASE txd[TDH].kind # "data"
  BY <1>4 DEF DeviceTransmits
<1>5. CASE txd[TDH].kind = "data"
  <2>1. LastBehind(i) = Pending
    BY <1>3, <1>5
  <2>2. lastTxDescIdx(i) = TDH
    BY <1>1, <1>2, <1>3, <2>1, LastType, BehindType
  <2>3. txd[TDH] = Data(packet[i].FragmentIndex, i) /\ sent[i] = 0
    BY <1>1, <1>2, <1>3, <2>1, <2>2 DEF PacketsDescribed
  <2>4. sent' = [sent EXCEPT ![i] = 1]
    BY <1>5, <2>3 DEF DeviceTransmits, Data
  <2>5. ASSUME NEW j \in Slots, Offset(j) < Offset(i), ~packet[j].Ignore
        PROVE  sent[j] = 1
    <3>1. InFlight(j)
      <4>1. Offset(i) < Offset(Frontier) /\ phase = "started"
        BY <1>3 DEF InFlight, Within, Offset
      <4>2. Offset(j) < Offset(Frontier)
        BY <1>1, <2>5, <4>1, OffsetType
      <4>3. QED
        BY <2>5, <4>1, <4>2 DEF InFlight, Within, Offset
    <3>2. Written(i) + tcb[j].NumTxDesc <= Written(j)
      BY <1>1, <1>3, <2>5, <3>1 DEF DescriptorsInOrder
    <3>3. LastBehind(j) > Pending
      <4>1. /\ LastBehind(j) \in Nat /\ LastBehind(j) + tcb[j].NumTxDesc = Written(j) + 1
        <5>1. TypeOK /\ DescriptorsInOrder /\ InFlight(j)
          BY <1>1, <3>1
        <5>2. LastBehind(j) \in Nat
          BY <5>1, LastType
        <5>3. LastBehind(j) + tcb[j].NumTxDesc = Written(j) + 1
          BY <5>1, LastType
        <5>4. QED
          BY <5>2, <5>3
      <4>2. Written(i) \in Nat /\ Written(j) \in Nat /\ tcb[j].NumTxDesc \in Nat
        <5>1. Written(i) \in 0 .. NumTxDesc - 1 /\ Written(j) \in 0 .. NumTxDesc - 1
          BY <1>1, WrittenType
        <5>2. tcb[j].NumTxDesc \in 0 .. 2
          BY <1>1 DEF TypeOK
        <5>3. QED
          BY <5>1, <5>2, Sizes
      <4>3. QED
        BY <1>2, <1>3, <3>2, <4>1, <4>2
    <3>4. QED
      BY <1>1, <3>1, <3>3 DEF PacketsDescribed
  <2>6. QED
    BY <1>3, <2>3, <2>4, <2>5
<1>6. QED
  BY <1>4, <1>5

LEMMA TransmitUses ==
    ASSUME FullInvariant, TypeOK', DeviceTransmits
    PROVE  Promise!Next \/ UNCHANGED Promise!vars
<1>1. TypeOK /\ phase = "started" /\ LoopsInOrder
  BY DEF FullInvariant, Invariant, DeviceInvariant, EmptyUnlessStarted, DeviceTransmits
<1>2. UNCHANGED <<phase, pr, packet>>
  BY DEF DeviceTransmits
<1>3. CASE UNCHANGED sent
  <2>1. Held' = Held
    BY <1>1, <1>2, <1>3, HeldKept
  <2>2. QED
    BY <1>2, <2>1 DEF Promise!vars, Held
<1>4. ASSUME NEW i \in Slots, InFlight(i), sent[i] = 0, sent' = [sent EXCEPT ![i] = 1],
             \A j \in Slots : Offset(j) < Offset(i) => packet[j].Ignore \/ sent[j] = 1
      PROVE  Promise!Next
  <2> DEFINE k == Offset(i) + 1
  <2>1. ~packet[i].Ignore /\ Owned(i, pr, PacketRingSize)
    <3>1. Offset(i) < Offset(Frontier) /\ Offset(Frontier) <= Offset(pr.EndIndex)
      BY <1>1, <1>4 DEF InFlight, Within, Offset, LoopsInOrder
    <3>2. Offset(i) < Offset(pr.EndIndex)
      BY <1>1, <3>1, OffsetType
    <3>3. QED
      BY <1>4, <3>2 DEF InFlight, Owned, Within, Offset
  <2>2. /\ \A j \in 0 .. PacketRingSize - 1 : j # i => Packets'[j] = Packets[j]
        /\ Packets[i] = [skip |-> FALSE, uses |-> 0]
        /\ Packets'[i] = [skip |-> FALSE, uses |-> 1]
    <3>1. \A j \in Slots : packet'[j] = packet[j] /\ (j # i => sent'[j] = sent[j])
      BY <1>1, <1>2, <1>4 DEF TypeOK
    <3>2. sent'[i] = 1 /\ packet[i].Ignore = FALSE
      BY <1>1, <1>4, <2>1 DEF TypeOK
    <3>3. QED
      BY <1>1, <1>4, <3>1, <3>2, PacketsType, PacketsTypeAfter DEF Slots
  <2>3. /\ k \in 1 .. Len(Held) /\ Held[k] = Packets[i]
        /\ Held' = [Held EXCEPT ![k] = Packets'[i]]
    <3> DEFINE n == PacketRingSize
               f == Packets
               g == Packets'
    <3>1. /\ n \in Nat /\ n >= 2 /\ pr \in RingType(n) /\ i \in 0 .. n-1
          /\ Owned(i, pr, n)
          /\ \A j \in 0 .. n-1 : j # i => g[j] = f[j]
          /\ \A j \in 0 .. n-1 : f[j] \in ItemType
          /\ \A j \in 0 .. n-1 : g[j] \in ItemType
      BY <1>1, <1>4, <2>1, <2>2, Sizes, PacketsType, PacketsTypeAfter DEF Slots
    <3> HIDE DEF n, f, g
    <3>2. /\ InOrder(f, pr, n) \in Seq(ItemType) /\ InOrder(g, pr, n) \in Seq(ItemType)
          /\ Len(InOrder(f, pr, n)) = Dist(pr.BeginIndex, pr.EndIndex, n)
          /\ Len(InOrder(g, pr, n)) = Dist(pr.BeginIndex, pr.EndIndex, n)
      BY <3>1, InOrderType
    <3>3. /\ Dist(pr.BeginIndex, i, n) + 1 \in 1 .. Len(InOrder(f, pr, n))
          /\ InOrder(f, pr, n)[Dist(pr.BeginIndex, i, n) + 1] = f[i]
          /\ InOrder(g, pr, n)[Dist(pr.BeginIndex, i, n) + 1] = g[i]
      BY <3>1, InOrderAt
    <3>4. ASSUME NEW l \in 1 .. Dist(pr.BeginIndex, pr.EndIndex, n),
                 l # Dist(pr.BeginIndex, i, n) + 1
          PROVE  InOrder(g, pr, n)[l] = InOrder(f, pr, n)[l]
      <4> DEFINE j == Wrap(pr.BeginIndex + (l - 1), n)
      <4>1. j \in 0 .. n-1 /\ Dist(pr.BeginIndex, j, n) = l - 1
        BY <3>1, InOrderIndex
      <4>2. Dist(pr.BeginIndex, i, n) # l - 1
        BY <3>1, <3>2, <3>3, <3>4
      <4>3. g[j] = f[j]
        BY <3>1, <4>1, <4>2
      <4>4. QED
        BY <4>3 DEF InOrder
    <3>5. /\ Held = InOrder(f, pr, n) /\ Held' = InOrder(g, pr, n)
          /\ k = Dist(pr.BeginIndex, i, n) + 1
      BY <1>2 DEF Held, Offset, f, g, n
    <3> HIDE DEF k
    <3>6. InOrder(g, pr, n) = [InOrder(f, pr, n) EXCEPT ![k] = g[i]]
      BY <3>2, <3>3, <3>4, <3>5
    <3>7. QED
      BY <3>3, <3>5, <3>6 DEF f, g
  <2>4. \A j \in 1 .. k - 1 : Held[j].skip \/ Held[j].uses = 1
    <3>1. ASSUME NEW j \in 1 .. k - 1 PROVE Held[j].skip \/ Held[j].uses = 1
      <4>1. k \in Nat /\ k <= Len(Held)
        BY <1>1, <2>3, HeldPlaces, OffsetType, Sizes
      <4>2. PICK p \in Slots : /\ Offset(p) = j - 1
                               /\ Held[j].skip = packet[p].Ignore /\ Held[j].uses = sent[p]
        BY <1>1, <4>1, HeldPlaces
      <4>3. Offset(p) < Offset(i)
        BY <1>1, <4>2, OffsetType
      <4>4. QED
        BY <1>4, <4>2, <4>3
    <3>2. QED
      BY <3>1
  <2> HIDE DEF k
  <2>5. Held' = [Held EXCEPT ![k] = Promise!Used]
    BY <2>2, <2>3 DEF Promise!Used
  <2>6. Promise!Use(k)
    <3>1. k \in 1 .. Len(InOrder(Packets, pr, PacketRingSize))
      BY <2>3 DEF Held
    <3>2. /\ ~InOrder(Packets, pr, PacketRingSize)[k].skip
          /\ InOrder(Packets, pr, PacketRingSize)[k].uses = 0
      BY <2>2, <2>3 DEF Held
    <3>3. \A j \in 1 .. k - 1 :
            Promise!Settled(InOrder(Packets, pr, PacketRingSize)[j])
      BY <2>4 DEF Promise!Settled, Held
    <3>4. InOrder(Packets', pr', PacketRingSize)
            = [InOrder(Packets, pr, PacketRingSize) EXCEPT ![k] = Promise!Used]
      BY <2>5 DEF Held
    <3>5. (phase = "started")' = (phase = "started")
      BY <1>2
    <3>6. QED
      BY <3>1, <3>2, <3>3, <3>4, <3>5 DEF Promise!Use
  <2>7. QED
    BY <2>3, <2>6 DEF Promise!Next, Held
<1>5. QED
  BY <1>3, <1>4, DeviceTakes

(* What the completion loop passed goes back, and all of it was sent or to *)
(* be ignored.                                                             *)
LEMMA ReturnGivesBack ==
    ASSUME FullInvariant, [Next]_vars, TypeOK', IgbReturnPackets, phase = "started"
    PROVE  Promise!Next \/ UNCHANGED Promise!vars
<1> DEFINE p == Offset(local.packetIndex)
<1>1. TypeOK /\ LoopsInOrder
  BY DEF FullInvariant, Invariant
<1>2. /\ phase' = phase /\ pc = "complete" /\ Frontier = pr.NextIndex
      /\ pr'.BeginIndex = local.packetIndex /\ pr'.EndIndex = pr.EndIndex
      /\ \A i \in Slots : Owned(i, pr', PacketRingSize)
           => packet'[i] = packet[i] /\ sent'[i] = sent[i]
  BY <1>1 DEF IgbReturnPackets, TypeOK, RingType, Frontier
<1>3. /\ p \in Nat /\ p <= Offset(pr.EndIndex) /\ Offset(pr.EndIndex) \in Nat
      /\ local.packetIndex \in Slots
  <2>1. p <= Offset(pr.NextIndex) /\ Offset(pr.NextIndex) <= Offset(pr.EndIndex)
    BY <1>1, <1>2 DEF LoopsInOrder
  <2>2. /\ local.packetIndex \in Slots /\ p \in 0 .. PacketRingSize - 1
        /\ Offset(pr.NextIndex) \in 0 .. PacketRingSize - 1
        /\ Offset(pr.EndIndex) \in 0 .. PacketRingSize - 1
    BY <1>1, OffsetType DEF TypeOK
  <2>3. QED
    BY <2>1, <2>2, Sizes
<1>4. Held' = SubSeq(Held, p + 1, Len(Held))
  <2> DEFINE n == PacketRingSize
             f == Packets
             g == Packets'
             next == pr'
  <2>1. \A i \in 0 .. n-1 : Owned(i, next, n) => g[i] = f[i]
    BY <1>1, <1>2, PacketsType, PacketsTypeAfter DEF Slots
  <2>2. /\ n \in Nat /\ n >= 2 /\ pr \in RingType(n) /\ next \in RingType(n)
        /\ p \in Nat /\ p = Dist(pr.BeginIndex, next.BeginIndex, n)
        /\ p <= Dist(pr.BeginIndex, pr.EndIndex, n) /\ next.EndIndex = pr.EndIndex
    BY <1>1, <1>2, <1>3, Sizes, PacketsType, PacketsTypeAfter DEF Offset
  <2> HIDE DEF n, f, g, next, p
  <2>3. InOrder(g, next, n) = SubSeq(InOrder(f, pr, n), p + 1, Len(InOrder(f, pr, n)))
    BY <2>1, <2>2, InOrderDrop
  <2>4. QED
    BY <2>3 DEF Held, f, g, next, n
<1>5. CASE p = 0
  <2>1. local.packetIndex = pr.BeginIndex
    <3>1. Offset(pr.BeginIndex) = 0 /\ pr.BeginIndex \in Slots
      BY <1>1, OffsetType, DistType, Sizes DEF Offset, Slots
    <3>2. QED
      BY <1>1, <1>3, <1>5, <3>1, OffsetType
  <2>2. \A i \in Slots : Owned(i, pr, PacketRingSize)
          => packet'[i] = packet[i] /\ sent'[i] = sent[i]
    BY <1>2, <2>1 DEF Owned
  <2>3. Held' = Held
    BY <1>1, <1>2, <2>1, <2>2, HeldKept
  <2>4. QED
    BY <1>2, <2>3 DEF Promise!vars, Held
<1>6. CASE p # 0
  <2>1. p \in 1 .. Len(Held)
    BY <1>1, <1>3, <1>6, HeldPlaces
  <2>2. ASSUME NEW k \in 1 .. p PROVE Promise!Settled(Held[k])
    <3>1. k \in 1 .. Len(Held)
      BY <1>1, <1>3, <2>1, <2>2, HeldPlaces
    <3>2. PICK i \in Slots :
            /\ Offset(i) = k - 1 /\ Owned(i, pr, PacketRingSize)
            /\ Held[k].skip = packet[i].Ignore /\ Held[k].uses = sent[i]
      BY <1>1, <3>1, HeldPlaces
    <3>3. Offset(i) < p
      BY <1>3, <2>2, <3>2
    <3>4. ~Owned(i, pr', PacketRingSize)
      BY <1>1, <3>2, <3>3, KeptOnReturn
    <3>5. packet[i].Ignore \/ sent[i] = 1
      BY <1>2, <3>2, <3>4, ReturnStep
    <3>6. QED
      BY <3>2, <3>5 DEF Promise!Settled
  <2> HIDE DEF p
  <2>3. Promise!GiveBack(p)
    BY <1>2, <1>4, <2>1, <2>2 DEF Promise!GiveBack, Held
  <2>4. QED
    BY <2>1, <2>3 DEF Promise!Next, Held
<1>7. QED
  BY <1>5, <1>6

(* A queue that is not started holds nothing.                              *)
LEMMA NothingHeld ==
    ASSUME TypeOK, EmptyUnlessStarted, phase # "started"
    PROVE  Held = << >>
<1>1. pr \in RingType(PacketRingSize) /\ pr.BeginIndex = pr.EndIndex
  BY PacketsType DEF EmptyUnlessStarted
<1>2. QED
  BY <1>1, Sizes, InOrderEmpty DEF Held

LEMMA NothingHeldAfter ==
    ASSUME TypeOK', pr'.BeginIndex = pr'.EndIndex
    PROVE  Held' = << >>
<1> DEFINE f == Packets'
           next == pr'
<1>1. next \in RingType(PacketRingSize) /\ next.BeginIndex = next.EndIndex
  BY PacketsTypeAfter
<1> HIDE DEF f, next
<1>2. InOrder(f, next, PacketRingSize) = << >>
  BY <1>1, Sizes, InOrderEmpty
<1>3. QED
  BY <1>2 DEF Held, f, next

(* Every step of the queue is one of HandOver's or none.                   *)
LEMMA NextPromised ==
    ASSUME FullInvariant, FullInvariant', [Next]_vars
    PROVE  Promise!Next \/ UNCHANGED Promise!vars
<1>1. TypeOK /\ TypeOK' /\ EmptyUnlessStarted /\ EmptyUnlessStarted'
  BY DEF FullInvariant, Invariant, DeviceInvariant
<1>2. CASE phase # "started" /\ phase' # "started"
  <2>1. Held = << >> /\ Held' = << >>
    BY <1>1, <1>2, NothingHeld, NothingHeldAfter DEF EmptyUnlessStarted
  <2>2. QED
    BY <1>2, <2>1 DEF Promise!vars, Held
<1>3. CASE phase # "started" /\ phase' = "started"
  <2>1. EvtTxQueueStart
    BY <1>3, StaysStarted
  <2>2. Held = << >> /\ Held' = << >>
    BY <1>1, <1>3, <2>1, NothingHeld, NothingHeldAfter DEF EvtTxQueueStart, EmptyRing
  <2>3. Promise!Open
    BY <1>3, <2>2 DEF Promise!Open, Held
  <2>4. QED
    BY <2>3 DEF Promise!Next
<1>4. CASE phase = "started" /\ phase' # "started"
  <2>1. Held' = << >>
    BY <1>1, <1>4, NothingHeldAfter DEF EmptyUnlessStarted
  <2>2. Promise!Cancel
    BY <1>4, <2>1 DEF Promise!Cancel, Held
  <2>3. QED
    BY <2>2 DEF Promise!Next
<1>5. CASE phase = "started" /\ phase' = "started"
  <2>1. ~EvtTxQueueStart
    BY <1>5 DEF EvtTxQueueStart
  <2>2. CASE ClientAppends
    BY <1>1, <2>2, AppendGives
  <2>3. CASE DeviceTransmits
    BY <1>1, <2>3, TransmitUses
  <2>4. CASE IgbReturnPackets
    BY <1>1, <1>5, <2>4, ReturnGivesBack
  <2>5. CASE \/ IgbPostPacket \/ IgbSkipIgnored \/ EvtTxQueueAdvance
             \/ IgbFlushTransaction \/ IgbCompletePacket
             \/ UNCHANGED <<phase, rings, device, posting, running>>
    <3>1. /\ pr'.BeginIndex = pr.BeginIndex /\ pr'.EndIndex = pr.EndIndex
          /\ packet' = packet /\ sent' = sent
      BY <1>1, <2>5 DEF IgbPostPacket, IgbSkipIgnored, EvtTxQueueAdvance,
                        IgbFlushTransaction, IgbCompletePacket, rings, TypeOK, RingType
    <3>2. Held' = Held
      BY <1>1, <3>1, HeldKept
    <3>3. QED
      BY <1>5, <3>2 DEF Promise!vars, Held
  <2>6. QED
    BY <1>5, <2>1, <2>2, <2>3, <2>4, <2>5, StartedSteps
<1>6. QED
  BY <1>2, <1>3, <1>4, <1>5

(* For all rings that fit, the transmit queue implements HandOver: packets *)
(* are transmitted in the order in which they were handed over, each once, *)
(* and go back in that order, none before, whatever the loops meet.        *)
THEOREM TxQueueIsHandOver == ASSUME RingsFit PROVE Spec => ImplementsHandOver
<1>1. Init => Promise!Init
  <2> SUFFICES ASSUME Init PROVE Promise!Init
    OBVIOUS
  <2>1. FullInvariant /\ phase # "started"
    BY InitFull DEF Init
  <2>2. Held = << >>
    BY <2>1, NothingHeld DEF FullInvariant, Invariant, DeviceInvariant
  <2>3. QED
    BY <2>1, <2>2 DEF Promise!Init, Held
<1>2. FullInvariant /\ [Next]_vars => FullInvariant'
  BY NextFull
<1>3. FullInvariant /\ FullInvariant' /\ [Next]_vars => [Promise!Next]_Promise!vars
  BY NextPromised
<1>4. QED
  BY <1>1, <1>2, <1>3, InitFull, PTL DEF Spec, ImplementsHandOver, Promise!Spec
=============================================================================
