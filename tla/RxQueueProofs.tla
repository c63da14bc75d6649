--------------------------- MODULE RxQueueProofs ---------------------------
(***************************************************************************)
(* Proofs about RxQueue for every ring size.                               *)
(***************************************************************************)
EXTENDS RxQueue, NetRingProofs, SequenceTheorems, FiniteSetTheorems, TLAPS

(* The driver has one descriptor per fragment; 4096 is never exceeded. *)
LEMMA Sizes ==
    /\ RingSize \in Nat /\ RingSize >= 2
    /\ NumRxDesc = RingSize
    /\ Descriptors = 0 .. RingSize - 1
BY RingSizeAssumption DEF NumRxDesc, Descriptors
-----------------------------------------------------------------------------
(* Types. *)

LEMMA ResetTypes ==
    /\ EmptyRing \in RingType(RingSize)
    /\ [d \in Descriptors |-> "zero"] \in [Descriptors -> {"zero", "posted", "DD"}]
    /\ 0 \in Descriptors /\ RingSize - 1 \in Descriptors
    /\ << >> \in Seq(Descriptors)
BY Sizes, EmptySeq DEF EmptyRing, RingType

LEMMA IndexTypes ==
    ASSUME TypeOK
    PROVE  /\ pr.BeginIndex \in Descriptors /\ pr.EndIndex \in Descriptors
           /\ fr.BeginIndex \in Descriptors /\ fr.NextIndex \in Descriptors
           /\ fr.EndIndex \in Descriptors
           /\ \A i \in Descriptors : Inc(i, RingSize) \in Descriptors
<1>1. \A i \in 0 .. RingSize - 1 : Inc(i, RingSize) \in 0 .. RingSize - 1
  BY Sizes, IndexType
<1>2. QED
  BY <1>1, Sizes DEF TypeOK, RingType

LEMMA NextTypeOK == TypeOK /\ [Next]_vars => TypeOK'
<1> SUFFICES ASSUME TypeOK, [Next]_vars PROVE TypeOK'
  OBVIOUS
<1> USE DEF TypeOK
<1>1. CASE EvtAdapterCreateRxQueue
  BY <1>1 DEF EvtAdapterCreateRxQueue, device
<1>2. CASE EvtRxQueueStart
  BY <1>2, ResetTypes, Sizes DEF EvtRxQueueStart
<1>3. CASE EvtRxQueueCancel \/ EvtRxQueueStop \/ EvtRxQueueDestroy \/ EvtRxQueueAdvance
  BY <1>3 DEF EvtRxQueueCancel, EvtRxQueueStop, EvtRxQueueDestroy, EvtRxQueueAdvance, device
<1>4. CASE ClientAddsPacket
  <2>1. pr' \in RingType(RingSize)
    BY <1>4, IndexTypes, Sizes DEF ClientAddsPacket, RingType
  <2>2. QED
    BY <1>4, <2>1 DEF ClientAddsPacket, device
<1>5. CASE ClientAddsBuffer
  <2>1. fr' \in RingType(RingSize)
    BY <1>5, IndexTypes, Sizes DEF ClientAddsBuffer, RingType
  <2>2. QED
    BY <1>5, <2>1 DEF ClientAddsBuffer, device
<1>6. CASE DeviceReceives
  <2>1. frames' \in Seq(Descriptors)
    <3>1. frames' = << >> \/ frames' = Append(frames, RDH)
      BY <1>6 DEF DeviceReceives
    <3>2. QED
      BY <3>1, ResetTypes, AppendProperties
  <2>2. RDH' \in Descriptors
    BY <1>6, IndexTypes, Sizes DEF DeviceReceives
  <2>3. QED
    BY <1>6, <2>1, <2>2 DEF DeviceReceives
<1>7. CASE DeviceQuiesces
  BY <1>7 DEF DeviceQuiesces
<1>8. CASE RxIndicateReceives
  <2>1. frames' \in Seq(Descriptors)
    BY <1>8, HeadTailProperties DEF RxIndicateReceives
  <2>2. pr' \in RingType(RingSize) /\ fr' \in RingType(RingSize)
    BY <1>8, IndexTypes, Sizes DEF RxIndicateReceives, RingType
  <2>3. QED
    BY <1>8, <2>1, <2>2 DEF RxIndicateReceives
<1>9. CASE RxIndicateReceivesEnds \/ RxPostBuffersEnds
  BY <1>9 DEF RxIndicateReceivesEnds, RxPostBuffersEnds, device
<1>10. CASE RxPostBuffers
  <2>1. fr' \in RingType(RingSize)
    BY <1>10, IndexTypes, Sizes DEF RxPostBuffers, RingType
  <2>2. QED
    BY <1>10, <2>1, IndexTypes DEF RxPostBuffers, IgbPostRxDescriptor, NewTail
<1>11. CASE EvtRxQueueCancelReturns
  BY <1>11, Sizes DEF EvtRxQueueCancelReturns, PacketsReturned, device, RingType
<1>12. CASE UNCHANGED vars
  BY <1>12 DEF vars
<1>13. QED
  BY <1>1, <1>2, <1>3, <1>4, <1>5, <1>6, <1>7, <1>8, <1>9, <1>10, <1>11, <1>12
     DEF Next, AdvanceStep

LEMMA InitTypeOK == Init => TypeOK
BY ResetTypes DEF Init, TypeOK

(* Whatever the ring size, every index the driver or the device computes,  *)
(* on the packet ring, the fragment ring or the descriptors, stays inside  *)
(* its ring.                                                               *)
THEOREM TypesHold == Spec => []TypeOK
<1>1. QED
  BY InitTypeOK, NextTypeOK, PTL DEF Spec
-----------------------------------------------------------------------------
(* The inductive invariant. *)

(* How far an index is from the first fragment the driver holds; a buffer  *)
(* nearer than fr->NextIndex was posted and not indicated.                 *)
Offset(i) == Dist(fr.BeginIndex, i, RingSize)

(* The loops run in a started or a canceled queue, the second half of a    *)
(* cancel in one that is still started; the receive unit is on in between; *)
(* and a canceled queue has no packet to carry a frame.                    *)
LifeCycle ==
    /\ pc # "idle" => phase \in {"started", "canceled"}
    /\ pc = "cancel" => phase = "started"
    /\ rxUnit = "on" => phase = "started" /\ pc # "cancel"
    /\ phase = "canceled" => pr.BeginIndex = pr.EndIndex

(* A started queue has posted no more buffers than it was given.           *)
PostedWereGiven == phase = "started" => Offset(fr.NextIndex) <= Offset(fr.EndIndex)

(* The tail is one short of what was posted, so that the head, which is as *)
(* far from fr->BeginIndex as there are frames, never reaches NextIndex;   *)
(* where nothing is posted, nothing was since the start of the queue.      *)
HeadBeforeTail ==
    /\ Inc(RDT, RingSize) = fr.NextIndex
    /\ Offset(RDH) = Len(frames)
    /\ fr.BeginIndex = fr.NextIndex =>
         /\ frames = << >>
         /\ \A d \in 0 .. RingSize - 1 : rxd[d] = "zero"
    /\ fr.BeginIndex # fr.NextIndex => Len(frames) < Offset(fr.NextIndex)

(* Of the posted descriptors those the head has passed are filled, in      *)
(* order, the others are as they were posted.                              *)
FilledUpToHead ==
    /\ \A d \in 0 .. RingSize - 1 :
         Offset(d) < Offset(fr.NextIndex)
           => rxd[d] = IF Offset(d) < Len(frames) THEN "DD" ELSE "posted"
    /\ \A k \in 1 .. Len(frames) : Offset(frames[k]) = k - 1

Invariant ==
    /\ TypeOK /\ LifeCycle /\ PostedWereGiven
    /\ phase = "started" /\ ~early => HeadBeforeTail /\ FilledUpToHead

LEMMA LifeCycleKept ==
    ASSUME TypeOK, LifeCycle, [Next]_vars
    PROVE  LifeCycle'
<1> USE DEF LifeCycle
<1>1. CASE \/ EvtAdapterCreateRxQueue \/ EvtRxQueueStart \/ EvtRxQueueCancel
           \/ EvtRxQueueStop \/ EvtRxQueueDestroy
  BY <1>1 DEF EvtAdapterCreateRxQueue, EvtRxQueueStart, EvtRxQueueCancel, EvtRxQueueStop,
              EvtRxQueueDestroy, device
<1>2. CASE ClientAddsPacket \/ ClientAddsBuffer \/ DeviceReceives \/ DeviceQuiesces
  BY <1>2 DEF ClientAddsPacket, ClientAddsBuffer, DeviceReceives, DeviceQuiesces, device
<1>3. CASE EvtRxQueueAdvance \/ RxIndicateReceivesEnds \/ RxPostBuffers \/ RxPostBuffersEnds
  BY <1>3 DEF EvtRxQueueAdvance, RxIndicateReceivesEnds, RxPostBuffers, RxPostBuffersEnds,
              device
<1>4. CASE RxIndicateReceives
  BY <1>4 DEF RxIndicateReceives, CanIndicate
<1>5. CASE EvtRxQueueCancelReturns
  BY <1>5 DEF EvtRxQueueCancelReturns, PacketsReturned, device, TypeOK, RingType
<1>6. CASE UNCHANGED vars
  BY <1>6 DEF vars
<1>7. QED
  BY <1>1, <1>2, <1>3, <1>4, <1>5, <1>6 DEF Next, AdvanceStep

(* A step that leaves alone what the order of the frames depends on.       *)
LEMMA OrderUntouched ==
    ASSUME HeadBeforeTail, FilledUpToHead, UNCHANGED <<fr, rxd, RDH, RDT, frames>>
    PROVE  HeadBeforeTail' /\ FilledUpToHead'
BY DEF HeadBeforeTail, FilledUpToHead, Offset

LEMMA Indices ==
    ASSUME TypeOK
    PROVE  /\ fr.BeginIndex \in 0 .. RingSize - 1 /\ fr.NextIndex \in 0 .. RingSize - 1
           /\ fr.EndIndex \in 0 .. RingSize - 1
           /\ RDH \in 0 .. RingSize - 1 /\ RDT \in 0 .. RingSize - 1
           /\ frames \in Seq(0 .. RingSize - 1)
           /\ rxd \in [0 .. RingSize - 1 -> {"zero", "posted", "DD"}]
BY IndexTypes, Sizes DEF TypeOK

LEMMA OffsetType ==
    ASSUME TypeOK, NEW i \in 0 .. RingSize - 1
    PROVE  /\ Offset(i) \in Nat /\ Offset(i) < RingSize
           /\ Offset(i) = 0 <=> fr.BeginIndex = i
<1>1. fr.BeginIndex \in 0 .. RingSize - 1
  BY Indices
<1>2. /\ Offset(i) \in 0 .. RingSize - 1
      /\ Offset(i) = 0 <=> fr.BeginIndex = i
  BY <1>1, Sizes, DistType DEF Offset
<1>3. QED
  BY <1>2, Sizes

LEMMA StartOrders ==
    ASSUME TypeOK, EvtRxQueueStart
    PROVE  HeadBeforeTail' /\ FilledUpToHead'
<1> USE DEF Offset
<1>1. /\ fr'.BeginIndex = 0 /\ fr'.NextIndex = 0 /\ fr'.EndIndex = 0
      /\ RDH' = 0 /\ RDT' = RingSize - 1 /\ frames' = << >>
      /\ rxd' = [d \in 0 .. RingSize - 1 |-> "zero"]
  BY Sizes DEF EvtRxQueueStart, EmptyRing
<1>2. Inc(RingSize - 1, RingSize) = 0 /\ Dist(0, 0, RingSize) = 0
  BY Sizes DEF Inc, Dist
<1>3. Len(frames') = 0
  BY <1>1
<1>4. \A d \in 0 .. RingSize - 1 : Dist(0, d, RingSize) >= 0
  BY Sizes DEF Dist
<1>5. HeadBeforeTail'
  BY <1>1, <1>2, <1>3 DEF HeadBeforeTail, Offset
<1>6. QED
  BY <1>1, <1>2, <1>3, <1>4, <1>5 DEF FilledUpToHead

LEMMA AddBufferKeepsOrder ==
    ASSUME TypeOK, HeadBeforeTail, FilledUpToHead, ClientAddsBuffer
    PROVE  HeadBeforeTail' /\ FilledUpToHead'
<1>1. /\ fr'.BeginIndex = fr.BeginIndex /\ fr'.NextIndex = fr.NextIndex
      /\ UNCHANGED <<rxd, RDH, RDT, frames>>
  BY DEF ClientAddsBuffer, device, TypeOK, RingType
<1>2. QED
  BY <1>1 DEF HeadBeforeTail, FilledUpToHead, Offset

(* A frame fills the descriptor at the head, which was posted: the head is *)
(* not at the tail, and the tail is one short of NextIndex.                *)
LEMMA ReceiveKeepsOrder ==
    ASSUME ~early', TypeOK, HeadBeforeTail, FilledUpToHead, DeviceReceives
    PROVE  HeadBeforeTail' /\ FilledUpToHead'
<1> USE DEF Offset
<1>1. /\ RDH # RDT /\ ~ \A d \in 0 .. RingSize - 1 : rxd[d] = "zero"
      /\ rxd' = [rxd EXCEPT ![RDH] = "DD"]
      /\ frames' = Append(frames, RDH)
      /\ RDH' = Inc(RDH, RingSize)
      /\ UNCHANGED <<fr, RDT>>
  BY Sizes DEF DeviceReceives
<1>2. /\ RDH \in 0 .. RingSize - 1 /\ RDT \in 0 .. RingSize - 1
      /\ fr.BeginIndex \in 0 .. RingSize - 1 /\ fr.NextIndex \in 0 .. RingSize - 1
  BY Indices
<1>3. /\ fr.BeginIndex # fr.NextIndex /\ Inc(RDT, RingSize) = fr.NextIndex
      /\ Offset(RDH) = Len(frames) /\ Len(frames) < Offset(fr.NextIndex)
  BY <1>1 DEF HeadBeforeTail
<1>4. \A d \in 0 .. RingSize - 1 : Offset(d)' = Offset(d)
  BY <1>1
<1>5. Offset(RDT) = Offset(fr.NextIndex) - 1
  BY <1>2, <1>3, Sizes, DistBefore
<1>6. Len(frames) # Offset(RDT)
  BY <1>1, <1>2, <1>3, Sizes, DistInjective
<1>7. /\ Offset(RDH) \in Nat /\ Offset(RDT) \in Nat /\ Offset(fr.NextIndex) \in Nat
      /\ Offset(fr.NextIndex) < RingSize
  BY <1>2, OffsetType, Sizes
<1>8. Len(frames) + 1 < Offset(fr.NextIndex)
  BY <1>3, <1>5, <1>6, <1>7
<1>9. Offset(Inc(RDH, RingSize)) = Len(frames) + 1
  <2>1. Offset(RDH) + 1 < RingSize
    BY <1>3, <1>7, <1>8, Sizes
  <2>2. QED
    BY <1>2, <1>3, <2>1, Sizes, DistInc
<1>10. /\ frames \in Seq(0 .. RingSize - 1) /\ RDH \in 0 .. RingSize - 1
       /\ Len(frames') = Len(frames) + 1
       /\ \A k \in 1 .. Len(frames) : frames'[k] = frames[k]
       /\ frames'[Len(frames) + 1] = RDH
  BY <1>1, Indices, AppendProperties
<1>11. HeadBeforeTail'
  <2>1. Offset(fr.NextIndex)' = Offset(fr.NextIndex) /\ Offset(fr.EndIndex)' = Offset(fr.EndIndex)
    BY <1>1
  <2>2. Offset(RDH)' = Len(frames')
    BY <1>1, <1>9, <1>10
  <2>3. QED
    BY <1>1, <1>3, <1>8, <1>10, <2>1, <2>2 DEF HeadBeforeTail
<1>12. ASSUME NEW d \in 0 .. RingSize - 1, Offset(d)' < Offset(fr.NextIndex)'
       PROVE  rxd'[d] = IF Offset(d)' < Len(frames') THEN "DD" ELSE "posted"
  <2>1. rxd[d] = IF Offset(d) < Len(frames) THEN "DD" ELSE "posted"
    BY <1>1, <1>12 DEF FilledUpToHead
  <2>2. Offset(d) \in Nat /\ Len(frames) \in Nat
    BY <1>3, <1>7, OffsetType, Sizes
  <2>3. CASE d = RDH
    <3>1. Offset(d)' < Len(frames')
      BY <1>3, <1>4, <1>10, <2>2, <2>3
    <3>2. QED
      BY <1>1, <2>3, <3>1 DEF TypeOK
  <2>4. CASE d # RDH
    <3>1. Offset(d) # Len(frames)
      BY <1>2, <1>3, <2>4, Sizes, DistInjective
    <3>2. QED
      BY <1>1, <1>4, <1>10, <2>1, <2>2, <2>4, <3>1 DEF TypeOK
  <2>5. QED
    BY <2>3, <2>4
<1>13. ASSUME NEW k \in 1 .. Len(frames')
       PROVE  Offset(frames[k])' = k - 1
  <2>1. Len(frames) \in Nat
    BY <1>3, <1>7
  <2>2. CASE k = Len(frames) + 1
    BY <1>1, <1>3, <1>10, <2>1, <2>2
  <2>3. CASE k \in 1 .. Len(frames)
    BY <1>1, <1>10, <2>3 DEF FilledUpToHead
  <2>4. QED
    BY <1>10, <2>1, <2>2, <2>3
<1>14. QED
  BY <1>11, <1>12, <1>13 DEF FilledUpToHead

(* The first posted buffer goes back with its frame: everything else is    *)
(* one nearer.                                                             *)
LEMMA IndicateKeepsOrder ==
    ASSUME TypeOK, HeadBeforeTail, FilledUpToHead, RxIndicateReceives
    PROVE  HeadBeforeTail' /\ FilledUpToHead'
<1> USE DEF Offset
<1>1. /\ fr.BeginIndex # fr.NextIndex /\ rxd[fr.BeginIndex] = "DD"
      /\ fr'.BeginIndex = Inc(fr.BeginIndex, RingSize)
      /\ fr'.NextIndex = fr.NextIndex
      /\ UNCHANGED <<rxd, RDH, RDT>>
      /\ frames' = IF frames = << >> THEN frames ELSE Tail(frames)
  BY DEF RxIndicateReceives, CanIndicate, TypeOK, RingType
<1>2. /\ RDH \in 0 .. RingSize - 1
      /\ fr.BeginIndex \in 0 .. RingSize - 1 /\ fr.NextIndex \in 0 .. RingSize - 1
  BY Indices
<1>3. /\ Inc(RDT, RingSize) = fr.NextIndex
      /\ Offset(RDH) = Len(frames) /\ Len(frames) < Offset(fr.NextIndex)
  BY <1>1 DEF HeadBeforeTail
<1>4. /\ \A i \in 0 .. RingSize - 1 : Offset(i) \in Nat /\ Offset(i) < RingSize
      /\ Offset(RDH) \in Nat /\ Offset(fr.NextIndex) \in Nat
      /\ Offset(fr.NextIndex) < RingSize
  BY <1>2, OffsetType, Sizes
<1>5. Len(frames) \in Nat /\ frames \in Seq(0 .. RingSize - 1)
  BY <1>2, <1>3, <1>4, Sizes DEF TypeOK
<1>6. Len(frames) > 0
  <2>1. Offset(fr.BeginIndex) = 0
    BY <1>2, OffsetType, Sizes
  <2>2. QED
    BY <1>1, <1>2, <1>3, <1>5, <2>1, Sizes DEF FilledUpToHead
<1>7. /\ frames' \in Seq(0 .. RingSize - 1) /\ Len(frames') = Len(frames) - 1
      /\ \A k \in 1 .. Len(frames') : frames'[k] = frames[k + 1]
  <2>1. frames # << >>
    BY <1>6, EmptySeq
  <2>2. QED
    BY <1>1, <1>5, <2>1, HeadTailProperties
<1>8. \A i \in 0 .. RingSize - 1 : i # fr.BeginIndex => Offset(i)' = Offset(i) - 1
  BY <1>1, <1>2, Sizes, DistNext
<1>9. RDH # fr.BeginIndex
  BY <1>2, <1>3, <1>4, <1>5, <1>6, OffsetType
<1>10. /\ Offset(RDH)' = Offset(RDH) - 1
       /\ Offset(fr.NextIndex)' = Offset(fr.NextIndex) - 1
  BY <1>1, <1>2, <1>8, <1>9, Sizes
<1>11. fr'.BeginIndex # fr'.NextIndex
  <2>1. Dist(fr'.BeginIndex, fr.NextIndex, RingSize) # 0
    BY <1>1, <1>3, <1>4, <1>5, <1>6, <1>10
  <2>2. Dist(fr.NextIndex, fr.NextIndex, RingSize) = 0
    BY <1>2, Sizes, DistType
  <2>3. QED
    BY <1>1, <2>1, <2>2
<1>12. HeadBeforeTail'
  BY <1>1, <1>3, <1>4, <1>5, <1>7, <1>10, <1>11 DEF HeadBeforeTail
<1>13. ASSUME NEW d \in 0 .. RingSize - 1, Offset(d)' < Offset(fr.NextIndex)'
       PROVE  rxd'[d] = IF Offset(d)' < Len(frames') THEN "DD" ELSE "posted"
  <2>1. d # fr.BeginIndex
    <3>1. Dist(Inc(fr.BeginIndex, RingSize), fr.BeginIndex, RingSize) = RingSize - 1
      BY <1>2, Sizes DEF Dist, Inc
    <3>2. Offset(fr.NextIndex)' < RingSize - 1
      BY <1>4, <1>10, Sizes
    <3>3. d = fr.BeginIndex => Offset(d)' = RingSize - 1
      BY <1>1, <3>1
    <3>4. Offset(fr.NextIndex)' \in Int
      BY <1>4, <1>10
    <3>5. QED
      BY <1>13, <3>2, <3>3, <3>4, Sizes
  <2>2. Offset(d)' = Offset(d) - 1
    BY <1>8, <2>1
  <2>3. QED
    BY <1>1, <1>3, <1>4, <1>5, <1>7, <1>10, <1>13, <2>2 DEF FilledUpToHead
<1>14. ASSUME NEW k \in 1 .. Len(frames')
       PROVE  Offset(frames[k])' = k - 1
  <2>1. k + 1 \in 1 .. Len(frames) /\ frames'[k] = frames[k + 1]
    BY <1>5, <1>7
  <2>2. Offset(frames[k + 1]) = k /\ frames[k + 1] \in 0 .. RingSize - 1
    <3>1. Offset(frames[k + 1]) = (k + 1) - 1
      BY <2>1 DEF FilledUpToHead
    <3>2. frames[k + 1] \in 0 .. RingSize - 1
      BY <1>5, <2>1, ElementOfSeq
    <3>3. k \in Nat
      BY <1>5, <1>7
    <3>4. QED
      BY <3>1, <3>2, <3>3
  <2>3. frames[k + 1] # fr.BeginIndex
    BY <2>2, OffsetType
  <2>4. QED
    BY <1>8, <2>1, <2>2, <2>3
<1>15. QED
  BY <1>12, <1>13, <1>14 DEF FilledUpToHead

(* One more buffer is posted behind the others, and the tail names it. *)
LEMMA PostKeepsOrder ==
    ASSUME TypeOK, HeadBeforeTail, FilledUpToHead, RxPostBuffers,
           Offset(fr.NextIndex) < Offset(fr.EndIndex)
    PROVE  HeadBeforeTail' /\ FilledUpToHead'
<1> USE DEF Offset
<1>1. /\ rxd' = [rxd EXCEPT ![fr.NextIndex] = "posted"]
      /\ RDT' = fr.NextIndex
      /\ fr'.BeginIndex = fr.BeginIndex
      /\ fr'.NextIndex = Inc(fr.NextIndex, RingSize)
      /\ UNCHANGED <<RDH, frames>>
  BY DEF RxPostBuffers, IgbPostRxDescriptor, NewTail, TypeOK, RingType
<1>2. /\ fr.BeginIndex \in 0 .. RingSize - 1 /\ fr.NextIndex \in 0 .. RingSize - 1
      /\ fr.EndIndex \in 0 .. RingSize - 1 /\ RDH \in 0 .. RingSize - 1
      /\ rxd \in [0 .. RingSize - 1 -> {"zero", "posted", "DD"}]
  BY Indices
<1>3. /\ Offset(RDH) = Len(frames)
      /\ Len(frames) <= Offset(fr.NextIndex)
  <2>1. Offset(fr.BeginIndex) = 0
    BY <1>2, OffsetType
  <2>2. fr.BeginIndex = fr.NextIndex => Len(frames) = 0
    BY DEF HeadBeforeTail
  <2>3. QED
    BY <1>2, <2>1, <2>2, OffsetType DEF HeadBeforeTail
<1>4. /\ \A i \in 0 .. RingSize - 1 : Offset(i) \in Nat /\ Offset(i) < RingSize
      /\ Len(frames) \in Nat
      /\ Offset(fr.NextIndex) \in Nat /\ Offset(fr.EndIndex) \in Nat
      /\ Offset(fr.EndIndex) < RingSize
  BY <1>2, <1>3, OffsetType
<1>5. Offset(fr.NextIndex) + 1 < RingSize
  BY <1>4, Sizes
<1>6. Offset(fr.NextIndex)' = Offset(fr.NextIndex) + 1
  BY <1>1, <1>2, <1>4, <1>5, Sizes, DistInc
<1>7. fr'.BeginIndex # fr'.NextIndex
  <2>1. Dist(fr'.BeginIndex, fr'.NextIndex, RingSize) # 0
    BY <1>4, <1>6
  <2>2. Dist(fr.BeginIndex, fr.BeginIndex, RingSize) = 0
    BY <1>2, Sizes, DistType
  <2>3. QED
    BY <1>1, <2>1, <2>2
<1>8. HeadBeforeTail'
  BY <1>1, <1>3, <1>4, <1>5, <1>6, <1>7 DEF HeadBeforeTail
<1>9. ASSUME NEW d \in 0 .. RingSize - 1, Offset(d)' < Offset(fr.NextIndex)'
      PROVE  rxd'[d] = IF Offset(d)' < Len(frames') THEN "DD" ELSE "posted"
  <2>1. Offset(d)' = Offset(d) /\ Len(frames') = Len(frames) /\ Offset(d) \in Nat
    BY <1>1, <1>4
  <2>2. CASE d = fr.NextIndex
    <3>1. rxd'[d] = "posted" /\ ~(Offset(d) < Len(frames))
      BY <1>1, <1>2, <1>3, <1>4, <2>2
    <3>2. QED
      BY <2>1, <3>1
  <2>3. CASE d # fr.NextIndex
    <3>1. Offset(d) # Offset(fr.NextIndex)
      BY <1>2, <2>3, Sizes, DistInjective
    <3>2. Offset(d) < Offset(fr.NextIndex)
      BY <1>4, <1>6, <1>9, <2>1, <3>1
    <3>3. rxd[d] = IF Offset(d) < Len(frames) THEN "DD" ELSE "posted"
      BY <3>2 DEF FilledUpToHead
    <3>4. QED
      BY <1>1, <1>2, <2>1, <2>3, <3>3
  <2>4. QED
    BY <2>2, <2>3
<1>10. ASSUME NEW k \in 1 .. Len(frames)
       PROVE  Offset(frames[k])' = k - 1
  BY <1>1 DEF FilledUpToHead
<1>11. QED
  BY <1>1, <1>8, <1>9, <1>10 DEF FilledUpToHead

(* A buffer is posted only if one was given that was not.                  *)
LEMMA NextIsShort ==
    ASSUME TypeOK, PostedWereGiven, phase = "started", RxPostBuffers
    PROVE  Offset(fr.NextIndex) < Offset(fr.EndIndex)
<1>1. /\ fr.BeginIndex \in 0 .. RingSize - 1 /\ fr.NextIndex \in 0 .. RingSize - 1
      /\ fr.EndIndex \in 0 .. RingSize - 1 /\ fr.NextIndex # fr.EndIndex
  BY Indices DEF RxPostBuffers
<1>2. Offset(fr.NextIndex) # Offset(fr.EndIndex)
  BY <1>1, Sizes, DistInjective DEF Offset
<1>3. QED
  BY <1>1, <1>2, OffsetType DEF PostedWereGiven

LEMMA PostedWereGivenKept ==
    ASSUME TypeOK, LifeCycle, PostedWereGiven, [Next]_vars
    PROVE  PostedWereGiven'
<1> SUFFICES ASSUME phase' = "started"
             PROVE  Offset(fr.NextIndex)' <= Offset(fr.EndIndex)'
  BY DEF PostedWereGiven
<1> USE DEF Offset
<1>1. /\ fr.BeginIndex \in 0 .. RingSize - 1 /\ fr.NextIndex \in 0 .. RingSize - 1
      /\ fr.EndIndex \in 0 .. RingSize - 1
  BY Indices
<1>2. /\ Offset(fr.NextIndex) \in Nat /\ Offset(fr.EndIndex) \in Nat
      /\ Offset(fr.NextIndex) < RingSize /\ Offset(fr.EndIndex) < RingSize
  BY <1>1, OffsetType
<1>3. CASE EvtRxQueueStart
  BY <1>3 DEF EvtRxQueueStart, EmptyRing, Dist
<1>4. CASE ~EvtRxQueueStart
  <2>1. phase = "started"
    BY <1>4 DEF Next, AdvanceStep, EvtAdapterCreateRxQueue, EvtRxQueueCancel,
       EvtRxQueueStop, EvtRxQueueDestroy, ClientAddsPacket, ClientAddsBuffer, DeviceReceives,
       DeviceQuiesces, EvtRxQueueAdvance, RxIndicateReceives, RxIndicateReceivesEnds,
       RxPostBuffers, RxPostBuffersEnds, EvtRxQueueCancelReturns, vars
  <2>2. Offset(fr.NextIndex) <= Offset(fr.EndIndex)
    BY <2>1 DEF PostedWereGiven
  <2>3. CASE ClientAddsBuffer
    <3>1. /\ fr'.BeginIndex = fr.BeginIndex /\ fr'.NextIndex = fr.NextIndex
          /\ fr'.EndIndex = Inc(fr.EndIndex, RingSize)
          /\ Inc(fr.EndIndex, RingSize) # fr.BeginIndex
      BY <2>3 DEF ClientAddsBuffer, TypeOK, RingType
    <3>2. Offset(fr.EndIndex)' = Offset(fr.EndIndex) + 1
      BY <1>1, <3>1, Sizes, DistInc
    <3>3. QED
      BY <1>2, <2>2, <3>1, <3>2
  <2>4. CASE RxIndicateReceives
    <3>1. /\ fr.BeginIndex # fr.NextIndex
          /\ fr'.BeginIndex = Inc(fr.BeginIndex, RingSize)
          /\ fr'.NextIndex = fr.NextIndex /\ fr'.EndIndex = fr.EndIndex
      BY <2>4 DEF RxIndicateReceives, CanIndicate, TypeOK, RingType
    <3>2. fr.BeginIndex # fr.EndIndex
      BY <1>1, <1>2, <2>2, <3>1, OffsetType
    <3>3. /\ Offset(fr.NextIndex)' = Offset(fr.NextIndex) - 1
          /\ Offset(fr.EndIndex)' = Offset(fr.EndIndex) - 1
      BY <1>1, <3>1, <3>2, Sizes, DistNext
    <3>4. QED
      BY <1>2, <2>2, <3>3
  <2>5. CASE RxPostBuffers
    <3>1. /\ fr'.BeginIndex = fr.BeginIndex /\ fr'.EndIndex = fr.EndIndex
          /\ fr'.NextIndex = Inc(fr.NextIndex, RingSize)
      BY <2>5 DEF RxPostBuffers, TypeOK, RingType
    <3>2. Offset(fr.NextIndex) < Offset(fr.EndIndex)
      BY <2>1, <2>5, NextIsShort
    <3>3. Offset(fr.NextIndex)' = Offset(fr.NextIndex) + 1
      <4>1. Offset(fr.NextIndex) + 1 < RingSize
        BY <1>2, <3>2, Sizes
      <4>2. QED
        BY <1>1, <3>1, <4>1, Sizes, DistInc
    <3>4. QED
      BY <1>2, <3>1, <3>2, <3>3
  <2>6. CASE \/ EvtRxQueueCancel \/ ClientAddsPacket \/ DeviceReceives \/ DeviceQuiesces
             \/ EvtRxQueueAdvance \/ RxIndicateReceivesEnds \/ RxPostBuffersEnds
             \/ UNCHANGED vars
    <3>1. fr' = fr
      BY <2>6 DEF EvtRxQueueCancel, ClientAddsPacket, DeviceReceives, DeviceQuiesces,
                  EvtRxQueueAdvance, RxIndicateReceivesEnds, RxPostBuffersEnds, vars, device
    <3>2. QED
      BY <2>2, <3>1
  <2>7. QED
    BY <1>4, <2>3, <2>4, <2>5, <2>6
       DEF Next, AdvanceStep, EvtAdapterCreateRxQueue, EvtRxQueueStop, EvtRxQueueDestroy,
           EvtRxQueueCancelReturns
<1>5. QED
  BY <1>3, <1>4

LEMMA StaysStarted ==
    ASSUME [Next]_vars, phase' = "started", ~EvtRxQueueStart
    PROVE  phase = "started"
BY DEF Next, AdvanceStep, EvtAdapterCreateRxQueue, EvtRxQueueCancel,
   EvtRxQueueStop, EvtRxQueueDestroy, ClientAddsPacket, ClientAddsBuffer, DeviceReceives,
   DeviceQuiesces, EvtRxQueueAdvance, RxIndicateReceives, RxIndicateReceivesEnds,
   RxPostBuffers, RxPostBuffersEnds, EvtRxQueueCancelReturns, vars

(* A frame that came too early is forgotten only at the next start.        *)
LEMMA EarlyStays ==
    ASSUME [Next]_vars, ~early', ~EvtRxQueueStart
    PROVE  ~early
<1>1. CASE DeviceReceives
  BY <1>1 DEF DeviceReceives
<1>2. CASE ~DeviceReceives
  BY <1>2 DEF Next, AdvanceStep, EvtAdapterCreateRxQueue, EvtRxQueueCancel, EvtRxQueueStop,
     EvtRxQueueDestroy, ClientAddsPacket, ClientAddsBuffer, DeviceQuiesces,
     EvtRxQueueAdvance, RxIndicateReceives, RxIndicateReceivesEnds, RxPostBuffers,
     RxPostBuffersEnds, EvtRxQueueCancelReturns, device, vars
<1>3. QED
  BY <1>1, <1>2

LEMMA NextInvariant ==
    ASSUME Invariant, [Next]_vars
    PROVE  Invariant'
<1>1. TypeOK /\ LifeCycle /\ PostedWereGiven
  BY DEF Invariant
<1>2. TypeOK' /\ LifeCycle' /\ PostedWereGiven'
  BY <1>1, NextTypeOK, LifeCycleKept, PostedWereGivenKept
<1>3. ASSUME phase' = "started", ~early' PROVE HeadBeforeTail' /\ FilledUpToHead'
  <2>1. CASE EvtRxQueueStart
    BY <1>1, <2>1, StartOrders
  <2>2. CASE ~EvtRxQueueStart
    <3>1. phase = "started" /\ ~early
      BY <1>1, <1>3, <2>2, StaysStarted, EarlyStays
    <3>2. HeadBeforeTail /\ FilledUpToHead
      BY <3>1 DEF Invariant
    <3>3. CASE \/ EvtRxQueueCancel \/ ClientAddsPacket \/ DeviceQuiesces \/ EvtRxQueueAdvance
               \/ RxIndicateReceivesEnds \/ RxPostBuffersEnds \/ UNCHANGED vars
      <4>1. UNCHANGED <<fr, rxd, RDH, RDT, frames>>
        BY <3>3 DEF EvtRxQueueCancel, ClientAddsPacket, DeviceQuiesces, EvtRxQueueAdvance,
                    RxIndicateReceivesEnds, RxPostBuffersEnds, vars, device
      <4>2. QED
        BY <3>2, <4>1, OrderUntouched
    <3>4. CASE ClientAddsBuffer
      BY <1>1, <3>2, <3>4, AddBufferKeepsOrder
    <3>5. CASE DeviceReceives
      BY <1>1, <1>3, <3>2, <3>5, ReceiveKeepsOrder
    <3>6. CASE RxIndicateReceives
      BY <1>1, <3>2, <3>6, IndicateKeepsOrder
    <3>7. CASE RxPostBuffers
      BY <1>1, <3>1, <3>2, <3>7, NextIsShort, PostKeepsOrder
    <3>8. QED
      BY <1>3, <2>2, <3>1, <3>3, <3>4, <3>5, <3>6, <3>7
         DEF Next, AdvanceStep, EvtAdapterCreateRxQueue, EvtRxQueueStop, EvtRxQueueDestroy,
             EvtRxQueueCancelReturns
  <2>3. QED
    BY <2>1, <2>2
<1>4. QED
  BY <1>2, <1>3 DEF Invariant

LEMMA InitInvariant == Init => Invariant
<1>1. Init => LifeCycle /\ phase # "started"
  BY DEF Init, LifeCycle, EmptyRing
<1>2. QED
  BY <1>1, InitTypeOK DEF Invariant, PostedWereGiven
-----------------------------------------------------------------------------
(* The properties. *)

LEMMA PostedIsNear ==
    ASSUME NEW d
    PROVE  Posted(d) <=> Offset(d) < Offset(fr.NextIndex)
BY DEF Posted, Within, Offset

LEMMA InvariantOrders == Invariant => FilledInOrder
<1> SUFFICES ASSUME Invariant, phase = "started", ~early
             PROVE  /\ {d \in Descriptors : Posted(d) /\ rxd[d] = "DD"}
                         = {frames[k] : k \in 1 .. Len(frames)}
                    /\ \A k \in 1 .. Len(frames) :
                         frames[k] = Wrap(fr.BeginIndex + (k - 1), RingSize)
  BY DEF FilledInOrder
<1>1. TypeOK /\ HeadBeforeTail /\ FilledUpToHead
  BY DEF Invariant
<1>2. /\ fr.BeginIndex \in 0 .. RingSize - 1 /\ fr.NextIndex \in 0 .. RingSize - 1
      /\ RDH \in 0 .. RingSize - 1 /\ frames \in Seq(0 .. RingSize - 1)
  BY <1>1, Indices
<1>3. /\ Len(frames) \in Nat /\ Offset(fr.NextIndex) \in Nat
      /\ Len(frames) <= Offset(fr.NextIndex)
  <2>1. fr.BeginIndex = fr.NextIndex => Len(frames) = 0
    BY <1>1 DEF HeadBeforeTail
  <2>2. Offset(RDH) = Len(frames) /\ Offset(RDH) \in Nat /\ Offset(fr.NextIndex) \in Nat
    BY <1>1, <1>2, OffsetType DEF HeadBeforeTail
  <2>3. QED
    BY <1>1, <2>1, <2>2 DEF HeadBeforeTail
<1>4. ASSUME NEW k \in 1 .. Len(frames)
      PROVE  /\ frames[k] \in 0 .. RingSize - 1 /\ Offset(frames[k]) = k - 1 /\ k \in Nat
             /\ frames[k] = Wrap(fr.BeginIndex + (k - 1), RingSize)
  <2>1. frames[k] \in 0 .. RingSize - 1
    BY <1>2, ElementOfSeq
  <2>2. Offset(frames[k]) = k - 1
    BY <1>1 DEF FilledUpToHead
  <2>3. frames[k] = Wrap(fr.BeginIndex + Offset(frames[k]), RingSize)
    BY <1>2, <2>1, Sizes, DistWrap DEF Offset
  <2>4. QED
    BY <1>3, <2>1, <2>2, <2>3
<1>5. ASSUME NEW d \in Descriptors, Posted(d), rxd[d] = "DD"
      PROVE  d \in {frames[k] : k \in 1 .. Len(frames)}
  <2>1. Offset(d) < Offset(fr.NextIndex)
    BY <1>5, PostedIsNear
  <2>2. d \in 0 .. RingSize - 1 /\ Offset(d) \in Nat
    BY <1>1, Sizes, OffsetType
  <2>3. Offset(d) < Len(frames)
    BY <1>1, <1>5, <2>1, <2>2 DEF FilledUpToHead
  <2>4. PICK k \in 1 .. Len(frames) : k = Offset(d) + 1
    BY <1>3, <2>2, <2>3
  <2>5. Offset(frames[k]) = Offset(d) /\ frames[k] \in 0 .. RingSize - 1
    BY <1>4, <2>2, <2>4
  <2>6. frames[k] = d
    BY <1>2, <2>2, <2>5, Sizes, DistInjective DEF Offset
  <2>7. QED
    BY <2>6
<1>6. ASSUME NEW k \in 1 .. Len(frames)
      PROVE  frames[k] \in {d \in Descriptors : Posted(d) /\ rxd[d] = "DD"}
  <2>1. Offset(frames[k]) < Len(frames) /\ frames[k] \in 0 .. RingSize - 1
    BY <1>3, <1>4
  <2>2. Offset(frames[k]) < Offset(fr.NextIndex)
    BY <1>3, <1>4, <2>1
  <2>3. rxd[frames[k]] = "DD"
    BY <1>1, <2>1, <2>2 DEF FilledUpToHead
  <2>4. QED
    BY <2>1, <2>2, <2>3, PostedIsNear, Sizes
<1>7. QED
  BY <1>4, <1>5, <1>6

LEMMA InvariantExposesPosted == Invariant => DeviceHasOnlyPosted
<1> SUFFICES ASSUME Invariant, rxUnit = "on", ~early, NEW c \in Descriptors, rxd[c] # "zero",
                    NEW d \in Descriptors, Within(d, RDH, RDT, NumRxDesc)
             PROVE  Posted(d) /\ rxd[d] = "posted"
  BY DEF DeviceHasOnlyPosted
<1>1. TypeOK /\ HeadBeforeTail /\ FilledUpToHead
  BY DEF Invariant, LifeCycle
<1>2. /\ fr.BeginIndex \in 0 .. RingSize - 1 /\ fr.NextIndex \in 0 .. RingSize - 1
      /\ RDH \in 0 .. RingSize - 1 /\ RDT \in 0 .. RingSize - 1
      /\ d \in 0 .. RingSize - 1 /\ c \in 0 .. RingSize - 1
  BY <1>1, Indices, Sizes
<1>3. /\ fr.BeginIndex # fr.NextIndex /\ Inc(RDT, RingSize) = fr.NextIndex
      /\ Offset(RDH) = Len(frames) /\ Len(frames) < Offset(fr.NextIndex)
  BY <1>1, <1>2 DEF HeadBeforeTail
<1>4. Offset(RDT) = Offset(fr.NextIndex) - 1
  BY <1>2, <1>3, Sizes, DistBefore DEF Offset
<1>5. Dist(RDH, d, RingSize) < Dist(RDH, RDT, RingSize)
  BY Sizes DEF Within
<1>6. /\ Offset(d) \in Nat /\ Offset(d) < RingSize
      /\ Offset(RDH) \in Nat /\ Offset(RDH) < RingSize
      /\ Offset(RDT) \in Nat /\ Offset(RDT) < RingSize
      /\ Offset(fr.NextIndex) \in Nat
  BY <1>1, <1>2, OffsetType
<1>7. Offset(RDH) <= Offset(d) /\ Offset(d) < Offset(fr.NextIndex)
  <2>1. Dist(RDH, RDT, RingSize) = Offset(RDT) - Offset(RDH)
    <3>1. Offset(RDH) <= Offset(RDT)
      BY <1>3, <1>4, <1>6
    <3>2. QED
      BY <1>2, <3>1, Sizes, DistShift DEF Offset
  <2>2. \/ Offset(RDH) <= Offset(d) /\ Dist(RDH, d, RingSize) = Offset(d) - Offset(RDH)
        \/ Dist(RDH, d, RingSize) = (Offset(d) - Offset(RDH)) + RingSize
    BY <1>2, <1>6, Sizes, DistShift DEF Offset
  <2>3. QED
    BY <1>4, <1>5, <1>6, <2>1, <2>2, Sizes
<1>8. rxd[d] = "posted"
  BY <1>1, <1>2, <1>3, <1>6, <1>7 DEF FilledUpToHead
<1>9. QED
  BY <1>7, <1>8, PostedIsNear

LEMMA FragmentForPacket == TypeOK /\ LifeCycle /\ PostedWereGiven => FragmentAvailable
<1> SUFFICES ASSUME TypeOK, LifeCycle, PostedWereGiven,
                    pc \in {"indicate", "cancel"}, CanIndicate, fr.BeginIndex = fr.EndIndex
             PROVE  FALSE
  BY DEF FragmentAvailable
<1>1. phase = "started"
  BY DEF LifeCycle, CanIndicate
<1>2. /\ fr.BeginIndex \in 0 .. RingSize - 1 /\ fr.NextIndex \in 0 .. RingSize - 1
      /\ fr.EndIndex \in 0 .. RingSize - 1
  BY Indices
<1>3. Offset(fr.EndIndex) = 0 /\ Offset(fr.NextIndex) # 0 /\ Offset(fr.NextIndex) \in Nat
  BY <1>2, OffsetType DEF CanIndicate
<1>4. QED
  BY <1>1, <1>3 DEF PostedWereGiven

(* In a queue of any size, until a frame comes before the first buffer and *)
(* again from the next start, what the loop of RxIndicateReceives finds at *)
(* fr->BeginIndex is what the device filled, in the order it did: the      *)
(* zeroing by IgbPostRxDescriptor and the tail that stays one short keep   *)
(* old DD bits out of its reach.                                           *)
THEOREM IndicatedInOrder == Spec => []FilledInOrder
<1>1. QED
  BY InitInvariant, NextInvariant, InvariantOrders, PTL DEF Spec

(* The tail RxPostBuffers writes never gives the device a descriptor that  *)
(* was not posted or was filled already, whatever the size of the ring,    *)
(* until a frame comes before the first buffer and again from the next     *)
(* start.                                                                  *)
THEOREM OnlyPostedGiven == Spec => []DeviceHasOnlyPosted
<1>1. QED
  BY InitInvariant, NextInvariant, InvariantExposesPosted, PTL DEF Spec

(* The assertion of RxIndicateReceives on the fragment ring holds, in a    *)
(* started queue and in one that was canceled with frames on their way.    *)
THEOREM AssertionHolds == Spec => []FragmentAvailable
<1>1. Init => TypeOK /\ LifeCycle /\ PostedWereGiven
  BY InitInvariant DEF Invariant
<1>2. TypeOK /\ LifeCycle /\ PostedWereGiven /\ [Next]_vars
        => (TypeOK /\ LifeCycle /\ PostedWereGiven)'
  BY NextTypeOK, LifeCycleKept, PostedWereGivenKept
<1>3. QED
  BY <1>1, <1>2, FragmentForPacket, PTL DEF Spec
-----------------------------------------------------------------------------
(***************************************************************************)
(* The queue as HandOver: with the invariant before and after it, a step   *)
(* is one of HandOver's or leaves what the client has handed over alone.   *)
(***************************************************************************)
ItemType == [skip: BOOLEAN, uses: 0 .. 1]
Held == InOrder(Buffers, fr, RingSize)

(* A queue that is not started has given everything back.                  *)
HoldsNothing == phase # "started" => fr.BeginIndex = fr.EndIndex

LEMMA HoldsNothingKept ==
    ASSUME TypeOK, LifeCycle, HoldsNothing, [Next]_vars, phase' # "started"
    PROVE  HoldsNothing'
<1>1. CASE EvtRxQueueCancelReturns
  BY <1>1 DEF EvtRxQueueCancelReturns, HoldsNothing, TypeOK, RingType
<1>2. CASE ~EvtRxQueueCancelReturns
  <2>1. phase # "started"
    BY <1>2 DEF Next, AdvanceStep, EvtAdapterCreateRxQueue, EvtRxQueueStart, EvtRxQueueCancel,
       EvtRxQueueStop, EvtRxQueueDestroy, ClientAddsPacket, ClientAddsBuffer, DeviceReceives,
       DeviceQuiesces, EvtRxQueueAdvance, RxIndicateReceives, RxIndicateReceivesEnds,
       RxPostBuffers, RxPostBuffersEnds, vars
  <2>2. fr'.BeginIndex = fr.BeginIndex /\ fr'.EndIndex = fr.EndIndex
    <3>1. CASE RxPostBuffers
      BY <3>1 DEF RxPostBuffers, TypeOK, RingType
    <3>2. ~RxIndicateReceives
      BY <2>1 DEF RxIndicateReceives, CanIndicate, LifeCycle
    <3>3. CASE ~RxPostBuffers
      BY <1>2, <2>1, <3>2, <3>3
         DEF Next, AdvanceStep, EvtAdapterCreateRxQueue, EvtRxQueueStart, EvtRxQueueCancel,
             EvtRxQueueStop, EvtRxQueueDestroy, ClientAddsPacket, ClientAddsBuffer,
             DeviceReceives, DeviceQuiesces, EvtRxQueueAdvance, RxIndicateReceivesEnds,
             RxPostBuffersEnds, vars, device
    <3>4. QED
      BY <3>1, <3>3
  <2>3. QED
    BY <2>1, <2>2 DEF HoldsNothing
<1>3. QED
  BY <1>1, <1>2

(* A buffer the driver holds has one frame or none: one if the head has    *)
(* passed its descriptor.                                                  *)
Frames(i) == IF Offset(i) < Len(frames) THEN 1 ELSE 0

LEMMA FillsOnce ==
    Invariant /\ phase = "started" /\ ~early
      => \A i \in 0 .. RingSize - 1 : Fills(i) = Frames(i)
<1> SUFFICES ASSUME Invariant, phase = "started", ~early, NEW i \in 0 .. RingSize - 1
             PROVE  Fills(i) = Frames(i)
  OBVIOUS
<1> DEFINE filling == {k \in 1 .. Len(frames) : frames[k] = i}
<1>1. TypeOK /\ FilledUpToHead
  BY DEF Invariant
<1>2. /\ fr.BeginIndex \in 0 .. RingSize - 1 /\ frames \in Seq(0 .. RingSize - 1)
      /\ Len(frames) \in Nat /\ Offset(i) \in Nat
  BY <1>1, Indices, OffsetType, LenProperties
<1>3. ASSUME NEW k \in 1 .. Len(frames)
      PROVE  frames[k] = i <=> k = Offset(i) + 1
  <2>1. frames[k] \in 0 .. RingSize - 1 /\ Offset(frames[k]) = k - 1
    BY <1>1, <1>2, ElementOfSeq DEF FilledUpToHead
  <2>2. frames[k] = i => k = Offset(i) + 1
    BY <1>2, <2>1
  <2>3. k = Offset(i) + 1 => Offset(frames[k]) = Offset(i)
    BY <1>2, <2>1
  <2>4. Offset(frames[k]) = Offset(i) => frames[k] = i
    BY <1>2, <2>1, Sizes, DistInjective DEF Offset
  <2>5. QED
    BY <2>2, <2>3, <2>4
<1>4. CASE Offset(i) < Len(frames)
  <2>1. filling = {Offset(i) + 1}
    BY <1>2, <1>3, <1>4
  <2>2. Cardinality(filling) = 1
    BY <2>1, FS_Singleton
  <2>3. QED
    BY <1>4, <2>2 DEF Fills, Frames
<1>5. CASE ~(Offset(i) < Len(frames))
  <2>1. filling = {}
    BY <1>2, <1>3, <1>5
  <2>2. Cardinality(filling) = 0
    BY <2>1, FS_EmptySet
  <2>3. QED
    BY <1>5, <2>2 DEF Fills, Frames
<1>6. QED
  BY <1>4, <1>5

OnceFilled ==
    phase = "started" /\ ~early =>
        \A i \in 0 .. RingSize - 1 :
            /\ Buffers[i] = [skip |-> FALSE, uses |-> Frames(i)]
            /\ Buffers[i] \in ItemType

LEMMA BuffersOnceFilled == Invariant => OnceFilled
<1> SUFFICES ASSUME Invariant, phase = "started", ~early, NEW i \in 0 .. RingSize - 1
             PROVE  /\ Buffers[i] = [skip |-> FALSE, uses |-> Frames(i)]
                    /\ Buffers[i] \in ItemType
  BY DEF OnceFilled
<1>1. Fills(i) = Frames(i)
  BY FillsOnce
<1>2. Frames(i) \in 0 .. 1
  BY DEF Frames
<1>3. Buffers[i] = [skip |-> FALSE, uses |-> Fills(i)]
  BY DEF Buffers
<1>4. QED
  BY <1>1, <1>2, <1>3 DEF ItemType

LEMMA BuffersOnceFilledAfter == Invariant' => OnceFilled'
BY BuffersOnceFilled, PTL

LEMMA BufferIs ==
    ASSUME NEW i \in 0 .. RingSize - 1, Invariant, phase = "started", ~early
    PROVE  Buffers[i] = [skip |-> FALSE, uses |-> Frames(i)] /\ Buffers[i] \in ItemType
BY BuffersOnceFilled DEF OnceFilled

LEMMA BufferIsAfter ==
    ASSUME NEW i \in 0 .. RingSize - 1, Invariant', phase' = "started", ~early'
    PROVE  Buffers'[i] = [skip |-> FALSE, uses |-> Frames(i)'] /\ Buffers'[i] \in ItemType
BY BuffersOnceFilledAfter DEF OnceFilled

(* A buffer is the same if its frames are.                                 *)
LEMMA BufferSame ==
    ASSUME Invariant, phase = "started", ~early, Invariant', phase' = "started", ~early',
           NEW i \in 0 .. RingSize - 1, Frames(i)' = Frames(i)
    PROVE  Buffers'[i] = Buffers[i]
BY BufferIs, BufferIsAfter

(* The client's buffer is appended, empty.                                 *)
LEMMA AddBufferGives ==
    ASSUME Invariant, Invariant', ~early, ClientAddsBuffer
    PROVE  Promise!Next
<1>1. TypeOK /\ TypeOK' /\ phase = "started" /\ phase' = "started" /\ ~early'
  BY DEF Invariant, ClientAddsBuffer, device
<1>2. /\ fr'.BeginIndex = fr.BeginIndex /\ fr'.EndIndex = Inc(fr.EndIndex, RingSize)
      /\ Inc(fr.EndIndex, RingSize) # fr.BeginIndex /\ frames' = frames
      /\ fr \in RingType(RingSize) /\ fr' \in RingType(RingSize)
  BY <1>1 DEF ClientAddsBuffer, device, TypeOK, RingType
<1>3. /\ fr.BeginIndex \in 0 .. RingSize - 1 /\ fr.NextIndex \in 0 .. RingSize - 1
      /\ fr.EndIndex \in 0 .. RingSize - 1
  BY <1>1, Indices
<1>4. \A i \in 0 .. RingSize - 1 : Frames(i)' = Frames(i)
  BY <1>2 DEF Frames, Offset
<1>5. \A i \in 0 .. RingSize - 1 : Buffers'[i] = Buffers[i]
  BY <1>1, <1>4, BufferSame
<1>6. Buffers'[fr.EndIndex] = [skip |-> FALSE, uses |-> 0]
  <2>1. /\ Offset(fr.NextIndex) \in Nat /\ Offset(fr.EndIndex) \in Nat
        /\ Offset(fr.NextIndex) = 0 <=> fr.BeginIndex = fr.NextIndex
    BY <1>1, <1>3, OffsetType
  <2>2. HeadBeforeTail /\ Offset(fr.NextIndex) <= Offset(fr.EndIndex) /\ Len(frames) \in Nat
    BY <1>1, Indices, LenProperties DEF Invariant, PostedWereGiven
  <2>3. Len(frames) <= Offset(fr.NextIndex)
    BY <2>1, <2>2 DEF HeadBeforeTail
  <2>4. Frames(fr.EndIndex) = 0
    BY <2>1, <2>2, <2>3 DEF Frames
  <2>5. QED
    BY <1>1, <1>3, <1>5, <2>4, BufferIs
<1>7. Held' = Append(Held, [skip |-> FALSE, uses |-> 0])
  <2> DEFINE n == RingSize
             f == Buffers
             g == Buffers'
             next == fr'
  <2>1. /\ n \in Nat /\ n >= 2 /\ fr \in RingType(n) /\ next \in RingType(n)
        /\ next.BeginIndex = fr.BeginIndex /\ next.EndIndex = Inc(fr.EndIndex, n)
        /\ Inc(fr.EndIndex, n) # fr.BeginIndex
        /\ \A i \in 0 .. n-1 : i # fr.EndIndex => g[i] = f[i]
    BY <1>2, <1>5, Sizes
  <2> HIDE DEF n, f, g, next
  <2>2. InOrder(g, next, n) = Append(InOrder(f, fr, n), g[fr.EndIndex])
    BY <2>1, InOrderAppend
  <2>3. QED
    BY <1>6, <2>2 DEF n, f, g, next, Held
<1>8. Promise!Give(FALSE)
  BY <1>1, <1>7 DEF Promise!Give, Promise!Fresh, Held
<1>9. QED
  BY <1>8 DEF Promise!Next

(* A frame fills the first buffer that has none.                           *)
LEMMA ReceiveUses ==
    ASSUME Invariant, Invariant', DeviceReceives, phase = "started", ~early'
    PROVE  Promise!Next
<1>1. PICK h \in 0 .. RingSize - 1 : h = RDH
  BY Indices DEF Invariant
<1> DEFINE k == Len(frames) + 1
<1>2. /\ TypeOK /\ TypeOK' /\ phase' = "started" /\ ~early /\ HeadBeforeTail /\ fr' = fr
      /\ fr \in RingType(RingSize) /\ PostedWereGiven
      /\ ~ \A d \in 0 .. RingSize - 1 : rxd[d] = "zero"
  BY Sizes DEF Invariant, DeviceReceives, TypeOK
<1>3. /\ fr.BeginIndex \in 0 .. RingSize - 1 /\ fr.NextIndex \in 0 .. RingSize - 1
      /\ fr.EndIndex \in 0 .. RingSize - 1
      /\ frames \in Seq(0 .. RingSize - 1) /\ Len(frames) \in Nat
  BY <1>2, Indices, LenProperties
<1>4. Len(frames') = Len(frames) + 1
  <2>1. frames' = Append(frames, RDH)
    BY DEF DeviceReceives
  <2>2. QED
    BY <1>1, <1>3, <2>1, AppendProperties
<1>5. /\ Offset(h) = Len(frames) /\ Len(frames) < Offset(fr.NextIndex)
      /\ Offset(fr.NextIndex) <= Offset(fr.EndIndex) /\ Offset(fr.NextIndex) \in Nat
      /\ Offset(fr.EndIndex) \in Nat
  BY <1>1, <1>2, <1>3, OffsetType DEF HeadBeforeTail, PostedWereGiven
<1>6. Owned(h, fr, RingSize) /\ Len(frames) < Offset(fr.EndIndex)
  BY <1>3, <1>5 DEF Owned, Within, Offset
<1>7. /\ \A i \in 0 .. RingSize - 1 : i # h => Buffers'[i] = Buffers[i]
      /\ Buffers[h] = [skip |-> FALSE, uses |-> 0]
      /\ Buffers'[h] = [skip |-> FALSE, uses |-> 1]
  <2>1. ASSUME NEW i \in 0 .. RingSize - 1
        PROVE  Offset(i)' = Offset(i) /\ Offset(i) \in Nat
    BY <1>2, OffsetType DEF Offset
  <2>2. ASSUME NEW i \in 0 .. RingSize - 1, i # h
        PROVE  Frames(i)' = Frames(i)
    <3>1. Offset(i) # Len(frames)
      BY <1>3, <1>5, <2>2, Sizes, DistInjective DEF Offset
    <3>2. QED
      <4>1. Offset(i)' = Offset(i) /\ Offset(i) \in Nat
        BY <1>2, OffsetType DEF Offset
      <4>2. Offset(i)' < Len(frames') <=> Offset(i) < Len(frames)
        BY <1>3, <1>4, <3>1, <4>1
      <4>3. QED
        BY <4>2 DEF Frames
  <2>3. Frames(h) = 0 /\ Frames(h)' = 1
    BY <1>3, <1>4, <1>5, <2>1 DEF Frames
  <2>4. ASSUME NEW i \in 0 .. RingSize - 1, i # h
        PROVE  Buffers'[i] = Buffers[i]
    BY <1>2, <2>2, <2>4, BufferSame
  <2>5. Buffers[h] = [skip |-> FALSE, uses |-> 0]
    BY <1>2, <2>3, BufferIs
  <2>6. Buffers'[h] = [skip |-> FALSE, uses |-> 1]
    BY <1>2, <2>3, BufferIsAfter
  <2>7. QED
    BY <2>4, <2>5, <2>6
<1>8. /\ Held \in Seq(ItemType) /\ Len(Held) = Offset(fr.EndIndex)
      /\ k \in 1 .. Len(Held)
      /\ Held[k] = [skip |-> FALSE, uses |-> 0]
      /\ Held' = [Held EXCEPT ![k] = Promise!Used]
  <2> DEFINE n == RingSize
             f == Buffers
             g == Buffers'
             v == Promise!Used
  <2>1. /\ n \in Nat /\ n >= 2 /\ fr \in RingType(n) /\ h \in 0 .. n-1
        /\ Owned(h, fr, n) /\ Dist(fr.BeginIndex, h, n) + 1 = k
        /\ \A i \in 0 .. n-1 : i # h => g[i] = f[i]
        /\ g[h] = v
    BY <1>2, <1>5, <1>6, <1>7, Sizes DEF Offset, Promise!Used
  <2>2. /\ \A i \in 0 .. n-1 : f[i] \in ItemType
        /\ \A i \in 0 .. n-1 : g[i] \in ItemType
    BY <1>2, BufferIs, BufferIsAfter
  <2>3. Held = InOrder(f, fr, n) /\ Held' = InOrder(g, fr, n) /\ f[h] = Buffers[h]
    BY <1>2 DEF Held
  <2> HIDE DEF n, f, g, v, k
  <2>4. /\ InOrder(f, fr, n) \in Seq(ItemType) /\ InOrder(g, fr, n) \in Seq(ItemType)
        /\ Len(InOrder(f, fr, n)) = Dist(fr.BeginIndex, fr.EndIndex, n)
        /\ Len(InOrder(g, fr, n)) = Dist(fr.BeginIndex, fr.EndIndex, n)
    BY <2>1, <2>2, InOrderType
  <2>5. /\ k \in 1 .. Len(InOrder(f, fr, n))
        /\ InOrder(f, fr, n)[k] = f[h] /\ InOrder(g, fr, n)[k] = g[h]
    BY <2>1, InOrderAt
  <2>6. ASSUME NEW l \in 1 .. Dist(fr.BeginIndex, fr.EndIndex, n), l # k
        PROVE  InOrder(g, fr, n)[l] = InOrder(f, fr, n)[l]
    <3> DEFINE j == Wrap(fr.BeginIndex + (l - 1), n)
    <3>1. j \in 0 .. n-1 /\ Dist(fr.BeginIndex, j, n) = l - 1
      BY <2>1, InOrderIndex
    <3>2. Dist(fr.BeginIndex, h, n) # l - 1
      BY <2>1, <2>4, <2>5, <2>6
    <3>3. g[j] = f[j]
      BY <2>1, <3>1, <3>2
    <3>4. QED
      BY <3>3 DEF InOrder
  <2>7. InOrder(g, fr, n) = [InOrder(f, fr, n) EXCEPT ![k] = g[h]]
    BY <2>4, <2>5, <2>6
  <2>8. Held' = [Held EXCEPT ![k] = Promise!Used]
    BY <2>1, <2>3, <2>7 DEF v
  <2>9. Len(Held) = Offset(fr.EndIndex)
    BY <2>3, <2>4 DEF Offset, n
  <2>10. QED
    BY <1>7, <2>3, <2>4, <2>5, <2>8, <2>9
<1>9. ASSUME NEW j \in 1 .. k - 1 PROVE Promise!Settled(Held[j])
  <2> DEFINE i == Wrap(fr.BeginIndex + (j - 1), RingSize)
  <2>1. j \in 1 .. Len(frames) /\ j \in 1 .. Dist(fr.BeginIndex, fr.EndIndex, RingSize)
    BY <1>3, <1>5, <1>6, <1>9 DEF Offset
  <2>2. i \in 0 .. RingSize - 1 /\ Dist(fr.BeginIndex, i, RingSize) = j - 1
    BY <1>2, <2>1, Sizes, InOrderIndex
  <2>3. Held[j] = Buffers[i]
    BY <2>1 DEF Held, InOrder
  <2> HIDE DEF i
  <2>4. Frames(i) = 1
    BY <1>3, <2>1, <2>2 DEF Frames, Offset
  <2>5. Held[j] = [skip |-> FALSE, uses |-> 1]
    BY <1>2, <2>2, <2>3, <2>4, BufferIs
  <2>6. QED
    BY <2>5 DEF Promise!Settled
<1> HIDE DEF k
<1>10. Promise!Use(k)
  BY <1>2, <1>8, <1>9 DEF Promise!Use, Held
<1>11. QED
  BY <1>8, <1>10 DEF Promise!Next, Held

(* The first buffer goes back with its frame.                              *)
LEMMA IndicateGivesBack ==
    ASSUME Invariant, Invariant', RxIndicateReceives, phase = "started", ~early
    PROVE  Promise!Next
<1>1. PICK b \in 0 .. RingSize - 1 : b = fr.BeginIndex
  BY Indices DEF Invariant
<1>2. /\ TypeOK /\ TypeOK' /\ phase' = "started" /\ ~early' /\ HeadBeforeTail /\ FilledUpToHead
      /\ fr \in RingType(RingSize) /\ fr' \in RingType(RingSize) /\ PostedWereGiven
      /\ b # fr.NextIndex /\ rxd[b] = "DD"
      /\ fr'.BeginIndex = Inc(b, RingSize) /\ fr'.EndIndex = fr.EndIndex
  BY <1>1 DEF Invariant, RxIndicateReceives, CanIndicate, TypeOK, RingType
<1>3. /\ fr.NextIndex \in 0 .. RingSize - 1 /\ fr.EndIndex \in 0 .. RingSize - 1
      /\ frames \in Seq(0 .. RingSize - 1) /\ Len(frames) \in Nat
  BY <1>2, Indices, LenProperties
<1>4. /\ Offset(b) = 0 /\ Offset(fr.NextIndex) \in Nat /\ Offset(fr.NextIndex) # 0
      /\ Offset(fr.EndIndex) \in Nat /\ Offset(fr.NextIndex) <= Offset(fr.EndIndex)
  BY <1>1, <1>2, <1>3, OffsetType DEF PostedWereGiven
<1>5. Len(frames) > 0
  BY <1>2, <1>3, <1>4 DEF FilledUpToHead
<1>6. Len(frames') = Len(frames) - 1
  <2>1. frames # << >>
    BY <1>5
  <2>2. frames' = Tail(frames)
    BY <2>1 DEF RxIndicateReceives
  <2>3. QED
    BY <1>3, <2>1, <2>2, HeadTailProperties
<1>7. ASSUME NEW i \in 0 .. RingSize - 1, Owned(i, fr', RingSize)
      PROVE  Buffers'[i] = Buffers[i]
  <2>1. i # b
    <3>1. Dist(Inc(b, RingSize), b, RingSize) = RingSize - 1
      BY Sizes DEF Dist, Inc
    <3>2. Dist(fr'.BeginIndex, fr'.EndIndex, RingSize) \in 0 .. RingSize - 1
      BY <1>2, Sizes, DistType DEF RingType
    <3>3. QED
      BY <1>2, <1>7, <3>1, <3>2, Sizes DEF Owned, Within
  <2>2. Offset(i)' = Offset(i) - 1 /\ Offset(i) \in Nat
    BY <1>1, <1>2, <2>1, Sizes, DistNext, OffsetType DEF Offset
  <2>3. Frames(i)' = Frames(i)
    <3>1. (Offset(i) < Len(frames))' <=> (Offset(i) < Len(frames))
      BY <1>3, <1>6, <2>2
    <3>2. QED
      BY <3>1 DEF Frames
  <2>4. QED
    BY <1>2, <2>3, BufferSame
<1>8. Held' = SubSeq(Held, 2, Len(Held))
  <2> DEFINE n == RingSize
             f == Buffers
             g == Buffers'
             next == fr'
             p == 1
  <2>1. \A i \in 0 .. n-1 : Owned(i, next, n) => g[i] = f[i]
    BY <1>7
  <2>2. /\ n \in Nat /\ n >= 2 /\ fr \in RingType(n) /\ next \in RingType(n)
        /\ p \in Nat /\ p = Dist(fr.BeginIndex, next.BeginIndex, n)
        /\ p <= Dist(fr.BeginIndex, fr.EndIndex, n) /\ next.EndIndex = fr.EndIndex
    <3>1. Dist(b, Inc(b, RingSize), RingSize) = 1
      BY Sizes DEF Dist, Inc
    <3>2. 1 <= Dist(fr.BeginIndex, fr.EndIndex, RingSize)
      BY <1>4 DEF Offset
    <3>3. QED
      BY <1>1, <1>2, <3>1, <3>2, Sizes
  <2>3. p + 1 = 2
    OBVIOUS
  <2> HIDE DEF n, f, g, next, p
  <2>4. InOrder(g, next, n) = SubSeq(InOrder(f, fr, n), p + 1, Len(InOrder(f, fr, n)))
    BY <2>1, <2>2, InOrderDrop
  <2>5. QED
    BY <2>3, <2>4 DEF Held, f, g, next, n
<1>9. 1 \in 1 .. Len(Held) /\ Held[1] = [skip |-> FALSE, uses |-> 1]
  <2> DEFINE f == Buffers
             n == RingSize
  <2>1. /\ n \in Nat /\ n >= 2 /\ fr \in RingType(n) /\ b \in 0 .. n-1
        /\ Owned(b, fr, n) /\ Dist(fr.BeginIndex, b, n) + 1 = 1
    BY <1>2, <1>4, Sizes DEF Owned, Within, Offset
  <2>2. Frames(b) = 1
    BY <1>4, <1>5 DEF Frames
  <2>3. f[b] = [skip |-> FALSE, uses |-> 1] /\ Held = InOrder(f, fr, n)
    BY <2>2, BufferIs DEF Held
  <2> HIDE DEF f, n
  <2>4. 1 \in 1 .. Len(InOrder(f, fr, n)) /\ InOrder(f, fr, n)[1] = f[b]
    BY <2>1, InOrderAt
  <2>5. QED
    BY <2>3, <2>4
<1>10. Promise!GiveBack(1)
  <2>1. \A k \in 1 .. 1 : Promise!Settled(Held[k])
    BY <1>9 DEF Promise!Settled
  <2>2. QED
    BY <1>2, <1>8, <1>9, <2>1 DEF Promise!GiveBack, Held
<1>11. QED
  BY <1>9, <1>10 DEF Promise!Next, Held

(* Where the indices meet, nothing is held.                                *)
LEMMA NothingHeld ==
    ASSUME TypeOK, fr.BeginIndex = fr.EndIndex
    PROVE  Held = << >>
<1>1. fr \in RingType(RingSize)
  BY DEF TypeOK
<1>2. QED
  BY <1>1, Sizes, InOrderEmpty DEF Held

LEMMA NothingHeldAfter ==
    ASSUME TypeOK', fr'.BeginIndex = fr'.EndIndex
    PROVE  Held' = << >>
<1> DEFINE f == Buffers'
           next == fr'
<1>1. next \in RingType(RingSize) /\ next.BeginIndex = next.EndIndex
  BY DEF TypeOK
<1> HIDE DEF f, next
<1>2. InOrder(f, next, RingSize) = << >>
  BY <1>1, Sizes, InOrderEmpty
<1>3. QED
  BY <1>2 DEF Held, f, next

(* Every step of the queue after which no frame came too early is one of   *)
(* HandOver's or none.                                                     *)
LEMMA NextPromised ==
    ASSUME Invariant, HoldsNothing, Invariant', HoldsNothing', [Next]_vars, ~early'
    PROVE  Promise!Next \/ UNCHANGED Promise!vars
<1>1. TypeOK /\ TypeOK'
  BY DEF Invariant
<1>2. CASE phase # "started" /\ phase' # "started"
  <2>1. Held = << >> /\ Held' = << >>
    BY <1>1, <1>2, NothingHeld, NothingHeldAfter DEF HoldsNothing
  <2>2. QED
    BY <1>2, <2>1 DEF Promise!vars, Held
<1>3. CASE phase # "started" /\ phase' = "started"
  <2>1. EvtRxQueueStart
    BY <1>3, StaysStarted
  <2>2. Held = << >> /\ Held' = << >>
    BY <1>1, <1>3, <2>1, NothingHeld, NothingHeldAfter
       DEF EvtRxQueueStart, EmptyRing, HoldsNothing
  <2>3. Promise!Open
    BY <1>3, <2>2 DEF Promise!Open, Held
  <2>4. QED
    BY <2>3 DEF Promise!Next
<1>4. CASE phase = "started" /\ phase' # "started"
  <2>1. Held' = << >>
    BY <1>1, <1>4, NothingHeldAfter DEF HoldsNothing
  <2>2. Promise!Cancel
    BY <1>4, <2>1 DEF Promise!Cancel, Held
  <2>3. QED
    BY <2>2 DEF Promise!Next
<1>5. CASE phase = "started" /\ phase' = "started"
  <2> ~early
    BY <1>5, EarlyStays DEF EvtRxQueueStart
  <2>1. CASE ClientAddsBuffer
    BY <2>1, AddBufferGives
  <2>2. CASE DeviceReceives
    BY <1>5, <2>2, ReceiveUses
  <2>3. CASE RxIndicateReceives
    BY <1>5, <2>3, IndicateGivesBack
  <2>4. CASE \/ EvtRxQueueCancel \/ ClientAddsPacket \/ DeviceQuiesces \/ EvtRxQueueAdvance
             \/ RxIndicateReceivesEnds \/ RxPostBuffers \/ RxPostBuffersEnds \/ UNCHANGED vars
    <3>1. /\ fr'.BeginIndex = fr.BeginIndex /\ fr'.EndIndex = fr.EndIndex
          /\ frames' = frames
      BY <1>1, <2>4 DEF EvtRxQueueCancel, ClientAddsPacket, DeviceQuiesces, EvtRxQueueAdvance,
                 RxIndicateReceivesEnds, RxPostBuffers, RxPostBuffersEnds, vars, device,
                 TypeOK, RingType
    <3>2. Buffers' = Buffers
      BY <3>1 DEF Buffers, Fills
    <3>3. Held' = Held
      BY <3>1, <3>2 DEF Held, InOrder
    <3>4. QED
      BY <1>5, <3>3 DEF Promise!vars, Held
  <2>5. QED
    BY <1>5, <2>1, <2>2, <2>3, <2>4
       DEF Next, AdvanceStep, EvtAdapterCreateRxQueue, EvtRxQueueStart, EvtRxQueueStop,
           EvtRxQueueDestroy, EvtRxQueueCancelReturns
<1>6. QED
  BY <1>2, <1>3, <1>4, <1>5

(* A queue of any size implements HandOver until a frame comes before its  *)
(* first buffer, and again from its next start: buffers are filled in the  *)
(* order in which they were handed over, each with one frame, and go back  *)
(* in that order, filled, until the queue is canceled and the rest goes    *)
(* back as it is.                                                          *)
THEOREM RxQueueIsHandOver == Spec => ImplementsHandOver
<1>1. Init => HoldsNothing /\ Promise!Init
  <2> SUFFICES ASSUME Init PROVE HoldsNothing /\ Promise!Init
    OBVIOUS
  <2>1. TypeOK /\ phase # "started" /\ fr.BeginIndex = fr.EndIndex
    BY InitTypeOK DEF Init, EmptyRing
  <2>2. Held = << >>
    BY <2>1, NothingHeld
  <2>3. QED
    BY <2>1, <2>2 DEF Promise!Init, HoldsNothing, Held
<1>2. Invariant /\ HoldsNothing /\ [Next]_vars => Invariant' /\ HoldsNothing'
  <2> SUFFICES ASSUME Invariant, HoldsNothing, [Next]_vars
               PROVE  Invariant' /\ HoldsNothing'
    OBVIOUS
  <2>1. Invariant'
    BY NextInvariant
  <2>2. HoldsNothing'
    BY HoldsNothingKept DEF Invariant, HoldsNothing
  <2>3. QED
    BY <2>1, <2>2
<1>3. Invariant /\ HoldsNothing /\ Invariant' /\ HoldsNothing' /\ [Next]_vars
        => [Promise!Next \/ early']_(Promise!vars)
  BY NextPromised
<1>4. QED
  BY <1>1, <1>2, <1>3, InitInvariant, PTL DEF Spec, ImplementsHandOver
=============================================================================
