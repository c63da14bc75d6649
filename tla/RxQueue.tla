------------------------------ MODULE RxQueue ------------------------------
(***************************************************************************)
(* A receive queue of the driver (rxqueue.cpp): buffers the client puts in *)
(* the fragment ring are given to the device, one descriptor each; a       *)
(* descriptor that comes back with DD is joined to the next packet of the  *)
(* packet ring and both are returned.                                      *)
(*                                                                         *)
(* A descriptor has the index of its fragment. The two rings have one size,*)
(* as IgbRxQueueInitialize relies on: it allocates a descriptor for every  *)
(* packet and indexes them by fragment.                                    *)
(*                                                                         *)
(* The loops take one step per packet or buffer. EvtRxQueueCancel runs the *)
(* indicating loop too, while a frame may still be on its way.             *)
(***************************************************************************)
EXTENDS NetRing, Sequences, FiniteSets

CONSTANT RingSize  \* NumberOfElements of both rings

ASSUME RingSizeAssumption == RingSize \in 2 .. 4096

(* IgbRxQueueInitialize: one descriptor per fragment, at most 4096. *)
NumRxDesc == IF RingSize > 4096 THEN 4096 ELSE RingSize

VARIABLES
    phase,      \* where the client is in the life cycle of the queue
    pr,         \* the packet ring's indices
    fr,         \* the fragment ring's indices
    rxd,        \* rx->RxdBase: "zero", "posted" or written back with "DD"
    RDH, RDT,   \* head and tail registers of the queue
    rxUnit,     \* the queue's side of the device: "on", "draining", "off"
    pc,         \* what the driver executes for this queue
    frames,     \* history: the descriptors filled and not indicated, in order
    early       \* history: since the start a frame came before any buffer, after
                \* which frames is no longer kept

vars == <<phase, pr, fr, rxd, RDH, RDT, rxUnit, pc, frames, early>>

Descriptors == 0 .. NumRxDesc - 1

TypeOK ==
    /\ phase \in {"none", "failed", "created", "started", "canceled", "stopped"}
    /\ pr \in RingType(RingSize) /\ fr \in RingType(RingSize)
    /\ rxd \in [Descriptors -> {"zero", "posted", "DD"}]
    /\ RDH \in Descriptors /\ RDT \in Descriptors
    /\ rxUnit \in {"off", "on", "draining"}
    /\ pc \in {"idle", "indicate", "post", "cancel"}
    /\ frames \in Seq(Descriptors) /\ early \in BOOLEAN

Init ==
    /\ phase = "none"
    /\ pr = EmptyRing /\ fr = EmptyRing
    /\ rxd = [d \in Descriptors |-> "zero"]
    /\ RDH = 0 /\ RDT = 0
    /\ rxUnit = "off"
    /\ pc = "idle"
    /\ frames = << >> /\ early = FALSE

device == <<rxd, RDH, RDT, rxUnit, frames, early>>
-----------------------------------------------------------------------------
(* Creation, start, stop and destruction of the queue. *)

EvtAdapterCreateRxQueue ==
    /\ phase = "none"
    /\ phase' \in {"created", "failed"}
    /\ UNCHANGED <<pr, fr, device, pc>>

(* The descriptors are zeroed, the queue enabled, and only then the head   *)
(* set to 0 and the tail to the last descriptor, with no buffer in any.    *)
(* The client starts a queue with empty rings, at index 0 like the head.   *)
EvtRxQueueStart ==
    /\ phase \in {"created", "stopped"}
    /\ phase' = "started"
    /\ rxd' = [d \in Descriptors |-> "zero"]
    /\ RDH' = 0 /\ RDT' = NumRxDesc - 1
    /\ rxUnit' = "on"
    /\ pr' = EmptyRing /\ fr' = EmptyRing
    /\ frames' = << >> /\ early' = FALSE
    /\ UNCHANGED pc

(* The first half of EvtRxQueueCancel clears the queue's enable bit; the   *)
(* device may still be writing a frame.                                    *)
EvtRxQueueCancel ==
    /\ phase = "started" /\ pc = "idle"
    /\ rxUnit' = "draining"
    /\ pc' = "cancel"
    /\ UNCHANGED <<phase, pr, fr, rxd, RDH, RDT, frames, early>>

EvtRxQueueStop ==
    /\ phase = "canceled" /\ pc = "idle"
    /\ phase' = "stopped"
    /\ UNCHANGED <<pr, fr, device, pc>>

EvtRxQueueDestroy ==
    /\ phase \in {"failed", "created", "stopped"}
    /\ phase' = "none"
    /\ UNCHANGED <<pr, fr, device, pc>>
-----------------------------------------------------------------------------
(* The client and the device. *)

ClientAddsPacket ==
    /\ phase = "started" /\ pc = "idle"
    /\ Inc(pr.EndIndex, RingSize) # pr.BeginIndex
    /\ pr' = [pr EXCEPT !.EndIndex = Inc(@, RingSize)]
    /\ UNCHANGED <<phase, fr, device, pc>>

ClientAddsBuffer ==
    /\ phase = "started" /\ pc = "idle"
    /\ Inc(fr.EndIndex, RingSize) # fr.BeginIndex
    /\ fr' = [fr EXCEPT !.EndIndex = Inc(@, RingSize)]
    /\ UNCHANGED <<phase, pr, device, pc>>

(* The device writes a frame where the head points and writes back the     *)
(* status of that descriptor, also when no buffer was posted yet.          *)
DeviceReceives ==
    /\ rxUnit \in {"on", "draining"} /\ RDH # RDT
    /\ rxd' = [rxd EXCEPT ![RDH] = "DD"]
    /\ early' = (early \/ \A d \in Descriptors : rxd[d] = "zero")
    /\ frames' = IF early' THEN << >> ELSE Append(frames, RDH)
    /\ RDH' = Inc(RDH, NumRxDesc)
    /\ UNCHANGED <<phase, pr, fr, RDT, rxUnit, pc>>

DeviceQuiesces ==
    /\ rxUnit = "draining"
    /\ rxUnit' = "off"
    /\ UNCHANGED <<phase, pr, fr, rxd, RDH, RDT, pc, frames, early>>
-----------------------------------------------------------------------------
(* EvtRxQueueAdvance: RxIndicateReceives, then RxPostBuffers. *)

EvtRxQueueAdvance ==
    /\ phase \in {"started", "canceled"} /\ pc = "idle"
    /\ pc' = "indicate"
    /\ UNCHANGED <<phase, pr, fr, device>>

(* The next fragment was posted, its frame has arrived, and a packet is    *)
(* there to carry it.                                                      *)
CanIndicate ==
    /\ fr.BeginIndex # fr.NextIndex
    /\ rxd[fr.BeginIndex] = "DD"
    /\ pr.BeginIndex # pr.EndIndex

RxIndicateReceives ==
    /\ pc \in {"indicate", "cancel"}
    /\ CanIndicate
    /\ pr' = [pr EXCEPT !.BeginIndex = Inc(@, RingSize)]
    /\ fr' = [fr EXCEPT !.BeginIndex = Inc(@, RingSize)]
    /\ frames' = IF frames = << >> THEN frames ELSE Tail(frames)
    /\ UNCHANGED <<phase, rxd, RDH, RDT, rxUnit, pc, early>>

RxIndicateReceivesEnds ==
    /\ pc = "indicate" /\ ~CanIndicate
    /\ pc' = "post"
    /\ UNCHANGED <<phase, pr, fr, device>>

(* IgbPostRxDescriptor zeroes the descriptor and writes the address.       *)
PostedOverStatus(d) == IF rxd[d] = "DD" THEN "DD" ELSE "posted"  \* mutant: not zeroed
IgbPostRxDescriptor(d) == "posted"

(* The tail becomes the index of the descriptor just written. Between the  *)
(* two writes the device has that descriptor only before the first buffer. *)
TailLeftAlone(index) == RDT         \* mutant: the register is not written
TailOverAll(index) == fr.EndIndex   \* mutant: everything before it is written
NewTail(index) == index

RxPostBuffers ==
    LET index == fr.NextIndex
    IN  /\ pc = "post" /\ index # fr.EndIndex
        /\ rxd' = [rxd EXCEPT ![index] = IgbPostRxDescriptor(index)]
        /\ RDT' = NewTail(index)
        /\ fr' = [fr EXCEPT !.NextIndex = Inc(@, RingSize)]
        /\ UNCHANGED <<phase, pr, RDH, rxUnit, pc, frames, early>>

RxPostBuffersEnds ==
    /\ pc = "post" /\ fr.NextIndex = fr.EndIndex
    /\ pc' = "idle"
    /\ UNCHANGED <<phase, pr, fr, device>>

(* The second half of EvtRxQueueCancel: what is left of the rings goes     *)
(* back, the packets marked to be ignored. NextIndex stays.                *)
PacketsKept == pr  \* mutant: the loop over the packets is missing
PacketsReturned == [pr EXCEPT !.BeginIndex = pr.EndIndex]

EvtRxQueueCancelReturns ==
    /\ pc = "cancel" /\ ~CanIndicate
    /\ phase' = "canceled"
    /\ pr' = PacketsReturned
    /\ fr' = [fr EXCEPT !.BeginIndex = fr.EndIndex]
    /\ pc' = "idle"
    /\ UNCHANGED device

AdvanceStep ==
    \/ RxIndicateReceives \/ RxIndicateReceivesEnds
    \/ RxPostBuffers \/ RxPostBuffersEnds
    \/ EvtRxQueueCancelReturns
-----------------------------------------------------------------------------
Next ==
    \/ EvtAdapterCreateRxQueue \/ EvtRxQueueStart \/ EvtRxQueueCancel
    \/ EvtRxQueueStop \/ EvtRxQueueDestroy
    \/ ClientAddsPacket \/ ClientAddsBuffer
    \/ DeviceReceives \/ DeviceQuiesces
    \/ EvtRxQueueAdvance \/ AdvanceStep

Spec == Init /\ [][Next]_vars

(* The client polls a started queue, refilling its rings between two calls *)
(* (so being enabled only then is enough), a callback once entered returns,*)
(* and there is always another frame on the wire.                          *)
FairSpec ==
    /\ Spec
    /\ SF_vars(ClientAddsPacket) /\ SF_vars(ClientAddsBuffer)
    /\ WF_vars(EvtRxQueueAdvance /\ phase = "started")
    /\ WF_vars(AdvanceStep)
    /\ WF_vars(DeviceReceives)
-----------------------------------------------------------------------------
(* Properties. *)

Posted(d) == Within(d, fr.BeginIndex, fr.NextIndex, RingSize)

(* What the indicating loop will find is what the device did: of the       *)
(* posted descriptors exactly those filled since their posting have DD,    *)
(* and they follow each other from fr->BeginIndex in the order of arrival. *)
(* No old DD is taken for a frame, and none is out of reach of a loop that *)
(* looks at one descriptor at a time. But not once a frame came before the *)
(* first buffer: the head is then ahead of what is posted.                 *)
FilledInOrder ==
    phase = "started" /\ ~early =>
        /\ {d \in Descriptors : Posted(d) /\ rxd[d] = "DD"}
             = {frames[k] : k \in 1 .. Len(frames)}
        /\ \A k \in 1 .. Len(frames) :
             frames[k] = Wrap(fr.BeginIndex + (k - 1), RingSize)

(* While the queue is on, once a buffer was posted, the device has only    *)
(* descriptors the driver posted and has not taken back, none filled       *)
(* already: the tail, which names the last buffer posted and not the one   *)
(* after it, never exposes an old descriptor. But not once a frame came    *)
(* before the first buffer.                                                *)
DeviceHasOnlyPosted ==
    (rxUnit = "on" /\ ~early /\ \E d \in Descriptors : rxd[d] # "zero") =>
        \A d \in Descriptors :
            Within(d, RDH, RDT, NumRxDesc) => Posted(d) /\ rxd[d] = "posted"

(* NT_FRE_ASSERT(fr->BeginIndex != fr->EndIndex): "if there is a packet    *)
(* available we are guaranteed to have a fragment as well", also when      *)
(* EvtRxQueueAdvance runs after a cancel that left NextIndex behind.       *)
FragmentAvailable ==
    (pc \in {"indicate", "cancel"} /\ CanIndicate) => fr.BeginIndex # fr.EndIndex

(* The queue is a HandOver of buffers: the device fills them in the order  *)
(* in which the client put them in the ring, each with one frame, and they *)
(* go back in that order, none while the queue is started but with its     *)
(* frame: no frame is indicated twice or passed on with another's buffer.  *)
(* All this up to a frame that comes before the first buffer, and again    *)
(* from the next start.                                                    *)
Fills(i) == Cardinality({k \in 1 .. Len(frames) : frames[k] = i})
Buffers == [i \in 0 .. RingSize - 1 |-> [skip |-> FALSE, uses |-> Fills(i)]]

Promise == INSTANCE HandOver WITH
    open <- phase = "started", held <- InOrder(Buffers, fr, RingSize)

ImplementsHandOver == Promise!Init /\ [][Promise!Next \/ early']_(Promise!vars)

(* As long as frames arrive and the client refills the rings, a queue that *)
(* stays started goes on indicating: it never waits for a descriptor the   *)
(* device was not given. A frame before the first buffer may leave it      *)
(* waiting for one that the device has passed.                             *)
ReceptionContinues ==
    <>[](phase = "started" /\ pc # "cancel" /\ ~early) => []<><<RxIndicateReceives>>_vars
============================================================================
