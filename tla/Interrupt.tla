----------------------------- MODULE Interrupt -----------------------------
(***************************************************************************)
(* How a completion in the device becomes a notification of the client     *)
(* that waits for it: the cause and mask registers, EvtInterruptIsr,       *)
(* EvtInterruptDpc, and the two queue callbacks that arm, disarm and stop  *)
(* notifications (IgbTxQueueSetInterrupt, IgbRxQueueSetInterrupt and the   *)
(* Stop callbacks around them).                                            *)
(*                                                                         *)
(* With MSI-X every receive queue has a vector and an IGB_INTERRUPT of its *)
(* own, and Misc serves the transmit queue and the link; with one message  *)
(* or a line ("shared") Misc serves everything.                            *)
(*                                                                         *)
(* An ISR runs under its interrupt's lock, which the arming callbacks take *)
(* too. A DPC that was dequeued may be queued again and run on a second    *)
(* processor while the first instance still runs.                          *)
(***************************************************************************)
EXTENDS Naturals, FiniteSets

CONSTANTS
    RxQueues,    \* indices of the receive queues in use
    Tx,          \* the transmit queue
    Misc,        \* the vector of adapter->MiscInterrupt, and EICR's OTHER
    TXDW, LSC,   \* the legacy causes: transmit descriptors written back, link
    Processors,  \* those on which instances of one DPC may run at once
    Setups,      \* the configurations to be tried
    NoQueue      \* nobody holds the lock

ASSUME ConstantsAssumption ==
    /\ RxQueues \subseteq 0 .. 3 /\ RxQueues # {}
    /\ Tx \notin RxQueues /\ Misc \notin RxQueues
    /\ NoQueue \notin RxQueues \cup {Tx}
    /\ TXDW # LSC
    /\ Processors # {} /\ Processors \cap {"message", "isr", "dpc"} = {}
    /\ Setups \subseteq [mode: {"msix", "shared"}, queues: SUBSET (RxQueues \cup {Tx}),
                        links: BOOLEAN, overlap: BOOLEAN]

Queues == RxQueues \cup {Tx}
Vectors == RxQueues \cup {Misc}

VARIABLES
    mode,        \* MsiInterrupts > 1, or not
    created,     \* the queues NetAdapterCx has created
    links,       \* whether the link may change
    overlap,     \* whether two instances of a DPC may run at once
    EICR, EIMS,  \* the extended cause and mask registers
    ICR, IMS,    \* the legacy cause and mask registers
    msg,         \* vectors whose message is on its way to a processor
    isr,         \* the ISR of every vector: its position and locals
    context,     \* the EICR and ICR fields of every IGB_INTERRUPT
    dpcQueued,   \* vectors whose DPC is queued
    dpc,         \* the instances of every DPC: position and locals
    client,      \* where every queue's client is
    flush,       \* what the queue's KeFlushQueuedDpcs still waits for
    registered,  \* adapter->TxQueues and RxQueues entries that are set
    lock,        \* the queue whose callback holds adapter->Lock, or none
    enabled,     \* queues the device works for
    work,        \* queues with completions the client has not seen
    notified,    \* queues whose client was told there may be some
    linkChanged  \* the link changed since IgbCheckLinkStatus last looked

adapter == <<mode, created, links, overlap>>
device == <<EICR, EIMS, ICR, IMS, msg>>
handlers == <<isr, context, dpcQueued, dpc>>
clients == <<client, flush, registered, lock, enabled>>
vars == <<adapter, device, handlers, clients, work, notified, linkChanged>>

LegacyCauses == {TXDW, LSC}
NoIsr == [step |-> "none", eicr |-> {}]
NoDpc == [step |-> "none", causes |-> {}]
ClientSteps == {"none", "poll", "arm", "repoll", "wait", "disarm", "flush",
                "canceled", "stopFlush"}

TypeOK ==
    /\ mode \in {"msix", "shared"} /\ created \subseteq Queues 
    /\ links \in BOOLEAN /\ overlap \in BOOLEAN
    /\ EICR \subseteq Vectors /\ EIMS \subseteq Vectors /\ msg \subseteq Vectors
    /\ ICR \subseteq LegacyCauses /\ IMS \subseteq LegacyCauses
    /\ isr \in [Vectors -> [step: {"none", "readICR", "queueDpc"}, eicr: SUBSET Vectors]]
    /\ context \in [Vectors -> [EICR: SUBSET Vectors, ICR: SUBSET LegacyCauses]]
    /\ dpcQueued \subseteq Vectors
    /\ dpc \in [Vectors -> [Processors ->
                 [step: {"none", "eicr"}, causes: SUBSET Vectors]
                   \cup [step: {"icr"}, causes: SUBSET LegacyCauses]]]
    /\ client \in [Queues -> ClientSteps]
    /\ flush \in [Queues -> SUBSET (Processors \cup {"message", "isr", "dpc"})]
    /\ registered \subseteq Queues /\ enabled \subseteq Queues
    /\ lock \in Queues \cup {NoQueue}
    /\ work \subseteq Queues /\ notified \subseteq Queues
    /\ linkChanged \in BOOLEAN

(* After EvtDeviceD0Entry: IgbInterruptInitialize enabled the misc vector, *)
(* IgbResetLink read the cause registers and enabled LSC.                  *)
Init ==
    /\ \E s \in Setups : /\ mode = s.mode /\ created = s.queues
                        /\ links = s.links /\ overlap = s.overlap
    /\ EICR = {} /\ ICR = {} /\ msg = {}
    /\ EIMS = IF mode = "msix" THEN {Misc} ELSE {}
    /\ IMS = {LSC}
    /\ isr = [v \in Vectors |-> NoIsr]
    /\ context = [v \in Vectors |-> [EICR |-> {}, ICR |-> {}]]
    /\ dpcQueued = {}
    /\ dpc = [v \in Vectors |-> [p \in Processors |-> NoDpc]]
    /\ client = [q \in Queues |-> "none"]
    /\ flush = [q \in Queues |-> {}]
    /\ registered = {} /\ lock = NoQueue /\ enabled = {}
    /\ work = {} /\ notified = {}
    /\ linkChanged = FALSE

(* The vector a queue's causes are routed to, whose lock its callbacks     *)
(* take: rx->InterruptHandle and tx->Interrupt.                            *)
VectorOf(q) == IF mode = "msix" /\ q \in RxQueues THEN q ELSE Misc
-----------------------------------------------------------------------------
(* The device: causes latch whether or not they are masked. *)

(* Completions of queue q. With MSI-X the transmit queue's cause goes to   *)
(* the misc vector (IVAR0) whatever IMS says of TXDW.                      *)
DeviceCompletes(q) ==
    /\ q \in enabled
    /\ work' = work \cup {q}
    /\ IF q = Tx
         THEN /\ ICR' = ICR \cup {TXDW}
              /\ EICR' = IF mode = "msix" THEN EICR \cup {Misc} ELSE EICR
         ELSE EICR' = EICR \cup {q} /\ UNCHANGED ICR
    /\ UNCHANGED <<adapter, EIMS, IMS, msg, handlers, clients, notified, linkChanged>>

LinkChanges ==
    /\ links
    /\ linkChanged' = TRUE
    /\ ICR' = ICR \cup {LSC}
    /\ EICR' = IF mode = "msix" /\ LSC \in IMS THEN EICR \cup {Misc} ELSE EICR
    /\ UNCHANGED <<adapter, EIMS, IMS, msg, handlers, clients, work, notified>>

(* MSI-X sends the message of an unmasked cause once, clearing it (EIAC)   *)
(* and masking it if it is a receive queue's (EIAM). The shared interrupt  *)
(* is raised as long as an unmasked cause is there.                        *)
Sends(v, eims, ims) ==
    /\ v \notin msg
    /\ IF mode = "msix" THEN v \in EICR \cap eims
       ELSE /\ v = Misc /\ isr[v].step = "none"
            /\ EICR \cap eims # {} \/ ICR \cap ims # {}

DeviceSends(v) ==
    /\ Sends(v, EIMS, IMS)
    /\ msg' = msg \cup {v}
    /\ EICR' = IF mode = "msix" THEN EICR \ {v} ELSE EICR
    /\ EIMS' = IF mode = "msix" THEN EIMS \ ({v} \cap RxQueues) ELSE EIMS
    /\ UNCHANGED <<adapter, ICR, IMS, handlers, clients, work, notified, linkChanged>>

-----------------------------------------------------------------------------
(* EvtInterruptIsr. An access that nobody can observe apart from the one   *)
(* before it is one step with it: the masks are looked at only when no ISR *)
(* of the vector runs, and written only under its lock.                    *)

IsrGoes(v, step) == isr' = [isr EXCEPT ![v].step = step]

(* The ISR of a vector can start, its message having come. *)
Called(v) == v \in msg /\ isr[v].step = "none"

(* What KeFlushQueuedDpcs waits for, of the queue's interrupt: a message   *)
(* that has reached a processor, the ISR that runs, the DPC if it is       *)
(* queued, the instances of it that run. (It waits for the DPCs of other   *)
(* interrupts too, which do not concern the queue.)                        *)
KeFlushQueuedDpcs(q) ==
    LET v == VectorOf(q)
    IN  {p \in Processors : dpc[v][p].step # "none"}
          \cup (IF v \in msg THEN {"message"} ELSE {})
          \cup (IF isr[v].step # "none" THEN {"isr"} ELSE {})
          \cup (IF v \in dpcQueued THEN {"dpc"} ELSE {})

(* What a flush waits for turns into something else, or ends. *)
FlushGoes(v, from, to) ==
    flush' = [q \in Queues |-> IF VectorOf(q) = v /\ from \in flush[q]
                               THEN (flush[q] \ {from}) \cup to ELSE flush[q]]

(* Reading EICR clears it, the masked causes too; OTHER stands for the     *)
(* unmasked legacy causes. Nothing set: the interrupt was not ours. EIMC   *)
(* is written for the receive queues whose cause was read.                 *)
IsrReadEICR(v) ==
    LET eicr == EICR \cup (IF ICR \cap IMS # {} THEN {Misc} ELSE {})
    IN  /\ mode = "shared" /\ Called(v)
        /\ msg' = msg \ {v}
        /\ EICR' = {}
        /\ EIMS' = EIMS \ (eicr \cap RxQueues)
        /\ isr' = [isr EXCEPT ![v] =
                     [step |-> IF eicr = {} THEN "none"
                               ELSE IF Misc \in eicr THEN "readICR" ELSE "queueDpc",
                      eicr |-> eicr]]
        /\ FlushGoes(v, "message", IF eicr = {} THEN {} ELSE {"isr"})
        /\ UNCHANGED <<adapter, ICR, IMS, context, dpcQueued, dpc, client, registered, lock,
                       enabled, work, notified, linkChanged>>

(* InterlockedOr on a field of the interrupt's context. *)
Store(field, causes) == causes  \* mutant: the field is assigned
Or(field, causes) == field \cup causes

(* Reading ICR clears it, the masked causes too. IMC is written if a       *)
(* transfer finished, and the causes are handed to the DPC.                *)
IsrReadICR(v) ==
    /\ \/ isr[v].step = "readICR" /\ UNCHANGED <<msg, flush>>
       \/ /\ mode = "msix" /\ v = Misc /\ Called(v)
          /\ msg' = msg \ {v} /\ FlushGoes(v, "message", {"isr"})
    /\ ICR' = {}
    /\ IMS' = IF TXDW \in ICR THEN IMS \ {TXDW} ELSE IMS
    /\ context' = [context EXCEPT ![v].ICR = Or(@, ICR)]
    /\ IsrGoes(v, "queueDpc")
    /\ UNCHANGED <<adapter, EICR, EIMS, dpcQueued, dpc, client, registered, lock, enabled,
                   work, notified, linkChanged>>

(* What is set in the EICR field: OTHER for the misc vector, the bit of    *)
(* messageId for another, what was read if there is one interrupt.         *)
CausesOfICR(v) ==  \* mutant: the legacy causes are set in the EICR field
    IF mode = "shared" THEN isr[v].eicr ELSE IF v = Misc THEN context[v].ICR ELSE {v}
QueueCauses(v) ==  \* mutant: only the receive queues' causes are handed on
    IF mode = "shared" THEN isr[v].eicr \cap RxQueues ELSE {v}
IsrCauses(v) == IF mode = "shared" THEN isr[v].eicr ELSE {v}

(* The last InterlockedOr, then WdfInterruptQueueDpcForIsr, which does     *)
(* nothing if the DPC is queued already. A receive queue's ISR does no     *)
(* more.                                                                   *)
IsrQueueDpc(v) ==
    /\ \/ isr[v].step = "queueDpc" /\ UNCHANGED msg /\ FlushGoes(v, "isr", {"dpc"})
       \/ /\ mode = "msix" /\ v # Misc /\ Called(v)
          /\ msg' = msg \ {v} /\ FlushGoes(v, "message", {"dpc"})
    /\ context' = [context EXCEPT ![v].EICR = Or(@, IsrCauses(v))]
    /\ dpcQueued' = dpcQueued \cup {v}
    /\ isr' = [isr EXCEPT ![v] = NoIsr]
    /\ UNCHANGED <<adapter, EICR, EIMS, ICR, IMS, dpc, client, registered, lock, enabled,
                   work, notified, linkChanged>>

EvtInterruptIsr(v) == IsrReadEICR(v) \/ IsrReadICR(v) \/ IsrQueueDpc(v)
-----------------------------------------------------------------------------
(* EvtInterruptDpc. *)

(* An instance goes on with what it has taken, or ends. *)
DpcGoes(v, p, local) ==
    /\ dpc' = [dpc EXCEPT ![v][p] = local]
    /\ IF local = NoDpc THEN FlushGoes(v, p, {}) ELSE UNCHANGED flush

(* An instance starts and takes the EICR field. Which of the processors    *)
(* that are free it runs on does not matter.                               *)
FreeProcessor(v) == CHOOSE p \in Processors : dpc[v][p] = NoDpc
DpcExchangeEICR(v, p) ==
    /\ v \in dpcQueued /\ dpc[v][p] = NoDpc /\ p = FreeProcessor(v)
    /\ overlap \/ \A other \in Processors : dpc[v][other] = NoDpc
    /\ dpcQueued' = dpcQueued \ {v}
    /\ context' = [context EXCEPT ![v].EICR = {}]
    /\ dpc' = [dpc EXCEPT ![v][p] = [step |-> "eicr", causes |-> context[v].EICR]]
    /\ FlushGoes(v, "dpc", {p})
    /\ UNCHANGED <<adapter, device, isr, client, registered, lock, enabled, work,
                   notified, linkChanged>>

(* The next receive queue whose bit is set, in the order of the bits. *)
NextRx(causes) ==
    CHOOSE q \in causes \cap RxQueues : \A r \in causes \cap RxQueues : q <= r

DpcNotifyRx(v, p) ==
    LET q == NextRx(dpc[v][p].causes)
    IN  /\ dpc[v][p].step = "eicr" /\ dpc[v][p].causes \cap RxQueues # {}
        /\ notified' = notified \cup {q}
        /\ DpcGoes(v, p, [dpc[v][p] EXCEPT !.causes = @ \ {q}])
        /\ UNCHANGED <<adapter, device, isr, context, dpcQueued, client, registered,
                       lock, enabled, work, linkChanged>>

DpcExchangeICR(v, p) ==
    /\ dpc[v][p].step = "eicr" /\ dpc[v][p].causes = {Misc}
    /\ context' = [context EXCEPT ![v].ICR = {}]
    /\ DpcGoes(v, p, [step |-> "icr", causes |-> context[v].ICR])
    /\ UNCHANGED <<adapter, device, isr, dpcQueued, client, registered, lock, enabled,
                   work, notified, linkChanged>>

(* The transmit queue is notified; get_link_status is set and              *)
(* IgbCheckLinkStatus reports the link; the instance ends. Another ends    *)
(* when it has no cause left.                                              *)
ClearsAtEnd(v, p) ==  \* mutant: the ICR field is cleared once it was handled
    /\ dpc[v][p].step = "icr" \/ (dpc[v][p].step = "eicr" /\ dpc[v][p].causes = {})
    /\ notified' = IF TXDW \in dpc[v][p].causes THEN notified \cup {Tx} ELSE notified
    /\ linkChanged' = (linkChanged /\ LSC \notin dpc[v][p].causes)
    /\ context' = [context EXCEPT ![v].ICR = {}]
    /\ DpcGoes(v, p, NoDpc)
    /\ UNCHANGED <<adapter, device, isr, dpcQueued, client, registered, lock,
                   enabled, work>>
DpcNotify(v, p) ==
    /\ dpc[v][p].step = "icr" \/ (dpc[v][p].step = "eicr" /\ dpc[v][p].causes = {})
    /\ notified' = IF TXDW \in dpc[v][p].causes THEN notified \cup {Tx} ELSE notified
    /\ linkChanged' = (linkChanged /\ LSC \notin dpc[v][p].causes)
    /\ DpcGoes(v, p, NoDpc)
    /\ UNCHANGED <<adapter, device, isr, context, dpcQueued, client, registered, lock,
                   enabled, work>>

EvtInterruptDpc(v, p) ==
    DpcNotifyRx(v, p) \/ DpcExchangeICR(v, p) \/ DpcNotify(v, p)
-----------------------------------------------------------------------------
(* The client of a queue and the callbacks it makes. It polls a queue with *)
(* EvtQueueAdvance, arms its notification when a poll finds nothing, polls *)
(* once more, and waits; it disarms before it polls again.                 *)

ClientGoes(q, step) == client' = [client EXCEPT ![q] = step]

(* EvtTxQueueStart and EvtRxQueueStart: the queue is enabled and entered   *)
(* in the adapter's table. The client knows of no completion yet.          *)
EvtQueueStart(q) ==
    /\ q \in created /\ client[q] = "none" /\ lock = NoQueue
    /\ registered' = registered \cup {q} /\ enabled' = enabled \cup {q}
    /\ work' = work \ {q} /\ notified' = notified \ {q}
    /\ ClientGoes(q, "poll")
    /\ UNCHANGED <<adapter, device, handlers, flush, lock, linkChanged>>

ClientPolls(q) ==
    /\ client[q] \in {"poll", "repoll"}
    /\ work' = work \ {q}
    /\ ClientGoes(q, IF client[q] = "poll"
                     THEN IF q \in work THEN "poll" ELSE "arm"
                     ELSE IF q \in work THEN "disarm" ELSE "wait")
    /\ UNCHANGED <<adapter, device, handlers, flush, registered, lock, enabled, notified,
                   linkChanged>>

(* IgbTxQueueSetInterrupt and IgbRxQueueSetInterrupt(true). *)
EvtQueueSetNotificationEnabled(q) ==
    /\ client[q] = "arm" /\ isr[VectorOf(q)].step = "none"
    /\ EIMS' = EIMS \cup ({q} \cap RxQueues)
    /\ IMS' = IF q = Tx THEN IMS \cup {TXDW} ELSE IMS
    /\ ClientGoes(q, "repoll")
    /\ UNCHANGED <<adapter, EICR, ICR, msg, handlers, flush, registered, lock, enabled, work,
                   notified, linkChanged>>

ClientWakes(q) ==
    /\ client[q] = "wait" /\ q \in notified
    /\ notified' = notified \ {q}
    /\ ClientGoes(q, "disarm")
    /\ UNCHANGED <<adapter, device, handlers, flush, registered, lock, enabled, work, linkChanged>>

(* The lock of the queue's interrupt is free, the mask register is written *)
(* and a register read back: messages sent before that have arrived.       *)
SetInterruptFalse(q) ==
    /\ isr[VectorOf(q)].step = "none"
    /\ EIMS' = EIMS \ ({q} \cap RxQueues)
    /\ IMS' = IF q = Tx THEN IMS \ {TXDW} ELSE IMS
    /\ ~Sends(VectorOf(q), EIMS', IMS')

(* With the lock released, outstanding DPCs are waited for. *)
FlushNothing(q) == {}  \* mutant: KeFlushQueuedDpcs is not called
Outstanding(q) == KeFlushQueuedDpcs(q)

EvtQueueSetNotificationDisabled(q) ==
    /\ client[q] = "disarm"
    /\ SetInterruptFalse(q)
    /\ flush' = [flush EXCEPT ![q] = Outstanding(q)]
    /\ ClientGoes(q, "flush")
    /\ UNCHANGED <<adapter, EICR, ICR, msg, handlers, registered, lock, enabled, work, notified,
                   linkChanged>>

FlushReturns(q) ==
    /\ client[q] = "flush" /\ flush[q] = {}
    /\ ClientGoes(q, "poll")
    /\ UNCHANGED <<adapter, device, handlers, flush, registered, lock, enabled, work, notified,
                   linkChanged>>

(* EvtTxQueueCancel and EvtRxQueueCancel disable the queue in the device. *)
EvtQueueCancel(q) ==
    /\ client[q] \in {"poll", "arm", "repoll", "wait"} /\ lock = NoQueue
    /\ enabled' = enabled \ {q}
    /\ ClientGoes(q, "canceled")
    /\ UNCHANGED <<adapter, device, handlers, flush, registered, lock, work, notified, linkChanged>>

(* EvtTxQueueStop and EvtRxQueueStop: under adapter->Lock, the queue's     *)
(* interrupt is masked, outstanding DPCs are waited for, and the table     *)
(* entry is cleared.                                                       *)
EvtQueueStop(q) ==
    /\ client[q] = "canceled" /\ lock = NoQueue
    /\ lock' = q
    /\ SetInterruptFalse(q)
    /\ flush' = [flush EXCEPT ![q] = Outstanding(q)]
    /\ ClientGoes(q, "stopFlush")
    /\ UNCHANGED <<adapter, EICR, ICR, msg, handlers, registered, enabled, work, notified,
                   linkChanged>>

EvtQueueStopReturns(q) ==
    /\ client[q] = "stopFlush" /\ flush[q] = {}
    /\ registered' = registered \ {q}
    /\ lock' = NoQueue
    /\ ClientGoes(q, "none")
    /\ UNCHANGED <<adapter, device, handlers, flush, enabled, work, notified, linkChanged>>

ClientStep(q) ==
    \/ ClientPolls(q) \/ EvtQueueSetNotificationEnabled(q) \/ ClientWakes(q)
    \/ EvtQueueSetNotificationDisabled(q) \/ FlushReturns(q)
    \/ EvtQueueStop(q) \/ EvtQueueStopReturns(q)
-----------------------------------------------------------------------------
Next ==
    \/ LinkChanges
    \/ \E q \in Queues : DeviceCompletes(q) \/ EvtQueueStart(q) \/ EvtQueueCancel(q)
                         \/ ClientStep(q)
    \/ \E v \in Vectors : DeviceSends(v) \/ EvtInterruptIsr(v)
    \/ \E v \in Vectors, p \in Processors : DpcExchangeEICR(v, p) \/ EvtInterruptDpc(v, p)

Spec == Init /\ [][Next]_vars

(* Messages arrive, ISRs and DPCs run and return, and a client goes on. An *)
(* interrupt lock that is free again and again is got (strong fairness).   *)
FairSpec ==
    /\ Spec
    /\ \A v \in Vectors :
         /\ WF_vars(DeviceSends(v)) /\ WF_vars(EvtInterruptIsr(v))
         /\ WF_vars(\E p \in Processors : DpcExchangeEICR(v, p))
         /\ \A p \in Processors : WF_vars(EvtInterruptDpc(v, p))
    /\ \A q \in Queues : SF_vars(ClientStep(q))
-----------------------------------------------------------------------------
(* Properties. *)

(* Causes an ISR left in an IGB_INTERRUPT are on their way to a DPC: it is *)
(* queued, or the ISR that will queue it or an instance that has yet to    *)
(* take them is running. The two fields are set and taken in opposite      *)
(* orders, without a lock, by code that runs at once.                      *)
NothingStranded ==
    \A v \in Vectors :
        /\ context[v].EICR # {} => v \in dpcQueued
        /\ context[v].ICR # {} =>
             \/ isr[v].step = "queueDpc" \/ v \in dpcQueued
             \/ \E p \in Processors : dpc[v][p].step = "eicr" /\ Misc \in dpc[v][p].causes

(* "This is to guarantee we don't return from this function call until any *)
(* outstanding tx notification is complete" (txqueue.cpp:396, and the same *)
(* of rx, rxqueue.cpp:273): a DPC never notifies through a table entry     *)
(* that EvtQueueStop has cleared.                                          *)
NotifiesRegistered ==
    \A v \in Vectors, p \in Processors :
        /\ dpc[v][p].step = "eicr" => dpc[v][p].causes \cap RxQueues \subseteq registered
        /\ (dpc[v][p].step = "icr" /\ TXDW \in dpc[v][p].causes) => Tx \in registered

(* It holds with MSI-X as long as instances of a DPC do not overlap: one   *)
(* that starts after the call takes causes from one that is waited for.    *)
NotifiesRegisteredMsix == mode = "msix" /\ ~overlap => NotifiesRegistered

(* No client waits for ever while there are completions for it: neither   *)
(* the ISR's disarming, nor a DPC that runs late, nor a cause read by an   *)
(* ISR that came for another reason loses a wake-up.                       *)
WaitingClientWakes == \A q \in Queues : []<>~(client[q] = "wait" /\ q \in work)

(* A change of the link is looked at by IgbCheckLinkStatus after it        *)
(* happened, whichever causes it shares the interrupt with and however     *)
(* instances of the DPC overlap.                                           *)
LinkChangeSeen == []<>~linkChanged
============================================================================
