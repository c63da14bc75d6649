-------------------------- MODULE InterruptProofs --------------------------
(***************************************************************************)
(* Proofs about Interrupt for every set of receive queues, every number of *)
(* processors and every configuration.                                     *)
(***************************************************************************)
EXTENDS Interrupt, TLAPS
-----------------------------------------------------------------------------
(* Types. *)

DpcType == [step: {"none", "eicr"}, causes: SUBSET Vectors]
             \cup [step: {"icr"}, causes: SUBSET LegacyCauses]

(* One instance of a DPC goes on, the others stay as they are. *)
LEMMA DpcExcept ==
    ASSUME NEW f \in [Vectors -> [Processors -> DpcType]],
           NEW v \in Vectors, NEW p \in Processors, NEW x, NEW g, g = [f EXCEPT ![v][p] = x]
    PROVE  /\ x \in DpcType => g \in [Vectors -> [Processors -> DpcType]]
           /\ g[v][p] = x
           /\ \A w \in Vectors, r \in Processors : w # v \/ r # p => g[w][r] = f[w][r]
OBVIOUS

ContextType == [EICR: SUBSET Vectors, ICR: SUBSET LegacyCauses]

LEMMA VectorOfType == \A q \in Queues : VectorOf(q) \in Vectors
BY DEF VectorOf, Vectors

(* The receive queues are numbered, so that one of them comes next. *)
LEMMA NextRxType ==
    ASSUME NEW causes, causes \cap RxQueues # {}
    PROVE  NextRx(causes) \in causes \cap RxQueues
<1> DEFINE S == causes \cap RxQueues
<1>1. S \subseteq 0 .. 3 /\ S # {}
  BY ConstantsAssumption
<1>2. \E q \in S : \A r \in S : q <= r
  <2>1. CASE 0 \in S
    BY <1>1, <2>1
  <2>2. CASE 0 \notin S /\ 1 \in S
    BY <1>1, <2>2
  <2>3. CASE 0 \notin S /\ 1 \notin S /\ 2 \in S
    BY <1>1, <2>3
  <2>4. CASE 0 \notin S /\ 1 \notin S /\ 2 \notin S
    BY <1>1, <2>4
  <2>5. QED
    BY <2>1, <2>2, <2>3, <2>4
<1>3. QED
  BY <1>2 DEF NextRx

LEMMA FlushType ==
    ASSUME TypeOK, NEW v, NEW from, NEW to,
           to \subseteq Processors \cup {"message", "isr", "dpc"}, FlushGoes(v, from, to)
    PROVE  flush' \in [Queues -> SUBSET (Processors \cup {"message", "isr", "dpc"})]
BY DEF TypeOK, FlushGoes

LEMMA OutstandingType ==
    ASSUME NEW q
    PROVE  KeFlushQueuedDpcs(q) \subseteq Processors \cup {"message", "isr", "dpc"}
BY DEF KeFlushQueuedDpcs

LEMMA InitTypeOK == Init => TypeOK
<1> SUFFICES ASSUME Init PROVE TypeOK
  OBVIOUS
<1>1. /\ mode \in {"msix", "shared"} /\ created \subseteq Queues
      /\ links \in BOOLEAN /\ overlap \in BOOLEAN
  BY ConstantsAssumption DEF Init, Queues
<1>2. Misc \in Vectors
  BY DEF Vectors
<1>3. QED
  BY <1>1, <1>2 DEF Init, TypeOK, NoIsr, NoDpc, LegacyCauses, ClientSteps

LEMMA NextTypeOK ==
    ASSUME TypeOK, [Next]_vars
    PROVE  TypeOK'
<1> USE DEF TypeOK, adapter, device, handlers, clients
<1>0. Misc \in Vectors /\ Tx \in Queues /\ RxQueues \subseteq Vectors /\ RxQueues \subseteq Queues
  BY DEF Vectors, Queues
<1>1. CASE LinkChanges
  BY <1>0, <1>1 DEF LinkChanges, LegacyCauses
<1>2. ASSUME NEW q \in Queues, DeviceCompletes(q) PROVE TypeOK'
  BY <1>0, <1>2 DEF DeviceCompletes, LegacyCauses, Queues
<1>3. ASSUME NEW v \in Vectors, DeviceSends(v) PROVE TypeOK'
  BY <1>3 DEF DeviceSends
<1>4. ASSUME NEW v \in Vectors, IsrReadEICR(v) PROVE TypeOK'
  <2>1. flush' \in [Queues -> SUBSET (Processors \cup {"message", "isr", "dpc"})]
    BY <1>4, FlushType DEF IsrReadEICR
  <2>2. QED
    BY <1>0, <1>4, <2>1 DEF IsrReadEICR
<1>5. ASSUME NEW v \in Vectors, IsrReadICR(v) PROVE TypeOK'
  <2>1. flush' \in [Queues -> SUBSET (Processors \cup {"message", "isr", "dpc"})]
    BY <1>5, FlushType DEF IsrReadICR
  <2>2. context' \in [Vectors -> ContextType]
    <3>1. context' = [context EXCEPT ![v].ICR = context[v].ICR \cup ICR]
      BY <1>5 DEF IsrReadICR, Or
    <3>2. context \in [Vectors -> ContextType] /\ context[v].ICR \cup ICR \subseteq LegacyCauses
      BY DEF ContextType
    <3>3. QED
      BY ONLY <3>1, <3>2, v \in Vectors DEF ContextType
  <2>3. isr' \in [Vectors -> [step: {"none", "readICR", "queueDpc"}, eicr: SUBSET Vectors]]
    <3>1. isr' = [isr EXCEPT ![v].step = "queueDpc"]
      BY <1>5 DEF IsrReadICR, IsrGoes
    <3>2. isr \in [Vectors -> [step: {"none", "readICR", "queueDpc"}, eicr: SUBSET Vectors]]
      OBVIOUS
    <3>3. QED
      BY ONLY <3>1, <3>2
  <2>4. msg' \subseteq Vectors /\ ICR' \subseteq LegacyCauses /\ IMS' \subseteq LegacyCauses
    BY <1>5 DEF IsrReadICR
  <2>5. QED
    BY <1>5, <2>1, <2>2, <2>3, <2>4 DEF IsrReadICR, ContextType
<1>6. ASSUME NEW v \in Vectors, IsrQueueDpc(v) PROVE TypeOK'
  <2>1. flush' \in [Queues -> SUBSET (Processors \cup {"message", "isr", "dpc"})]
    BY <1>6, FlushType DEF IsrQueueDpc
  <2>2. IsrCauses(v) \subseteq Vectors
    BY DEF IsrCauses
  <2>3. context' \in [Vectors -> ContextType]
    <3>1. context' = [context EXCEPT ![v].EICR = context[v].EICR \cup IsrCauses(v)]
      BY <1>6 DEF IsrQueueDpc, Or
    <3>2. /\ context \in [Vectors -> ContextType]
          /\ context[v].EICR \cup IsrCauses(v) \subseteq Vectors
      BY <2>2 DEF ContextType
    <3>3. QED
      BY ONLY <3>1, <3>2, v \in Vectors DEF ContextType
  <2>4. QED
    BY <1>6, <2>1, <2>3 DEF IsrQueueDpc, NoIsr, ContextType
<1>7. ASSUME NEW v \in Vectors, NEW p \in Processors, DpcExchangeEICR(v, p) PROVE TypeOK'
  <2>1. flush' \in [Queues -> SUBSET (Processors \cup {"message", "isr", "dpc"})]
    BY <1>7, FlushType DEF DpcExchangeEICR
  <2>2. context' \in [Vectors -> [EICR: SUBSET Vectors, ICR: SUBSET LegacyCauses]]
    BY <1>7 DEF DpcExchangeEICR
  <2>3. dpc' \in [Vectors -> [Processors -> DpcType]]
    <3>1. [step |-> "eicr", causes |-> context[v].EICR] \in DpcType
      BY DEF DpcType
    <3>2. QED
      BY <1>7, <3>1, DpcExcept DEF DpcExchangeEICR, DpcType
  <2>4. QED
    BY <1>7, <2>1, <2>2, <2>3 DEF DpcExchangeEICR, DpcType
<1>8. ASSUME NEW v \in Vectors, NEW p \in Processors, DpcNotifyRx(v, p) PROVE TypeOK'
  <2>1. dpc[v][p] \in DpcType /\ dpc[v][p].step = "eicr"
    BY <1>8 DEF DpcNotifyRx, DpcType
  <2>2. NextRx(dpc[v][p].causes) \in RxQueues
    BY <1>8, NextRxType DEF DpcNotifyRx
  <2>3. DpcGoes(v, p, [dpc[v][p] EXCEPT !.causes = @ \ {NextRx(dpc[v][p].causes)}])
    BY <1>8 DEF DpcNotifyRx
  <2>4. [dpc[v][p] EXCEPT !.causes = @ \ {NextRx(dpc[v][p].causes)}] \in DpcType
    BY <2>1 DEF DpcType
  <2>5. dpc' \in [Vectors -> [Processors -> DpcType]]
    BY <2>3, <2>4, DpcExcept DEF DpcGoes, DpcType
  <2>6. flush' \in [Queues -> SUBSET (Processors \cup {"message", "isr", "dpc"})]
    BY <2>3, FlushType DEF DpcGoes
  <2>7. QED
    BY <1>0, <1>8, <2>2, <2>5, <2>6 DEF DpcNotifyRx, DpcType
<1>9. ASSUME NEW v \in Vectors, NEW p \in Processors, DpcExchangeICR(v, p) PROVE TypeOK'
  <2>1. [step |-> "icr", causes |-> context[v].ICR] \in DpcType
    BY DEF DpcType
  <2>2. dpc' \in [Vectors -> [Processors -> DpcType]]
    BY <1>9, <2>1, DpcExcept DEF DpcExchangeICR, DpcGoes, DpcType
  <2>3. flush' \in [Queues -> SUBSET (Processors \cup {"message", "isr", "dpc"})]
    BY <1>9, FlushType DEF DpcExchangeICR, DpcGoes
  <2>4. context' \in [Vectors -> ContextType]
    <3>1. context' = [context EXCEPT ![v].ICR = {}]
      BY <1>9 DEF DpcExchangeICR
    <3>2. context \in [Vectors -> ContextType]
      BY DEF ContextType
    <3>3. QED
      BY ONLY <3>1, <3>2, v \in Vectors DEF ContextType
  <2>5. QED
    BY <1>9, <2>2, <2>3, <2>4 DEF DpcExchangeICR, DpcType, ContextType
<1>10. ASSUME NEW v \in Vectors, NEW p \in Processors, DpcNotify(v, p) PROVE TypeOK'
  <2>1. NoDpc \in DpcType
    BY DEF NoDpc, DpcType
  <2>2. dpc' \in [Vectors -> [Processors -> DpcType]]
    BY <1>10, <2>1, DpcExcept DEF DpcNotify, DpcGoes, DpcType
  <2>3. flush' \in [Queues -> SUBSET (Processors \cup {"message", "isr", "dpc"})]
    BY <1>10, FlushType DEF DpcNotify, DpcGoes
  <2>4. QED
    BY <1>0, <1>10, <2>2, <2>3 DEF DpcNotify, DpcType
<1>11. ASSUME NEW q \in Queues, EvtQueueStart(q) \/ ClientPolls(q) \/ ClientWakes(q)
                                  \/ FlushReturns(q) \/ EvtQueueCancel(q)
                                  \/ EvtQueueStopReturns(q)
       PROVE  TypeOK'
  BY <1>11 DEF EvtQueueStart, ClientPolls, ClientWakes, FlushReturns, EvtQueueCancel,
               EvtQueueStopReturns, ClientGoes, ClientSteps
<1>12. ASSUME NEW q \in Queues, EvtQueueSetNotificationEnabled(q) PROVE TypeOK'
  BY <1>0, <1>12 DEF EvtQueueSetNotificationEnabled, ClientGoes, ClientSteps, LegacyCauses
<1>13. ASSUME NEW q \in Queues, EvtQueueSetNotificationDisabled(q) \/ EvtQueueStop(q)
       PROVE  TypeOK'
  <2>1. Outstanding(q) \subseteq Processors \cup {"message", "isr", "dpc"}
    BY OutstandingType DEF Outstanding
  <2>2. EIMS' \subseteq Vectors /\ IMS' \subseteq LegacyCauses
    BY <1>13 DEF EvtQueueSetNotificationDisabled, EvtQueueStop, SetInterruptFalse
  <2>3. QED
    BY <1>13, <2>1, <2>2
       DEF EvtQueueSetNotificationDisabled, EvtQueueStop, ClientGoes, ClientSteps
<1>14. CASE UNCHANGED vars
  BY <1>14 DEF vars
<1>15. QED
  BY <1>1, <1>2, <1>3, <1>4, <1>5, <1>6, <1>7, <1>8, <1>9, <1>10, <1>11, <1>12, <1>13, <1>14
     DEF Next, ClientStep, EvtInterruptIsr, EvtInterruptDpc

(* The registers, fields and positions keep to what they can hold, and the *)
(* DPC's loop over the bits always finds the queue of one.                 *)
THEOREM TypesHold == Spec => []TypeOK
<1>1. QED
  BY InitTypeOK, NextTypeOK, PTL DEF Spec
-----------------------------------------------------------------------------
(* The inductive invariant. *)

(* A queue is in the adapter's table from start to stop, and the device    *)
(* works for it until it is canceled.                                      *)
ClientsOrdered ==
    \A q \in Queues :
        /\ q \in registered <=> client[q] # "none"
        /\ q \in enabled => client[q] \notin {"none", "canceled", "stopFlush"}

(* An ISR goes on to ICR when OTHER was set in what it read of EICR.       *)
OtherRead ==
    \A v \in Vectors : isr[v].step = "readICR" => mode = "shared" /\ Misc \in isr[v].eicr

(* What is in the ICR field will be taken: by the instance that the ISR is *)
(* about to queue, by the one it queued, or by one that runs and has yet   *)
(* to exchange the field.                                                  *)
Carried(v) ==
    \/ isr[v].step = "queueDpc" /\ Misc \in IsrCauses(v)
    \/ Misc \in context[v].EICR
    \/ \E p \in Processors : dpc[v][p].step = "eicr" /\ Misc \in dpc[v][p].causes

FieldsCarried ==
    \A v \in Vectors :
        /\ context[v].EICR # {} => v \in dpcQueued
        /\ context[v].ICR # {} => Carried(v)

(* With MSI-X a vector has no cause but its own, only the misc vector has  *)
(* legacy causes, and a DPC is queued for a cause.                         *)
OwnCauses ==
    /\ Misc \in EIMS
    /\ \A v \in Vectors :
        /\ context[v].EICR \subseteq {v}
        /\ v \in dpcQueued => v \in context[v].EICR
        /\ v # Misc => context[v].ICR = {}
        /\ \A p \in Processors :
             /\ dpc[v][p].step = "eicr" => dpc[v][p].causes \subseteq {v}
             /\ dpc[v][p].step = "icr" => v = Misc

OneInstance ==
    \A v \in Vectors, p, other \in Processors :
        p # other => dpc[v][p] = NoDpc \/ dpc[v][other] = NoDpc

(* A queue that is being stopped, or is stopped, and what its              *)
(* KeFlushQueuedDpcs still waits for.                                      *)
Leaving(q) == client[q] \in {"none", "stopFlush"}
Awaited(q) == IF client[q] = "stopFlush" THEN flush[q] ELSE {}

(* For the vector of a receive queue that is left, nothing is under way    *)
(* that is not waited for, and nothing new is sent.                        *)
RxAwaited ==
    \A q \in RxQueues : Leaving(q) =>
        /\ q \notin EIMS
        /\ KeFlushQueuedDpcs(q) \subseteq Awaited(q)

(* On the misc vector other causes go on, so that not all that is under    *)
(* way is waited for; but what is ahead of something waited for is.        *)
AwaitedInOrder ==
    Leaving(Tx) =>
        /\ "message" \in Awaited(Tx) => (isr[Misc].step # "none" => "isr" \in Awaited(Tx))
        /\ Awaited(Tx) \cap {"message", "isr"} # {}
             => (Misc \in dpcQueued => "dpc" \in Awaited(Tx))
        /\ Awaited(Tx) \cap {"message", "isr", "dpc"} # {}
             => \A p \in Processors : dpc[Misc][p].step # "none" => p \in Awaited(Tx)

(* A TXDW that is latched has its message. *)
TxAnnounced == TXDW \in ICR => Misc \in EICR \cup msg

(* The last TXDW is carried by what is waited for. *)
TxAwaited ==
    Leaving(Tx) =>
        /\ TXDW \in ICR => "message" \in Awaited(Tx)
        /\ TXDW \in context[Misc].ICR =>
             \/ isr[Misc].step = "queueDpc" /\ "isr" \in Awaited(Tx)
             \/ Misc \in dpcQueued /\ "dpc" \in Awaited(Tx)
             \/ \E p \in Awaited(Tx) \cap Processors :
                  dpc[Misc][p].step = "eicr" /\ Misc \in dpc[Misc][p].causes
        /\ \A p \in Processors :
             dpc[Misc][p].step = "icr" /\ TXDW \in dpc[Misc][p].causes => p \in Awaited(Tx)

Invariant ==
    /\ TypeOK /\ ClientsOrdered /\ OtherRead /\ FieldsCarried
    /\ mode = "msix" => OwnCauses
    /\ ~overlap => OneInstance
    /\ mode = "msix" => RxAwaited /\ TxAnnounced
    /\ mode = "msix" /\ ~overlap => AwaitedInOrder /\ TxAwaited
-----------------------------------------------------------------------------
(* The steps. *)

(* Outside the ISR and the DPC the handlers' state is not touched; the     *)
(* configuration never is.                                                 *)
LEMMA HandlersStay ==
    ASSUME [Next]_vars,
           ~ \E v \in Vectors : \/ EvtInterruptIsr(v)
                                \/ \E p \in Processors : DpcExchangeEICR(v, p)
                                                           \/ EvtInterruptDpc(v, p)
    PROVE  UNCHANGED <<adapter, handlers>>
<1> USE DEF adapter, handlers
<1>1. ASSUME NEW q \in Queues, DeviceCompletes(q) \/ EvtQueueStart(q) \/ EvtQueueCancel(q)
                                 \/ ClientStep(q)
      PROVE  UNCHANGED <<adapter, handlers>>
  BY <1>1 DEF DeviceCompletes, EvtQueueStart, EvtQueueCancel, ClientStep, ClientPolls,
              ClientWakes, EvtQueueSetNotificationEnabled, EvtQueueSetNotificationDisabled,
              FlushReturns, EvtQueueStop, EvtQueueStopReturns
<1>2. ASSUME NEW v \in Vectors, DeviceSends(v) PROVE UNCHANGED <<adapter, handlers>>
  BY <1>2 DEF DeviceSends
<1>3. LinkChanges => UNCHANGED <<adapter, handlers>>
  BY DEF LinkChanges
<1>4. QED
  BY <1>1, <1>2, <1>3 DEF Next, vars

LEMMA AdapterStays ==
    ASSUME [Next]_vars
    PROVE  UNCHANGED adapter
<1>1. ASSUME NEW v \in Vectors, EvtInterruptIsr(v) PROVE UNCHANGED adapter
  BY <1>1 DEF EvtInterruptIsr, IsrReadEICR, IsrReadICR, IsrQueueDpc
<1>2. ASSUME NEW v \in Vectors, NEW p \in Processors, DpcExchangeEICR(v, p) \/ EvtInterruptDpc(v, p)
      PROVE  UNCHANGED adapter
  BY <1>2 DEF DpcExchangeEICR, EvtInterruptDpc, DpcNotifyRx, DpcExchangeICR, DpcNotify
<1>3. QED
  BY <1>1, <1>2, HandlersStay

(* What the steps of an ISR and of a DPC do, vector by vector. *)
OthersKeep(v) ==
    \A w \in Vectors : w # v => isr'[w] = isr[w] /\ context'[w] = context[w] /\ dpc'[w] = dpc[w]

IsrType == [step: {"none", "readICR", "queueDpc"}, eicr: SUBSET Vectors]

LEMMA HandlerTypes ==
    TypeOK => /\ isr \in [Vectors -> IsrType] /\ context \in [Vectors -> ContextType]
              /\ dpc \in [Vectors -> [Processors -> DpcType]]
BY DEF TypeOK, IsrType, ContextType, DpcType

LEMMA IsrReadEICRDoes ==
    ASSUME TypeOK, NEW v \in Vectors, IsrReadEICR(v)
    PROVE  /\ OthersKeep(v) /\ isr[v].step = "none" /\ mode = "shared"
           /\ isr'[v].step = "readICR" => Misc \in isr'[v].eicr
           /\ UNCHANGED <<context, dpcQueued, dpc>>
<1>1. isr[v].step = "none" /\ mode = "shared" /\ UNCHANGED <<context, dpcQueued, dpc>>
  BY DEF IsrReadEICR, Called
<1>2. PICK eicr : isr' = [isr EXCEPT ![v] =
                            [step |-> IF eicr = {} THEN "none"
                                      ELSE IF Misc \in eicr THEN "readICR" ELSE "queueDpc",
                             eicr |-> eicr]]
  BY DEF IsrReadEICR
<1>3. /\ isr'[v].step = "readICR" => Misc \in isr'[v].eicr
      /\ \A w \in Vectors : w # v => isr'[w] = isr[w]
  BY <1>1, <1>2, HandlerTypes
<1>4. QED
  BY <1>1, <1>3 DEF OthersKeep

LEMMA IsrReadICRDoes ==
    ASSUME TypeOK, NEW v \in Vectors, IsrReadICR(v)
    PROVE  /\ OthersKeep(v)
           /\ isr'[v].step = "queueDpc" /\ isr'[v].eicr = isr[v].eicr
           /\ context'[v].ICR = context[v].ICR \cup ICR
           /\ context'[v].EICR = context[v].EICR
           /\ UNCHANGED <<dpcQueued, dpc>>
<1>1. /\ isr' = [isr EXCEPT ![v].step = "queueDpc"]
      /\ context' = [context EXCEPT ![v].ICR = context[v].ICR \cup ICR]
      /\ UNCHANGED <<dpcQueued, dpc>>
  BY DEF IsrReadICR, IsrGoes, Or
<1>2. isr'[v].step = "queueDpc" /\ isr'[v].eicr = isr[v].eicr
      /\ \A w \in Vectors : w # v => isr'[w] = isr[w]
  BY ONLY <1>1, HandlerTypes, TypeOK, v \in Vectors DEF IsrType
<1>3. /\ context'[v].ICR = context[v].ICR \cup ICR /\ context'[v].EICR = context[v].EICR
      /\ \A w \in Vectors : w # v => context'[w] = context[w]
  BY ONLY <1>1, HandlerTypes, TypeOK, v \in Vectors DEF ContextType
<1>4. QED
  BY <1>1, <1>2, <1>3 DEF OthersKeep

LEMMA IsrQueueDpcDoes ==
    ASSUME TypeOK, NEW v \in Vectors, IsrQueueDpc(v)
    PROVE  /\ OthersKeep(v)
           /\ isr'[v].step = "none"
           /\ context'[v].EICR = context[v].EICR \cup IsrCauses(v)
           /\ context'[v].ICR = context[v].ICR
           /\ dpcQueued' = dpcQueued \cup {v}
           /\ UNCHANGED dpc
<1>1. /\ isr' = [isr EXCEPT ![v] = NoIsr]
      /\ context' = [context EXCEPT ![v].EICR = context[v].EICR \cup IsrCauses(v)]
      /\ dpcQueued' = dpcQueued \cup {v} /\ UNCHANGED dpc
  BY DEF IsrQueueDpc, Or
<1>2. isr'[v].step = "none" /\ \A w \in Vectors : w # v => isr'[w] = isr[w]
  BY ONLY <1>1, HandlerTypes, TypeOK, v \in Vectors DEF NoIsr
<1>3. /\ context'[v].EICR = context[v].EICR \cup IsrCauses(v)
      /\ context'[v].ICR = context[v].ICR
      /\ \A w \in Vectors : w # v => context'[w] = context[w]
  BY ONLY <1>1, HandlerTypes, TypeOK, v \in Vectors DEF ContextType
<1>4. QED
  BY <1>1, <1>2, <1>3 DEF OthersKeep

(* An instance p of the DPC of v goes on, the other instances do not. *)
OnlyInstance(v, p) == \A r \in Processors : r # p => dpc'[v][r] = dpc[v][r]
InstanceBecomes(v, p, local) == dpc' = [dpc EXCEPT ![v][p] = local]

LEMMA InstanceGoes ==
    ASSUME TypeOK, NEW v \in Vectors, NEW p \in Processors, NEW local,
           InstanceBecomes(v, p, local)
    PROVE  /\ dpc'[v][p] = local /\ OnlyInstance(v, p)
           /\ \A w \in Vectors : w # v => dpc'[w] = dpc[w]
<1>1. dpc \in [Vectors -> [Processors -> DpcType]]
  BY HandlerTypes
<1>2. QED
  BY ONLY <1>1, v \in Vectors, p \in Processors, InstanceBecomes(v, p, local)
     DEF OnlyInstance, InstanceBecomes

LEMMA DpcExchangeEICRDoes ==
    ASSUME TypeOK, NEW v \in Vectors, NEW p \in Processors, DpcExchangeEICR(v, p)
    PROVE  /\ OthersKeep(v) /\ OnlyInstance(v, p)
           /\ v \in dpcQueued /\ dpcQueued' = dpcQueued \ {v}
           /\ context'[v].EICR = {} /\ context'[v].ICR = context[v].ICR
           /\ dpc[v][p].step = "none"
           /\ dpc'[v][p].step = "eicr" /\ dpc'[v][p].causes = context[v].EICR
           /\ UNCHANGED isr
<1>1. /\ context' = [context EXCEPT ![v].EICR = {}]
      /\ v \in dpcQueued /\ dpcQueued' = dpcQueued \ {v} /\ UNCHANGED isr
  BY DEF DpcExchangeEICR
<1>2. PICK local : /\ local = [step |-> "eicr", causes |-> context[v].EICR]
                   /\ InstanceBecomes(v, p, local)
  BY DEF DpcExchangeEICR, InstanceBecomes
<1>3. dpc[v][p].step = "none"
  BY DEF DpcExchangeEICR, NoDpc
<1>4. /\ dpc'[v][p].step = "eicr" /\ dpc'[v][p].causes = context[v].EICR
      /\ OnlyInstance(v, p) /\ \A w \in Vectors : w # v => dpc'[w] = dpc[w]
  BY <1>2, InstanceGoes
<1>5. /\ context'[v].EICR = {} /\ context'[v].ICR = context[v].ICR
      /\ \A w \in Vectors : w # v => context'[w] = context[w]
  BY ONLY <1>1, HandlerTypes, TypeOK, v \in Vectors DEF ContextType
<1>6. QED
  BY <1>1, <1>3, <1>4, <1>5 DEF OthersKeep

LEMMA DpcNotifyRxDoes ==
    ASSUME TypeOK, NEW v \in Vectors, NEW p \in Processors, DpcNotifyRx(v, p)
    PROVE  /\ OthersKeep(v) /\ OnlyInstance(v, p)
           /\ dpc[v][p].step = "eicr" /\ dpc'[v][p].step = "eicr"
           /\ \E q \in dpc[v][p].causes \cap RxQueues :
                dpc'[v][p].causes = dpc[v][p].causes \ {q}
           /\ UNCHANGED <<isr, context, dpcQueued, flush>>
<1>0. PICK q \in dpc[v][p].causes \cap RxQueues : \E local :
        /\ local = [dpc[v][p] EXCEPT !.causes = dpc[v][p].causes \ {q}]
        /\ DpcGoes(v, p, local) /\ InstanceBecomes(v, p, local)
  BY NextRxType DEF DpcNotifyRx, DpcGoes, InstanceBecomes
<1>1. PICK local :
        /\ local = [dpc[v][p] EXCEPT !.causes = dpc[v][p].causes \ {q}]
        /\ DpcGoes(v, p, local) /\ InstanceBecomes(v, p, local)
  BY <1>0
<1>2. dpc[v][p].step = "eicr" /\ UNCHANGED <<isr, context, dpcQueued>>
  BY DEF DpcNotifyRx
<1>3. local.step = "eicr" /\ local.causes = dpc[v][p].causes \ {q}
  BY <1>1, <1>2, HandlerTypes DEF DpcType
<1>4. local # NoDpc
  BY <1>3 DEF NoDpc
<1>5. UNCHANGED flush
  BY <1>1, <1>4 DEF DpcGoes
<1>6. /\ dpc'[v][p] = local /\ OnlyInstance(v, p)
      /\ \A w \in Vectors : w # v => dpc'[w] = dpc[w]
  BY <1>1, InstanceGoes
<1>7. QED
  BY <1>2, <1>3, <1>5, <1>6 DEF OthersKeep

LEMMA DpcExchangeICRDoes ==
    ASSUME TypeOK, NEW v \in Vectors, NEW p \in Processors, DpcExchangeICR(v, p)
    PROVE  /\ OthersKeep(v) /\ OnlyInstance(v, p)
           /\ dpc[v][p].step = "eicr" /\ dpc[v][p].causes = {Misc}
           /\ dpc'[v][p].step = "icr" /\ dpc'[v][p].causes = context[v].ICR
           /\ context'[v].ICR = {} /\ context'[v].EICR = context[v].EICR
           /\ UNCHANGED <<isr, dpcQueued, flush>>
<1>1. PICK local : /\ local = [step |-> "icr", causes |-> context[v].ICR]
                   /\ DpcGoes(v, p, local) /\ InstanceBecomes(v, p, local)
  BY DEF DpcExchangeICR, DpcGoes, InstanceBecomes
<1>2. /\ dpc[v][p].step = "eicr" /\ dpc[v][p].causes = {Misc}
      /\ context' = [context EXCEPT ![v].ICR = {}] /\ UNCHANGED <<isr, dpcQueued>>
  BY DEF DpcExchangeICR
<1>3. local # NoDpc
  BY <1>1 DEF NoDpc
<1>4. UNCHANGED flush
  BY <1>1, <1>3 DEF DpcGoes
<1>5. /\ dpc'[v][p] = local /\ OnlyInstance(v, p)
      /\ \A w \in Vectors : w # v => dpc'[w] = dpc[w]
  BY <1>1, InstanceGoes
<1>6. /\ context'[v].ICR = {} /\ context'[v].EICR = context[v].EICR
      /\ \A w \in Vectors : w # v => context'[w] = context[w]
  BY ONLY <1>2, HandlerTypes, TypeOK, v \in Vectors DEF ContextType
<1>7. QED
  BY <1>1, <1>2, <1>4, <1>5, <1>6 DEF OthersKeep

LEMMA DpcNotifyDoes ==
    ASSUME TypeOK, NEW v \in Vectors, NEW p \in Processors, DpcNotify(v, p)
    PROVE  /\ OthersKeep(v) /\ OnlyInstance(v, p)
           /\ dpc[v][p].step = "icr" \/ dpc[v][p].causes = {}
           /\ dpc'[v][p] = NoDpc
           /\ FlushGoes(v, p, {})
           /\ UNCHANGED <<isr, context, dpcQueued>>
<1>1. DpcGoes(v, p, NoDpc) /\ UNCHANGED <<isr, context, dpcQueued>>
  BY DEF DpcNotify
<1>2. /\ dpc'[v][p] = NoDpc /\ OnlyInstance(v, p)
      /\ \A w \in Vectors : w # v => dpc'[w] = dpc[w]
  BY <1>1, InstanceGoes DEF DpcGoes, InstanceBecomes
<1>3. QED
  BY <1>1, <1>2 DEF OthersKeep, DpcNotify, DpcGoes
-----------------------------------------------------------------------------
(* The fields of a context. *)

LEMMA InitFieldsCarried == Init => OtherRead /\ FieldsCarried
BY DEF Init, OtherRead, FieldsCarried, NoIsr

(* A cause that is put in the ICR field has, or is followed by, an OTHER   *)
(* in the EICR field; the DPC takes the two in the opposite order.         *)
LEMMA NextFieldsCarried ==
    ASSUME TypeOK, OtherRead, FieldsCarried, [Next]_vars
    PROVE  OtherRead' /\ FieldsCarried'
<1> USE DEF OtherRead, FieldsCarried, Carried, IsrCauses, OthersKeep
<1>0. UNCHANGED adapter
  BY AdapterStays
<1>00. UNCHANGED mode
  BY <1>0 DEF adapter
<1>1. ASSUME NEW v \in Vectors, IsrReadEICR(v) PROVE OtherRead' /\ FieldsCarried'
  BY <1>00, <1>1, IsrReadEICRDoes
<1>2. ASSUME NEW v \in Vectors, IsrReadICR(v) PROVE OtherRead' /\ FieldsCarried'
  <2>1. isr[v].step = "readICR" \/ (mode = "msix" /\ v = Misc)
    BY <1>2 DEF IsrReadICR
  <2>2. Carried(v)'
    BY <1>00, <1>2, <2>1, IsrReadICRDoes
  <2>3. QED
    BY <1>00, <1>2, <2>2, IsrReadICRDoes
<1>3. ASSUME NEW v \in Vectors, IsrQueueDpc(v) PROVE OtherRead' /\ FieldsCarried'
  <2>1. context'[v].ICR # {} => Carried(v)'
    BY <1>3, IsrQueueDpcDoes
  <2>2. QED
    BY <1>00, <1>3, <2>1, IsrQueueDpcDoes
<1>4. ASSUME NEW v \in Vectors, NEW p \in Processors, DpcExchangeEICR(v, p)
      PROVE  OtherRead' /\ FieldsCarried'
  <2>1. context'[v].ICR # {} => Carried(v)'
    BY <1>00, <1>4, DpcExchangeEICRDoes DEF OnlyInstance
  <2>2. QED
    BY <1>00, <1>4, <2>1, DpcExchangeEICRDoes
<1>5. ASSUME NEW v \in Vectors, NEW p \in Processors, DpcNotifyRx(v, p)
      PROVE  OtherRead' /\ FieldsCarried'
  <2>1. context'[v].ICR # {} => Carried(v)'
    BY <1>00, <1>5, DpcNotifyRxDoes, ConstantsAssumption DEF OnlyInstance
  <2>2. QED
    BY <1>00, <1>5, <2>1, DpcNotifyRxDoes
<1>6. ASSUME NEW v \in Vectors, NEW p \in Processors, DpcExchangeICR(v, p)
      PROVE  OtherRead' /\ FieldsCarried'
  BY <1>00, <1>6, DpcExchangeICRDoes
<1>7. ASSUME NEW v \in Vectors, NEW p \in Processors, DpcNotify(v, p)
      PROVE  OtherRead' /\ FieldsCarried'
  <2>1. context'[v].ICR # {} => Carried(v)'
    BY <1>00, <1>7, DpcNotifyDoes DEF OnlyInstance
  <2>2. QED
    BY <1>00, <1>7, <2>1, DpcNotifyDoes
<1>8. CASE UNCHANGED handlers
  BY <1>00, <1>8 DEF handlers
<1>9. QED
  BY <1>1, <1>2, <1>3, <1>4, <1>5, <1>6, <1>7, <1>8, HandlersStay
     DEF EvtInterruptIsr, EvtInterruptDpc

(* Whatever the mode and the number of instances, no cause stays behind in *)
(* an IGB_INTERRUPT with nobody to take it.                                *)
THEOREM CausesNotStranded == Spec => []NothingStranded
<1> DEFINE Fields == OtherRead /\ FieldsCarried
<1>1. Init => Fields
  BY InitFieldsCarried
<1>2. TypeOK /\ Fields /\ [Next]_vars => Fields'
  BY NextFieldsCarried
<1>3. TypeOK /\ Fields => NothingStranded
  <2> SUFFICES ASSUME TypeOK, Fields, NEW v \in Vectors, context[v].ICR # {}
               PROVE  \/ isr[v].step = "queueDpc" \/ v \in dpcQueued
                      \/ \E p \in Processors :
                           dpc[v][p].step = "eicr" /\ Misc \in dpc[v][p].causes
    BY DEF NothingStranded, FieldsCarried
  <2> QED
    BY DEF FieldsCarried, Carried
<1>4. QED
  <2>1. TypeOK /\ Fields /\ [Next]_vars => Fields'
    BY <1>2
  <2>2. QED
    BY <1>1, <2>1, <1>3, TypesHold, PTL DEF Spec
-----------------------------------------------------------------------------
(* The notifications of queues that are stopped. *)

LEMMA InitInvariant == Init => Invariant
<1> SUFFICES ASSUME Init PROVE Invariant
  OBVIOUS
<1>1. TypeOK /\ OtherRead /\ FieldsCarried
  BY InitTypeOK, InitFieldsCarried
<1>2. ClientsOrdered
  BY DEF Init, ClientsOrdered
<1>3. \A v \in Vectors, p \in Processors : dpc[v][p].step = "none" /\ dpc[v][p] = NoDpc
  BY DEF Init, NoDpc
<1>4. mode = "msix" => OwnCauses
  BY <1>3 DEF Init, OwnCauses
<1>5. OneInstance
  BY <1>3 DEF OneInstance
<1>6. \A v \in Vectors : isr[v].step = "none" /\ context[v].ICR = {}
  BY DEF Init, NoIsr
<1>7. mode = "msix" => RxAwaited
  BY <1>3, <1>6, ConstantsAssumption
     DEF Init, RxAwaited, KeFlushQueuedDpcs, VectorOf, Vectors
<1>8. AwaitedInOrder
  BY <1>3, <1>6 DEF Init, AwaitedInOrder, Vectors
<1>9. TxAnnounced /\ TxAwaited
  BY <1>3, <1>6 DEF Init, TxAnnounced, TxAwaited, Vectors
<1>10. QED
  BY <1>1, <1>2, <1>4, <1>5, <1>7, <1>8, <1>9 DEF Invariant

(* The clients' part of the state is changed by the client only. *)
LEMMA ClientsStay ==
    ASSUME [Next]_vars,
           ~ \E q \in Queues : EvtQueueStart(q) \/ EvtQueueCancel(q) \/ ClientStep(q)
    PROVE  UNCHANGED <<client, registered, enabled>>
<1> USE DEF clients
<1>1. LinkChanges => UNCHANGED <<client, registered, enabled>>
  BY DEF LinkChanges
<1>2. ASSUME NEW q \in Queues, DeviceCompletes(q)
      PROVE  UNCHANGED <<client, registered, enabled>>
  BY <1>2 DEF DeviceCompletes
<1>3. ASSUME NEW v \in Vectors, DeviceSends(v) \/ EvtInterruptIsr(v)
      PROVE  UNCHANGED <<client, registered, enabled>>
  BY <1>3 DEF DeviceSends, EvtInterruptIsr, IsrReadEICR, IsrReadICR, IsrQueueDpc
<1>4. ASSUME NEW v \in Vectors, NEW p \in Processors,
             DpcExchangeEICR(v, p) \/ EvtInterruptDpc(v, p)
      PROVE  UNCHANGED <<client, registered, enabled>>
  BY <1>4 DEF DpcExchangeEICR, EvtInterruptDpc, DpcNotifyRx, DpcExchangeICR, DpcNotify
<1>5. QED
  BY <1>1, <1>2, <1>3, <1>4 DEF Next, vars

(* What a step of the client of q does to where it is. *)
LEMMA ClientStepDoes ==
    ASSUME TypeOK, NEW q \in Queues, EvtQueueStart(q) \/ EvtQueueCancel(q) \/ ClientStep(q)
    PROVE  /\ \A r \in Queues : r # q => client'[r] = client[r] /\ flush'[r] = flush[r]
           /\ UNCHANGED <<ICR, EICR, msg>>
           /\ \/ EvtQueueStart(q) /\ client'[q] = "poll"
              \/ EvtQueueCancel(q) /\ client'[q] = "canceled"
              \/ EvtQueueStop(q) /\ client[q] = "canceled" /\ client'[q] = "stopFlush"
              \/ EvtQueueStopReturns(q) /\ client[q] = "stopFlush" /\ client'[q] = "none"
                   /\ flush[q] = {} /\ flush'[q] = {}
              \/ /\ client[q] \notin {"none", "canceled", "stopFlush"}
                 /\ client'[q] \notin {"none", "canceled", "stopFlush"}
                 /\ UNCHANGED <<registered, enabled>>
<1> USE DEF TypeOK, ClientGoes, device
<1>1. CASE EvtQueueStart(q) \/ EvtQueueCancel(q)
  BY <1>1 DEF EvtQueueStart, EvtQueueCancel
<1>2. CASE EvtQueueStop(q) \/ EvtQueueStopReturns(q)
  BY <1>2 DEF EvtQueueStop, EvtQueueStopReturns
<1>3. CASE ClientPolls(q) \/ ClientWakes(q) \/ FlushReturns(q)
  BY <1>3 DEF ClientPolls, ClientWakes, FlushReturns
<1>4. CASE EvtQueueSetNotificationEnabled(q) \/ EvtQueueSetNotificationDisabled(q)
  BY <1>4 DEF EvtQueueSetNotificationEnabled, EvtQueueSetNotificationDisabled
<1>5. QED
  BY <1>1, <1>2, <1>3, <1>4 DEF ClientStep

LEMMA NextClientsOrdered ==
    ASSUME TypeOK, ClientsOrdered, [Next]_vars
    PROVE  ClientsOrdered'
<1>1. ASSUME NEW q \in Queues, EvtQueueStart(q) \/ EvtQueueCancel(q) \/ ClientStep(q)
      PROVE  ClientsOrdered'
  <2>1. \A r \in Queues : r # q => client'[r] = client[r]
    BY <1>1, ClientStepDoes
  <2>2. CASE EvtQueueStart(q) /\ client'[q] = "poll"
    BY <2>1, <2>2 DEF EvtQueueStart, ClientsOrdered
  <2>3. CASE EvtQueueCancel(q) /\ client'[q] = "canceled"
    BY <1>1, <2>1, <2>3 DEF EvtQueueCancel, ClientsOrdered
  <2>4. CASE EvtQueueStop(q) /\ client[q] = "canceled" /\ client'[q] = "stopFlush"
    BY <2>1, <2>4 DEF EvtQueueStop, ClientsOrdered
  <2>5. CASE EvtQueueStopReturns(q) /\ client[q] = "stopFlush" /\ client'[q] = "none"
    BY <2>1, <2>5 DEF EvtQueueStopReturns, ClientsOrdered
  <2>6. CASE /\ client[q] \notin {"none", "canceled", "stopFlush"}
             /\ client'[q] \notin {"none", "canceled", "stopFlush"}
             /\ UNCHANGED <<registered, enabled>>
    BY <2>1, <2>6 DEF ClientsOrdered
  <2>7. QED
    BY <1>1, <2>2, <2>3, <2>4, <2>5, <2>6, ClientStepDoes
<1>2. CASE UNCHANGED <<client, registered, enabled>>
  BY <1>2 DEF ClientsOrdered
<1>3. QED
  BY <1>1, <1>2, ClientsStay

(* Without overlap a second instance starts when the first has ended. *)
LEMMA NextOneInstance ==
    ASSUME TypeOK, ~overlap, OneInstance, [Next]_vars
    PROVE  OneInstance'
<1> USE DEF OneInstance, OthersKeep
<1>1. ASSUME NEW v \in Vectors, EvtInterruptIsr(v) PROVE OneInstance'
  BY <1>1, IsrReadEICRDoes, IsrReadICRDoes, IsrQueueDpcDoes DEF EvtInterruptIsr
<1>2. ASSUME NEW v \in Vectors, NEW p \in Processors, DpcExchangeEICR(v, p) PROVE OneInstance'
  <2>1. \A other \in Processors : dpc[v][other] = NoDpc
    BY <1>2 DEF DpcExchangeEICR
  <2>2. QED
    BY <1>2, <2>1, DpcExchangeEICRDoes DEF OnlyInstance
<1>3. ASSUME NEW v \in Vectors, NEW p \in Processors, EvtInterruptDpc(v, p) PROVE OneInstance'
  <2>1. OthersKeep(v) /\ OnlyInstance(v, p)
    BY <1>3, DpcNotifyRxDoes, DpcExchangeICRDoes, DpcNotifyDoes DEF EvtInterruptDpc
  <2>2. dpc'[v][p] = NoDpc \/ dpc[v][p] # NoDpc
    <3>1. DpcNotifyRx(v, p) \/ DpcExchangeICR(v, p) => dpc[v][p].step = "eicr"
      BY DpcNotifyRxDoes, DpcExchangeICRDoes
    <3>2. QED
      BY <1>3, <3>1, DpcNotifyDoes DEF EvtInterruptDpc, NoDpc
  <2>3. QED
    BY <2>1, <2>2 DEF OnlyInstance
<1>4. CASE UNCHANGED handlers
  BY <1>4 DEF handlers
<1>5. QED
  BY <1>1, <1>2, <1>3, <1>4, HandlersStay

(* The misc vector is never masked. *)
LEMMA MiscStaysEnabled ==
    ASSUME TypeOK, mode = "msix", Misc \in EIMS, [Next]_vars
    PROVE  Misc \in EIMS'
<1> USE DEF device
<1>1. ASSUME NEW q \in Queues, DeviceCompletes(q) \/ EvtQueueStart(q) \/ EvtQueueCancel(q)
                                 \/ ClientPolls(q) \/ ClientWakes(q) \/ FlushReturns(q)
                                 \/ EvtQueueStopReturns(q)
      PROVE  Misc \in EIMS'
  BY <1>1 DEF DeviceCompletes, EvtQueueStart, EvtQueueCancel, ClientPolls, ClientWakes,
              FlushReturns, EvtQueueStopReturns
<1>2. ASSUME NEW q \in Queues, EvtQueueSetNotificationEnabled(q)
                                 \/ EvtQueueSetNotificationDisabled(q) \/ EvtQueueStop(q)
      PROVE  Misc \in EIMS'
  BY <1>2, ConstantsAssumption
     DEF EvtQueueSetNotificationEnabled, EvtQueueSetNotificationDisabled, EvtQueueStop,
         SetInterruptFalse
<1>3. ASSUME NEW v \in Vectors, DeviceSends(v) PROVE Misc \in EIMS'
  BY <1>3, ConstantsAssumption DEF DeviceSends
<1>4. ASSUME NEW v \in Vectors, EvtInterruptIsr(v) PROVE Misc \in EIMS'
  BY <1>4 DEF EvtInterruptIsr, IsrReadEICR, IsrReadICR, IsrQueueDpc
<1>5. ASSUME NEW v \in Vectors, NEW p \in Processors,
             DpcExchangeEICR(v, p) \/ EvtInterruptDpc(v, p)
      PROVE  Misc \in EIMS'
  BY <1>5 DEF DpcExchangeEICR, EvtInterruptDpc, DpcNotifyRx, DpcExchangeICR, DpcNotify
<1>6. LinkChanges => Misc \in EIMS'
  BY DEF LinkChanges
<1>7. UNCHANGED vars => Misc \in EIMS'
  BY DEF vars
<1>8. QED
  BY <1>1, <1>2, <1>3, <1>4, <1>5, <1>6, <1>7 DEF Next, ClientStep

LEMMA NextOwnCauses ==
    ASSUME TypeOK, OtherRead, mode = "msix", OwnCauses, [Next]_vars
    PROVE  OwnCauses'
<1> USE DEF OwnCauses, OthersKeep, OnlyInstance
<1>0. Misc \in EIMS'
  BY MiscStaysEnabled
<1>1. ASSUME NEW v \in Vectors, IsrReadICR(v) PROVE OwnCauses'
  <2>1. v = Misc
    BY <1>1 DEF IsrReadICR, OtherRead
  <2>2. QED
    BY <1>0, <1>1, <2>1, IsrReadICRDoes
<1>2. ASSUME NEW v \in Vectors, IsrQueueDpc(v) PROVE OwnCauses'
  BY <1>0, <1>2, IsrQueueDpcDoes DEF IsrCauses
<1>3. ASSUME NEW v \in Vectors, NEW p \in Processors, DpcExchangeEICR(v, p) PROVE OwnCauses'
  BY <1>0, <1>3, DpcExchangeEICRDoes
<1>4. ASSUME NEW v \in Vectors, NEW p \in Processors, DpcNotifyRx(v, p) PROVE OwnCauses'
  BY <1>0, <1>4, DpcNotifyRxDoes
<1>5. ASSUME NEW v \in Vectors, NEW p \in Processors, DpcExchangeICR(v, p) PROVE OwnCauses'
  <2>1. v = Misc
    BY <1>5, DpcExchangeICRDoes
  <2>2. QED
    BY <1>0, <1>5, <2>1, DpcExchangeICRDoes
<1>6. ASSUME NEW v \in Vectors, NEW p \in Processors, DpcNotify(v, p) PROVE OwnCauses'
  BY <1>0, <1>6, DpcNotifyDoes DEF NoDpc
<1>7. CASE UNCHANGED handlers
  BY <1>0, <1>7 DEF handlers
<1>8. ASSUME NEW v \in Vectors, IsrReadEICR(v) PROVE FALSE
  BY <1>8 DEF IsrReadEICR
<1>9. QED
  BY <1>1, <1>2, <1>3, <1>4, <1>5, <1>6, <1>7, <1>8, HandlersStay
     DEF EvtInterruptIsr, EvtInterruptDpc

(* With MSI-X a queue's flush waits for the vector that is its own, or the *)
(* misc vector for the transmit queue.                                     *)
LEMMA MsixVectorOf ==
    ASSUME mode = "msix"
    PROVE  VectorOf(Tx) = Misc /\ \A q \in RxQueues : VectorOf(q) = q
BY ConstantsAssumption DEF VectorOf

(* What a flush waits for is one of the processors, or none of them. *)
LEMMA PlacesDiffer ==
    \A p \in Processors : p # "message" /\ p # "isr" /\ p # "dpc"
BY ConstantsAssumption

(* The vector of a receive queue that is left does not become busy but by  *)
(* what its KeFlushQueuedDpcs waits for.                                   *)
LEMMA NextRxAwaited ==
    ASSUME TypeOK, OtherRead, mode = "msix", OwnCauses, RxAwaited, [Next]_vars
    PROVE  RxAwaited'
<1> SUFFICES ASSUME NEW q \in RxQueues, Leaving(q)'
             PROVE  q \notin EIMS' /\ KeFlushQueuedDpcs(q)' \subseteq Awaited(q)'
  BY DEF RxAwaited
<1>0. /\ mode' = mode /\ q \in Queues /\ q \in Vectors /\ q # Misc /\ q # Tx
      /\ VectorOf(q) = q /\ VectorOf(q)' = q
  BY AdapterStays, MsixVectorOf, ConstantsAssumption DEF adapter, Queues, Vectors, VectorOf
<1> DEFINE Busy == KeFlushQueuedDpcs(q)
<1>00. /\ \A p \in Processors : /\ p \in Busy <=> dpc[q][p].step # "none"
                                /\ p \in Busy' <=> dpc'[q][p].step # "none"
       /\ "message" \in Busy <=> q \in msg
       /\ "message" \in Busy' <=> q \in msg'
       /\ "isr" \in Busy <=> isr[q].step # "none"
       /\ "isr" \in Busy' <=> isr'[q].step # "none"
       /\ "dpc" \in Busy <=> q \in dpcQueued
       /\ "dpc" \in Busy' <=> q \in dpcQueued'
       /\ Busy' \subseteq Processors \cup {"message", "isr", "dpc"}
  BY <1>0, PlacesDiffer DEF KeFlushQueuedDpcs
<1>1. Leaving(q) => q \notin EIMS /\ Busy \subseteq Awaited(q)
  BY DEF RxAwaited
<1> HIDE DEF Busy
<1> DEFINE Goal == q \notin EIMS' /\ Busy' \subseteq Awaited(q)'
<1>2. /\ client'[q] = client[q] => Leaving(q)
      /\ client'[q] = client[q] /\ flush'[q] = flush[q] => Awaited(q)' = Awaited(q)
  BY DEF Leaving, Awaited
<1>3. ASSUME UNCHANGED <<EIMS, msg, handlers, client, flush>> PROVE Goal
  <2>1. Busy' \subseteq Busy
    BY <1>3, <1>00 DEF handlers
  <2>2. QED
    BY <1>1, <1>2, <1>3, <2>1
<1>4. ASSUME EvtQueueStop(q) PROVE Goal
  <2>1. UNCHANGED <<msg, handlers>> /\ flush'[q] = Outstanding(q) /\ q \notin EIMS'
    BY <1>0, <1>4 DEF EvtQueueStop, SetInterruptFalse, TypeOK
  <2>2. client'[q] = "stopFlush"
    BY <1>0, <1>4 DEF EvtQueueStop, ClientGoes, TypeOK
  <2>3. Busy' \subseteq Busy
    BY <1>00, <2>1 DEF handlers
  <2>4. Awaited(q)' = Busy
    BY <2>1, <2>2 DEF Awaited, Outstanding, Busy
  <2>5. QED
    BY <2>1, <2>3, <2>4
<1>5. ASSUME EvtQueueStopReturns(q) PROVE Goal
  <2>1. UNCHANGED <<EIMS, msg, handlers>> /\ flush[q] = {} /\ client[q] = "stopFlush"
    BY <1>5 DEF EvtQueueStopReturns, device
  <2>2. Busy = {} /\ q \notin EIMS
    BY <1>1, <2>1 DEF Leaving, Awaited
  <2>3. Busy' \subseteq Busy
    BY <1>00, <2>1 DEF handlers
  <2>4. QED
    BY <2>1, <2>2, <2>3
<1>6. ASSUME NEW r \in Queues, EvtQueueStart(r) \/ EvtQueueCancel(r) \/ ClientStep(r)
      PROVE  Goal
  <2>1. CASE r = q
    <3>1. EvtQueueStop(q) \/ EvtQueueStopReturns(q)
      BY <1>6, <2>1, ClientStepDoes DEF Leaving
    <3>2. QED
      BY <1>4, <1>5, <3>1
  <2>2. CASE r # q
    <3>1. client'[q] = client[q] /\ flush'[q] = flush[q] /\ UNCHANGED msg
      BY <1>0, <1>6, <2>2, ClientStepDoes
    <3>2. UNCHANGED handlers
      BY <1>6 DEF EvtQueueStart, EvtQueueCancel, ClientStep, ClientPolls, ClientWakes,
                  EvtQueueSetNotificationEnabled, EvtQueueSetNotificationDisabled,
                  FlushReturns, EvtQueueStop, EvtQueueStopReturns
    <3>3. EIMS' \subseteq EIMS \cup {r}
      BY <1>6 DEF EvtQueueStart, EvtQueueCancel, ClientStep, ClientPolls, ClientWakes,
                  EvtQueueSetNotificationEnabled, EvtQueueSetNotificationDisabled,
                  FlushReturns, EvtQueueStop, EvtQueueStopReturns, SetInterruptFalse, device
    <3>4. Busy' \subseteq Busy
      BY <1>00, <3>1, <3>2 DEF handlers
    <3>5. QED
      BY <1>1, <1>2, <2>2, <3>1, <3>3, <3>4
  <2>3. QED
    BY <2>1, <2>2
<1>7. ASSUME NEW v \in Vectors, DeviceSends(v) PROVE Goal
  <2>1. UNCHANGED <<handlers, client, flush>> /\ msg' = msg \cup {v} /\ EIMS' \subseteq EIMS
        /\ v \in EIMS
    BY <1>7 DEF DeviceSends, Sends, clients
  <2>2. q \notin EIMS
    BY <1>1, <1>2, <2>1
  <2>3. Busy' \subseteq Busy
    BY <1>00, <2>1, <2>2 DEF handlers
  <2>4. QED
    BY <1>1, <1>2, <2>1, <2>3
<1>8. ASSUME NEW v \in Vectors, EvtInterruptIsr(v) PROVE Goal
  <2>1. UNCHANGED <<EIMS, client>> /\ msg' \subseteq msg
    BY <1>8 DEF EvtInterruptIsr, IsrReadEICR, IsrReadICR, IsrQueueDpc
  <2>2. CASE v # q
    <3>1. flush'[q] = flush[q]
      BY <1>0, <1>8, <2>2 DEF EvtInterruptIsr, IsrReadEICR, IsrReadICR, IsrQueueDpc, FlushGoes,
                              TypeOK
    <3>2. Busy' \subseteq Busy
      BY <1>0, <1>00, <1>8, <2>1, <2>2, IsrReadEICRDoes, IsrReadICRDoes, IsrQueueDpcDoes
         DEF EvtInterruptIsr, OthersKeep
    <3>3. QED
      BY <1>1, <1>2, <2>1, <3>1, <3>2
  <2>3. CASE v = q
    <3>1. IsrQueueDpc(q)
      BY <1>0, <1>8, <2>3 DEF EvtInterruptIsr, IsrReadEICR, IsrReadICR, OtherRead
    <3>2. dpcQueued' = dpcQueued \cup {q} /\ isr'[q].step = "none" /\ UNCHANGED dpc
      BY <1>0, <3>1, IsrQueueDpcDoes
    <3>3. PICK from \in {"message", "isr"} :
            /\ from \in Busy /\ from \notin Busy'
            /\ FlushGoes(q, from, {"dpc"})
      BY <1>0, <1>00, <3>1, <3>2 DEF IsrQueueDpc, Called, TypeOK
    <3>4. Busy \subseteq Awaited(q)
      BY <1>1, <1>2, <2>1
    <3>5. from \in Awaited(q) /\ Awaited(q) = flush[q] /\ Awaited(q)' = flush'[q]
      BY <2>1, <3>3, <3>4 DEF Awaited
    <3>6. flush'[q] = (flush[q] \ {from}) \cup {"dpc"}
      BY <1>0, <3>3, <3>5 DEF FlushGoes
    <3>7. Busy' \subseteq (Busy \ {from}) \cup {"dpc"}
      BY <1>00, <2>1, <3>2, <3>3
    <3>8. QED
      BY <1>1, <1>2, <2>1, <3>4, <3>5, <3>6, <3>7
  <2>4. QED
    BY <2>2, <2>3
<1>9. ASSUME NEW v \in Vectors, NEW p \in Processors, DpcExchangeEICR(v, p) PROVE Goal
  <2>1. UNCHANGED <<EIMS, client, msg>> /\ FlushGoes(v, "dpc", {p})
    BY <1>9 DEF DpcExchangeEICR, device
  <2>2. CASE v # q
    <3>1. flush'[q] = flush[q]
      BY <1>0, <2>1, <2>2 DEF FlushGoes
    <3>2. Busy' \subseteq Busy
      BY <1>0, <1>00, <1>9, <2>1, <2>2, DpcExchangeEICRDoes DEF OthersKeep
    <3>3. QED
      BY <1>1, <1>2, <2>1, <3>1, <3>2
  <2>3. CASE v = q
    <3>1. "dpc" \in Busy /\ Busy' \subseteq (Busy \ {"dpc"}) \cup {p}
      BY <1>00, <1>9, <2>1, <2>3, DpcExchangeEICRDoes DEF OnlyInstance
    <3>2. Busy \subseteq Awaited(q)
      BY <1>1, <1>2, <2>1
    <3>3. "dpc" \in Awaited(q) /\ Awaited(q) = flush[q] /\ Awaited(q)' = flush'[q]
      BY <2>1, <3>1, <3>2 DEF Awaited
    <3>4. flush'[q] = (flush[q] \ {"dpc"}) \cup {p}
      BY <1>0, <2>1, <2>3, <3>3 DEF FlushGoes
    <3>5. QED
      BY <1>1, <1>2, <2>1, <3>1, <3>2, <3>3, <3>4
  <2>4. QED
    BY <2>2, <2>3
<1>10. ASSUME NEW v \in Vectors, NEW p \in Processors, EvtInterruptDpc(v, p) PROVE Goal
  <2>1. UNCHANGED <<EIMS, client, msg>>
    BY <1>10 DEF EvtInterruptDpc, DpcNotifyRx, DpcExchangeICR, DpcNotify, device
  <2>2. CASE v # q \/ ~DpcNotify(v, p)
    <3>1. flush'[q] = flush[q]
      BY <1>0, <1>10, <2>2, DpcNotifyRxDoes, DpcExchangeICRDoes, DpcNotifyDoes
         DEF EvtInterruptDpc, FlushGoes
    <3>2. Busy' \subseteq Busy
      BY <1>0, <1>00, <1>10, <2>1, <2>2, DpcNotifyRxDoes, DpcExchangeICRDoes, DpcNotifyDoes
         DEF EvtInterruptDpc, OthersKeep, OnlyInstance
    <3>3. QED
      BY <1>1, <1>2, <2>1, <3>1, <3>2
  <2>3. CASE v = q /\ DpcNotify(v, p)
    <3>1. Busy' \subseteq Busy \ {p}
      BY <1>00, <2>1, <2>3, DpcNotifyDoes DEF OnlyInstance, NoDpc
    <3>2. Busy \subseteq Awaited(q)
      BY <1>1, <1>2, <2>1
    <3>3. FlushGoes(q, p, {})
      BY <2>3, DpcNotifyDoes
    <3>4. Awaited(q) \ {p} \subseteq Awaited(q)'
      BY <1>0, <2>1, <3>3 DEF Awaited, FlushGoes
    <3>5. QED
      BY <1>1, <1>2, <2>1, <3>1, <3>2, <3>4
  <2>4. QED
    BY <2>2, <2>3
<1>11. ASSUME NEW r \in Queues, DeviceCompletes(r)
       PROVE  UNCHANGED <<EIMS, msg, handlers, client, flush>>
  BY <1>11 DEF DeviceCompletes, clients
<1>12. LinkChanges => UNCHANGED <<EIMS, msg, handlers, client, flush>>
  BY DEF LinkChanges, clients
<1>13. UNCHANGED vars => UNCHANGED <<EIMS, msg, handlers, client, flush>>
  BY DEF vars, device, clients
<1>14. Goal
  BY <1>3, <1>6, <1>7, <1>8, <1>9, <1>10, <1>11, <1>12, <1>13 DEF Next
<1>15. QED
  BY <1>14 DEF Busy

LEMMA NextTxAnnounced ==
    ASSUME TypeOK, OtherRead, mode = "msix", TxAnnounced, [Next]_vars
    PROVE  TxAnnounced'
<1> USE DEF TxAnnounced
<1>1. ASSUME NEW q \in Queues, DeviceCompletes(q) PROVE TxAnnounced'
  BY <1>1 DEF DeviceCompletes
<1>2. LinkChanges => TxAnnounced'
  BY ConstantsAssumption DEF LinkChanges
<1>3. ASSUME NEW v \in Vectors, DeviceSends(v) PROVE TxAnnounced'
  BY <1>3 DEF DeviceSends
<1>4. ASSUME NEW v \in Vectors, EvtInterruptIsr(v) PROVE TxAnnounced'
  <2>1. IsrReadICR(v) => ICR' = {}
    BY DEF IsrReadICR
  <2>2. ~IsrReadEICR(v)
    BY DEF IsrReadEICR
  <2>3. IsrQueueDpc(v) => UNCHANGED <<ICR, EICR>> /\ (Misc \in msg => Misc \in msg')
    <3>1. (isr[v].step = "queueDpc" /\ UNCHANGED msg) \/ (v # Misc /\ msg' = msg \ {v})
            => (Misc \in msg => Misc \in msg')
      OBVIOUS
    <3>2. QED
      BY <3>1 DEF IsrQueueDpc
  <2>4. QED
    BY <1>4, <2>1, <2>2, <2>3 DEF EvtInterruptIsr
<1>5. ASSUME NEW v \in Vectors, NEW p \in Processors,
             DpcExchangeEICR(v, p) \/ EvtInterruptDpc(v, p)
      PROVE  TxAnnounced'
  BY <1>5 DEF DpcExchangeEICR, EvtInterruptDpc, DpcNotifyRx, DpcExchangeICR, DpcNotify, device
<1>6. ASSUME NEW q \in Queues, EvtQueueStart(q) \/ EvtQueueCancel(q) \/ ClientStep(q)
      PROVE  TxAnnounced'
  BY <1>6, ClientStepDoes
<1>7. UNCHANGED vars => TxAnnounced'
  BY DEF vars, device
<1>8. QED
  BY <1>1, <1>2, <1>3, <1>4, <1>5, <1>6, <1>7 DEF Next

(* What the two parts about the transmit queue look at. *)
MiscKeeps ==
    /\ isr'[Misc] = isr[Misc] /\ context'[Misc] = context[Misc] /\ dpc'[Misc] = dpc[Misc]
    /\ Misc \in dpcQueued' <=> Misc \in dpcQueued
    /\ TXDW \in ICR' => TXDW \in ICR
    /\ client'[Tx] = client[Tx] /\ flush'[Tx] = flush[Tx]

(* The causes of the transmit queue are carried from one place to the next *)
(* by what is waited for, and what was not waited for never falls behind.  *)
LEMMA NextTxAwaited ==
    ASSUME TypeOK, ClientsOrdered, OtherRead, FieldsCarried, mode = "msix", ~overlap,
           OwnCauses, OneInstance, TxAnnounced, AwaitedInOrder, TxAwaited, [Next]_vars
    PROVE  AwaitedInOrder' /\ TxAwaited'
<1> SUFFICES ASSUME Leaving(Tx)'
             PROVE  AwaitedInOrder' /\ TxAwaited'
  BY DEF AwaitedInOrder, TxAwaited
<1> DEFINE Goal == AwaitedInOrder' /\ TxAwaited'
<1>0. /\ mode' = mode /\ Tx \in Queues /\ Misc \in Vectors
      /\ VectorOf(Tx) = Misc /\ VectorOf(Tx)' = Misc
  BY AdapterStays, MsixVectorOf DEF adapter, Queues, Vectors, VectorOf
<1>1. ASSUME MiscKeeps PROVE Goal
  <2>1. Leaving(Tx) /\ Awaited(Tx)' = Awaited(Tx)
    BY <1>1 DEF MiscKeeps, Leaving, Awaited
  <2>2. AwaitedInOrder'
    BY <1>1, <2>1 DEF MiscKeeps, AwaitedInOrder
  <2>3. TxAwaited'
    BY <1>1, <2>1 DEF MiscKeeps, TxAwaited
  <2>4. QED
    BY <2>2, <2>3
<1>2. ASSUME NEW q \in Queues, DeviceCompletes(q) PROVE Goal
  <2>1. UNCHANGED <<handlers, client, flush, enabled>>
    BY <1>2 DEF DeviceCompletes, clients
  <2>2. q # Tx
    BY <1>0, <1>2, <2>1 DEF DeviceCompletes, ClientsOrdered, Leaving
  <2>3. UNCHANGED ICR
    BY <1>2, <2>2 DEF DeviceCompletes
  <2>4. MiscKeeps
    BY <2>1, <2>3 DEF MiscKeeps, handlers
  <2>5. QED
    BY <1>1, <2>4
<1>3. ASSUME LinkChanges PROVE Goal
  <2>1. MiscKeeps
    BY <1>3, ConstantsAssumption DEF LinkChanges, MiscKeeps, handlers, clients
  <2>2. QED
    BY <1>1, <2>1
<1>4. ASSUME NEW v \in Vectors, DeviceSends(v) PROVE Goal
  <2>1. MiscKeeps
    BY <1>4 DEF DeviceSends, MiscKeeps, handlers, clients
  <2>2. QED
    BY <1>1, <2>1
<1>5. ASSUME UNCHANGED vars PROVE Goal
  <2>1. MiscKeeps
    BY <1>5 DEF vars, MiscKeeps, handlers, clients, device
  <2>2. QED
    BY <1>1, <2>1
<1>6. ASSUME EvtQueueStop(Tx) PROVE Goal
  <2>1. UNCHANGED <<ICR, EICR, msg, handlers>> /\ flush'[Tx] = KeFlushQueuedDpcs(Tx)
    BY <1>0, <1>6 DEF EvtQueueStop, Outstanding, TypeOK
  <2>2. client'[Tx] = "stopFlush"
    BY <1>0, <1>6 DEF EvtQueueStop, ClientGoes, TypeOK
  <2>3. /\ Misc \in msg => "message" \in Awaited(Tx)'
        /\ isr[Misc].step # "none" => "isr" \in Awaited(Tx)'
        /\ Misc \in dpcQueued => "dpc" \in Awaited(Tx)'
        /\ \A p \in Processors : dpc[Misc][p].step # "none" => p \in Awaited(Tx)'
    BY <1>0, <2>1, <2>2 DEF Awaited, KeFlushQueuedDpcs
  <2>4. AwaitedInOrder'
    BY <2>1, <2>3 DEF AwaitedInOrder, handlers
  <2>5. TXDW \in ICR => Misc \in msg
    <3>1. ~Sends(Misc, EIMS', IMS') /\ EIMS' = EIMS \ ({Tx} \cap RxQueues)
      BY <1>0, <1>6 DEF EvtQueueStop, SetInterruptFalse
    <3>2. Misc \in EIMS'
      BY <3>1, ConstantsAssumption DEF OwnCauses
    <3>3. QED
      BY <3>1, <3>2 DEF Sends, TxAnnounced
  <2>6. TXDW \in context[Misc].ICR =>
          \/ isr[Misc].step = "queueDpc" \/ Misc \in dpcQueued
          \/ \E p \in Processors : dpc[Misc][p].step = "eicr" /\ Misc \in dpc[Misc][p].causes
    BY <1>0 DEF FieldsCarried, Carried
  <2>7. TxAwaited'
    BY <2>1, <2>3, <2>5, <2>6 DEF TxAwaited, handlers
  <2>8. QED
    BY <2>4, <2>7
<1>7. ASSUME EvtQueueStopReturns(Tx) PROVE Goal
  <2>1. /\ UNCHANGED <<ICR, handlers>> /\ Leaving(Tx)
        /\ Awaited(Tx) = {} /\ Awaited(Tx)' = {}
    BY <1>0, <1>7 DEF EvtQueueStopReturns, device, Leaving, Awaited, ClientGoes, TypeOK
  <2>2. AwaitedInOrder'
    BY <2>1 DEF AwaitedInOrder
  <2>3. TxAwaited'
    BY <2>1 DEF TxAwaited, handlers
  <2>4. QED
    BY <2>2, <2>3
<1>8. ASSUME NEW q \in Queues, EvtQueueStart(q) \/ EvtQueueCancel(q) \/ ClientStep(q)
      PROVE  Goal
  <2>1. CASE q = Tx
    <3>1. EvtQueueStop(Tx) \/ EvtQueueStopReturns(Tx)
      BY <1>8, <2>1, ClientStepDoes DEF Leaving
    <3>2. QED
      BY <1>6, <1>7, <3>1
  <2>2. CASE q # Tx
    <3>1. client'[Tx] = client[Tx] /\ flush'[Tx] = flush[Tx] /\ UNCHANGED ICR
      BY <1>0, <1>8, <2>2, ClientStepDoes
    <3>2. UNCHANGED handlers
      BY <1>8 DEF EvtQueueStart, EvtQueueCancel, ClientStep, ClientPolls, ClientWakes,
                  EvtQueueSetNotificationEnabled, EvtQueueSetNotificationDisabled,
                  FlushReturns, EvtQueueStop, EvtQueueStopReturns
    <3>3. MiscKeeps
      BY <3>1, <3>2 DEF MiscKeeps, handlers
    <3>4. QED
      BY <1>1, <3>3
  <2>3. QED
    BY <2>1, <2>2
<1>9. ASSUME NEW v \in Vectors, v # Misc,
             \/ EvtInterruptIsr(v)
             \/ \E p \in Processors : DpcExchangeEICR(v, p) \/ EvtInterruptDpc(v, p)
      PROVE  Goal
  <2>1. PICK p \in Processors :
          EvtInterruptIsr(v) \/ DpcExchangeEICR(v, p) \/ EvtInterruptDpc(v, p)
    BY <1>9, ConstantsAssumption
  <2>2. OthersKeep(v)
    BY <2>1, IsrReadEICRDoes, IsrReadICRDoes, IsrQueueDpcDoes, DpcExchangeEICRDoes,
       DpcNotifyRxDoes, DpcExchangeICRDoes, DpcNotifyDoes DEF EvtInterruptIsr, EvtInterruptDpc
  <2>3. Misc \in dpcQueued' <=> Misc \in dpcQueued
    BY <1>9, <2>1, IsrReadEICRDoes, IsrReadICRDoes, IsrQueueDpcDoes, DpcExchangeEICRDoes,
       DpcNotifyRxDoes, DpcExchangeICRDoes, DpcNotifyDoes DEF EvtInterruptIsr, EvtInterruptDpc
  <2>4. /\ TXDW \in ICR' => TXDW \in ICR
        /\ UNCHANGED client
    BY <2>1 DEF EvtInterruptIsr, IsrReadEICR, IsrReadICR, IsrQueueDpc, DpcExchangeEICR,
                EvtInterruptDpc, DpcNotifyRx, DpcExchangeICR, DpcNotify, device
  <2>5. flush'[Tx] = flush[Tx]
    <3>1. CASE EvtInterruptIsr(v)
      BY <1>0, <1>9, <3>1 DEF EvtInterruptIsr, IsrReadEICR, IsrReadICR, IsrQueueDpc, FlushGoes,
                              TypeOK
    <3>2. CASE DpcExchangeEICR(v, p)
      BY <1>0, <1>9, <3>2 DEF DpcExchangeEICR, FlushGoes
    <3>3. CASE EvtInterruptDpc(v, p)
      BY <1>0, <1>9, <3>3, DpcNotifyRxDoes, DpcExchangeICRDoes, DpcNotifyDoes
         DEF EvtInterruptDpc, FlushGoes
    <3>4. QED
      BY <2>1, <3>1, <3>2, <3>3
  <2>6. MiscKeeps
    BY <1>0, <1>9, <2>2, <2>3, <2>4, <2>5 DEF MiscKeeps, OthersKeep
  <2>7. QED
    BY <1>1, <2>6
<1>10. ASSUME client' = client
       PROVE  /\ Leaving(Tx)
              /\ UNCHANGED flush => Awaited(Tx)' = Awaited(Tx)
              /\ \A from, to : FlushGoes(Misc, from, to) =>
                   Awaited(Tx)' = IF from \in Awaited(Tx)
                                  THEN (Awaited(Tx) \ {from}) \cup to ELSE Awaited(Tx)
  BY <1>0, <1>10 DEF Leaving, Awaited, FlushGoes
<1>11. ASSUME IsrReadICR(Misc) PROVE Goal
  <2>1. /\ UNCHANGED client /\ ICR' = {} /\ Misc \in msg /\ isr[Misc].step = "none"
        /\ FlushGoes(Misc, "message", {"isr"})
    BY <1>0, <1>11 DEF IsrReadICR, OtherRead, Called
  <2>2. Leaving(Tx)
    BY <1>10, <2>1
  <2>3. Awaited(Tx)' = IF "message" \in Awaited(Tx)
                       THEN (Awaited(Tx) \ {"message"}) \cup {"isr"} ELSE Awaited(Tx)
    BY <1>10, <2>1
  <2>4. /\ isr'[Misc].step = "queueDpc"
        /\ context'[Misc].ICR = context[Misc].ICR \cup ICR
        /\ UNCHANGED <<dpcQueued, dpc>>
    BY <1>0, <1>11, IsrReadICRDoes
  <2>5. AwaitedInOrder'
    BY <2>2, <2>3, <2>4, PlacesDiffer DEF AwaitedInOrder
  <2>6. TXDW \in context[Misc].ICR =>
          \/ Misc \in dpcQueued /\ "dpc" \in Awaited(Tx)
          \/ \E p \in Awaited(Tx) \cap Processors :
               dpc[Misc][p].step = "eicr" /\ Misc \in dpc[Misc][p].causes
    BY <2>1, <2>2 DEF TxAwaited
  <2>7. \A p \in Processors \cup {"dpc"} : p \in Awaited(Tx) => p \in Awaited(Tx)'
    BY <2>3, PlacesDiffer
  <2>8. TXDW \in ICR => "isr" \in Awaited(Tx)'
    BY <2>2, <2>3 DEF TxAwaited
  <2>9. TxAwaited'
    BY <2>1, <2>2, <2>4, <2>6, <2>7, <2>8 DEF TxAwaited
  <2>10. QED
    BY <2>5, <2>9
<1>12. ASSUME IsrQueueDpc(Misc) PROVE Goal
  <2>1. /\ UNCHANGED <<client, ICR>> /\ isr[Misc].step = "queueDpc"
        /\ FlushGoes(Misc, "isr", {"dpc"})
    BY <1>12 DEF IsrQueueDpc
  <2>2. Leaving(Tx)
    BY <1>10, <2>1
  <2>3. Awaited(Tx)' = IF "isr" \in Awaited(Tx)
                       THEN (Awaited(Tx) \ {"isr"}) \cup {"dpc"} ELSE Awaited(Tx)
    BY <1>10, <2>1
  <2>4. /\ isr'[Misc].step = "none"
        /\ context'[Misc].ICR = context[Misc].ICR
        /\ dpcQueued' = dpcQueued \cup {Misc} /\ UNCHANGED dpc
    BY <1>0, <1>12, IsrQueueDpcDoes
  <2>5. \A p \in Processors \cup {"dpc"} : p \in Awaited(Tx) => p \in Awaited(Tx)'
    BY <2>3, PlacesDiffer
  <2>6. AwaitedInOrder'
    <3>1. "message" \in Awaited(Tx)' => "isr" \in Awaited(Tx)
      BY <2>1, <2>2, <2>3 DEF AwaitedInOrder
    <3>2. "isr" \notin Awaited(Tx)'
      BY <2>3
    <3>3. Awaited(Tx)' \cap {"message", "isr"} # {} => "dpc" \in Awaited(Tx)'
      BY <2>3, <3>1, <3>2
    <3>4. Awaited(Tx)' \cap {"message", "isr", "dpc"} # {}
            => Awaited(Tx) \cap {"message", "isr", "dpc"} # {}
      BY <2>3
    <3>5. QED
      BY <2>2, <2>4, <2>5, <3>3, <3>4 DEF AwaitedInOrder
  <2>7. "isr" \in Awaited(Tx) => "dpc" \in Awaited(Tx)'
    BY <2>3
  <2>8. TxAwaited'
    BY <2>1, <2>2, <2>3, <2>4, <2>5, <2>7 DEF TxAwaited
  <2>9. QED
    BY <2>6, <2>8
<1>13. ASSUME NEW p \in Processors, DpcExchangeEICR(Misc, p) PROVE Goal
  <2>1. /\ UNCHANGED <<client, ICR>> /\ FlushGoes(Misc, "dpc", {p})
        /\ \A other \in Processors : dpc[Misc][other] = NoDpc
    BY <1>13 DEF DpcExchangeEICR, device
  <2>2. Leaving(Tx)
    BY <1>10, <2>1
  <2>3. Awaited(Tx)' = IF "dpc" \in Awaited(Tx)
                       THEN (Awaited(Tx) \ {"dpc"}) \cup {p} ELSE Awaited(Tx)
    BY <1>10, <2>1
  <2>4. /\ UNCHANGED isr /\ Misc \in dpcQueued /\ Misc \notin dpcQueued'
        /\ context'[Misc].ICR = context[Misc].ICR
        /\ dpc'[Misc][p].step = "eicr" /\ dpc'[Misc][p].causes = context[Misc].EICR
        /\ \A r \in Processors : r # p => dpc'[Misc][r] = dpc[Misc][r]
    BY <1>0, <1>13, DpcExchangeEICRDoes DEF OnlyInstance
  <2>5. Misc \in context[Misc].EICR
    BY <1>0, <2>4 DEF OwnCauses
  <2>6. \A r \in Processors : dpc[Misc][r].step = "none"
    BY <2>1 DEF NoDpc
  <2>7. "dpc" \in Awaited(Tx) => p \in Awaited(Tx)'
    BY <2>3
  <2>8. AwaitedInOrder'
    <3>1. "message" \in Awaited(Tx)' => "message" \in Awaited(Tx)
      BY <2>3, PlacesDiffer
    <3>2. "isr" \in Awaited(Tx)' <=> "isr" \in Awaited(Tx)
      BY <2>3, PlacesDiffer
    <3>3. "dpc" \notin Awaited(Tx)'
      BY <2>3, PlacesDiffer
    <3>4. Awaited(Tx)' \cap {"message", "isr", "dpc"} # {} => p \in Awaited(Tx)'
      BY <2>2, <2>4, <2>7, <3>1, <3>2, <3>3 DEF AwaitedInOrder
    <3>5. QED
      BY <2>2, <2>4, <2>6, <3>1, <3>2, <3>4 DEF AwaitedInOrder
  <2>9. TxAwaited'
    <3>1. \A x \in {"message", "isr"} : x \in Awaited(Tx) => x \in Awaited(Tx)'
      BY <2>3
    <3>2. QED
      BY <2>1, <2>2, <2>4, <2>5, <2>6, <2>7, <3>1 DEF TxAwaited
  <2>10. QED
    BY <2>8, <2>9
<1>14. ASSUME NEW p \in Processors, DpcExchangeICR(Misc, p) PROVE Goal
  <2>1. UNCHANGED <<client, ICR>>
    BY <1>14 DEF DpcExchangeICR, device
  <2>2. /\ UNCHANGED <<isr, dpcQueued, flush>>
        /\ context'[Misc].ICR = {}
        /\ dpc[Misc][p].step = "eicr"
        /\ dpc'[Misc][p].step = "icr" /\ dpc'[Misc][p].causes = context[Misc].ICR
        /\ \A r \in Processors : r # p => dpc'[Misc][r] = dpc[Misc][r]
    BY <1>0, <1>14, DpcExchangeICRDoes DEF OnlyInstance
  <2>3. Leaving(Tx) /\ Awaited(Tx)' = Awaited(Tx)
    BY <1>10, <2>1, <2>2
  <2>4. AwaitedInOrder'
    BY <2>2, <2>3 DEF AwaitedInOrder
  <2>5. \A r \in Processors : dpc[Misc][r].step = "eicr" => r = p
    BY <1>0, <2>2 DEF OneInstance, NoDpc
  <2>6. TXDW \in context[Misc].ICR => p \in Awaited(Tx)
    BY <2>2, <2>3, <2>5 DEF TxAwaited, AwaitedInOrder
  <2>7. TxAwaited'
    BY <2>1, <2>2, <2>3, <2>6 DEF TxAwaited
  <2>8. QED
    BY <2>4, <2>7
<1>15. ASSUME NEW p \in Processors, DpcNotify(Misc, p) PROVE Goal
  <2>1. UNCHANGED <<client, ICR>>
    BY <1>15 DEF DpcNotify, device
  <2>2. /\ UNCHANGED <<isr, context, dpcQueued>> /\ FlushGoes(Misc, p, {})
        /\ dpc[Misc][p].step = "icr" \/ dpc[Misc][p].causes = {}
        /\ dpc'[Misc][p].step = "none"
        /\ \A r \in Processors : r # p => dpc'[Misc][r] = dpc[Misc][r]
    BY <1>0, <1>15, DpcNotifyDoes DEF OnlyInstance, NoDpc
  <2>3. Leaving(Tx) /\ Awaited(Tx)' = Awaited(Tx) \ {p}
    <3>1. Awaited(Tx)' = IF p \in Awaited(Tx) THEN (Awaited(Tx) \ {p}) \cup {} ELSE Awaited(Tx)
      BY <1>10, <2>1, <2>2
    <3>2. QED
      BY <1>10, <2>1, <3>1
  <2>4. \A x \in {"message", "isr", "dpc"} : x \in Awaited(Tx)' <=> x \in Awaited(Tx)
    BY <2>3, PlacesDiffer
  <2>5. AwaitedInOrder'
    BY <2>2, <2>3, <2>4 DEF AwaitedInOrder
  <2>6. TxAwaited'
    BY <2>1, <2>2, <2>3, <2>4 DEF TxAwaited
  <2>7. QED
    BY <2>5, <2>6
<1>16. ~IsrReadEICR(Misc) /\ \A p \in Processors : ~DpcNotifyRx(Misc, p)
  <2>1. ASSUME NEW p \in Processors, DpcNotifyRx(Misc, p) PROVE FALSE
    BY <1>0, <2>1, DpcNotifyRxDoes, ConstantsAssumption DEF OwnCauses
  <2>2. QED
    BY <2>1 DEF IsrReadEICR
<1>17. Goal
  BY <1>2, <1>3, <1>4, <1>5, <1>8, <1>9, <1>11, <1>12, <1>13, <1>14, <1>15, <1>16
     DEF Next, EvtInterruptIsr, EvtInterruptDpc
<1>18. QED
  BY <1>17

LEMMA NextInvariant ==
    ASSUME Invariant, [Next]_vars
    PROVE  Invariant'
<1> USE DEF Invariant
<1>1. mode' = mode /\ overlap' = overlap
  BY AdapterStays DEF adapter
<1>2. TypeOK' /\ ClientsOrdered' /\ OtherRead' /\ FieldsCarried'
  BY NextTypeOK, NextClientsOrdered, NextFieldsCarried
<1>3. ASSUME mode = "msix" PROVE OwnCauses' /\ RxAwaited' /\ TxAnnounced'
  <2>1. OwnCauses'
    BY <1>3, NextOwnCauses
  <2>2. RxAwaited'
    BY <1>3, NextRxAwaited
  <2>3. TxAnnounced'
    BY <1>3, NextTxAnnounced
  <2>4. QED
    BY <2>1, <2>2, <2>3
<1>4. ~overlap => OneInstance'
  BY NextOneInstance
<1>5. mode = "msix" /\ ~overlap => AwaitedInOrder' /\ TxAwaited'
  BY NextTxAwaited
<1>6. QED
  BY <1>1, <1>2, <1>3, <1>4, <1>5

(* With MSI-X, and instances of a DPC that do not overlap, the flush in    *)
(* EvtQueueStop does what its comment promises: no DPC notifies a queue    *)
(* whose entry in the adapter's table is cleared.                          *)
THEOREM StoppedNotNotified == Spec => []NotifiesRegisteredMsix
<1>1. Invariant => NotifiesRegisteredMsix
  <2> SUFFICES ASSUME Invariant, mode = "msix", ~overlap,
                      NEW v \in Vectors, NEW p \in Processors
               PROVE  /\ dpc[v][p].step = "eicr"
                           => dpc[v][p].causes \cap RxQueues \subseteq registered
                      /\ (dpc[v][p].step = "icr" /\ TXDW \in dpc[v][p].causes)
                           => Tx \in registered
    BY DEF NotifiesRegisteredMsix, NotifiesRegistered
  <2> USE DEF Invariant
  <2>1. ASSUME dpc[v][p].step = "eicr", NEW q \in dpc[v][p].causes \cap RxQueues,
               q \notin registered
        PROVE  FALSE
    <3>1. q = v /\ q \in Queues
      BY <2>1 DEF OwnCauses, Queues
    <3>2. Leaving(q) /\ Awaited(q) = {}
      BY <2>1, <3>1 DEF ClientsOrdered, Leaving, Awaited
    <3>3. p \in KeFlushQueuedDpcs(q)
      BY <2>1, <3>1, MsixVectorOf DEF KeFlushQueuedDpcs
    <3>4. QED
      BY <2>1, <3>2, <3>3 DEF RxAwaited
  <2>2. ASSUME dpc[v][p].step = "icr", TXDW \in dpc[v][p].causes, Tx \notin registered
        PROVE  FALSE
    <3>1. v = Misc /\ Tx \in Queues
      BY <2>2 DEF OwnCauses, Queues
    <3>2. Leaving(Tx) /\ Awaited(Tx) = {}
      BY <2>2, <3>1 DEF ClientsOrdered, Leaving, Awaited
    <3>3. QED
      BY <2>2, <3>1, <3>2 DEF TxAwaited
  <2>3. QED
    BY <2>1, <2>2
<1>2. QED
  BY InitInvariant, NextInvariant, <1>1, PTL DEF Spec
=============================================================================
