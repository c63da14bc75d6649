------------------------------ MODULE SwFwSync ------------------------------
(***************************************************************************)
(* Exclusive access to the NVM and the PHY of an I210 (e1000_i210.c,       *)
(* e1000_mac.c). A thread takes SWSM.SMBI, which reads as clear to the     *)
(* thread that sets it by reading, then SWSM.SWESMBI, which latches unless *)
(* the firmware holds its own semaphore; under both it examines and writes *)
(* SW_FW_SYNC, whose bits stay set while a resource is in use.             *)
(*                                                                         *)
(* The loops that poll SWSM are bounded by time, which outlasts a firmware *)
(* that is not stuck. It does not outlast another thread that holds SMBI   *)
(* and polls SWESMBI itself, as many rounds and longer ones; whether it    *)
(* outlasts the few accesses of one that has both is a constant. Whoever   *)
(* gives up on SMBI first clears it, even from under its holder.           *)
(***************************************************************************)
EXTENDS Naturals

CONSTANTS
    Threads,    \* contexts of the driver that access the PHY or the NVM
    Resources,  \* E1000_SWFW_EEP_SM, E1000_SWFW_PHY0_SM
    FirmwareUses,  \* those that the firmware takes too
    Timeout,    \* attempts of e1000_acquire_swfw_sync_i210 (200 in the code)
    Prompt      \* a thread with both semaphores is done before others give up

ASSUME SwFwSyncAssumption ==
    /\ Resources # {} /\ FirmwareUses \subseteq Resources
    /\ Timeout \in Nat \ {0}
    /\ Prompt \in BOOLEAN

VARIABLES
    SMBI, SWESMBI,         \* the two bits of SWSM
    firmware,              \* out of its semaphore, in it, or stuck in it
    SW_FW_SYNC,            \* the register: <<"sw" or "fw", resource>> bits
    clear_semaphore_once,  \* hw->dev_spec._82575.clear_semaphore_once
    pc, local,             \* where every thread is, with its locals
    owns,                  \* history: what every thread has acquired
    abandoned,             \* history: SMBI is set and nobody will clear it
    robbed                 \* history: SMBI was cleared from under a thread that had it

vars == <<SMBI, SWESMBI, firmware, SW_FW_SYNC, clear_semaphore_once, pc, local, owns,
          abandoned, robbed>>

Sw(r) == <<"sw", r>>
Fw(r) == <<"fw", r>>

Steps == {"idle", "getSMBI", "clear", "put", "getAgain", "getSWESMBI",
          "readSync", "putBusy", "writeSync", "putDone"}

TypeOK ==
    /\ SMBI \in BOOLEAN /\ SWESMBI \in BOOLEAN /\ firmware \in {"out", "in", "stuck"}
    /\ SW_FW_SYNC \subseteq {"sw", "fw"} \X Resources
    /\ clear_semaphore_once \in BOOLEAN
    /\ pc \in [Threads -> Steps]
    /\ local \in [Threads -> [call: {"none", "acquire", "release"}, mask: Resources,
                              swfw_sync: SUBSET ({"sw", "fw"} \X Resources), i: 0 .. Timeout]]
    /\ owns \in [Threads -> SUBSET Resources]
    /\ abandoned \in BOOLEAN /\ robbed \in BOOLEAN

NoCall == [call |-> "none", mask |-> CHOOSE r \in Resources : TRUE, swfw_sync |-> {}, i |-> 0]

(* An earlier driver may have left SMBI set. *)
Init ==
    /\ abandoned \in BOOLEAN /\ robbed = FALSE
    /\ SMBI = abandoned /\ SWESMBI = FALSE
    /\ firmware = "out" /\ SW_FW_SYNC = {}
    /\ clear_semaphore_once = TRUE
    /\ pc = [t \in Threads |-> "idle"]
    /\ local = [t \in Threads |-> NoCall]
    /\ owns = [t \in Threads |-> {}]

Goes(t, step) == pc' = [pc EXCEPT ![t] = step]

(* The thread is between its successful read of SMBI and its put. *)
HoldsSMBI(t) ==
    pc[t] \in {"getSWESMBI", "readSync", "putBusy", "writeSync", "putDone"}
-----------------------------------------------------------------------------
(* The calls. What is released is no longer used from the call on. *)

e1000_acquire_swfw_sync_i210(t) ==
    /\ pc[t] = "idle"
    /\ \E r \in Resources \ owns[t] :
         local' = [local EXCEPT ![t] = [NoCall EXCEPT !.call = "acquire", !.mask = r]]
    /\ Goes(t, "getSMBI")
    /\ UNCHANGED <<SMBI, SWESMBI, firmware, SW_FW_SYNC, clear_semaphore_once, owns,
                   abandoned, robbed>>

e1000_release_swfw_sync_i210(t) ==
    /\ pc[t] = "idle"
    /\ \E r \in owns[t] :
         /\ local' = [local EXCEPT ![t] = [NoCall EXCEPT !.call = "release", !.mask = r]]
         /\ owns' = [owns EXCEPT ![t] = @ \ {r}]
    /\ Goes(t, "getSMBI")
    /\ UNCHANGED <<SMBI, SWESMBI, firmware, SW_FW_SYNC, clear_semaphore_once, abandoned,
                   robbed>>

(* An acquire that failed to get the semaphore returns its error; a        *)
(* release tries again, without end.                                       *)
GetFails(t) ==
    IF local[t].call = "release" THEN Goes(t, "getSMBI") /\ UNCHANGED local
    ELSE Goes(t, "idle") /\ local' = [local EXCEPT ![t] = NoCall]
-----------------------------------------------------------------------------
(* e1000_get_hw_semaphore_i210. *)

GetSMBI(t) ==
    /\ pc[t] \in {"getSMBI", "getAgain"} /\ ~SMBI
    /\ SMBI' = TRUE
    /\ Goes(t, "getSWESMBI")
    /\ UNCHANGED <<SWESMBI, firmware, SW_FW_SYNC, clear_semaphore_once, local, owns,
                   abandoned, robbed>>

(* Time is up and SMBI still set: it is nobody's, or its holder waits for  *)
(* a firmware that is stuck, or is held up itself. The first thread to     *)
(* come here clears it, as do those that come before it has noted that;    *)
(* others give up, and so does one that has cleared it the second time.    *)
NeverClears == FALSE  \* mutant: the semaphore is not cleared
MayClear == clear_semaphore_once

GiveUpSMBI(t) ==
    /\ pc[t] \in {"getSMBI", "getAgain"} /\ SMBI
    /\ Prompt => \A other \in Threads :
                    HoldsSMBI(other) => pc[other] = "getSWESMBI" /\ firmware = "stuck"
    /\ IF pc[t] = "getSMBI" /\ MayClear THEN Goes(t, "clear") /\ UNCHANGED local
                                        ELSE GetFails(t)
    /\ UNCHANGED <<SMBI, SWESMBI, firmware, SW_FW_SYNC, clear_semaphore_once, owns,
                   abandoned, robbed>>

ClearOnce(t) ==
    /\ pc[t] = "clear"
    /\ clear_semaphore_once' = FALSE
    /\ Goes(t, "put")
    /\ UNCHANGED <<SMBI, SWESMBI, firmware, SW_FW_SYNC, local, owns, abandoned, robbed>>

(* SWESMBI is written, again and again, until it latches because the       *)
(* firmware is out. Each round reads SWSM, which sets SMBI if it was       *)
(* cleared meanwhile.                                                      *)
PollSWESMBI(t) ==
    /\ pc[t] = "getSWESMBI" /\ firmware # "out" /\ ~SMBI
    /\ SMBI' = TRUE
    /\ UNCHANGED <<SWESMBI, firmware, SW_FW_SYNC, clear_semaphore_once, pc, local, owns,
                   abandoned, robbed>>

GetSWESMBI(t) ==
    /\ pc[t] = "getSWESMBI" /\ firmware = "out"
    /\ SMBI' = TRUE /\ SWESMBI' = TRUE
    /\ Goes(t, "readSync")
    /\ UNCHANGED <<firmware, SW_FW_SYNC, clear_semaphore_once, local, owns, abandoned,
                   robbed>>

(* e1000_put_hw_semaphore_generic: both bits are cleared. *)
Put == SMBI' = FALSE /\ SWESMBI' = FALSE /\ abandoned' = FALSE

GiveUpKeeping(t) ==  \* mutant: the semaphores are not released
    /\ pc[t] = "getSWESMBI" /\ firmware = "stuck"
    /\ GetFails(t)
    /\ UNCHANGED <<SMBI, SWESMBI, firmware, SW_FW_SYNC, clear_semaphore_once, owns,
                   abandoned, robbed>>
GiveUpSWESMBI(t) ==
    /\ pc[t] = "getSWESMBI" /\ firmware = "stuck"
    /\ Put
    /\ GetFails(t)
    /\ UNCHANGED <<firmware, SW_FW_SYNC, clear_semaphore_once, owns, robbed>>

PutAfterClear(t) ==
    /\ pc[t] = "put"
    /\ Put
    /\ robbed' = (robbed \/ \E other \in Threads : HoldsSMBI(other))
    /\ Goes(t, "getAgain")
    /\ UNCHANGED <<firmware, SW_FW_SYNC, clear_semaphore_once, local, owns>>
-----------------------------------------------------------------------------
(* Under the semaphores. *)

InUseBySoftware(t) == Sw(local[t].mask) \in SW_FW_SYNC  \* mutant: fwmask is forgotten
InUse(t) == {Sw(local[t].mask), Fw(local[t].mask)} \cap SW_FW_SYNC # {}

(* SW_FW_SYNC is read; an acquire backs off if the resource is in use.     *)
(* What was read is forgotten when it is of no more use.                   *)
BacksOff(t) == local[t].call = "acquire" /\ InUse(t)
ReadSync(t) ==
    /\ pc[t] = "readSync"
    /\ local' = [local EXCEPT ![t].swfw_sync = IF BacksOff(t) THEN {} ELSE SW_FW_SYNC]
    /\ Goes(t, IF BacksOff(t) THEN "putBusy" ELSE "writeSync")
    /\ UNCHANGED <<SMBI, SWESMBI, firmware, SW_FW_SYNC, clear_semaphore_once, owns,
                   abandoned, robbed>>

(* Five milliseconds later the next attempt is made, the last of Timeout. *)
OneMoreAttempt(t) == local[t].i <= Timeout  \* mutant: an attempt too many
AttemptsLeft(t) == local[t].i + 1 < Timeout

PutBusy(t) ==
    /\ pc[t] = "putBusy"
    /\ Put
    /\ IF AttemptsLeft(t)
         THEN Goes(t, "getSMBI") /\ local' = [local EXCEPT ![t].i = @ + 1]
         ELSE Goes(t, "idle") /\ local' = [local EXCEPT ![t] = NoCall]
    /\ UNCHANGED <<firmware, SW_FW_SYNC, clear_semaphore_once, owns, robbed>>

(* What was read is written back with the resource's bit set or cleared. *)
ClearsAll(t) ==  \* mutant: a release clears the bits of every resource
    IF local[t].call = "acquire" THEN local[t].swfw_sync \cup {Sw(local[t].mask)} ELSE {}
NewSync(t) ==
    IF local[t].call = "acquire" THEN local[t].swfw_sync \cup {Sw(local[t].mask)}
                                 ELSE local[t].swfw_sync \ {Sw(local[t].mask)}

WriteSync(t) ==
    /\ pc[t] = "writeSync"
    /\ SW_FW_SYNC' = NewSync(t)
    /\ local' = [local EXCEPT ![t].swfw_sync = {}]
    /\ Goes(t, "putDone")
    /\ UNCHANGED <<SMBI, SWESMBI, firmware, clear_semaphore_once, owns, abandoned, robbed>>

PutDone(t) ==
    /\ pc[t] = "putDone"
    /\ Put
    /\ owns' = IF local[t].call = "acquire"
               THEN [owns EXCEPT ![t] = @ \cup {local[t].mask}] ELSE owns
    /\ local' = [local EXCEPT ![t] = NoCall]
    /\ Goes(t, "idle")
    /\ UNCHANGED <<firmware, SW_FW_SYNC, clear_semaphore_once, robbed>>

Step(t) ==
    \/ GetSMBI(t) \/ GiveUpSMBI(t) \/ ClearOnce(t) \/ PutAfterClear(t)
    \/ PollSWESMBI(t) \/ GetSWESMBI(t) \/ GiveUpSWESMBI(t)
    \/ ReadSync(t) \/ PutBusy(t) \/ WriteSync(t) \/ PutDone(t)
-----------------------------------------------------------------------------
(* The firmware keeps to the same protocol. *)

FirmwareEnters ==
    /\ firmware = "out" /\ ~SWESMBI
    /\ firmware' \in {"in", "stuck"}
    /\ UNCHANGED <<SMBI, SWESMBI, SW_FW_SYNC, clear_semaphore_once, pc, local, owns,
                   abandoned, robbed>>

(* It leaves with a free resource, without one it had, or with nothing.    *)
FirmwareLeaves ==
    /\ firmware # "out"
    /\ firmware' = "out"
    /\ \/ \E r \in FirmwareUses : /\ Sw(r) \notin SW_FW_SYNC
                                  /\ SW_FW_SYNC' = SW_FW_SYNC \cup {Fw(r)}
       \/ \E r \in FirmwareUses : SW_FW_SYNC' = SW_FW_SYNC \ {Fw(r)}
       \/ UNCHANGED SW_FW_SYNC
    /\ UNCHANGED <<SMBI, SWESMBI, clear_semaphore_once, pc, local, owns, abandoned,
                   robbed>>

Next ==
    \/ \E t \in Threads : \/ e1000_acquire_swfw_sync_i210(t)
                          \/ e1000_release_swfw_sync_i210(t)
                          \/ Step(t)
    \/ FirmwareEnters \/ FirmwareLeaves

Spec == Init /\ [][Next]_vars

(* Threads run, the firmware leaves in the end, and a thread that polls a  *)
(* bit that is free again and again gets it.                               *)
FairSpec ==
    /\ Spec
    /\ WF_vars(FirmwareLeaves)
    /\ \A t \in Threads : /\ WF_vars(Step(t))
                          /\ SF_vars(GetSMBI(t))
                          /\ SF_vars(GetSWESMBI(t))
-----------------------------------------------------------------------------
(* Properties. *)

(* "Acquire the necessary semaphores for exclusive access to the EEPROM"   *)
(* (e1000_i210.c:50): no resource is acquired by two threads, or by a      *)
(* thread while the firmware's bit says it uses it.                        *)
Exclusive ==
    \A t \in Threads :
        /\ \A u \in Threads \ {t} : owns[t] \cap owns[u] = {}
        /\ \A r \in owns[t] : Fw(r) \notin SW_FW_SYNC

(* So it is as long as the one clearing of SMBI has not hit a thread that  *)
(* had it: whatever else times out, is given up or tried again.            *)
ExclusiveUnlessRobbed == ~robbed => Exclusive

(* The resources a thread has acquired, or whose bit it has set but not    *)
(* returned from acquiring, or not yet cleared in releasing.               *)
Claimed(t) ==
    {r \in Resources :
        \/ r \in owns[t]
        \/ local[t].mask = r /\ local[t].call = "acquire" /\ pc[t] = "putDone"
        \/ local[t].mask = r /\ local[t].call = "release" /\ pc[t] # "putDone"}

(* The software bits of SW_FW_SYNC are the resources in use, or in the     *)
(* hands of the thread that writes them.                                   *)
BitsMatchOwners ==
    \A r \in Resources : Sw(r) \in SW_FW_SYNC <=> \E t \in Threads : r \in Claimed(t)

(* Until a thread is robbed of SMBI no write loses the bit of another      *)
(* resource and no error path leaves one set.                              *)
BitsMatchUnlessRobbed == ~robbed => BitsMatchOwners

(* The protocol implements exclusive access to each resource: it is        *)
(* granted when its bit is written and given back when the bit is cleared, *)
(* and whatever error ends an acquisition, it leaves the resource alone.   *)
Users == [r \in Resources |-> {t \in Threads : r \in Claimed(t)}]
Outside == {r \in Resources : Fw(r) \in SW_FW_SYNC}
Calling(call) ==
    [t \in Threads |-> IF local[t].call = call THEN {local[t].mask} ELSE {}]

Lock == INSTANCE ResourceLock WITH
    users <- Users, outside <- Outside,
    asks <- Calling("acquire"), gives <- Calling("release")

(* It is that lock up to the step with which a thread is robbed of SMBI. *)
ImplementsLock == Lock!Init /\ [][Lock!Next \/ robbed']_(Lock!vars)

(* The two semaphores are held only by a thread that is inside: no way out *)
(* of an acquire, in particular of one that timed out, leaves them taken.  *)
HeldOnlyInside ==
    /\ SMBI => abandoned \/ \E t \in Threads : HoldsSMBI(t)
    /\ SWESMBI => \E t \in Threads : pc[t] \in {"readSync", "putBusy", "writeSync", "putDone"}

(* An abandoned SMBI does not lock the driver out: once a thread wants it, *)
(* it is cleared.                                                          *)
AbandonedIsCleared == (abandoned /\ \E t \in Threads : pc[t] = "getSMBI") ~> ~abandoned

(* The loop of e1000_release_swfw_sync_i210, which has no bound, ends      *)
(* unless the firmware gets stuck for ever and again.                      *)
ReleaseReturns ==
    <>[](firmware # "stuck") =>
        \A t \in Threads : local[t].call = "release" ~> local[t].call = "none"
=============================================================================
