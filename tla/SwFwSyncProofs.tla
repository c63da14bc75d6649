-------------------------- MODULE SwFwSyncProofs ---------------------------
(***************************************************************************)
(* Proofs about SwFwSync for any number of threads, resources and          *)
(* attempts.                                                               *)
(***************************************************************************)
EXTENDS SwFwSync, TLAPS

-----------------------------------------------------------------------------
(* Types. *)

LocalType == [call: {"none", "acquire", "release"}, mask: Resources,
              swfw_sync: SUBSET ({"sw", "fw"} \X Resources), i: 0 .. Timeout]

(* Every thread's locals start, and end, as NoCall. *)
LEMMA NoCallType == NoCall \in LocalType /\ NoCall.call = "none"
<1>1. (CHOOSE r \in Resources : TRUE) \in Resources
  BY SwFwSyncAssumption
<1>2. 0 \in 0 .. Timeout
  BY SwFwSyncAssumption
<1>3. QED
  BY <1>1, <1>2 DEF NoCall, LocalType

LEMMA InitTypeOK == Init => TypeOK
<1> SUFFICES ASSUME Init PROVE TypeOK
  OBVIOUS
<1>1. abandoned \in BOOLEAN /\ robbed \in BOOLEAN
  BY DEF Init
<1>2. local \in [Threads -> LocalType]
  BY NoCallType DEF Init
<1>3. QED
  BY <1>1, <1>2 DEF Init, TypeOK, Steps, LocalType

(* A thread's place and locals keep their types when one step changes them.*)
LEMMA NextTypeOK == TypeOK /\ [Next]_vars => TypeOK'
<1> SUFFICES ASSUME TypeOK, [Next]_vars PROVE TypeOK'
  OBVIOUS
<1>0. local \in [Threads -> LocalType] /\ pc \in [Threads -> Steps]
  BY DEF TypeOK, LocalType
<1>a. ASSUME NEW t \in Threads, NEW s \in Steps, Goes(t, s)
      PROVE  pc' \in [Threads -> Steps]
  BY <1>0, <1>a DEF Goes
<1>b. ASSUME NEW t \in Threads, GetFails(t)
      PROVE  pc' \in [Threads -> Steps] /\ local' \in [Threads -> LocalType]
  BY <1>0, <1>b, NoCallType DEF GetFails, Goes, Steps
<1>1. ASSUME NEW t \in Threads, e1000_acquire_swfw_sync_i210(t) PROVE TypeOK'
  <2>1. PICK r \in Resources :
          local' = [local EXCEPT ![t] = [NoCall EXCEPT !.call = "acquire", !.mask = r]]
    BY <1>1 DEF e1000_acquire_swfw_sync_i210
  <2>2. [NoCall EXCEPT !.call = "acquire", !.mask = r] \in LocalType
    BY NoCallType DEF LocalType
  <2>3. local' \in [Threads -> LocalType]
    BY <1>0, <2>1, <2>2
  <2>4. pc' \in [Threads -> Steps]
    BY <1>0, <1>1 DEF e1000_acquire_swfw_sync_i210, Goes, Steps
  <2>5. QED
    BY <1>1, <2>3, <2>4 DEF e1000_acquire_swfw_sync_i210, TypeOK, LocalType
<1>2. ASSUME NEW t \in Threads, e1000_release_swfw_sync_i210(t) PROVE TypeOK'
  <2>1. PICK r \in owns[t] :
          /\ local' = [local EXCEPT ![t] = [NoCall EXCEPT !.call = "release", !.mask = r]]
          /\ owns' = [owns EXCEPT ![t] = @ \ {r}]
    BY <1>2 DEF e1000_release_swfw_sync_i210
  <2>2. [NoCall EXCEPT !.call = "release", !.mask = r] \in LocalType
    BY <1>2, NoCallType DEF LocalType, TypeOK
  <2>3. local' \in [Threads -> LocalType]
    BY <1>0, <2>1, <2>2
  <2>4. pc' \in [Threads -> Steps]
    BY <1>0, <1>2 DEF e1000_release_swfw_sync_i210, Goes, Steps
  <2>5. owns' \in [Threads -> SUBSET Resources]
    BY <2>1 DEF TypeOK
  <2>6. QED
    BY <1>2, <2>3, <2>4, <2>5 DEF e1000_release_swfw_sync_i210, TypeOK, LocalType
<1>3. ASSUME NEW t \in Threads,
             \/ GetSMBI(t) \/ ClearOnce(t) \/ PutAfterClear(t)
             \/ PollSWESMBI(t) \/ GetSWESMBI(t)
      PROVE TypeOK'
  <2>1. pc' \in [Threads -> Steps]
    BY <1>0, <1>3 DEF GetSMBI, ClearOnce, PutAfterClear, PollSWESMBI, GetSWESMBI, Goes, Steps
  <2>2. robbed' \in BOOLEAN
    BY <1>3 DEF GetSMBI, ClearOnce, PutAfterClear, PollSWESMBI, GetSWESMBI, TypeOK
  <2>3. QED
    BY <1>3, <2>1, <2>2
       DEF GetSMBI, ClearOnce, PutAfterClear, PollSWESMBI, GetSWESMBI, Put, TypeOK
<1>4. ASSUME NEW t \in Threads, GiveUpSMBI(t) PROVE TypeOK'
  <2>1. pc' \in [Threads -> Steps] /\ local' \in [Threads -> LocalType]
    BY <1>0, <1>4, <1>b DEF GiveUpSMBI, Goes, Steps
  <2>2. QED
    BY <1>4, <2>1 DEF GiveUpSMBI, TypeOK, LocalType
<1>5. ASSUME NEW t \in Threads, GiveUpSWESMBI(t) PROVE TypeOK'
  <2>1. pc' \in [Threads -> Steps] /\ local' \in [Threads -> LocalType]
    BY <1>5, <1>b DEF GiveUpSWESMBI
  <2>2. QED
    BY <1>5, <2>1 DEF GiveUpSWESMBI, Put, TypeOK, LocalType
<1>6. ASSUME NEW t \in Threads, ReadSync(t) PROVE TypeOK'
  <2>1. pc' \in [Threads -> Steps]
    BY <1>0, <1>6 DEF ReadSync, Goes, Steps
  <2>2. local' \in [Threads -> LocalType]
    BY <1>0, <1>6 DEF ReadSync, TypeOK, LocalType
  <2>3. QED
    BY <1>6, <2>1, <2>2 DEF ReadSync, TypeOK, LocalType
<1>7. ASSUME NEW t \in Threads, PutBusy(t) PROVE TypeOK'
  <2>1. pc' \in [Threads -> Steps]
    BY <1>0, <1>7 DEF PutBusy, Goes, Steps
  <2>2. local' \in [Threads -> LocalType]
    <3>1. local[t].i + 1 < Timeout => local[t].i + 1 \in 0 .. Timeout
      BY <1>0, SwFwSyncAssumption DEF LocalType
    <3>2. QED
      BY <1>0, <1>7, <3>1, NoCallType DEF PutBusy, AttemptsLeft, LocalType
  <2>3. QED
    BY <1>7, <2>1, <2>2 DEF PutBusy, Put, TypeOK, LocalType
<1>8. ASSUME NEW t \in Threads, WriteSync(t) PROVE TypeOK'
  <2>1. pc' \in [Threads -> Steps]
    BY <1>0, <1>8 DEF WriteSync, Goes, Steps
  <2>2. NewSync(t) \subseteq {"sw", "fw"} \X Resources
    BY <1>0 DEF NewSync, Sw, LocalType
  <2>3. local' \in [Threads -> LocalType]
    BY <1>0, <1>8 DEF WriteSync, LocalType
  <2>4. QED
    BY <1>8, <2>1, <2>2, <2>3 DEF WriteSync, TypeOK, LocalType
<1>9. ASSUME NEW t \in Threads, PutDone(t) PROVE TypeOK'
  <2>1. pc' \in [Threads -> Steps] /\ local' \in [Threads -> LocalType]
    BY <1>0, <1>9, NoCallType DEF PutDone, Goes, Steps
  <2>2. owns' \in [Threads -> SUBSET Resources]
    <3>1. local[t].mask \in Resources
      BY <1>0 DEF LocalType
    <3>2. QED
      BY <1>9, <3>1 DEF PutDone, TypeOK
  <2>3. QED
    BY <1>9, <2>1, <2>2 DEF PutDone, Put, TypeOK, LocalType
<1>10. CASE FirmwareEnters
  BY <1>10 DEF FirmwareEnters, TypeOK
<1>11. CASE FirmwareLeaves
  BY <1>11, SwFwSyncAssumption DEF FirmwareLeaves, TypeOK, Fw
<1>12. CASE UNCHANGED vars
  BY <1>12 DEF vars, TypeOK
<1>13. QED
  BY <1>1, <1>2, <1>3, <1>4, <1>5, <1>6, <1>7, <1>8, <1>9, <1>10, <1>11, <1>12 DEF Next, Step

(* Whatever the number of threads and attempts, the count of attempts      *)
(* stays within Timeout, only bits of known resources enter SW_FW_SYNC,    *)
(* and threads own resources only.                                         *)
THEOREM TypesHold == Spec => []TypeOK
<1>1. Init => TypeOK
  BY InitTypeOK
<1>2. TypeOK /\ [Next]_vars => TypeOK'
  BY NextTypeOK
<1>3. QED
  BY <1>1, <1>2, PTL DEF Spec
-----------------------------------------------------------------------------
(* The two semaphores. *)

(* The thread has SWESMBI too. *)
Inside(t) == pc[t] \in {"readSync", "putBusy", "writeSync", "putDone"}

LEMMA InitHeld == Init => HeldOnlyInside
BY DEF Init, HeldOnlyInside

(* A bit is set only by a thread that is inside from then on, and a thread *)
(* comes out by clearing both.                                             *)
LEMMA NextHeld ==
    ASSUME TypeOK, HeldOnlyInside, [Next]_vars
    PROVE  HeldOnlyInside'
<1> USE DEF Goes
<1>0. /\ pc \in [Threads -> Steps]
      /\ SMBI = TRUE => abandoned = TRUE \/ \E t \in Threads : HoldsSMBI(t)
      /\ SWESMBI = TRUE => \E t \in Threads : Inside(t)
  BY DEF TypeOK, HeldOnlyInside, Inside
<1>a. ASSUME SMBI' = FALSE, SWESMBI' = FALSE PROVE HeldOnlyInside'
  BY <1>a DEF HeldOnlyInside
<1>b. ASSUME UNCHANGED <<SMBI, SWESMBI, abandoned>>,
             \A u \in Threads : /\ HoldsSMBI(u) => HoldsSMBI(u)'
                                /\ Inside(u) => Inside(u)'
      PROVE  HeldOnlyInside'
  BY <1>0, <1>b DEF TypeOK, HeldOnlyInside, Inside
<1>c. ASSUME NEW t \in Threads, NEW s \in Steps, pc' = [pc EXCEPT ![t] = s],
             HoldsSMBI(t) => s \in {"getSWESMBI", "readSync", "putBusy", "writeSync", "putDone"},
             Inside(t) => s \in {"readSync", "putBusy", "writeSync", "putDone"}
      PROVE  \A u \in Threads : /\ HoldsSMBI(u) => HoldsSMBI(u)'
                                /\ Inside(u) => Inside(u)'
  BY <1>0, <1>c DEF HoldsSMBI, Inside
<1>1. ASSUME NEW t \in Threads,
             e1000_acquire_swfw_sync_i210(t) \/ e1000_release_swfw_sync_i210(t)
      PROVE  HeldOnlyInside'
  <2>1. /\ pc[t] = "idle" /\ pc' = [pc EXCEPT ![t] = "getSMBI"]
        /\ UNCHANGED <<SMBI, SWESMBI, abandoned>>
    BY <1>1 DEF e1000_acquire_swfw_sync_i210, e1000_release_swfw_sync_i210
  <2>2. QED
    BY <1>b, <1>c, <2>1 DEF HoldsSMBI, Inside, Steps
<1>2. ASSUME NEW t \in Threads, GetSMBI(t) PROVE HeldOnlyInside'
  <2>1. /\ pc[t] \in {"getSMBI", "getAgain"} /\ pc' = [pc EXCEPT ![t] = "getSWESMBI"]
        /\ UNCHANGED <<SWESMBI, abandoned>>
    BY <1>2 DEF GetSMBI
  <2>2. HoldsSMBI(t)' /\ \A u \in Threads : Inside(u) => Inside(u)'
    BY <1>0, <1>c, <2>1 DEF HoldsSMBI, Inside
  <2>3. QED
    BY <1>0, <2>1, <2>2 DEF TypeOK, HeldOnlyInside, Inside
<1>3. ASSUME NEW t \in Threads, GiveUpSMBI(t) \/ ClearOnce(t) PROVE HeldOnlyInside'
  <2>1. /\ pc[t] \in {"getSMBI", "getAgain", "clear"}
        /\ UNCHANGED <<SMBI, SWESMBI, abandoned>>
    BY <1>3 DEF GiveUpSMBI, ClearOnce
  <2>2. PICK s \in {"clear", "getSMBI", "idle", "put"} : pc' = [pc EXCEPT ![t] = s]
    BY <1>3 DEF GiveUpSMBI, ClearOnce, GetFails
  <2>3. QED
    BY <1>b, <1>c, <2>1, <2>2 DEF HoldsSMBI, Inside, Steps
<1>4. ASSUME NEW t \in Threads,
             PutAfterClear(t) \/ GiveUpSWESMBI(t) \/ PutBusy(t) \/ PutDone(t)
      PROVE  HeldOnlyInside'
  BY <1>4, <1>a DEF PutAfterClear, GiveUpSWESMBI, PutBusy, PutDone, Put
<1>5. ASSUME NEW t \in Threads, PollSWESMBI(t) PROVE HeldOnlyInside'
  <2>1. HoldsSMBI(t)' /\ UNCHANGED <<pc, SWESMBI>>
    BY <1>5 DEF PollSWESMBI, HoldsSMBI
  <2>2. QED
    BY <2>1 DEF HeldOnlyInside
<1>6. ASSUME NEW t \in Threads, GetSWESMBI(t) PROVE HeldOnlyInside'
  <2>1. pc' = [pc EXCEPT ![t] = "readSync"]
    BY <1>6 DEF GetSWESMBI
  <2>2. pc'[t] = "readSync"
    BY <1>0, <2>1
  <2>3. QED
    BY <2>2 DEF HeldOnlyInside, HoldsSMBI
<1>7. ASSUME NEW t \in Threads, ReadSync(t) \/ WriteSync(t) PROVE HeldOnlyInside'
  <2>1. UNCHANGED <<SMBI, SWESMBI, abandoned>>
    BY <1>7 DEF ReadSync, WriteSync
  <2>2. PICK s \in {"putBusy", "writeSync", "putDone"} : pc' = [pc EXCEPT ![t] = s]
    BY <1>7 DEF ReadSync, WriteSync
  <2>3. QED
    BY <1>b, <1>c, <2>1, <2>2 DEF Steps
<1>8. CASE FirmwareEnters \/ FirmwareLeaves \/ UNCHANGED vars
  BY <1>8 DEF FirmwareEnters, FirmwareLeaves, vars, HeldOnlyInside, HoldsSMBI
<1>9. QED
  BY <1>1, <1>2, <1>3, <1>4, <1>5, <1>6, <1>7, <1>8 DEF Next, Step

(* No path out of an acquire or a release leaves SMBI or SWESMBI taken,    *)
(* not even after SMBI was cleared from under a thread.                    *)
THEOREM SemaphoresAreReleased == Spec => []HeldOnlyInside
<1>1. Init => TypeOK /\ HeldOnlyInside
  BY InitTypeOK, InitHeld
<1>2. TypeOK /\ HeldOnlyInside /\ [Next]_vars => TypeOK' /\ HeldOnlyInside'
  BY NextTypeOK, NextHeld
<1>3. QED
  BY <1>1, <1>2, PTL DEF Spec

(* SMBI belongs to one thread or is abandoned, and SWESMBI keeps the       *)
(* firmware out while a thread is inside.                                  *)
SemaphoresHeld ==
    /\ \A t \in Threads :
         /\ HoldsSMBI(t) => SMBI = TRUE /\ abandoned = FALSE
         /\ Inside(t) => SWESMBI = TRUE
         /\ \A u \in Threads : HoldsSMBI(t) /\ HoldsSMBI(u) => t = u
    /\ SWESMBI = TRUE => firmware = "out"
    /\ abandoned = TRUE => SMBI = TRUE

LEMMA InitSemaphores == Init => SemaphoresHeld
<1> SUFFICES ASSUME Init PROVE SemaphoresHeld
  OBVIOUS
<1>1. \A t \in Threads : pc[t] = "idle"
  BY DEF Init
<1>2. QED
  BY <1>1 DEF Init, SemaphoresHeld, HoldsSMBI, Inside

(* A thread clears both bits while no other holds SMBI. *)
LEMMA PutKeepsSemaphores ==
    ASSUME TypeOK, SemaphoresHeld, NEW t \in Threads, Put,
           \A u \in Threads : u # t => ~HoldsSMBI(u),
           pc' = [pc EXCEPT ![t] = pc'[t]], pc'[t] \in {"idle", "getSMBI", "getAgain"}
    PROVE  SemaphoresHeld'
<1>1. \A u \in Threads : u # t => pc'[u] = pc[u]
  BY DEF TypeOK
<1>2. \A u \in Threads : ~HoldsSMBI(u)' /\ ~Inside(u)'
  BY <1>1 DEF HoldsSMBI, Inside
<1>3. QED
  BY <1>2 DEF SemaphoresHeld, Put

(* A thread moves on without touching the two bits, keeping what it holds. *)
LEMMA MoveKeepsSemaphores ==
    ASSUME TypeOK, SemaphoresHeld, NEW t \in Threads,
           pc' = [pc EXCEPT ![t] = pc'[t]],
           HoldsSMBI(t)' = HoldsSMBI(t), Inside(t)' = Inside(t),
           UNCHANGED <<SMBI, SWESMBI, firmware, abandoned>>
    PROVE  SemaphoresHeld'
<1>1. \A u \in Threads : u # t => pc'[u] = pc[u]
  BY DEF TypeOK
<1>2. \A u \in Threads : HoldsSMBI(u)' = HoldsSMBI(u) /\ Inside(u)' = Inside(u)
  BY <1>1 DEF HoldsSMBI, Inside
<1>3. QED
  BY <1>1, <1>2 DEF SemaphoresHeld

(* Unless a thread is robbed of SMBI. *)
LEMMA NextSemaphores ==
    ASSUME TypeOK, SemaphoresHeld, [Next]_vars, robbed' = FALSE
    PROVE  SemaphoresHeld'
<1> USE DEF Goes
<1>0. pc \in [Threads -> Steps]
  BY DEF TypeOK
<1>1. ASSUME NEW t \in Threads,
             \/ e1000_acquire_swfw_sync_i210(t) \/ e1000_release_swfw_sync_i210(t)
             \/ GiveUpSMBI(t) \/ ClearOnce(t)
      PROVE  SemaphoresHeld'
  <2>1. /\ pc[t] \in {"idle", "getSMBI", "getAgain", "clear"}
        /\ UNCHANGED <<SMBI, SWESMBI, firmware, abandoned>>
    BY <1>1 DEF e1000_acquire_swfw_sync_i210, e1000_release_swfw_sync_i210, GiveUpSMBI, ClearOnce
  <2>2. PICK s \in {"getSMBI", "clear", "idle", "put"} : pc' = [pc EXCEPT ![t] = s]
    BY <1>1 DEF e1000_acquire_swfw_sync_i210, e1000_release_swfw_sync_i210, GiveUpSMBI,
                ClearOnce, GetFails
  <2>3. pc'[t] = s
    BY <1>0, <2>2
  <2>4. HoldsSMBI(t)' = HoldsSMBI(t) /\ Inside(t)' = Inside(t)
    BY <2>1, <2>3 DEF HoldsSMBI, Inside
  <2>5. QED
    BY <2>1, <2>2, <2>3, <2>4, MoveKeepsSemaphores
<1>2. ASSUME NEW t \in Threads, GetSMBI(t) PROVE SemaphoresHeld'
  <2>1. /\ pc[t] \in {"getSMBI", "getAgain"} /\ ~SMBI /\ SMBI' = TRUE
        /\ pc' = [pc EXCEPT ![t] = "getSWESMBI"]
        /\ UNCHANGED <<SWESMBI, firmware, abandoned>>
    BY <1>2 DEF GetSMBI
  <2>2. abandoned = FALSE /\ \A u \in Threads : ~HoldsSMBI(u)
    BY <2>1 DEF SemaphoresHeld, TypeOK
  <2>3. pc'[t] = "getSWESMBI" /\ \A u \in Threads : u # t => pc'[u] = pc[u]
    BY <1>0, <2>1
  <2>4. \A u \in Threads : (HoldsSMBI(u)' <=> u = t) /\ (Inside(u)' <=> Inside(u))
    BY <2>1, <2>2, <2>3 DEF HoldsSMBI, Inside
  <2>5. QED
    BY <2>1, <2>2, <2>4 DEF SemaphoresHeld
<1>3. ASSUME NEW t \in Threads, PutAfterClear(t) PROVE SemaphoresHeld'
  <2>1. /\ pc[t] = "put" /\ pc' = [pc EXCEPT ![t] = "getAgain"] /\ Put
        /\ \A u \in Threads : ~HoldsSMBI(u)
    BY <1>3 DEF PutAfterClear
  <2>2. pc'[t] = "getAgain"
    BY <1>0, <2>1
  <2>3. QED
    BY <2>1, <2>2, PutKeepsSemaphores
<1>4. ASSUME NEW t \in Threads, PollSWESMBI(t) PROVE FALSE
  BY <1>4 DEF PollSWESMBI, SemaphoresHeld, HoldsSMBI
<1>5. ASSUME NEW t \in Threads, GetSWESMBI(t) PROVE SemaphoresHeld'
  <2>1. /\ pc[t] = "getSWESMBI" /\ pc' = [pc EXCEPT ![t] = "readSync"]
        /\ firmware = "out" /\ SMBI' = TRUE /\ SWESMBI' = TRUE
        /\ UNCHANGED <<firmware, abandoned>>
    BY <1>5 DEF GetSWESMBI
  <2>2. pc'[t] = "readSync" /\ \A u \in Threads : u # t => pc'[u] = pc[u]
    BY <1>0, <2>1
  <2>3. \A u \in Threads : HoldsSMBI(u)' <=> HoldsSMBI(u)
    BY <2>1, <2>2 DEF HoldsSMBI
  <2>4. QED
    BY <2>1, <2>3 DEF SemaphoresHeld
<1>6. ASSUME NEW t \in Threads, GiveUpSWESMBI(t) \/ PutBusy(t) \/ PutDone(t)
      PROVE  SemaphoresHeld'
  <2>1. HoldsSMBI(t) /\ Put
    BY <1>6 DEF GiveUpSWESMBI, PutBusy, PutDone, HoldsSMBI
  <2>2. PICK s \in {"idle", "getSMBI"} : pc' = [pc EXCEPT ![t] = s]
    BY <1>6 DEF GiveUpSWESMBI, PutBusy, PutDone, GetFails
  <2>3. pc' = [pc EXCEPT ![t] = pc'[t]] /\ pc'[t] \in {"idle", "getSMBI"}
    BY <1>0, <2>2
  <2>4. \A u \in Threads : u # t => ~HoldsSMBI(u)
    BY <2>1 DEF SemaphoresHeld
  <2>5. QED
    BY <2>1, <2>3, <2>4, PutKeepsSemaphores
<1>7. ASSUME NEW t \in Threads, ReadSync(t) \/ WriteSync(t) PROVE SemaphoresHeld'
  <2>1. /\ pc[t] \in {"readSync", "writeSync"}
        /\ UNCHANGED <<SMBI, SWESMBI, firmware, abandoned>>
    BY <1>7 DEF ReadSync, WriteSync
  <2>2. PICK s \in {"putBusy", "writeSync", "putDone"} : pc' = [pc EXCEPT ![t] = s]
    BY <1>7 DEF ReadSync, WriteSync
  <2>3. pc'[t] = s
    BY <1>0, <2>2
  <2>4. HoldsSMBI(t)' = HoldsSMBI(t) /\ Inside(t)' = Inside(t)
    BY <2>1, <2>3 DEF HoldsSMBI, Inside
  <2>5. QED
    BY <2>1, <2>2, <2>3, <2>4, MoveKeepsSemaphores
<1>8. CASE FirmwareEnters \/ FirmwareLeaves
  <2>1. /\ UNCHANGED <<SMBI, SWESMBI, abandoned, pc>>
        /\ SWESMBI = TRUE => firmware' = "out"
    BY <1>8 DEF FirmwareEnters, FirmwareLeaves, SemaphoresHeld
  <2>2. QED
    BY <2>1 DEF SemaphoresHeld, HoldsSMBI, Inside
<1>9. CASE UNCHANGED vars
  BY <1>9 DEF vars, SemaphoresHeld, HoldsSMBI, Inside
<1>10. QED
  BY <1>1, <1>2, <1>3, <1>4, <1>5, <1>6, <1>7, <1>8, <1>9 DEF Next, Step
-----------------------------------------------------------------------------
(* SW_FW_SYNC. *)

(* What a thread knows of the register, and of its own call. *)
LocalsMatch(t) ==
    /\ local[t].call = "none" <=> pc[t] = "idle"
    /\ pc[t] = "putBusy" => local[t].call = "acquire"
    /\ pc[t] = "writeSync" =>
         /\ local[t].swfw_sync = SW_FW_SYNC
         /\ local[t].call = "acquire" => ~InUse(t)
    /\ local[t].call # "none" => local[t].mask \notin owns[t]

(* What is claimed is claimed by one thread and not by the firmware. *)
ClaimsDisjoint ==
    \A t \in Threads :
        /\ \A r \in Claimed(t) : Fw(r) \notin SW_FW_SYNC
        /\ \A u \in Threads \ {t} : Claimed(t) \cap Claimed(u) = {}

SyncHeld ==
    /\ \A t \in Threads : LocalsMatch(t)
    /\ BitsMatchOwners
    /\ ClaimsDisjoint

(* Software and firmware bits are told apart. *)
LEMMA Bits ==
    ASSUME NEW r, NEW s
    PROVE  Sw(r) # Fw(s) /\ (Sw(r) = Sw(s) <=> r = s) /\ (Fw(r) = Fw(s) <=> r = s)
BY DEF Sw, Fw

LEMMA InitSync == Init => SyncHeld
<1> SUFFICES ASSUME Init PROVE SyncHeld
  OBVIOUS
<1>1. \A t \in Threads : pc[t] = "idle" /\ owns[t] = {} /\ local[t].call = "none"
  BY NoCallType DEF Init
<1>2. \A t \in Threads : Claimed(t) = {}
  BY <1>1 DEF Claimed
<1>3. \A t \in Threads : LocalsMatch(t)
  BY <1>1 DEF LocalsMatch
<1>4. SW_FW_SYNC = {}
  BY DEF Init
<1>5. QED
  BY <1>2, <1>3, <1>4 DEF SyncHeld, BitsMatchOwners, ClaimsDisjoint

(* A step of one thread that leaves the register and its claim alone. *)
LEMMA ThreadKeepsSync ==
    ASSUME TypeOK, SyncHeld, NEW t \in Threads,
           \A u \in Threads : u # t => /\ pc'[u] = pc[u] /\ local'[u] = local[u]
                                       /\ owns'[u] = owns[u],
           SW_FW_SYNC' = SW_FW_SYNC,
           LocalsMatch(t)', Claimed(t)' = Claimed(t)
    PROVE  SyncHeld'
<1>1. \A u \in Threads : Claimed(u)' = Claimed(u)
  BY DEF Claimed
<1>2. \A u \in Threads : LocalsMatch(u)'
  BY DEF LocalsMatch, SyncHeld, InUse
<1>3. BitsMatchOwners'
  BY <1>1 DEF SyncHeld, BitsMatchOwners
<1>4. ClaimsDisjoint'
  BY <1>1 DEF SyncHeld, ClaimsDisjoint
<1>5. QED
  BY <1>2, <1>3, <1>4 DEF SyncHeld

(* The thread writes back what it read, with its bit set or cleared, while *)
(* no other thread and not the firmware can write.                         *)
LEMMA WriteKeepsSync ==
    ASSUME TypeOK, SemaphoresHeld, SyncHeld, NEW t \in Threads, WriteSync(t)
    PROVE  SyncHeld'
<1>1. PICK m \in Resources : m = local[t].mask
  BY DEF TypeOK
<1>2. /\ pc[t] = "writeSync" /\ pc'[t] = "putDone" /\ owns' = owns
      /\ local'[t].call = local[t].call /\ local'[t].mask = local[t].mask
      /\ \A u \in Threads : u # t => pc'[u] = pc[u] /\ local'[u] = local[u]
      /\ SW_FW_SYNC' = NewSync(t)
  BY DEF WriteSync, Goes, TypeOK
<1>3. /\ local[t].swfw_sync = SW_FW_SYNC
      /\ local[t].call \in {"acquire", "release"}
      /\ local[t].call = "acquire" => Sw(m) \notin SW_FW_SYNC /\ Fw(m) \notin SW_FW_SYNC
      /\ m \notin owns[t]
  BY <1>1, <1>2 DEF SyncHeld, LocalsMatch, InUse, TypeOK
<1>4. \A u \in Threads : u # t => pc[u] # "writeSync" /\ Claimed(u)' = Claimed(u)
  <2>1. \A u \in Threads : u # t => pc[u] # "writeSync"
    BY <1>2 DEF SemaphoresHeld, HoldsSMBI
  <2>2. \A u \in Threads : u # t => Claimed(u)' = Claimed(u)
    BY <1>2 DEF Claimed
  <2>3. QED
    BY <2>1, <2>2
<1>5. \A u \in Threads : LocalsMatch(u)'
  <2>1. LocalsMatch(t)'
    BY <1>1, <1>2, <1>3 DEF LocalsMatch
  <2>2. \A u \in Threads : u # t => LocalsMatch(u)'
    BY <1>2, <1>4 DEF LocalsMatch, SyncHeld
  <2>3. QED
    BY <2>1, <2>2
<1>6. CASE local[t].call = "acquire"
  <2>1. SW_FW_SYNC' = SW_FW_SYNC \cup {Sw(m)}
    BY <1>1, <1>2, <1>3, <1>6 DEF NewSync
  <2>2. Claimed(t)' = Claimed(t) \cup {m}
    BY <1>1, <1>2, <1>6 DEF Claimed
  <2>3. \A u \in Threads : m \notin Claimed(u)
    BY <1>3, <1>6 DEF SyncHeld, BitsMatchOwners
  <2>4. BitsMatchOwners'
    BY <1>4, <2>1, <2>2, Bits DEF SyncHeld, BitsMatchOwners
  <2>5. ClaimsDisjoint'
    BY <1>3, <1>4, <1>6, <2>1, <2>2, <2>3, Bits DEF SyncHeld, ClaimsDisjoint
  <2>6. QED
    BY <1>5, <2>4, <2>5 DEF SyncHeld
<1>7. CASE local[t].call = "release"
  <2>1. SW_FW_SYNC' = SW_FW_SYNC \ {Sw(m)}
    BY <1>1, <1>2, <1>3, <1>7 DEF NewSync
  <2>2. Claimed(t)' = Claimed(t) \ {m} /\ m \in Claimed(t)
    BY <1>1, <1>2, <1>3, <1>7 DEF Claimed
  <2>3. \A u \in Threads : u # t => m \notin Claimed(u)
    BY <2>2 DEF SyncHeld, ClaimsDisjoint
  <2>4. BitsMatchOwners'
    BY <1>4, <2>1, <2>2, <2>3, Bits DEF SyncHeld, BitsMatchOwners
  <2>5. ClaimsDisjoint'
    BY <1>4, <2>1, <2>2 DEF SyncHeld, ClaimsDisjoint
  <2>6. QED
    BY <1>5, <2>4, <2>5 DEF SyncHeld
<1>8. QED
  BY <1>3, <1>6, <1>7

(* The firmware claims only what no software bit is set for, and no thread *)
(* is between its read and its write then.                                 *)
LEMMA FirmwareKeepsSync ==
    ASSUME TypeOK, SemaphoresHeld, SyncHeld, FirmwareLeaves
    PROVE  SyncHeld'
<1>1. UNCHANGED <<pc, local, owns>> /\ firmware # "out"
  BY DEF FirmwareLeaves
<1>2. \A t \in Threads : pc[t] # "writeSync"
  BY <1>1 DEF SemaphoresHeld, Inside
<1>3. \A t \in Threads : LocalsMatch(t)'
  BY <1>1, <1>2 DEF LocalsMatch, SyncHeld
<1>4. \A t \in Threads : Claimed(t)' = Claimed(t)
  BY <1>1 DEF Claimed
<1>5. \A r \in Resources : Sw(r) \in SW_FW_SYNC' <=> Sw(r) \in SW_FW_SYNC
  BY Bits DEF FirmwareLeaves
<1>6. \A r \in Resources : Sw(r) \in SW_FW_SYNC /\ Fw(r) \in SW_FW_SYNC' => Fw(r) \in SW_FW_SYNC
  BY Bits DEF FirmwareLeaves
<1>7. BitsMatchOwners'
  BY <1>4, <1>5 DEF SyncHeld, BitsMatchOwners
<1>8. ClaimsDisjoint'
  <2>1. \A t \in Threads : \A r \in Claimed(t) : r \in Resources /\ Sw(r) \in SW_FW_SYNC
    BY DEF SyncHeld, BitsMatchOwners, Claimed
  <2>2. QED
    BY <1>4, <1>6, <2>1 DEF SyncHeld, ClaimsDisjoint
<1>9. QED
  BY <1>3, <1>7, <1>8 DEF SyncHeld

LEMMA NextSync ==
    ASSUME TypeOK, SemaphoresHeld, SyncHeld, [Next]_vars
    PROVE  SyncHeld'
<1>0. /\ pc \in [Threads -> Steps] /\ local \in [Threads -> LocalType]
      /\ owns \in [Threads -> SUBSET Resources]
      /\ \A t \in Threads : LocalsMatch(t)
  BY DEF TypeOK, LocalType, SyncHeld
<1> DEFINE Others(t) ==
      /\ \A u \in Threads : u # t => /\ pc'[u] = pc[u] /\ local'[u] = local[u]
                                     /\ owns'[u] = owns[u]
      /\ SW_FW_SYNC' = SW_FW_SYNC
<1>1. ASSUME NEW t \in Threads, e1000_acquire_swfw_sync_i210(t) PROVE SyncHeld'
  <2>1. PICK r \in Resources \ owns[t] :
          local' = [local EXCEPT ![t] = [NoCall EXCEPT !.call = "acquire", !.mask = r]]
    BY <1>1 DEF e1000_acquire_swfw_sync_i210
  <2>2. /\ pc[t] = "idle" /\ pc'[t] = "getSMBI" /\ owns' = owns
        /\ local'[t].call = "acquire" /\ local'[t].mask = r
    BY <1>0, <1>1, <2>1, NoCallType DEF e1000_acquire_swfw_sync_i210, Goes, LocalType
  <2>3. Others(t)
    BY <1>0, <1>1, <2>1 DEF e1000_acquire_swfw_sync_i210, Goes
  <2>4. LocalsMatch(t)'
    BY <2>2 DEF LocalsMatch
  <2>5. Claimed(t)' = Claimed(t)
    BY <1>0, <2>2 DEF Claimed, LocalsMatch
  <2>6. QED
    BY <2>3, <2>4, <2>5, ThreadKeepsSync
<1>2. ASSUME NEW t \in Threads, e1000_release_swfw_sync_i210(t) PROVE SyncHeld'
  <2>1. PICK r \in owns[t] :
          /\ local' = [local EXCEPT ![t] = [NoCall EXCEPT !.call = "release", !.mask = r]]
          /\ owns' = [owns EXCEPT ![t] = @ \ {r}]
    BY <1>2 DEF e1000_release_swfw_sync_i210
  <2>2. /\ pc[t] = "idle" /\ pc'[t] = "getSMBI" /\ r \in Resources
        /\ local'[t].call = "release" /\ local'[t].mask = r /\ owns'[t] = owns[t] \ {r}
    BY <1>0, <1>2, <2>1, NoCallType DEF e1000_release_swfw_sync_i210, Goes, LocalType
  <2>3. Others(t)
    BY <1>0, <1>2, <2>1 DEF e1000_release_swfw_sync_i210, Goes
  <2>4. LocalsMatch(t)'
    BY <2>2 DEF LocalsMatch
  <2>5. Claimed(t)' = Claimed(t)
    BY <1>0, <2>2 DEF Claimed, LocalsMatch
  <2>6. QED
    BY <2>3, <2>4, <2>5, ThreadKeepsSync
<1>3. ASSUME NEW t \in Threads,
             \/ GetSMBI(t) \/ ClearOnce(t) \/ PutAfterClear(t)
             \/ PollSWESMBI(t) \/ GetSWESMBI(t)
      PROVE SyncHeld'
  <2>1. /\ pc[t] \in {"getSMBI", "getAgain", "clear", "put", "getSWESMBI"}
        /\ pc'[t] \in {"getSWESMBI", "put", "getAgain", "readSync"}
        /\ local' = local /\ owns' = owns
    BY <1>0, <1>3 DEF GetSMBI, ClearOnce, PutAfterClear, PollSWESMBI, GetSWESMBI, Goes
  <2>2. Others(t)
    BY <1>0, <1>3 DEF GetSMBI, ClearOnce, PutAfterClear, PollSWESMBI, GetSWESMBI, Goes
  <2>3. LocalsMatch(t)'
    BY <1>0, <2>1 DEF LocalsMatch
  <2>4. Claimed(t)' = Claimed(t)
    BY <2>1 DEF Claimed
  <2>5. QED
    BY <2>2, <2>3, <2>4, ThreadKeepsSync
<1>4. ASSUME NEW t \in Threads, GiveUpSMBI(t) \/ GiveUpSWESMBI(t) PROVE SyncHeld'
  <2>1. /\ pc[t] \in {"getSMBI", "getAgain", "getSWESMBI"} /\ owns' = owns
        /\ SW_FW_SYNC' = SW_FW_SYNC
        /\ (Goes(t, "clear") /\ local' = local) \/ GetFails(t)
    BY <1>4 DEF GiveUpSMBI, GiveUpSWESMBI
  <2>2. Others(t)
    BY <1>0, <2>1 DEF GetFails, Goes
  <2>3. \/ pc'[t] \in {"clear", "getSMBI"} /\ local'[t] = local[t]
        \/ /\ pc'[t] = "idle" /\ local'[t] = NoCall /\ local[t].call # "release"
    BY <1>0, <2>1 DEF GetFails, Goes
  <2>4. LocalsMatch(t)'
    BY <1>0, <2>1, <2>3, NoCallType DEF LocalsMatch
  <2>5. Claimed(t)' = Claimed(t)
    BY <2>1, <2>3, NoCallType DEF Claimed
  <2>6. QED
    BY <2>2, <2>4, <2>5, ThreadKeepsSync
<1>5. ASSUME NEW t \in Threads, ReadSync(t) PROVE SyncHeld'
  <2>1. /\ pc[t] = "readSync" /\ owns' = owns
        /\ local'[t] = [local[t] EXCEPT !.swfw_sync = IF BacksOff(t) THEN {} ELSE SW_FW_SYNC]
        /\ SW_FW_SYNC' = SW_FW_SYNC
        /\ pc'[t] = IF BacksOff(t) THEN "putBusy" ELSE "writeSync"
    BY <1>0, <1>5 DEF ReadSync, Goes
  <2>2. Others(t)
    BY <1>0, <1>5 DEF ReadSync, Goes
  <2>3. /\ local'[t].call = local[t].call /\ local'[t].mask = local[t].mask
        /\ ~BacksOff(t) => local'[t].swfw_sync = SW_FW_SYNC
    BY <1>0, <2>1 DEF LocalType
  <2>4. InUse(t)' <=> InUse(t)
    BY <2>1, <2>3 DEF InUse
  <2>5. LocalsMatch(t)'
    BY <1>0, <2>1, <2>3, <2>4 DEF LocalsMatch, BacksOff
  <2>6. Claimed(t)' = Claimed(t)
    BY <2>1, <2>3 DEF Claimed
  <2>7. QED
    BY <2>2, <2>5, <2>6, ThreadKeepsSync
<1>6. ASSUME NEW t \in Threads, PutBusy(t) PROVE SyncHeld'
  <2>1. pc[t] = "putBusy" /\ owns' = owns /\ local[t].call = "acquire"
    BY <1>0, <1>6 DEF PutBusy, LocalsMatch
  <2>2. \/ /\ pc'[t] = "getSMBI" /\ local'[t].call = local[t].call
           /\ local'[t].mask = local[t].mask
        \/ /\ pc'[t] = "idle" /\ local'[t] = NoCall
    BY <1>0, <1>6 DEF PutBusy, Goes, LocalType
  <2>3. Others(t)
    BY <1>0, <1>6 DEF PutBusy, Goes
  <2>4. LocalsMatch(t)'
    BY <1>0, <2>1, <2>2, NoCallType DEF LocalsMatch
  <2>5. Claimed(t)' = Claimed(t)
    BY <2>1, <2>2, NoCallType DEF Claimed
  <2>6. QED
    BY <2>3, <2>4, <2>5, ThreadKeepsSync
<1>7. ASSUME NEW t \in Threads, WriteSync(t) PROVE SyncHeld'
  BY <1>7, WriteKeepsSync
<1>8. ASSUME NEW t \in Threads, PutDone(t) PROVE SyncHeld'
  <2>1. /\ pc[t] = "putDone" /\ pc'[t] = "idle" /\ local'[t] = NoCall
        /\ local[t].mask \in Resources
        /\ owns'[t] = IF local[t].call = "acquire" THEN owns[t] \cup {local[t].mask}
                                                   ELSE owns[t]
    BY <1>0, <1>8 DEF PutDone, Goes, LocalType
  <2>2. Others(t)
    BY <1>0, <1>8 DEF PutDone, Goes
  <2>3. LocalsMatch(t)'
    BY <2>1, NoCallType DEF LocalsMatch
  <2>4. Claimed(t)' = Claimed(t)
    BY <2>1, NoCallType DEF Claimed
  <2>5. QED
    BY <2>2, <2>3, <2>4, ThreadKeepsSync
<1>9. CASE FirmwareEnters \/ UNCHANGED vars
  <2>1. UNCHANGED <<pc, local, owns, SW_FW_SYNC>>
    BY <1>9 DEF FirmwareEnters, vars
  <2>2. QED
    BY <2>1 DEF SyncHeld, LocalsMatch, InUse, BitsMatchOwners, ClaimsDisjoint, Claimed
<1>10. CASE FirmwareLeaves
  BY <1>10, FirmwareKeepsSync
<1>11. QED
  BY <1>1, <1>2, <1>3, <1>4, <1>5, <1>6, <1>7, <1>8, <1>9, <1>10 DEF Next, Step
-----------------------------------------------------------------------------
(* The theorems. *)

(* SMBI is not given back to a thread that was robbed of it. *)
LEMMA RobbedStays == ASSUME [Next]_vars, robbed' = FALSE, TypeOK PROVE robbed = FALSE
BY DEF Next, Step, vars, TypeOK, e1000_acquire_swfw_sync_i210, e1000_release_swfw_sync_i210,
       GetSMBI, GiveUpSMBI, ClearOnce, PutAfterClear, PollSWESMBI, GetSWESMBI, GiveUpSWESMBI,
       ReadSync, PutBusy, WriteSync, PutDone, FirmwareEnters, FirmwareLeaves

Invariant == TypeOK /\ (robbed = FALSE => SemaphoresHeld /\ SyncHeld)

LEMMA InvariantHolds == Spec => []Invariant
<1>1. Init => Invariant
  BY InitTypeOK, InitSemaphores, InitSync DEF Invariant
<1>2. Invariant /\ [Next]_vars => Invariant'
  BY NextTypeOK, NextSemaphores, NextSync, RobbedStays DEF Invariant
<1>3. QED
  BY <1>1, <1>2, PTL DEF Spec

(* With any number of threads and resources, however often they give up    *)
(* and come back and whatever the firmware does, a resource acquired is    *)
(* acquired by one thread and not by the firmware, until a time-out clears *)
(* SMBI from under a thread that has it.                                   *)
THEOREM AcquiredIsExclusive == Spec => []ExclusiveUnlessRobbed
<1>1. Invariant => ExclusiveUnlessRobbed
  <2> SUFFICES ASSUME Invariant, ~robbed PROVE Exclusive
    BY DEF ExclusiveUnlessRobbed
  <2>1. SyncHeld
    BY DEF Invariant, TypeOK
  <2>2. \A t \in Threads : owns[t] \subseteq Claimed(t)
    BY DEF Invariant, TypeOK, Claimed
  <2>3. QED
    BY <2>1, <2>2 DEF SyncHeld, ClaimsDisjoint, Exclusive
<1>2. QED
  BY <1>1, InvariantHolds, PTL

(* Until then no write of SW_FW_SYNC loses or leaves behind the bit of any *)
(* resource.                                                               *)
THEOREM BitsAreClaims == Spec => []BitsMatchUnlessRobbed
<1>1. Invariant => BitsMatchUnlessRobbed
  BY DEF Invariant, TypeOK, SyncHeld, BitsMatchUnlessRobbed
<1>2. QED
  BY <1>1, InvariantHolds, PTL
-----------------------------------------------------------------------------
(* The refinement. *)

(* A step that changes no call, no claim and no bit of the firmware. *)
LEMMA Stutters ==
    ASSUME \A t \in Threads : /\ Claimed(t)' = Claimed(t)
                              /\ local'[t].call = local[t].call
                              /\ local'[t].mask = local[t].mask,
           SW_FW_SYNC' = SW_FW_SYNC, owns' = owns
    PROVE  UNCHANGED Lock!vars
<1>1. Users' = Users
  BY DEF Users
<1>2. Outside' = Outside
  BY DEF Outside
<1>3. \A call : Calling(call)' = Calling(call)
  BY DEF Calling
<1>4. QED
  BY <1>1, <1>2, <1>3 DEF Lock!vars

(* A call begins or ends: claims and the firmware's bits stay.             *)
LEMMA CallChanges ==
    ASSUME NEW t \in Threads, \A u \in Threads : Claimed(u)' = Claimed(u),
           SW_FW_SYNC' = SW_FW_SYNC,
           \A u \in Threads : u # t => local'[u] = local[u]
    PROVE  /\ Users' = Users /\ Outside' = Outside
           /\ \A call \in {"acquire", "release"} :
                Calling(call)' = [Calling(call) EXCEPT ![t] =
                                    IF local'[t].call = call THEN {local'[t].mask} ELSE {}]
<1>1. Users' = Users
  BY DEF Users
<1>2. Outside' = Outside
  BY DEF Outside
<1>3. \A call \in {"acquire", "release"} :
        Calling(call)' = [Calling(call) EXCEPT ![t] =
                            IF local'[t].call = call THEN {local'[t].mask} ELSE {}]
  BY DEF Calling
<1>4. QED
  BY <1>1, <1>2, <1>3

(* A call that ends without the resource, or a release that has returned.  *)
LEMMA CallEnds ==
    ASSUME TypeOK, SyncHeld, NEW t \in Threads,
           \A u \in Threads : Claimed(u)' = Claimed(u),
           SW_FW_SYNC' = SW_FW_SYNC, local[t].call \in {"acquire", "release"},
           local[t].mask \notin Claimed(t),
           local' = [local EXCEPT ![t] = NoCall], owns' = owns
    PROVE  Lock!Next
<1>1. PICK r \in Resources : r = local[t].mask
  BY DEF TypeOK
<1>2. local'[t] = NoCall /\ \A u \in Threads : u # t => local'[u] = local[u]
  BY DEF TypeOK
<1>3. /\ Users' = Users /\ Outside' = Outside
      /\ Calling("acquire")' = [Calling("acquire") EXCEPT ![t] = {}]
      /\ Calling("release")' = [Calling("release") EXCEPT ![t] = {}]
  BY <1>2, CallChanges, NoCallType
<1>4. t \notin Users[r]
  BY <1>1 DEF Users
<1>5. CASE local[t].call = "acquire"
  <2>1. r \in Calling("acquire")[t] /\ Calling("release")[t] = {}
    BY <1>1, <1>5 DEF Calling
  <2>2. Calling("release")' = Calling("release")
    BY <1>3, <2>1 DEF Calling
  <2>3. Lock!Refuse(t, r)
    BY <1>3, <1>4, <2>1, <2>2 DEF Lock!Refuse
  <2>4. QED
    BY <2>3 DEF Lock!Next
<1>6. CASE local[t].call = "release"
  <2>1. r \in Calling("release")[t] /\ Calling("acquire")[t] = {}
    BY <1>1, <1>6 DEF Calling
  <2>2. Calling("acquire")' = Calling("acquire")
    BY <1>3, <2>1 DEF Calling
  <2>3. Lock!Returns(t, r)
    BY <1>3, <1>4, <2>1, <2>2 DEF Lock!Returns
  <2>4. QED
    BY <2>3 DEF Lock!Next
<1>7. QED
  BY <1>5, <1>6

(* An attempt given up: a release tries again, an acquire is refused.      *)
LEMMA GivingUpRefines ==
    ASSUME TypeOK, SyncHeld, NEW t \in Threads, GetFails(t),
           pc[t] \in {"getSMBI", "getAgain", "getSWESMBI"},
           SW_FW_SYNC' = SW_FW_SYNC, owns' = owns
    PROVE  [Lock!Next]_Lock!vars
<1>1. local[t].call \in {"acquire", "release"}
  BY DEF TypeOK, SyncHeld, LocalsMatch
<1>2. CASE local[t].call = "release"
  <2>1. local' = local /\ pc' = [pc EXCEPT ![t] = "getSMBI"]
    BY <1>2 DEF GetFails, Goes
  <2>2. pc'[t] = "getSMBI" /\ \A u \in Threads : u # t => pc'[u] = pc[u]
    BY <2>1 DEF TypeOK
  <2>3. \A u \in Threads : Claimed(u)' = Claimed(u)
    BY <2>1, <2>2 DEF Claimed
  <2>4. QED
    BY <2>1, <2>3, Stutters
<1>3. CASE local[t].call = "acquire"
  <2>1. local' = [local EXCEPT ![t] = NoCall] /\ pc' = [pc EXCEPT ![t] = "idle"]
    BY <1>3 DEF GetFails, Goes
  <2>2. /\ local'[t] = NoCall /\ pc'[t] = "idle"
        /\ \A u \in Threads : u # t => pc'[u] = pc[u] /\ local'[u] = local[u]
    BY <2>1 DEF TypeOK
  <2>3. \A u \in Threads : Claimed(u)' = Claimed(u)
    BY <1>3, <2>2, NoCallType DEF Claimed
  <2>4. local[t].mask \notin Claimed(t)
    <3>1. local[t].mask \notin owns[t]
      BY <1>3 DEF SyncHeld, LocalsMatch
    <3>2. QED
      BY <1>3, <3>1 DEF Claimed
  <2>5. QED
    BY <1>1, <2>1, <2>3, <2>4, CallEnds
<1>4. QED
  BY <1>1, <1>2, <1>3

(* The register is written: the resource is granted, being free, or given  *)
(* back.                                                                   *)
LEMMA WriteRefines ==
    ASSUME TypeOK, SyncHeld, SyncHeld', NEW t \in Threads, WriteSync(t)
    PROVE  Lock!Next
<1>1. PICK r \in Resources : r = local[t].mask
  BY DEF TypeOK
<1>2. /\ pc[t] = "writeSync" /\ pc'[t] = "putDone" /\ owns' = owns
      /\ local'[t].call = local[t].call /\ local'[t].mask = local[t].mask
      /\ \A u \in Threads : u # t => pc'[u] = pc[u] /\ local'[u] = local[u]
      /\ SW_FW_SYNC' = NewSync(t)
  BY DEF WriteSync, Goes, TypeOK
<1>3. /\ local[t].swfw_sync = SW_FW_SYNC
      /\ local[t].call \in {"acquire", "release"} /\ r \notin owns[t]
      /\ local[t].call = "acquire" => Sw(r) \notin SW_FW_SYNC /\ Fw(r) \notin SW_FW_SYNC
  BY <1>1, <1>2 DEF SyncHeld, LocalsMatch, InUse, TypeOK
<1>4. \A u \in Threads : u # t => Claimed(u)' = Claimed(u)
  BY <1>2 DEF Claimed
<1>5. \A call : Calling(call)' = Calling(call)
  BY <1>2 DEF Calling
<1>6. CASE local[t].call = "acquire"
  <2>1. SW_FW_SYNC' = SW_FW_SYNC \cup {Sw(r)}
    BY <1>1, <1>2, <1>3, <1>6 DEF NewSync
  <2>2. Outside' = Outside /\ r \notin Outside
    BY <1>3, <1>6, <2>1, Bits DEF Outside
  <2>3. Claimed(t)' = Claimed(t) \cup {r}
    BY <1>1, <1>2, <1>6 DEF Claimed
  <2>4. \A u \in Threads : r \notin Claimed(u)
    BY <1>3, <1>6 DEF SyncHeld, BitsMatchOwners
  <2>5. Users[r] = {} /\ Users' = [Users EXCEPT ![r] = {t}]
    <3>1. {u \in Threads : r \in Claimed(u)'} = {t}
      BY <1>4, <2>3, <2>4
    <3>2. \A s \in Resources \ {r} :
            {u \in Threads : s \in Claimed(u)'} = {u \in Threads : s \in Claimed(u)}
      BY <1>4, <2>3
    <3>3. QED
      BY <2>4, <3>1, <3>2 DEF Users
  <2>6. r \in Calling("acquire")[t]
    BY <1>1, <1>6 DEF Calling
  <2>7. Lock!Grant(t, r)
    BY <1>2, <1>5, <2>2, <2>5, <2>6 DEF Lock!Grant, Lock!Free
  <2>8. QED
    BY <2>7 DEF Lock!Next
<1>7. CASE local[t].call = "release"
  <2>1. SW_FW_SYNC' = SW_FW_SYNC \ {Sw(r)}
    BY <1>1, <1>2, <1>3, <1>7 DEF NewSync
  <2>2. Outside' = Outside
    BY <2>1, Bits DEF Outside
  <2>3. Claimed(t)' = Claimed(t) \ {r} /\ r \in Claimed(t)
    BY <1>1, <1>2, <1>3, <1>7 DEF Claimed
  <2>4. \A u \in Threads : u # t => r \notin Claimed(u)
    BY <2>3 DEF SyncHeld, ClaimsDisjoint
  <2>5. Users[r] = {t} /\ Users' = [Users EXCEPT ![r] = {}]
    BY <1>4, <2>3, <2>4 DEF Users
  <2>6. r \in Calling("release")[t]
    BY <1>1, <1>7 DEF Calling
  <2>7. Lock!Drop(t, r)
    BY <1>2, <1>5, <2>2, <2>5, <2>6 DEF Lock!Drop
  <2>8. QED
    BY <2>7 DEF Lock!Next
<1>8. QED
  BY <1>3, <1>6, <1>7

(* The call returns: the resource is the thread's, or no longer.           *)
LEMMA ReturnRefines ==
    ASSUME TypeOK, SyncHeld, NEW t \in Threads, PutDone(t)
    PROVE  Lock!Next
<1>1. PICK r \in Resources : r = local[t].mask
  BY DEF TypeOK
<1>2. /\ pc[t] = "putDone" /\ pc'[t] = "idle" /\ SW_FW_SYNC' = SW_FW_SYNC
      /\ local' = [local EXCEPT ![t] = NoCall] /\ local'[t] = NoCall
      /\ \A u \in Threads : u # t => pc'[u] = pc[u] /\ local'[u] = local[u]
  BY DEF PutDone, Goes, TypeOK
<1>3. local[t].call \in {"acquire", "release"} /\ r \notin owns[t]
  BY <1>1, <1>2 DEF SyncHeld, LocalsMatch, TypeOK
<1>4. owns' = IF local[t].call = "acquire" THEN [owns EXCEPT ![t] = @ \cup {r}] ELSE owns
  BY <1>1 DEF PutDone
<1>5. \A u \in Threads : Claimed(u)' = Claimed(u)
  BY <1>1, <1>2, <1>3, <1>4, NoCallType DEF Claimed, TypeOK
<1>6. CASE local[t].call = "acquire"
  <2>1. /\ Users' = Users /\ Outside' = Outside
        /\ Calling("acquire")' = [Calling("acquire") EXCEPT ![t] = {}]
        /\ Calling("release")' = [Calling("release") EXCEPT ![t] = {}]
    BY <1>2, <1>5, CallChanges, NoCallType
  <2>2. r \in Calling("acquire")[t] /\ Calling("release")[t] = {}
    BY <1>1, <1>6 DEF Calling
  <2>3. Calling("release")' = Calling("release")
    BY <2>1, <2>2 DEF Calling
  <2>4. r \in Claimed(t)
    BY <1>1, <1>2, <1>6 DEF Claimed
  <2>5. Users[r] = {t} /\ r \notin Outside
    BY <2>4 DEF Users, Outside, SyncHeld, ClaimsDisjoint
  <2>6. Lock!Succeed(t, r)
    BY <1>4, <1>6, <2>1, <2>2, <2>3, <2>5 DEF Lock!Succeed
  <2>7. QED
    BY <2>6 DEF Lock!Next
<1>7. CASE local[t].call = "release"
  <2>1. r \notin Claimed(t) /\ owns' = owns
    BY <1>1, <1>2, <1>3, <1>4, <1>7 DEF Claimed
  <2>2. QED
    BY <1>1, <1>2, <1>3, <1>5, <2>1, CallEnds
<1>8. QED
  BY <1>3, <1>6, <1>7

(* The firmware takes what no software bit is set for, or drops a bit.     *)
LEMMA FirmwareRefines ==
    ASSUME TypeOK, SyncHeld, FirmwareLeaves
    PROVE  [Lock!Next]_Lock!vars
<1>1. local' = local /\ owns' = owns /\ \A t \in Threads : Claimed(t)' = Claimed(t)
  BY DEF FirmwareLeaves, Claimed
<1>2. Users' = Users /\ \A call : Calling(call)' = Calling(call)
  BY <1>1 DEF Users, Calling
<1>3. CASE UNCHANGED SW_FW_SYNC
  BY <1>1, <1>3, Stutters
<1>4. SUFFICES ASSUME NEW r \in Resources,
                      \/ Sw(r) \notin SW_FW_SYNC /\ SW_FW_SYNC' = SW_FW_SYNC \cup {Fw(r)}
                      \/ SW_FW_SYNC' = SW_FW_SYNC \ {Fw(r)}
               PROVE  [Lock!Next]_Lock!vars
  BY <1>3, SwFwSyncAssumption DEF FirmwareLeaves
<1>5. CASE Sw(r) \notin SW_FW_SYNC /\ SW_FW_SYNC' = SW_FW_SYNC \cup {Fw(r)}
  <2>1. Users[r] = {}
    BY <1>5 DEF Users, SyncHeld, BitsMatchOwners
  <2>2. Outside' = Outside \cup {r}
    BY <1>5, Bits DEF Outside
  <2>3. CASE r \in Outside
    BY <1>1, <1>2, <2>2, <2>3 DEF Lock!vars
  <2>4. CASE r \notin Outside
    <3>1. Lock!TakenOutside(r)
      BY <1>1, <1>2, <2>1, <2>2, <2>4 DEF Lock!TakenOutside, Lock!Free
    <3>2. QED
      BY <3>1 DEF Lock!Next
  <2>5. QED
    BY <2>3, <2>4
<1>6. CASE SW_FW_SYNC' = SW_FW_SYNC \ {Fw(r)}
  <2>1. Outside' = Outside \ {r}
    BY <1>6, Bits DEF Outside
  <2>2. CASE r \notin Outside
    BY <1>1, <1>2, <2>1, <2>2 DEF Lock!vars
  <2>3. CASE r \in Outside
    <3>1. Lock!DroppedOutside(r)
      BY <1>1, <1>2, <2>1, <2>3 DEF Lock!DroppedOutside
    <3>2. QED
      BY <3>1 DEF Lock!Next
  <2>4. QED
    BY <2>2, <2>3
<1>7. QED
  BY <1>4, <1>5, <1>6

LEMMA NextRefines ==
    ASSUME Invariant, Invariant', [Next]_vars, robbed' = FALSE
    PROVE  [Lock!Next]_Lock!vars
<1>0. /\ TypeOK /\ SyncHeld /\ SyncHeld'
      /\ pc \in [Threads -> Steps] /\ local \in [Threads -> LocalType]
      /\ \A t \in Threads : LocalsMatch(t)
  BY RobbedStays DEF Invariant, TypeOK, LocalType, SyncHeld
<1>1. ASSUME NEW t \in Threads, e1000_acquire_swfw_sync_i210(t)
      PROVE  Lock!Next
  <2>1. PICK r \in Resources \ owns[t] :
          local' = [local EXCEPT ![t] = [NoCall EXCEPT !.call = "acquire", !.mask = r]]
    BY <1>1 DEF e1000_acquire_swfw_sync_i210
  <2>2. /\ pc[t] = "idle" /\ pc'[t] = "getSMBI" /\ owns' = owns /\ SW_FW_SYNC' = SW_FW_SYNC
        /\ local[t].call = "none" /\ local'[t].call = "acquire" /\ local'[t].mask = r
        /\ \A u \in Threads : u # t => pc'[u] = pc[u] /\ local'[u] = local[u]
    BY <1>0, <1>1, <2>1, NoCallType
       DEF e1000_acquire_swfw_sync_i210, Goes, LocalType, LocalsMatch
  <2>3. \A u \in Threads : Claimed(u)' = Claimed(u)
    BY <2>2 DEF Claimed
  <2>4. /\ Users' = Users /\ Outside' = Outside
        /\ Calling("acquire")' = [Calling("acquire") EXCEPT ![t] = {r}]
        /\ Calling("release")' = [Calling("release") EXCEPT ![t] = {}]
    BY <2>2, <2>3, CallChanges
  <2>5. Calling("acquire")[t] = {} /\ Calling("release")[t] = {}
    BY <2>2 DEF Calling
  <2>6. Calling("release")' = Calling("release")
    BY <2>4, <2>5 DEF Calling
  <2>7. Lock!Acquire(t, r)
    BY <2>2, <2>4, <2>5, <2>6 DEF Lock!Acquire
  <2>8. QED
    BY <2>7 DEF Lock!Next
<1>2. ASSUME NEW t \in Threads, e1000_release_swfw_sync_i210(t)
      PROVE  Lock!Next
  <2>1. PICK r \in owns[t] :
          /\ local' = [local EXCEPT ![t] = [NoCall EXCEPT !.call = "release", !.mask = r]]
          /\ owns' = [owns EXCEPT ![t] = @ \ {r}]
    BY <1>2 DEF e1000_release_swfw_sync_i210
  <2>2. /\ pc[t] = "idle" /\ pc'[t] = "getSMBI" /\ r \in Resources
        /\ SW_FW_SYNC' = SW_FW_SYNC /\ owns'[t] = owns[t] \ {r}
        /\ local[t].call = "none" /\ local'[t].call = "release" /\ local'[t].mask = r
        /\ \A u \in Threads : u # t => /\ pc'[u] = pc[u] /\ local'[u] = local[u]
                                       /\ owns'[u] = owns[u]
    BY <1>0, <1>2, <2>1, NoCallType
       DEF e1000_release_swfw_sync_i210, Goes, TypeOK, LocalType, LocalsMatch
  <2>3. \A u \in Threads : Claimed(u)' = Claimed(u)
    BY <2>2 DEF Claimed
  <2>4. /\ Users' = Users /\ Outside' = Outside
        /\ Calling("acquire")' = [Calling("acquire") EXCEPT ![t] = {}]
        /\ Calling("release")' = [Calling("release") EXCEPT ![t] = {r}]
    BY <2>2, <2>3, CallChanges
  <2>5. Calling("acquire")[t] = {} /\ Calling("release")[t] = {}
    BY <2>2 DEF Calling
  <2>6. Calling("acquire")' = Calling("acquire")
    BY <2>4, <2>5 DEF Calling
  <2>7. Lock!Release(t, r)
    BY <2>1, <2>4, <2>5, <2>6 DEF Lock!Release
  <2>8. QED
    BY <2>2, <2>7 DEF Lock!Next
<1>3. ASSUME NEW t \in Threads,
             \/ GetSMBI(t) \/ ClearOnce(t) \/ PutAfterClear(t)
             \/ PollSWESMBI(t) \/ GetSWESMBI(t) \/ ReadSync(t)
      PROVE  UNCHANGED Lock!vars
  <2>1. /\ pc[t] # "putDone" /\ pc'[t] # "putDone"
        /\ \A u \in Threads : u # t => pc'[u] = pc[u]
        /\ owns' = owns /\ SW_FW_SYNC' = SW_FW_SYNC
    BY <1>0, <1>3
       DEF GetSMBI, ClearOnce, PutAfterClear, PollSWESMBI, GetSWESMBI, ReadSync, Goes
  <2>2. \A u \in Threads : local'[u].call = local[u].call /\ local'[u].mask = local[u].mask
    BY <1>0, <1>3
       DEF GetSMBI, ClearOnce, PutAfterClear, PollSWESMBI, GetSWESMBI, ReadSync, LocalType
  <2>3. \A u \in Threads : Claimed(u)' = Claimed(u)
    BY <2>1, <2>2 DEF Claimed
  <2>4. QED
    BY <2>1, <2>2, <2>3, Stutters
<1>4. ASSUME NEW t \in Threads, GiveUpSMBI(t) \/ GiveUpSWESMBI(t)
      PROVE  [Lock!Next]_Lock!vars
  <2>1. /\ pc[t] \in {"getSMBI", "getAgain", "getSWESMBI"}
        /\ SW_FW_SYNC' = SW_FW_SYNC /\ owns' = owns
        /\ (Goes(t, "clear") /\ local' = local) \/ GetFails(t)
    BY <1>4 DEF GiveUpSMBI, GiveUpSWESMBI
  <2>2. CASE GetFails(t)
    BY <1>0, <2>1, <2>2, GivingUpRefines
  <2>3. CASE Goes(t, "clear") /\ local' = local
    <3>1. pc'[t] = "clear" /\ \A u \in Threads : u # t => pc'[u] = pc[u]
      BY <1>0, <2>3 DEF Goes
    <3>2. \A u \in Threads : Claimed(u)' = Claimed(u)
      BY <2>1, <2>3, <3>1 DEF Claimed
    <3>3. QED
      BY <2>1, <2>3, <3>2, Stutters
  <2>4. QED
    BY <2>1, <2>2, <2>3
<1>5. ASSUME NEW t \in Threads, PutBusy(t)
      PROVE  [Lock!Next]_Lock!vars
  <2>1. /\ pc[t] = "putBusy" /\ owns' = owns /\ SW_FW_SYNC' = SW_FW_SYNC
        /\ local[t].call = "acquire" /\ local[t].mask \notin owns[t]
    BY <1>0, <1>5 DEF PutBusy, LocalsMatch
  <2>2. /\ pc'[t] \in {"getSMBI", "idle"}
        /\ \A u \in Threads : u # t => pc'[u] = pc[u] /\ local'[u] = local[u]
        /\ \/ local'[t].call = local[t].call /\ local'[t].mask = local[t].mask
           \/ local' = [local EXCEPT ![t] = NoCall] /\ local'[t] = NoCall
    BY <1>0, <1>5 DEF PutBusy, Goes, LocalType
  <2>3. \A u \in Threads : Claimed(u)' = Claimed(u)
    BY <2>1, <2>2, NoCallType DEF Claimed
  <2>4. local[t].mask \notin Claimed(t)
    BY <2>1 DEF Claimed
  <2>5. CASE local' = [local EXCEPT ![t] = NoCall] /\ local'[t] = NoCall
    BY <1>0, <2>1, <2>3, <2>4, <2>5, CallEnds
  <2>6. CASE local'[t].call = local[t].call /\ local'[t].mask = local[t].mask
    <3>1. \A u \in Threads : local'[u].call = local[u].call /\ local'[u].mask = local[u].mask
      BY <2>2, <2>6
    <3>2. QED
      BY <2>1, <2>3, <3>1, Stutters
  <2>7. QED
    BY <2>2, <2>5, <2>6
<1>6. ASSUME NEW t \in Threads, WriteSync(t) \/ PutDone(t)
      PROVE  Lock!Next
  BY <1>0, <1>6, WriteRefines, ReturnRefines
<1>7. CASE FirmwareEnters \/ UNCHANGED vars
  <2>1. UNCHANGED <<pc, local, owns, SW_FW_SYNC>>
    BY <1>7 DEF FirmwareEnters, vars
  <2>2. \A t \in Threads : Claimed(t)' = Claimed(t)
    BY <2>1 DEF Claimed
  <2>3. QED
    BY <2>1, <2>2, Stutters
<1>8. CASE FirmwareLeaves
  BY <1>0, <1>8, FirmwareRefines
<1>9. QED
  BY <1>1, <1>2, <1>3, <1>4, <1>5, <1>6, <1>7, <1>8 DEF Next, Step

(* The protocol of SMBI, SWESMBI and SW_FW_SYNC implements exclusive       *)
(* access to each resource, for any number of threads and resources: every *)
(* step is one of ResourceLock's or one that cannot be told from outside,  *)
(* up to the step that robs a thread of SMBI.                              *)
THEOREM SwFwSyncIsLock == Spec => ImplementsLock
<1>1. Init => Lock!Init
  <2> SUFFICES ASSUME Init PROVE Lock!Init
    OBVIOUS
  <2>1. \A t \in Threads : pc[t] = "idle" /\ owns[t] = {} /\ local[t].call = "none"
    BY NoCallType DEF Init
  <2>2. \A t \in Threads : Claimed(t) = {}
    BY <2>1 DEF Claimed
  <2>3. Users = [r \in Resources |-> {}]
    BY <2>2 DEF Users
  <2>4. Outside = {}
    BY DEF Outside, Init
  <2>5. \A call \in {"acquire", "release"} : Calling(call) = [t \in Threads |-> {}]
    BY <2>1 DEF Calling
  <2>6. QED
    BY <2>3, <2>4, <2>5 DEF Lock!Init, Init
<1>2. Invariant /\ Invariant' /\ [Next]_vars => [Lock!Next \/ robbed']_(Lock!vars)
  <2>1. Invariant' => robbed' \in BOOLEAN
    BY DEF Invariant, TypeOK
  <2>2. QED
    BY <2>1, NextRefines
<1>3. QED
  BY <1>1, <1>2, InvariantHolds, PTL DEF Spec, ImplementsLock
=============================================================================
