---------------------------- MODULE ResourceLock ----------------------------
(***************************************************************************)
(* What the PHY and NVM semaphores promise (e1000_i210.c:79-154): each     *)
(* resource has one user at a time, a thread or something outside of the   *)
(* driver; a request is granted only while the resource is free, an        *)
(* acquisition that was granted returns success and one that was not       *)
(* returns an error, leaving nothing behind; a release returns when the    *)
(* resource is free of the thread.                                         *)
(***************************************************************************)
CONSTANTS Threads, Resources

VARIABLES
    users,         \* the threads to which each resource is granted
    outside,       \* the resources used from outside of the driver
    asks, gives,   \* the resource of the call a thread is in, if it is in one
    owns           \* what each thread knows that it has

vars == <<users, outside, asks, gives, owns>>

Init ==
    /\ users = [r \in Resources |-> {}] /\ outside = {}
    /\ asks = [t \in Threads |-> {}] /\ gives = [t \in Threads |-> {}]
    /\ owns = [t \in Threads |-> {}]

Free(r) == users[r] = {} /\ r \notin outside
-----------------------------------------------------------------------------
Acquire(t, r) ==
    /\ asks[t] = {} /\ gives[t] = {} /\ r \notin owns[t]
    /\ asks' = [asks EXCEPT ![t] = {r}]
    /\ UNCHANGED <<users, outside, gives, owns>>

Grant(t, r) ==
    /\ r \in asks[t] /\ Free(r)
    /\ users' = [users EXCEPT ![r] = {t}]
    /\ UNCHANGED <<outside, asks, gives, owns>>

Succeed(t, r) ==
    /\ r \in asks[t] /\ users[r] = {t} /\ r \notin outside
    /\ owns' = [owns EXCEPT ![t] = @ \cup {r}]
    /\ asks' = [asks EXCEPT ![t] = {}]
    /\ UNCHANGED <<users, outside, gives>>

Refuse(t, r) ==
    /\ r \in asks[t] /\ t \notin users[r]
    /\ asks' = [asks EXCEPT ![t] = {}]
    /\ UNCHANGED <<users, outside, gives, owns>>

Release(t, r) ==
    /\ asks[t] = {} /\ gives[t] = {} /\ r \in owns[t]
    /\ owns' = [owns EXCEPT ![t] = @ \ {r}]
    /\ gives' = [gives EXCEPT ![t] = {r}]
    /\ UNCHANGED <<users, outside, asks>>

Drop(t, r) ==
    /\ r \in gives[t] /\ users[r] = {t}
    /\ users' = [users EXCEPT ![r] = {}]
    /\ UNCHANGED <<outside, asks, gives, owns>>

Returns(t, r) ==
    /\ r \in gives[t] /\ t \notin users[r]
    /\ gives' = [gives EXCEPT ![t] = {}]
    /\ UNCHANGED <<users, outside, asks, owns>>

TakenOutside(r) ==
    /\ Free(r)
    /\ outside' = outside \cup {r}
    /\ UNCHANGED <<users, asks, gives, owns>>

DroppedOutside(r) ==
    /\ r \in outside
    /\ outside' = outside \ {r}
    /\ UNCHANGED <<users, asks, gives, owns>>

Next ==
    \E r \in Resources :
        \/ \E t \in Threads :
             \/ Acquire(t, r) \/ Grant(t, r) \/ Succeed(t, r) \/ Refuse(t, r)
             \/ Release(t, r) \/ Drop(t, r) \/ Returns(t, r)
        \/ TakenOutside(r) \/ DroppedOutside(r)

Spec == Init /\ [][Next]_vars
=============================================================================
