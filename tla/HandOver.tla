------------------------------ MODULE HandOver ------------------------------
(***************************************************************************)
(* What a queue of the driver promises the client that hands it packets to *)
(* transmit (txqueue.cpp) or buffers to receive into (rxqueue.cpp), and    *)
(* the device that uses them: they are used in the order in which they     *)
(* were handed over, each of them once; while the queue is open none goes  *)
(* back unused unless it was to be skipped, and they go back in that order *)
(* too; when it is canceled everything goes back.                          *)
(***************************************************************************)
EXTENDS Naturals, Sequences

VARIABLES
    open,   \* whether the queue takes anything
    held    \* what the client handed over and has not got back, in order

vars == <<open, held>>

Init == open = FALSE /\ held = << >>

(* An item of the queue: whether it is to be skipped, how often it was used. *)
Fresh(skip) == [skip |-> skip, uses |-> 0]
Used == [skip |-> FALSE, uses |-> 1]
Settled(item) == item.skip \/ item.uses = 1
-----------------------------------------------------------------------------
Open ==
    /\ ~open /\ held = << >>
    /\ open' = TRUE
    /\ UNCHANGED held

Give(skip) ==
    /\ open
    /\ held' = Append(held, Fresh(skip))
    /\ UNCHANGED open

Use(k) ==
    /\ k \in 1 .. Len(held)
    /\ ~held[k].skip /\ held[k].uses = 0
    /\ \A j \in 1 .. k - 1 : Settled(held[j])
    /\ held' = [held EXCEPT ![k] = Used]
    /\ UNCHANGED open

GiveBack(n) ==
    /\ n \in 1 .. Len(held)
    /\ \A k \in 1 .. n : Settled(held[k])
    /\ held' = SubSeq(held, n + 1, Len(held))
    /\ UNCHANGED open

Cancel ==
    /\ open
    /\ open' = FALSE
    /\ held' = << >>

Next ==
    \/ Open \/ Cancel
    \/ \E skip \in BOOLEAN : Give(skip)
    \/ \E k \in 1 .. Len(held) : Use(k) \/ GiveBack(k)

Spec == Init /\ [][Next]_vars
=============================================================================
