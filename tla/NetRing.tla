------------------------------ MODULE NetRing ------------------------------
(***************************************************************************)
(* Index arithmetic of the circular buffers the driver works on: the       *)
(* packet and fragment rings of NetAdapterCx (NET_RING, reached through    *)
(* NetRingIncrementIndex) and the descriptor rings of the device.          *)
(* Every index is in 0..n-1; an operation reduces its result once, which   *)
(* for such indices is the remainder the code computes.                    *)
(***************************************************************************)
EXTENDS Naturals

(* NetRingIncrementIndex, and (i + 1) % n on the descriptor rings. *)
IncNoWrap(i, n) == i + 1  \* mutant: the index runs off the end of the ring
Inc(i, n) == IF i + 1 >= n THEN 0 ELSE i + 1

(* k % n for a k below 2n, such as an index plus a count. *)
Wrap(k, n) == IF k >= n THEN k - n ELSE k

(* How many increments lead from index a to index b. *)
Dist(a, b, n) == IF a <= b THEN b - a ELSE (b + n) - a

(* i lies in the half-open stretch of the ring that starts at a, ends at b. *)
Within(i, a, b, n) == Dist(a, i, n) < Dist(a, b, n)

(* i comes before j, going round the ring from index a. *)
Before(i, j, a, n) == Dist(a, i, n) < Dist(a, j, n)

(* The indices of a ring a queue and its client share: what lies in        *)
(* [BeginIndex, EndIndex) belongs to the driver, and of that [NextIndex,   *)
(* EndIndex) has not been given to the device.                             *)
RingType(n) == [BeginIndex: 0 .. n-1, NextIndex: 0 .. n-1, EndIndex: 0 .. n-1]

EmptyRing == [BeginIndex |-> 0, NextIndex |-> 0, EndIndex |-> 0]

Owned(i, ring, n) == Within(i, ring.BeginIndex, ring.EndIndex, n)

(* The entries of f at the indices that belong to the driver, in order.    *)
InOrder(f, ring, n) ==
    [k \in 1 .. Dist(ring.BeginIndex, ring.EndIndex, n)
        |-> f[Wrap(ring.BeginIndex + (k - 1), n)]]
============================================================================
