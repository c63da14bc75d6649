--------------------------- MODULE NetRingProofs ---------------------------
(***************************************************************************)
(* What the index arithmetic of a ring computes, for every ring size. The  *)
(* proofs about the two queues rest on these facts.                        *)
(***************************************************************************)
EXTENDS NetRing, SequenceTheorems, TLAPS
-----------------------------------------------------------------------------
(* Indices. *)

(* Incrementing keeps an index in its ring, and so does a count added to   *)
(* it that is no more than the size.                                       *)
LEMMA IndexType ==
    ASSUME NEW n \in Nat, n >= 2, NEW i \in 0 .. n-1
    PROVE  /\ Inc(i, n) \in 0 .. n-1
           /\ \A k \in 0 .. n : Wrap(i + k, n) \in 0 .. n-1
BY DEF Inc, Wrap
-----------------------------------------------------------------------------
(* Distances on a ring. *)

LEMMA DistType ==
    ASSUME NEW n \in Nat, n >= 2, NEW a \in 0 .. n-1, NEW i \in 0 .. n-1
    PROVE  Dist(a, i, n) \in 0 .. n-1 /\ (Dist(a, i, n) = 0 <=> a = i)
BY DEF Dist

(* Two indices as far from a third are the same. *)
LEMMA DistInjective ==
    ASSUME NEW n \in Nat, n >= 2,
           NEW a \in 0 .. n-1, NEW i \in 0 .. n-1, NEW j \in 0 .. n-1,
           Dist(a, i, n) = Dist(a, j, n) \/ Dist(i, a, n) = Dist(j, a, n)
    PROVE  i = j
BY DEF Dist

(* One increment is one step further, short of coming full circle. *)
LEMMA DistInc ==
    ASSUME NEW n \in Nat, n >= 2, NEW a \in 0 .. n-1, NEW i \in 0 .. n-1
    PROVE  /\ Dist(a, i, n) + 1 < n => Dist(a, Inc(i, n), n) = Dist(a, i, n) + 1
           /\ Inc(i, n) # a => Dist(a, i, n) + 1 < n
BY DEF Dist, Inc

(* From a later start everything is nearer by the same distance. *)
LEMMA DistShift ==
    ASSUME NEW n \in Nat, n >= 2, NEW a \in 0 .. n-1, NEW b \in 0 .. n-1, NEW i \in 0 .. n-1
    PROVE  /\ Dist(a, b, n) <= Dist(a, i, n)
                => Dist(b, i, n) = Dist(a, i, n) - Dist(a, b, n)
           /\ Dist(a, i, n) < Dist(a, b, n)
                => Dist(b, i, n) = (Dist(a, i, n) - Dist(a, b, n)) + n
BY DEF Dist

(* The k-th descriptor of a packet is k nearer to the end than the first. *)
LEMMA DistWithin ==
    ASSUME NEW n \in Nat, n >= 2, NEW a \in 0 .. n-1, NEW e \in 0 .. n-1,
           NEW k \in Nat, k <= Dist(a, e, n)
    PROVE  /\ Wrap(a + k, n) \in 0 .. n-1
           /\ Dist(Wrap(a + k, n), e, n) = Dist(a, e, n) - k
BY DEF Dist, Wrap

(* c descriptors are written: the index they end at is c further.          *)
LEMMA DistAdvance ==
    ASSUME NEW n \in Nat, n >= 2, NEW a \in 0 .. n-1, NEW e \in 0 .. n-1,
           NEW c \in {0, 1}, Dist(a, e, n) + c + 1 < n
    PROVE  Dist(a, Inc(Wrap(e + c, n), n), n) = Dist(a, e, n) + c + 1
BY DEF Dist, Wrap, Inc

(* What lies behind the start of a stretch is one nearer once the start    *)
(* has moved past its first index.                                         *)
LEMMA DistNext ==
    ASSUME NEW n \in Nat, n >= 2, NEW a \in 0 .. n-1, NEW i \in 0 .. n-1, i # a
    PROVE  Dist(Inc(a, n), i, n) = Dist(a, i, n) - 1
BY DEF Dist, Inc

(* An index is its distance from another, counted on from that.            *)
LEMMA DistWrap ==
    ASSUME NEW n \in Nat, n >= 2, NEW a \in 0 .. n-1, NEW i \in 0 .. n-1
    PROVE  Wrap(a + Dist(a, i, n), n) = i
BY DEF Dist, Wrap

(* Two steps of less than a circle make one.                               *)
LEMMA WrapTwice ==
    ASSUME NEW n \in Nat, NEW a \in 0 .. n-1, NEW j \in Nat, NEW k \in Nat, j + k < n
    PROVE  Wrap(Wrap(a + j, n) + k, n) = Wrap(a + (j + k), n)
BY DEF Wrap

(* The index before another is one nearer to any but that other.           *)
LEMMA DistBefore ==
    ASSUME NEW n \in Nat, n >= 2, NEW a \in 0 .. n-1, NEW i \in 0 .. n-1,
           Inc(i, n) # a
    PROVE  Dist(a, i, n) = Dist(a, Inc(i, n), n) - 1
BY DEF Dist, Inc

(* The same advance looked back on: the two indices passed last are one    *)
(* and c + 1 behind the new end, the others as much further as it moved.   *)
LEMMA DistAdvanced ==
    ASSUME NEW n \in Nat, n >= 3, NEW e \in 0 .. n-1, NEW c \in {0, 1},
           NEW d \in 0 .. n-1
    PROVE  /\ Wrap(e + c, n) \in 0 .. n-1 /\ Inc(Wrap(e + c, n), n) \in 0 .. n-1
           /\ Dist(e, Inc(Wrap(e + c, n), n), n) = c + 1
           /\ Dist(Wrap(e + c, n), Inc(Wrap(e + c, n), n), n) = 1
           /\ c + 1 < Dist(d, Inc(Wrap(e + c, n), n), n)
                => Dist(d, e, n) = Dist(d, Inc(Wrap(e + c, n), n), n) - (c + 1)
BY DEF Dist, Wrap, Inc

(* Of two indices the one further behind an end comes first.               *)
LEMMA DistSplit ==
    ASSUME NEW n \in Nat, n >= 2, NEW a \in 0 .. n-1, NEW b \in 0 .. n-1, NEW e \in 0 .. n-1,
           Dist(b, e, n) <= Dist(a, e, n)
    PROVE  Dist(a, b, n) = Dist(a, e, n) - Dist(b, e, n)
BY DEF Dist
-----------------------------------------------------------------------------
(* Stretches. *)

(* A stretch consists of what is behind its end, but no further than its   *)
(* start is.                                                               *)
LEMMA WithinBehind ==
    ASSUME NEW n \in Nat, n >= 2, NEW a \in 0 .. n-1, NEW e \in 0 .. n-1, NEW i \in 0 .. n-1
    PROVE  Within(i, a, e, n) <=> 1 <= Dist(i, e, n) /\ Dist(i, e, n) <= Dist(a, e, n)
BY DEF Within, Dist

(* A stretch that is not empty has its first index, and what lies in the   *)
(* rest of it lies in it.                                                  *)
LEMMA WithinRest ==
    ASSUME NEW n \in Nat, n >= 2, NEW f \in 0 .. n-1, NEW e \in 0 .. n-1,
           f # e
    PROVE  /\ Within(f, f, e, n)
           /\ \A i \in 0 .. n-1 : Within(i, Inc(f, n), e, n) => Within(i, f, e, n)
BY DEF Within, Dist, Inc

(* A stretch that starts later and ends at the same index is part of it.   *)
LEMMA WithinLater ==
    ASSUME NEW n \in Nat, n >= 2, NEW a \in 0 .. n-1, NEW b \in 0 .. n-1, NEW e \in 0 .. n-1,
           NEW i \in 0 .. n-1, Dist(a, b, n) <= Dist(a, e, n), Within(i, b, e, n)
    PROVE  Within(i, a, e, n)
BY DEF Within, Dist
-----------------------------------------------------------------------------
(* What the driver holds, as a sequence. *)

(* The place k of the sequence stands for the index at distance k - 1.     *)
LEMMA InOrderIndex ==
    ASSUME NEW n \in Nat, n >= 2, NEW ring \in RingType(n),
           NEW k \in 1 .. Dist(ring.BeginIndex, ring.EndIndex, n)
    PROVE  /\ Wrap(ring.BeginIndex + (k - 1), n) \in 0 .. n-1
           /\ Dist(ring.BeginIndex, Wrap(ring.BeginIndex + (k - 1), n), n) = k - 1
           /\ Owned(Wrap(ring.BeginIndex + (k - 1), n), ring, n)
<1> DEFINE b == ring.BeginIndex
           d == Dist(ring.BeginIndex, ring.EndIndex, n)
<1>1. b \in 0 .. n-1 /\ d \in 0 .. n-1 /\ k \in 1 .. d
  BY DistType DEF RingType
<1>2. Wrap(b + (k - 1), n) \in 0 .. n-1 /\ Dist(b, Wrap(b + (k - 1), n), n) = k - 1
  BY <1>1 DEF Wrap, Dist
<1>3. QED
  BY <1>1, <1>2 DEF Owned, Within

LEMMA InOrderType ==
    ASSUME NEW n \in Nat, n >= 2, NEW ring \in RingType(n), NEW S, NEW f,
           \A i \in 0 .. n-1 : f[i] \in S
    PROVE  /\ InOrder(f, ring, n) \in Seq(S)
           /\ Len(InOrder(f, ring, n)) = Dist(ring.BeginIndex, ring.EndIndex, n)
           /\ Dist(ring.BeginIndex, ring.EndIndex, n) \in 0 .. n-1
<1> DEFINE b == ring.BeginIndex
           d == Dist(ring.BeginIndex, ring.EndIndex, n)
<1>1. d \in 0 .. n-1
  BY DistType DEF RingType
<1>2. InOrder(f, ring, n) = [k \in 1 .. d |-> f[Wrap(b + (k - 1), n)]]
  BY DEF InOrder
<1>3. \A k \in 1 .. d : f[Wrap(b + (k - 1), n)] \in S
  BY InOrderIndex
<1> HIDE DEF d
<1>4. [k \in 1 .. d |-> f[Wrap(b + (k - 1), n)]] \in Seq(S)
  BY <1>1, <1>3, IsASeq
<1>5. Len([k \in 1 .. d |-> f[Wrap(b + (k - 1), n)]]) = d
  BY <1>1
<1>6. QED
  BY <1>1, <1>2, <1>4, <1>5 DEF d

(* It depends on the two indices and on the entries held alone.            *)
LEMMA InOrderSame ==
    ASSUME NEW n \in Nat, n >= 2, NEW ring \in RingType(n), NEW next, NEW f, NEW g,
           next.BeginIndex = ring.BeginIndex, next.EndIndex = ring.EndIndex,
           \A i \in 0 .. n-1 : Owned(i, ring, n) => g[i] = f[i]
    PROVE  InOrder(g, next, n) = InOrder(f, ring, n)
<1>1. ASSUME NEW k \in 1 .. Dist(ring.BeginIndex, ring.EndIndex, n)
      PROVE  g[Wrap(ring.BeginIndex + (k - 1), n)] = f[Wrap(ring.BeginIndex + (k - 1), n)]
  BY InOrderIndex
<1>2. QED
  BY <1>1 DEF InOrder

(* A ring whose indices meet holds nothing.                                *)
LEMMA InOrderEmpty ==
    ASSUME NEW n \in Nat, n >= 2, NEW ring \in RingType(n), NEW f,
           ring.BeginIndex = ring.EndIndex
    PROVE  InOrder(f, ring, n) = << >>
<1>1. Dist(ring.BeginIndex, ring.EndIndex, n) = 0
  BY DistType DEF RingType
<1>2. QED
  BY <1>1 DEF InOrder

(* A sequence is its entries.                                              *)
LEMMA SequenceIs ==
    ASSUME NEW S, NEW t \in Seq(S), NEW d, Len(t) = d
    PROVE  t = [k \in 1 .. d |-> t[k]]
OBVIOUS

(* An entry put at the end of the ring is appended.                        *)
LEMMA InOrderAppend ==
    ASSUME NEW n \in Nat, n >= 2, NEW ring \in RingType(n), NEW next \in RingType(n),
           NEW f, NEW g,
           next.BeginIndex = ring.BeginIndex, next.EndIndex = Inc(ring.EndIndex, n),
           Inc(ring.EndIndex, n) # ring.BeginIndex,
           \A i \in 0 .. n-1 : i # ring.EndIndex => g[i] = f[i]
    PROVE  InOrder(g, next, n) = Append(InOrder(f, ring, n), g[ring.EndIndex])
<1> DEFINE b == ring.BeginIndex
           e == ring.EndIndex
           d == Dist(b, e, n)
           s == InOrder(f, ring, n)
           S == {f[i] : i \in 0 .. n-1} \cup {g[e]}
<1>1. b \in 0 .. n-1 /\ e \in 0 .. n-1 /\ d \in 0 .. n-1
  BY DistType DEF RingType
<1>2. Dist(next.BeginIndex, next.EndIndex, n) = d + 1
  BY <1>1, DistInc
<1>3. (\A i \in 0 .. n-1 : f[i] \in S) /\ g[e] \in S
  OBVIOUS
<1> HIDE DEF S
<1>4. s \in Seq(S) /\ Len(s) = d
  BY <1>3, InOrderType
<1>5. /\ Append(s, g[e]) \in Seq(S) /\ Len(Append(s, g[e])) = d + 1
      /\ \A k \in 1 .. d : Append(s, g[e])[k] = s[k]
      /\ Append(s, g[e])[d + 1] = g[e]
  <2> HIDE DEF s, d, e
  <2>1. QED
    BY <1>3, <1>4, AppendProperties
<1>6. ASSUME NEW k \in 1 .. d + 1
      PROVE  Append(s, g[e])[k] = g[Wrap(b + (k - 1), n)]
  <2>1. CASE k = d + 1
    <3>1. Wrap(b + d, n) = e
      BY <1>1, DistWrap
    <3>2. k - 1 = d
      BY <1>1, <2>1
    <3>3. QED
      BY <1>5, <2>1, <3>1, <3>2
  <2>2. CASE k # d + 1
    <3>1. k \in 1 .. d /\ k - 1 # d
      BY <1>1, <2>2
    <3>2. Wrap(b + (k - 1), n) \in 0 .. n-1 /\ Wrap(b + (k - 1), n) # e
      BY <3>1, InOrderIndex
    <3>3. s[k] = f[Wrap(b + (k - 1), n)]
      BY <3>1 DEF InOrder
    <3>4. QED
      BY <1>5, <3>1, <3>2, <3>3
  <2>3. QED
    BY <2>1, <2>2
<1>7. QED
  <2> HIDE DEF s, e
  <2>1. Append(s, g[e]) = [k \in 1 .. d + 1 |-> Append(s, g[e])[k]]
    BY <1>5, SequenceIs
  <2>2. Append(s, g[e]) = [k \in 1 .. d + 1 |-> g[Wrap(b + (k - 1), n)]]
    BY <2>1, <1>6
  <2>3. InOrder(g, next, n) = [k \in 1 .. d + 1 |-> g[Wrap(b + (k - 1), n)]]
    BY <1>2 DEF InOrder
  <2>4. QED
    BY <2>2, <2>3 DEF s, e

(* A start that moves on drops what it passes.                             *)
LEMMA InOrderDrop ==
    ASSUME NEW n \in Nat, n >= 2, NEW ring \in RingType(n), NEW next \in RingType(n),
           NEW f, NEW g, NEW p \in Nat,
           p = Dist(ring.BeginIndex, next.BeginIndex, n),
           p <= Dist(ring.BeginIndex, ring.EndIndex, n),
           next.EndIndex = ring.EndIndex,
           \A i \in 0 .. n-1 : Owned(i, next, n) => g[i] = f[i]
    PROVE  InOrder(g, next, n)
             = SubSeq(InOrder(f, ring, n), p + 1, Len(InOrder(f, ring, n)))
<1> DEFINE b == ring.BeginIndex
           c == next.BeginIndex
           d == Dist(b, ring.EndIndex, n)
           s == InOrder(f, ring, n)
           S == {f[i] : i \in 0 .. n-1}
<1>1. /\ b \in 0 .. n-1 /\ c \in 0 .. n-1 /\ ring.EndIndex \in 0 .. n-1 /\ d \in 0 .. n-1
      /\ p \in 0 .. d
  BY DistType DEF RingType
<1>2. Dist(next.BeginIndex, next.EndIndex, n) = d - p
  <2>1. Dist(b, c, n) = p /\ Dist(b, c, n) <= Dist(b, ring.EndIndex, n)
    OBVIOUS
  <2>2. Dist(c, ring.EndIndex, n) = Dist(b, ring.EndIndex, n) - Dist(b, c, n)
    <3> HIDE DEF b, c
    <3>1. QED
      BY <1>1, <2>1, DistShift
  <2>3. QED
    BY <2>1, <2>2
<1>3. s \in Seq(S) /\ Len(s) = d
  <2>1. \A i \in 0 .. n-1 : f[i] \in S
    OBVIOUS
  <2> HIDE DEF S
  <2>2. QED
    BY <2>1, InOrderType
<1> HIDE DEF S
<1>4. /\ SubSeq(s, p + 1, d) \in Seq(S) /\ Len(SubSeq(s, p + 1, d)) = d - p
      /\ \A k \in 1 .. d - p : SubSeq(s, p + 1, d)[k] = s[p + k]
  <2> HIDE DEF s, d
  <2>1. p + 1 \in Int /\ d \in Int /\ \A i \in p + 1 .. d : s[i] \in S
    BY <1>1, <1>3, ElementOfSeq
  <2>2. /\ SubSeq(s, p + 1, d) \in Seq(S)
        /\ Len(SubSeq(s, p + 1, d)) = IF p + 1 <= d THEN d - (p + 1) + 1 ELSE 0
        /\ \A i \in 1 .. d - (p + 1) + 1 : SubSeq(s, p + 1, d)[i] = s[p + 1 + i - 1]
    BY <2>1, SubSeqProperties
  <2>3. d \in Nat /\ p <= d
    BY <1>1
  <2>4. d - (p + 1) + 1 = d - p /\ (IF p + 1 <= d THEN d - (p + 1) + 1 ELSE 0) = d - p
    BY <2>3
  <2>5. ASSUME NEW k \in 1 .. d - p
        PROVE  SubSeq(s, p + 1, d)[k] = s[p + k]
    <3>1. p + 1 + k - 1 = p + k
      BY <2>3
    <3>2. SubSeq(s, p + 1, d)[k] = s[p + 1 + k - 1]
      BY <2>2, <2>4
    <3>3. QED
      BY <3>1, <3>2
  <2>6. QED
    BY <2>2, <2>4, <2>5
<1>5. ASSUME NEW k \in 1 .. d - p
      PROVE  SubSeq(s, p + 1, d)[k] = g[Wrap(c + (k - 1), n)]
  <2>1. Wrap(c + (k - 1), n) = Wrap(b + ((p + k) - 1), n) /\ p + k \in 1 .. d
    <3>1. Wrap(b + p, n) = c
      <4>1. p = Dist(b, c, n)
        OBVIOUS
      <4>2. QED
        BY <1>1, <4>1, DistWrap
    <3> HIDE DEF b, c, d
    <3>2. k - 1 \in Nat /\ p + (k - 1) < n
      BY <1>1
    <3>3. Wrap(Wrap(b + p, n) + (k - 1), n) = Wrap(b + (p + (k - 1)), n)
      BY <1>1, <3>2, WrapTwice
    <3>4. p + (k - 1) = (p + k) - 1 /\ p + k \in 1 .. d
      BY <1>1
    <3>5. QED
      BY <3>1, <3>3, <3>4
  <2>2. Wrap(c + (k - 1), n) \in 0 .. n-1 /\ Owned(Wrap(c + (k - 1), n), next, n)
    BY <1>2, InOrderIndex
  <2>3. s[p + k] = f[Wrap(b + ((p + k) - 1), n)]
    BY <2>1 DEF InOrder
  <2>4. QED
    BY <1>4, <2>1, <2>2, <2>3
<1>6. QED
  <2> HIDE DEF s, d
  <2>1. SubSeq(s, p + 1, d) = [k \in 1 .. d - p |-> SubSeq(s, p + 1, d)[k]]
    BY <1>4, SequenceIs
  <2>2. SubSeq(s, p + 1, d) = [k \in 1 .. d - p |-> g[Wrap(c + (k - 1), n)]]
    BY <2>1, <1>5
  <2>3. InOrder(g, next, n) = [k \in 1 .. d - p |-> g[Wrap(c + (k - 1), n)]]
    BY <1>2 DEF InOrder
  <2>4. QED
    BY <1>3, <2>2, <2>3 DEF s

(* The place of an entry held.                                             *)
LEMMA InOrderAt ==
    ASSUME NEW n \in Nat, n >= 2, NEW ring \in RingType(n), NEW f,
           NEW i \in 0 .. n-1, Owned(i, ring, n)
    PROVE  /\ Dist(ring.BeginIndex, i, n) + 1 \in 1 .. Len(InOrder(f, ring, n))
           /\ InOrder(f, ring, n)[Dist(ring.BeginIndex, i, n) + 1] = f[i]
<1> DEFINE b == ring.BeginIndex
           d == Dist(ring.BeginIndex, ring.EndIndex, n)
           p == Dist(b, i, n)
           s == InOrder(f, ring, n)
<1>1. b \in 0 .. n-1 /\ d \in 0 .. n-1 /\ p \in 0 .. n-1 /\ p < d
  BY DistType DEF RingType, Owned, Within
<1>2. p + 1 \in 1 .. d /\ (p + 1) - 1 = p /\ Wrap(b + p, n) = i
  BY <1>1, DistWrap
<1>3. s = [k \in 1 .. d |-> f[Wrap(b + (k - 1), n)]]
  BY DEF InOrder
<1> HIDE DEF d, p, s
<1>4. Len(s) = d /\ s[p + 1] = f[i]
  BY <1>1, <1>2, <1>3
<1>5. QED
  BY <1>2, <1>4 DEF p, s
=============================================================================
