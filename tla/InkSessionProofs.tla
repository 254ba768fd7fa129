------------------------- MODULE InkSessionProofs --------------------------
(***************************************************************************)
(* SessionIsSound and ScreenMatchesPage hold of InkSession for every set   *)
(* of strokes and papers and every bound: no pending stroke is ever left   *)
(* without its echo, its tombstone, its commit or its resend on the way,   *)
(* so that on a quiet channel with the lease nothing waits, and the canvas *)
(* shows the page.                                                         *)
(*                                                                         *)
(* First what each handler of the session does by itself, then what is on  *)
(* the channel, then the invariant IInv and one lemma per action.          *)
(***************************************************************************)
EXTENDS InkSession, SequenceTheorems, FiniteSetTheorems, TLAPS

-----------------------------------------------------------------------------
(* Sequences.                                                              *)

Before(K, i) == Cardinality({j \in K : j < i})

LEMMA RankBelow ==
    ASSUME NEW n \in Nat, NEW K \in SUBSET (1 .. n), NEW i \in K
    PROVE  /\ IsFiniteSet(K) /\ Cardinality(K) \in Nat
           /\ Before(K, i) \in 0 .. Cardinality(K) - 1
           /\ \A j \in K : j < i => Before(K, j) < Before(K, i)
<1>1. IsFiniteSet(K)
  <2>1. IsFiniteSet(1 .. n) BY FS_Interval
  <2> QED BY <2>1, FS_Subset
<1> DEFINE B(x) == {y \in K : y < x}
<1>2. \A x \in K : IsFiniteSet(B(x)) /\ Cardinality(B(x)) \in Nat
        /\ Cardinality(B(x)) < Cardinality(K)
  <2> SUFFICES ASSUME NEW x \in K
               PROVE IsFiniteSet(B(x)) /\ Cardinality(B(x)) \in Nat
        /\ Cardinality(B(x)) < Cardinality(K)
    OBVIOUS
  <2>1. B(x) \subseteq K /\ B(x) # K BY SMT
  <2> HIDE DEF B
  <2> QED BY <1>1, <2>1, FS_Subset, FS_CardinalityType
<1>3. \A j \in K : j < i => Cardinality(B(j)) < Cardinality(B(i))
  <2> SUFFICES ASSUME NEW j \in K, j < i
               PROVE  Cardinality(B(j)) < Cardinality(B(i))
    OBVIOUS
  <2>0. \A x \in K : x \in Int OBVIOUS
  <2>1. B(j) \subseteq B(i)
    <3> SUFFICES ASSUME NEW y \in B(j) PROVE y \in B(i) OBVIOUS
    <3>1. y \in K /\ y < j OBVIOUS
    <3>2. y < i BY <2>0, <3>1
    <3> QED BY <3>1, <3>2
  <2>2. j \in B(i) /\ j \notin B(j) BY <2>0
  <2> HIDE DEF B
  <2> QED BY <1>2, <2>1, <2>2, FS_Subset, FS_CardinalityType
<1>4. \A x \in K : Before(K, x) = Cardinality(B(x)) BY DEF Before
<1>5. Cardinality(K) \in Nat BY <1>1, FS_CardinalityType
<1> HIDE DEF B
<1> QED BY <1>1, <1>2, <1>3, <1>4, <1>5

\* What Without keeps: all the elements that are not gone, each once.
LEMMA WithoutFacts ==
    ASSUME NEW T, NEW q \in Seq(T), NEW gone
    PROVE  /\ Without(q, gone) \in Seq(T)
           /\ Range(Without(q, gone)) = Range(q) \ gone
           /\ IsInjective(q) => IsInjective(Without(q, gone))
<1> DEFINE K == {i \in DOMAIN q : q[i] \notin gone}
           N == Cardinality(K)
           At(k) == CHOOSE i \in K : Before(K, i) = k - 1
           w == Without(q, gone)
<1>1. /\ Len(q) \in Nat /\ K \in SUBSET (1 .. Len(q))
      /\ \A i \in K : i \in Int
  OBVIOUS
<1>2. N \in Nat /\ IsFiniteSet(K)
  <2>1. IsFiniteSet(1 .. Len(q)) BY <1>1, FS_Interval
  <2> QED BY <1>1, <2>1, FS_Subset, FS_CardinalityType
<1>3. w = [k \in 1 .. N |-> q[At(k)]]
  BY DEF Without, Before
<1> HIDE DEF K, N, w
<1>4. \A i \in K : /\ Before(K, i) \in 0 .. N - 1
                   /\ \A j \in K : j < i => Before(K, j) < Before(K, i)
  BY <1>1, RankBelow DEF N
<1>5. \A i, j \in K : Before(K, i) = Before(K, j) => i = j
  <2> SUFFICES ASSUME NEW i \in K, NEW j \in K, i # j
               PROVE  Before(K, i) # Before(K, j)
    OBVIOUS
  <2>1. i < j \/ j < i BY <1>1
  <2>2. Before(K, i) \in Int /\ Before(K, j) \in Int BY <1>2, <1>4
  <2> QED BY <1>4, <2>1, <2>2
<1>6. \A k \in 1 .. N : \E i \in K : Before(K, i) = k - 1
  <2> DEFINE r == [i \in K |-> Before(K, i)]
             I == {r[i] : i \in K}
  <2>1. r \in Bijection(K, I)
    BY <1>5 DEF Bijection, Injection, Surjection, IsInjective
  <2>2. Cardinality(I) = N
    BY <1>2, <2>1, FS_Bijection DEF ExistsBijection, N
  <2>3. I \subseteq 0 .. N - 1 BY <1>4
  <2>4. IsFiniteSet(0 .. N - 1) /\ Cardinality(0 .. N - 1) = N
    <3>1. /\ IsFiniteSet(0 .. N - 1)
          /\ Cardinality(0 .. N - 1)
                = IF 0 > N - 1 THEN 0 ELSE (N - 1) - 0 + 1
      BY <1>2, FS_Interval
    <3> QED BY <1>2, <3>1
  <2>5. I = 0 .. N - 1
    <3> DEFINE J == 0 .. N - 1
    <3>1. I \in SUBSET J /\ IsFiniteSet(J) /\ Cardinality(J) = Cardinality(I)
      BY <2>2, <2>3, <2>4
    <3> HIDE DEF I, J
    <3>2. J = I BY <3>1, FS_Subset
    <3> QED BY <3>2 DEF J
  <2> HIDE DEF I
  <2>6. \A k \in 1 .. N : k - 1 \in I BY <1>2, <2>5
  <2> QED BY <2>6 DEF I
<1>7. \A k \in 1 .. N : At(k) \in K /\ Before(K, At(k)) = k - 1
  BY <1>6
<1> HIDE DEF At
<1>8. \A i \in K : Before(K, i) + 1 \in 1 .. N /\ At(Before(K, i) + 1) = i
  <2> SUFFICES ASSUME NEW i \in K
               PROVE  /\ Before(K, i) + 1 \in 1 .. N
                      /\ At(Before(K, i) + 1) = i
    OBVIOUS
  <2>1. Before(K, i) + 1 \in 1 .. N /\ (Before(K, i) + 1) - 1 = Before(K, i)
    BY <1>2, <1>4
  <2> QED BY <1>5, <1>7, <2>1
<1>9. \A k, l \in 1 .. N : At(k) = At(l) => k = l
  BY <1>2, <1>7
<1>10. /\ DOMAIN w = 1 .. N
       /\ \A k \in 1 .. N : w[k] = q[At(k)] /\ q[At(k)] \in T
  <2>1. \A i \in K : q[i] \in T BY <1>1
  <2> QED BY <1>3, <1>7, <2>1
<1>11. w \in Seq(T)
  BY <1>2, <1>3, <1>10
<1>12. Range(w) = Range(q) \ gone
  <2>1. \A k \in 1 .. N : w[k] \in Range(q) \ gone
    BY <1>7, <1>10 DEF K, Range
  <2>2. ASSUME NEW x \in Range(q) \ gone
        PROVE  \E k \in 1 .. N : w[k] = x
    <3>1. PICK i \in DOMAIN q : q[i] = x BY DEF Range
    <3>2. i \in K BY <3>1 DEF K
    <3> QED BY <1>8, <1>10, <3>1, <3>2
  <2> QED BY <1>10, <2>1, <2>2 DEF Range
<1>13. IsInjective(q) => IsInjective(w)
  <2> SUFFICES ASSUME IsInjective(q), NEW k \in 1 .. N, NEW l \in 1 .. N,
                      w[k] = w[l]
               PROVE  k = l
    BY <1>10 DEF IsInjective
  <2>1. At(k) = At(l) BY <1>7, <1>10 DEF IsInjective, K
  <2> QED BY <1>9, <2>1
<1> QED BY <1>11, <1>12, <1>13 DEF w

-----------------------------------------------------------------------------
(* The session by itself.  D, S and E stand for the strokes drawn, stored  *)
(* and erased, n for the length of the log.                                *)

\* What the session holds is drawn or stored, what it saw is confirmed or
\* erased, and it resends nothing while it may edit.
Holds(d, D, S, E, n) ==
    /\ d \in Session /\ IsFiniteSet(d.erasing)
    /\ IsInjective(d.pending) /\ d.neverSent \subseteq Range(d.pending)
    /\ Range(d.pending) \subseteq D /\ Range(d.pending) \cap d.seen = {}
    /\ d.confirmed \subseteq d.seen /\ d.seen \subseteq S
    /\ d.seen \ d.confirmed \subseteq E
    /\ d.erasing \subseteq D \cup S /\ d.strokes \subseteq D \cup S
    /\ d.lastSeq <= n
    /\ d.resend => ~d.canEdit
    /\ d.pendingPaper = NoPaper => d.paper = d.confirmedPaper

\* Outside a replay the canvas shows what is confirmed or pending.
Shows(d) ==
    d.replaying \/ d.strokes = (d.confirmed \cup Range(d.pending)) \ d.erasing

Good(d, D, S, E, n) == Holds(d, D, S, E, n) /\ Shows(d)

SameInk(d, e) ==
    e.pending = d.pending /\ e.seen = d.seen /\ e.confirmed = d.confirmed
SameLease(d, e) == e.canEdit = d.canEdit /\ e.resend = d.resend
SamePaper(d, e) ==
    /\ e.confirmedPaper = d.confirmedPaper
    /\ e.pendingPaper = d.pendingPaper

LEMMA PublishFacts ==
    ASSUME NEW d, NEW D, NEW S, NEW E, NEW n, Holds(d, D, S, E, n)
    PROVE  /\ Good(Publish(d), D, S, E, n)
           /\ Publish(d).neverSent = d.neverSent
           /\ Publish(d).erasing = d.erasing
           /\ Publish(d).replaying = d.replaying
           /\ SameInk(d, Publish(d)) /\ SameLease(d, Publish(d))
           /\ SamePaper(d, Publish(d))
<1> DEFINE T == (d.confirmed \cup Range(d.pending)) \ d.erasing
<1>1. T \subseteq Strokes /\ T \subseteq D \cup S
  BY DEF Holds, Session, Range, Strokes
<1>2. Publish(d) = [d EXCEPT !.strokes = T] BY DEF Publish
<1> HIDE DEF T
<1>3. Publish(d) \in Session BY <1>1, <1>2 DEF Holds, Session
<1>4. /\ Publish(d).strokes = T
      /\ Publish(d).neverSent = d.neverSent
      /\ Publish(d).erasing = d.erasing
      /\ Publish(d).replaying = d.replaying
      /\ Publish(d).lastSeq = d.lastSeq /\ Publish(d).paper = d.paper
      /\ SameInk(d, Publish(d)) /\ SameLease(d, Publish(d))
      /\ SamePaper(d, Publish(d))
  BY <1>2 DEF Holds, Session, SameInk, SameLease, SamePaper
<1> QED
  BY <1>1, <1>3, <1>4 DEF Good, Holds, Shows, SameInk, SameLease, SamePaper, T

LEMMA EmptyRange ==
    ASSUME NEW T, NEW q \in Seq(T)
    PROVE  q = <<>> <=> Range(q) = {}
<1>1. Range(q) = {} => Len(q) = 0
  <2> SUFFICES ASSUME Len(q) # 0 PROVE Range(q) # {} OBVIOUS
  <2>1. 1 \in DOMAIN q OBVIOUS
  <2>2. q[1] \in Range(q) BY <2>1 DEF Range
  <2> QED BY <2>2
<1>2. Len(q) = 0 => q = <<>> OBVIOUS
<1>3. q = <<>> => Range(q) = {} BY DEF Range
<1> QED BY <1>1, <1>2, <1>3

LEMMA PublishUnlessReplayingFacts ==
    ASSUME NEW d, NEW D, NEW S, NEW E, NEW n, Holds(d, D, S, E, n)
    PROVE  LET e == PublishUnlessReplaying(d) IN
           /\ Good(e, D, S, E, n)
           /\ e.replaying = d.replaying
           /\ SameInk(d, e) /\ SameLease(d, e) /\ SamePaper(d, e)
<1>1. CASE d.replaying
  BY <1>1
  DEF PublishUnlessReplaying, Good, Shows, SameInk, SameLease, SamePaper
<1>2. CASE ~d.replaying
  BY <1>2, PublishFacts DEF PublishUnlessReplaying
<1> QED BY <1>1, <1>2

LEMMA DropPendingFacts ==
    ASSUME NEW d, NEW D, NEW S, NEW E, NEW n, Holds(d, D, S, E, n), NEW gone
    PROVE  LET e == DropPending(d, gone) IN
           /\ Holds(e, D, S, E, n)
           /\ Range(e.pending) = Range(d.pending) \ gone
           /\ e.neverSent = d.neverSent \ gone
           /\ e.seen = d.seen /\ e.confirmed = d.confirmed
           /\ e.strokes = d.strokes /\ e.erasing = d.erasing
           /\ e.replaying = d.replaying
           /\ SameLease(d, e) /\ SamePaper(d, e)
<1> DEFINE e == DropPending(d, gone)
           q == Without(d.pending, gone)
           N == d.neverSent \ gone
<1>1. d \in Session /\ d.pending \in Seq(Mine) /\ d.neverSent \in SUBSET Mine
  BY DEF Holds, Session
<1>2. /\ q \in Seq(Mine) /\ Range(q) = Range(d.pending) \ gone
      /\ IsInjective(q)
  BY <1>1, WithoutFacts DEF Holds
<1>3. e = [d EXCEPT !.pending = q, !.neverSent = N] BY DEF DropPending
<1> HIDE DEF e, q
<1>4. N \in SUBSET Mine BY <1>1
<1>5. e \in Session BY <1>1, <1>2, <1>3, <1>4 DEF Session
<1>6. /\ e.pending = q /\ e.neverSent = N
      /\ e.seen = d.seen /\ e.confirmed = d.confirmed
      /\ e.strokes = d.strokes /\ e.erasing = d.erasing
      /\ e.replaying = d.replaying /\ e.lastSeq = d.lastSeq
      /\ e.paper = d.paper
      /\ SameLease(d, e) /\ SamePaper(d, e)
  BY <1>1, <1>3 DEF Session, SameLease, SamePaper
<1>7. Holds(e, D, S, E, n)
  BY <1>2, <1>5, <1>6 DEF Holds, SameLease, SamePaper
<1> QED BY <1>2, <1>6, <1>7 DEF e

LEMMA EndReplayFacts ==
    ASSUME NEW d, NEW D, NEW S, NEW E, NEW n, Good(d, D, S, E, n)
    PROVE  LET e == endReplay(d) IN
           /\ Good(e, D, S, E, n)
           /\ e.replaying = FALSE /\ e.erasing = d.erasing
           /\ SameInk(d, e) /\ SameLease(d, e) /\ SamePaper(d, e)
<1> DEFINE f == [d EXCEPT !.replaying = FALSE]
<1>0. d \in Session BY DEF Good, Holds
<1>1. /\ f \in Session /\ f.replaying = FALSE /\ f.erasing = d.erasing
      /\ f.neverSent = d.neverSent /\ f.strokes = d.strokes
      /\ f.lastSeq = d.lastSeq /\ f.paper = d.paper
      /\ SameInk(d, f) /\ SameLease(d, f) /\ SamePaper(d, f)
  BY <1>0 DEF Session, SameInk, SameLease, SamePaper
<1> HIDE DEF f
<1>2. Holds(f, D, S, E, n)
  BY <1>1 DEF Good, Holds, SameInk, SameLease, SamePaper
<1>3. CASE d.replaying
  <2>1. endReplay(d) = Publish(f) BY <1>3 DEF endReplay, f
  <2> QED
    BY <1>1, <1>2, <2>1, PublishFacts DEF SameInk, SameLease, SamePaper
<1>4. CASE ~d.replaying
  BY <1>0, <1>4 DEF endReplay, Session, SameInk, SameLease, SamePaper
<1> QED BY <1>3, <1>4

\* Strokes that arrive are seen and confirmed, and pending no more.
See(d, new) == [DropPending(d, new) EXCEPT !.seen = @ \cup new,
                                           !.confirmed = @ \cup new]

LEMMA SeeFacts ==
    ASSUME NEW d, NEW D, NEW S, NEW E, NEW n, Holds(d, D, S, E, n),
           NEW new, new \subseteq S, S \subseteq Strokes
    PROVE  LET e == See(d, new) IN
           /\ Holds(e, D, S, E, n)
           /\ Range(e.pending) = Range(d.pending) \ new
           /\ e.seen = d.seen \cup new
           /\ e.confirmed = d.confirmed \cup new
           /\ e.replaying = d.replaying
           /\ SameLease(d, e) /\ SamePaper(d, e)
<1> DEFINE f == DropPending(d, new)
           e == [f EXCEPT !.seen = @ \cup new, !.confirmed = @ \cup new]
<1>0. See(d, new) = e BY DEF See
<1>1. /\ Holds(f, D, S, E, n)
      /\ Range(f.pending) = Range(d.pending) \ new
      /\ f.seen = d.seen /\ f.confirmed = d.confirmed
      /\ f.replaying = d.replaying
      /\ SameLease(d, f) /\ SamePaper(d, f)
  BY DropPendingFacts
<1> HIDE DEF f
<1>2. f \in Session /\ d \in Session BY <1>1 DEF Holds
<1>3. /\ f.seen \cup new \in SUBSET Strokes
      /\ f.confirmed \cup new \in SUBSET Strokes
  BY <1>2 DEF Session
<1>4. e \in Session BY <1>2, <1>3 DEF Session
<1>5. /\ e.pending = f.pending /\ e.neverSent = f.neverSent
      /\ e.seen = f.seen \cup new /\ e.confirmed = f.confirmed \cup new
      /\ e.strokes = f.strokes /\ e.erasing = f.erasing
      /\ e.replaying = f.replaying /\ e.lastSeq = f.lastSeq
      /\ e.paper = f.paper
      /\ SameLease(f, e) /\ SamePaper(f, e)
  BY <1>2 DEF Session, SameLease, SamePaper
<1> HIDE DEF e
<1>6. Holds(e, D, S, E, n)
  BY <1>1, <1>4, <1>5 DEF Holds, SameLease, SamePaper
<1>7. SameLease(d, e) /\ SamePaper(d, e)
  BY <1>1, <1>5 DEF SameLease, SamePaper
<1> QED BY <1>0, <1>1, <1>5, <1>6, <1>7

\* lastSeq follows what arrives.
LEMMA LastSeqFacts ==
    ASSUME NEW d, NEW D, NEW S, NEW E, NEW n, Good(d, D, S, E, n),
           NEW k \in Nat, k <= n
    PROVE  LET e == [d EXCEPT !.lastSeq = IF k > @ THEN k ELSE @] IN
           /\ Good(e, D, S, E, n) /\ e.replaying = d.replaying
           /\ SameInk(d, e) /\ SameLease(d, e) /\ SamePaper(d, e)
<1> DEFINE l == IF k > d.lastSeq THEN k ELSE d.lastSeq
           e == [d EXCEPT !.lastSeq = l]
<1>1. d \in Session /\ l \in Nat /\ l <= n
  BY DEF Good, Holds, Session
<1> HIDE DEF l
<1>2. /\ e \in Session /\ e.lastSeq = l
      /\ e.neverSent = d.neverSent
      /\ e.strokes = d.strokes /\ e.erasing = d.erasing
      /\ e.replaying = d.replaying /\ e.paper = d.paper
      /\ SameInk(d, e) /\ SameLease(d, e) /\ SamePaper(d, e)
  BY <1>1 DEF Session, SameInk, SameLease, SamePaper
<1> HIDE DEF e
<1>3. Good(e, D, S, E, n)
  BY <1>1, <1>2 DEF Good, Holds, Shows, SameInk, SameLease, SamePaper
<1> QED BY <1>2, <1>3 DEF e, l

\* d has heard of the stroke s.
Confirms(d, e, s) ==
    /\ Range(e.pending) = Range(d.pending) \ {s}
    /\ e.seen = d.seen \cup {s}
    /\ e.confirmed \subseteq d.confirmed \cup ({s} \ d.seen)
    /\ e.replaying = d.replaying
    /\ SameLease(d, e) /\ SamePaper(d, e)

LEMMA OnStrokeBatchFacts ==
    ASSUME NEW d, NEW D, NEW S, NEW E, NEW n, Good(d, D, S, E, n),
           S \subseteq Strokes, NEW s \in S, NEW k \in Nat, k <= n,
           NEW e, e = onStrokeBatch(d, k, s)
    PROVE  Good(e, D, S, E, n) /\ Confirms(d, e, s)
<1> DEFINE added == See(d, {s})
           shown == IF s \in d.seen THEN d ELSE PublishUnlessReplaying(added)
<1>1. e = [shown EXCEPT !.lastSeq = IF k > @ THEN k ELSE @]
  BY DEF onStrokeBatch, See
<1>2. /\ Good(shown, D, S, E, n)
      /\ Range(shown.pending) = Range(d.pending) \ {s}
      /\ shown.seen = d.seen \cup {s}
      /\ shown.confirmed \subseteq d.confirmed \cup ({s} \ d.seen)
      /\ shown.replaying = d.replaying
      /\ SameLease(d, shown) /\ SamePaper(d, shown)
  <2>1. CASE s \in d.seen
    <3>1. s \notin Range(d.pending) BY <2>1 DEF Good, Holds
    <3> QED BY <2>1, <3>1 DEF SameLease, SamePaper
  <2>2. CASE s \notin d.seen
    <3>1. Holds(d, D, S, E, n) /\ {s} \subseteq S BY DEF Good
    <3>2. /\ Holds(added, D, S, E, n)
          /\ Range(added.pending) = Range(d.pending) \ {s}
          /\ added.seen = d.seen \cup {s}
          /\ added.confirmed = d.confirmed \cup {s}
          /\ added.replaying = d.replaying
          /\ SameLease(d, added) /\ SamePaper(d, added)
      BY <3>1, SeeFacts
    <3> HIDE DEF added
    <3>3. shown = PublishUnlessReplaying(added) BY <2>2
    <3> HIDE DEF shown
    <3>4. /\ Good(shown, D, S, E, n)
          /\ shown.replaying = added.replaying
          /\ SameInk(added, shown) /\ SameLease(added, shown)
          /\ SamePaper(added, shown)
      BY <3>2, <3>3, PublishUnlessReplayingFacts
    <3> QED BY <2>2, <3>2, <3>4 DEF SameInk, SameLease, SamePaper
  <2> QED BY <2>1, <2>2
<1> HIDE DEF shown
<1>3. /\ Good(e, D, S, E, n) /\ e.replaying = shown.replaying
      /\ SameInk(shown, e) /\ SameLease(shown, e) /\ SamePaper(shown, e)
  BY <1>1, <1>2, LastSeqFacts
<1> QED BY <1>2, <1>3 DEF Confirms, SameInk, SameLease, SamePaper

LEMMA OnTombstoneBatchFacts ==
    ASSUME NEW d, NEW D, NEW S, NEW E, NEW n, Holds(d, D, S, E, n),
           NEW ids, ids \subseteq E
    PROVE  LET e == onTombstoneBatch(d, ids) IN
           /\ Good(e, D, S, E, n)
           /\ Range(e.pending) = Range(d.pending) \ ids
           /\ e.seen = d.seen
           /\ e.confirmed = d.confirmed \ ids
           /\ e.replaying = d.replaying
           /\ SameLease(d, e) /\ SamePaper(d, e)
<1> DEFINE f == DropPending(d, ids)
           g == [f EXCEPT !.erasing = @ \ ids, !.confirmed = @ \ ids]
           e == onTombstoneBatch(d, ids)
<1>1. /\ Holds(f, D, S, E, n)
      /\ Range(f.pending) = Range(d.pending) \ ids
      /\ f.seen = d.seen /\ f.confirmed = d.confirmed
      /\ f.replaying = d.replaying
      /\ SameLease(d, f) /\ SamePaper(d, f)
  BY DropPendingFacts
<1> HIDE DEF f
<1>2. f \in Session BY <1>1 DEF Holds
<1>3. /\ f.erasing \ ids \in SUBSET Strokes
      /\ f.confirmed \ ids \in SUBSET Strokes
  BY <1>2 DEF Session
<1>4. IsFiniteSet(f.erasing \ ids)
  BY <1>1, FS_Subset DEF Holds
<1>5. g \in Session BY <1>2, <1>3 DEF Session
<1>6. /\ g.pending = f.pending /\ g.neverSent = f.neverSent
      /\ g.seen = f.seen /\ g.confirmed = f.confirmed \ ids
      /\ g.strokes = f.strokes /\ g.erasing = f.erasing \ ids
      /\ g.replaying = f.replaying /\ g.lastSeq = f.lastSeq
      /\ g.paper = f.paper
      /\ SameLease(f, g) /\ SamePaper(f, g)
  BY <1>2 DEF Session, SameLease, SamePaper
<1>7. e = PublishUnlessReplaying(g) BY DEF onTombstoneBatch, f
<1> HIDE DEF g, e
<1>8. Holds(g, D, S, E, n)
  BY <1>1, <1>4, <1>5, <1>6 DEF Holds, SameLease, SamePaper
<1>9. /\ Good(e, D, S, E, n) /\ e.replaying = g.replaying
      /\ SameInk(g, e) /\ SameLease(g, e) /\ SamePaper(g, e)
  BY <1>7, <1>8, PublishUnlessReplayingFacts
<1> QED BY <1>1, <1>6, <1>9 DEF SameInk, SameLease, SamePaper, e

\* d has heard of the rows and of the erased strokes E.
CatchesUp(d, e, rows, E) ==
    /\ ~e.replaying
    /\ Range(e.pending) \subseteq Range(d.pending) \ E
    /\ e.seen = d.seen \cup rows
    /\ e.confirmed \cap E = {}
    /\ SameLease(d, e) /\ SamePaper(d, e)

LEMMA OnPageReplayFacts ==
    ASSUME NEW d, NEW D, NEW S, NEW E, NEW n \in Nat, Good(d, D, S, E, n),
           S \subseteq Strokes, NEW rows, rows \subseteq S,
           NEW e, e = onPageReplay(d, rows, E, n)
    PROVE  Good(e, D, S, E, n) /\ CatchesUp(d, e, rows, E)
<1> DEFINE new == rows \ d.seen
           added == See(d, new)
           synced == onTombstoneBatch(added, E)
           caught == [synced EXCEPT !.lastSeq = IF n > @ THEN n ELSE @]
<1>1. Holds(d, D, S, E, n) /\ new \subseteq S BY DEF Good
<1>2. e = endReplay(caught) BY DEF onPageReplay, See
<1>a. d.seen \cup new = d.seen \cup rows OBVIOUS
<1> HIDE DEF new
<1>3. /\ Holds(added, D, S, E, n)
      /\ Range(added.pending) = Range(d.pending) \ new
      /\ added.seen = d.seen \cup new
      /\ SameLease(d, added) /\ SamePaper(d, added)
  BY <1>1, SeeFacts
<1>4. added.seen = d.seen \cup rows BY <1>3, <1>a
<1> HIDE DEF added
<1>5. /\ Good(synced, D, S, E, n)
      /\ Range(synced.pending) = Range(added.pending) \ E
      /\ synced.seen = added.seen
      /\ synced.confirmed = added.confirmed \ E
      /\ SameLease(added, synced) /\ SamePaper(added, synced)
  BY <1>3, OnTombstoneBatchFacts
<1> HIDE DEF synced
<1>6. /\ Good(caught, D, S, E, n)
      /\ SameInk(synced, caught) /\ SameLease(synced, caught)
      /\ SamePaper(synced, caught)
  <2>1. n \in Nat /\ n <= n OBVIOUS
  <2> QED BY <1>5, <2>1, LastSeqFacts
<1> HIDE DEF caught
<1>7. /\ Good(e, D, S, E, n) /\ e.replaying = FALSE
      /\ SameInk(caught, e) /\ SameLease(caught, e) /\ SamePaper(caught, e)
  BY <1>2, <1>6, EndReplayFacts
<1>8. /\ SameInk(synced, e) /\ SameLease(d, e) /\ SamePaper(d, e)
  BY <1>3, <1>5, <1>6, <1>7 DEF SameInk, SameLease, SamePaper
<1> QED BY <1>3, <1>4, <1>5, <1>7, <1>8 DEF CatchesUp, SameInk

LEMMA OnPaperChangedFacts ==
    ASSUME NEW d, NEW D, NEW S, NEW E, NEW n, Good(d, D, S, E, n),
           NEW p \in Paper
    PROVE  LET e == onPaperChanged(d, p) IN
           /\ Good(e, D, S, E, n) /\ e.replaying = d.replaying
           /\ SameInk(d, e) /\ SameLease(d, e)
           /\ e.confirmedPaper = p
           /\ e.pendingPaper = IF d.pendingPaper = p THEN NoPaper
                               ELSE d.pendingPaper
<1> DEFINE w == IF d.pendingPaper = p THEN NoPaper ELSE d.pendingPaper
           v == IF d.pendingPaper = p THEN p ELSE d.saved
           e == [d EXCEPT !.paper = p, !.confirmedPaper = p,
                          !.pendingPaper = w, !.saved = v]
<1>1. /\ d \in Session
      /\ w \in Paper \cup {NoPaper} /\ v \in Paper \cup {NoPaper}
  BY DEF Good, Holds, Session
<1>2. onPaperChanged(d, p) = e BY DEF onPaperChanged
<1>3. w = IF d.pendingPaper = p THEN NoPaper ELSE d.pendingPaper OBVIOUS
<1> HIDE DEF w, v
<1>4. /\ e \in Session /\ e.lastSeq = d.lastSeq
      /\ e.neverSent = d.neverSent
      /\ e.strokes = d.strokes /\ e.erasing = d.erasing
      /\ e.replaying = d.replaying /\ e.paper = p
      /\ e.confirmedPaper = p /\ e.pendingPaper = w
      /\ SameInk(d, e) /\ SameLease(d, e)
  BY <1>1 DEF Session, SameInk, SameLease
<1> HIDE DEF e
<1>5. Good(e, D, S, E, n)
  BY <1>4 DEF Good, Holds, Shows, SameInk, SameLease
<1> QED BY <1>2, <1>3, <1>4, <1>5

LEMMA RevertFacts ==
    ASSUME NEW d, NEW D, NEW S, NEW E, NEW n, Good(d, D, S, E, n)
    PROVE  LET e == revertUnconfirmedPaper(d) IN
           /\ Good(e, D, S, E, n) /\ e.replaying = d.replaying
           /\ e.erasing = d.erasing
           /\ SameInk(d, e) /\ SameLease(d, e)
           /\ e.confirmedPaper = d.confirmedPaper
           /\ e.pendingPaper = NoPaper
<1> DEFINE e == revertUnconfirmedPaper(d)
<1>1. d \in Session BY DEF Good, Holds
<1>2. /\ e \in Session /\ e.lastSeq = d.lastSeq
      /\ e.neverSent = d.neverSent
      /\ e.strokes = d.strokes /\ e.erasing = d.erasing
      /\ e.replaying = d.replaying /\ e.paper = d.confirmedPaper
      /\ e.confirmedPaper = d.confirmedPaper /\ e.pendingPaper = NoPaper
      /\ SameInk(d, e) /\ SameLease(d, e)
  BY <1>1 DEF revertUnconfirmedPaper, Session, SameInk, SameLease
<1> HIDE DEF e
<1>3. Good(e, D, S, E, n)
  BY <1>2 DEF Good, Holds, Shows, SameInk, SameLease
<1> QED BY <1>2, <1>3 DEF e

LEMMA OnLeaseHeldFacts ==
    ASSUME NEW d, NEW D, NEW S, NEW E, NEW n, Good(d, D, S, E, n)
    PROVE  LET e == onLeaseHeld(d) IN
           /\ Good(e, D, S, E, n) /\ e.replaying = d.replaying
           /\ SameInk(d, e) /\ SamePaper(d, e)
           /\ e.resend = FALSE
<1> DEFINE N == IF d.resend THEN {} ELSE d.neverSent
           e == [d EXCEPT !.canEdit = TRUE, !.refused = FALSE,
                          !.resend = FALSE, !.neverSent = N]
<1>1. d \in Session BY DEF Good, Holds
<1>2. N \in SUBSET Mine /\ N \subseteq d.neverSent BY <1>1 DEF Session
<1>3. onLeaseHeld(d) = e BY DEF onLeaseHeld
<1> HIDE DEF N
<1>4. /\ e \in Session /\ e.lastSeq = d.lastSeq /\ e.neverSent = N
      /\ e.strokes = d.strokes /\ e.erasing = d.erasing
      /\ e.replaying = d.replaying /\ e.paper = d.paper
      /\ e.resend = FALSE
      /\ SameInk(d, e) /\ SamePaper(d, e)
  BY <1>1, <1>2 DEF Session, SameInk, SamePaper
<1> HIDE DEF e
<1>5. Good(e, D, S, E, n)
  BY <1>2, <1>4 DEF Good, Holds, Shows, SameInk, SamePaper
<1> QED BY <1>3, <1>4, <1>5

LEMMA DiscardPendingFacts ==
    ASSUME NEW d, NEW D, NEW S, NEW E, NEW n, Good(d, D, S, E, n)
    PROVE  LET e == discardPendingBatches(d) IN
           /\ Good(e, D, S, E, n) /\ e.replaying = d.replaying
           /\ Range(e.pending) = {} /\ e.pending = <<>>
           /\ e.seen = d.seen /\ e.confirmed = d.confirmed
           /\ SameLease(d, e) /\ SamePaper(d, e)
<1> DEFINE f == [d EXCEPT !.pending = <<>>, !.neverSent = {}]
           e == discardPendingBatches(d)
<1>1. d \in Session /\ d.pending \in Seq(Mine) BY DEF Good, Holds, Session
<1>2. <<>> \in Seq(Mine) /\ {} \in SUBSET Mine /\ Range(<<>>) = {}
      /\ IsInjective(<<>>)
  BY DEF Range, IsInjective
<1>3. CASE d.pending = <<>>
  BY <1>2, <1>3 DEF discardPendingBatches, SameLease, SamePaper
<1>4. CASE d.pending # <<>>
  <2>1. e = Publish(f) BY <1>4 DEF discardPendingBatches
  <2> HIDE DEF e
  <2>2. f \in Session BY <1>1, <1>2 DEF Session
  <2>3. /\ f.pending = <<>> /\ f.neverSent = {} /\ f.lastSeq = d.lastSeq
        /\ f.seen = d.seen /\ f.confirmed = d.confirmed
        /\ f.strokes = d.strokes /\ f.erasing = d.erasing
        /\ f.replaying = d.replaying /\ f.paper = d.paper
        /\ SameLease(d, f) /\ SamePaper(d, f)
    BY <1>1 DEF Session, SameLease, SamePaper
  <2> HIDE DEF f
  <2>4. Holds(f, D, S, E, n)
    BY <1>2, <2>2, <2>3 DEF Good, Holds, SameLease, SamePaper
  <2>5. /\ Good(e, D, S, E, n) /\ e.replaying = f.replaying
        /\ SameInk(f, e) /\ SameLease(f, e) /\ SamePaper(f, e)
    BY <2>1, <2>4, PublishFacts
  <2> QED BY <1>2, <2>3, <2>5 DEF SameInk, SameLease, SamePaper, e
<1> QED BY <1>3, <1>4

LEMMA ClearErasuresFacts ==
    ASSUME NEW d, NEW D, NEW S, NEW E, NEW n, Good(d, D, S, E, n),
           NEW X, X \subseteq d.erasing
    PROVE  LET e == Publish([d EXCEPT !.erasing = X]) IN
           /\ Good(e, D, S, E, n) /\ e.replaying = d.replaying
           /\ SameInk(d, e) /\ SameLease(d, e) /\ SamePaper(d, e)
<1> DEFINE f == [d EXCEPT !.erasing = X]
           e == Publish(f)
<1>1. d \in Session BY DEF Good, Holds
<1>2. X \in SUBSET Strokes BY <1>1 DEF Session
<1>3. IsFiniteSet(X) BY FS_Subset DEF Good, Holds
<1>4. /\ f \in Session /\ f.lastSeq = d.lastSeq
      /\ f.neverSent = d.neverSent
      /\ f.strokes = d.strokes /\ f.erasing = X
      /\ f.replaying = d.replaying /\ f.paper = d.paper
      /\ SameInk(d, f) /\ SameLease(d, f) /\ SamePaper(d, f)
  BY <1>1, <1>2 DEF Session, SameInk, SameLease, SamePaper
<1> HIDE DEF f
<1>5. Holds(f, D, S, E, n)
  BY <1>3, <1>4 DEF Good, Holds, SameInk, SameLease, SamePaper
<1>6. /\ Good(e, D, S, E, n) /\ e.replaying = f.replaying
      /\ SameInk(f, e) /\ SameLease(f, e) /\ SamePaper(f, e)
  BY <1>5, PublishFacts
<1> HIDE DEF e
<1>7. /\ Good(e, D, S, E, n) /\ e.replaying = d.replaying
      /\ SameInk(d, e) /\ SameLease(d, e) /\ SamePaper(d, e)
  BY <1>4, <1>6 DEF SameInk, SameLease, SamePaper
<1> QED BY <1>7 DEF e, f

LEMMA RefuseLeaseFacts ==
    ASSUME NEW d, NEW D, NEW S, NEW E, NEW n, Good(d, D, S, E, n)
    PROVE  LET e == refuseLease(d) IN
           /\ Good(e, D, S, E, n) /\ e.replaying = d.replaying
           /\ Range(e.pending) \subseteq Range(d.pending)
           /\ e.seen = d.seen /\ e.confirmed = d.confirmed
           /\ e.canEdit = FALSE /\ (Range(e.pending) # {} => e.resend)
           /\ SamePaper(d, e)
<1> DEFINE kept == IF d.neverSent = {} THEN d
                   ELSE Publish(DropPending(d, d.neverSent))
           again == kept.pending # <<>> \/ kept.erasing # {}
           e == [kept EXCEPT !.canEdit = FALSE, !.refused = TRUE,
                             !.resend = again]
<1>1. refuseLease(d) = e BY DEF refuseLease
<1>2. /\ Good(kept, D, S, E, n)
      /\ Range(kept.pending) \subseteq Range(d.pending)
      /\ kept.seen = d.seen /\ kept.confirmed = d.confirmed
      /\ kept.replaying = d.replaying /\ SamePaper(d, kept)
  <2>1. CASE d.neverSent = {} BY <2>1 DEF SamePaper
  <2>2. CASE d.neverSent # {}
    <3> DEFINE f == DropPending(d, d.neverSent)
    <3>1. /\ Holds(f, D, S, E, n)
          /\ Range(f.pending) = Range(d.pending) \ d.neverSent
          /\ f.seen = d.seen /\ f.confirmed = d.confirmed
          /\ f.replaying = d.replaying /\ SamePaper(d, f)
      BY DropPendingFacts DEF Good
    <3>2. kept = Publish(f) BY <2>2
    <3> HIDE DEF f, kept
    <3>3. /\ Good(kept, D, S, E, n) /\ kept.replaying = f.replaying
          /\ SameInk(f, kept) /\ SamePaper(f, kept)
      BY <3>1, <3>2, PublishFacts
    <3> QED BY <3>1, <3>3 DEF SameInk, SamePaper
  <2> QED BY <2>1, <2>2
<1> HIDE DEF kept
<1>3. kept \in Session /\ again \in BOOLEAN /\ kept.pending \in Seq(Mine)
  BY <1>2 DEF Good, Holds, Session
<1>4. Range(kept.pending) # {} => again
  BY <1>3, EmptyRange
<1> HIDE DEF again
<1>5. /\ e \in Session /\ e.lastSeq = kept.lastSeq
      /\ e.neverSent = kept.neverSent
      /\ e.strokes = kept.strokes /\ e.erasing = kept.erasing
      /\ e.replaying = kept.replaying /\ e.paper = kept.paper
      /\ e.canEdit = FALSE /\ e.resend = again
      /\ SameInk(kept, e) /\ SamePaper(kept, e)
  BY <1>3 DEF Session, SameInk, SamePaper
<1> HIDE DEF e
<1>6. Good(e, D, S, E, n)
  BY <1>2, <1>5 DEF Good, Holds, Shows, SameInk, SamePaper
<1>7. /\ Range(e.pending) \subseteq Range(d.pending)
      /\ e.seen = d.seen /\ e.confirmed = d.confirmed
      /\ Range(e.pending) # {} => e.resend
      /\ SamePaper(d, e)
  BY <1>2, <1>4, <1>5 DEF SameInk, SamePaper
<1> QED BY <1>1, <1>2, <1>5, <1>6, <1>7

LEMMA OnLeaseDeniedFacts ==
    ASSUME NEW d, NEW D, NEW S, NEW E, NEW n, Good(d, D, S, E, n)
    PROVE  LET e == onLeaseDenied(d) IN
           /\ Good(e, D, S, E, n) /\ e.replaying = d.replaying
           /\ Range(e.pending) = {}
           /\ e.seen = d.seen /\ e.confirmed = d.confirmed
           /\ e.confirmedPaper = d.confirmedPaper
           /\ e.pendingPaper = NoPaper
<1> DEFINE f == clearPendingErasures(d)
           g == discardPendingBatches(f)
           h == revertUnconfirmedPaper(g)
           e == refuseLease(h)
<1>1. onLeaseDenied(d) = e BY DEF onLeaseDenied
<1>2. /\ Good(f, D, S, E, n) /\ f.replaying = d.replaying
      /\ SameInk(d, f) /\ SamePaper(d, f)
  <2>1. CASE d.erasing = {}
    BY <2>1 DEF clearPendingErasures, SameInk, SamePaper
  <2>2. CASE d.erasing # {}
    <3>1. f = Publish([d EXCEPT !.erasing = {}])
      BY <2>2 DEF clearPendingErasures
    <3> HIDE DEF f
    <3> QED BY <3>1, ClearErasuresFacts
  <2> QED BY <2>1, <2>2
<1> HIDE DEF f
<1>3. /\ Good(g, D, S, E, n) /\ g.replaying = f.replaying
      /\ Range(g.pending) = {}
      /\ g.seen = f.seen /\ g.confirmed = f.confirmed /\ SamePaper(f, g)
  BY <1>2, DiscardPendingFacts
<1> HIDE DEF g
<1>4. /\ Good(h, D, S, E, n) /\ h.replaying = g.replaying
      /\ SameInk(g, h)
      /\ h.confirmedPaper = g.confirmedPaper /\ h.pendingPaper = NoPaper
  BY <1>3, RevertFacts
<1> HIDE DEF h
<1>5. /\ Good(e, D, S, E, n) /\ e.replaying = h.replaying
      /\ Range(e.pending) \subseteq Range(h.pending)
      /\ e.seen = h.seen /\ e.confirmed = h.confirmed /\ SamePaper(h, e)
  BY <1>4, RefuseLeaseFacts
<1> HIDE DEF e
<1> QED BY <1>1, <1>2, <1>3, <1>4, <1>5 DEF SameInk, SamePaper

LEMMA OnFailureFacts ==
    ASSUME NEW d, NEW D, NEW S, NEW E, NEW n, Good(d, D, S, E, n),
           NEW code, NEW ids, NEW e, e = onFailure(d, code, ids)
    PROVE  /\ Good(e, D, S, E, n) /\ ~e.replaying
           /\ Range(e.pending) = {}
           /\ e.seen = d.seen /\ e.confirmed = d.confirmed
           /\ e.confirmedPaper = d.confirmedPaper
           /\ \/ e.pendingPaper = NoPaper
              \/ /\ code # "paper_failed"
                 /\ e.pendingPaper = d.pendingPaper
<1> DEFINE f == endReplay(d)
           g == CASE code = "tombstone_failed" ->
                       Publish([f EXCEPT !.erasing = @ \ ids])
                  [] code = "paper_failed" -> revertUnconfirmedPaper(f)
                  [] OTHER -> f
           h == discardPendingBatches(g)
           z == [h EXCEPT !.canEdit = FALSE, !.resend = FALSE,
                          !.refused = TRUE]
<1>1. e = z BY DEF onFailure
<1>2. /\ Good(f, D, S, E, n) /\ f.replaying = FALSE
      /\ SameInk(d, f) /\ SamePaper(d, f)
  BY EndReplayFacts
<1> HIDE DEF f
<1>3. /\ Good(g, D, S, E, n) /\ g.replaying = FALSE /\ SameInk(f, g)
      /\ g.confirmedPaper = f.confirmedPaper
      /\ \/ g.pendingPaper = NoPaper
         \/ code # "paper_failed" /\ g.pendingPaper = f.pendingPaper
  <2>1. CASE code = "tombstone_failed"
    <3> DEFINE X == f.erasing \ ids
    <3>1. X \subseteq f.erasing OBVIOUS
    <3>2. g = Publish([f EXCEPT !.erasing = X]) BY <2>1
    <3> HIDE DEF X, g
    <3>3. /\ Good(g, D, S, E, n) /\ g.replaying = f.replaying
          /\ SameInk(f, g) /\ SamePaper(f, g)
      BY <1>2, <3>1, <3>2, ClearErasuresFacts
    <3> QED BY <1>2, <2>1, <3>3 DEF SamePaper
  <2>2. CASE code = "paper_failed"
    <3>1. g = revertUnconfirmedPaper(f) BY <2>2
    <3> HIDE DEF g
    <3> QED BY <1>2, <3>1, RevertFacts
  <2>3. CASE code \notin {"tombstone_failed", "paper_failed"}
    <3>1. g = f BY <2>3
    <3> HIDE DEF g
    <3> QED BY <1>2, <2>3, <3>1 DEF SameInk
  <2> QED BY <2>1, <2>2, <2>3
<1> HIDE DEF g
<1>4. /\ Good(h, D, S, E, n) /\ h.replaying = g.replaying
      /\ Range(h.pending) = {}
      /\ h.seen = g.seen /\ h.confirmed = g.confirmed /\ SamePaper(g, h)
  BY <1>3, DiscardPendingFacts
<1> HIDE DEF h
<1>5. h \in Session BY <1>4 DEF Good, Holds
<1>6. /\ z \in Session /\ z.lastSeq = h.lastSeq
      /\ z.neverSent = h.neverSent
      /\ z.strokes = h.strokes /\ z.erasing = h.erasing
      /\ z.replaying = h.replaying /\ z.paper = h.paper
      /\ z.canEdit = FALSE /\ z.resend = FALSE
      /\ SameInk(h, z) /\ SamePaper(h, z)
  BY <1>5 DEF Session, SameInk, SamePaper
<1> HIDE DEF z
<1>7. Good(z, D, S, E, n)
  BY <1>4, <1>6 DEF Good, Holds, Shows, SameInk, SamePaper
<1> QED BY <1>1, <1>2, <1>3, <1>4, <1>6, <1>7 DEF SameInk, SamePaper

\* onWelcome before it looks at the lease.
Begin(d, p) == [d EXCEPT !.paper = p, !.confirmedPaper = p,
                         !.pendingPaper = NoPaper, !.replaying = TRUE]
BeginFree(d, p) == [Begin(d, p) EXCEPT !.refused = FALSE]

\* Whether the lease is free or another's, the welcome never grants it.
LEMMA OnWelcomeFacts ==
    ASSUME NEW d, NEW D, NEW S, NEW E, NEW n, Good(d, D, S, E, n),
           NEW p \in Paper, Range(d.pending) # {} => d.resend,
           NEW e, e = BeginFree(d, p) \/ e = refuseLease(Begin(d, p))
    PROVE  /\ Good(e, D, S, E, n)
           /\ Range(e.pending) # {} => e.resend
           /\ e.canEdit => d.canEdit
           /\ e.confirmedPaper = p /\ e.pendingPaper = NoPaper
<1> DEFINE f == Begin(d, p)
           g == BeginFree(d, p)
<1>1. d \in Session BY DEF Good, Holds
<1>2. /\ f \in Session /\ f.lastSeq = d.lastSeq
      /\ f.neverSent = d.neverSent
      /\ f.strokes = d.strokes /\ f.erasing = d.erasing
      /\ f.replaying = TRUE /\ f.paper = p
      /\ f.confirmedPaper = p /\ f.pendingPaper = NoPaper
      /\ SameInk(d, f) /\ SameLease(d, f)
  BY <1>1 DEF Begin, Session, SameInk, SameLease
<1>3. g = [f EXCEPT !.refused = FALSE] BY DEF BeginFree
<1> HIDE DEF f, g
<1>4. Good(f, D, S, E, n)
  BY <1>2 DEF Good, Holds, Shows, SameInk, SameLease
<1>5. CASE e = g
  <2>1. /\ g \in Session /\ g.lastSeq = f.lastSeq
        /\ g.neverSent = f.neverSent
        /\ g.strokes = f.strokes /\ g.erasing = f.erasing
        /\ g.replaying = f.replaying /\ g.paper = f.paper
        /\ SameInk(f, g) /\ SameLease(f, g) /\ SamePaper(f, g)
    BY <1>2, <1>3 DEF Session, SameInk, SameLease, SamePaper
  <2>2. Good(g, D, S, E, n)
    BY <1>4, <2>1 DEF Good, Holds, Shows, SameInk, SameLease, SamePaper
  <2>3. /\ Range(g.pending) # {} => g.resend
        /\ g.canEdit => d.canEdit
        /\ g.confirmedPaper = p /\ g.pendingPaper = NoPaper
    BY <1>2, <2>1 DEF SameInk, SameLease, SamePaper
  <2> QED BY <1>5, <2>2, <2>3
<1>6. CASE e = refuseLease(f)
  <2>1. /\ Good(e, D, S, E, n)
        /\ Range(e.pending) # {} => e.resend
        /\ e.canEdit = FALSE /\ SamePaper(f, e)
    BY <1>4, <1>6, RefuseLeaseFacts
  <2> QED BY <1>2, <2>1 DEF SamePaper
<1> QED BY <1>5, <1>6 DEF f, g

LEMMA DisconnectedFacts ==
    ASSUME NEW d, NEW D, NEW S, NEW E, NEW n, Good(d, D, S, E, n)
    PROVE  LET e == handleDisconnected(d) IN
           /\ Good(e, D, S, E, n)
           /\ e.canEdit = FALSE /\ (Range(e.pending) # {} => e.resend)
<1> DEFINE f == endReplay(d)
           g == revertUnconfirmedPaper(f)
           again == g.resend \/ g.pending # <<>> \/ g.erasing # {}
           e == [g EXCEPT !.canEdit = FALSE, !.refused = FALSE,
                          !.resend = again]
<1>1. handleDisconnected(d) = e BY DEF handleDisconnected
<1>2. Good(f, D, S, E, n) BY EndReplayFacts
<1> HIDE DEF f
<1>3. Good(g, D, S, E, n) BY <1>2, RevertFacts
<1> HIDE DEF g
<1>4. g \in Session /\ again \in BOOLEAN /\ g.pending \in Seq(Mine)
  BY <1>3 DEF Good, Holds, Session
<1>5. Range(g.pending) # {} => again BY <1>4, EmptyRange
<1> HIDE DEF again
<1>6. /\ e \in Session /\ e.lastSeq = g.lastSeq
      /\ e.neverSent = g.neverSent
      /\ e.strokes = g.strokes /\ e.erasing = g.erasing
      /\ e.replaying = g.replaying /\ e.paper = g.paper
      /\ e.canEdit = FALSE /\ e.resend = again
      /\ SameInk(g, e) /\ SamePaper(g, e)
  BY <1>4 DEF Session, SameInk, SamePaper
<1> HIDE DEF e
<1>7. Good(e, D, S, E, n)
  BY <1>3, <1>6 DEF Good, Holds, Shows, SameInk, SamePaper
<1> QED BY <1>1, <1>5, <1>6, <1>7 DEF SameInk

\* A stroke the pen draws is pending, and held unless the session may edit.
Draw(d, s) ==
    LET f == [d EXCEPT !.pending = Append(@, s)]
        h == [f EXCEPT !.neverSent = @ \cup {s}, !.resend = TRUE]
    IN Publish(IF d.canEdit THEN f ELSE h)

LEMMA DrawFacts ==
    ASSUME NEW d, NEW D, NEW S, NEW E, NEW n, Good(d, D, S, E, n),
           NEW s \in Mine, s \notin D, s \notin d.seen,
           NEW D2, D \subseteq D2, s \in D2
    PROVE  LET e == Draw(d, s) IN
           /\ Good(e, D2, S, E, n) /\ e.replaying = d.replaying
           /\ \A x \in Range(e.pending) : x \in Range(d.pending) \/ x = s
           /\ e.seen = d.seen /\ e.confirmed = d.confirmed
           /\ e.canEdit = d.canEdit /\ SamePaper(d, e)
           /\ d.resend \/ ~d.canEdit => e.resend
<1> DEFINE q == Append(d.pending, s)
           f == [d EXCEPT !.pending = q]
           N == d.neverSent \cup {s}
           h == [f EXCEPT !.neverSent = N, !.resend = TRUE]
           g == IF d.canEdit THEN f ELSE h
           e == Publish(g)
<1>0. Draw(d, s) = e BY DEF Draw
<1>1. d \in Session /\ d.pending \in Seq(Mine) /\ d.canEdit \in BOOLEAN
      /\ d.resend \in BOOLEAN
  BY DEF Good, Holds, Session
<1>2. /\ q \in Seq(Mine) /\ Range(q) = Range(d.pending) \cup {s}
      /\ IsInjective(q)
  <2>1. /\ q \in Seq(Mine) /\ DOMAIN q = 1 .. Len(d.pending) + 1
        /\ q[Len(d.pending) + 1] = s
        /\ \A i \in DOMAIN d.pending : q[i] = d.pending[i]
        /\ DOMAIN d.pending = 1 .. Len(d.pending)
    BY <1>1
  <2> HIDE DEF q
  <2>2. Len(d.pending) \in Nat BY <1>1
  <2>3. 1 .. Len(d.pending) + 1 = 1 .. Len(d.pending)
          \cup {Len(d.pending) + 1}
    BY <2>2
  <2>4. Range(q) = Range(d.pending) \cup {s} BY <2>1, <2>3 DEF Range
  <2>5. s \notin Range(d.pending) BY DEF Good, Holds
  <2>6. IsInjective(q)
    BY <2>1, <2>3, <2>5 DEF IsInjective, Range, Good, Holds
  <2> QED BY <2>1, <2>4, <2>6
<1> HIDE DEF q
<1>3. /\ f \in Session /\ f.lastSeq = d.lastSeq /\ f.pending = q
      /\ f.neverSent = d.neverSent /\ f.seen = d.seen
      /\ f.confirmed = d.confirmed
      /\ f.strokes = d.strokes /\ f.erasing = d.erasing
      /\ f.replaying = d.replaying /\ f.paper = d.paper
      /\ SameLease(d, f) /\ SamePaper(d, f)
  BY <1>1, <1>2 DEF Session, SameLease, SamePaper
<1> HIDE DEF f
<1>4. N \in SUBSET Mine BY <1>1 DEF Session
<1> HIDE DEF N
<1>5. /\ h \in Session /\ h.lastSeq = f.lastSeq /\ h.pending = f.pending
      /\ h.neverSent = N /\ h.seen = f.seen
      /\ h.confirmed = f.confirmed
      /\ h.strokes = f.strokes /\ h.erasing = f.erasing
      /\ h.replaying = f.replaying /\ h.paper = f.paper
      /\ h.canEdit = f.canEdit /\ h.resend = TRUE /\ SamePaper(f, h)
  BY <1>3, <1>4 DEF Session, SamePaper
<1> HIDE DEF h
<1>6. /\ g \in Session /\ g.lastSeq = d.lastSeq /\ g.pending = q
      /\ g.neverSent \subseteq d.neverSent \cup {s} /\ g.seen = d.seen
      /\ g.confirmed = d.confirmed
      /\ g.strokes = d.strokes /\ g.erasing = d.erasing
      /\ g.replaying = d.replaying /\ g.paper = d.paper
      /\ g.canEdit = d.canEdit /\ SamePaper(d, g)
      /\ d.resend \/ ~d.canEdit => g.resend
      /\ g.resend => ~g.canEdit
  <2>1. CASE d.canEdit
    <3>1. g = f BY <2>1
    <3> HIDE DEF g
    <3>2. g.resend = d.resend BY <1>3, <3>1 DEF SameLease
    <3> QED BY <1>1, <1>3, <2>1, <3>1, <3>2 DEF SameLease, Good, Holds
  <2>2. CASE ~d.canEdit
    <3>1. g = h BY <2>2
    <3> HIDE DEF g
    <3> QED BY <1>1, <1>3, <1>5, <2>2, <3>1 DEF SameLease, SamePaper, N
  <2> QED BY <1>1, <2>1, <2>2
<1> HIDE DEF g
<1>7. Holds(g, D2, S, E, n)
  BY <1>2, <1>6 DEF Good, Holds, SamePaper
<1>8. /\ Good(e, D2, S, E, n) /\ e.replaying = g.replaying
      /\ SameInk(g, e) /\ SameLease(g, e) /\ SamePaper(g, e)
  BY <1>7, PublishFacts
<1> HIDE DEF e
<1>9. /\ Good(e, D2, S, E, n) /\ e.replaying = d.replaying
      /\ \A x \in Range(e.pending) : x \in Range(d.pending) \/ x = s
      /\ e.seen = d.seen /\ e.confirmed = d.confirmed
      /\ e.canEdit = d.canEdit /\ SamePaper(d, e)
      /\ d.resend \/ ~d.canEdit => e.resend
  BY <1>2, <1>6, <1>8 DEF SameInk, SameLease, SamePaper
<1> QED BY <1>0, <1>9

Erase(d, s) == Publish([d EXCEPT !.erasing = @ \cup {s}])

LEMMA EraseFacts ==
    ASSUME NEW d, NEW D, NEW S, NEW E, NEW n, Good(d, D, S, E, n),
           NEW s \in d.strokes
    PROVE  LET e == Erase(d, s) IN
           /\ Good(e, D, S, E, n) /\ e.replaying = d.replaying
           /\ SameInk(d, e) /\ SameLease(d, e) /\ SamePaper(d, e)
<1> DEFINE X == d.erasing \cup {s}
           f == [d EXCEPT !.erasing = X]
           e == Publish(f)
<1>0. Erase(d, s) = e BY DEF Erase
<1>1. d \in Session BY DEF Good, Holds
<1>2. X \in SUBSET Strokes /\ X \subseteq D \cup S
  BY <1>1 DEF Session, Good, Holds
<1>3. IsFiniteSet(X) BY FS_AddElement DEF Good, Holds
<1> HIDE DEF X
<1>4. /\ f \in Session /\ f.lastSeq = d.lastSeq
      /\ f.neverSent = d.neverSent
      /\ f.strokes = d.strokes /\ f.erasing = X
      /\ f.replaying = d.replaying /\ f.paper = d.paper
      /\ SameInk(d, f) /\ SameLease(d, f) /\ SamePaper(d, f)
  BY <1>1, <1>2 DEF Session, SameInk, SameLease, SamePaper
<1> HIDE DEF f
<1>5. Holds(f, D, S, E, n)
  BY <1>2, <1>3, <1>4 DEF Good, Holds, SameInk, SameLease, SamePaper
<1>6. /\ Good(e, D, S, E, n) /\ e.replaying = f.replaying
      /\ SameInk(f, e) /\ SameLease(f, e) /\ SamePaper(f, e)
  BY <1>5, PublishFacts
<1> HIDE DEF e
<1>7. /\ Good(e, D, S, E, n) /\ e.replaying = d.replaying
      /\ SameInk(d, e) /\ SameLease(d, e) /\ SamePaper(d, e)
  BY <1>4, <1>6 DEF SameInk, SameLease, SamePaper
<1> QED BY <1>0, <1>7

\* A paper that is asked for is shown at once and awaits its answer.
Ask(d, p) == [d EXCEPT !.paper = p, !.pendingPaper = p]
Save(d, p) == [d EXCEPT !.saved = p]

LEMMA AskPaperFacts ==
    ASSUME NEW d, NEW D, NEW S, NEW E, NEW n, Good(d, D, S, E, n),
           NEW p \in Paper, SessionAssumption
    PROVE  /\ LET e == Save(d, p) IN
              /\ Good(e, D, S, E, n) /\ e.replaying = d.replaying
              /\ SameInk(d, e) /\ SameLease(d, e) /\ SamePaper(d, e)
           /\ LET e == Ask(d, p) IN
              /\ Good(e, D, S, E, n) /\ e.replaying = d.replaying
              /\ SameInk(d, e) /\ SameLease(d, e)
              /\ e.confirmedPaper = d.confirmedPaper /\ e.pendingPaper = p
<1> DEFINE f == Save(d, p)
           e == Ask(d, p)
<1>1. d \in Session BY DEF Good, Holds
<1>2. /\ f \in Session /\ f.lastSeq = d.lastSeq
      /\ f.neverSent = d.neverSent
      /\ f.strokes = d.strokes /\ f.erasing = d.erasing
      /\ f.replaying = d.replaying /\ f.paper = d.paper
      /\ SameInk(d, f) /\ SameLease(d, f) /\ SamePaper(d, f)
  BY <1>1 DEF Save, Session, SameInk, SameLease, SamePaper
<1>3. /\ e \in Session /\ e.lastSeq = d.lastSeq
      /\ e.neverSent = d.neverSent
      /\ e.strokes = d.strokes /\ e.erasing = d.erasing
      /\ e.replaying = d.replaying
      /\ SameInk(d, e) /\ SameLease(d, e)
      /\ e.confirmedPaper = d.confirmedPaper /\ e.pendingPaper = p
  BY <1>1 DEF Ask, Session, SameInk, SameLease
<1> HIDE DEF e, f
<1>4. Good(f, D, S, E, n)
  BY <1>2 DEF Good, Holds, Shows, SameInk, SameLease, SamePaper
<1>5. p # NoPaper BY DEF SessionAssumption
<1>6. Good(e, D, S, E, n)
  BY <1>3, <1>5 DEF Good, Holds, Shows, SameInk, SameLease
<1> QED BY <1>2, <1>3, <1>4, <1>6 DEF e, f

\* The session is told to stop, or that the lease is free.
Leave(d) == [d EXCEPT !.canEdit = FALSE]
Lose(d) == [d EXCEPT !.canEdit = FALSE, !.refused = TRUE]
Hope(d) == [d EXCEPT !.refused = FALSE]

LEMMA FlagFacts ==
    ASSUME NEW d, NEW D, NEW S, NEW E, NEW n, Good(d, D, S, E, n)
    PROVE  /\ LET e == Leave(d) IN
              /\ Good(e, D, S, E, n) /\ e.canEdit = FALSE
           /\ LET e == Lose(d) IN
              /\ Good(e, D, S, E, n) /\ e.replaying = d.replaying
              /\ SameInk(d, e) /\ SamePaper(d, e) /\ e.resend = d.resend
           /\ LET e == Hope(d) IN
              /\ Good(e, D, S, E, n) /\ e.replaying = d.replaying
              /\ SameInk(d, e) /\ SameLease(d, e) /\ SamePaper(d, e)
<1> DEFINE f == Leave(d)
           g == Lose(d)
           h == Hope(d)
<1>1. d \in Session BY DEF Good, Holds
<1>2. /\ f \in Session /\ f.lastSeq = d.lastSeq
      /\ f.neverSent = d.neverSent
      /\ f.strokes = d.strokes /\ f.erasing = d.erasing
      /\ f.replaying = d.replaying /\ f.paper = d.paper
      /\ SameInk(d, f) /\ SamePaper(d, f)
      /\ f.canEdit = FALSE /\ f.resend = d.resend
  BY <1>1 DEF Leave, Session, SameInk, SamePaper
<1>3. /\ g \in Session /\ g.lastSeq = d.lastSeq
      /\ g.neverSent = d.neverSent
      /\ g.strokes = d.strokes /\ g.erasing = d.erasing
      /\ g.replaying = d.replaying /\ g.paper = d.paper
      /\ SameInk(d, g) /\ SamePaper(d, g)
      /\ g.canEdit = FALSE /\ g.resend = d.resend
  BY <1>1 DEF Lose, Session, SameInk, SamePaper
<1>4. /\ h \in Session /\ h.lastSeq = d.lastSeq
      /\ h.neverSent = d.neverSent
      /\ h.strokes = d.strokes /\ h.erasing = d.erasing
      /\ h.replaying = d.replaying /\ h.paper = d.paper
      /\ SameInk(d, h) /\ SameLease(d, h) /\ SamePaper(d, h)
  BY <1>1 DEF Hope, Session, SameInk, SameLease, SamePaper
<1> HIDE DEF f, g, h
<1>5. Good(f, D, S, E, n) /\ Good(g, D, S, E, n)
  BY <1>2, <1>3 DEF Good, Holds, Shows, SameInk, SamePaper
<1>6. Good(h, D, S, E, n)
  BY <1>4 DEF Good, Holds, Shows, SameInk, SameLease, SamePaper
<1> QED BY <1>2, <1>3, <1>4, <1>5, <1>6 DEF f, g, h

-----------------------------------------------------------------------------
(* The messages.                                                           *)

Request(D, S, n) ==
    [type : {"subscribe"}, arg : 0 .. n]
    \cup [type : {"acquire-lease", "renew-lease"}, arg : {{}}]
    \cup [type : {"commit-batch"}, arg : {{s} : s \in D}]
    \cup [type : {"commit-tombstones"}, arg : SUBSET (D \cup S)]
    \cup [type : {"set-paper"}, arg : Paper]

Push(S, E, n) ==
    [type : {"lease-changed"}, arg : {"none", "me", "old", "other"},
     seq : {0}]
    \cup [type : {"stroke-batch"}, arg : S, seq : 1 .. n]
    \cup [type : {"tombstone-batch"}, arg : SUBSET E, seq : {0}]
    \cup [type : {"paper-changed"}, arg : Paper, seq : {0}]

\* Among the unread requests U, and among the broadcasts Q.
Waits(U) == \E m \in U : m.type = "subscribe"
CommitSent(U, s) == \E m \in U : m.type = "commit-batch" /\ m.arg = {s}
PaperSent(U, p) == \E m \in U : m.type = "set-paper" /\ m.arg = p
EchoComing(Q, s) == \E m \in Q : m.type = "stroke-batch" /\ m.arg = s
DeleteComing(Q, s) == \E m \in Q : m.type = "tombstone-batch" /\ s \in m.arg
PaperComing(Q, p) == \E m \in Q : m.type = "paper-changed" /\ m.arg = p
NoPaperComing(Q) == \A m \in Q : m.type # "paper-changed"

\* Behind the echo of an erased stroke waits its tombstone.
DeletesFollow(q, E) ==
    \A i \in DOMAIN q :
        q[i].type = "stroke-batch" /\ q[i].arg \in E =>
            \E j \in DOMAIN q : /\ j > i /\ q[j].type = "tombstone-batch"
                                /\ q[i].arg \in q[j].arg

\* The last paper announced is the page's paper p.
EndsWithPaper(q, p) ==
    \A i \in DOMAIN q :
        /\ q[i].type = "paper-changed"
        /\ \A j \in DOMAIN q : j > i => q[j].type # "paper-changed"
        => q[i].arg = p

LEMMA TailFacts ==
    ASSUME NEW T, NEW q \in Seq(T), q # <<>>
    PROVE  /\ Head(q) \in T /\ Tail(q) \in Seq(T) /\ Head(q) = q[1]
           /\ Len(q) \in Nat /\ Len(q) >= 1 /\ DOMAIN q = 1 .. Len(q)
           /\ DOMAIN Tail(q) = 1 .. Len(q) - 1 /\ Len(Tail(q)) = Len(q) - 1
           /\ \A i \in 1 .. Len(q) - 1 : Tail(q)[i] = q[i + 1]
           /\ Range(q) = {Head(q)} \cup Range(Tail(q))
<1>1. /\ Len(q) \in Nat /\ Len(q) >= 1 /\ DOMAIN q = 1 .. Len(q)
      /\ Head(q) = q[1] /\ Head(q) \in T /\ Tail(q) \in Seq(T)
      /\ DOMAIN Tail(q) = 1 .. Len(q) - 1 /\ Len(Tail(q)) = Len(q) - 1
  OBVIOUS
<1>2. \A i \in 1 .. Len(q) - 1 : Tail(q)[i] = q[i + 1]
  OBVIOUS
<1>3. ASSUME NEW x \in Range(q) PROVE x \in {Head(q)} \cup Range(Tail(q))
  <2>1. PICK i \in 1 .. Len(q) : q[i] = x BY <1>1 DEF Range
  <2>2. CASE i = 1 BY <1>1, <2>1, <2>2
  <2>3. CASE i # 1
    <3>1. i - 1 \in 1 .. Len(q) - 1 /\ (i - 1) + 1 = i BY <1>1, <2>3
    <3>2. Tail(q)[i - 1] = x BY <1>2, <2>1, <3>1
    <3> QED BY <1>1, <3>1, <3>2 DEF Range
  <2> QED BY <2>2, <2>3
<1>4. ASSUME NEW x \in {Head(q)} \cup Range(Tail(q)) PROVE x \in Range(q)
  <2>1. CASE x = Head(q) BY <1>1, <2>1 DEF Range
  <2>2. CASE x \in Range(Tail(q))
    <3>1. PICK i \in 1 .. Len(q) - 1 : Tail(q)[i] = x
      BY <1>1, <2>2 DEF Range
    <3>2. i + 1 \in 1 .. Len(q) /\ q[i + 1] = x BY <1>1, <1>2, <3>1
    <3> QED BY <1>1, <3>2 DEF Range
  <2> QED BY <2>1, <2>2
<1> QED BY <1>1, <1>2, <1>3, <1>4

LEMMA JoinFacts ==
    ASSUME NEW T, NEW q \in Seq(T), NEW r \in Seq(T)
    PROVE  /\ q \o r \in Seq(T) /\ Range(q \o r) = Range(q) \cup Range(r)
           /\ Len(q \o r) = Len(q) + Len(r)
           /\ q \o <<>> = q
  BY ConcatProperties, RangeConcatenation, ConcatEmptySeq

LEMMA OneFacts ==
    ASSUME NEW T, NEW m \in T
    PROVE  /\ <<m>> \in Seq(T) /\ Range(<<m>>) = {m} /\ Len(<<m>>) = 1
           /\ <<>> \in Seq(T) /\ Range(<<>>) = {}
  BY DEF Range

LEMMA AddFacts ==
    ASSUME NEW T, NEW q \in Seq(T), NEW m \in T
    PROVE  /\ Append(q, m) \in Seq(T) /\ q \o <<m>> = Append(q, m)
           /\ Len(Append(q, m)) = Len(q) + 1 /\ Len(q) \in Nat
           /\ DOMAIN q = 1 .. Len(q)
           /\ DOMAIN Append(q, m) = 1 .. Len(q) + 1
           /\ \A i \in 1 .. Len(q) : Append(q, m)[i] = q[i]
           /\ Append(q, m)[Len(q) + 1] = m
           /\ Range(Append(q, m)) = Range(q) \cup {m}
<1>1. /\ Append(q, m) \in Seq(T)
      /\ Len(Append(q, m)) = Len(q) + 1 /\ Len(q) \in Nat
      /\ DOMAIN q = 1 .. Len(q)
      /\ DOMAIN Append(q, m) = 1 .. Len(q) + 1
      /\ \A i \in 1 .. Len(q) : Append(q, m)[i] = q[i]
      /\ Append(q, m)[Len(q) + 1] = m
  OBVIOUS
<1>2. q \o <<m>> = Append(q, m)
  BY AppendIsConcat
<1>3. Range(q \o <<m>>) = Range(q) \cup {m}
  <2> DEFINE r == <<m>>
  <2>1. r \in Seq(T) /\ Range(r) = {m} BY OneFacts
  <2> HIDE DEF r
  <2>2. Range(q \o r) = Range(q) \cup {m} BY <2>1, RangeConcatenation
  <2> QED BY <2>2 DEF r
<1> QED BY <1>1, <1>2, <1>3

LEMMA RequestCases ==
    ASSUME NEW D, NEW S, NEW n, NEW m \in Request(D, S, n)
    PROVE  /\ m.type \in SendType
           /\ m.type = "subscribe" => m.arg \in 0 .. n
           /\ m.type = "commit-batch" => \E s \in D : m.arg = {s}
           /\ m.type = "commit-tombstones" => m.arg \subseteq D \cup S
           /\ m.type = "set-paper" => m.arg \in Paper
  BY DEF Request, SendType

LEMMA RequestOf ==
    ASSUME NEW D, NEW S, NEW n
    PROVE  /\ \A k \in 0 .. n : Send("subscribe", k) \in Request(D, S, n)
           /\ Lease("acquire-lease") \in Request(D, S, n)
           /\ Lease("renew-lease") \in Request(D, S, n)
           /\ \A s \in D : Send("commit-batch", {s}) \in Request(D, S, n)
           /\ \A s \in D \cup S :
                  Send("commit-tombstones", {s}) \in Request(D, S, n)
           /\ \A p \in Paper : Send("set-paper", p) \in Request(D, S, n)
  BY DEF Request, Send, Lease

LEMMA RequestsGrow ==
    ASSUME NEW D, NEW S, NEW n \in Nat, NEW D2, NEW S2, NEW n2 \in Nat,
           D \subseteq D2, S \subseteq S2, n <= n2
    PROVE  Request(D, S, n) \subseteq Request(D2, S2, n2)
<1>1. 0 .. n \subseteq 0 .. n2 OBVIOUS
<1>2. {{s} : s \in D} \subseteq {{s} : s \in D2} OBVIOUS
<1>3. SUBSET (D \cup S) \subseteq SUBSET (D2 \cup S2) OBVIOUS
<1> DEFINE A == 0 .. n  A2 == 0 .. n2
           B == {{s} : s \in D}  B2 == {{s} : s \in D2}
           C == SUBSET (D \cup S)  C2 == SUBSET (D2 \cup S2)
<1>4. A \subseteq A2 /\ B \subseteq B2 /\ C \subseteq C2 BY <1>1, <1>2, <1>3
<1>5. /\ Request(D, S, n) =
            [type : {"subscribe"}, arg : A]
            \cup [type : {"acquire-lease", "renew-lease"}, arg : {{}}]
            \cup [type : {"commit-batch"}, arg : B]
            \cup [type : {"commit-tombstones"}, arg : C]
            \cup [type : {"set-paper"}, arg : Paper]
      /\ Request(D2, S2, n2) =
            [type : {"subscribe"}, arg : A2]
            \cup [type : {"acquire-lease", "renew-lease"}, arg : {{}}]
            \cup [type : {"commit-batch"}, arg : B2]
            \cup [type : {"commit-tombstones"}, arg : C2]
            \cup [type : {"set-paper"}, arg : Paper]
  BY DEF Request
<1> HIDE DEF A, B, C, A2, B2, C2
<1> QED BY <1>4, <1>5

LEMMA PushCases ==
    ASSUME NEW S, NEW E, NEW n \in Nat, NEW m \in Push(S, E, n)
    PROVE  /\ m.type \in {"lease-changed", "stroke-batch",
                          "tombstone-batch", "paper-changed"}
           /\ m.type = "stroke-batch" =>
                  m.arg \in S /\ m.seq \in Nat /\ m.seq <= n
           /\ m.type = "tombstone-batch" => m.arg \subseteq E
           /\ m.type = "paper-changed" => m.arg \in Paper
           /\ m.type = "lease-changed" =>
                  m.arg \in {"none", "me", "old", "other"}
  BY DEF Push

LEMMA PushOf ==
    ASSUME NEW S, NEW E, NEW n
    PROVE  /\ \A w \in {"none", "me", "old", "other"} :
                  Changed(w) \in Push(S, E, n)
           /\ \A s \in S, k \in 1 .. n :
                  Broadcast("stroke-batch", s, k) \in Push(S, E, n)
           /\ \A X \in SUBSET E :
                  Broadcast("tombstone-batch", X, 0) \in Push(S, E, n)
           /\ \A p \in Paper :
                  Broadcast("paper-changed", p, 0) \in Push(S, E, n)
  BY DEF Push, Changed, Broadcast

LEMMA PushesGrow ==
    ASSUME NEW S, NEW E, NEW n \in Nat, NEW S2, NEW E2, NEW n2 \in Nat,
           S \subseteq S2, E \subseteq E2, n <= n2
    PROVE  Push(S, E, n) \subseteq Push(S2, E2, n2)
<1> DEFINE A == 1 .. n  A2 == 1 .. n2
           C == SUBSET E  C2 == SUBSET E2
<1>1. A \subseteq A2 OBVIOUS
<1>2. C \subseteq C2 OBVIOUS
<1>3. /\ Push(S, E, n) =
            [type : {"lease-changed"},
             arg : {"none", "me", "old", "other"}, seq : {0}]
            \cup [type : {"stroke-batch"}, arg : S, seq : A]
            \cup [type : {"tombstone-batch"}, arg : C, seq : {0}]
            \cup [type : {"paper-changed"}, arg : Paper, seq : {0}]
      /\ Push(S2, E2, n2) =
            [type : {"lease-changed"},
             arg : {"none", "me", "old", "other"}, seq : {0}]
            \cup [type : {"stroke-batch"}, arg : S2, seq : A2]
            \cup [type : {"tombstone-batch"}, arg : C2, seq : {0}]
            \cup [type : {"paper-changed"}, arg : Paper, seq : {0}]
  BY DEF Push
<1> HIDE DEF A, C, A2, C2
<1> QED BY <1>1, <1>2, <1>3

LEMMA GoodGrows ==
    ASSUME NEW d, NEW D, NEW S, NEW E, NEW n \in Nat, Good(d, D, S, E, n),
           NEW D2, NEW S2, NEW E2, NEW n2 \in Nat,
           D \subseteq D2, S \subseteq S2, E \subseteq E2, n <= n2
    PROVE  Good(d, D2, S2, E2, n2)
<1>1. d.lastSeq \in Nat BY DEF Good, Holds, Session
<1>2. d.lastSeq <= n BY DEF Good, Holds
<1>3. d.lastSeq <= n2 BY <1>1, <1>2
<1> QED BY <1>3 DEF Good, Holds

\* A request that is erased strokes only, in any order, is well formed.
LEMMA InSomeOrderFacts ==
    ASSUME NEW X, IsFiniteSet(X)
    PROVE  InSomeOrder(X) \in Seq(X)
<1> DEFINE N == Cardinality(X)
<1>1. N \in Nat /\ ExistsBijection(1 .. N, X) BY FS_CardinalityType
<1> HIDE DEF N
<1>2. \E q \in [1 .. N -> X] : IsInjective(q)
  BY <1>1 DEF ExistsBijection, Bijection, Injection
<1>3. InSomeOrder(X) \in [1 .. N -> X] BY <1>2 DEF InSomeOrder, N
<1> QED BY <1>1, <1>3

\* resendPending sends every pending batch; all it sends is well formed.
LEMMA ResendsFacts ==
    ASSUME NEW d, NEW D, NEW S, NEW E, NEW n, Good(d, D, S, E, n)
    PROVE  /\ ResendsOf(d) \in Seq(Request(D, S, n))
           /\ d.resend => \A s \in Range(d.pending) :
                              CommitSent(Range(ResendsOf(d)), s)
<1> DEFINE R == Request(D, S, n)
           q == [i \in DOMAIN d.pending |->
                    Send("commit-batch", {d.pending[i]})]
           X == {Send("commit-tombstones", {s}) : s \in d.erasing}
           r == InSomeOrder(X)
<1>1. CASE ~d.resend
  <2>1. ResendsOf(d) = <<>> BY <1>1 DEF ResendsOf
  <2> QED BY <1>1, <2>1
<1>2. CASE d.resend
  <2>1. d.pending \in Seq(Mine) /\ Range(d.pending) \subseteq D
        /\ IsFiniteSet(d.erasing) /\ d.erasing \subseteq D \cup S
    BY DEF Good, Holds, Session
  <2>2. q \in Seq(R)
    <3>1. \A i \in DOMAIN d.pending : d.pending[i] \in D
      BY <2>1 DEF Range
    <3>2. \A i \in DOMAIN d.pending :
              Send("commit-batch", {d.pending[i]}) \in R
      BY <3>1, RequestOf
    <3>3. DOMAIN d.pending = 1 .. Len(d.pending) /\ Len(d.pending) \in Nat
      BY <2>1
    <3>4. q \in [1 .. Len(d.pending) -> R]
      <4> HIDE DEF R
      <4> QED BY <3>2, <3>3
    <3> HIDE DEF q, R
    <3> QED BY <3>3, <3>4
  <2>3. \A s \in Range(d.pending) : CommitSent(Range(q), s)
    <3> SUFFICES ASSUME NEW i \in DOMAIN d.pending
                 PROVE  CommitSent(Range(q), d.pending[i])
      BY DEF Range
    <3>1. Send("commit-batch", {d.pending[i]}) \in Range(q) BY DEF Range
    <3>2. /\ Send("commit-batch", {d.pending[i]}).type = "commit-batch"
          /\ Send("commit-batch", {d.pending[i]}).arg = {d.pending[i]}
      BY DEF Send
    <3> HIDE DEF q
    <3> QED BY <3>1, <3>2 DEF CommitSent
  <2>4. r \in Seq(R)
    <3>1. X \subseteq R BY <2>1, RequestOf
    <3>2. IsFiniteSet(X)
      <4> DEFINE f == [s \in d.erasing |-> Send("commit-tombstones", {s})]
      <4>1. f \in Surjection(d.erasing, X) BY DEF Surjection
      <4> HIDE DEF f, X
      <4> QED BY <2>1, <4>1, FS_Surjection
    <3> HIDE DEF X, R
    <3>3. r \in Seq(X) BY <3>2, InSomeOrderFacts
    <3> HIDE DEF r
    <3> QED BY <3>1, <3>3, SeqMonotonic
  <2>5. ResendsOf(d) = q \o r BY <1>2 DEF ResendsOf
  <2> HIDE DEF q, r, R
  <2>6. q \o r \in Seq(R) /\ Range(q \o r) = Range(q) \cup Range(r)
    BY <2>2, <2>4, JoinFacts
  <2> QED BY <2>3, <2>5, <2>6 DEF CommitSent, R
<1> QED BY <1>1, <1>2

LEMMA DeletesFollowTail ==
    ASSUME NEW T, NEW q \in Seq(T), q # <<>>, NEW E, DeletesFollow(q, E)
    PROVE  /\ DeletesFollow(Tail(q), E)
           /\ Head(q).type = "stroke-batch" /\ Head(q).arg \in E =>
                  DeleteComing(Range(Tail(q)), Head(q).arg)
<1> DEFINE t == Tail(q)
<1>1. /\ Len(q) \in Nat /\ Len(q) >= 1 /\ DOMAIN q = 1 .. Len(q)
      /\ Head(q) = q[1] /\ DOMAIN t = 1 .. Len(q) - 1
      /\ \A i \in 1 .. Len(q) - 1 : t[i] = q[i + 1]
  BY TailFacts
<1> HIDE DEF t
<1>2. ASSUME NEW i \in 1 .. Len(q), NEW j \in 1 .. Len(q), j > i
      PROVE  j - 1 \in DOMAIN t /\ t[j - 1] = q[j] /\ j - 1 \in Int
  <2>1. j - 1 \in 1 .. Len(q) - 1 /\ (j - 1) + 1 = j /\ j - 1 \in Int
    BY <1>1, <1>2
  <2> QED BY <1>1, <2>1
<1>3. DeletesFollow(t, E)
  <2> SUFFICES ASSUME NEW i \in DOMAIN t, t[i].type = "stroke-batch",
                      t[i].arg \in E
               PROVE  \E j \in DOMAIN t : /\ j > i
                                          /\ t[j].type = "tombstone-batch"
                                          /\ t[i].arg \in t[j].arg
    BY DEF DeletesFollow
  <2>1. i + 1 \in 1 .. Len(q) /\ t[i] = q[i + 1] /\ i \in Int BY <1>1
  <2>2. PICK j \in 1 .. Len(q) : /\ j > i + 1
                                 /\ q[j].type = "tombstone-batch"
                                 /\ q[i + 1].arg \in q[j].arg
    BY <1>1, <2>1 DEF DeletesFollow
  <2>3. j - 1 > i BY <2>1, <2>2
  <2> QED BY <1>2, <2>1, <2>2, <2>3
<1>4. ASSUME Head(q).type = "stroke-batch", Head(q).arg \in E
      PROVE  DeleteComing(Range(t), Head(q).arg)
  <2>1. 1 \in 1 .. Len(q) BY <1>1
  <2>2. PICK j \in 1 .. Len(q) : /\ j > 1
                                 /\ q[j].type = "tombstone-batch"
                                 /\ q[1].arg \in q[j].arg
    BY <1>1, <1>4, <2>1 DEF DeletesFollow
  <2> QED BY <1>1, <1>2, <2>1, <2>2 DEF DeleteComing, Range
<1> QED BY <1>3, <1>4 DEF t

LEMMA DeletesFollowAdd ==
    ASSUME NEW T, NEW q \in Seq(T), NEW m \in T,
           NEW E, NEW E2, DeletesFollow(q, E),
           m.type = "stroke-batch" => m.arg \notin E2,
           \A s \in E2 : s \in E \/ (m.type = "tombstone-batch"
                                      /\ s \in m.arg)
    PROVE  DeletesFollow(Append(q, m), E2)
<1> DEFINE w == Append(q, m)
<1>1. /\ Len(q) \in Nat /\ DOMAIN q = 1 .. Len(q)
      /\ DOMAIN w = 1 .. Len(q) + 1
      /\ \A i \in 1 .. Len(q) : w[i] = q[i]
      /\ w[Len(q) + 1] = m
  BY AddFacts
<1> HIDE DEF w
<1> SUFFICES ASSUME NEW i \in DOMAIN w, w[i].type = "stroke-batch",
                    w[i].arg \in E2
             PROVE  \E j \in DOMAIN w : /\ j > i
                                        /\ w[j].type = "tombstone-batch"
                                        /\ w[i].arg \in w[j].arg
  BY DEF DeletesFollow, w
<1>2. i \in 1 .. Len(q) /\ w[i] = q[i] /\ Len(q) + 1 > i
      /\ Len(q) + 1 \in DOMAIN w
  <2>1. i # Len(q) + 1 BY <1>1
  <2> QED BY <1>1, <2>1
<1>3. CASE w[i].arg \in E
  <2>1. PICK j \in 1 .. Len(q) : /\ j > i
                                 /\ q[j].type = "tombstone-batch"
                                 /\ q[i].arg \in q[j].arg
    BY <1>1, <1>2, <1>3 DEF DeletesFollow
  <2>2. j \in DOMAIN w /\ w[j] = q[j] BY <1>1
  <2> QED BY <1>2, <2>1, <2>2
<1>4. CASE w[i].arg \notin E
  BY <1>1, <1>2, <1>4
<1> QED BY <1>3, <1>4

LEMMA EndsWithPaperTail ==
    ASSUME NEW T, NEW q \in Seq(T), q # <<>>, NEW p, EndsWithPaper(q, p)
    PROVE  /\ EndsWithPaper(Tail(q), p)
           /\ Head(q).type = "paper-changed" /\ NoPaperComing(Range(Tail(q)))
                => Head(q).arg = p
<1> DEFINE t == Tail(q)
<1>1. /\ Len(q) \in Nat /\ Len(q) >= 1 /\ DOMAIN q = 1 .. Len(q)
      /\ Head(q) = q[1] /\ DOMAIN t = 1 .. Len(q) - 1
      /\ \A i \in 1 .. Len(q) - 1 : t[i] = q[i + 1]
  BY TailFacts
<1> HIDE DEF t
<1>2. ASSUME NEW i \in 1 .. Len(q), NEW j \in 1 .. Len(q), j > i
      PROVE  j - 1 \in DOMAIN t /\ t[j - 1] = q[j] /\ j - 1 \in Int
  <2>1. j - 1 \in 1 .. Len(q) - 1 /\ (j - 1) + 1 = j /\ j - 1 \in Int
    BY <1>1, <1>2
  <2> QED BY <1>1, <2>1
<1>3. EndsWithPaper(t, p)
  <2> SUFFICES ASSUME NEW i \in DOMAIN t, t[i].type = "paper-changed",
                      \A j \in DOMAIN t : j > i =>
                          t[j].type # "paper-changed"
               PROVE  t[i].arg = p
    BY DEF EndsWithPaper
  <2>1. i + 1 \in 1 .. Len(q) /\ t[i] = q[i + 1] /\ i \in Int BY <1>1
  <2>2. ASSUME NEW j \in 1 .. Len(q), j > i + 1
        PROVE  q[j].type # "paper-changed"
    <3>1. j - 1 > i BY <2>1, <2>2
    <3> QED BY <1>2, <2>1, <2>2, <3>1
  <2> QED BY <1>1, <2>1, <2>2 DEF EndsWithPaper
<1>4. ASSUME Head(q).type = "paper-changed", NoPaperComing(Range(t))
      PROVE  Head(q).arg = p
  <2>1. 1 \in 1 .. Len(q) BY <1>1
  <2>2. ASSUME NEW j \in 1 .. Len(q), j > 1
        PROVE  q[j].type # "paper-changed"
    BY <1>2, <1>4, <2>1, <2>2 DEF NoPaperComing, Range
  <2> QED BY <1>1, <1>4, <2>1, <2>2 DEF EndsWithPaper
<1> QED BY <1>3, <1>4 DEF t

LEMMA EndsWithPaperAdd ==
    ASSUME NEW T, NEW q \in Seq(T), NEW m \in T,
           NEW p, NEW p2, EndsWithPaper(q, p),
           IF m.type = "paper-changed" THEN m.arg = p2 ELSE p2 = p
    PROVE  EndsWithPaper(Append(q, m), p2)
<1> DEFINE w == Append(q, m)
<1>1. /\ Len(q) \in Nat /\ DOMAIN q = 1 .. Len(q)
      /\ DOMAIN w = 1 .. Len(q) + 1
      /\ \A i \in 1 .. Len(q) : w[i] = q[i]
      /\ w[Len(q) + 1] = m
  BY AddFacts
<1> HIDE DEF w
<1> SUFFICES ASSUME NEW i \in DOMAIN w, w[i].type = "paper-changed",
                    \A j \in DOMAIN w : j > i => w[j].type # "paper-changed"
             PROVE  w[i].arg = p2
  BY DEF EndsWithPaper, w
<1>2. CASE i = Len(q) + 1 BY <1>1, <1>2
<1>3. CASE i # Len(q) + 1
  <2>1. i \in 1 .. Len(q) /\ w[i] = q[i] /\ Len(q) + 1 > i
        /\ Len(q) + 1 \in DOMAIN w
    BY <1>1, <1>3
  <2>2. m.type # "paper-changed" BY <1>1, <2>1
  <2>3. \A j \in 1 .. Len(q) : j \in DOMAIN w BY <1>1
  <2>4. \A j \in DOMAIN q : j > i => q[j].type # "paper-changed"
    BY <1>1, <2>3
  <2> QED BY <1>1, <2>1, <2>2, <2>4 DEF EndsWithPaper
<1> QED BY <1>2, <1>3

\* One broadcast more, for a connection that is there.
\* A broadcast m that turns the erased strokes E and the paper p into E2
\* and p2.
Tells(m, E, E2, p, p2) ==
    /\ m.type = "stroke-batch" => m.arg \notin E2
    /\ \A s \in E2 : s \in E \/ (m.type = "tombstone-batch" /\ s \in m.arg)
    /\ IF m.type = "paper-changed" THEN m.arg = p2 ELSE p2 = p

LEMMA PublishOne ==
    ASSUME NEW T, NEW T2, T \subseteq T2, NEW q \in Seq(T), NEW m \in T2,
           NEW q2, q2 = q \o <<m>> \/ (q = <<>> /\ q2 = <<>>),
           MaxQueue \in Nat, Len(q) + Len(<<m>>) <= MaxQueue,
           NEW E, NEW E2, NEW p, NEW p2, Tells(m, E, E2, p, p2),
           DeletesFollow(q, E), EndsWithPaper(q, p)
    PROVE  /\ q2 \in Seq(T2) /\ Len(q2) <= MaxQueue
           /\ Range(q) \subseteq Range(q2)
           /\ q2 = q \o <<m>> => m \in Range(q2)
           /\ DeletesFollow(q2, E2) /\ EndsWithPaper(q2, p2)
<1>1. q \in Seq(T2) BY SeqMonotonic
<1>2. /\ Append(q, m) \in Seq(T2) /\ q \o <<m>> = Append(q, m)
      /\ Len(Append(q, m)) = Len(q) + 1 /\ Len(q) \in Nat
      /\ Range(Append(q, m)) = Range(q) \cup {m}
  BY <1>1, AddFacts
<1>3. CASE q2 = q \o <<m>>
  <2>1. q2 = Append(q, m) BY <1>2, <1>3
  <2>2. DeletesFollow(q2, E2)
    <3>1. /\ m.type = "stroke-batch" => m.arg \notin E2
          /\ \A s \in E2 : s \in E \/ (m.type = "tombstone-batch"
                                         /\ s \in m.arg)
      BY DEF Tells
    <3>2. DeletesFollow(Append(q, m), E2)
      BY <1>1, <3>1, DeletesFollowAdd, Zenon
    <3> QED BY <2>1, <3>2
  <2>3. EndsWithPaper(q2, p2) BY <1>1, <2>1, EndsWithPaperAdd DEF Tells
  <2>4. Len(<<m>>) = 1 OBVIOUS
  <2> QED BY <1>2, <2>1, <2>2, <2>3, <2>4
<1>4. CASE q = <<>> /\ q2 = <<>> /\ q2 # q \o <<m>>
  <2>1. DOMAIN q2 = {} /\ Len(q2) = 0 BY <1>4
  <2> QED BY <1>1, <1>4, <2>1 DEF DeletesFollow, EndsWithPaper
<1> QED BY <1>3, <1>4

-----------------------------------------------------------------------------
(* The inductive invariant.                                                *)

Connected == conn \in {"welcoming", "open"}
Requests == Request(drawn, Stored, Len(log))
Pushes == Push(Stored, erased, Len(log))

ServerOK ==
    /\ log \in Seq(Strokes) /\ IsInjective(log)
    /\ drawn \subseteq Mine /\ Stored \cap Mine \subseteq drawn
    /\ erased \subseteq drawn \cup Stored
    /\ paper \in Paper
    /\ holder \in {"none", "me", "old", "other"}
    /\ replayed \in {"none", "whole", "gap"}

ChannelOK ==
    /\ conn \in {"offline", "no_token", "welcoming", "open", "closed"}
    /\ up \in Seq(Requests)
    /\ old \in [alive : BOOLEAN, up : Seq(Requests)]
    /\ queue \in Seq(Pushes) /\ Len(queue) <= MaxQueue
    /\ conn # "open" => up = <<>> /\ ~c.canEdit
    /\ ~Connected => queue = <<>>
    /\ conn = "welcoming" => replayed = "none"
    /\ DeletesFollow(queue, erased) /\ EndsWithPaper(queue, paper)

SessionOK ==
    /\ Good(c, drawn, Stored, erased, Len(log))
    /\ conn \in {"offline", "welcoming"} /\ Range(c.pending) # {} => c.resend

\* Pending ink will be resent, is on its way to the server, or its echo is
\* on its way back; if it is erased, the session is about to be told.
InkComes(d, U, Q, E) ==
    \A s \in Range(d.pending) :
        /\ d.resend \/ CommitSent(U, s) \/ EchoComing(Q, s) \/ s \in E
        /\ s \in E => Waits(U) \/ DeleteComing(Q, s)

\* After a replay r the session knows the stored strokes S and the erased
\* ones E, but for what is on its way.
Caught(d, S, E, Q, r) ==
    /\ r = "whole" => \A s \in S : s \in d.seen \/ EchoComing(Q, s)
    /\ r # "none" => /\ d.replaying = FALSE
                     /\ \A s \in d.confirmed \cap E : DeleteComing(Q, s)

\* The session knows the paper p, or is about to be told; a paper it asked
\* for is on its way to the server or back.
PaperComes(d, p, U, Q) ==
    /\ NoPaperComing(Q) => d.confirmedPaper = p
    /\ d.pendingPaper # NoPaper => \/ PaperSent(U, d.pendingPaper)
                                   \/ PaperComing(Q, d.pendingPaper)

InSync(d, S, E, p, U, Q, r) ==
    InkComes(d, U, Q, E) /\ Caught(d, S, E, Q, r) /\ PaperComes(d, p, U, Q)

IInv ==
    /\ ServerOK /\ ChannelOK /\ SessionOK
    /\ conn = "open" =>
           InSync(c, Stored, erased, paper, Range(up), Range(queue), replayed)

\* The server has read the request m, or none that matters here, and has
\* announced what it changed.
Announced(S, E, p, U, Q, S2, E2, p2, U2, Q2, m) ==
    /\ Q \subseteq Q2 /\ U \subseteq U2 \cup {m} /\ m.type # "subscribe"
    /\ E \subseteq E2
    /\ \A s \in S2 : s \in S \/ EchoComing(Q2, s)
    /\ \A s \in E2 : s \in E \/ DeleteComing(Q2, s)
    /\ \A s : m.type = "commit-batch" /\ m.arg = {s} =>
                  s \in E2 \/ EchoComing(Q2, s)
    /\ m.type = "set-paper" => PaperComing(Q2, m.arg)
    /\ p2 = p \/ PaperComing(Q2, p2)

LEMMA ServerStepInSync ==
    ASSUME NEW d, NEW S, NEW E, NEW p, NEW U, NEW Q, NEW r,
           InSync(d, S, E, p, U, Q, r),
           NEW S2, NEW E2, NEW p2, NEW U2, NEW Q2, NEW m,
           Announced(S, E, p, U, Q, S2, E2, p2, U2, Q2, m)
    PROVE  InSync(d, S2, E2, p2, U2, Q2, r)
<1>1. InkComes(d, U2, Q2, E2)
  <2> SUFFICES ASSUME NEW s \in Range(d.pending)
               PROVE  /\ \/ d.resend \/ CommitSent(U2, s)
                         \/ EchoComing(Q2, s) \/ s \in E2
                      /\ s \in E2 => Waits(U2) \/ DeleteComing(Q2, s)
    BY DEF InkComes
  <2>1. /\ d.resend \/ CommitSent(U, s) \/ EchoComing(Q, s) \/ s \in E
        /\ s \in E => Waits(U) \/ DeleteComing(Q, s)
    BY DEF InSync, InkComes
  <2>2. CommitSent(U, s) =>
            CommitSent(U2, s) \/ s \in E2 \/ EchoComing(Q2, s)
    BY DEF CommitSent, Announced
  <2>3. EchoComing(Q, s) => EchoComing(Q2, s) BY DEF EchoComing, Announced
  <2>4. DeleteComing(Q, s) => DeleteComing(Q2, s)
    BY DEF DeleteComing, Announced
  <2>5. Waits(U) => Waits(U2) BY DEF Waits, Announced
  <2> QED BY <2>1, <2>2, <2>3, <2>4, <2>5 DEF Announced
<1>2. Caught(d, S2, E2, Q2, r)
  <2>1. \A s : EchoComing(Q, s) => EchoComing(Q2, s)
    BY DEF EchoComing, Announced
  <2>2. \A s : DeleteComing(Q, s) => DeleteComing(Q2, s)
    BY DEF DeleteComing, Announced
  <2> QED BY <2>1, <2>2 DEF InSync, Caught, Announced
<1>3. PaperComes(d, p2, U2, Q2)
  <2>1. NoPaperComing(Q2) => d.confirmedPaper = p2
    BY DEF InSync, PaperComes, NoPaperComing, PaperComing, Announced
  <2>2. \A x : PaperSent(U, x) => PaperSent(U2, x) \/ PaperComing(Q2, x)
    BY DEF PaperSent, Announced
  <2>3. \A x : PaperComing(Q, x) => PaperComing(Q2, x)
    BY DEF PaperComing, Announced
  <2> QED BY <2>1, <2>2, <2>3 DEF InSync, PaperComes
<1> QED BY <1>1, <1>2, <1>3 DEF InSync

\* Typing follows the log, the drawn and the erased strokes as they grow.
LEMMA TypesGrow ==
    ASSUME NEW D, NEW S, NEW E, NEW n \in Nat, NEW D2, NEW S2, NEW E2,
           NEW n2 \in Nat,
           D \subseteq D2, S \subseteq S2, E \subseteq E2, n <= n2
    PROVE  /\ Seq(Request(D, S, n)) \subseteq Seq(Request(D2, S2, n2))
           /\ Seq(Push(S, E, n)) \subseteq Seq(Push(S2, E2, n2))
<1> DEFINE A == Request(D, S, n)  A2 == Request(D2, S2, n2)
           B == Push(S, E, n)  B2 == Push(S2, E2, n2)
<1>1. A \subseteq A2 BY RequestsGrow
<1>2. B \subseteq B2 BY PushesGrow
<1> HIDE DEF A, A2, B, B2
<1>3. Seq(A) \subseteq Seq(A2) /\ Seq(B) \subseteq Seq(B2)
  BY <1>1, <1>2, SeqMonotonic
<1> QED BY <1>3 DEF A, A2, B, B2

LEMMA Init_IInv ==
    Init /\ SessionAssumption => IInv
<1> SUFFICES ASSUME Init, SessionAssumption PROVE IInv OBVIOUS
<1>1. /\ Range(<<>>) = {} /\ IsInjective(<<>>) /\ Len(<<>>) = 0
      /\ IsFiniteSet({})
  BY FS_EmptySet DEF Range, IsInjective
<1>2. /\ c \in Session /\ c.pending = <<>> /\ c.neverSent = {}
      /\ c.erasing = {} /\ c.seen = {} /\ c.confirmed = {}
      /\ c.strokes = {} /\ c.lastSeq = 0 /\ c.canEdit = FALSE
      /\ c.resend = FALSE /\ c.replaying = FALSE
      /\ c.paper = FirstPaper /\ c.confirmedPaper = FirstPaper
  BY DEF Init, Session, SessionAssumption
<1>3. Good(c, drawn, Stored, erased, Len(log))
  BY <1>1, <1>2 DEF Good, Holds, Shows, Init, Stored
<1>4. SessionOK BY <1>1, <1>2, <1>3 DEF SessionOK
<1>5. ServerOK BY <1>1 DEF ServerOK, Init, Stored, SessionAssumption
<1>6. ChannelOK
  BY <1>1, <1>2
  DEF ChannelOK, Init, FreeSocket, Connected, SessionAssumption, DeletesFollow,
      EndsWithPaper
<1> QED BY <1>4, <1>5, <1>6 DEF IInv, Init

LEMMA IInvFacts ==
    ASSUME IInv
    PROVE  /\ Len(log) \in Nat /\ Stored \subseteq Strokes
           /\ c \in Session /\ c.pending \in Seq(Mine)
           /\ Range(c.pending) \subseteq drawn /\ drawn \subseteq Mine
           /\ erased \subseteq Strokes
           /\ c.erasing \subseteq drawn \cup Stored
           /\ c.strokes \subseteq drawn \cup Stored
<1>1. log \in Seq(Strokes) BY DEF IInv, ServerOK
<1>2. Len(log) \in Nat /\ Stored \subseteq Strokes
  BY <1>1, RangeOfSeq DEF Stored
<1> QED
  BY <1>2 DEF IInv, ServerOK, SessionOK, Good, Holds, Session, Strokes

LEMMA TypesCarry ==
    ASSUME IInv, NEW D2, NEW S2, NEW E2, NEW n2 \in Nat,
           drawn \subseteq D2, Stored \subseteq S2, erased \subseteq E2,
           Len(log) <= n2
    PROVE  /\ up \in Seq(Request(D2, S2, n2))
           /\ old \in [alive : BOOLEAN, up : Seq(Request(D2, S2, n2))]
           /\ queue \in Seq(Push(S2, E2, n2))
           /\ Good(c, D2, S2, E2, n2)
           /\ Requests \subseteq Request(D2, S2, n2)
           /\ Pushes \subseteq Push(S2, E2, n2)
<1>1. /\ up \in Seq(Request(drawn, Stored, Len(log)))
      /\ old \in [alive : BOOLEAN,
                  up : Seq(Request(drawn, Stored, Len(log)))]
      /\ queue \in Seq(Push(Stored, erased, Len(log)))
      /\ Good(c, drawn, Stored, erased, Len(log))
  BY DEF IInv, ChannelOK, SessionOK, Requests, Pushes
<1>2. Len(log) \in Nat BY IInvFacts
<1>3. /\ up \in Seq(Request(D2, S2, n2))
      /\ old \in [alive : BOOLEAN, up : Seq(Request(D2, S2, n2))]
      /\ queue \in Seq(Push(S2, E2, n2))
  <2> DEFINE A == Seq(Request(drawn, Stored, Len(log)))
             A2 == Seq(Request(D2, S2, n2))
             B == Seq(Push(Stored, erased, Len(log)))
             B2 == Seq(Push(S2, E2, n2))
  <2>1. A \subseteq A2 /\ B \subseteq B2
    <3>1. /\ Seq(Request(drawn, Stored, Len(log)))
               \subseteq Seq(Request(D2, S2, n2))
          /\ Seq(Push(Stored, erased, Len(log)))
               \subseteq Seq(Push(S2, E2, n2))
      <4> HIDE DEF A, A2, B, B2
      <4> QED BY ONLY <1>2, TypesGrow, n2 \in Nat, drawn \subseteq D2,
                      Stored \subseteq S2, erased \subseteq E2,
                      Len(log) <= n2, ZenonT(60)
    <3> QED BY <3>1
  <2>2. up \in A /\ old \in [alive : BOOLEAN, up : A] /\ queue \in B
    BY <1>1
  <2> HIDE DEF A, A2, B, B2
  <2>3. up \in A2 /\ old \in [alive : BOOLEAN, up : A2] /\ queue \in B2
    BY <2>1, <2>2
  <2> QED BY <2>3 DEF A2, B2
<1>4. Good(c, D2, S2, E2, n2) BY <1>1, <1>2, GoodGrows, ZenonT(60)
<1>5. /\ Requests \subseteq Request(D2, S2, n2)
      /\ Pushes \subseteq Push(S2, E2, n2)
  BY <1>2, RequestsGrow, PushesGrow, ZenonT(60) DEF Requests, Pushes
<1> QED BY <1>3, <1>4, <1>5

LEMMA IInv_TypeOK ==
    IInv => TypeOK
<1> SUFFICES ASSUME IInv PROVE TypeOK OBVIOUS
<1>1. \A q \in Seq(Requests) : \A m \in Range(q) : m.type \in SendType
  <2> SUFFICES ASSUME NEW q \in Seq(Requests), NEW m \in Range(q)
               PROVE  m.type \in SendType
    OBVIOUS
  <2>1. m \in Requests BY RangeOfSeq
  <2> QED BY <2>1, RequestCases DEF Requests
<1>2. \A m \in Range(up) \cup Range(old.up) : m.type \in SendType
  BY <1>1 DEF IInv, ChannelOK
<1>3. /\ c \in Session /\ IsInjective(c.pending)
      /\ c.neverSent \subseteq Range(c.pending) /\ c.lastSeq <= Len(log)
  BY DEF IInv, SessionOK, Good, Holds
<1> QED BY <1>2, <1>3, IInvFacts DEF TypeOK, IInv, ServerOK, ChannelOK

LEMMA IInv_NoInkIsStuck ==
    IInv => NoInkIsStuck
<1> SUFFICES ASSUME IInv, Quiet, c.canEdit PROVE c.pending = <<>>
  BY DEF NoInkIsStuck
<1>1. Range(up) = {} /\ Range(queue) = {} /\ conn = "open"
  BY DEF Quiet, Range
<1>2. InkComes(c, {}, {}, erased)
  BY <1>1 DEF IInv, InSync
<1>3. ~c.resend BY DEF IInv, SessionOK, Good, Holds
<1>4. Range(c.pending) = {}
  BY <1>2, <1>3 DEF InkComes, CommitSent, EchoComing, Waits, DeleteComing
<1> QED BY <1>4, IInvFacts, EmptyRange

LEMMA IInv_ScreenMatchesPage ==
    IInv => ScreenMatchesPage
<1> SUFFICES ASSUME IInv, Quiet, replayed = "whole"
             PROVE  /\ ~c.replaying
                    /\ c.strokes
                         = (Visible \cup Range(c.pending)) \ c.erasing
                    /\ c.paper = paper /\ c.pendingPaper = NoPaper
  BY DEF ScreenMatchesPage
<1>1. Range(up) = {} /\ Range(queue) = {} /\ conn = "open"
  BY DEF Quiet, Range
<1>2. InSync(c, Stored, erased, paper, {}, {}, "whole")
  BY <1>1 DEF IInv
<1>3. /\ Stored \subseteq c.seen /\ c.replaying = FALSE
      /\ c.confirmed \cap erased = {}
  BY <1>2 DEF InSync, Caught, EchoComing, DeleteComing
<1>4. /\ c.confirmed \subseteq c.seen /\ c.seen \subseteq Stored
      /\ c.seen \ c.confirmed \subseteq erased /\ Shows(c)
      /\ c.pendingPaper = NoPaper => c.paper = c.confirmedPaper
  BY DEF IInv, SessionOK, Good, Holds
<1>5. c.confirmed = Visible BY <1>3, <1>4 DEF Visible
<1>6. c.strokes = (Visible \cup Range(c.pending)) \ c.erasing
  BY <1>3, <1>4, <1>5 DEF Shows
<1>7. c.confirmedPaper = paper /\ c.pendingPaper = NoPaper
  BY <1>2 DEF InSync, PaperComes, PaperSent, PaperComing, NoPaperComing
<1> QED BY <1>3, <1>4, <1>6, <1>7

-----------------------------------------------------------------------------
(* The user's steps.                                                       *)

LEMMA IInv_commitStroke ==
    ASSUME IInv, SessionAssumption, NEW s \in Mine, commitStroke(s)
    PROVE  IInv'
<1> DEFINE m == Send("commit-batch", {s})
           D2 == drawn \cup {s}
<1>1. /\ conn # "closed" /\ s \notin drawn /\ drawn' = D2
      /\ UNCHANGED <<log, erased, paper, holder, old, conn, queue, replayed>>
  BY DEF commitStroke, serverVars
<1>2. /\ Stored' = Stored /\ Len(log)' = Len(log) /\ Connected' = Connected
      /\ Pushes' = Pushes /\ Requests' = Request(D2, Stored, Len(log))
  BY <1>1 DEF Stored, Connected, Pushes, Requests
<1>3. Len(log) \in Nat BY IInvFacts
<1>4. ServerOK'
  BY <1>1, <1>2 DEF IInv, ServerOK
<1>5. /\ up \in Seq(Requests')
      /\ old' \in [alive : BOOLEAN, up : Seq(Requests')]
      /\ Good(c, D2, Stored, erased, Len(log))
  <2>1. drawn \subseteq D2 /\ Len(log) <= Len(log) BY <1>3
  <2> QED BY <1>1, <1>2, <1>3, <2>1, TypesCarry
<1>6. Good(c, D2, Stored, erased, Len(log)) BY <1>5
<1>7. CASE c.refused
  <2>1. c' = c /\ up' = up BY <1>7 DEF commitStroke
  <2>2. SessionOK' BY <1>1, <1>2, <1>6, <2>1 DEF IInv, SessionOK
  <2>3. ChannelOK' BY <1>1, <1>2, <1>5, <2>1 DEF IInv, ChannelOK
  <2> QED BY <1>1, <1>2, <1>4, <2>1, <2>2, <2>3 DEF IInv
<1>8. CASE ~c.refused
  <2> DEFINE e == Draw(c, s)
  <2>1. c' = e /\ up' = IF c.canEdit THEN Append(up, m) ELSE up
    BY <1>8 DEF commitStroke, Draw
  <2>2. s \notin c.seen /\ s \notin erased
    BY <1>1, SessionAssumption
    DEF IInv, ServerOK, SessionOK, Good, Holds, SessionAssumption, Stored,
        Strokes
  <2>3. /\ Good(e, D2, Stored, erased, Len(log))
        /\ e.replaying = c.replaying
        /\ \A x \in Range(e.pending) : x \in Range(c.pending) \/ x = s
        /\ e.seen = c.seen /\ e.confirmed = c.confirmed
        /\ e.canEdit = c.canEdit /\ SamePaper(c, e)
        /\ c.resend \/ ~c.canEdit => e.resend
    <3>1. Good(c, drawn, Stored, erased, Len(log)) BY DEF IInv, SessionOK
    <3>2. s \notin drawn BY <1>1
    <3>3. drawn \subseteq D2 /\ s \in D2 OBVIOUS
    <3> HIDE DEF D2
    <3> QED BY <2>2, <3>1, <3>2, <3>3, DrawFacts
  <2> HIDE DEF e
  <2>4. m \in Requests' /\ m.type = "commit-batch" /\ m.arg = {s}
    BY <1>2, RequestOf DEF Send
  <2>5. c.canEdit => conn = "open" BY DEF IInv, ChannelOK
  <2> HIDE DEF m
  <2>6. /\ up' \in Seq(Requests') /\ Range(up) \subseteq Range(up')
        /\ c.canEdit => m \in Range(up')
        /\ conn # "open" => up' = <<>>
    <3>1. CASE c.canEdit
      <4>1. /\ Append(up, m) \in Seq(Requests')
            /\ Range(Append(up, m)) = Range(up) \cup {m}
        BY <1>5, <2>4, AddFacts
      <4> QED BY <2>1, <2>5, <3>1, <4>1
    <3>2. CASE ~c.canEdit
      BY <1>5, <2>1, <3>2 DEF IInv, ChannelOK
    <3> QED BY <3>1, <3>2
  <2>7. SessionOK'
    BY <1>1, <1>2, <2>1, <2>3, <2>5 DEF IInv, SessionOK
  <2>8. ChannelOK'
    BY <1>1, <1>2, <1>5, <2>1, <2>3, <2>6 DEF IInv, ChannelOK
  <2>9. ASSUME conn = "open"
        PROVE  InSync(e, Stored, erased, paper, Range(up'), Range(queue),
                      replayed)
    <3>1. InSync(c, Stored, erased, paper, Range(up), Range(queue),
                 replayed)
      BY <2>9 DEF IInv
    <3>2. InkComes(e, Range(up'), Range(queue), erased)
      BY <2>2, <2>3, <2>4, <2>6, <3>1 DEF InSync, InkComes, CommitSent, Waits
    <3>3. Caught(e, Stored, erased, Range(queue), replayed)
      BY <2>3, <3>1 DEF InSync, Caught
    <3>4. PaperComes(e, paper, Range(up'), Range(queue))
      BY <2>3, <2>6, <3>1 DEF InSync, PaperComes, PaperSent, SamePaper
    <3> QED BY <3>2, <3>3, <3>4 DEF InSync
  <2> QED BY <1>1, <1>2, <1>4, <2>1, <2>7, <2>8, <2>9 DEF IInv
<1> QED BY <1>7, <1>8

\* A step of the open session that leaves the page alone.
LEMMA OpenStep ==
    ASSUME IInv, conn = "open", conn' = conn,
           UNCHANGED <<log, erased, paper, drawn>>,
           holder' \in {"none", "me", "old", "other"},
           replayed' \in {"none", "whole", "gap"},
           up' \in Seq(Requests),
           old' \in [alive : BOOLEAN, up : Seq(Requests)],
           queue' \in Seq(Pushes), Len(queue') <= MaxQueue,
           DeletesFollow(queue', erased), EndsWithPaper(queue', paper),
           Good(c', drawn, Stored, erased, Len(log)),
           InSync(c', Stored, erased, paper, Range(up'), Range(queue'),
                  replayed')
    PROVE  IInv'
<1>1. /\ Stored' = Stored /\ Len(log)' = Len(log) /\ Connected' = Connected
      /\ Pushes' = Pushes /\ Requests' = Requests /\ Connected
  BY DEF Stored, Connected, Pushes, Requests
<1>2. ServerOK' BY <1>1 DEF IInv, ServerOK
<1>3. ChannelOK' BY <1>1 DEF IInv, ChannelOK
<1>4. SessionOK' BY <1>1 DEF SessionOK
<1> QED BY <1>1, <1>2, <1>3, <1>4 DEF IInv

\* A step of the server, or of the other editor, that the session hears of
\* by a broadcast or not at all; m is the request it has read, if any.
LEMMA ServerStep ==
    ASSUME IInv, NEW m, UNCHANGED <<c, conn, replayed, drawn>>,
           log' \in Seq(Strokes), IsInjective(log'),
           Stored \subseteq Stored', Len(log) <= Len(log'),
           Stored' \cap Mine \subseteq drawn,
           erased \subseteq erased', erased' \subseteq drawn \cup Stored',
           paper' \in Paper, holder' \in {"none", "me", "old", "other"},
           up' \in Seq(Requests), conn # "open" => up' = <<>>,
           old' \in [alive : BOOLEAN, up : Seq(Requests)],
           queue' \in Seq(Pushes'), Len(queue') <= MaxQueue,
           ~Connected => queue' = <<>>,
           DeletesFollow(queue', erased'), EndsWithPaper(queue', paper'),
           conn = "open" =>
               Announced(Stored, erased, paper, Range(up), Range(queue),
                         Stored', erased', paper', Range(up'),
                         Range(queue'), m)
    PROVE  IInv'
<1>1. Connected' = Connected BY DEF Connected
<1>2. Len(log') \in Nat BY RangeOfSeq
<1>3. /\ Requests \subseteq Requests'
      /\ Good(c, drawn, Stored', erased', Len(log'))
  <2>1. drawn \subseteq drawn OBVIOUS
  <2> DEFINE S2 == Stored'  E2 == erased'  n2 == Len(log')
  <2>2. n2 \in Nat /\ Stored \subseteq S2 /\ erased \subseteq E2
        /\ Len(log) <= n2
    BY <1>2
  <2>3. Requests' = Request(drawn, S2, n2) BY DEF Requests
  <2> HIDE DEF S2, E2, n2
  <2>4. /\ Requests \subseteq Request(drawn, S2, n2)
        /\ Good(c, drawn, S2, E2, n2)
    BY <2>1, <2>2, TypesCarry
  <2> QED BY <2>3, <2>4 DEF S2, E2, n2
<1>4. up' \in Seq(Requests') /\ old' \in [alive : BOOLEAN, up : Seq(Requests')]
  <2> DEFINE A == Seq(Requests)  A2 == Seq(Requests')
  <2>1. A \subseteq A2 BY <1>3, SeqMonotonic
  <2>2. up' \in A /\ old' \in [alive : BOOLEAN, up : A] OBVIOUS
  <2> HIDE DEF A, A2
  <2>3. up' \in A2 /\ old' \in [alive : BOOLEAN, up : A2] BY <2>1, <2>2
  <2> QED BY <2>3 DEF A2
<1>5. ServerOK' BY DEF IInv, ServerOK
<1>6. ChannelOK' BY <1>1, <1>4 DEF IInv, ChannelOK
<1>7. SessionOK' BY <1>3 DEF IInv, SessionOK
<1>8. ASSUME conn = "open"
      PROVE  InSync(c, Stored', erased', paper', Range(up'), Range(queue'),
                    replayed)
  <2>1. InSync(c, Stored, erased, paper, Range(up), Range(queue), replayed)
    BY <1>8 DEF IInv
  <2> DEFINE S2 == Stored'  E2 == erased'  p2 == paper'  U2 == Range(up')
             Q2 == Range(queue')
  <2>2. Announced(Stored, erased, paper, Range(up), Range(queue),
                  S2, E2, p2, U2, Q2, m)
    BY <1>8
  <2> HIDE DEF S2, E2, p2, U2, Q2
  <2>3. InSync(c, S2, E2, p2, U2, Q2, replayed)
    BY <2>1, <2>2, ServerStepInSync
  <2> QED BY <2>3 DEF S2, E2, p2, U2, Q2
<1> QED BY <1>5, <1>6, <1>7, <1>8 DEF IInv

LEMMA IInv_setPaper ==
    ASSUME IInv, SessionAssumption, NEW p \in Paper, setPaper(p)
    PROVE  IInv'
<1> DEFINE m == Send("set-paper", p)
<1>1. /\ c.canEdit
      /\ UNCHANGED <<log, erased, paper, holder, old, conn, queue, replayed,
                     drawn>>
  BY DEF setPaper, serverVars
<1>2. conn = "open" BY <1>1 DEF IInv, ChannelOK
<1>3. /\ Good(c, drawn, Stored, erased, Len(log))
      /\ InSync(c, Stored, erased, paper, Range(up), Range(queue), replayed)
  BY <1>2 DEF IInv, SessionOK
<1>4. CASE p = c.paper
  <2>1. c' = Save(c, p) /\ up' = up BY <1>4 DEF setPaper, Save
  <2>2. /\ Good(c', drawn, Stored, erased, Len(log))
        /\ c'.replaying = c.replaying
        /\ SameInk(c, c') /\ SameLease(c, c') /\ SamePaper(c, c')
    BY <1>3, <2>1, AskPaperFacts
  <2>3. InSync(c', Stored, erased, paper, Range(up), Range(queue), replayed)
    BY <1>3, <2>2
    DEF InSync, InkComes, Caught, PaperComes, SameInk, SameLease, SamePaper
  <2> QED
    BY <1>1, <1>2, <2>1, <2>2, <2>3, OpenStep DEF IInv, ServerOK, ChannelOK
<1>5. CASE p # c.paper
  <2>1. c' = Ask(c, p) /\ up' = Append(up, m) BY <1>5 DEF setPaper, Ask
  <2>2. m \in Requests /\ m.type = "set-paper" /\ m.arg = p
    BY RequestOf DEF Requests, Send
  <2> HIDE DEF m
  <2>3. up' \in Seq(Requests) /\ Range(up') = Range(up) \cup {m}
    BY <2>1, <2>2, AddFacts DEF IInv, ChannelOK
  <2>4. /\ Good(c', drawn, Stored, erased, Len(log))
        /\ c'.replaying = c.replaying
        /\ SameInk(c, c') /\ SameLease(c, c')
        /\ c'.confirmedPaper = c.confirmedPaper /\ c'.pendingPaper = p
    BY <1>3, <2>1, AskPaperFacts
  <2>5. InkComes(c', Range(up'), Range(queue), erased)
    BY <1>3, <2>3, <2>4
    DEF InSync, InkComes, CommitSent, Waits, SameInk, SameLease
  <2>6. Caught(c', Stored, erased, Range(queue), replayed)
    BY <1>3, <2>4 DEF InSync, Caught, SameInk
  <2>7. PaperComes(c', paper, Range(up'), Range(queue))
    BY <1>3, <2>2, <2>3, <2>4 DEF InSync, PaperComes, PaperSent
  <2> QED
    BY <1>1, <1>2, <2>3, <2>4, <2>5, <2>6, <2>7, OpenStep
    DEF IInv, ServerOK, ChannelOK, InSync
<1> QED BY <1>4, <1>5

\* A request more leaves the session in sync.
LEMMA SendsInSync ==
    ASSUME NEW d, NEW S, NEW E, NEW p, NEW U, NEW Q, NEW r,
           InSync(d, S, E, p, U, Q, r), NEW U2, U \subseteq U2,
           NEW e, SameInk(d, e), SameLease(d, e), SamePaper(d, e),
           e.replaying = d.replaying
    PROVE  InSync(e, S, E, p, U2, Q, r)
<1>1. InkComes(e, U2, Q, E)
  BY DEF InSync, InkComes, CommitSent, Waits, SameInk, SameLease
<1>2. Caught(e, S, E, Q, r) BY DEF InSync, Caught, SameInk
<1>3. PaperComes(e, p, U2, Q)
  BY DEF InSync, PaperComes, PaperSent, SamePaper
<1> QED BY <1>1, <1>2, <1>3 DEF InSync

LEMMA IInv_eraseStrokes ==
    ASSUME IInv, NEW s \in Strokes, eraseStrokes(s)
    PROVE  IInv'
<1> DEFINE m == Send("commit-tombstones", {s})
<1>1. /\ c.canEdit /\ s \in c.strokes
      /\ UNCHANGED <<log, erased, paper, holder, old, conn, queue, replayed,
                     drawn>>
      /\ c' = Erase(c, s) /\ up' = Append(up, m)
  BY DEF eraseStrokes, serverVars, Erase
<1>2. conn = "open" BY <1>1 DEF IInv, ChannelOK
<1>3. /\ Good(c, drawn, Stored, erased, Len(log))
      /\ InSync(c, Stored, erased, paper, Range(up), Range(queue), replayed)
  BY <1>2 DEF IInv, SessionOK
<1>4. m \in Requests
  <2>1. s \in drawn \cup Stored BY <1>1, IInvFacts
  <2> QED BY <2>1, RequestOf DEF Requests
<1> HIDE DEF m
<1>5. up' \in Seq(Requests) /\ Range(up') = Range(up) \cup {m}
  BY <1>1, <1>4, AddFacts DEF IInv, ChannelOK
<1>6. /\ Good(c', drawn, Stored, erased, Len(log))
      /\ c'.replaying = c.replaying
      /\ SameInk(c, c') /\ SameLease(c, c') /\ SamePaper(c, c')
  BY <1>1, <1>3, EraseFacts
<1>7. InSync(c', Stored, erased, paper, Range(up'), Range(queue), replayed)
  <2>1. Range(up) \subseteq Range(up') BY <1>5
  <2> QED BY <1>3, <1>6, <2>1, SendsInSync
<1> QED
  BY <1>1, <1>2, <1>5, <1>6, <1>7, OpenStep DEF IInv, ServerOK, ChannelOK

LEMMA IInv_renewLease ==
    ASSUME IInv, renewLease
    PROVE  IInv'
<1> DEFINE m == Lease("renew-lease")
<1>1. /\ c.canEdit
      /\ UNCHANGED <<log, erased, paper, holder, old, conn, queue, replayed,
                     drawn>>
      /\ c' = c /\ up' = Append(up, m)
  BY DEF renewLease, serverVars
<1>2. conn = "open" BY <1>1 DEF IInv, ChannelOK
<1>3. /\ Good(c, drawn, Stored, erased, Len(log))
      /\ InSync(c, Stored, erased, paper, Range(up), Range(queue), replayed)
  BY <1>2 DEF IInv, SessionOK
<1>4. m \in Requests BY RequestOf DEF Requests
<1> HIDE DEF m
<1>5. up' \in Seq(Requests) /\ Range(up') = Range(up) \cup {m}
  BY <1>1, <1>4, AddFacts DEF IInv, ChannelOK
<1>6. InSync(c, Stored, erased, paper, Range(up'), Range(queue), replayed)
  <2>1. Range(up) \subseteq Range(up') BY <1>5
  <2>2. SameInk(c, c) /\ SameLease(c, c) /\ SamePaper(c, c)
    BY DEF SameInk, SameLease, SamePaper
  <2> QED BY <1>3, <2>1, <2>2, SendsInSync
<1> QED
  BY <1>1, <1>2, <1>3, <1>5, <1>6, OpenStep DEF IInv, ServerOK, ChannelOK

-----------------------------------------------------------------------------
(* The socket's steps.                                                     *)

\* The page is left alone, and the connection is not open afterwards.
LEMMA ClosedStep ==
    ASSUME IInv, UNCHANGED <<log, erased, paper, drawn>>,
           conn' \in {"offline", "no_token", "welcoming", "closed"},
           holder' \in {"none", "me", "old", "other"},
           replayed' \in {"none", "whole", "gap"},
           conn' = "welcoming" => replayed' = "none",
           up' = <<>>, queue' = <<>>, MaxQueue \in Nat,
           old' \in [alive : BOOLEAN, up : Seq(Requests)],
           Good(c', drawn, Stored, erased, Len(log)), ~c'.canEdit,
           conn' \in {"offline", "welcoming"} /\ Range(c'.pending) # {}
               => c'.resend
    PROVE  IInv'
<1>1. /\ Stored' = Stored /\ Len(log)' = Len(log)
      /\ Pushes' = Pushes /\ Requests' = Requests
  BY DEF Stored, Pushes, Requests
<1>2. ServerOK' BY <1>1 DEF IInv, ServerOK
<1>3. /\ DeletesFollow(queue', erased) /\ EndsWithPaper(queue', paper)
      /\ up' \in Seq(Requests) /\ queue' \in Seq(Pushes)
      /\ Len(queue') <= MaxQueue
  BY DEF DeletesFollow, EndsWithPaper
<1>4. ChannelOK' BY <1>1, <1>3 DEF IInv, ChannelOK
<1>5. SessionOK' BY <1>1 DEF SessionOK
<1> QED BY <1>1, <1>2, <1>4, <1>5 DEF IInv

LEMMA IInv_disconnect ==
    ASSUME IInv, SessionAssumption, disconnect
    PROVE  IInv'
<1>1. c' = Leave(c) BY DEF disconnect, Leave
<1>2. Good(c, drawn, Stored, erased, Len(log)) BY DEF IInv, SessionOK
<1>3. Good(c', drawn, Stored, erased, Len(log)) /\ c'.canEdit = FALSE
  BY <1>1, <1>2, FlagFacts
<1>4. MaxQueue \in Nat BY DEF SessionAssumption
<1>5. /\ UNCHANGED <<log, erased, paper, drawn>>
      /\ conn' \in {"offline", "no_token", "welcoming", "closed"}
      /\ conn' \notin {"offline", "welcoming"}
      /\ holder' \in {"none", "me", "old", "other"}
      /\ replayed' \in {"none", "whole", "gap"}
      /\ up' = <<>> /\ queue' = <<>>
      /\ old' \in [alive : BOOLEAN, up : Seq(Requests)]
  BY DEF disconnect, IInv, ServerOK, ChannelOK
<1> QED BY <1>3, <1>4, <1>5, ClosedStep

LEMMA IInv_open ==
    ASSUME IInv, SessionAssumption, open
    PROVE  IInv'
<1>1. MaxQueue \in Nat BY DEF SessionAssumption
<1>2. /\ UNCHANGED <<log, erased, paper, drawn>>
      /\ conn' \in {"offline", "no_token", "welcoming", "closed"}
      /\ holder' \in {"none", "me", "old", "other"}
      /\ replayed' = "none"
      /\ up' = <<>> /\ queue' = <<>>
      /\ old' \in [alive : BOOLEAN, up : Seq(Requests)]
      /\ c' = c /\ ~c.canEdit
      /\ Range(c.pending) # {} => c.resend
      /\ Good(c, drawn, Stored, erased, Len(log))
  BY DEF open, serverVars, IInv, ServerOK, ChannelOK, SessionOK
<1> QED BY <1>1, <1>2, ClosedStep

LEMMA IInv_open_without_token ==
    ASSUME IInv, SessionAssumption, open_without_token
    PROVE  IInv'
<1>1. MaxQueue \in Nat BY DEF SessionAssumption
<1>2. /\ UNCHANGED <<log, erased, paper, drawn>>
      /\ conn' = "no_token"
      /\ holder' \in {"none", "me", "old", "other"}
      /\ replayed' \in {"none", "whole", "gap"}
      /\ up' = <<>> /\ queue' = <<>>
      /\ old' \in [alive : BOOLEAN, up : Seq(Requests)]
      /\ c' = c /\ ~c.canEdit
      /\ Good(c, drawn, Stored, erased, Len(log))
  BY DEF open_without_token, serverVars, IInv, ServerOK, ChannelOK, SessionOK,
         Connected
<1> QED BY <1>1, <1>2, ClosedStep

LEMMA IInv_lose_socket ==
    ASSUME IInv, SessionAssumption, NEW lingers \in BOOLEAN,
           lose_socket(lingers)
    PROVE  IInv'
<1>1. MaxQueue \in Nat BY DEF SessionAssumption
<1>2. /\ UNCHANGED <<log, erased, paper, drawn>>
      /\ conn' = "offline"
      /\ holder' \in {"none", "me", "old", "other"}
      /\ replayed' \in {"none", "whole", "gap"}
      /\ up' = <<>> /\ queue' = <<>>
      /\ c' = handleDisconnected(c)
      /\ Good(c, drawn, Stored, erased, Len(log))
  BY DEF lose_socket, IInv, ServerOK, SessionOK
<1>3. old' \in [alive : BOOLEAN, up : Seq(Requests)]
  BY DEF lose_socket, FreeSocket, IInv, ChannelOK
<1>4. /\ Good(c', drawn, Stored, erased, Len(log))
      /\ c'.canEdit = FALSE /\ (Range(c'.pending) # {} => c'.resend)
  BY <1>2, DisconnectedFacts
<1> QED BY <1>1, <1>2, <1>3, <1>4, ClosedStep

LEMMA IInv_welcome ==
    ASSUME IInv, welcome
    PROVE  IInv'
<1> DEFINE free == holder = "none"
           ask == IF free THEN <<Lease("acquire-lease")>> ELSE <<>>
           m == Send("subscribe", c.lastSeq)
<1>1. /\ conn = "welcoming" /\ conn' = "open"
      /\ c' = onWelcome(c, paper, free) /\ up' = <<m>> \o ask
      /\ UNCHANGED <<log, erased, paper, holder, old, queue, replayed, drawn>>
  BY DEF welcome, serverVars
<1>2. /\ Good(c, drawn, Stored, erased, Len(log)) /\ paper \in Paper
      /\ Range(c.pending) # {} => c.resend
      /\ ~c.canEdit /\ replayed = "none"
  BY <1>1 DEF IInv, ServerOK, ChannelOK, SessionOK
<1>4. /\ Good(c', drawn, Stored, erased, Len(log))
      /\ Range(c'.pending) # {} => c'.resend
      /\ c'.confirmedPaper = paper /\ c'.pendingPaper = NoPaper
  <2>1. c' = BeginFree(c, paper) \/ c' = refuseLease(Begin(c, paper))
    BY <1>1 DEF onWelcome, BeginFree, Begin
  <2> QED BY <1>2, <2>1, OnWelcomeFacts
<1>5. m \in Requests /\ m.type = "subscribe"
  <2>1. c.lastSeq \in 0 .. Len(log)
    BY <1>2, IInvFacts DEF Good, Holds, Session
  <2> QED BY <2>1, RequestOf DEF Requests, Send
<1>6. ask \in Seq(Requests)
  <2>1. Lease("acquire-lease") \in Requests BY RequestOf DEF Requests
  <2> QED BY <2>1, OneFacts
<1> HIDE DEF m, ask
<1>7. up' \in Seq(Requests) /\ m \in Range(up')
  <2>1. <<m>> \in Seq(Requests) /\ Range(<<m>>) = {m} BY <1>5, OneFacts
  <2> DEFINE r == <<m>>
  <2>2. r \in Seq(Requests) /\ Range(r) = {m} /\ up' = r \o ask
    BY <1>1, <2>1
  <2> HIDE DEF r
  <2> QED BY <1>6, <2>2, JoinFacts
<1>8. /\ Stored' = Stored /\ Len(log)' = Len(log) /\ Connected'
      /\ Pushes' = Pushes /\ Requests' = Requests
  BY <1>1 DEF Stored, Connected, Pushes, Requests
<1>9. ServerOK' BY <1>1, <1>8 DEF IInv, ServerOK
<1>10. ChannelOK' BY <1>1, <1>7, <1>8 DEF IInv, ChannelOK
<1>11. SessionOK' BY <1>1, <1>4, <1>8 DEF SessionOK
<1>12. InSync(c', Stored, erased, paper, Range(up'), Range(queue), "none")
  <2>1. InkComes(c', Range(up'), Range(queue), erased)
    BY <1>4, <1>5, <1>7 DEF InkComes, Waits
  <2> QED BY <1>4, <2>1 DEF InSync, Caught, PaperComes
<1> QED BY <1>1, <1>2, <1>8, <1>9, <1>10, <1>11, <1>12 DEF IInv

-----------------------------------------------------------------------------
(* The server's steps.                                                     *)

LEMMA BroadcastFacts ==
    ASSUME IInv, SessionAssumption, conn' = conn,
           Stored \subseteq Stored', erased \subseteq erased',
           Len(log') \in Nat, Len(log) <= Len(log'),
           NEW m, m \in Pushes', publish_page(<<m>>),
           Tells(m, erased, erased', paper, paper')
    PROVE  /\ queue' \in Seq(Pushes') /\ Len(queue') <= MaxQueue
           /\ ~Connected => queue' = <<>>
           /\ Range(queue) \subseteq Range(queue')
           /\ conn = "open" => m \in Range(queue')
           /\ DeletesFollow(queue', erased') /\ EndsWithPaper(queue', paper')
<1> DEFINE T2 == Pushes'  q2 == queue'  E2 == erased'  p2 == paper'
           S2 == Stored'  n2 == Len(log')
<1>1. Pushes \subseteq T2
  <2>1. T2 = Push(S2, E2, n2) BY DEF Pushes
  <2>2. /\ n2 \in Nat /\ Len(log) <= n2
        /\ drawn \subseteq drawn /\ Stored \subseteq S2 /\ erased \subseteq E2
    OBVIOUS
  <2> HIDE DEF T2, S2, E2, n2
  <2>3. Pushes \subseteq Push(S2, E2, n2) BY <2>2, TypesCarry
  <2> QED BY <2>1, <2>3
<1>2. /\ queue \in Seq(Pushes)
      /\ DeletesFollow(queue, erased) /\ EndsWithPaper(queue, paper)
      /\ ~Connected => queue = <<>>
  BY DEF IInv, ChannelOK
<1>3. /\ IF Connected THEN q2 = queue \o <<m>> ELSE q2 = queue
      /\ Len(queue) + Len(<<m>>) <= MaxQueue
  BY DEF publish_page, Connected
<1>4. MaxQueue \in Nat BY DEF SessionAssumption
<1>5. /\ m \in T2 /\ Tells(m, erased, E2, paper, p2)
      /\ q2 = queue \o <<m>> \/ (queue = <<>> /\ q2 = <<>>)
  BY <1>2, <1>3
<1> HIDE DEF T2, q2, E2, p2
<1>6. /\ q2 \in Seq(T2) /\ Len(q2) <= MaxQueue
      /\ Range(queue) \subseteq Range(q2)
      /\ q2 = queue \o <<m>> => m \in Range(q2)
      /\ DeletesFollow(q2, E2) /\ EndsWithPaper(q2, p2)
  BY <1>1, <1>2, <1>3, <1>4, <1>5, PublishOne
<1>7. ~Connected => q2 = <<>> BY <1>2, <1>3
<1>8. conn = "open" => m \in Range(q2) BY <1>3, <1>6 DEF Connected
<1> QED BY <1>6, <1>7, <1>8 DEF T2, q2, E2, p2

LEMMA PublishNone ==
    ASSUME IInv, publish_page(<<>>)
    PROVE  queue' = queue
<1>1. queue \in Seq(Pushes) BY DEF IInv, ChannelOK
<1>2. queue \o <<>> = queue BY <1>1, ConcatEmptySeq
<1> QED BY <1>2 DEF publish_page

\* The lease changes hands or a message of the lost socket is done with;
\* the session is told of the lease or of nothing.
LEMMA LeaseStep ==
    ASSUME IInv, SessionAssumption,
           UNCHANGED <<log, erased, paper, conn, up, replayed, c, drawn>>,
           holder' \in {"none", "me", "old", "other"},
           old' \in [alive : BOOLEAN, up : Seq(Requests)],
           NEW who \in {"none", "me", "old", "other"},
           queue' = queue \/ publish_page(<<Changed(who)>>)
    PROVE  IInv'
<1>1. /\ Stored' = Stored /\ Len(log') = Len(log) /\ Pushes' = Pushes
      /\ Len(log) \in Nat /\ Len(log) <= Len(log)
  BY IInvFacts DEF Stored, Pushes
<1>2. /\ queue' \in Seq(Pushes') /\ Len(queue') <= MaxQueue
      /\ ~Connected => queue' = <<>>
      /\ Range(queue) \subseteq Range(queue')
      /\ DeletesFollow(queue', erased') /\ EndsWithPaper(queue', paper')
  <2>1. CASE queue' = queue
    BY <1>1, <2>1 DEF IInv, ChannelOK
  <2>2. CASE publish_page(<<Changed(who)>>)
    <3> DEFINE m == Changed(who)
    <3>1. m \in Pushes' BY <1>1, PushOf DEF Pushes
    <3>2. Tells(m, erased, erased', paper, paper') BY DEF Tells, Changed
    <3>3. publish_page(<<m>>) BY <2>2
    <3>4. /\ Stored \subseteq Stored' /\ erased \subseteq erased'
          /\ Len(log') \in Nat /\ Len(log) <= Len(log') /\ conn' = conn
      BY <1>1
    <3> HIDE DEF m
    <3> QED BY <3>1, <3>2, <3>3, <3>4, BroadcastFacts
  <2> QED BY <2>1, <2>2
<1> DEFINE r == Lease("renew-lease")
<1>3. r.type = "renew-lease" BY DEF Lease, Send
<1> HIDE DEF r
<1>4. Announced(Stored, erased, paper, Range(up), Range(queue), Stored',
                erased', paper', Range(up'), Range(queue'), r)
  BY <1>1, <1>2, <1>3 DEF Announced
<1>5. /\ log' \in Seq(Strokes) /\ IsInjective(log')
      /\ Stored \subseteq Stored' /\ Len(log) <= Len(log')
      /\ Stored' \cap Mine \subseteq drawn
      /\ erased \subseteq erased' /\ erased' \subseteq drawn \cup Stored'
      /\ paper' \in Paper
      /\ up' \in Seq(Requests) /\ (conn # "open" => up' = <<>>)
  BY <1>1 DEF IInv, ServerOK, ChannelOK
<1> QED BY <1>2, <1>4, <1>5, ServerStep

LEMMA IInv_notice_lost ==
    ASSUME IInv, SessionAssumption, notice_lost
    PROVE  IInv'
<1>1. /\ UNCHANGED <<log, erased, paper, conn, up, replayed, c, drawn>>
      /\ holder' \in {"none", "me", "old", "other"}
      /\ old' \in [alive : BOOLEAN, up : Seq(Requests)]
  BY DEF notice_lost, FreeSocket, IInv, ServerOK
<1>2. queue' = queue \/ publish_page(<<Changed("none")>>)
  BY PublishNone DEF notice_lost
<1> QED BY <1>1, <1>2, LeaseStep

LEMMA IInv_expire ==
    ASSUME IInv, SessionAssumption, expire
    PROVE  IInv'
<1>1. /\ UNCHANGED <<log, erased, paper, conn, up, replayed, c, drawn>>
      /\ holder' \in {"none", "me", "old", "other"}
      /\ old' \in [alive : BOOLEAN, up : Seq(Requests)]
      /\ queue' = queue
  BY DEF expire, IInv, ChannelOK
<1> QED BY <1>1, LeaseStep

LEMMA IInv_other_takes ==
    ASSUME IInv, SessionAssumption, NEW announced \in BOOLEAN,
           other_takes(announced)
    PROVE  IInv'
<1>1. /\ UNCHANGED <<log, erased, paper, conn, up, replayed, c, drawn>>
      /\ holder' \in {"none", "me", "old", "other"}
      /\ old' \in [alive : BOOLEAN, up : Seq(Requests)]
  BY DEF other_takes, OtherUnchanged, IInv, ChannelOK
<1>2. queue' = queue \/ publish_page(<<Changed("other")>>)
  <2>1. CASE announced BY <2>1 DEF other_takes
  <2>2. CASE ~announced
    <3>1. publish_page(<<>>) BY <2>2 DEF other_takes
    <3> QED BY <3>1, PublishNone
  <2> QED BY <2>1, <2>2
<1> QED BY <1>1, <1>2, LeaseStep

LEMMA IInv_other_releases ==
    ASSUME IInv, SessionAssumption, other_releases
    PROVE  IInv'
<1>1. /\ UNCHANGED <<log, erased, paper, conn, up, replayed, c, drawn>>
      /\ holder' \in {"none", "me", "old", "other"}
      /\ old' \in [alive : BOOLEAN, up : Seq(Requests)]
      /\ publish_page(<<Changed("none")>>)
  BY DEF other_releases, OtherUnchanged, IInv, ChannelOK
<1> QED BY <1>1, LeaseStep

\* A request read from the socket of w, which is this client's or lost.
Read(w) == Head(Unread(w))

LEMMA ReadFacts ==
    ASSUME IInv, NEW w \in {"me", "old"}, Unread(w) # <<>>
    PROVE  /\ Read(w) \in Requests
           /\ w = "me" => /\ conn = "open" /\ Tail(up) \in Seq(Requests)
                          /\ Range(up) = {Read(w)} \cup Range(Tail(up))
           /\ w = "old" => [old EXCEPT !.up = Tail(@)]
                             \in [alive : BOOLEAN, up : Seq(Requests)]
<1>1. /\ up \in Seq(Requests)
      /\ old \in [alive : BOOLEAN, up : Seq(Requests)]
      /\ conn # "open" => up = <<>>
  BY DEF IInv, ChannelOK
<1>2. CASE w = "me"
  <2>1. up # <<>> /\ Read(w) = Head(up) BY <1>2 DEF Unread, Read
  <2> QED BY <1>1, <1>2, <2>1, TailFacts
<1>3. CASE w = "old"
  <2>1. old.up # <<>> /\ Read(w) = Head(old.up) BY <1>3 DEF Unread, Read
  <2>2. Head(old.up) \in Requests /\ Tail(old.up) \in Seq(Requests)
    BY <1>1, <2>1, TailFacts
  <2> DEFINE A == Seq(Requests)
  <2>3. old \in [alive : BOOLEAN, up : A] /\ Tail(old.up) \in A
    BY <1>1, <2>2
  <2> HIDE DEF A
  <2>4. [old EXCEPT !.up = Tail(@)] \in [alive : BOOLEAN, up : A] BY <2>3
  <2> QED BY <1>3, <2>1, <2>2, <2>4 DEF A
<1> QED BY <1>2, <1>3

\* The request is answered by nothing, or on a socket that is lost.
LEMMA NoAnswerFacts ==
    ASSUME IInv, NEW w \in {"me", "old"}, Unread(w) # <<>>,
           NEW d, NEW more, Answers(w, d, more),
           w = "me" => d = c /\ more = <<>>
    PROVE  /\ c' = c /\ up' \in Seq(Requests) /\ (conn # "open" => up' = <<>>)
           /\ old' \in [alive : BOOLEAN, up : Seq(Requests)]
           /\ Range(up) \subseteq Range(up') \cup {Read(w)}
           /\ w = "old" => up' = up
<1>1. CASE w = "me"
  <2>1. /\ conn = "open" /\ Tail(up) \in Seq(Requests)
        /\ Range(up) = {Read(w)} \cup Range(Tail(up))
    BY <1>1, ReadFacts
  <2>2. c' = c /\ up' = Tail(up) \o <<>> /\ old' = old
    BY <1>1 DEF Answers
  <2>3. Tail(up) \o <<>> = Tail(up) BY <2>1, ConcatEmptySeq
  <2> QED BY <1>1, <2>1, <2>2, <2>3 DEF IInv, ChannelOK
<1>2. CASE w = "old"
  <2>1. c' = c /\ up' = up /\ old' = [old EXCEPT !.up = Tail(@)]
    BY <1>2 DEF Answers
  <2>2. [old EXCEPT !.up = Tail(@)] \in [alive : BOOLEAN, up : Seq(Requests)]
    BY <1>2, ReadFacts
  <2> QED BY <2>1, <2>2 DEF IInv, ChannelOK
<1> QED BY <1>1, <1>2

\* A request of the lost socket that changes nothing but the lease.
LEMMA LostSocketStep ==
    ASSUME IInv, SessionAssumption, Unread("old") # <<>>,
           NEW d, NEW more, Answers("old", d, more),
           UNCHANGED <<log, erased, paper, conn, replayed, drawn>>,
           holder' = holder \/ holder' = "old",
           queue' = queue \/ publish_page(<<Changed("old")>>)
    PROVE  IInv'
<1>1. /\ c' = c /\ up' = up
      /\ old' \in [alive : BOOLEAN, up : Seq(Requests)]
  BY NoAnswerFacts
<1>2. holder' \in {"none", "me", "old", "other"} BY DEF IInv, ServerOK
<1> QED BY <1>1, <1>2, LeaseStep

LEMMA IInv_commit_tombstones ==
    ASSUME IInv, SessionAssumption, NEW w \in {"me", "old"},
           commit_tombstones(w)
    PROVE  IInv'
<1> DEFINE m == Read(w)
           b == Broadcast("tombstone-batch", m.arg, 0)
<1>1. /\ Unread(w) # <<>> /\ m.type = "commit-tombstones"
      /\ holder' = w /\ erased' = erased \cup m.arg
      /\ publish_page(<<b>>) /\ Answers(w, c, <<>>)
      /\ UNCHANGED <<log, paper, conn, replayed, drawn>>
  BY DEF commit_tombstones, Reads, Read, Arg, NoAnswer
<1>2. m \in Requests BY <1>1, ReadFacts
<1>3. m.arg \subseteq drawn \cup Stored
  BY <1>1, <1>2, RequestCases DEF Requests
<1>4. /\ c' = c /\ up' \in Seq(Requests) /\ (conn # "open" => up' = <<>>)
      /\ old' \in [alive : BOOLEAN, up : Seq(Requests)]
      /\ Range(up) \subseteq Range(up') \cup {m}
  BY <1>1, NoAnswerFacts
<1>5. /\ Stored' = Stored /\ Len(log') = Len(log)
      /\ Len(log') \in Nat /\ Len(log) <= Len(log')
  BY <1>1, IInvFacts DEF Stored
<1>6. b \in Pushes'
  <2>1. m.arg \in SUBSET erased' BY <1>1
  <2> QED BY <2>1, PushOf DEF Pushes
<1>7. b.type = "tombstone-batch" /\ b.arg = m.arg BY DEF Broadcast
<1> HIDE DEF b, m
<1>8. Tells(b, erased, erased', paper, paper') BY <1>1, <1>7 DEF Tells
<1>9. /\ queue' \in Seq(Pushes') /\ Len(queue') <= MaxQueue
      /\ ~Connected => queue' = <<>>
      /\ Range(queue) \subseteq Range(queue')
      /\ conn = "open" => b \in Range(queue')
      /\ DeletesFollow(queue', erased') /\ EndsWithPaper(queue', paper')
  <2>1. Stored \subseteq Stored' /\ erased \subseteq erased' /\ conn' = conn
    BY <1>1, <1>5
  <2> QED BY <1>1, <1>5, <1>6, <1>8, <2>1, BroadcastFacts
<1>10. ASSUME conn = "open"
       PROVE  Announced(Stored, erased, paper, Range(up), Range(queue),
                        Stored', erased', paper', Range(up'), Range(queue'),
                        m)
  BY <1>1, <1>4, <1>5, <1>7, <1>9, <1>10 DEF Announced, DeleteComing
<1>11. /\ log' \in Seq(Strokes) /\ IsInjective(log')
       /\ Stored \subseteq Stored'
       /\ Stored' \cap Mine \subseteq drawn
       /\ erased \subseteq erased' /\ erased' \subseteq drawn \cup Stored'
       /\ paper' \in Paper /\ holder' \in {"none", "me", "old", "other"}
  BY <1>1, <1>3, <1>5 DEF IInv, ServerOK
<1> QED BY <1>1, <1>4, <1>5, <1>9, <1>10, <1>11, ServerStep

LEMMA IInv_other_erases ==
    ASSUME IInv, SessionAssumption, NEW s \in Strokes, other_erases(s)
    PROVE  IInv'
<1> DEFINE m == Lease("renew-lease")
           b == Broadcast("tombstone-batch", {s}, 0)
<1>1. /\ s \in Stored /\ erased' = erased \cup {s}
      /\ publish_page(<<b>>) /\ holder' = "other"
      /\ UNCHANGED <<log, paper, conn, up, old, replayed, c, drawn>>
  BY DEF other_erases, OtherUnchanged, Visible
<1>2. /\ Stored' = Stored /\ Len(log') = Len(log)
      /\ Len(log') \in Nat /\ Len(log) <= Len(log')
  BY <1>1, IInvFacts DEF Stored
<1>3. b \in Pushes'
  <2>1. {s} \in SUBSET erased' BY <1>1
  <2> QED BY <2>1, PushOf DEF Pushes
<1>4. b.type = "tombstone-batch" /\ b.arg = {s} /\ m.type = "renew-lease"
  BY DEF Broadcast, Lease, Send
<1> HIDE DEF b, m
<1>5. Tells(b, erased, erased', paper, paper') BY <1>1, <1>4 DEF Tells
<1>6. /\ queue' \in Seq(Pushes') /\ Len(queue') <= MaxQueue
      /\ ~Connected => queue' = <<>>
      /\ Range(queue) \subseteq Range(queue')
      /\ conn = "open" => b \in Range(queue')
      /\ DeletesFollow(queue', erased') /\ EndsWithPaper(queue', paper')
  <2>1. Stored \subseteq Stored' /\ erased \subseteq erased' /\ conn' = conn
    BY <1>1, <1>2
  <2> QED BY <1>1, <1>2, <1>3, <1>5, <2>1, BroadcastFacts
<1>7. ASSUME conn = "open"
      PROVE  Announced(Stored, erased, paper, Range(up), Range(queue),
                       Stored', erased', paper', Range(up'), Range(queue'),
                       m)
  BY <1>1, <1>2, <1>4, <1>6, <1>7 DEF Announced, DeleteComing
<1>8. /\ log' \in Seq(Strokes) /\ IsInjective(log')
      /\ Stored \subseteq Stored'
      /\ Stored' \cap Mine \subseteq drawn
      /\ erased \subseteq erased' /\ erased' \subseteq drawn \cup Stored'
      /\ paper' \in Paper /\ holder' \in {"none", "me", "old", "other"}
      /\ up' \in Seq(Requests) /\ (conn # "open" => up' = <<>>)
      /\ old' \in [alive : BOOLEAN, up : Seq(Requests)]
  BY <1>1, <1>2 DEF IInv, ServerOK, ChannelOK
<1> QED BY <1>1, <1>2, <1>6, <1>7, <1>8, ServerStep

LEMMA IInv_set_paper ==
    ASSUME IInv, SessionAssumption, NEW w \in {"me", "old"}, set_paper(w)
    PROVE  IInv'
<1> DEFINE m == Read(w)
           b == Broadcast("paper-changed", m.arg, 0)
<1>1. /\ Unread(w) # <<>> /\ m.type = "set-paper"
      /\ holder' = w /\ paper' = m.arg
      /\ UNCHANGED <<log, erased, conn, replayed, drawn>>
  BY DEF set_paper, Reads, Read, Arg
<1>2. m \in Requests BY <1>1, ReadFacts
<1>3. m.arg \in Paper BY <1>1, <1>2, RequestCases DEF Requests
<1>4. /\ Stored' = Stored /\ Len(log') = Len(log)
      /\ Len(log') \in Nat /\ Len(log) <= Len(log')
  BY <1>1, IInvFacts DEF Stored
<1>5. CASE m.arg # paper
  <2>1. publish_page(<<b>>) /\ Answers(w, c, <<>>)
    BY <1>5 DEF set_paper, Read, Arg, NoAnswer
  <2>2. /\ c' = c /\ up' \in Seq(Requests) /\ (conn # "open" => up' = <<>>)
        /\ old' \in [alive : BOOLEAN, up : Seq(Requests)]
        /\ Range(up) \subseteq Range(up') \cup {m}
    BY <1>1, <2>1, NoAnswerFacts
  <2>3. b \in Pushes' BY <1>3, PushOf DEF Pushes
  <2>4. b.type = "paper-changed" /\ b.arg = m.arg BY DEF Broadcast
  <2> HIDE DEF b, m
  <2>5. Tells(b, erased, erased', paper, paper') BY <1>1, <2>4 DEF Tells
  <2>6. /\ queue' \in Seq(Pushes') /\ Len(queue') <= MaxQueue
        /\ ~Connected => queue' = <<>>
        /\ Range(queue) \subseteq Range(queue')
        /\ conn = "open" => b \in Range(queue')
        /\ DeletesFollow(queue', erased') /\ EndsWithPaper(queue', paper')
    <3>1. Stored \subseteq Stored' /\ erased \subseteq erased' /\ conn' = conn
      BY <1>1, <1>4
    <3> QED BY <1>4, <2>1, <2>3, <2>5, <3>1, BroadcastFacts
  <2>7. ASSUME conn = "open"
        PROVE  Announced(Stored, erased, paper, Range(up), Range(queue),
                         Stored', erased', paper', Range(up'),
                         Range(queue'), m)
    BY <1>1, <1>4, <2>2, <2>4, <2>6, <2>7 DEF Announced, PaperComing
  <2>8. /\ log' \in Seq(Strokes) /\ IsInjective(log')
        /\ Stored \subseteq Stored'
        /\ Stored' \cap Mine \subseteq drawn
        /\ erased \subseteq erased' /\ erased' \subseteq drawn \cup Stored'
        /\ paper' \in Paper /\ holder' \in {"none", "me", "old", "other"}
    BY <1>1, <1>3, <1>4 DEF IInv, ServerOK
  <2> QED BY <1>1, <1>4, <2>2, <2>6, <2>7, <2>8, ServerStep
<1>6. CASE m.arg = paper
  <2>1. Answers(w, onPaperChanged(c, paper), <<>>) /\ queue' = queue
    BY <1>6 DEF set_paper, Read, Arg
  <2>2. CASE w = "old"
    <3>1. /\ Unread("old") # <<>>
          /\ Answers("old", onPaperChanged(c, paper), <<>>)
      BY <1>1, <2>1, <2>2
    <3>2. paper' = paper BY <1>1, <1>6
    <3> QED BY <1>1, <2>1, <2>2, <3>1, <3>2, LostSocketStep
  <2>3. CASE w = "me"
    <3>1. /\ conn = "open" /\ Tail(up) \in Seq(Requests)
          /\ Range(up) = {m} \cup Range(Tail(up))
      BY <1>1, <2>3, ReadFacts
    <3>2. /\ c' = onPaperChanged(c, paper) /\ up' = Tail(up) \o <<>>
          /\ old' = old
      BY <2>1, <2>3 DEF Answers
    <3>3. up' = Tail(up) BY <3>1, <3>2, ConcatEmptySeq
    <3>4. /\ Good(c, drawn, Stored, erased, Len(log)) /\ paper \in Paper
          /\ InSync(c, Stored, erased, paper, Range(up), Range(queue),
                    replayed)
      BY <3>1 DEF IInv, SessionOK, ServerOK
    <3>5. /\ Good(c', drawn, Stored, erased, Len(log))
          /\ c'.replaying = c.replaying
          /\ SameInk(c, c') /\ SameLease(c, c')
          /\ c'.confirmedPaper = paper
          /\ c'.pendingPaper = IF c.pendingPaper = paper THEN NoPaper
                               ELSE c.pendingPaper
      BY <3>2, <3>4, OnPaperChangedFacts
    <3> HIDE DEF m
    <3>6. InkComes(c', Range(up'), Range(queue), erased)
      BY <1>1, <3>1, <3>3, <3>4, <3>5
      DEF InSync, InkComes, CommitSent, Waits, SameInk, SameLease
    <3>7. Caught(c', Stored, erased, Range(queue), replayed)
      BY <3>4, <3>5 DEF InSync, Caught, SameInk
    <3>8. PaperComes(c', paper, Range(up'), Range(queue))
      BY <1>6, <3>1, <3>3, <3>4, <3>5 DEF InSync, PaperComes, PaperSent
    <3>9. paper' = paper BY <1>1, <1>6
    <3> QED
      BY <1>1, <2>1, <2>3, <3>1, <3>2, <3>3, <3>5, <3>6, <3>7, <3>8, <3>9,
         OpenStep
      DEF IInv, ServerOK, ChannelOK, InSync
  <2> QED BY <2>2, <2>3
<1> QED BY <1>5, <1>6

LEMMA LogGrows ==
    ASSUME IInv, NEW s \in Strokes, s \notin Stored, log' = Append(log, s)
    PROVE  /\ log' \in Seq(Strokes) /\ IsInjective(log')
           /\ Stored' = Stored \cup {s}
           /\ Len(log') = Len(log) + 1 /\ Len(log') \in Nat
           /\ Len(log) <= Len(log')
<1>1. log \in Seq(Strokes) /\ IsInjective(log) BY DEF IInv, ServerOK
<1> DEFINE l2 == Append(log, s)
<1>2. /\ l2 \in Seq(Strokes) /\ Len(l2) = Len(log) + 1 /\ Len(log) \in Nat
      /\ DOMAIN log = 1 .. Len(log) /\ DOMAIN l2 = 1 .. Len(log) + 1
      /\ \A i \in 1 .. Len(log) : l2[i] = log[i]
      /\ l2[Len(log) + 1] = s /\ Range(l2) = Range(log) \cup {s}
  BY <1>1, AddFacts
<1>3. \A i \in 1 .. Len(log) : log[i] # s BY <1>2 DEF Stored, Range
<1> HIDE DEF l2
<1>4. IsInjective(l2)
  <2> SUFFICES ASSUME NEW i \in DOMAIN l2, NEW j \in DOMAIN l2,
                      l2[i] = l2[j]
               PROVE  i = j
    BY DEF IsInjective
  <2>1. /\ i \in 1 .. Len(log) \/ i = Len(log) + 1
        /\ j \in 1 .. Len(log) \/ j = Len(log) + 1
    BY <1>2
  <2>2. CASE i \in 1 .. Len(log) /\ j \in 1 .. Len(log)
    BY <1>1, <1>2, <2>2 DEF IsInjective
  <2>3. CASE i = Len(log) + 1 BY <1>2, <1>3, <2>1, <2>3
  <2>4. CASE j = Len(log) + 1 BY <1>2, <1>3, <2>1, <2>4
  <2> QED BY <2>1, <2>2, <2>3, <2>4
<1>5. log' = l2 BY DEF l2
<1> QED BY <1>2, <1>4, <1>5 DEF Stored

LEMMA SeqNoFacts ==
    ASSUME IInv, NEW s \in Stored
    PROVE  SeqNo(s) \in 1 .. Len(log)
<1>1. \E n \in Seqs : log[n] = s BY DEF IInv, ServerOK, Stored, Range, Seqs
<1> QED BY <1>1 DEF SeqNo, Seqs

\* A stroke of the store is echoed, whether it is new there or not.
LEMMA EchoStep ==
    ASSUME IInv, SessionAssumption, UNCHANGED <<erased, paper, conn>>,
           Stored \subseteq Stored', Len(log') \in Nat,
           Len(log) <= Len(log'),
           NEW s \in Stored', s \notin erased, NEW k \in 1 .. Len(log'),
           publish_page(<<Broadcast("stroke-batch", s, k)>>)
    PROVE  /\ queue' \in Seq(Pushes') /\ Len(queue') <= MaxQueue
           /\ ~Connected => queue' = <<>>
           /\ Range(queue) \subseteq Range(queue')
           /\ conn = "open" => EchoComing(Range(queue'), s)
           /\ DeletesFollow(queue', erased') /\ EndsWithPaper(queue', paper')
<1> DEFINE b == Broadcast("stroke-batch", s, k)
<1>1. b \in Pushes' BY PushOf DEF Pushes
<1>2. b.type = "stroke-batch" /\ b.arg = s BY DEF Broadcast
<1>3. publish_page(<<b>>) OBVIOUS
<1> HIDE DEF b
<1>4. Tells(b, erased, erased', paper, paper') BY <1>2 DEF Tells
<1>5. /\ queue' \in Seq(Pushes') /\ Len(queue') <= MaxQueue
      /\ ~Connected => queue' = <<>>
      /\ Range(queue) \subseteq Range(queue')
      /\ conn = "open" => b \in Range(queue')
      /\ DeletesFollow(queue', erased') /\ EndsWithPaper(queue', paper')
  <2>1. erased \subseteq erased' /\ conn' = conn OBVIOUS
  <2> QED BY <1>1, <1>3, <1>4, <2>1, BroadcastFacts
<1>6. conn = "open" => EchoComing(Range(queue'), s)
  BY <1>2, <1>5 DEF EchoComing
<1> QED BY <1>5, <1>6

LEMMA IInv_commit_batch ==
    ASSUME IInv, SessionAssumption, NEW w \in {"me", "old"}, commit_batch(w)
    PROVE  IInv'
<1> DEFINE m == Read(w)
<1>1. /\ Unread(w) # <<>> /\ m.type = "commit-batch"
      /\ holder' = w /\ Answers(w, c, <<>>)
      /\ UNCHANGED <<erased, paper, conn, replayed, drawn>>
  BY DEF commit_batch, Reads, Read, NoAnswer
<1>2. m \in Requests BY <1>1, ReadFacts
<1>3. PICK s \in drawn : m.arg = {s}
  BY <1>1, <1>2, RequestCases DEF Requests
<1>4. /\ log' = IF s \in Stored \cup erased THEN log ELSE Append(log, s)
      /\ publish_page(IF s \in erased THEN <<>>
             ELSE <<Broadcast("stroke-batch", s,
                       IF s \in Stored THEN SeqNo(s) ELSE Len(log) + 1)>>)
  <2>1. (CHOOSE x \in {s} : TRUE) = s OBVIOUS
  <2>2. Arg(w) = {s} BY <1>3 DEF Arg, Read
  <2> QED BY <2>1, <2>2 DEF commit_batch
<1>5. /\ c' = c /\ up' \in Seq(Requests) /\ (conn # "open" => up' = <<>>)
      /\ old' \in [alive : BOOLEAN, up : Seq(Requests)]
      /\ Range(up) \subseteq Range(up') \cup {m}
  BY <1>1, NoAnswerFacts
<1>6. s \in Strokes /\ drawn \subseteq Mine /\ Len(log) \in Nat
  BY IInvFacts DEF Strokes
<1> HIDE DEF m
<1>7. /\ log' \in Seq(Strokes) /\ IsInjective(log')
      /\ Stored \subseteq Stored' /\ Stored' \subseteq Stored \cup {s}
      /\ Len(log') \in Nat /\ Len(log) <= Len(log')
      /\ s \notin erased => s \in Stored'
      /\ s \in erased => Stored' = Stored
  <2>1. CASE s \in Stored \cup erased
    BY <1>4, <1>6, <2>1 DEF IInv, ServerOK, Stored
  <2>2. CASE s \notin Stored \cup erased
    BY <1>4, <1>6, <2>2, LogGrows
  <2> QED BY <2>1, <2>2
<1>8. /\ queue' \in Seq(Pushes') /\ Len(queue') <= MaxQueue
      /\ ~Connected => queue' = <<>>
      /\ Range(queue) \subseteq Range(queue')
      /\ conn = "open" /\ s \notin erased => EchoComing(Range(queue'), s)
      /\ DeletesFollow(queue', erased') /\ EndsWithPaper(queue', paper')
  <2>1. CASE s \in erased
    <3>1. queue' = queue BY <1>4, <2>1, PublishNone
    <3>2. Pushes' = Pushes BY <1>1, <1>4, <2>1 DEF Pushes, Stored
    <3> QED BY <1>1, <2>1, <3>1, <3>2 DEF IInv, ChannelOK
  <2>2. CASE s \notin erased
    <3> DEFINE k == IF s \in Stored THEN SeqNo(s) ELSE Len(log) + 1
    <3>1. k \in 1 .. Len(log')
      <4>1. CASE s \in Stored BY <1>4, <4>1, SeqNoFacts
      <4>2. CASE s \notin Stored
        BY <1>4, <1>6, <2>2, <4>2, LogGrows
      <4> QED BY <4>1, <4>2
    <3>2. publish_page(<<Broadcast("stroke-batch", s, k)>>)
      BY <1>4, <2>2
    <3> HIDE DEF k
    <3> QED BY <1>1, <1>7, <2>2, <3>1, <3>2, EchoStep
  <2> QED BY <2>1, <2>2
<1>9. ASSUME conn = "open"
      PROVE  Announced(Stored, erased, paper, Range(up), Range(queue),
                       Stored', erased', paper', Range(up'), Range(queue'),
                       m)
  <2>1. \A x \in Stored' : x \in Stored \/ EchoComing(Range(queue'), x)
    BY <1>7, <1>8, <1>9
  <2>2. \A x : m.arg = {x} => x = s BY <1>3
  <2> QED BY <1>1, <1>5, <1>8, <1>9, <2>1, <2>2 DEF Announced
<1>10. /\ Stored' \cap Mine \subseteq drawn
       /\ erased \subseteq erased' /\ erased' \subseteq drawn \cup Stored'
       /\ paper' \in Paper /\ holder' \in {"none", "me", "old", "other"}
  BY <1>1, <1>7 DEF IInv, ServerOK
<1> QED BY <1>1, <1>5, <1>7, <1>8, <1>9, <1>10, ServerStep

LEMMA IInv_other_draws ==
    ASSUME IInv, SessionAssumption, NEW s \in Theirs, other_draws(s)
    PROVE  IInv'
<1> DEFINE m == Lease("renew-lease")
           k == Len(log) + 1
<1>1. /\ s \notin Stored /\ log' = Append(log, s) /\ holder' = "other"
      /\ publish_page(<<Broadcast("stroke-batch", s, k)>>)
      /\ UNCHANGED <<erased, paper, conn, up, old, replayed, c, drawn>>
  BY DEF other_draws, OtherUnchanged
<1>2. /\ log' \in Seq(Strokes) /\ IsInjective(log')
      /\ Stored' = Stored \cup {s}
      /\ Len(log') = Len(log) + 1 /\ Len(log') \in Nat
      /\ Len(log) <= Len(log')
  <2>1. s \in Strokes BY DEF Strokes
  <2> QED BY <1>1, <2>1, LogGrows
<1>3. s \notin Mine /\ s \notin erased
  BY <1>1 DEF SessionAssumption, IInv, ServerOK
<1>4. k \in 1 .. Len(log') BY <1>2, IInvFacts
<1>5. m.type = "renew-lease" BY DEF Lease, Send
<1> HIDE DEF m, k
<1>6. /\ queue' \in Seq(Pushes') /\ Len(queue') <= MaxQueue
      /\ ~Connected => queue' = <<>>
      /\ Range(queue) \subseteq Range(queue')
      /\ conn = "open" => EchoComing(Range(queue'), s)
      /\ DeletesFollow(queue', erased') /\ EndsWithPaper(queue', paper')
  <2>1. Stored \subseteq Stored' /\ s \in Stored' BY <1>2
  <2> QED BY <1>1, <1>2, <1>3, <1>4, <2>1, EchoStep
<1>7. ASSUME conn = "open"
      PROVE  Announced(Stored, erased, paper, Range(up), Range(queue),
                       Stored', erased', paper', Range(up'), Range(queue'),
                       m)
  BY <1>1, <1>2, <1>5, <1>6, <1>7 DEF Announced
<1>8. /\ Stored \subseteq Stored' /\ Stored' \cap Mine \subseteq drawn
      /\ erased \subseteq erased' /\ erased' \subseteq drawn \cup Stored'
      /\ paper' \in Paper /\ holder' \in {"none", "me", "old", "other"}
      /\ up' \in Seq(Requests) /\ (conn # "open" => up' = <<>>)
      /\ old' \in [alive : BOOLEAN, up : Seq(Requests)]
  BY <1>1, <1>2, <1>3 DEF IInv, ServerOK, ChannelOK
<1> QED BY <1>1, <1>2, <1>6, <1>7, <1>8, ServerStep

-----------------------------------------------------------------------------
(* The steps that reply to this client's socket.                           *)

\* More broadcasts leave the session in sync.
LEMMA MoreInSync ==
    ASSUME NEW d, NEW S, NEW E, NEW p, NEW U, NEW Q, NEW r,
           InSync(d, S, E, p, U, Q, r), NEW Q2, Q \subseteq Q2
    PROVE  InSync(d, S, E, p, U, Q2, r)
<1>1. InkComes(d, U, Q2, E)
  BY DEF InSync, InkComes, EchoComing, DeleteComing
<1>2. Caught(d, S, E, Q2, r)
  BY DEF InSync, Caught, EchoComing, DeleteComing
<1>3. PaperComes(d, p, U, Q2)
  BY DEF InSync, PaperComes, PaperComing, NoPaperComing
<1> QED BY <1>1, <1>2, <1>3 DEF InSync

\* The reply turns the session into d, which sends more.
LEMMA ReplyStep ==
    ASSUME IInv, SessionAssumption, Unread("me") # <<>>, NEW d,
           NEW more \in Seq(Requests), Answers("me", d, more),
           UNCHANGED <<log, erased, paper, conn, drawn>>,
           holder' \in {"none", "me", "old", "other"},
           replayed' \in {"none", "whole", "gap"},
           queue' = queue \/ publish_page(<<Changed("me")>>),
           Good(d, drawn, Stored, erased, Len(log)),
           InSync(d, Stored, erased, paper, Range(Tail(up)) \cup Range(more),
                  Range(queue), replayed')
    PROVE  IInv'
<1>1. conn = "open" /\ Tail(up) \in Seq(Requests) BY ReadFacts
<1>2. c' = d /\ up' = Tail(up) \o more /\ old' = old BY DEF Answers
<1>3. /\ up' \in Seq(Requests)
      /\ Range(up') = Range(Tail(up)) \cup Range(more)
  BY <1>1, <1>2, JoinFacts
<1>4. /\ Stored' = Stored /\ Len(log') = Len(log) /\ Pushes' = Pushes
      /\ Len(log) \in Nat /\ Len(log) <= Len(log)
  BY IInvFacts DEF Stored, Pushes
<1>5. /\ queue' \in Seq(Pushes) /\ Len(queue') <= MaxQueue
      /\ Range(queue) \subseteq Range(queue')
      /\ DeletesFollow(queue', erased) /\ EndsWithPaper(queue', paper)
  <2>1. CASE queue' = queue
    BY <2>1 DEF IInv, ChannelOK
  <2>2. CASE publish_page(<<Changed("me")>>)
    <3> DEFINE m == Changed("me")
    <3>1. m \in Pushes' BY <1>4, PushOf DEF Pushes
    <3>2. Tells(m, erased, erased', paper, paper') BY DEF Tells, Changed
    <3>3. publish_page(<<m>>) BY <2>2
    <3>4. /\ Stored \subseteq Stored' /\ erased \subseteq erased'
          /\ Len(log') \in Nat /\ Len(log) <= Len(log') /\ conn' = conn
      BY <1>4
    <3> HIDE DEF m
    <3>5. /\ queue' \in Seq(Pushes') /\ Len(queue') <= MaxQueue
          /\ Range(queue) \subseteq Range(queue')
          /\ DeletesFollow(queue', erased') /\ EndsWithPaper(queue', paper')
      BY <3>1, <3>2, <3>3, <3>4, BroadcastFacts
    <3> QED BY <1>4, <3>5
  <2> QED BY <2>1, <2>2
<1>6. InSync(c', Stored, erased, paper, Range(up'), Range(queue'), replayed')
  <2> DEFINE Q2 == Range(queue')  r2 == replayed'  U2 == Range(up')
  <2>1. /\ InSync(d, Stored, erased, paper, U2, Range(queue), r2)
        /\ Range(queue) \subseteq Q2
    BY <1>3, <1>5
  <2> HIDE DEF Q2, r2, U2
  <2>2. InSync(d, Stored, erased, paper, U2, Q2, r2)
    BY <2>1, MoreInSync
  <2> QED BY <1>2, <2>2 DEF Q2, r2, U2
<1>7. /\ Good(c', drawn, Stored, erased, Len(log))
      /\ old' \in [alive : BOOLEAN, up : Seq(Requests)]
  BY <1>2 DEF IInv, ChannelOK
<1> QED BY <1>1, <1>3, <1>5, <1>6, <1>7, OpenStep

\* What is known of the session when a request of its own is read.
LEMMA BeforeReply ==
    ASSUME IInv, Unread("me") # <<>>
    PROVE  /\ Good(c, drawn, Stored, erased, Len(log))
           /\ InSync(c, Stored, erased, paper,
                     {Read("me")} \cup Range(Tail(up)), Range(queue),
                     replayed)
<1>1. conn = "open" /\ Range(up) = {Read("me")} \cup Range(Tail(up))
  BY ReadFacts
<1> QED BY <1>1 DEF IInv, SessionOK

\* The session has dropped its pending ink, and no subscribe was read that
\* a replay has not answered.
LEMMA DroppedInSync ==
    ASSUME NEW d, NEW S, NEW E, NEW p, NEW U, NEW Q, NEW r, NEW m,
           InSync(d, S, E, p, {m} \cup U, Q, r),
           NEW e, Range(e.pending) = {},
           e.seen = d.seen, e.confirmed = d.confirmed,
           ~e.replaying \/ e.replaying = d.replaying,
           e.confirmedPaper = d.confirmedPaper,
           \/ e.pendingPaper = NoPaper
           \/ m.type # "set-paper" /\ e.pendingPaper = d.pendingPaper
    PROVE  InSync(e, S, E, p, U, Q, r)
<1>1. InkComes(e, U, Q, E) BY DEF InkComes
<1>2. Caught(e, S, E, Q, r) BY DEF InSync, Caught
<1>3. PaperComes(e, p, U, Q) BY DEF InSync, PaperComes, PaperSent
<1> QED BY <1>1, <1>2, <1>3 DEF InSync

LEMMA IInv_deny_lease ==
    ASSUME IInv, SessionAssumption, NEW w \in {"me", "old"}, deny_lease(w)
    PROVE  IInv'
<1> DEFINE d == onLeaseDenied(c)
<1>1. /\ Unread(w) # <<>> /\ Answers(w, d, <<>>) /\ holder' = holder
      /\ UNCHANGED <<log, erased, paper, conn, queue, replayed, drawn>>
  BY DEF deny_lease, serverVars
<1>2. CASE w = "old"
  <2> HIDE DEF d
  <2> QED BY <1>1, <1>2, LostSocketStep
<1>3. CASE w = "me"
  <2>1. /\ Good(c, drawn, Stored, erased, Len(log))
        /\ InSync(c, Stored, erased, paper,
                  {Read("me")} \cup Range(Tail(up)), Range(queue), replayed)
    BY <1>1, <1>3, BeforeReply
  <2>2. /\ Good(d, drawn, Stored, erased, Len(log))
        /\ d.replaying = c.replaying
        /\ Range(d.pending) = {}
        /\ d.seen = c.seen /\ d.confirmed = c.confirmed
        /\ d.confirmedPaper = c.confirmedPaper
        /\ d.pendingPaper = NoPaper
    BY <2>1, OnLeaseDeniedFacts
  <2> HIDE DEF d
  <2>3. InSync(d, Stored, erased, paper, Range(Tail(up)), Range(queue),
               replayed)
    BY <2>1, <2>2, DroppedInSync
  <2>4. /\ <<>> \in Seq(Requests)
        /\ Range(Tail(up)) \cup Range(<<>>) = Range(Tail(up))
    BY DEF Range
  <2>5. holder' \in {"none", "me", "old", "other"}
        /\ replayed' \in {"none", "whole", "gap"}
    BY <1>1 DEF IInv, ServerOK
  <2> QED BY <1>1, <1>3, <2>2, <2>3, <2>4, <2>5, ReplyStep
<1> QED BY <1>2, <1>3

\* An error frame, whatever the request m was.
LEMMA FailedInSync ==
    ASSUME NEW d, NEW D, NEW S, NEW E, NEW n, Good(d, D, S, E, n),
           NEW p, NEW U, NEW Q, NEW r, NEW m,
           InSync(d, S, E, p, {m} \cup U, Q, r), NEW code, NEW ids,
           m.type = "set-paper" => code = "paper_failed",
           NEW e, e = onFailure(d, code, ids)
    PROVE  Good(e, D, S, E, n) /\ InSync(e, S, E, p, U, Q, r)
<1>1. /\ Good(e, D, S, E, n) /\ ~e.replaying
      /\ Range(e.pending) = {}
      /\ e.seen = d.seen /\ e.confirmed = d.confirmed
      /\ e.confirmedPaper = d.confirmedPaper
      /\ \/ e.pendingPaper = NoPaper
         \/ /\ code # "paper_failed"
            /\ e.pendingPaper = d.pendingPaper
  BY OnFailureFacts
<1>2. InSync(e, S, E, p, U, Q, r) BY <1>1, DroppedInSync
<1> QED BY <1>1, <1>2

LEMMA FailureStep ==
    ASSUME IInv, SessionAssumption, NEW w \in {"me", "old"},
           Unread(w) # <<>>, NEW code, NEW ids,
           Read(w).type = "set-paper" => code = "paper_failed",
           Answers(w, onFailure(c, code, ids), <<>>),
           UNCHANGED <<log, erased, paper, conn, queue, replayed, drawn>>,
           holder' = w \/ holder' = holder
    PROVE  IInv'
<1>1. PICK d : d = onFailure(c, code, ids) OBVIOUS
<1>2. Answers(w, d, <<>>) BY <1>1
<1>3. CASE w = "old" BY <1>2, <1>3, LostSocketStep
<1>4. CASE w = "me"
  <2> DEFINE m == Read("me")
             U == Range(Tail(up))
             Q == Range(queue)
  <2>1. /\ Good(c, drawn, Stored, erased, Len(log))
        /\ InSync(c, Stored, erased, paper, {m} \cup U, Q, replayed)
    BY <1>4, BeforeReply
  <2>2. m.type = "set-paper" => code = "paper_failed" BY <1>4
  <2> HIDE DEF m, U, Q
  <2>3. /\ Good(d, drawn, Stored, erased, Len(log))
        /\ InSync(d, Stored, erased, paper, U, Q, replayed)
    BY <1>1, <2>1, <2>2, FailedInSync
  <2>4. /\ <<>> \in Seq(Requests)
        /\ Range(Tail(up)) \cup Range(<<>>) = Range(Tail(up))
    BY DEF Range
  <2>5. holder' \in {"none", "me", "old", "other"}
        /\ replayed' \in {"none", "whole", "gap"}
    BY <1>4 DEF IInv, ServerOK
  <2> QED BY <1>2, <1>4, <2>3, <2>4, <2>5, ReplyStep DEF U, Q
<1> QED BY <1>3, <1>4

LEMMA IInv_mutation_fails ==
    ASSUME IInv, SessionAssumption, NEW w \in {"me", "old"},
           mutation_fails(w)
    PROVE  IInv'
<1>1. PICK t \in DOMAIN FailureCode :
          /\ Reads(w, t)
          /\ Answers(w, onFailure(c, FailureCode[t], Arg(w)), <<>>)
  BY DEF mutation_fails
<1>2. t = "set-paper" => FailureCode[t] = "paper_failed"
  BY DEF FailureCode
<1>3. Unread(w) # <<>> /\ Read(w).type = t BY <1>1 DEF Reads, Read
<1>4. /\ UNCHANGED <<log, erased, paper, conn, queue, replayed, drawn>>
      /\ holder' = w
  BY DEF mutation_fails
<1> QED BY <1>1, <1>2, <1>3, <1>4, FailureStep

LEMMA IInv_replay_fails ==
    ASSUME IInv, SessionAssumption, NEW w \in {"me", "old"}, replay_fails(w)
    PROVE  IInv'
<1>1. /\ Unread(w) # <<>> /\ Read(w).type = "subscribe"
      /\ Answers(w, onFailure(c, "replay_failed", {}), <<>>)
      /\ UNCHANGED <<log, erased, paper, conn, queue, replayed, drawn>>
      /\ holder' = holder
  BY DEF replay_fails, Reads, Read, serverVars
<1> QED BY <1>1, FailureStep

\* A replay in answer to the subscribe m, of the rows that its cursor does
\* not stand for.
LEMMA ReplayedInSync ==
    ASSUME NEW d, NEW D, NEW S, NEW E, NEW n \in Nat, Good(d, D, S, E, n),
           NEW p, NEW U, NEW Q, NEW r, NEW m, m.type = "subscribe",
           InSync(d, S, E, p, {m} \cup U, Q, r), S \subseteq Strokes,
           NEW rows, rows \subseteq S, NEW r2,
           r2 = "whole" => S \subseteq d.seen \cup rows,
           NEW e, e = onPageReplay(d, rows, E, n)
    PROVE  Good(e, D, S, E, n) /\ InSync(e, S, E, p, U, Q, r2)
<1>1. Good(e, D, S, E, n) /\ CatchesUp(d, e, rows, E)
  BY OnPageReplayFacts
<1>2. InkComes(e, U, Q, E)
  BY <1>1 DEF CatchesUp, InSync, InkComes, CommitSent, SameLease
<1>3. Caught(e, S, E, Q, r2) BY <1>1 DEF CatchesUp, Caught
<1>4. PaperComes(e, p, U, Q)
  BY <1>1 DEF CatchesUp, InSync, PaperComes, PaperSent, SamePaper
<1> QED BY <1>1, <1>2, <1>3, <1>4 DEF InSync

LEMMA IInv_replay_page ==
    ASSUME IInv, SessionAssumption, NEW w \in {"me", "old"}, replay_page(w)
    PROVE  IInv'
<1> DEFINE a == Read(w).arg
           rows == {log[n] : n \in {k \in Seqs : k > a}}
<1>1. PICK d : d = onPageReplay(c, rows, erased, Len(log)) OBVIOUS
<1>2. /\ Unread(w) # <<>> /\ Read(w).type = "subscribe"
      /\ Answers(w, d, <<>>)
      /\ replayed' = IF w = "me" THEN Replayed(a) ELSE replayed
      /\ UNCHANGED <<log, erased, paper, conn, queue, drawn>>
      /\ holder' = holder
  BY <1>1 DEF replay_page, Reads, Read, Arg, serverVars
<1>3. CASE w = "old"
  <2>1. replayed' = replayed /\ "old" # "me" BY <1>2, <1>3
  <2> QED BY <1>2, <1>3, <2>1, LostSocketStep
<1>4. CASE w = "me"
  <2> DEFINE m == Read("me")
             U == Range(Tail(up))
             Q == Range(queue)
             r2 == Replayed(a)
  <2>1. /\ Good(c, drawn, Stored, erased, Len(log)) /\ m.type = "subscribe"
        /\ InSync(c, Stored, erased, paper, {m} \cup U, Q, replayed)
    BY <1>2, <1>4, BeforeReply
  <2>2. a \in 0 .. Len(log) /\ Len(log) \in Nat /\ Stored \subseteq Strokes
    <3>1. Read(w) \in Requests BY <1>2, ReadFacts
    <3> QED BY <1>2, <3>1, RequestCases, IInvFacts DEF Requests
  <2>3. /\ \A n \in Seqs : log[n] \in Stored
        /\ \A s \in Stored : \E n \in Seqs : log[n] = s
    BY DEF IInv, ServerOK, Stored, Range, Seqs
  <2>4. rows \subseteq Stored BY <2>3
  <2>5. r2 = "whole" => Stored \subseteq c.seen \cup rows
    <3> SUFFICES ASSUME Replayed(a) = "whole", NEW n \in Seqs
                 PROVE  log[n] \in c.seen \cup rows
      BY <2>3
    <3>1. {log[i] : i \in 1 .. a} \subseteq c.seen BY DEF Replayed
    <3>2. n \in 1 .. a \/ n > a BY <2>2 DEF Seqs
    <3> QED BY <3>1, <3>2
  <2>6. replayed' = r2 /\ r2 \in {"none", "whole", "gap"}
    BY <1>2, <1>4 DEF Replayed
  <2> HIDE DEF rows, m, U, Q, r2, a
  <2>7. /\ Good(d, drawn, Stored, erased, Len(log))
        /\ InSync(d, Stored, erased, paper, U, Q, r2)
    BY <1>1, <2>1, <2>2, <2>4, <2>5, ReplayedInSync
  <2>8. /\ <<>> \in Seq(Requests)
        /\ Range(Tail(up)) \cup Range(<<>>) = Range(Tail(up))
    BY DEF Range
  <2>9. holder' \in {"none", "me", "old", "other"} BY <1>2 DEF IInv, ServerOK
  <2> QED BY <1>2, <1>4, <2>6, <2>7, <2>8, <2>9, ReplyStep DEF U, Q
<1> QED BY <1>3, <1>4

LEMMA IInv_acquire_lease ==
    ASSUME IInv, SessionAssumption, NEW w \in {"me", "old"},
           acquire_lease(w)
    PROVE  IInv'
<1> DEFINE d == onLeaseHeld(c)
           more == ResendsOf(c)
<1>1. /\ Unread(w) # <<>>
      /\ Read(w).type \in {"acquire-lease", "renew-lease"}
      /\ Answers(w, d, more) /\ holder' = w
      /\ UNCHANGED <<log, erased, paper, conn, replayed, drawn>>
  BY DEF acquire_lease, Reads, Read
<1>2. queue' = queue \/ publish_page(<<Changed(w)>>)
  <2>1. CASE Reads(w, "acquire-lease") BY <2>1 DEF acquire_lease
  <2>2. CASE ~Reads(w, "acquire-lease")
    <3>1. publish_page(<<>>) BY <2>2 DEF acquire_lease
    <3> QED BY <3>1, PublishNone
  <2> QED BY <2>1, <2>2
<1>3. CASE w = "old"
  <2> HIDE DEF d, more
  <2> QED BY <1>1, <1>2, <1>3, LostSocketStep
<1>4. CASE w = "me"
  <2>1. /\ Good(c, drawn, Stored, erased, Len(log))
        /\ InSync(c, Stored, erased, paper,
                  {Read("me")} \cup Range(Tail(up)), Range(queue), replayed)
    BY <1>1, <1>4, BeforeReply
  <2>2. /\ Good(d, drawn, Stored, erased, Len(log))
        /\ d.replaying = c.replaying
        /\ SameInk(c, d) /\ SamePaper(c, d)
    BY <2>1, OnLeaseHeldFacts
  <2>3. /\ more \in Seq(Requests)
        /\ c.resend => \A s \in Range(c.pending) : CommitSent(Range(more), s)
    BY <2>1, ResendsFacts DEF Requests
  <2> HIDE DEF d, more
  <2> DEFINE U == Range(Tail(up)) \cup Range(more)
             Q == Range(queue)
  <2>4. InkComes(d, U, Q, erased)
    BY <1>1, <1>4, <2>1, <2>2, <2>3
    DEF InSync, InkComes, CommitSent, Waits, SameInk
  <2>5. Caught(d, Stored, erased, Q, replayed)
    BY <2>1, <2>2 DEF InSync, Caught, SameInk
  <2>6. PaperComes(d, paper, U, Q)
    BY <1>1, <1>4, <2>1, <2>2 DEF InSync, PaperComes, PaperSent, SamePaper
  <2>7. InSync(d, Stored, erased, paper, U, Q, replayed')
    BY <1>1, <2>4, <2>5, <2>6 DEF InSync
  <2>8. /\ holder' \in {"none", "me", "old", "other"}
        /\ replayed' \in {"none", "whole", "gap"}
    BY <1>1, <1>4 DEF IInv, ServerOK
  <2> QED BY <1>1, <1>2, <1>4, <2>2, <2>3, <2>7, <2>8, ReplyStep
<1> QED BY <1>3, <1>4

-----------------------------------------------------------------------------
(* The broadcasts the session hears.                                       *)

LEMMA StrokeInSync ==
    ASSUME NEW d, NEW D, NEW S, NEW E, NEW n, Good(d, D, S, E, n),
           S \subseteq Strokes, NEW p, NEW U, NEW Q, NEW r, NEW m,
           InSync(d, S, E, p, U, {m} \cup Q, r),
           NEW s \in S, m.type = "stroke-batch", m.arg = s,
           s \in E => DeleteComing(Q, s),
           NEW k \in Nat, k <= n, NEW e, e = onStrokeBatch(d, k, s)
    PROVE  Good(e, D, S, E, n) /\ InSync(e, S, E, p, U, Q, r)
<1>1. Good(e, D, S, E, n) /\ Confirms(d, e, s) BY OnStrokeBatchFacts
<1>2. InkComes(e, U, Q, E)
  BY <1>1 DEF Confirms, InSync, InkComes, EchoComing, DeleteComing, SameLease
<1>3. Caught(e, S, E, Q, r)
  BY <1>1 DEF Confirms, InSync, Caught, EchoComing, DeleteComing
<1>4. PaperComes(e, p, U, Q)
  BY <1>1
  DEF Confirms, InSync, PaperComes, PaperComing, NoPaperComing, SamePaper
<1> QED BY <1>1, <1>2, <1>3, <1>4 DEF InSync

LEMMA TombstonesInSync ==
    ASSUME NEW d, NEW D, NEW S, NEW E, NEW n, Good(d, D, S, E, n),
           NEW p, NEW U, NEW Q, NEW r, NEW m,
           InSync(d, S, E, p, U, {m} \cup Q, r),
           m.type = "tombstone-batch", m.arg \subseteq E,
           NEW e, e = onTombstoneBatch(d, m.arg)
    PROVE  Good(e, D, S, E, n) /\ InSync(e, S, E, p, U, Q, r)
<1> DEFINE ids == m.arg
<1>1. /\ Good(e, D, S, E, n)
      /\ Range(e.pending) = Range(d.pending) \ ids
      /\ e.seen = d.seen
      /\ e.confirmed = d.confirmed \ ids
      /\ e.replaying = d.replaying
      /\ SameLease(d, e) /\ SamePaper(d, e)
  <2>1. Holds(d, D, S, E, n) /\ ids \subseteq E /\ e = onTombstoneBatch(d, ids)
    BY DEF Good
  <2> HIDE DEF ids
  <2> QED BY <2>1, OnTombstoneBatchFacts
<1>2. InkComes(e, U, Q, E)
  BY <1>1 DEF InSync, InkComes, EchoComing, DeleteComing, SameLease
<1>3. Caught(e, S, E, Q, r)
  BY <1>1 DEF InSync, Caught, EchoComing, DeleteComing
<1>4. PaperComes(e, p, U, Q)
  BY <1>1 DEF InSync, PaperComes, PaperComing, NoPaperComing, SamePaper
<1> QED BY <1>1, <1>2, <1>3, <1>4 DEF InSync

LEMMA PaperInSync ==
    ASSUME NEW d, NEW D, NEW S, NEW E, NEW n, Good(d, D, S, E, n),
           NEW p, NEW U, NEW Q, NEW r, NEW m,
           InSync(d, S, E, p, U, {m} \cup Q, r),
           m.type = "paper-changed", m.arg \in Paper,
           NoPaperComing(Q) => m.arg = p,
           NEW e, e = onPaperChanged(d, m.arg)
    PROVE  Good(e, D, S, E, n) /\ InSync(e, S, E, p, U, Q, r)
<1> DEFINE x == m.arg
<1>1. /\ Good(e, D, S, E, n) /\ e.replaying = d.replaying
      /\ SameInk(d, e) /\ SameLease(d, e)
      /\ e.confirmedPaper = x
      /\ e.pendingPaper = IF d.pendingPaper = x THEN NoPaper
                          ELSE d.pendingPaper
  <2>1. x \in Paper /\ e = onPaperChanged(d, x) OBVIOUS
  <2> HIDE DEF x
  <2> QED BY <2>1, OnPaperChangedFacts
<1>2. InkComes(e, U, Q, E)
  BY <1>1 DEF InSync, InkComes, EchoComing, DeleteComing, SameInk, SameLease
<1>3. Caught(e, S, E, Q, r)
  BY <1>1 DEF InSync, Caught, EchoComing, DeleteComing, SameInk
<1>4. PaperComes(e, p, U, Q)
  BY <1>1 DEF InSync, PaperComes, PaperComing
<1> QED BY <1>1, <1>2, <1>3, <1>4 DEF InSync

LEMMA LeaseInSync ==
    ASSUME NEW d, NEW S, NEW E, NEW p, NEW U, NEW Q, NEW r, NEW m,
           InSync(d, S, E, p, U, {m} \cup Q, r), m.type = "lease-changed"
    PROVE  InSync(d, S, E, p, U, Q, r)
<1>1. InkComes(d, U, Q, E)
  BY DEF InSync, InkComes, EchoComing, DeleteComing
<1>2. Caught(d, S, E, Q, r)
  BY DEF InSync, Caught, EchoComing, DeleteComing
<1>3. PaperComes(d, p, U, Q)
  BY DEF InSync, PaperComes, PaperComing, NoPaperComing
<1> QED BY <1>1, <1>2, <1>3 DEF InSync

\* Another editor has the lease.
LEMMA LostInSync ==
    ASSUME NEW d, NEW D, NEW S, NEW E, NEW n, Good(d, D, S, E, n),
           NEW p, NEW U, NEW Q, NEW r, InSync(d, S, E, p, U, Q, r),
           NEW e, e = Lose(d) \/ e = refuseLease(d)
    PROVE  Good(e, D, S, E, n) /\ InSync(e, S, E, p, U, Q, r)
<1>1. CASE e = Lose(d)
  <2>1. /\ Good(e, D, S, E, n) /\ e.replaying = d.replaying
        /\ SameInk(d, e) /\ SamePaper(d, e) /\ e.resend = d.resend
    BY <1>1, FlagFacts
  <2>2. InkComes(e, U, Q, E) BY <2>1 DEF InSync, InkComes, SameInk
  <2>3. Caught(e, S, E, Q, r) BY <2>1 DEF InSync, Caught, SameInk
  <2>4. PaperComes(e, p, U, Q) BY <2>1 DEF InSync, PaperComes, SamePaper
  <2> QED BY <2>1, <2>2, <2>3, <2>4 DEF InSync
<1>2. CASE e = refuseLease(d)
  <2>1. /\ Good(e, D, S, E, n) /\ e.replaying = d.replaying
        /\ Range(e.pending) \subseteq Range(d.pending)
        /\ e.seen = d.seen /\ e.confirmed = d.confirmed
        /\ Range(e.pending) # {} => e.resend
        /\ SamePaper(d, e)
    BY <1>2, RefuseLeaseFacts
  <2>2. InkComes(e, U, Q, E) BY <2>1 DEF InSync, InkComes
  <2>3. Caught(e, S, E, Q, r) BY <2>1 DEF InSync, Caught
  <2>4. PaperComes(e, p, U, Q) BY <2>1 DEF InSync, PaperComes, SamePaper
  <2> QED BY <2>1, <2>2, <2>3, <2>4 DEF InSync
<1> QED BY <1>1, <1>2

\* The lease is this session's: what it holds back is on its way.
LEMMA HeldInSync ==
    ASSUME NEW d, NEW D, NEW S, NEW E, NEW n, Good(d, D, S, E, n),
           NEW p, NEW U, NEW Q, NEW r, InSync(d, S, E, p, U, Q, r),
           NEW U2, U \subseteq U2, Range(ResendsOf(d)) \subseteq U2,
           NEW e, e = onLeaseHeld(d)
    PROVE  Good(e, D, S, E, n) /\ InSync(e, S, E, p, U2, Q, r)
<1>1. /\ Good(e, D, S, E, n) /\ e.replaying = d.replaying
      /\ SameInk(d, e) /\ SamePaper(d, e)
  BY OnLeaseHeldFacts
<1> DEFINE R == Range(ResendsOf(d))
<1>2. d.resend => \A s \in Range(d.pending) : CommitSent(R, s)
  BY ResendsFacts
<1>3. R \subseteq U2 OBVIOUS
<1> HIDE DEF R
<1>4. InkComes(e, U2, Q, E)
  BY <1>1, <1>2, <1>3 DEF InSync, InkComes, CommitSent, Waits, SameInk
<1>5. Caught(e, S, E, Q, r) BY <1>1 DEF InSync, Caught, SameInk
<1>6. PaperComes(e, p, U2, Q)
  BY <1>1 DEF InSync, PaperComes, PaperSent, SamePaper
<1> QED BY <1>1, <1>4, <1>5, <1>6 DEF InSync

LEMMA IInv_deliver ==
    ASSUME IInv, deliver
    PROVE  IInv'
<1> DEFINE m == Head(queue)
           U == Range(up)
           Q == Range(Tail(queue))
<1>1. /\ conn = "open" /\ queue # <<>> /\ queue' = Tail(queue)
      /\ UNCHANGED <<log, erased, paper, holder, old, conn, replayed, drawn>>
  BY DEF deliver, serverVars
<1>2. /\ queue \in Seq(Pushes) /\ up \in Seq(Requests)
      /\ DeletesFollow(queue, erased) /\ EndsWithPaper(queue, paper)
      /\ Len(queue) <= MaxQueue
  BY DEF IInv, ChannelOK
<1>3. /\ m \in Pushes /\ Tail(queue) \in Seq(Pushes)
      /\ Len(queue) \in Nat /\ Len(Tail(queue)) = Len(queue) - 1
      /\ Range(queue) = {m} \cup Q
  BY <1>1, <1>2, TailFacts
<1>4. /\ DeletesFollow(Tail(queue), erased)
      /\ m.type = "stroke-batch" /\ m.arg \in erased => DeleteComing(Q, m.arg)
  BY <1>1, <1>2, DeletesFollowTail
<1>5. /\ EndsWithPaper(Tail(queue), paper)
      /\ m.type = "paper-changed" /\ NoPaperComing(Q) => m.arg = paper
  BY <1>1, <1>2, EndsWithPaperTail
<1>6. /\ Good(c, drawn, Stored, erased, Len(log))
      /\ InSync(c, Stored, erased, paper, U, {m} \cup Q, replayed)
  BY <1>1, <1>3 DEF IInv, SessionOK
<1>7. Len(log) \in Nat /\ Stored \subseteq Strokes BY IInvFacts
<1>8. /\ m.type \in {"lease-changed", "stroke-batch", "tombstone-batch",
                     "paper-changed"}
      /\ m.type = "stroke-batch" =>
             m.arg \in Stored /\ m.seq \in Nat /\ m.seq <= Len(log)
      /\ m.type = "tombstone-batch" => m.arg \subseteq erased
      /\ m.type = "paper-changed" => m.arg \in Paper
  BY <1>3, <1>7, PushCases DEF Pushes
<1>9. SUFFICES /\ up' \in Seq(Requests)
               /\ Good(c', drawn, Stored, erased, Len(log))
               /\ InSync(c', Stored, erased, paper, Range(up'), Q, replayed)
  <2>1. /\ holder' \in {"none", "me", "old", "other"}
        /\ replayed' \in {"none", "whole", "gap"} /\ replayed' = replayed
        /\ old' \in [alive : BOOLEAN, up : Seq(Requests)]
        /\ queue' \in Seq(Pushes) /\ Len(queue') <= MaxQueue
        /\ DeletesFollow(queue', erased) /\ EndsWithPaper(queue', paper)
        /\ Range(queue') = Q
    <3>1. Len(Tail(queue)) <= MaxQueue
      <4>1. MaxQueue \in Nat BY SessionAssumption DEF SessionAssumption
      <4> QED BY <1>2, <1>3, <4>1
    <3> QED BY <1>1, <1>3, <1>4, <1>5, <3>1 DEF IInv, ServerOK, ChannelOK
  <2> QED BY <1>1, <2>1, OpenStep
<1> HIDE DEF Q
<1>10. CASE m.type = "stroke-batch"
  <2> DEFINE s == m.arg
             k == m.seq
  <2>1. /\ c' = onStrokeBatch(c, k, s) /\ up' = up
        /\ s \in Stored /\ k \in Nat /\ k <= Len(log) /\ m.arg = s
        /\ s \in erased => DeleteComing(Q, s)
    BY <1>4, <1>8, <1>10 DEF deliver
  <2> HIDE DEF m, U, s, k
  <2>2. /\ Good(c', drawn, Stored, erased, Len(log))
        /\ InSync(c', Stored, erased, paper, U, Q, replayed)
    BY <1>6, <1>7, <1>10, <2>1, StrokeInSync
  <2> QED BY <1>2, <2>1, <2>2 DEF U
<1>11. CASE m.type = "tombstone-batch"
  <2>1. c' = onTombstoneBatch(c, m.arg) /\ up' = up BY <1>11 DEF deliver
  <2> HIDE DEF m, U
  <2>2. /\ Good(c', drawn, Stored, erased, Len(log))
        /\ InSync(c', Stored, erased, paper, U, Q, replayed)
    BY <1>6, <1>8, <1>11, <2>1, TombstonesInSync
  <2> QED BY <1>2, <2>1, <2>2 DEF U
<1>12. CASE m.type = "paper-changed"
  <2>1. c' = onPaperChanged(c, m.arg) /\ up' = up BY <1>12 DEF deliver
  <2> HIDE DEF m, U
  <2>2. /\ Good(c', drawn, Stored, erased, Len(log))
        /\ InSync(c', Stored, erased, paper, U, Q, replayed)
    BY <1>5, <1>6, <1>8, <1>12, <2>1, PaperInSync
  <2> QED BY <1>2, <2>1, <2>2 DEF U
<1>13. CASE m.type = "lease-changed"
  <2>1. HearsLease(m.arg) BY <1>13 DEF deliver
  <2> HIDE DEF m
  <2>2. InSync(c, Stored, erased, paper, U, Q, replayed)
    <3> HIDE DEF U
    <3> QED BY <1>6, <1>13, LeaseInSync
  <2>3. CASE m.arg = "none"
    <3> DEFINE a == Lease("acquire-lease")
               e == Hope(c)
    <3>1. c' = e /\ up' = Append(up, a) BY <2>1, <2>3 DEF HearsLease, Hope
    <3>2. a \in Requests BY RequestOf DEF Requests
    <3> HIDE DEF a, e
    <3>3. up' \in Seq(Requests) /\ U \subseteq Range(up')
      BY <1>2, <3>1, <3>2, AddFacts
    <3>4. /\ Good(e, drawn, Stored, erased, Len(log))
          /\ e.replaying = c.replaying
          /\ SameInk(c, e) /\ SameLease(c, e) /\ SamePaper(c, e)
      BY <1>6, FlagFacts DEF e
    <3> DEFINE U2 == Range(up')
    <3> HIDE DEF U, U2
    <3>5. InSync(e, Stored, erased, paper, U2, Q, replayed)
      BY <2>2, <3>3, <3>4, SendsInSync DEF U2
    <3> QED BY <3>1, <3>3, <3>4, <3>5 DEF U2
  <2>4. CASE m.arg = "me"
    <3> DEFINE more == ResendsOf(c)
               U2 == Range(up')
    <3>1. c' = onLeaseHeld(c) /\ up' = up \o more
      BY <2>1, <2>4 DEF HearsLease
    <3>2. more \in Seq(Requests) BY <1>6, ResendsFacts DEF Requests
    <3>3. up' \in Seq(Requests) /\ U2 = U \cup Range(more)
      <4> HIDE DEF more
      <4> QED BY <1>2, <3>1, <3>2, JoinFacts
    <3>4. U \subseteq U2 /\ Range(ResendsOf(c)) \subseteq U2 BY <3>3
    <3> HIDE DEF U, U2
    <3>5. /\ Good(c', drawn, Stored, erased, Len(log))
          /\ InSync(c', Stored, erased, paper, U2, Q, replayed)
      BY <1>6, <2>2, <3>1, <3>4, HeldInSync
    <3> QED BY <3>3, <3>5 DEF U2
  <2>5. CASE m.arg \notin {"none", "me"}
    <3>1. up' = up /\ (c' = Lose(c) \/ c' = refuseLease(c))
      BY <2>1, <2>5 DEF HearsLease, Lose
    <3> HIDE DEF U
    <3>2. /\ Good(c', drawn, Stored, erased, Len(log))
          /\ InSync(c', Stored, erased, paper, U, Q, replayed)
      BY <1>6, <2>2, <3>1, LostInSync
    <3> QED BY <1>2, <3>1, <3>2 DEF U
  <2> QED BY <2>3, <2>4, <2>5
<1> QED BY <1>8, <1>10, <1>11, <1>12, <1>13

-----------------------------------------------------------------------------
(* The theorems.                                                           *)

LEMMA IInv_Next ==
    ASSUME IInv, SessionAssumption, [Next]_vars
    PROVE  IInv'
<1>1. CASE UNCHANGED vars
  <2>1. UNCHANGED <<log, erased, paper, holder, old, conn, up, queue,
                    replayed, c, drawn>>
    BY <1>1 DEF vars, serverVars
  <2>2. /\ Stored' = Stored /\ Requests' = Requests /\ Pushes' = Pushes
        /\ Connected' = Connected
    BY <2>1 DEF Stored, Requests, Pushes, Connected
  <2>3. ServerOK' BY <2>1, <2>2 DEF IInv, ServerOK
  <2>4. ChannelOK' BY <2>1, <2>2 DEF IInv, ChannelOK
  <2>5. SessionOK' BY <2>1, <2>2 DEF IInv, SessionOK
  <2> QED BY <2>1, <2>2, <2>3, <2>4, <2>5 DEF IInv
<1>2. CASE Next
  <2>1. CASE \E s \in Mine : commitStroke(s) BY <2>1, IInv_commitStroke
  <2>2. CASE \E p \in Paper : setPaper(p) BY <2>2, IInv_setPaper
  <2>3. CASE \E s \in Strokes : eraseStrokes(s) BY <2>3, IInv_eraseStrokes
  <2>4. CASE renewLease BY <2>4, IInv_renewLease
  <2>5. CASE disconnect BY <2>5, IInv_disconnect
  <2>6. CASE open BY <2>6, IInv_open
  <2>7. CASE welcome BY <2>7, IInv_welcome
  <2>8. CASE \E lingers \in BOOLEAN : lose_socket(lingers)
    BY <2>8, IInv_lose_socket
  <2>9. CASE \E w \in {"me", "old"} : Serve(w)
    <3>1. PICK w \in {"me", "old"} : Serve(w) BY <2>9
    <3>2. CASE acquire_lease(w) BY <3>2, IInv_acquire_lease
    <3>3. CASE deny_lease(w) BY <3>3, IInv_deny_lease
    <3>4. CASE commit_batch(w) BY <3>4, IInv_commit_batch
    <3>5. CASE commit_tombstones(w) BY <3>5, IInv_commit_tombstones
    <3>6. CASE set_paper(w) BY <3>6, IInv_set_paper
    <3>7. CASE mutation_fails(w) BY <3>7, IInv_mutation_fails
    <3>8. CASE replay_page(w) BY <3>8, IInv_replay_page
    <3>9. CASE replay_fails(w) BY <3>9, IInv_replay_fails
    <3> QED
      BY <3>1, <3>2, <3>3, <3>4, <3>5, <3>6, <3>7, <3>8, <3>9 DEF Serve
  <2>10. CASE deliver BY <2>10, IInv_deliver
  <2>11. CASE notice_lost BY <2>11, IInv_notice_lost
  <2>12. CASE expire BY <2>12, IInv_expire
  <2>13. CASE Other
    <3>1. CASE \E announced \in BOOLEAN : other_takes(announced)
      BY <3>1, IInv_other_takes
    <3>2. CASE \E s \in Theirs : other_draws(s) BY <3>2, IInv_other_draws
    <3>3. CASE \E s \in Strokes : other_erases(s) BY <3>3, IInv_other_erases
    <3>4. CASE other_releases BY <3>4, IInv_other_releases
    <3> QED BY <2>13, <3>1, <3>2, <3>3, <3>4 DEF Other
  <2>14. CASE open_without_token BY <2>14, IInv_open_without_token
  <2> QED
    BY <1>2, <2>1, <2>2, <2>3, <2>4, <2>5, <2>6, <2>7, <2>8, <2>9, <2>10,
       <2>11, <2>12, <2>13, <2>14
    DEF Next
<1> QED BY <1>1, <1>2

\* The inductive invariant of the session, the channel and the page.
THEOREM SessionInvariant == Spec => []IInv
<1>1. Init => IInv BY Init_IInv, SessionAssumption
<1>2. IInv /\ [Next]_vars => IInv' BY IInv_Next, SessionAssumption
<1> QED BY <1>1, <1>2, PTL DEF Spec

\* PageInkSession: the session stays typed, and on a quiet channel with the
\* lease it holds no ink back: resendPending has sent whatever waited for
\* onLeaseHeld, and each stroke was echoed, erased or refused.
THEOREM SessionSound == Spec => []SessionIsSound
<1>1. IInv => SessionIsSound
  BY IInv_TypeOK, IInv_NoInkIsStuck DEF SessionIsSound
<1> QED BY <1>1, SessionInvariant, PTL

\* PageInkSession: after a whole replay, once the channel is quiet, the
\* canvas shows exactly the visible strokes of the page, besides the
\* session's own unacknowledged edits, and the page's paper.
THEOREM ScreenFollowsPage == Spec => []ScreenMatchesPage
<1>1. IInv => ScreenMatchesPage BY IInv_ScreenMatchesPage
<1> QED BY <1>1, SessionInvariant, PTL
=============================================================================
