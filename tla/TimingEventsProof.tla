------------------------- MODULE TimingEventsProof --------------------------
(***************************************************************************)
(* Proofs about TimingEvents: the list of active events stays a list of    *)
(* the active events, and ticks are conserved, for any set of events,      *)
(* whatever instructions and callbacks do to them.  As long as callbacks   *)
(* change only their own event, the list is also in order and no event is  *)
(* told of a negative number of ticks.                                     *)
(***************************************************************************)
EXTENDS TimingEvents, SequenceTheorems, WellFoundedInduction, TLAPS

-----------------------------------------------------------------------------
(* Where an event is linked in is a place in the list.                     *)

\* A set of natural numbers has a least one (FirstNotBefore).
LEMMA LeastExists ==
  ASSUME NEW S \in SUBSET Nat, S # {}
  PROVE  \E x \in S : \A y \in S : x <= y
<1>1. \A a, b \in Nat : a < b => <<a, b>> \in OpToRel(<, Nat)
  BY DEF OpToRel
<1>2. PICK x \in S : \A y \in S : <<y, x>> \notin OpToRel(<, Nat)
  BY WFMin, NatLessThanWellFounded, Zenon
<1>3. \A y \in S : ~(y < x)
  BY <1>1, <1>2
<1>4. \A y \in S : x <= y
  <2> TAKE y \in S
  <2>1. x \in Nat /\ y \in Nat /\ ~(y < x)
    BY <1>3
  <2> QED BY <2>1
<1> QED
  BY <1>4

LEMMA MinIsMember ==
  ASSUME NEW S \in SUBSET Nat, S # {}
  PROVE  Min(S) \in S /\ \A y \in S : Min(S) <= y
BY LeastExists, Zenon DEF Min

\* A bounded one has a greatest (LastNotAfter).
LEMMA MaxIsMember ==
  ASSUME NEW n \in Nat, NEW S \in SUBSET (0 .. n), S # {}
  PROVE  Max(S) \in S /\ \A y \in S : Max(S) >= y
<1> DEFINE T == {n - x : x \in S}
<1>1. T \in SUBSET Nat /\ T # {}
  <2>1. \A x \in S : x \in 0 .. n
    OBVIOUS
  <2>2. \A x \in S : n - x \in Nat
    BY <2>1
  <2> QED BY <2>2
<1>2. PICK t \in T : \A u \in T : t <= u
  <2> HIDE DEF T
  <2> QED BY <1>1, LeastExists
<1>3. PICK x \in S : t = n - x
  OBVIOUS
<1>4. \A y \in S : x >= y
  <2> TAKE y \in S
  <2>1. n - x <= n - y
    BY <1>2, <1>3
  <2>2. x \in 0 .. n /\ y \in 0 .. n
    OBVIOUS
  <2> QED BY <2>1, <2>2
<1> QED
  BY <1>4, Zenon DEF Max

LEMMA FirstNotBeforeInRange ==
  ASSUME NEW q \in Seq(Events), NEW dc, NEW d
  PROVE  FirstNotBefore(q, dc, d) \in 1 .. Len(q) + 1
<1> DEFINE S == {i \in DOMAIN q : dc[q[i]] >= d} \union {Len(q) + 1}
<1>1. S \in SUBSET (1 .. Len(q) + 1) /\ S # {}
  OBVIOUS
<1>2. Min(S) \in S
  <2>1. S \in SUBSET Nat
    BY <1>1
  <2> HIDE DEF S
  <2> QED BY <1>1, <2>1, MinIsMember
<1> QED
  BY <1>1, <1>2 DEF FirstNotBefore

LEMMA LastNotAfterInRange ==
  ASSUME NEW q \in Seq(Events), NEW dc, NEW d
  PROVE  LastNotAfter(q, dc, d) \in 0 .. Len(q)
<1> DEFINE S == {i \in DOMAIN q : dc[q[i]] <= d} \union {0}
<1>1. S \in SUBSET (0 .. Len(q)) /\ S # {}
  OBVIOUS
<1>2. Max(S) \in S
  <2>1. Len(q) \in Nat
    OBVIOUS
  <2> HIDE DEF S
  <2> QED BY <1>1, <2>1, MaxIsMember
<1> QED
  BY <1>1, <1>2 DEF LastNotAfter

-----------------------------------------------------------------------------
(* Linking and unlinking keep a list a list.                               *)

\* What inserting and removing do to a sequence.
LEMMA InsertAtShape ==
  ASSUME NEW q \in Seq(Events), NEW e \in Events, NEW i \in 1 .. Len(q) + 1
  PROVE  /\ InsertAt(q, i, e) \in Seq(Events) /\ Len(InsertAt(q, i, e)) = Len(q) + 1
         /\ \A k \in 1 .. Len(InsertAt(q, i, e)) :
              InsertAt(q, i, e)[k] = IF k < i THEN q[k] ELSE IF k = i THEN e ELSE q[k - 1]
<1>0. q \in Seq(Events) /\ i \in Nat /\ Len(q) \in Nat
  OBVIOUS
<1> DEFINE a == SubSeq(q, 1, i - 1)
           b == SubSeq(q, i, Len(q))
           c == a \o <<e>>
<1>1. /\ a \in Seq(Events) /\ Len(a) = i - 1
      /\ \A k \in 1 .. i - 1 : a[k] = q[k]
  BY <1>0
<1>2. /\ b \in Seq(Events) /\ Len(b) = Len(q) - i + 1
      /\ \A k \in 1 .. Len(b) : b[k] = q[k + i - 1]
  BY <1>0
<1> HIDE DEF a, b
<1>3. /\ c \in Seq(Events) /\ Len(c) = i
      /\ \A k \in 1 .. i : c[k] = IF k < i THEN q[k] ELSE e
  BY <1>0, <1>1
<1> HIDE DEF c
<1>4. /\ c \o b \in Seq(Events) /\ Len(c \o b) = Len(q) + 1
      /\ \A k \in 1 .. Len(q) + 1 : (c \o b)[k] = IF k <= i THEN c[k] ELSE b[k - i]
  <2>1. Len(c) + Len(b) = Len(q) + 1
    BY <1>0, <1>2, <1>3
  <2>2. /\ c \o b \in Seq(Events) /\ Len(c \o b) = Len(c) + Len(b)
        /\ \A k \in 1 .. Len(c) + Len(b) :
             (c \o b)[k] = IF k <= Len(c) THEN c[k] ELSE b[k - Len(c)]
    BY <1>2, <1>3, ConcatProperties
  <2>3. Len(c) = i
    BY <1>3
  <2> QED BY <2>1, <2>2, <2>3, Zenon
<1>5. \A k \in 1 .. Len(q) + 1 :
        (c \o b)[k] = IF k < i THEN q[k] ELSE IF k = i THEN e ELSE q[k - 1]
  <2> TAKE k \in 1 .. Len(q) + 1
  <2>1. CASE k <= i
    BY <1>0, <1>3, <1>4, <2>1
  <2>2. CASE k > i
    <3>1. k - i \in 1 .. Len(b) /\ (k - i) + i - 1 = k - 1
      BY <1>0, <1>2, <2>2
    <3>2. b[k - i] = q[k - 1]
      BY <1>2, <3>1
    <3> QED BY <1>0, <1>4, <2>2, <3>2
  <2>3. k <= i \/ k > i
    BY <1>0
  <2> QED BY <2>1, <2>2, <2>3, Zenon
<1> QED BY <1>4, <1>5 DEF InsertAt, a, b, c

LEMMA RemoveAtShape ==
  ASSUME NEW q \in Seq(Events), NEW i \in 1 .. Len(q)
  PROVE  /\ RemoveAt(q, i) \in Seq(Events) /\ Len(RemoveAt(q, i)) = Len(q) - 1
         /\ \A k \in 1 .. Len(RemoveAt(q, i)) :
              RemoveAt(q, i)[k] = IF k < i THEN q[k] ELSE q[k + 1]
<1>0. q \in Seq(Events) /\ Len(q) \in Nat /\ i \in 1 .. Len(q)
  OBVIOUS
<1> DEFINE a == SubSeq(q, 1, i - 1)
           b == SubSeq(q, i + 1, Len(q))
<1>1. /\ a \in Seq(Events) /\ Len(a) = i - 1
      /\ \A k \in 1 .. i - 1 : a[k] = q[k]
  BY <1>0
<1>2. /\ b \in Seq(Events) /\ Len(b) = Len(q) - i
      /\ \A k \in 1 .. Len(b) : b[k] = q[k + i]
  BY <1>0
<1> HIDE DEF a, b
<1>3. /\ a \o b \in Seq(Events) /\ Len(a \o b) = Len(q) - 1
      /\ \A k \in 1 .. Len(q) - 1 : (a \o b)[k] = IF k < i THEN a[k] ELSE b[k - i + 1]
  <2>1. Len(a) + Len(b) = Len(q) - 1
    BY <1>0, <1>1, <1>2
  <2>2. \A k \in 1 .. Len(q) - 1 : (k <= Len(a) <=> k < i) /\ k - Len(a) = k - i + 1
    BY <1>0, <1>1
  <2>3. /\ a \o b \in Seq(Events) /\ Len(a \o b) = Len(a) + Len(b)
        /\ \A k \in 1 .. Len(a) + Len(b) :
             (a \o b)[k] = IF k <= Len(a) THEN a[k] ELSE b[k - Len(a)]
    BY <1>1, <1>2, ConcatProperties
  <2> QED BY <2>1, <2>2, <2>3
<1>4. \A k \in 1 .. Len(q) - 1 : (a \o b)[k] = IF k < i THEN q[k] ELSE q[k + 1]
  <2> TAKE k \in 1 .. Len(q) - 1
  <2>1. CASE k < i
    BY <1>0, <1>1, <1>3, <2>1
  <2>2. CASE k >= i
    <3>1. k - i + 1 \in 1 .. Len(b) /\ (k - i + 1) + i = k + 1
      BY <1>0, <1>2, <2>2
    <3>2. b[k - i + 1] = q[k + 1]
      BY <1>2, <3>1
    <3> QED BY <1>0, <1>3, <2>2, <3>2
  <2>3. k < i \/ k >= i
    BY <1>0
  <2> QED BY <2>1, <2>2, <2>3, Zenon
<1> QED BY <1>3, <1>4 DEF RemoveAt, a, b

LEMMA InsertAtIsList ==
  ASSUME NEW A, NEW q, IsList(q, A), NEW e \in Events, e \notin A,
         NEW i \in 1 .. Len(q) + 1
  PROVE  IsList(InsertAt(q, i, e), A \union {e})
<1> DEFINE r == InsertAt(q, i, e)
<1>1. q \in Seq(Events) /\ i \in Nat /\ Len(q) \in Nat
  BY DEF IsList
<1>2. /\ r \in Seq(Events) /\ Len(r) = Len(q) + 1
      /\ \A k \in 1 .. Len(r) : r[k] = IF k < i THEN q[k] ELSE IF k = i THEN e ELSE q[k - 1]
  BY <1>1, InsertAtShape
<1> HIDE DEF r
<1>3. /\ \A k \in 1 .. Len(q) : q[k] \in A /\ q[k] # e
      /\ \A j, k \in 1 .. Len(q) : q[j] = q[k] => j = k
  BY <1>1 DEF IsList, ToSet
<1>4. ToSet(r) = A \union {e}
  <2>1. ToSet(r) \subseteq A \union {e}
    <3>1. \A k \in 1 .. Len(r) : r[k] \in A \union {e}
      <4> TAKE k \in 1 .. Len(r)
      <4>1. CASE k < i
        <5>1. k \in 1 .. Len(q) /\ r[k] = q[k]
          BY <1>1, <1>2, <4>1
        <5> QED BY <1>3, <5>1
      <4>2. CASE k = i
        BY <1>1, <1>2, <4>2
      <4>3. CASE k > i
        <5>1. k - 1 \in 1 .. Len(q) /\ r[k] = q[k - 1]
          BY <1>1, <1>2, <4>3
        <5> QED BY <1>3, <5>1
      <4> QED BY <1>1, <4>1, <4>2, <4>3
    <3> QED BY <1>2, <3>1 DEF ToSet
  <2>2. e \in ToSet(r)
    BY <1>1, <1>2 DEF ToSet
  <2>3. \A x \in A : x \in ToSet(r)
    <3> TAKE x \in A
    <3>1. PICK k \in 1 .. Len(q) : q[k] = x
      BY <1>1 DEF IsList, ToSet
    <3> DEFINE at == IF k < i THEN k ELSE k + 1
    <3>2. at \in 1 .. Len(r) /\ r[at] = x
      BY <1>1, <1>2, <3>1
    <3> HIDE DEF at
    <3>3. DOMAIN r = 1 .. Len(r)
      BY <1>2
    <3> QED
      BY <3>2, <3>3 DEF ToSet
  <2> QED BY <2>1, <2>2, <2>3
<1>5. \A j, k \in 1 .. Len(r) : r[j] = r[k] => j = k
  <2> SUFFICES ASSUME NEW j \in 1 .. Len(r), NEW k \in 1 .. Len(r), r[j] = r[k], j # k
               PROVE FALSE
    OBVIOUS
  <2> DEFINE at(m) == IF m < i THEN m ELSE m - 1
  <2>1. CASE j = i \/ k = i
    <3>1. \A m \in 1 .. Len(r) : m # i => r[m] # e
      <4> TAKE m \in 1 .. Len(r)
      <4>1. CASE m < i
        BY <1>1, <1>2, <1>3, <4>1
      <4>2. CASE m > i
        <5>1. m - 1 \in 1 .. Len(q) /\ r[m] = q[m - 1]
          BY <1>1, <1>2, <4>2
        <5> QED BY <1>3, <5>1
      <4> QED BY <1>1, <4>1, <4>2
    <3>2. r[i] = e
      BY <1>1, <1>2
    <3> QED BY <2>1, <3>1, <3>2
  <2>2. CASE j # i /\ k # i
    <3>1. /\ at(j) \in 1 .. Len(q) /\ r[j] = q[at(j)]
          /\ at(k) \in 1 .. Len(q) /\ r[k] = q[at(k)]
          /\ at(j) # at(k)
      BY <1>1, <1>2, <2>2
    <3> HIDE DEF at
    <3> QED BY <1>3, <3>1
  <2> QED BY <2>1, <2>2
<1> QED
  BY <1>2, <1>4, <1>5 DEF IsList, r

LEMMA RemoveIsList ==
  ASSUME NEW A, NEW q, IsList(q, A), NEW e \in A
  PROVE  IsList(RemoveActiveEvent(q, e), A \ {e})
<1> DEFINE i == Position(q, e)
           r == RemoveActiveEvent(q, e)
<1>1. q \in Seq(Events) /\ Len(q) \in Nat /\ i \in 1 .. Len(q) /\ q[i] = e
  BY DEF IsList, ToSet, Position
<1>2. /\ r \in Seq(Events) /\ Len(r) = Len(q) - 1
      /\ \A k \in 1 .. Len(r) : r[k] = IF k < i THEN q[k] ELSE q[k + 1]
  BY <1>1, RemoveAtShape DEF RemoveActiveEvent
<1> HIDE DEF r, i
<1>3. ToSet(r) = A \ {e}
  <2>1. \A k \in 1 .. Len(r) : r[k] \in A \ {e}
    <3>1. \A k \in 1 .. Len(q) : k # i => q[k] \in A \ {e}
      BY <1>1 DEF IsList, ToSet
    <3> TAKE k \in 1 .. Len(r)
    <3>2. CASE k < i
      BY <1>1, <1>2, <3>1, <3>2
    <3>3. CASE ~(k < i)
      <4>1. k + 1 \in 1 .. Len(q) /\ k + 1 # i /\ r[k] = q[k + 1]
        BY <1>1, <1>2, <3>3
      <4> QED BY <3>1, <4>1
    <3> QED BY <3>2, <3>3
  <2>2. \A x \in A \ {e} : x \in ToSet(r)
    <3> TAKE x \in A \ {e}
    <3>1. PICK k \in 1 .. Len(q) : q[k] = x /\ k # i
      BY <1>1 DEF IsList, ToSet
    <3> DEFINE at == IF k < i THEN k ELSE k - 1
    <3>2. at \in 1 .. Len(r) /\ r[at] = x
      BY <1>1, <1>2, <3>1
    <3> HIDE DEF at
    <3>3. DOMAIN r = 1 .. Len(r)
      BY <1>2
    <3> QED
      BY <3>2, <3>3 DEF ToSet
  <2>3. \A x \in ToSet(r) : x \in A \ {e}
    <3>1. DOMAIN r = 1 .. Len(r)
      BY <1>2
    <3> QED BY <2>1, <3>1 DEF ToSet
  <2> QED BY <2>2, <2>3
<1>4. \A j, k \in 1 .. Len(r) : r[j] = r[k] => j = k
  <2> TAKE j, k \in 1 .. Len(r)
  <2> DEFINE at(m) == IF m < i THEN m ELSE m + 1
  <2>1. \A l, m \in 1 .. Len(q) : q[l] = q[m] => l = m
    BY <1>1 DEF IsList
  <2>2. /\ at(j) \in 1 .. Len(q) /\ r[j] = q[at(j)]
        /\ at(k) \in 1 .. Len(q) /\ r[k] = q[at(k)]
        /\ at(j) = at(k) => j = k
    BY SMTT(30), <1>1, <1>2
  <2> HIDE DEF at
  <2> QED BY <2>1, <2>2
<1> QED
  BY <1>2, <1>3, <1>4 DEF IsList, r

LEMMA AddIsList ==
  ASSUME NEW A, NEW q, IsList(q, A), NEW e \in Events, e \notin A, NEW dc
  PROVE  IsList(AddActiveEvent(q, e, dc), A \union {e})
<1>1. FirstNotBefore(q, dc, dc[e]) \in 1 .. Len(q) + 1
  BY FirstNotBeforeInRange DEF IsList
<1> QED
  BY <1>1, InsertAtIsList DEF AddActiveEvent

LEMMA ConcatIsList ==
  ASSUME NEW A, NEW B, A \intersect B = {}, NEW s, NEW t, IsList(s, A), IsList(t, B)
  PROVE  IsList(s \o t, A \union B)
<1> DEFINE r == s \o t
<1>1. s \in Seq(Events) /\ t \in Seq(Events) /\ Len(s) \in Nat /\ Len(t) \in Nat
  BY DEF IsList
<1>2. /\ r \in Seq(Events) /\ Len(r) = Len(s) + Len(t)
      /\ \A k \in 1 .. Len(r) : r[k] = IF k <= Len(s) THEN s[k] ELSE t[k - Len(s)]
  BY <1>1
<1> HIDE DEF r
<1>3. /\ \A k \in 1 .. Len(s) : s[k] \in A
      /\ \A k \in 1 .. Len(t) : t[k] \in B
  BY <1>1 DEF IsList, ToSet
<1>4. ToSet(r) = A \union B
  <2>1. \A k \in 1 .. Len(r) : r[k] \in A \union B
    BY <1>1, <1>2, <1>3
  <2>2. \A x \in A : x \in ToSet(r)
    <3> TAKE x \in A
    <3>1. PICK k \in 1 .. Len(s) : s[k] = x
      BY <1>1 DEF IsList, ToSet
    <3> QED BY <1>1, <1>2, <3>1 DEF ToSet
  <2>3. \A x \in B : x \in ToSet(r)
    <3> TAKE x \in B
    <3>1. PICK k \in 1 .. Len(t) : t[k] = x
      BY <1>1 DEF IsList, ToSet
    <3>2. r[k + Len(s)] = x /\ k + Len(s) \in 1 .. Len(r)
      BY <1>1, <1>2, <3>1
    <3> QED BY <1>2, <3>2 DEF ToSet
  <2> QED BY <1>2, <2>1, <2>2, <2>3 DEF ToSet
<1>5. \A j, k \in 1 .. Len(r) : r[j] = r[k] => j = k
  <2> TAKE j, k \in 1 .. Len(r)
  <2>1. /\ \A l, m \in 1 .. Len(s) : s[l] = s[m] => l = m
        /\ \A l, m \in 1 .. Len(t) : t[l] = t[m] => l = m
        /\ \A l \in 1 .. Len(s), m \in 1 .. Len(t) : s[l] # t[m]
    BY <1>1, <1>3 DEF IsList
  <2>2. CASE j <= Len(s) /\ k <= Len(s)
    BY <1>1, <1>2, <2>1, <2>2
  <2>3. CASE j <= Len(s) /\ k > Len(s)
    <3>1. k - Len(s) \in 1 .. Len(t) /\ j \in 1 .. Len(s) /\ r[j] = s[j] /\ r[k] = t[k - Len(s)]
      BY <1>1, <1>2, <2>3
    <3> QED BY <2>1, <3>1
  <2>4. CASE j > Len(s) /\ k <= Len(s)
    <3>1. j - Len(s) \in 1 .. Len(t) /\ k \in 1 .. Len(s) /\ r[k] = s[k] /\ r[j] = t[j - Len(s)]
      BY <1>1, <1>2, <2>4
    <3> QED BY <2>1, <3>1
  <2>5. CASE j > Len(s) /\ k > Len(s)
    <3>1. /\ j - Len(s) \in 1 .. Len(t) /\ r[j] = t[j - Len(s)]
          /\ k - Len(s) \in 1 .. Len(t) /\ r[k] = t[k - Len(s)]
      BY <1>1, <1>2, <2>5
    <3>2. r[j] = r[k] => j - Len(s) = k - Len(s)
      BY <2>1, <3>1
    <3> QED BY <1>1, <3>2
  <2> QED BY <1>1, <1>2, <2>2, <2>3, <2>4, <2>5
<1> QED
  BY <1>2, <1>4, <1>5 DEF IsList, r

\* The part of a list between two places.
LEMMA PartIsList ==
  ASSUME NEW A, NEW q, IsList(q, A), NEW m \in 1 .. Len(q) + 1, NEW n \in 0 .. Len(q)
  PROVE  IsList(SubSeq(q, m, n), {q[k] : k \in m .. n})
<1> DEFINE r == SubSeq(q, m, n)
<1>1. q \in Seq(Events) /\ Len(q) \in Nat
  BY DEF IsList
<1>2. /\ r \in Seq(Events)
      /\ Len(r) = IF m <= n THEN n - m + 1 ELSE 0
      /\ \A k \in 1 .. Len(r) : r[k] = q[k + m - 1]
  BY <1>1
<1> HIDE DEF r
<1>3. ToSet(r) = {q[k] : k \in m .. n}
  <2>1. \A k \in 1 .. Len(r) : k + m - 1 \in m .. n
    BY <1>1, <1>2
  <2>2. \A k \in m .. n : k - m + 1 \in 1 .. Len(r) /\ r[k - m + 1] = q[k]
    BY <1>1, <1>2
  <2>3. \A k \in 1 .. Len(r) : r[k] \in {q[l] : l \in m .. n}
    BY <1>2, <2>1
  <2>4. DOMAIN r = 1 .. Len(r)
    BY <1>2
  <2> QED BY <2>2, <2>3, <2>4 DEF ToSet
<1>4. \A j, k \in 1 .. Len(r) : r[j] = r[k] => j = k
  <2>1. \A l, k \in 1 .. Len(q) : q[l] = q[k] => l = k
    BY <1>1 DEF IsList
  <2>2. \A k \in 1 .. Len(r) : k + m - 1 \in 1 .. Len(q) /\ r[k] = q[k + m - 1]
    BY <1>1, <1>2
  <2>3. \A j, k \in 1 .. Len(r) : r[j] = r[k] => j + m - 1 = k + m - 1
    BY <2>1, <2>2
  <2> QED BY <1>1, <1>2, <2>3
<1> QED
  BY SMTT(30), <1>2, <1>3, <1>4 DEF IsList, r

LEMMA SortIsList ==
  ASSUME NEW A, NEW q, IsList(q, A), NEW e \in Events, NEW dc
  PROVE  IsList(SortEvent(q, e, dc), A)
<1> DEFINE i == Position(q, e)
           before == SubSeq(q, 1, i - 1)
           after == SubSeq(q, i + 1, Len(q))
           B == {q[k] : k \in 1 .. i - 1}
           C == {q[k] : k \in i + 1 .. Len(q)}
<1>1. CASE e \notin ToSet(q)
  BY <1>1 DEF SortEvent
<1>2. CASE e \in ToSet(q)
  <2>1. q \in Seq(Events) /\ Len(q) \in Nat /\ i \in 1 .. Len(q) /\ q[i] = e
    BY <1>2 DEF IsList, ToSet, Position
  <2> HIDE DEF i
  <2>2. IsList(before, B) /\ IsList(after, C)
    BY <2>1, PartIsList
  <2>3. e \notin B /\ e \notin C /\ B \intersect C = {}
    BY <2>1 DEF IsList
  <2>4. B \union C \union {e} = A
    BY <2>1 DEF IsList, ToSet
  <2> HIDE DEF before, after, B, C
  <2>5. IsList(AddActiveEvent(after, e, dc), C \union {e})
    BY <2>2, <2>3, AddIsList
  <2>6. IsList(before \o AddActiveEvent(after, e, dc), A)
    <3>1. B \intersect (C \union {e}) = {} /\ B \union (C \union {e}) = A
      BY <2>3, <2>4
    <3> QED BY <2>2, <2>5, <3>1, ConcatIsList
  <2>7. IsList(InsertAt(before, LastNotAfter(before, dc, dc[e]) + 1, e), B \union {e})
    <3>1. LastNotAfter(before, dc, dc[e]) + 1 \in 1 .. Len(before) + 1
      <4>1. before \in Seq(Events)
        BY <2>2 DEF IsList
      <4> QED BY <4>1, LastNotAfterInRange
    <3> QED BY <2>2, <2>3, <3>1, InsertAtIsList
  <2>8. IsList(InsertAt(before, LastNotAfter(before, dc, dc[e]) + 1, e) \o after, A)
    <3>1. (B \union {e}) \intersect C = {} /\ (B \union {e}) \union C = A
      BY <2>3, <2>4
    <3> QED BY <2>2, <2>7, <3>1, ConcatIsList
  <2> QED
    BY <1>2, <2>6, <2>8, Zenon DEF SortEvent, before, after, i
<1> QED
  BY <1>1, <1>2

-----------------------------------------------------------------------------
(* Linking, unlinking and sorting keep a list in order.                    *)

Sorted(q, dc) == \A i, j \in 1 .. Len(q) : i < j => dc[q[i]] <= dc[q[j]]

\* While its callback runs an event may be anywhere.
SortedBut(q, e, dc) ==
  \A i, j \in 1 .. Len(q) : i < j /\ q[i] # e /\ q[j] # e => dc[q[i]] <= dc[q[j]]

LEMMA SeqElements ==
  ASSUME NEW q \in Seq(Events), NEW dc \in [Events -> Int]
  PROVE  Len(q) \in Nat /\ \A k \in 1 .. Len(q) : q[k] \in Events /\ dc[q[k]] \in Int
<1>1. Len(q) \in Nat /\ \A k \in 1 .. Len(q) : q[k] \in Events
  BY ElementOfSeq
<1> QED
  BY <1>1

LEMMA InsertOrder ==
  ASSUME NEW q \in Seq(Events), NEW e \in Events, NEW dc \in [Events -> Int],
         NEW i \in 1 .. Len(q) + 1, Sorted(q, dc),
         \A k \in 1 .. Len(q) : /\ k < i => dc[q[k]] <= dc[e]
                                /\ k >= i => dc[e] <= dc[q[k]]
  PROVE  Sorted(InsertAt(q, i, e), dc)
<1> DEFINE r == InsertAt(q, i, e)
<1>1. /\ Len(q) \in Nat /\ i \in Nat /\ dc[e] \in Int
      /\ \A k \in 1 .. Len(q) : dc[q[k]] \in Int
  BY SeqElements
<1>2. /\ Len(r) = Len(q) + 1
      /\ \A k \in 1 .. Len(r) : r[k] = IF k < i THEN q[k] ELSE IF k = i THEN e ELSE q[k - 1]
  BY ZenonT(60), InsertAtShape
<1> HIDE DEF r
<1> SUFFICES ASSUME NEW m \in 1 .. Len(r), NEW n \in 1 .. Len(r), m < n
             PROVE  dc[r[m]] <= dc[r[n]]
  BY DEF Sorted, r
<1>3. CASE n < i
  <2>1. m \in 1 .. Len(q) /\ n \in 1 .. Len(q) /\ r[m] = q[m] /\ r[n] = q[n]
    BY <1>1, <1>2, <1>3
  <2> QED BY <2>1 DEF Sorted
<1>4. CASE n = i
  <2>1. m \in 1 .. Len(q) /\ m < i /\ r[m] = q[m] /\ r[n] = e
    BY <1>1, <1>2, <1>4
  <2> QED BY <2>1
<1>5. CASE n > i /\ m < i
  <2>1. /\ m \in 1 .. Len(q) /\ n - 1 \in 1 .. Len(q) /\ r[m] = q[m] /\ r[n] = q[n - 1]
        /\ n - 1 >= i
    BY <1>1, <1>2, <1>5
  <2>2. dc[q[m]] <= dc[e] /\ dc[e] <= dc[q[n - 1]]
    BY <1>5, <2>1
  <2> QED BY <1>1, <2>1, <2>2
<1>6. CASE n > i /\ m = i
  <2>1. n - 1 \in 1 .. Len(q) /\ n - 1 >= i /\ r[m] = e /\ r[n] = q[n - 1]
    BY <1>1, <1>2, <1>6
  <2> QED BY <2>1
<1>7. CASE m > i
  <2>1. /\ m - 1 \in 1 .. Len(q) /\ n - 1 \in 1 .. Len(q) /\ m - 1 < n - 1
        /\ r[m] = q[m - 1] /\ r[n] = q[n - 1]
    BY <1>1, <1>2, <1>7
  <2> QED BY <2>1 DEF Sorted
<1>8. m \in Int /\ n \in Int
  BY <1>2, <1>1
<1> QED
  BY <1>1, <1>3, <1>4, <1>5, <1>6, <1>7, <1>8

\* AddActiveEvent: before the first event due no earlier.
LEMMA AddOrder ==
  ASSUME NEW q \in Seq(Events), NEW e \in Events, NEW dc \in [Events -> Int], Sorted(q, dc)
  PROVE  Sorted(AddActiveEvent(q, e, dc), dc)
<1> DEFINE S == {k \in DOMAIN q : dc[q[k]] >= dc[e]} \union {Len(q) + 1}
           i == FirstNotBefore(q, dc, dc[e])
<1>1. Len(q) \in Nat /\ DOMAIN q = 1 .. Len(q) /\ dc[e] \in Int
      /\ \A k \in 1 .. Len(q) : dc[q[k]] \in Int
  BY SeqElements
<1>2. S \in SUBSET Nat /\ S # {} /\ i = Min(S)
  BY <1>1 DEF FirstNotBefore
<1>3. \A k \in 1 .. Len(q) : k \in S <=> dc[q[k]] >= dc[e]
  BY <1>1
<1>4. Len(q) + 1 \in S /\ \A k \in S : k \in 1 .. Len(q) + 1
  BY <1>1
<1> HIDE DEF S, i
<1>5. i \in S /\ \A y \in S : i <= y
  BY <1>2, MinIsMember
<1>6. ASSUME NEW k \in 1 .. Len(q)
      PROVE  /\ k < i => dc[q[k]] <= dc[e]
             /\ k >= i => dc[e] <= dc[q[k]]
  <2>1. CASE k < i
    <3>1. k \notin S
      BY <1>1, <1>2, <1>5, <2>1
    <3> QED BY <1>1, <1>3, <1>4, <1>5, <2>1, <3>1
  <2>2. CASE k >= i
    <3>1. i \in 1 .. Len(q) /\ dc[q[i]] >= dc[e]
      BY <1>1, <1>3, <1>4, <1>5, <2>2
    <3>2. dc[q[k]] >= dc[q[i]]
      BY <1>1, <2>2, <3>1 DEF Sorted
    <3> QED BY <1>1, <1>4, <1>5, <2>2, <3>1, <3>2
  <2> QED BY <1>1, <1>4, <1>5, <2>1, <2>2
<1>7. i \in 1 .. Len(q) + 1
  BY <1>4, <1>5
<1>8. Sorted(InsertAt(q, i, e), dc)
  BY <1>6, <1>7, InsertOrder
<1> QED
  BY <1>8 DEF AddActiveEvent, i

\* SortEvent's walk back: after the last event due no later.
LEMMA InsertBackOrder ==
  ASSUME NEW q \in Seq(Events), NEW e \in Events, NEW dc \in [Events -> Int], Sorted(q, dc)
  PROVE  /\ LastNotAfter(q, dc, dc[e]) + 1 \in 1 .. Len(q) + 1
         /\ Sorted(InsertAt(q, LastNotAfter(q, dc, dc[e]) + 1, e), dc)
<1> DEFINE S == {k \in DOMAIN q : dc[q[k]] <= dc[e]} \union {0}
           i == LastNotAfter(q, dc, dc[e])
<1>1. /\ Len(q) \in Nat /\ DOMAIN q = 1 .. Len(q) /\ dc[e] \in Int
      /\ \A k \in 1 .. Len(q) : dc[q[k]] \in Int
  BY SeqElements
<1>2. S \in SUBSET (0 .. Len(q)) /\ S # {} /\ i = Max(S)
  BY <1>1 DEF LastNotAfter
<1>3. \A k \in 1 .. Len(q) : k \in S <=> dc[q[k]] <= dc[e]
  BY <1>1
<1> HIDE DEF S, i
<1>4. i \in S /\ \A y \in S : i >= y
  BY <1>1, <1>2, MaxIsMember
<1>5. i \in 0 .. Len(q) /\ i + 1 \in 1 .. Len(q) + 1
  BY <1>1, <1>2, <1>4
<1>6. ASSUME NEW k \in 1 .. Len(q)
      PROVE  /\ k < i + 1 => dc[q[k]] <= dc[e]
             /\ k >= i + 1 => dc[e] <= dc[q[k]]
  <2>1. CASE k < i + 1
    <3>1. i \in 1 .. Len(q) /\ dc[q[i]] <= dc[e]
      BY <1>1, <1>3, <1>4, <1>5, <2>1
    <3>2. k = i \/ k < i
      BY <1>1, <1>5, <2>1
    <3>3. dc[q[k]] <= dc[q[i]]
      BY <1>1, <3>1, <3>2 DEF Sorted
    <3> QED BY <1>1, <1>5, <2>1, <3>1, <3>3
  <2>2. CASE k >= i + 1
    <3>1. k \notin S
      BY <1>1, <1>4, <1>5, <2>2
    <3> QED BY <1>1, <1>3, <1>5, <2>2, <3>1
  <2> QED BY <1>1, <1>5, <2>1, <2>2
<1>7. Sorted(InsertAt(q, i + 1, e), dc)
  BY <1>5, <1>6, InsertOrder
<1> QED
  BY <1>5, <1>7 DEF i

LEMMA ConcatOrder ==
  ASSUME NEW s \in Seq(Events), NEW t \in Seq(Events), NEW dc \in [Events -> Int],
         Sorted(s, dc), Sorted(t, dc),
         \A k \in 1 .. Len(s), l \in 1 .. Len(t) : dc[s[k]] <= dc[t[l]]
  PROVE  Sorted(s \o t, dc)
<1> DEFINE r == s \o t
<1>1. Len(s) \in Nat /\ Len(t) \in Nat
  OBVIOUS
<1>2. /\ Len(r) = Len(s) + Len(t)
      /\ \A k \in 1 .. Len(r) : r[k] = IF k <= Len(s) THEN s[k] ELSE t[k - Len(s)]
  BY ConcatProperties
<1> HIDE DEF r
<1> SUFFICES ASSUME NEW m \in 1 .. Len(r), NEW n \in 1 .. Len(r), m < n
             PROVE  dc[r[m]] <= dc[r[n]]
  BY DEF Sorted, r
<1>3. CASE n <= Len(s)
  <2>1. m \in 1 .. Len(s) /\ n \in 1 .. Len(s) /\ r[m] = s[m] /\ r[n] = s[n]
    BY <1>1, <1>2, <1>3
  <2> QED BY <2>1 DEF Sorted
<1>4. CASE m <= Len(s) /\ n > Len(s)
  <2>1. m \in 1 .. Len(s) /\ n - Len(s) \in 1 .. Len(t) /\ r[m] = s[m] /\ r[n] = t[n - Len(s)]
    BY <1>1, <1>2, <1>4
  <2> QED BY <2>1
<1>5. CASE m > Len(s)
  <2>1. /\ m - Len(s) \in 1 .. Len(t) /\ n - Len(s) \in 1 .. Len(t)
        /\ m - Len(s) < n - Len(s)
        /\ r[m] = t[m - Len(s)] /\ r[n] = t[n - Len(s)]
    BY <1>1, <1>2, <1>5
  <2> QED BY <2>1 DEF Sorted
<1> QED
  BY <1>1, <1>2, <1>3, <1>4, <1>5

\* The event that is unlinked takes its disorder with it.
LEMMA RemoveOrder ==
  ASSUME NEW A, NEW q, IsList(q, A), NEW e \in A, NEW dc \in [Events -> Int],
         SortedBut(q, e, dc)
  PROVE  Sorted(RemoveActiveEvent(q, e), dc)
<1> DEFINE i == Position(q, e)
           r == RemoveActiveEvent(q, e)
<1>1. q \in Seq(Events) /\ Len(q) \in Nat /\ i \in 1 .. Len(q) /\ q[i] = e
  BY DEF IsList, ToSet, Position
<1> HIDE DEF i
<1>2. /\ Len(r) = Len(q) - 1
      /\ \A k \in 1 .. Len(r) : r[k] = IF k < i THEN q[k] ELSE q[k + 1]
  BY <1>1, RemoveAtShape DEF RemoveActiveEvent, i
<1>3. \A k \in 1 .. Len(q) : k # i => q[k] # e
  BY <1>1 DEF IsList
<1> HIDE DEF r
<1> SUFFICES ASSUME NEW m \in 1 .. Len(r), NEW n \in 1 .. Len(r), m < n
             PROVE  dc[r[m]] <= dc[r[n]]
  BY DEF Sorted, r
<1> DEFINE at(k) == IF k < i THEN k ELSE k + 1
<1>4. /\ at(m) \in 1 .. Len(q) /\ at(m) # i /\ r[m] = q[at(m)]
      /\ at(n) \in 1 .. Len(q) /\ at(n) # i /\ r[n] = q[at(n)]
      /\ at(m) < at(n)
  BY SMTT(30), <1>1, <1>2
<1> HIDE DEF at
<1> QED
  BY <1>3, <1>4 DEF SortedBut

\* What changes for one event only leaves the others in order.
LEMMA OthersInOrder ==
  ASSUME NEW q \in Seq(Events), NEW e \in Events, NEW dc, NEW d,
         SortedBut(q, e, dc), \A x \in Events : x # e => d[x] = dc[x]
  PROVE  SortedBut(q, e, d)
<1>1. \A k \in 1 .. Len(q) : q[k] \in Events
  BY ElementOfSeq
<1> QED
  BY <1>1 DEF SortedBut

LEMMA SortedMeans ==
  ASSUME NEW A, NEW q, IsList(q, A), NEW e, NEW dc
  PROVE  /\ Sorted(q, dc) => SortedBut(q, e, dc)
         /\ e \notin A /\ SortedBut(q, e, dc) => Sorted(q, dc)
<1>1. Sorted(q, dc) => SortedBut(q, e, dc)
  BY DEF Sorted, SortedBut
<1>2. \A k \in 1 .. Len(q) : q[k] \in A
  BY DEF IsList, ToSet
<1> QED
  BY <1>1, <1>2 DEF Sorted, SortedBut

LEMMA InsertAtElements ==
  ASSUME NEW q \in Seq(Events), NEW e \in Events, NEW i \in 1 .. Len(q) + 1
  PROVE  /\ InsertAt(q, i, e) \in Seq(Events)
         /\ \A k \in 1 .. Len(InsertAt(q, i, e)) :
              \/ InsertAt(q, i, e)[k] = e
              \/ \E l \in 1 .. Len(q) : InsertAt(q, i, e)[k] = q[l]
<1> DEFINE r == InsertAt(q, i, e)
<1>1. Len(q) \in Nat /\ i \in Nat
  OBVIOUS
<1>2. /\ r \in Seq(Events) /\ Len(r) = Len(q) + 1
      /\ \A k \in 1 .. Len(r) : r[k] = IF k < i THEN q[k] ELSE IF k = i THEN e ELSE q[k - 1]
  BY InsertAtShape
<1> HIDE DEF r
<1>3. ASSUME NEW k \in 1 .. Len(r), k # i
      PROVE  \E l \in 1 .. Len(q) : r[k] = q[l]
  <2>1. CASE k < i
    BY <1>1, <1>2, <2>1
  <2>2. CASE k > i
    <3>1. k - 1 \in 1 .. Len(q) /\ r[k] = q[k - 1]
      BY <1>1, <1>2, <2>2
    <3> QED BY <3>1
  <2> QED BY <1>1, <1>2, <1>3, <2>1, <2>2
<1>4. \A k \in 1 .. Len(r) : r[k] = e \/ \E l \in 1 .. Len(q) : r[k] = q[l]
  <2> TAKE k \in 1 .. Len(r)
  <2>1. k = i => r[k] = e
    BY <1>1, <1>2
  <2> QED BY <1>3, <2>1
<1> QED
  BY <1>2, <1>4 DEF r

\* SortEvent: whatever happened to the event's downcount, and wherever it is.
LEMMA SortOrder ==
  ASSUME NEW A, NEW q, IsList(q, A), NEW e \in Events, NEW dc \in [Events -> Int],
         SortedBut(q, e, dc)
  PROVE  Sorted(SortEvent(q, e, dc), dc)
<1> DEFINE i == Position(q, e)
           before == SubSeq(q, 1, i - 1)
           after == SubSeq(q, i + 1, Len(q))
<1>1. CASE e \notin ToSet(q)
  <2>1. e \notin A
    BY <1>1 DEF IsList
  <2> QED BY <1>1, <2>1, SortedMeans DEF SortEvent
<1>2. CASE e \in ToSet(q)
  <2>1. q \in Seq(Events) /\ Len(q) \in Nat /\ i \in 1 .. Len(q) /\ q[i] = e
    BY <1>2 DEF IsList, ToSet, Position
  <2>2. \A k \in 1 .. Len(q) : k # i => q[k] # e
    BY <2>1 DEF IsList
  <2> HIDE DEF i
  <2>3. /\ before \in Seq(Events) /\ Len(before) = i - 1
        /\ \A k \in 1 .. Len(before) : before[k] = q[k]
    BY <2>1
  <2>4. /\ after \in Seq(Events) /\ Len(after) = Len(q) - i
        /\ \A k \in 1 .. Len(after) : after[k] = q[k + i]
    BY <2>1
  <2> HIDE DEF before, after
  <2>5. Sorted(before, dc)
    <3>1. \A k \in 1 .. Len(before) : k \in 1 .. Len(q) /\ k # i
      BY <2>1, <2>3
    <3> QED BY <2>2, <2>3, <3>1 DEF Sorted, SortedBut
  <2>6. Sorted(after, dc)
    <3>1. \A k \in 1 .. Len(after) : k + i \in 1 .. Len(q) /\ k + i # i
      BY <2>1, <2>4
    <3>2. \A k, l \in 1 .. Len(after) : k < l => k + i < l + i
      BY <2>1, <2>4
    <3> QED BY <2>2, <2>4, <3>1, <3>2 DEF Sorted, SortedBut
  <2>7. \A k \in 1 .. Len(before), l \in 1 .. Len(after) : dc[before[k]] <= dc[after[l]]
    <3> TAKE k \in 1 .. Len(before), l \in 1 .. Len(after)
    <3>1. k \in 1 .. Len(q) /\ k < i /\ before[k] = q[k]
      BY <2>1, <2>3
    <3>2. l + i \in 1 .. Len(q) /\ i < l + i /\ after[l] = q[l + i]
      <4>1. l \in 1 .. Len(q) - i /\ i \in Nat
        BY <2>1, <2>4
      <4>2. after[l] = q[l + i]
        BY <2>4
      <4> QED BY <2>1, <4>1, <4>2
    <3>3. k # i /\ l + i # i /\ k < l + i
      BY <2>1, <3>1, <3>2
    <3>4. q[k] # e /\ q[l + i] # e
      BY <2>2, <3>1, <3>2, <3>3
    <3> QED BY <3>1, <3>2, <3>3, <3>4 DEF SortedBut
  <2>8. /\ Len(before) \in Nat /\ Len(after) \in Nat /\ dc[e] \in Int
        /\ \A k \in 1 .. Len(before) : dc[before[k]] \in Int
        /\ \A k \in 1 .. Len(after) : dc[after[k]] \in Int
    BY <2>3, <2>4, SeqElements
  <2>9. before # <<>> => Len(before) \in 1 .. Len(before) /\ Last(before) = before[Len(before)]
    BY <2>3, <2>8 DEF Last
  <2>10. CASE before # <<>> /\ dc[Last(before)] > dc[e]
    <3> DEFINE at == LastNotAfter(before, dc, dc[e]) + 1
               moved == InsertAt(before, at, e)
    <3>1. at \in 1 .. Len(before) + 1 /\ Sorted(moved, dc)
      BY <2>3, <2>5, InsertBackOrder
    <3>2. /\ moved \in Seq(Events)
          /\ \A k \in 1 .. Len(moved) : moved[k] = e \/ \E l \in 1 .. Len(before) : moved[k] = before[l]
      BY <2>3, <3>1, InsertAtElements
    <3> HIDE DEF moved, at
    <3>3. \A l \in 1 .. Len(after) : dc[e] <= dc[after[l]]
      <4> TAKE l \in 1 .. Len(after)
      <4>1. dc[Last(before)] <= dc[after[l]] /\ dc[Last(before)] \in Int
        BY <2>7, <2>8, <2>9, <2>10
      <4> QED BY <2>8, <2>10, <4>1
    <3>4. \A k \in 1 .. Len(moved), l \in 1 .. Len(after) : dc[moved[k]] <= dc[after[l]]
      BY <2>7, <3>2, <3>3
    <3>5. Sorted(moved \o after, dc)
      BY <2>4, <2>6, <3>1, <3>2, <3>4, ConcatOrder
    <3> QED
      BY <1>2, <2>10, <3>5, Zenon DEF SortEvent, before, after, i, moved, at
  <2>11. CASE ~(before # <<>> /\ dc[Last(before)] > dc[e])
    <3> DEFINE moved == AddActiveEvent(after, e, dc)
    <3>1. Sorted(moved, dc)
      BY <2>4, <2>6, AddOrder
    <3>2. /\ moved \in Seq(Events)
          /\ \A k \in 1 .. Len(moved) : moved[k] = e \/ \E l \in 1 .. Len(after) : moved[k] = after[l]
      BY <2>4, FirstNotBeforeInRange, InsertAtElements DEF AddActiveEvent
    <3> HIDE DEF moved
    <3>3. \A k \in 1 .. Len(before) : dc[before[k]] <= dc[e]
      <4> TAKE k \in 1 .. Len(before)
      <4>1. before # <<>> /\ dc[Last(before)] <= dc[e] /\ dc[Last(before)] \in Int
        BY <2>8, <2>9, <2>11, EmptySeq
      <4>2. k = Len(before) \/ k < Len(before)
        BY <2>8
      <4>3. dc[before[k]] <= dc[Last(before)]
        BY <2>5, <2>8, <2>9, <4>1, <4>2 DEF Sorted
      <4> QED BY <2>8, <4>1, <4>3
    <3>4. \A k \in 1 .. Len(before), l \in 1 .. Len(moved) : dc[before[k]] <= dc[moved[l]]
      BY <2>7, <3>2, <3>3
    <3>5. Sorted(before \o moved, dc)
      BY <2>3, <2>5, <3>1, <3>2, <3>4, ConcatOrder
    <3> QED
      BY <1>2, <2>11, <3>5, Zenon DEF SortEvent, before, after, i, moved
  <2> QED
    BY <2>10, <2>11
<1> QED
  BY <1>1, <1>2

-----------------------------------------------------------------------------
(* Ticks are conserved.                                                    *)

Counted == TypeOK /\ TicksConserved

\* RunEvents gave the events all the ticks it took (its loop runs while it has any).
AllTicksGiven == phase \in {"loop", "execute"} => remaining = 0

IInv == Counted /\ AllTicksGiven

\* The active events start with the permanent one, nothing owed (Init).
LEMMA Initially == Init => IInv
<1> SUFFICES ASSUME Init PROVE IInv
  OBVIOUS
<1>1. IsList(queue, active)
  BY EventsAssumption DEF Init, IsList, ToSet
<1>2. FirstInterval \in [Events -> Int] /\ FirstInterval \in [Events -> Nat \ {0}]
  BY EventsAssumption
<1>3. TypeOK
  <2>1. active \subseteq Events /\ Permanent \in active /\ stack = <<>>
    BY EventsAssumption DEF Init
  <2>2. /\ downcount \in [Events -> Int] /\ since \in [Events -> Int] /\ owed \in [Events -> Int]
        /\ interval \in [Events -> Nat \ {0}] /\ period \in [Events -> Nat \ {0}]
    BY <1>2 DEF Init
  <2>3. pending \in Nat /\ remaining \in Nat /\ cpuDowncount \in Int
    BY DEF Init
  <2>5. held \in BOOLEAN /\ phase \in {"loop", "execute", "advance", "events"}
    BY Zenon DEF Init
  <2>4. stack \in Seq([event : Events, ticks : Int])
    BY <2>1
  <2> QED BY <1>1, <2>1, <2>2, <2>3, <2>4, <2>5, Zenon DEF TypeOK
<1>4. ASSUME NEW e \in Events
      PROVE  since[e] = owed[e] - IF e \in active THEN pending + remaining ELSE 0
  <2>1. since[e] = 0 /\ owed[e] = 0 /\ pending + remaining = 0
    BY DEF Init
  <2> QED BY <2>1
<1>5. AllTicksGiven
  BY DEF Init, AllTicksGiven
<1> QED
  BY <1>3, <1>4, <1>5 DEF IInv, Counted, TicksConserved

\* There is always a head, and it is an active event (RunEvents dereferences it).
LEMMA HeadIsActive ==
  ASSUME NEW A, NEW q, IsList(q, A), Permanent \in A
  PROVE  Head(q) \in A /\ Head(q) \in Events /\ q # <<>>
<1>1. q \in Seq(Events) /\ q # <<>> /\ Head(q) = q[1] /\ 1 \in DOMAIN q
  BY DEF IsList, ToSet
<1> QED
  BY <1>1 DEF IsList, ToSet

\* The downcount given to the CPU is one of the downcounts.
LEMMA RelinkIsList ==
  ASSUME TypeOK, NEW A, NEW q, IsList(q, A), Permanent \in A, NEW e \in Events,
         NEW dc \in [Events -> Int], Relink(q, e, dc)
  PROVE  IsList(queue', A) /\ cpuDowncount' \in Int
<1>1. dc[Head(q)] \in Int
  BY HeadIsActive
<1>2. UpdateCPUDowncount(q, dc) \in Int
  BY <1>1 DEF UpdateCPUDowncount, TypeOK
<1> QED
  BY <1>2 DEF Relink, TypeOK

LEMMA UnlinkIsList ==
  ASSUME TypeOK, NEW e \in active, e # Permanent, NEW dc \in [Events -> Int], Unlink(e, dc)
  PROVE  IsList(queue', active \ {e}) /\ cpuDowncount' \in Int
<1>1. IsList(queue', active \ {e})
  BY RemoveIsList DEF Unlink, TypeOK
<1>2. dc[Head(queue')] \in Int
  BY <1>1, HeadIsActive DEF TypeOK
<1>3. UpdateCPUDowncount(queue', dc) \in Int
  BY <1>2 DEF UpdateCPUDowncount, TypeOK
<1> QED
  BY <1>1, <1>3 DEF Unlink, TypeOK

-----------------------------------------------------------------------------
(* One lemma for each call, and one for the loop's steps.                  *)

\* A step that changes what one event is owed tells it of it (Schedule, Activate,
\* Deactivate, InvokeEarly).
LEMMA OneEventsTicks ==
  ASSUME Counted, NEW e \in Events, NEW s \in Int, NEW o \in Int,
         since' = [since EXCEPT ![e] = s], owed' = [owed EXCEPT ![e] = o],
         \A x \in Events : x # e => (x \in active' <=> x \in active),
         pending' = pending, remaining' = remaining,
         s = o - IF e \in active' THEN pending + remaining ELSE 0
  PROVE  TicksConserved' /\ since' \in [Events -> Int] /\ owed' \in [Events -> Int]
<1>1. since \in [Events -> Int] /\ owed \in [Events -> Int]
  BY DEF Counted, TypeOK
<1>2. ASSUME NEW x \in Events
      PROVE  since'[x] = owed'[x] - IF x \in active' THEN pending' + remaining' ELSE 0
  <2>1. CASE x = e
    <3>1. since'[x] = s /\ owed'[x] = o
      BY <1>1, <2>1
    <3> QED BY <2>1, <3>1
  <2>2. CASE x # e
    <3>1. since'[x] = since[x] /\ owed'[x] = owed[x] /\ (x \in active' <=> x \in active)
      BY <1>1, <2>2
    <3>2. since[x] = owed[x] - IF x \in active THEN pending + remaining ELSE 0
      BY DEF Counted, TicksConserved
    <3> QED BY <3>1, <3>2
  <2> QED BY <2>1, <2>2
<1> QED
  BY <1>1, <1>2 DEF TicksConserved

\* What a step leaves of the types when it keeps the ones it has to keep.
LEMMA TypesStay ==
  ASSUME TypeOK,
         active' \subseteq Events, Permanent \in active', IsList(queue', active'),
         downcount' \in [Events -> Int], since' \in [Events -> Int], owed' \in [Events -> Int],
         interval' \in [Events -> Nat \ {0}], period' \in [Events -> Nat \ {0}],
         cpuDowncount' \in Int, UNCHANGED <<pending, held, phase, remaining>>,
         stack' \in Seq([event : Events, ticks : Int])
  PROVE  TypeOK'
BY DEF TypeOK


LEMMA ScheduleWithPreserves ==
  ASSUME Counted, NEW e \in Events, NEW t \in Nat \ {0}, NEW i \in Nat \ {0}, NEW p \in Nat \ {0},
         ScheduleWith(e, t, i, p)
  PROVE  Counted'
<1> DEFINE dc == [downcount EXCEPT ![e] = pending + t]
<1>1. dc \in [Events -> Int]
  BY DEF Counted, TypeOK
<1>2. /\ downcount' = dc
      /\ interval' \in [Events -> Nat \ {0}] /\ period' \in [Events -> Nat \ {0}]
      /\ UNCHANGED <<pending, held, phase, remaining, stack>>
  BY DEF ScheduleWith, Counted, TypeOK, control
<1> HIDE DEF dc
<1>3. CASE /\ e \in active
           /\ IF e \in Current THEN UNCHANGED <<queue, cpuDowncount>>
                               ELSE Relink(SortEvent(queue, e, dc), e, dc)
           /\ UNCHANGED <<active, since, owed>>
  <2>1. IsList(queue', active) /\ cpuDowncount' \in Int
    <3>1. CASE e \in Current
      BY <1>3, <3>1 DEF Counted, TypeOK
    <3>2. CASE e \notin Current
      <4>1. IsList(SortEvent(queue, e, dc), active)
        BY SortIsList DEF Counted, TypeOK
      <4> QED BY <1>1, <1>3, <3>2, <4>1, RelinkIsList DEF Counted, TypeOK
    <3> QED BY <3>1, <3>2
  <2> QED
    BY <1>1, <1>2, <1>3, <2>1 DEF Counted, TypeOK, TicksConserved
<1>4. CASE /\ e \notin active
           /\ active' = active \union {e}
           /\ since' = [since EXCEPT ![e] = -pending]
           /\ owed' = [owed EXCEPT ![e] = remaining]
           /\ Relink(AddActiveEvent(queue, e, dc), e, dc)
  <2>1. IsList(queue', active') /\ cpuDowncount' \in Int
    <3>1. IsList(AddActiveEvent(queue, e, dc), active \union {e})
      BY <1>4, AddIsList DEF Counted, TypeOK
    <3>2. Permanent \in active \union {e}
      BY DEF Counted, TypeOK
    <3>3. IsList(queue', active \union {e}) /\ cpuDowncount' \in Int
      BY <1>1, <1>4, <3>1, <3>2, RelinkIsList DEF Counted
    <3> QED BY <1>4, <3>3
  <2>2. TicksConserved' /\ since' \in [Events -> Int] /\ owed' \in [Events -> Int]
    <3>1. -pending \in Int /\ remaining \in Int /\ -pending = remaining - (pending + remaining)
      BY DEF Counted, TypeOK
    <3>2. e \in active' /\ \A x \in Events : x # e => (x \in active' <=> x \in active)
      BY <1>4
    <3> QED BY <1>2, <1>4, <3>1, <3>2, OneEventsTicks
  <2>3. active' \subseteq Events /\ Permanent \in active'
    BY <1>4 DEF Counted, TypeOK
  <2> QED BY <1>1, <1>2, <2>1, <2>2, <2>3, TypesStay DEF Counted, TypeOK
<1> QED
  BY <1>3, <1>4, Zenon DEF ScheduleWith, dc

LEMMA ActivatePreserves ==
  ASSUME Counted, NEW e \in Events, Activate(e)
  PROVE  Counted'
<1> DEFINE dc == [downcount EXCEPT ![e] = downcount[e] + pending]
<1>1. dc \in [Events -> Int]
  BY DEF Counted, TypeOK
<1>2. /\ e \notin active /\ downcount' = dc /\ active' = active \union {e}
      /\ since' = [since EXCEPT ![e] = since[e] - pending]
      /\ owed' = [owed EXCEPT ![e] = @ + remaining]
      /\ Relink(AddActiveEvent(queue, e, dc), e, dc)
      /\ UNCHANGED <<interval, period, pending, held, phase, remaining, stack>>
  BY DEF Activate, ActivateWith, control
<1> HIDE DEF dc
<1>3. IsList(queue', active') /\ cpuDowncount' \in Int
  <2>1. IsList(AddActiveEvent(queue, e, dc), active \union {e})
    BY <1>2, AddIsList DEF Counted, TypeOK
  <2>2. Permanent \in active \union {e}
    BY DEF Counted, TypeOK
  <2>3. IsList(queue', active \union {e}) /\ cpuDowncount' \in Int
    BY <1>1, <1>2, <2>1, <2>2, RelinkIsList DEF Counted
  <2> QED BY <1>2, <2>3
<1>4. TicksConserved' /\ since' \in [Events -> Int] /\ owed' \in [Events -> Int]
  <2>1. /\ since[e] - pending \in Int /\ owed[e] + remaining \in Int
        /\ since[e] - pending = (owed[e] + remaining) - (pending + remaining)
    <3>1. since[e] \in Int /\ owed[e] \in Int /\ pending \in Int /\ remaining \in Int
      BY DEF Counted, TypeOK
    <3>2. since[e] = owed[e]
      BY <1>2, <3>1 DEF Counted, TicksConserved
    <3> QED BY <3>1, <3>2
  <2>2. e \in active' /\ \A x \in Events : x # e => (x \in active' <=> x \in active)
    BY <1>2
  <2>3. /\ since' = [since EXCEPT ![e] = since[e] - pending]
        /\ owed' = [owed EXCEPT ![e] = owed[e] + remaining]
        /\ pending' = pending /\ remaining' = remaining
    BY <1>2
  <2>4. since[e] - pending = (owed[e] + remaining) - IF e \in active' THEN pending + remaining ELSE 0
    <3>1. (IF e \in active' THEN pending + remaining ELSE 0) = pending + remaining
      BY <2>2
    <3> QED BY <2>1, <3>1, Zenon
  <2> QED BY <2>1, <2>2, <2>3, <2>4, OneEventsTicks, Zenon
<1>5. active' \subseteq Events /\ Permanent \in active'
  BY <1>2 DEF Counted, TypeOK
<1> QED
  BY <1>1, <1>2, <1>3, <1>4, <1>5, TypesStay DEF Counted, TypeOK

LEMMA DeactivatePreserves ==
  ASSUME Counted, NEW e \in Events, Deactivate(e)
  PROVE  Counted'
<1> DEFINE dc == [downcount EXCEPT ![e] = @ - pending]
<1>1. dc \in [Events -> Int]
  BY DEF Counted, TypeOK
<1>2. /\ e \in active /\ e # Permanent /\ downcount' = dc /\ active' = active \ {e}
      /\ since' = [since EXCEPT ![e] = @ + pending]
      /\ owed' = [owed EXCEPT ![e] = @ - remaining]
      /\ Unlink(e, dc)
      /\ UNCHANGED <<interval, period, pending, held, phase, remaining, stack>>
  BY DEF Deactivate, control
<1> HIDE DEF dc
<1>3. IsList(queue', active') /\ cpuDowncount' \in Int
  BY <1>1, <1>2, UnlinkIsList DEF Counted
<1>4. TicksConserved' /\ since' \in [Events -> Int] /\ owed' \in [Events -> Int]
  <2>1. /\ since[e] + pending \in Int /\ owed[e] - remaining \in Int
        /\ since[e] + pending = owed[e] - remaining - 0
    <3>1. since[e] \in Int /\ owed[e] \in Int /\ pending \in Int /\ remaining \in Int
      BY DEF Counted, TypeOK
    <3>2. since[e] = owed[e] - (pending + remaining)
      BY <1>2 DEF Counted, TicksConserved
    <3> QED BY <3>1, <3>2
  <2>2. e \notin active' /\ \A x \in Events : x # e => (x \in active' <=> x \in active)
    BY <1>2
  <2> QED BY <1>2, <2>1, <2>2, OneEventsTicks
<1>5. active' \subseteq Events /\ Permanent \in active'
  BY <1>2 DEF Counted, TypeOK
<1> QED
  BY <1>1, <1>2, <1>3, <1>4, <1>5, TypesStay DEF Counted, TypeOK

LEMMA RecreatePreserves ==
  ASSUME Counted, NEW e \in Events, Recreate(e)
  PROVE  Counted'
<1>1. IsList(queue', active') /\ cpuDowncount' \in Int
  <2>1. CASE e \in active
    <3>1. Unlink(e, downcount) /\ active' = active \ {e} /\ e # Permanent
      BY <2>1 DEF Recreate
    <3> QED BY <2>1, <3>1, UnlinkIsList DEF Counted, TypeOK
  <2>2. CASE e \notin active
    <3>1. active' = active /\ UNCHANGED <<queue, cpuDowncount>>
      BY <2>2 DEF Recreate
    <3> QED BY <3>1 DEF Counted, TypeOK
  <2> QED BY <2>1, <2>2
<1>2. TicksConserved' /\ since' \in [Events -> Int] /\ owed' \in [Events -> Int]
  <2>1. e \notin active' /\ \A x \in Events : x # e => (x \in active' <=> x \in active)
    BY DEF Recreate
  <2>2. /\ since' = [since EXCEPT ![e] = 0] /\ owed' = [owed EXCEPT ![e] = 0]
        /\ pending' = pending /\ remaining' = remaining
    BY DEF Recreate, control
  <2>3. 0 = 0 - IF e \in active' THEN pending + remaining ELSE 0
    BY <2>1
  <2>4. 0 \in Int
    OBVIOUS
  <2> QED BY <2>1, <2>2, <2>3, <2>4, OneEventsTicks, Zenon
<1>3. /\ active' \subseteq Events /\ Permanent \in active'
      /\ downcount' \in [Events -> Int]
      /\ interval' \in [Events -> Nat \ {0}] /\ period' \in [Events -> Nat \ {0}]
      /\ UNCHANGED <<pending, held, phase, remaining, stack>>
  <2>1. FirstInterval[e] \in Nat \ {0}
    BY EventsAssumption
  <2> QED BY SMTT(30), <2>1 DEF Recreate, control, Counted, TypeOK
<1> QED
  BY <1>1, <1>2, <1>3, TypesStay DEF Counted, TypeOK

LEMMA DelayPreserves ==
  ASSUME Counted, NEW e \in Events, NEW t \in Nat \ {0}, Delay(e, t)
  PROVE  Counted'
<1> DEFINE dc == [downcount EXCEPT ![e] = @ + t]
<1>1. dc \in [Events -> Int]
  BY DEF Counted, TypeOK
<1>2. /\ downcount' = dc /\ Relink(SortEvent(queue, e, dc), e, dc)
      /\ UNCHANGED <<active, since, interval, period, pending, held, phase, remaining, stack, owed>>
  BY DEF Delay, control
<1> HIDE DEF dc
<1>3. IsList(queue', active) /\ cpuDowncount' \in Int
  <2>1. IsList(SortEvent(queue, e, dc), active)
    BY SortIsList DEF Counted, TypeOK
  <2> QED BY <1>1, <1>2, <2>1, RelinkIsList DEF Counted, TypeOK
<1> QED
  BY <1>1, <1>2, <1>3 DEF Counted, TypeOK, TicksConserved

LEMMA InvokeEarlyPreserves ==
  ASSUME Counted, NEW e \in Events, NEW force, InvokeEarly(e, force)
  PROVE  Counted'
<1> DEFINE ticks == TicksSinceLastExecution(e)
<1>1. /\ ticks \in Int /\ since[e] \in Int /\ owed[e] \in Int
      /\ pending \in Int /\ remaining \in Int /\ interval[e] \in Int
  BY DEF Counted, TypeOK, TicksSinceLastExecution
<1>2. /\ e \in active
      /\ downcount' = [downcount EXCEPT ![e] = pending + interval[e]]
      /\ since' = [since EXCEPT ![e] = since[e] - ticks]
      /\ owed' = [owed EXCEPT ![e] = owed[e] - ticks]
      /\ stack' = Append(stack, [event |-> e, ticks |-> ticks])
      /\ UNCHANGED <<active, queue, interval, period, pending, cpuDowncount, held, phase, remaining>>
  BY DEF InvokeEarly, cpu
<1> HIDE DEF ticks
<1>3. TicksConserved' /\ since' \in [Events -> Int] /\ owed' \in [Events -> Int]
  <2>1. since[e] - ticks \in Int /\ owed[e] - ticks \in Int
    BY <1>1
  <2>2. since[e] - ticks = owed[e] - ticks - (pending + remaining)
    <3>1. since[e] = owed[e] - (pending + remaining)
      BY <1>2 DEF Counted, TicksConserved
    <3> QED BY <1>1, <3>1
  <2> QED BY <1>2, <2>1, <2>2, OneEventsTicks
<1>4. downcount' \in [Events -> Int]
  BY SMTT(30), <1>1, <1>2 DEF Counted, TypeOK
<1>5. stack' \in Seq([event : Events, ticks : Int])
  BY <1>1, <1>2 DEF Counted, TypeOK
<1> QED
  BY <1>2, <1>3, <1>4, <1>5, TypesStay DEF Counted, TypeOK

\* The CPU's own steps: instructions, DMA charges and interrupts.
LEMMA SpendPreserves ==
  ASSUME Counted, NEW t \in Nat, Spend(t),
         UNCHANGED <<active, since, remaining>>
  PROVE  TicksConserved' /\ pending' \in Nat /\ owed' \in [Events -> Int]
<1>1. pending \in Nat /\ remaining \in Nat /\ since \in [Events -> Int] /\ owed \in [Events -> Int]
  BY DEF Counted, TypeOK
<1>2. pending' = pending + t
  BY DEF Spend
<1>3. \A x \in Events : owed'[x] = owed[x] + IF x \in active THEN t ELSE 0
  BY DEF Spend
<1>4. owed' \in [Events -> Int]
  <2>1. \A x \in Events : owed[x] + (IF x \in active THEN t ELSE 0) \in Int
    BY <1>1
  <2> QED BY <2>1 DEF Spend
<1>5. ASSUME NEW x \in Events
      PROVE  since'[x] = owed'[x] - IF x \in active' THEN pending' + remaining' ELSE 0
  <2>1. since[x] = owed[x] - IF x \in active THEN pending + remaining ELSE 0
    BY DEF Counted, TicksConserved
  <2>2. active' = active /\ since'[x] = since[x] /\ remaining' = remaining
    OBVIOUS
  <2>3. since[x] \in Int /\ owed[x] \in Int
    BY <1>1
  <2>4. CASE x \in active
    BY <1>1, <1>2, <1>3, <2>1, <2>2, <2>3, <2>4
  <2>5. CASE x \notin active
    BY <1>1, <1>2, <1>3, <2>1, <2>2, <2>3, <2>5
  <2> QED BY <2>4, <2>5
<1> QED
  BY <1>1, <1>2, <1>4, <1>5 DEF TicksConserved

LEMMA CPUPreserves ==
  ASSUME Counted,
         \/ \E t \in Durations : AddPendingTicks(t)
         \/ \E t \in Bursts : Execute(t)
         \/ Interrupt
         \/ InterruptGone
  PROVE  Counted'
<1>1. /\ UNCHANGED <<events, control>>
      /\ cpuDowncount' \in Int /\ held' \in BOOLEAN
  <2>1. 0 \in Int /\ cpuDowncount \in Int /\ held \in BOOLEAN
    BY DEF Counted, TypeOK
  <2> QED BY <2>1, Zenon DEF AddPendingTicks, Execute, Interrupt, InterruptGone
<1>2. \/ \E t \in Nat : Spend(t)
      \/ UNCHANGED <<pending, owed>>
  BY EventsAssumption DEF AddPendingTicks, Execute, Interrupt, InterruptGone
<1>3. /\ UNCHANGED <<active, queue, downcount, since, interval, period>>
      /\ UNCHANGED <<phase, remaining, stack>>
  BY <1>1 DEF events, control
<1>4. TicksConserved' /\ pending' \in Nat /\ owed' \in [Events -> Int]
  <2>1. CASE \E t \in Nat : Spend(t)
    BY <1>3, <2>1, SpendPreserves
  <2>2. CASE UNCHANGED <<pending, owed>>
    BY <1>3, <2>2 DEF Counted, TypeOK, TicksConserved
  <2> QED BY <1>2, <2>1, <2>2
<1> QED
  BY <1>1, <1>3, <1>4 DEF Counted, TypeOK

\* The steps of the loop that leave the events alone.
LEMMA LoopPreserves ==
  ASSUME Counted, Dispatch \/ SkipEvents \/ HeadNotDue \/ RunEventsReturns
  PROVE  Counted'
<1>1. /\ UNCHANGED <<active, queue, downcount, since, interval, period>>
      /\ UNCHANGED <<pending, remaining, stack, owed>>
      /\ phase' \in {"loop", "execute", "advance", "events"} /\ held' \in BOOLEAN
  BY DEF Dispatch, SkipEvents, HeadNotDue, RunEventsReturns, events, cpu, Counted, TypeOK
<1>2. cpuDowncount' \in Int
  <2>1. downcount[Head(queue)] \in Int
    BY HeadIsActive DEF Counted, TypeOK
  <2>2. UpdateCPUDowncount(queue, downcount) \in Int
    BY <2>1 DEF UpdateCPUDowncount, Counted, TypeOK
  <2>3. cpuDowncount \in Int
    BY DEF Counted, TypeOK
  <2> QED BY <2>1, <2>2, <2>3 DEF Dispatch, SkipEvents, HeadNotDue, RunEventsReturns, cpu
<1> QED
  BY <1>1, <1>2 DEF Counted, TypeOK, TicksConserved

LEMMA RunEventsPreserves ==
  ASSUME Counted, RunEvents, remaining = 0
  PROVE  Counted'
<1>1. /\ UNCHANGED <<active, queue, downcount, since, interval, period>>
      /\ UNCHANGED <<cpuDowncount, held, stack, owed>>
      /\ remaining' = pending /\ pending' = 0 /\ phase' = "advance"
  BY DEF RunEvents, events
<1>2. pending' \in Nat /\ remaining' \in Nat /\ pending' + remaining' = pending + remaining
  BY <1>1 DEF Counted, TypeOK
<1>3. TicksConserved'
  BY <1>1, <1>2 DEF Counted, TicksConserved
<1> QED
  BY <1>1, <1>2, <1>3 DEF Counted, TypeOK

\* RunEvents moves ticks from its own count to the active events.
LEMMA AdvancePreserves ==
  ASSUME Counted, Advance
  PROVE  Counted'
<1> DEFINE time == Min({remaining, downcount[Head(queue)]})
<1>1. /\ remaining \in Nat /\ remaining > 0
      /\ downcount \in [Events -> Int] /\ since \in [Events -> Int] /\ owed \in [Events -> Int]
  BY DEF Counted, TypeOK, Advance
<1>2. time \in Int /\ time <= remaining
  <2>1. downcount[Head(queue)] \in Int
    BY HeadIsActive DEF Counted, TypeOK
  <2>2. \A a, b \in Int : Min({a, b}) \in Int /\ Min({a, b}) <= a
    <3> TAKE a, b \in Int
    <3>1. PICK m \in {a, b} : \A y \in {a, b} : m <= y
      <4>1. CASE a <= b
        BY <4>1
      <4>2. CASE b <= a
        BY <4>2
      <4> QED BY <4>1, <4>2
    <3>2. Min({a, b}) \in {a, b} /\ \A y \in {a, b} : Min({a, b}) <= y
      BY <3>1, Zenon DEF Min
    <3> QED BY <3>2
  <2> QED BY <1>1, <2>1, <2>2
<1>3. ToSet(queue) = active
  BY DEF Counted, TypeOK, IsList
<1>4. /\ remaining' = remaining - time
      /\ downcount' = [x \in Events |-> downcount[x] - IF x \in ToSet(queue) THEN time ELSE 0]
      /\ since' = [x \in Events |-> since[x] + IF x \in ToSet(queue) THEN time ELSE 0]
      /\ phase' = "events"
      /\ UNCHANGED <<active, queue, interval, period, pending, cpuDowncount, held, stack, owed>>
  BY DEF Advance, cpu
<1> HIDE DEF time
<1>5. remaining' \in Nat
  BY <1>1, <1>2, <1>4
<1>6. downcount' \in [Events -> Int] /\ since' \in [Events -> Int]
  <2>1. \A x \in Events : /\ downcount[x] - (IF x \in ToSet(queue) THEN time ELSE 0) \in Int
                          /\ since[x] + (IF x \in ToSet(queue) THEN time ELSE 0) \in Int
    BY <1>1, <1>2
  <2> QED BY <1>4, <2>1
<1>7. ASSUME NEW x \in Events
      PROVE  since'[x] = owed'[x] - IF x \in active' THEN pending' + remaining' ELSE 0
  <2>1. since[x] = owed[x] - IF x \in active THEN pending + remaining ELSE 0
    BY DEF Counted, TicksConserved
  <2>2. /\ active' = active /\ owed'[x] = owed[x] /\ pending' = pending
        /\ since[x] \in Int /\ owed[x] \in Int /\ pending \in Int
    BY <1>1, <1>4 DEF Counted, TypeOK
  <2>3. since'[x] = since[x] + IF x \in active THEN time ELSE 0
    BY <1>3, <1>4
  <2>4. CASE x \in active
    BY <1>1, <1>2, <1>4, <2>1, <2>2, <2>3, <2>4
  <2>5. CASE x \notin active
    BY <1>1, <1>2, <1>4, <2>1, <2>2, <2>3, <2>5
  <2> QED BY <2>4, <2>5
<1>8. TicksConserved'
  BY <1>7 DEF TicksConserved
<1> QED
  BY <1>4, <1>5, <1>6, <1>8 DEF Counted, TypeOK

\* The event that is due is told of all it was owed.
LEMMA RunHeadPreserves ==
  ASSUME Counted, RunHead
  PROVE  Counted'
<1> DEFINE e == Head(queue)
<1>1. e \in active /\ e \in Events
  BY HeadIsActive DEF Counted, TypeOK
<1>2. /\ downcount' = [downcount EXCEPT ![e] = DowncountAfterRun(e)]
      /\ since' = [since EXCEPT ![e] = 0]
      /\ owed' = [owed EXCEPT ![e] = owed[e] - since[e]]
      /\ stack' = <<[event |-> e, ticks |-> since[e]]>>
      /\ UNCHANGED <<active, queue, interval, period, pending, cpuDowncount, held, phase, remaining>>
  BY DEF RunHead, cpu
<1> HIDE DEF e
<1>3. /\ since[e] \in Int /\ owed[e] \in Int /\ downcount[e] \in Int /\ interval[e] \in Int
      /\ pending \in Int /\ remaining \in Int
  BY <1>1 DEF Counted, TypeOK
<1>4. downcount' \in [Events -> Int]
  <2>1. DowncountAfterRun(e) \in Int
    BY <1>3 DEF DowncountAfterRun
  <2> QED BY <1>2, <2>1 DEF Counted, TypeOK
<1>5. stack' \in Seq([event : Events, ticks : Int])
  BY <1>1, <1>2, <1>3
<1>6. TicksConserved' /\ since' \in [Events -> Int] /\ owed' \in [Events -> Int]
  <2>1. 0 \in Int /\ owed[e] - since[e] \in Int
    BY <1>3
  <2>2. 0 = owed[e] - since[e] - IF e \in active' THEN pending + remaining ELSE 0
    <3>1. since[e] = owed[e] - (pending + remaining)
      BY <1>1 DEF Counted, TicksConserved
    <3>2. e \in active'
      BY <1>1, <1>2
    <3> QED BY <1>3, <3>1, <3>2
  <2>3. /\ \A x \in Events : x # e => (x \in active' <=> x \in active)
        /\ pending' = pending /\ remaining' = remaining
    BY <1>2
  <2> QED BY <1>1, <1>2, <2>1, <2>2, <2>3, OneEventsTicks, Zenon
<1> QED
  BY <1>2, <1>4, <1>5, <1>6, TypesStay DEF Counted, TypeOK

\* A callback's event is sorted when it returns; the stack of callbacks pops.
LEMMA CallbackReturnsPreserves ==
  ASSUME Counted, CallbackReturns
  PROVE  Counted'
<1>1. stack \in Seq([event : Events, ticks : Int]) /\ stack # <<>>
  BY DEF Counted, TypeOK, CallbackReturns, InCallback
<1>2. Running \in Events
  <2>1. Len(stack) \in Nat /\ Len(stack) # 0
    BY <1>1
  <2>2. Len(stack) \in 1 .. Len(stack)
    BY <2>1
  <2>3. stack[Len(stack)] \in [event : Events, ticks : Int]
    BY <1>1, <2>2, ElementOfSeq
  <2> QED BY <2>3 DEF Running, Last
<1>3. stack' \in Seq([event : Events, ticks : Int])
  <2>1. stack' = SubSeq(stack, 1, Len(stack) - 1)
    BY DEF CallbackReturns, Front
  <2>2. Len(stack) \in Nat
    BY <1>1
  <2>3. \A i \in 1 .. Len(stack) - 1 : stack[i] \in [event : Events, ticks : Int]
    <3>1. 1 .. Len(stack) - 1 \subseteq 1 .. Len(stack)
      BY <2>2
    <3> QED BY <1>1, <3>1, ElementOfSeq
  <2>4. 1 \in Int /\ Len(stack) - 1 \in Int
    BY <2>2
  <2> QED BY <2>1, <2>3, <2>4, SubSeqProperties
<1>4. IsList(SortEvent(queue, Running, downcount), active)
  BY <1>2, SortIsList DEF Counted, TypeOK
<1>5. IsList(queue', active) /\ cpuDowncount' \in Int
  <2>1. Relink(SortEvent(queue, Running, downcount), Running, downcount)
    BY DEF CallbackReturns
  <2> HIDE DEF Running
  <2> QED BY <1>2, <1>4, <2>1, RelinkIsList DEF Counted, TypeOK
<1>6. UNCHANGED <<active, downcount, since, interval, period, pending, held, phase, remaining, owed>>
  BY DEF CallbackReturns
<1> QED
  BY <1>3, <1>5, <1>6 DEF Counted, TypeOK, TicksConserved

-----------------------------------------------------------------------------
(* The theorems.                                                           *)

\* Callbacks and calls run within one statement of RunEvents or of the CPU loop.
LEMMA TicksStayGiven ==
  ASSUME IInv, Next
  PROVE  AllTicksGiven'
<1>1. CASE UNCHANGED <<phase, remaining>>
  BY <1>1 DEF IInv, AllTicksGiven
<1>2. CASE phase' \in {"advance", "events"}
  BY <1>2 DEF AllTicksGiven
<1>3. CASE phase' \in {"loop", "execute"} /\ phase \in {"loop", "execute"} /\ remaining' = remaining
  BY <1>3 DEF IInv, AllTicksGiven
<1>4. CASE RunEventsReturns
  <2>1. remaining' = remaining /\ remaining <= 0 /\ remaining \in Nat
    BY <1>4 DEF RunEventsReturns, IInv, Counted, TypeOK
  <2> QED BY <2>1 DEF AllTicksGiven
<1>5. ASSUME NEW e \in Events, Touch(e)
      PROVE  UNCHANGED <<phase, remaining>>
  BY <1>5 DEF Touch, Schedule, SetIntervalAndSchedule, SetPeriodAndSchedule, ScheduleWith,
              SetInterval, Delay, Activate, ActivateWith, Deactivate, Recreate, control
<1>6. ASSUME NEW e \in Events, NEW force \in BOOLEAN, InvokeEarly(e, force)
      PROVE  UNCHANGED <<phase, remaining>>
  BY <1>6 DEF InvokeEarly
<1>7. CASE (\E t \in Durations : AddPendingTicks(t)) \/ Interrupt \/ InterruptGone \/ CallbackReturns
  BY <1>1, <1>7 DEF AddPendingTicks, Interrupt, InterruptGone, CallbackReturns, control
<1>8. CASE Loop
  <2>1. CASE (\E t \in Bursts : Execute(t)) \/ RunHead
    BY <1>1, <2>1 DEF Execute, RunHead, control
  <2>2. CASE RunEvents \/ Advance \/ HeadNotDue
    BY <1>2, <2>2 DEF RunEvents, Advance, HeadNotDue
  <2>3. CASE Dispatch \/ SkipEvents
    BY <1>3, <2>3 DEF Dispatch, SkipEvents
  <2> QED BY <1>4, <1>8, <2>1, <2>2, <2>3 DEF Loop
<1> QED
  BY <1>1, <1>5, <1>6, <1>7, <1>8 DEF Next

LEMMA NextKeepsCount ==
  ASSUME IInv, Next
  PROVE  Counted'
<1>1. Counted
  BY DEF IInv
<1>2. Durations \subseteq Nat \ {0}
  BY EventsAssumption
<1>3. ASSUME NEW e \in Events, Touch(e)
      PROVE  Counted'
  <2>1. ASSUME NEW t \in Durations,
               Schedule(e, t) \/ SetIntervalAndSchedule(e, t) \/ SetPeriodAndSchedule(e, t)
        PROVE  Counted'
    <3>1. t \in Nat \ {0} /\ interval[e] \in Nat \ {0} /\ period[e] \in Nat \ {0}
      BY <1>1, <1>2 DEF Counted, TypeOK
    <3>2. \/ ScheduleWith(e, t, interval[e], period[e])
          \/ ScheduleWith(e, t, t, period[e])
          \/ ScheduleWith(e, t, t, t)
      BY <2>1 DEF Schedule, SetIntervalAndSchedule, SetPeriodAndSchedule
    <3> QED BY <1>1, <3>1, <3>2, ScheduleWithPreserves
  <2>2. ASSUME NEW t \in Durations, SetInterval(e, t)
        PROVE  Counted'
    <3>1. t \in Nat \ {0}
      BY <1>2
    <3>2. /\ interval' = [interval EXCEPT ![e] = t]
          /\ UNCHANGED <<active, queue, downcount, since, period, owed>>
          /\ UNCHANGED <<pending, cpuDowncount, held, phase, remaining, stack>>
      BY <2>2 DEF SetInterval, cpu, control
    <3>3. interval' \in [Events -> Nat \ {0}]
      BY <1>1, <3>1, <3>2 DEF Counted, TypeOK
    <3> QED BY <1>1, <3>2, <3>3 DEF Counted, TypeOK, TicksConserved
  <2>3. ASSUME NEW t \in Durations, Delay(e, t)
        PROVE  Counted'
    BY <1>1, <1>2, <2>3, DelayPreserves
  <2> QED
    BY <1>1, <1>3, <2>1, <2>2, <2>3, ActivatePreserves, DeactivatePreserves, RecreatePreserves
    DEF Touch
<1>4. ASSUME NEW e \in Events, NEW force \in BOOLEAN, InvokeEarly(e, force)
      PROVE  Counted'
  BY <1>1, <1>4, InvokeEarlyPreserves
<1>5. CASE (\E t \in Durations : AddPendingTicks(t)) \/ Interrupt \/ InterruptGone
  BY <1>1, <1>5, CPUPreserves
<1>6. CASE CallbackReturns
  BY <1>1, <1>6, CallbackReturnsPreserves
<1>7. CASE Loop
  <2>1. CASE RunEvents
    <3>1. remaining = 0
      BY <2>1 DEF IInv, AllTicksGiven, RunEvents
    <3> QED BY <1>1, <2>1, <3>1, RunEventsPreserves
  <2>2. CASE \E t \in Bursts : Execute(t)
    BY <1>1, <2>2, CPUPreserves
  <2>3. CASE Dispatch \/ SkipEvents \/ HeadNotDue \/ RunEventsReturns
    BY <1>1, <2>3, LoopPreserves
  <2>4. CASE Advance \/ RunHead
    BY <1>1, <2>4, AdvancePreserves, RunHeadPreserves
  <2> QED BY <1>7, <2>1, <2>2, <2>3, <2>4 DEF Loop
<1> QED
  BY <1>3, <1>4, <1>5, <1>6, <1>7 DEF Next

\* The inductive invariant holds in every state.
THEOREM Invariance == Spec => []IInv
<1>1. IInv /\ [Next]_vars => IInv'
  <2>1. CASE Next
    BY <2>1, NextKeepsCount, TicksStayGiven DEF IInv
  <2>2. CASE UNCHANGED vars
    BY <2>2 DEF vars, events, cpu, control, IInv, Counted, TypeOK, TicksConserved, AllTicksGiven
  <2> QED BY <2>1, <2>2
<1> QED
  BY Initially, <1>1, PTL DEF Spec

\* The list that AddActiveEvent, RemoveActiveEvent and SortEvent keep holds exactly
\* the active events, each once, whatever is done to them within callbacks.
THEOREM TypeCorrect == Spec => []TypeOK
<1>1. IInv => TypeOK
  BY DEF IInv, Counted
<1> QED
  BY Invariance, <1>1, PTL

\* However an event is scheduled, delayed, invoked early, deactivated and activated
\* again, it is told of exactly the ticks it was active for.
THEOREM TicksAreConserved == Spec => []TicksConserved
<1>1. IInv => TicksConserved
  BY DEF IInv, Counted
<1> QED
  BY Invariance, <1>1, PTL

-----------------------------------------------------------------------------
(* Callbacks that change only their own event.                             *)

\* All the callbacks in progress are of one event.
Nesting ==
  /\ \A i \in 1 .. Len(stack) : stack[i].event = Running
  /\ phase \in {"loop", "advance"} => ~InCallback

Settled == IF InCallback THEN SortedBut(queue, Running, downcount) ELSE Sorted(queue, downcount)

\* What is left of an event's time after its callback has heard of the time so far.
Told(e) ==
  IF e \in active THEN since[e] + pending >= 0
  ELSE since[e] >= 0 /\ (phase = "events" => downcount[e] + pending >= 0)

\* An event was scheduled after it was last told, and is not called back late.
OnTime(e) ==
  /\ since[e] + downcount[e] >= 0
  /\ owed[e] >= 0
  /\ phase = "events" /\ e \in active => downcount[e] >= 0
  /\ InCallback /\ e = Running => Told(e)

Punctual == \A e \in Events : OnTime(e)

OwnInv == Nesting /\ Settled /\ Punctual /\ TicksNotNegative

LEMMA Numbers ==
  ASSUME IInv, NEW e \in Events
  PROVE  /\ since[e] \in Int /\ downcount[e] \in Int /\ owed[e] \in Int
         /\ interval[e] \in Nat \ {0} /\ pending \in Nat /\ remaining \in Nat
         /\ since[e] = owed[e] - IF e \in active THEN pending + remaining ELSE 0
         /\ phase = "execute" \/ phase = "loop" => remaining = 0
BY DEF IInv, Counted, TypeOK, TicksConserved, AllTicksGiven

\* A call of an instruction, or of the event's own callback.
LEMMA MayCallOwn ==
  ASSUME ~OthersInCallbacks, NEW call, NEW e, MayCall(call, e)
  PROVE  IF InCallback THEN e = Running ELSE phase = "execute"
BY DEF MayCall

\* The event that is touched may be the only one out of order.
LEMMA TouchedInOrder ==
  ASSUME IInv, Settled, NEW e \in Events, InCallback => e = Running,
         NEW dc, \A x \in Events : x # e => dc[x] = downcount[x]
  PROVE  /\ SortedBut(queue, e, downcount) /\ SortedBut(queue, e, dc)
         /\ e \notin active => Sorted(queue, downcount) /\ Sorted(queue, dc)
<1>1. IsList(queue, active) /\ queue \in Seq(Events)
  BY DEF IInv, Counted, TypeOK, IsList
<1>2. SortedBut(queue, e, downcount)
  BY <1>1, SortedMeans DEF Settled
<1>3. SortedBut(queue, e, dc)
  BY <1>1, <1>2, OthersInOrder
<1> QED
  BY <1>1, <1>2, <1>3, SortedMeans

LEMMA SortedSettles == ASSUME IInv', Sorted(queue', downcount') PROVE Settled'
<1>1. IsList(queue', active')
  BY DEF IInv, Counted, TypeOK
<1>2. SortedBut(queue', Running', downcount')
  BY <1>1, SortedMeans
<1> QED
  BY <1>2 DEF Settled

\* The others keep what they have.
LEMMA OneOnTime ==
  ASSUME Punctual, NEW e \in Events, UNCHANGED <<phase, pending>>,
         \A x \in Events \ {e} :
           /\ since'[x] = since[x] /\ downcount'[x] = downcount[x] /\ owed'[x] = owed[x]
           /\ (x \in active') = (x \in active)
           /\ InCallback' /\ x = Running' => InCallback /\ x = Running,
         OnTime(e)'
  PROVE  Punctual'
<1>1. ASSUME NEW x \in Events \ {e} PROVE OnTime(x)'
  <2>1. /\ since'[x] = since[x] /\ downcount'[x] = downcount[x] /\ owed'[x] = owed[x]
        /\ x \in active' <=> x \in active
        /\ InCallback' /\ x = Running' => InCallback /\ x = Running
        /\ OnTime(x) /\ phase' = phase /\ pending' = pending
    BY DEF Punctual
  <2>2. Told(x) => Told(x)'
    BY <2>1 DEF Told
  <2> QED BY <2>1, <2>2 DEF OnTime
<1> QED
  BY <1>1 DEF Punctual

\* What the event has been told of, when a call is made on it.
LEMMA Heard ==
  ASSUME IInv, OwnInv, NEW e \in Events, IF InCallback THEN e = Running ELSE phase = "execute"
  PROVE  IF e \in active THEN since[e] + pending >= 0 ELSE since[e] >= 0
<1>1. OnTime(e)
  BY DEF OwnInv, Punctual
<1>2. CASE InCallback
  BY <1>1, <1>2 DEF OnTime, Told
<1>3. CASE ~InCallback
  BY <1>1, <1>3, Numbers DEF OnTime
<1> QED
  BY <1>2, <1>3

LEMMA SameCallbacks ==
  ASSUME OwnInv, UNCHANGED <<phase, stack>>
  PROVE  /\ Nesting' /\ TicksNotNegative'
         /\ (InCallback' <=> InCallback) /\ Running' = Running
BY DEF OwnInv, Nesting, TicksNotNegative, InCallback, Running

LEMMA ScheduleOwn ==
  ASSUME IInv, OwnInv, IInv', NEW e \in Events, NEW t \in Nat \ {0}, NEW i, NEW p,
         IF InCallback THEN e = Running ELSE phase = "execute",
         ScheduleWith(e, t, i, p)
  PROVE  OwnInv'
<1> DEFINE dc == [downcount EXCEPT ![e] = pending + t]
<1>1. /\ downcount' = dc /\ dc[e] = pending + t
      /\ \A x \in Events : x # e => dc[x] = downcount[x]
      /\ dc \in [Events -> Int]
      /\ UNCHANGED <<pending, phase, stack>>
  BY DEF ScheduleWith, control, IInv, Counted, TypeOK
<1>2. \/ /\ e \in active
         /\ e \notin Current => Relink(SortEvent(queue, e, dc), e, dc)
         /\ e \in Current => queue' = queue
         /\ UNCHANGED <<active, since, owed>>
      \/ /\ e \notin active
         /\ active' = active \union {e}
         /\ since' = [since EXCEPT ![e] = -pending]
         /\ owed' = [owed EXCEPT ![e] = remaining]
         /\ Relink(AddActiveEvent(queue, e, dc), e, dc)
  BY Zenon DEF ScheduleWith
<1> HIDE DEF dc
<1>3. SortedBut(queue, e, dc) /\ (e \notin active => Sorted(queue, dc))
  BY <1>1, TouchedInOrder DEF OwnInv
<1>4. /\ IsList(queue, active) /\ queue \in Seq(Events)
      /\ since \in [Events -> Int] /\ owed \in [Events -> Int]
  BY DEF IInv, Counted, TypeOK, IsList
<1>5. /\ Nesting' /\ TicksNotNegative' /\ (InCallback' <=> InCallback) /\ Running' = Running
  BY <1>1, SameCallbacks
<1>6. Settled'
  <2>1. CASE e \in active /\ e \in Current
    <3>1. InCallback /\ e = Running
      BY <2>1 DEF Current
    <3> QED BY <1>1, <1>2, <1>3, <1>5, <2>1, <3>1 DEF Settled
  <2>2. CASE e \in active /\ e \notin Current
    <3>1. queue' = SortEvent(queue, e, dc)
      BY <1>2, <2>2 DEF Relink
    <3>2. Sorted(queue', downcount')
      BY <1>1, <1>3, <1>4, <3>1, SortOrder
    <3> QED BY <3>2, SortedSettles
  <2>3. CASE e \notin active
    <3>1. queue' = AddActiveEvent(queue, e, dc)
      BY <1>2, <2>3 DEF Relink
    <3>2. Sorted(queue', downcount')
      BY <1>1, <1>3, <1>4, <2>3, <3>1, AddOrder
    <3> QED BY <3>2, SortedSettles
  <2> QED BY <2>1, <2>2, <2>3
<1>7. OnTime(e)'
  <2>1. /\ OnTime(e) /\ since[e] \in Int /\ pending \in Nat /\ remaining \in Nat
        /\ downcount'[e] = pending + t
    BY <1>1, Numbers DEF OwnInv, Punctual
  <2>2. CASE e \in active
    <3>1. since'[e] = since[e] /\ owed'[e] = owed[e] /\ e \in active'
      BY <1>2, <2>2
    <3>2. since[e] + pending >= 0
      BY <2>2, Heard
    <3>3. Told(e)'
      BY <1>1, <3>1, <3>2, <2>1 DEF Told
    <3> QED BY <2>1, <3>1, <3>2, <3>3 DEF OnTime
  <2>3. CASE e \notin active
    <3>1. since'[e] = -pending /\ owed'[e] = remaining /\ e \in active'
      BY <1>2, <1>4, <2>3
    <3>2. Told(e)'
      BY <1>1, <2>1, <3>1 DEF Told
    <3> QED BY <2>1, <3>1, <3>2 DEF OnTime
  <2> QED BY <2>2, <2>3
<1>8. \A x \in Events \ {e} :
        /\ since'[x] = since[x] /\ downcount'[x] = downcount[x] /\ owed'[x] = owed[x]
        /\ (x \in active') = (x \in active)
  BY <1>1, <1>2, <1>4
<1>9. Punctual'
  BY <1>1, <1>5, <1>7, <1>8, OneOnTime DEF OwnInv
<1> QED
  BY <1>5, <1>6, <1>9 DEF OwnInv

LEMMA DelayOwn ==
  ASSUME IInv, OwnInv, IInv', NEW e \in Events, NEW t \in Nat \ {0}, Delay(e, t),
         IF InCallback THEN e = Running ELSE phase = "execute"
  PROVE  OwnInv'
<1> DEFINE dc == [downcount EXCEPT ![e] = @ + t]
<1>1. /\ downcount' = dc /\ dc[e] = downcount[e] + t
      /\ \A x \in Events : x # e => dc[x] = downcount[x]
      /\ dc \in [Events -> Int]
      /\ e \in active /\ UNCHANGED <<active, since, owed, pending, phase, stack>>
      /\ Relink(SortEvent(queue, e, dc), e, dc)
  BY DEF Delay, control, IInv, Counted, TypeOK
<1> HIDE DEF dc
<1>2. /\ Nesting' /\ TicksNotNegative' /\ (InCallback' <=> InCallback) /\ Running' = Running
  BY <1>1, SameCallbacks
<1>3. Settled'
  <2>1. SortedBut(queue, e, dc)
    BY <1>1, TouchedInOrder DEF OwnInv
  <2>2. Sorted(queue', downcount')
    BY <1>1, <2>1, SortOrder DEF Relink, IInv, Counted, TypeOK
  <2> QED BY <2>2, SortedSettles
<1>4. OnTime(e)'
  <2>1. OnTime(e) /\ since[e] \in Int /\ downcount[e] \in Int /\ pending \in Nat
    BY Numbers DEF OwnInv, Punctual
  <2>2. downcount'[e] >= downcount[e]
    BY <1>1, <2>1
  <2>3. since[e] + pending >= 0
    BY <1>1, Heard
  <2>4. Told(e)'
    BY <1>1, <2>3 DEF Told
  <2> QED BY <1>1, <1>2, <2>1, <2>2, <2>4 DEF OnTime
<1>5. Punctual'
  BY <1>1, <1>2, <1>4, OneOnTime DEF OwnInv
<1> QED
  BY <1>2, <1>3, <1>5 DEF OwnInv

LEMMA ActivateOwn ==
  ASSUME IInv, OwnInv, IInv', NEW e \in Events, Activate(e),
         IF InCallback THEN e = Running ELSE phase = "execute"
  PROVE  OwnInv'
<1> DEFINE dc == [downcount EXCEPT ![e] = downcount[e] + pending]
<1>1. /\ downcount' = dc /\ e \notin active /\ active' = active \union {e}
      /\ since' = [since EXCEPT ![e] = since[e] - pending]
      /\ owed' = [owed EXCEPT ![e] = @ + remaining]
      /\ Relink(AddActiveEvent(queue, e, dc), e, dc)
      /\ UNCHANGED <<pending, phase, stack>>
  BY DEF Activate, ActivateWith, control
<1>2. /\ dc \in [Events -> Int] /\ dc[e] = downcount[e] + pending
      /\ \A x \in Events : x # e => dc[x] = downcount[x]
      /\ since \in [Events -> Int] /\ owed \in [Events -> Int]
  <2>1. /\ downcount \in [Events -> Int] /\ since \in [Events -> Int]
        /\ owed \in [Events -> Int] /\ pending \in Nat
    BY DEF IInv, Counted, TypeOK
  <2> QED BY <2>1
<1> HIDE DEF dc
<1>3. /\ Nesting' /\ TicksNotNegative' /\ (InCallback' <=> InCallback) /\ Running' = Running
  BY <1>1, SameCallbacks
<1>4. Settled'
  <2>1. Sorted(queue, dc)
    BY <1>1, <1>2, TouchedInOrder DEF OwnInv
  <2>2. queue \in Seq(Events)
    BY DEF IInv, Counted, TypeOK, IsList
  <2>3. Sorted(queue', downcount')
    BY <1>1, <1>2, <2>1, <2>2, AddOrder DEF Relink
  <2> QED BY <2>3, SortedSettles
<1>5. OnTime(e)'
  <2>1. /\ OnTime(e) /\ since[e] \in Int /\ downcount[e] \in Int /\ owed[e] \in Int
        /\ pending \in Nat /\ remaining \in Nat
    BY Numbers DEF OwnInv, Punctual
  <2>2. since[e] >= 0
    BY <1>1, Heard
  <2>3. /\ since'[e] = since[e] - pending /\ downcount'[e] = downcount[e] + pending
        /\ owed'[e] = owed[e] + remaining /\ e \in active'
    BY <1>1, <1>2
  <2>4. Told(e)'
    BY <1>1, <2>1, <2>2, <2>3 DEF Told
  <2>5. phase = "events" => downcount[e] + pending >= 0
    <3>1. phase = "events" => InCallback /\ e = Running
      OBVIOUS
    <3> QED BY <1>1, <2>1, <3>1 DEF OnTime, Told
  <2> QED BY <1>1, <2>1, <2>3, <2>4, <2>5 DEF OnTime
<1>6. \A x \in Events \ {e} :
        /\ since'[x] = since[x] /\ downcount'[x] = downcount[x] /\ owed'[x] = owed[x]
        /\ (x \in active') = (x \in active)
  BY <1>1, <1>2
<1>7. Punctual'
  BY <1>1, <1>3, <1>5, <1>6, OneOnTime DEF OwnInv
<1> QED
  BY <1>3, <1>4, <1>7 DEF OwnInv

LEMMA DeactivateOwn ==
  ASSUME IInv, OwnInv, IInv', NEW e \in Events, Deactivate(e),
         IF InCallback THEN e = Running ELSE phase = "execute"
  PROVE  OwnInv'
<1> DEFINE dc == [downcount EXCEPT ![e] = @ - pending]
<1>1. /\ downcount' = dc /\ e \in active /\ active' = active \ {e}
      /\ since' = [since EXCEPT ![e] = @ + pending]
      /\ owed' = [owed EXCEPT ![e] = @ - remaining]
      /\ queue' = RemoveActiveEvent(queue, e)
      /\ UNCHANGED <<pending, phase, stack>>
  BY DEF Deactivate, Unlink, control
<1>2. /\ dc \in [Events -> Int] /\ dc[e] = downcount[e] - pending
      /\ \A x \in Events : x # e => dc[x] = downcount[x]
      /\ since \in [Events -> Int] /\ owed \in [Events -> Int]
  <2>1. /\ downcount \in [Events -> Int] /\ since \in [Events -> Int]
        /\ owed \in [Events -> Int] /\ pending \in Nat
    BY DEF IInv, Counted, TypeOK
  <2> QED BY <2>1
<1> HIDE DEF dc
<1>3. /\ Nesting' /\ TicksNotNegative' /\ (InCallback' <=> InCallback) /\ Running' = Running
  BY <1>1, SameCallbacks
<1>4. Settled'
  <2>1. SortedBut(queue, e, dc)
    BY <1>1, <1>2, TouchedInOrder DEF OwnInv
  <2>2. Sorted(queue', downcount')
    BY <1>1, <1>2, <2>1, RemoveOrder DEF IInv, Counted, TypeOK
  <2> QED BY <2>2, SortedSettles
<1>5. OnTime(e)'
  <2>1. /\ OnTime(e) /\ since[e] \in Int /\ downcount[e] \in Int /\ owed[e] \in Int
        /\ pending \in Nat /\ remaining \in Nat
        /\ since[e] = owed[e] - (pending + remaining)
    BY <1>1, Numbers DEF OwnInv, Punctual
  <2>2. since[e] + pending >= 0
    BY <1>1, Heard
  <2>3. /\ since'[e] = since[e] + pending /\ downcount'[e] = downcount[e] - pending
        /\ owed'[e] = owed[e] - remaining /\ e \notin active'
    BY <1>1, <1>2
  <2>4. phase = "events" => downcount[e] >= 0
    BY <1>1, <2>1 DEF OnTime
  <2>5. Told(e)'
    BY <1>1, <2>1, <2>2, <2>3, <2>4 DEF Told
  <2> QED BY <1>1, <2>1, <2>2, <2>3, <2>5 DEF OnTime
<1>6. \A x \in Events \ {e} :
        /\ since'[x] = since[x] /\ downcount'[x] = downcount[x] /\ owed'[x] = owed[x]
        /\ (x \in active') = (x \in active)
  BY <1>1, <1>2
<1>7. Punctual'
  BY <1>1, <1>3, <1>5, <1>6, OneOnTime DEF OwnInv
<1> QED
  BY <1>3, <1>4, <1>7 DEF OwnInv

LEMMA RecreateOwn ==
  ASSUME IInv, OwnInv, IInv', NEW e \in Events, Recreate(e)
  PROVE  OwnInv'
<1>1. /\ downcount' = [downcount EXCEPT ![e] = FirstInterval[e]]
      /\ since' = [since EXCEPT ![e] = 0] /\ owed' = [owed EXCEPT ![e] = 0]
      /\ active' = active \ {e} /\ phase = "loop"
      /\ IF e \in active THEN queue' = RemoveActiveEvent(queue, e) ELSE queue' = queue
      /\ UNCHANGED <<pending, phase, stack>>
  BY DEF Recreate, Unlink, control
<1>2. ~InCallback
  BY <1>1 DEF OwnInv, Nesting
<1>3. /\ downcount \in [Events -> Int] /\ since \in [Events -> Int] /\ owed \in [Events -> Int]
      /\ FirstInterval[e] \in Nat \ {0} /\ IsList(queue, active)
  BY EventsAssumption DEF IInv, Counted, TypeOK
<1>4. /\ Nesting' /\ TicksNotNegative' /\ (InCallback' <=> InCallback) /\ Running' = Running
  BY <1>1, SameCallbacks
<1>5. Settled'
  <2>1. \A x \in Events : x # e => downcount'[x] = downcount[x]
    BY <1>1, <1>3
  <2>2. SortedBut(queue, e, downcount') /\ (e \notin active => Sorted(queue, downcount'))
    BY <1>2, <2>1, TouchedInOrder DEF OwnInv
  <2>3. downcount' \in [Events -> Int]
    BY DEF IInv, Counted, TypeOK
  <2>4. Sorted(queue', downcount')
    <3>1. CASE e \in active
      <4>1. queue' = RemoveActiveEvent(queue, e)
        BY <1>1, <3>1
      <4>2. Sorted(RemoveActiveEvent(queue, e), downcount')
        BY <1>3, <2>2, <2>3, <3>1, RemoveOrder
      <4> QED BY <4>1, <4>2
    <3>2. CASE e \notin active
      BY <1>1, <2>2, <3>2
    <3> QED BY <3>1, <3>2
  <2> QED BY <2>4, SortedSettles
<1>6. OnTime(e)'
  BY <1>1, <1>2, <1>3, <1>4 DEF OnTime
<1>7. \A x \in Events \ {e} :
        /\ since'[x] = since[x] /\ downcount'[x] = downcount[x] /\ owed'[x] = owed[x]
        /\ (x \in active') = (x \in active)
  BY <1>1, <1>3
<1>8. Punctual'
  BY <1>1, <1>4, <1>6, <1>7, OneOnTime DEF OwnInv
<1> QED
  BY <1>4, <1>5, <1>8 DEF OwnInv

LEMMA InvokeEarlyOwn ==
  ASSUME IInv, OwnInv, IInv', NEW e \in Events, NEW force, InvokeEarly(e, force),
         IF InCallback THEN e = Running ELSE phase = "execute"
  PROVE  OwnInv'
<1> DEFINE ticks == TicksSinceLastExecution(e)
           call == [event |-> e, ticks |-> ticks]
<1>1. /\ e \in active /\ ticks > 0
      /\ downcount' = [downcount EXCEPT ![e] = pending + interval[e]]
      /\ since' = [since EXCEPT ![e] = since[e] - ticks]
      /\ owed' = [owed EXCEPT ![e] = owed[e] - ticks]
      /\ stack' = Append(stack, call)
      /\ UNCHANGED <<active, queue, pending, phase, remaining>>
  BY DEF InvokeEarly, cpu
<1>2. /\ ticks = pending + since[e] /\ call.event = e /\ call.ticks = ticks
  BY DEF TicksSinceLastExecution
<1> HIDE DEF ticks, call
<1>3. /\ downcount \in [Events -> Int] /\ since \in [Events -> Int] /\ owed \in [Events -> Int]
      /\ stack \in Seq([event : Events, ticks : Int])
  BY DEF IInv, Counted, TypeOK
<1>4. /\ since[e] \in Int /\ downcount[e] \in Int /\ owed[e] \in Int
      /\ interval[e] \in Nat \ {0} /\ pending \in Nat /\ remaining \in Nat
      /\ since[e] = owed[e] - (pending + remaining)
  BY <1>1, Numbers
<1>5. /\ Len(stack) \in Nat /\ Len(stack') = Len(stack) + 1 /\ stack'[Len(stack) + 1] = call
      /\ \A i \in 1 .. Len(stack) : stack'[i] = stack[i]
  <2>1. ticks \in Int
    BY <1>2, <1>4
  <2>2. call \in [event : Events, ticks : Int]
    BY <2>1 DEF call
  <2> QED BY <1>1, <1>3, <2>2, AppendProperties
<1>6. InCallback' /\ Running' = e
  BY <1>2, <1>5 DEF InCallback, Running, Last
<1>7. Nesting'
  <2>1. \A i \in 1 .. Len(stack) : stack[i].event = e
    <3>1. CASE InCallback
      BY <3>1 DEF OwnInv, Nesting
    <3>2. CASE ~InCallback
      <4>1. Len(stack) = 0
        BY <3>2 DEF InCallback
      <4> QED BY <4>1
    <3> QED BY <3>1, <3>2
  <2>2. \A i \in 1 .. Len(stack') : stack'[i].event = e
    BY <1>2, <1>5, <2>1
  <2>3. phase \notin {"loop", "advance"}
    BY DEF OwnInv, Nesting
  <2> QED BY <1>1, <1>6, <2>2, <2>3 DEF Nesting
<1>8. TicksNotNegative'
  <2>1. DOMAIN stack = 1 .. Len(stack)
    BY <1>3
  <2>2. DOMAIN stack' = 1 .. Len(stack')
    BY DEF IInv, Counted, TypeOK
  <2>3. \A i \in 1 .. Len(stack) : stack'[i].ticks >= 0
    BY <1>5, <2>1 DEF OwnInv, TicksNotNegative
  <2>4. stack'[Len(stack) + 1].ticks >= 0
    BY SMTT(30), <1>1, <1>2, <1>4, <1>5
  <2> QED BY <1>5, <2>2, <2>3, <2>4 DEF TicksNotNegative
<1>9. Settled'
  <2>1. \A x \in Events : x # e => downcount'[x] = downcount[x]
    BY <1>1, <1>3
  <2>2. SortedBut(queue, e, downcount')
    BY <2>1, TouchedInOrder DEF OwnInv
  <2> QED BY <1>1, <1>6, <2>2 DEF Settled
<1>10. OnTime(e)'
  <2>1. /\ since'[e] = -pending /\ downcount'[e] = pending + interval[e]
        /\ owed'[e] = remaining /\ e \in active'
    BY SMTT(30), <1>1, <1>2, <1>3, <1>4
  <2>2. Told(e)'
    BY <1>1, <1>4, <2>1 DEF Told
  <2> QED BY SMTT(30), <1>1, <1>4, <2>1, <2>2 DEF OnTime
<1>11. \A x \in Events \ {e} :
         /\ since'[x] = since[x] /\ downcount'[x] = downcount[x] /\ owed'[x] = owed[x]
         /\ (x \in active') = (x \in active)
  BY <1>1, <1>3
<1>12. Punctual'
  BY <1>1, <1>6, <1>10, <1>11, OneOnTime DEF OwnInv
<1> QED
  BY <1>7, <1>8, <1>9, <1>12 DEF OwnInv

\* The CPU's own steps spend time: nothing comes any earlier.
LEMMA CPUOwn ==
  ASSUME IInv, OwnInv, IInv',
         \/ \E t \in Durations : AddPendingTicks(t)
         \/ \E t \in Bursts : Execute(t)
         \/ Interrupt
         \/ InterruptGone
  PROVE  OwnInv'
<1>1. /\ UNCHANGED <<active, queue, downcount, since>>
      /\ UNCHANGED <<phase, stack>>
  BY DEF AddPendingTicks, Execute, Interrupt, InterruptGone, events, control
<1>2. \/ \E t \in Nat : Spend(t)
      \/ UNCHANGED <<pending, owed>>
  BY EventsAssumption DEF AddPendingTicks, Execute, Interrupt, InterruptGone
<1>3. pending' >= pending /\ \A x \in Events : owed'[x] >= owed[x]
  <2>1. pending \in Nat /\ \A x \in Events : owed[x] \in Int
    BY DEF IInv, Counted, TypeOK
  <2>2. ASSUME NEW t \in Nat, Spend(t)
        PROVE  pending' >= pending /\ \A x \in Events : owed'[x] >= owed[x]
    BY <2>1, <2>2 DEF Spend
  <2> QED BY <1>2, <2>1, <2>2
<1>4. /\ Nesting' /\ TicksNotNegative' /\ (InCallback' <=> InCallback) /\ Running' = Running
  BY <1>1, SameCallbacks
<1>5. Settled'
  BY <1>1, <1>4 DEF OwnInv, Settled
<1>6. ASSUME NEW x \in Events PROVE OnTime(x)'
  <2>1. /\ OnTime(x) /\ since[x] \in Int /\ downcount[x] \in Int /\ owed[x] \in Int
        /\ pending \in Nat /\ pending' \in Nat /\ owed'[x] \in Int
        /\ pending' >= pending /\ owed'[x] >= owed[x]
    BY <1>3, Numbers DEF OwnInv, Punctual, IInv, Counted, TypeOK
  <2>2. Told(x) => Told(x)'
    BY <1>1, <2>1 DEF Told
  <2> QED BY <1>1, <1>4, <2>1, <2>2 DEF OnTime
<1> QED
  BY <1>4, <1>5, <1>6 DEF OwnInv, Punctual

\* The steps of the loop that leave the events alone.
LEMMA LoopOwn ==
  ASSUME IInv, OwnInv, IInv',
         Dispatch \/ SkipEvents \/ HeadNotDue \/ RunEvents \/ RunEventsReturns
  PROVE  OwnInv'
<1>1. /\ UNCHANGED <<active, queue, downcount, since, owed, stack>>
      /\ ~InCallback /\ phase' # "events"
  BY DEF Dispatch, SkipEvents, HeadNotDue, RunEvents, RunEventsReturns, events, cpu, OwnInv,
         Nesting
<1>2. ~InCallback' /\ Nesting' /\ TicksNotNegative'
  BY <1>1 DEF OwnInv, Nesting, TicksNotNegative, InCallback, Running
<1>3. Settled'
  BY <1>1, <1>2 DEF OwnInv, Settled
<1>4. Punctual'
  BY <1>1, <1>2 DEF OwnInv, Punctual, OnTime
<1> QED
  BY <1>2, <1>3, <1>4 DEF OwnInv

\* RunEvents goes to the time of the head: nobody is due before.
LEMMA AdvanceOwn ==
  ASSUME IInv, OwnInv, IInv', Advance
  PROVE  OwnInv'
<1> DEFINE time == Min({remaining, downcount[Head(queue)]})
<1>1. /\ downcount' = [x \in Events |-> downcount[x] - IF x \in ToSet(queue) THEN time ELSE 0]
      /\ since' = [x \in Events |-> since[x] + IF x \in ToSet(queue) THEN time ELSE 0]
      /\ UNCHANGED <<active, queue, owed, stack, pending>>
      /\ ~InCallback /\ phase' = "events"
  BY DEF Advance, cpu, OwnInv, Nesting
<1>2. /\ IsList(queue, active) /\ queue \in Seq(Events) /\ Len(queue) \in Nat
      /\ ToSet(queue) = active /\ remaining \in Nat
      /\ downcount \in [Events -> Int] /\ since \in [Events -> Int]
  BY SMTT(30) DEF IInv, Counted, TypeOK, IsList
<1>3. queue # <<>> /\ Head(queue) = queue[1] /\ 1 \in 1 .. Len(queue) /\ queue[1] \in Events
  <2>1. queue # <<>> /\ Head(queue) \in Events
    BY <1>2, HeadIsActive DEF IInv, Counted, TypeOK
  <2> QED BY <1>2, <2>1
<1>4. time \in Int /\ time <= downcount[queue[1]]
  <2>1. \A a, b \in Int : Min({a, b}) \in Int /\ Min({a, b}) <= b
    <3> TAKE a, b \in Int
    <3>1. PICK m \in {a, b} : \A y \in {a, b} : m <= y
      <4>1. CASE a <= b
        BY <4>1
      <4>2. CASE b <= a
        BY <4>2
      <4> QED BY <4>1, <4>2
    <3>2. Min({a, b}) \in {a, b} /\ \A y \in {a, b} : Min({a, b}) <= y
      BY <3>1, Zenon DEF Min
    <3> QED BY <3>2
  <2>2. downcount[queue[1]] \in Int /\ remaining \in Int
    BY <1>2, <1>3
  <2> QED BY <1>3, <2>1, <2>2
<1> HIDE DEF time
<1>5. Sorted(queue, downcount)
  BY <1>1 DEF OwnInv, Settled
<1>6. \A k \in 1 .. Len(queue) : /\ queue[k] \in active /\ queue[k] \in Events
                                 /\ downcount[queue[k]] >= downcount[queue[1]]
                                 /\ downcount'[queue[k]] = downcount[queue[k]] - time
  <2> TAKE k \in 1 .. Len(queue)
  <2>1. queue[k] \in active /\ queue[k] \in Events
    BY <1>2 DEF ToSet
  <2>2. k = 1 \/ 1 < k
    OBVIOUS
  <2>3. downcount[queue[k]] >= downcount[queue[1]]
    BY <1>2, <1>3, <1>5, <2>1, <2>2 DEF Sorted
  <2> QED BY <1>1, <1>2, <2>1, <2>3
<1>7. ~InCallback' /\ Nesting' /\ TicksNotNegative'
  BY <1>1 DEF OwnInv, Nesting, TicksNotNegative, InCallback, Running
<1>8. Settled'
  <2>1. Sorted(queue, downcount')
    <3> SUFFICES ASSUME NEW k \in 1 .. Len(queue), NEW l \in 1 .. Len(queue), k < l
                 PROVE  downcount'[queue[k]] <= downcount'[queue[l]]
      BY DEF Sorted
    <3>1. downcount[queue[k]] <= downcount[queue[l]]
      BY <1>5 DEF Sorted
    <3>2. downcount[queue[k]] \in Int /\ downcount[queue[l]] \in Int
      BY <1>2, <1>6
    <3> QED BY <1>4, <1>6, <3>1, <3>2
  <2> QED BY <1>1, <1>7, <2>1 DEF Settled
<1>9. ASSUME NEW x \in Events PROVE OnTime(x)'
  <2>1. OnTime(x) /\ since[x] \in Int /\ downcount[x] \in Int
    BY <1>2 DEF OwnInv, Punctual
  <2>2. /\ downcount'[x] = downcount[x] - IF x \in active THEN time ELSE 0
        /\ since'[x] = since[x] + IF x \in active THEN time ELSE 0
    BY <1>1, <1>2
  <2>3. since'[x] + downcount'[x] >= 0
    BY <1>4, <2>1, <2>2 DEF OnTime
  <2>4. x \in active => downcount'[x] >= 0
    <3> HAVE x \in active
    <3>1. PICK k \in 1 .. Len(queue) : queue[k] = x
      BY <1>2 DEF ToSet
    <3>2. downcount[x] >= downcount[queue[1]] /\ downcount[queue[1]] \in Int
      BY <1>2, <1>3, <1>6, <3>1
    <3> QED BY <1>4, <2>1, <2>2, <3>2
  <2> QED BY <1>1, <1>7, <2>1, <2>3, <2>4 DEF OnTime
<1> QED
  BY <1>7, <1>8, <1>9 DEF OwnInv, Punctual

\* An event is called back when it is due, not before what it was scheduled for.
LEMMA RunHeadOwn ==
  ASSUME IInv, OwnInv, IInv', RunHead
  PROVE  OwnInv'
<1>1. PICK e \in Events : e \in active /\ e = Head(queue)
  BY HeadIsActive DEF IInv, Counted, TypeOK
<1>0. PICK call : call = [event |-> e, ticks |-> since[e]]
  OBVIOUS
<1>2. /\ downcount' = [downcount EXCEPT ![e] = downcount[e] + interval[e]]
      /\ since' = [since EXCEPT ![e] = 0]
      /\ owed' = [owed EXCEPT ![e] = owed[e] - since[e]]
      /\ stack' = <<call>>
      /\ UNCHANGED <<active, queue, pending, phase>>
      /\ phase = "events" /\ ~InCallback /\ downcount[e] <= 0
  BY <1>0, <1>1 DEF RunHead, cpu, DowncountAfterRun
<1>3. call.event = e /\ call.ticks = since[e]
  BY <1>0
<1>4. /\ downcount \in [Events -> Int] /\ since \in [Events -> Int] /\ owed \in [Events -> Int]
  BY DEF IInv, Counted, TypeOK
<1>5. /\ since[e] \in Int /\ downcount[e] \in Int /\ owed[e] \in Int
      /\ interval[e] \in Nat \ {0} /\ pending \in Nat /\ remaining \in Nat
      /\ since[e] = owed[e] - (pending + remaining) /\ OnTime(e)
  BY <1>1, Numbers DEF OwnInv, Punctual
<1>6. downcount[e] = 0 /\ since[e] >= 0
  BY <1>1, <1>2, <1>5 DEF OnTime
<1>7. Len(stack') = 1 /\ stack'[1] = call /\ InCallback' /\ Running' = e
  BY <1>2, <1>3 DEF InCallback, Running, Last
<1>8. Nesting' /\ TicksNotNegative'
  <2>1. DOMAIN stack' = 1 .. 1
    BY <1>2
  <2> QED BY <1>2, <1>3, <1>6, <1>7, <2>1 DEF Nesting, TicksNotNegative
<1>9. Settled'
  <2>1. \A x \in Events : x # e => downcount'[x] = downcount[x]
    BY <1>2, <1>4
  <2>2. SortedBut(queue, e, downcount')
    BY <1>1, <1>2, <2>1, TouchedInOrder DEF OwnInv
  <2> QED BY <1>2, <1>7, <2>2 DEF Settled
<1>10. OnTime(e)'
  <2>1. /\ since'[e] = 0 /\ downcount'[e] = interval[e]
        /\ owed'[e] = pending + remaining /\ e \in active'
    BY <1>1, <1>2, <1>4, <1>5, <1>6
  <2>2. Told(e)'
    BY <1>2, <1>5, <2>1 DEF Told
  <2> QED BY <1>5, <2>1, <2>2 DEF OnTime
<1>11. \A x \in Events \ {e} :
         /\ since'[x] = since[x] /\ downcount'[x] = downcount[x] /\ owed'[x] = owed[x]
         /\ (x \in active') = (x \in active)
  BY <1>2, <1>4
<1>12. Punctual'
  BY <1>1, <1>2, <1>7, <1>10, <1>11, OneOnTime DEF OwnInv
<1> QED
  BY <1>8, <1>9, <1>12 DEF OwnInv

LEMMA CallbackReturnsOwn ==
  ASSUME IInv, OwnInv, IInv', CallbackReturns
  PROVE  OwnInv'
<1>1. /\ InCallback /\ stack' = Front(stack)
      /\ queue' = SortEvent(queue, Running, downcount)
      /\ UNCHANGED <<active, downcount, since, owed, pending, phase>>
  BY DEF CallbackReturns, Relink
<1>2. stack \in Seq([event : Events, ticks : Int]) /\ stack # <<>>
  BY <1>1 DEF IInv, Counted, TypeOK, InCallback
<1>3. /\ Len(stack) \in Nat /\ Len(stack) > 0 /\ Len(stack') = Len(stack) - 1
      /\ \A i \in 1 .. Len(stack') : stack'[i] = stack[i]
  <2>1. Len(stack) \in Nat /\ Len(stack) > 0
    BY <1>2
  <2>2. stack' = SubSeq(stack, 1, Len(stack) - 1)
    BY <1>1 DEF Front
  <2>3. \A i \in 1 .. Len(stack) - 1 : stack[i] \in [event : Events, ticks : Int]
    <3>1. 1 .. Len(stack) - 1 \subseteq 1 .. Len(stack)
      BY <2>1
    <3> QED BY <1>2, <3>1, ElementOfSeq
  <2>4. /\ Len(stack') = IF 1 <= Len(stack) - 1 THEN (Len(stack) - 1) - 1 + 1 ELSE 0
        /\ \A i \in 1 .. (Len(stack) - 1) - 1 + 1 : stack'[i] = stack[1 + i - 1]
    BY <2>1, <2>2, <2>3, SubSeqProperties
  <2>5. \A n, m \in Nat : n > 0 /\ m = (IF 1 <= n - 1 THEN (n - 1) - 1 + 1 ELSE 0) => m = n - 1
    OBVIOUS
  <2>6. Len(stack') \in Nat
    BY DEF IInv, Counted, TypeOK
  <2>7. Len(stack') = Len(stack) - 1
    BY <2>1, <2>4, <2>5, <2>6
  <2> QED BY <2>1, <2>4, <2>7
<1>4. Running \in Events
  <2>1. stack[Len(stack)] \in [event : Events, ticks : Int]
    <3>1. Len(stack) \in 1 .. Len(stack)
      BY <1>3
    <3> QED BY <1>2, <3>1, ElementOfSeq
  <2> QED BY <2>1 DEF Running, Last
<1>5. InCallback' => Running' = Running
  <2> HAVE InCallback'
  <2>1. Len(stack') \in 1 .. Len(stack) /\ Len(stack') \in 1 .. Len(stack')
    <3>1. stack' \in Seq([event : Events, ticks : Int]) /\ stack' # <<>>
      BY DEF InCallback, IInv, Counted, TypeOK
    <3>2. Len(stack') \in Nat /\ Len(stack') > 0
      BY <3>1
    <3> QED BY <1>3, <3>2
  <2>2. stack'[Len(stack')].event = Running
    BY <1>3, <2>1 DEF OwnInv, Nesting
  <2> QED BY <2>2 DEF Running, Last
<1>6. Nesting'
  <2>1. \A i \in 1 .. Len(stack') : stack'[i].event = Running
    BY <1>3 DEF OwnInv, Nesting
  <2>2. phase' \notin {"loop", "advance"}
    BY <1>1 DEF OwnInv, Nesting
  <2>3. Len(stack') = 0 \/ InCallback'
    BY <1>3 DEF InCallback
  <2>4. \A i \in 1 .. Len(stack') : stack'[i].event = Running'
    BY <1>5, <2>1, <2>3
  <2> QED BY <2>2, <2>4 DEF Nesting
<1>7. TicksNotNegative'
  <2>1. DOMAIN stack' = 1 .. Len(stack')
    BY DEF IInv, Counted, TypeOK
  <2>2. DOMAIN stack = 1 .. Len(stack)
    BY <1>2
  <2> QED BY <1>3, <2>1, <2>2 DEF OwnInv, TicksNotNegative
<1>8. Settled'
  <2>1. SortedBut(queue, Running, downcount)
    BY <1>1 DEF OwnInv, Settled
  <2>2. IsList(queue, active) /\ downcount \in [Events -> Int]
    BY DEF IInv, Counted, TypeOK
  <2> HIDE DEF Running
  <2>3. Sorted(queue', downcount)
    BY <1>1, <1>4, <2>1, <2>2, SortOrder
  <2> QED BY <1>1, <2>3, SortedSettles
<1>9. ASSUME NEW x \in Events PROVE OnTime(x)'
  <2>1. InCallback' /\ x = Running' => InCallback /\ x = Running
    BY <1>1, <1>5
  <2>2. Told(x) => Told(x)'
    BY <1>1 DEF Told
  <2> QED BY <1>1, <2>1, <2>2 DEF OwnInv, Punctual, OnTime
<1> QED
  BY <1>6, <1>7, <1>8, <1>9 DEF OwnInv, Punctual

LEMMA OwnInitially == Init => OwnInv
<1> SUFFICES ASSUME Init PROVE OwnInv
  OBVIOUS
<1>1. stack = <<>> /\ queue = <<Permanent>> /\ phase = "loop"
  BY DEF Init
<1>2. ~InCallback /\ Nesting /\ TicksNotNegative
  BY <1>1 DEF InCallback, Nesting, TicksNotNegative
<1>3. Settled
  BY <1>1, <1>2 DEF Settled, Sorted
<1>4. \A e \in Events : OnTime(e)
  BY <1>1, <1>2, EventsAssumption DEF Init, OnTime
<1> QED
  BY <1>2, <1>3, <1>4 DEF OwnInv, Punctual

LEMMA OwnNext ==
  ASSUME ~OthersInCallbacks, IInv, IInv', OwnInv, Next
  PROVE  OwnInv'
<1>1. Durations \subseteq Nat \ {0}
  BY EventsAssumption
<1>2. ASSUME NEW e \in Events, Touch(e) PROVE OwnInv'
  <2>1. ASSUME NEW t \in Durations,
               Schedule(e, t) \/ SetIntervalAndSchedule(e, t) \/ SetPeriodAndSchedule(e, t)
        PROVE  OwnInv'
    <3>1. IF InCallback THEN e = Running ELSE phase = "execute"
      BY <2>1, MayCallOwn DEF Schedule, SetIntervalAndSchedule, SetPeriodAndSchedule
    <3>2. \/ ScheduleWith(e, t, interval[e], period[e])
          \/ ScheduleWith(e, t, t, period[e])
          \/ ScheduleWith(e, t, t, t)
      BY <2>1 DEF Schedule, SetIntervalAndSchedule, SetPeriodAndSchedule
    <3>3. t \in Nat \ {0}
      BY <1>1
    <3> QED BY <3>1, <3>2, <3>3, ScheduleOwn
  <2>2. ASSUME NEW t \in Durations, SetInterval(e, t) PROVE OwnInv'
    <3>1. UNCHANGED <<active, queue, downcount, since, owed, pending, phase, stack>>
      BY <2>2 DEF SetInterval, cpu, control
    <3>2. Nesting' /\ TicksNotNegative' /\ (InCallback' <=> InCallback) /\ Running' = Running
      BY <3>1, SameCallbacks
    <3> QED BY <3>1, <3>2 DEF OwnInv, Settled, Punctual, OnTime, Told
  <2>3. ASSUME NEW t \in Durations, Delay(e, t) PROVE OwnInv'
    <3>1. IF InCallback THEN e = Running ELSE phase = "execute"
      BY <2>3, MayCallOwn DEF Delay
    <3> QED BY <1>1, <2>3, <3>1, DelayOwn
  <2>4. CASE Activate(e)
    <3>1. IF InCallback THEN e = Running ELSE phase = "execute"
      BY <2>4, MayCallOwn DEF Activate, ActivateWith
    <3> QED BY <2>4, <3>1, ActivateOwn
  <2>5. CASE Deactivate(e)
    <3>1. IF InCallback THEN e = Running ELSE phase = "execute"
      BY <2>5, MayCallOwn DEF Deactivate
    <3> QED BY <2>5, <3>1, DeactivateOwn
  <2>6. CASE Recreate(e)
    BY <2>6, RecreateOwn
  <2> QED BY <1>2, <2>1, <2>2, <2>3, <2>4, <2>5, <2>6 DEF Touch
<1>3. ASSUME NEW e \in Events, NEW force \in BOOLEAN, InvokeEarly(e, force) PROVE OwnInv'
  <2>1. IF InCallback THEN e = Running ELSE phase = "execute"
    BY <1>3, MayCallOwn DEF InvokeEarly
  <2> QED BY <1>3, <2>1, InvokeEarlyOwn
<1>4. CASE (\E t \in Durations : AddPendingTicks(t)) \/ Interrupt \/ InterruptGone
  BY <1>4, CPUOwn
<1>5. CASE CallbackReturns
  BY <1>5, CallbackReturnsOwn
<1>6. CASE Loop
  <2>1. CASE \E t \in Bursts : Execute(t)
    BY <2>1, CPUOwn
  <2>2. CASE Dispatch \/ SkipEvents \/ HeadNotDue \/ RunEvents \/ RunEventsReturns
    BY <2>2, LoopOwn
  <2>3. CASE Advance \/ RunHead
    BY <2>3, AdvanceOwn, RunHeadOwn
  <2> QED BY <1>6, <2>1, <2>2, <2>3 DEF Loop
<1> QED
  BY <1>2, <1>3, <1>4, <1>5, <1>6 DEF Next

\* The invariant of callbacks that change only their own event.
THEOREM OwnInvariance == ASSUME ~OthersInCallbacks PROVE Spec => []OwnInv
<1>1. IInv /\ IInv' /\ OwnInv /\ [Next]_vars => OwnInv'
  <2>1. ASSUME IInv, IInv', OwnInv, Next PROVE OwnInv'
    BY <2>1, OwnNext
  <2>2. ASSUME OwnInv, UNCHANGED vars PROVE OwnInv'
    <3>1. UNCHANGED <<active, queue, downcount, since, owed, pending, phase, stack>>
      BY <2>2 DEF vars, events, cpu, control
    <3>2. Nesting' /\ TicksNotNegative' /\ (InCallback' <=> InCallback) /\ Running' = Running
      BY <2>2, <3>1, SameCallbacks
    <3> QED BY <2>2, <3>1, <3>2 DEF OwnInv, Settled, Punctual, OnTime, Told
  <2> QED BY <2>1, <2>2
<1> QED
  BY <1>1, OwnInitially, Invariance, PTL DEF Spec

\* As long as callbacks change only their own event, the list is in order whenever none is
\* running, wherever the downcounts of the events have come from.
THEOREM EventsStaySorted == ASSUME ~OthersInCallbacks PROVE Spec => []EventsSorted
<1>1. IInv /\ OwnInv => EventsSorted
  <2> SUFFICES ASSUME IInv, OwnInv, ~InCallback
               PROVE  Sorted(queue, downcount) /\ DOMAIN queue = 1 .. Len(queue)
    BY DEF EventsSorted, Sorted
  <2>1. DOMAIN queue = 1 .. Len(queue)
    BY DEF IInv, Counted, TypeOK, IsList
  <2> QED BY <2>1 DEF OwnInv, Settled
<1> QED
  BY <1>1, Invariance, OwnInvariance, PTL

\* Then no callback is told of a negative number of ticks either: an event is called back
\* exactly when it is due, and nothing moved its last run past that.
THEOREM TicksStayPositive == ASSUME ~OthersInCallbacks PROVE Spec => []TicksNotNegative
<1>1. OwnInv => TicksNotNegative
  BY DEF OwnInv
<1> QED
  BY <1>1, OwnInvariance, PTL
=============================================================================
