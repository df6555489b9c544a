----------------------------- MODULE Remainders -----------------------------
(***************************************************************************)
(* Facts about quotients and remainders that the proofs share: counters of *)
(* bytes in answers, and indices that go round a ring.                     *)
(***************************************************************************)
EXTENDS Integers, TLAPS

\* Quotient and remainder are the only ones.
LEMMA Division ==
  ASSUME NEW n \in Int, NEW a \in Nat \ {0}, NEW q \in Int, NEW r \in 0 .. a - 1, n = a * q + r
  PROVE  n \div a = q /\ n % a = r
<1> DEFINE u == n \div a
           v == n % a
<1>1. u \in Int /\ v \in 0 .. a - 1 /\ n = a * u + v
  OBVIOUS
<1>. HIDE DEF u, v
<1>2. ASSUME NEW x \in Int, NEW y \in Int, x >= y + 1 PROVE a * x >= a * y + a
  <2>1. x - y - 1 \in Nat
    BY <1>2
  <2>2. a * (x - y - 1) \in Nat
    BY <2>1
  <2>3. a * (x - y - 1) = a * x - a * y - a
    OBVIOUS
  <2>. QED
    BY <2>2, <2>3
<1>3. a * u \in Int /\ a * q \in Int
  BY <1>1
<1>4. u = q
  BY <1>1, <1>2, <1>3
<1>. QED
  BY <1>1, <1>4 DEF u, v

\* The quotient grows by one exactly at a multiple.
LEMMA DivNext ==
  ASSUME NEW n \in Nat, NEW a \in Nat \ {0}
  PROVE  /\ (n + 1) % a = 0 => (n + 1) \div a = n \div a + 1
         /\ (n + 1) % a # 0 => (n + 1) \div a = n \div a
<1> DEFINE q == n \div a
           r == n % a
<1>1. q \in Nat /\ r \in 0 .. a - 1 /\ n = a * q + r
  OBVIOUS
<1>. HIDE DEF q, r
<1>2. CASE r + 1 < a
  <2>1. /\ n + 1 = a * q + (r + 1) /\ r + 1 \in 0 .. a - 1
        /\ n + 1 \in Int /\ q \in Int
    BY <1>1, <1>2
  <2>2. (n + 1) \div a = q /\ (n + 1) % a = r + 1
    BY <1>1, <2>1, Division
  <2>. QED
    BY <1>1, <2>2 DEF q
<1>3. CASE r + 1 = a
  <2>1. n + 1 = a * (q + 1) + 0 /\ 0 \in 0 .. a - 1
    BY <1>1, <1>3
  <2>2. (n + 1) \div a = q + 1 /\ (n + 1) % a = 0
    BY <1>1, <2>1, Division
  <2>. QED
    BY <2>2 DEF q
<1>. QED
  BY <1>1, <1>2, <1>3

\* Taking the remainder after each step is the remainder of the sum (the slot after the last
\* is the first).
LEMMA ModNext ==
  ASSUME NEW q \in Nat, NEW s \in Nat \ {0}
  PROVE  (q + 1) % s = ((q % s) + 1) % s
<1> DEFINE k == q \div s
           r == q % s
<1>1. k \in Nat /\ r \in 0 .. s - 1 /\ q = s * k + r
  OBVIOUS
<1>. HIDE DEF k, r
<1>2. CASE r + 1 < s
  <2>1. q + 1 = s * k + (r + 1) /\ r + 1 = s * 0 + (r + 1) /\ r + 1 \in 0 .. s - 1
    BY <1>1, <1>2
  <2>2. (q + 1) % s = r + 1 /\ (r + 1) % s = r + 1
    BY SMTT(30), <1>1, <2>1, Division
  <2>. QED
    BY <2>2 DEF r
<1>3. CASE r + 1 = s
  <2>1. q + 1 = s * (k + 1) + 0 /\ r + 1 = s * 1 + 0 /\ 0 \in 0 .. s - 1
    BY <1>1, <1>3
  <2>2. (q + 1) % s = 0 /\ (r + 1) % s = 0
    BY <1>1, <2>1, Division
  <2>. QED
    BY <2>2 DEF r
<1>. QED
  BY <1>1, <1>2, <1>3

\* The place after one in a ring.
LEMMA RingNext ==
  ASSUME NEW size \in Nat \ {0}, NEW i \in 0 .. size - 1
  PROVE  (i + 1) % size = IF i + 1 = size THEN 0 ELSE i + 1
<1>1. i + 1 = size => i + 1 = size * 1 + 0
  OBVIOUS
<1>2. i + 1 # size => i + 1 \in 0 .. size - 1 /\ i + 1 = size * 0 + (i + 1)
  OBVIOUS
<1>3. 0 \in 0 .. size - 1
  OBVIOUS
<1>. QED
  BY <1>1, <1>2, <1>3, Division

\* How far a place is behind another in a ring.
LEMMA RingDistance ==
  ASSUME NEW size \in Nat \ {0}, NEW i \in 0 .. size - 1, NEW j \in 0 .. size - 1
  PROVE  (i - j) % size = IF i >= j THEN i - j ELSE i - j + size
<1>1. i >= j => i - j \in 0 .. size - 1 /\ i - j = size * 0 + (i - j)
  OBVIOUS
<1>2. i < j => i - j + size \in 0 .. size - 1 /\ i - j = size * (0 - 1) + (i - j + size)
  OBVIOUS
<1>. QED
  BY <1>1, <1>2, Division
=============================================================================
