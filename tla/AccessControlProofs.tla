------------------------ MODULE AccessControlProofs ------------------------
(***************************************************************************)
(* Proofs about what the access control application has beside Aliro: the  *)
(* advertising arbiter, its clients and the lock simulator.                *)
(*                                                                         *)
(* The arbiter, for any finite set of requests and any priorities: the     *)
(* linked list represents a sequence of distinct requests, sorted by       *)
(* priority; that sequence is the queue the arbiter implements.            *)
(*                                                                         *)
(* The lock simulator, for any set of callers, among them the commands of  *)
(* the Nordic UART service.                                                *)
(***************************************************************************)
EXTENDS AdvertisingClients, LockSim, SequencesExt, FiniteSetTheorems, SequenceTheorems, TLAPS

-----------------------------------------------------------------------------
(* Numbers.                                                                *)

(* A set of natural numbers has a least one.                               *)
LEMMA LeastIn ==
  ASSUME NEW S, S \subseteq Nat, S # {}
  PROVE  \E x \in S : \A y \in S : x <= y
<1> PICK n \in S : TRUE
  OBVIOUS
<1> DEFINE T == {0 .. x : x \in S \cap 0 .. n}
           R == StrictSubsetOrdering(0 .. n)
<1>1. IsWellFoundedOn(R, SUBSET (0 .. n))
  <2>1. IsFiniteSet(0 .. n)
    BY FS_Interval
  <2>2. FiniteSubsetsOf(0 .. n) = SUBSET (0 .. n)
    BY <2>1, FS_FiniteSubsetsOfFinite
  <2>3. IsWellFoundedOn(R, FiniteSubsetsOf(0 .. n))
    BY FS_StrictSubsetOrderingWellFounded
  <2> QED
    BY <2>2, <2>3
<1>2. T \subseteq SUBSET (0 .. n) /\ T # {}
  OBVIOUS
<1>3. PICK below \in T : \A b \in T : <<b, below>> \notin R
  <2> HIDE DEF T, R
  <2> QED
    BY <1>1, <1>2, WFMin
<1>4. PICK x \in S \cap 0 .. n : below = 0 .. x
  OBVIOUS
<1>5. ASSUME NEW y \in S, y < x PROVE FALSE
  <2>1. 0 .. y \in T
    BY <1>5
  <2>2. 0 .. y \subseteq 0 .. x /\ x \in 0 .. x /\ x \notin 0 .. y /\ 0 .. x \subseteq 0 .. n
    BY <1>5
  <2>3. <<0 .. y, 0 .. x>> \in R
    BY <2>2 DEF StrictSubsetOrdering
  <2> QED
    BY <1>3, <1>4, <2>1, <2>3
<1>6. \A y \in S : x <= y
  BY <1>5
<1> QED
  BY <1>6

-----------------------------------------------------------------------------
(* The list and the sequence of requests it represents.                    *)
Distinct(q) == \A i, j \in 1 .. Len(q) : q[i] = q[j] => i = j
Sorted(q)   == \A i, j \in 1 .. Len(q) : i < j => Priority[q[i]] <= Priority[q[j]]

Represents(q, h, t, next) ==
  /\ q \in Seq(Requests) /\ Distinct(q)
  /\ h = IF Len(q) = 0 THEN None ELSE q[1]
  /\ t = IF Len(q) = 0 THEN None ELSE q[Len(q)]
  /\ next \in [Requests -> Requests \union {None}]
  /\ \A i \in 1 .. Len(q) : next[q[i]] = IF i = Len(q) THEN None ELSE q[i + 1]

Steps == 1 .. N + 1

(* There is a natural number of requests.                                  *)
LEMMA NIsNatural == N \in Nat
  BY RequestsAssumption, FS_CardinalityType DEF N

(* There are n numbers from 1 to n.                                        *)
LEMMA CountTo ==
  ASSUME NEW n \in Nat
  PROVE  Cardinality(1 .. n) = n
<1>1. Cardinality(1 .. n) = IF 1 > n THEN 0 ELSE n - 1 + 1
  BY FS_Interval
<1> QED
  BY <1>1

(* A list of distinct requests is not longer than their number.            *)
LEMMA NoLonger ==
  ASSUME NEW q \in Seq(Requests), Distinct(q)
  PROVE  Len(q) \in 0 .. N
<1>1. q \in Injection(1 .. Len(q), Requests)
  BY DEF Distinct, Injection, IsInjective
<1>2. Cardinality(1 .. Len(q)) <= N
  BY <1>1, RequestsAssumption, FS_Injection DEF N
<1>3. Cardinality(1 .. Len(q)) = Len(q)
  BY CountTo
<1> QED
  BY <1>2, <1>3, NIsNatural

(* The walk meets the requests of the sequence, in order, and then the end.*)
LEMMA WalkFacts ==
  ASSUME NEW q, Represents(q, head, tail, link)
  PROVE  \A i \in Steps : Walk[i] = IF i <= Len(q) THEN q[i] ELSE None
<1> DEFINE W == [i \in Steps |-> IF i <= Len(q) THEN q[i] ELSE None]
<1>1. /\ q \in Seq(Requests) /\ Distinct(q) /\ N \in Nat
      /\ Len(q) \in 0 .. N
  BY NoLonger, NIsNatural DEF Represents
<1>2. W = [i \in Steps |->
             IF i = 1 THEN head ELSE IF W[i - 1] = None THEN None ELSE link[W[i - 1]]]
  <2> SUFFICES ASSUME NEW i \in Steps
               PROVE  W[i] = IF i = 1 THEN head
                             ELSE IF W[i - 1] = None THEN None ELSE link[W[i - 1]]
    OBVIOUS
  <2>1. CASE i = 1
    BY <1>1, <2>1 DEF Represents, Steps
  <2>2. CASE i # 1
    <3>1. i - 1 \in Steps
      BY <1>1, <2>2 DEF Steps
    <3>2. W[i - 1] = IF i - 1 <= Len(q) THEN q[i - 1] ELSE None
      BY <3>1
    <3>3. i - 1 <= Len(q) => q[i - 1] # None
      BY <1>1, <3>1, NoneIsNoRequest DEF Steps
    <3> QED
      BY <1>1, <2>2, <3>1, <3>2, <3>3 DEF Represents, Steps
  <2> QED
    BY <2>1, <2>2
<1>3. Walk = [i \in Steps |->
                IF i = 1 THEN head ELSE IF Walk[i - 1] = None THEN None ELSE link[Walk[i - 1]]]
  <2> HIDE DEF W
  <2> QED
    BY <1>2 DEF Walk, Steps
<1>4. ASSUME NEW i \in Steps, Walk[i] # W[i] PROVE FALSE
  <2> DEFINE Bad == {j \in Steps : Walk[j] # W[j]}
  <2>1. Bad \subseteq Nat /\ Bad # {}
    <3> HIDE DEF W
    <3> QED
      BY <1>1, <1>4 DEF Steps
  <2>2. PICK j \in Bad : \A k \in Bad : j <= k
    BY <2>1, LeastIn
  <2>3. j - 1 \in Steps => Walk[j - 1] = W[j - 1]
    BY <1>1, <2>2 DEF Steps
  <2>4. Walk[j] = W[j]
    <3> HIDE DEF W
    <3>1. CASE j = 1
      BY <1>2, <1>3, <3>1
    <3>2. CASE j # 1
      <4>1. j - 1 \in Steps
        BY <1>1, <3>2 DEF Steps
      <4> QED
        BY <1>2, <1>3, <2>3, <3>2, <4>1
    <3> QED
      BY <3>1, <3>2
  <2> QED
    BY <2>2, <2>4
<1> QED
  BY <1>4

(* So the list is the sequence.                                            *)
LEMMA ListFacts ==
  ASSUME NEW q, Represents(q, head, tail, link)
  PROVE  /\ Ends /\ Length = Len(q) /\ AsSeq = q
         /\ \A i \in 1 .. N : Walk[i] = IF i <= Len(q) THEN q[i] ELSE None
         /\ \A r \in Requests : IsLinked(r) <=> \E i \in 1 .. Len(q) : q[i] = r
<1>1. q \in Seq(Requests) /\ N \in Nat /\ Len(q) \in 0 .. N
  BY NoLonger, NIsNatural DEF Represents
<1>2. \A i \in Steps : Walk[i] = IF i <= Len(q) THEN q[i] ELSE None
  BY WalkFacts
<1>3. \A i \in 1 .. Len(q) : q[i] \in Requests /\ q[i] # None
  BY <1>1, NoneIsNoRequest
<1>4. Ends
  BY <1>1, <1>2 DEF Ends, Steps
<1>5. {i \in 1 .. N : Walk[i] # None} = 1 .. Len(q)
  BY <1>1, <1>2, <1>3 DEF Steps
<1>6. Length = Len(q)
  <2>1. Length = Cardinality(1 .. Len(q))
    BY Zenon, <1>5 DEF Length
  <2> QED
    BY <1>1, <2>1, CountTo
<1>7. AsSeq = q
  <2>1. AsSeq = [i \in 1 .. Len(q) |-> q[i]]
    BY <1>1, <1>2, <1>6 DEF AsSeq, Steps
  <2> QED
    BY <1>1, <2>1
<1>8. \A r \in Requests : IsLinked(r) <=> \E i \in 1 .. Len(q) : q[i] = r
  BY <1>1, <1>2, <1>3, NoneIsNoRequest DEF IsLinked, Steps
<1> QED
  BY <1>1, <1>2, <1>4, <1>6, <1>7, <1>8 DEF Steps

-----------------------------------------------------------------------------
(* What the operations do to the sequence.                                 *)
With(q, k, r) ==
  [i \in 1 .. Len(q) + 1 |-> IF i <= k THEN q[i] ELSE IF i = k + 1 THEN r ELSE q[i - 1]]
Without(q, k) == [i \in 1 .. Len(q) - 1 |-> IF i < k THEN q[i] ELSE q[i + 1]]
IsIn(r, q)    == \E i \in 1 .. Len(q) : q[i] = r

(* InsertAt of the community modules, the predecessor's position known.    *)
LEMMA InsertAtIs ==
  ASSUME NEW q, NEW k \in Nat, NEW i, i = k + 1, NEW r
  PROVE  InsertAt(q, i, r) = SubSeq(q, 1, k) \o <<r>> \o SubSeq(q, i, Len(q))
<1>1. i - 1 = k
  OBVIOUS
<1> QED
  BY <1>1 DEF InsertAt

(* A request inserted behind the first k.                                  *)
LEMMA WithFacts ==
  ASSUME NEW q \in Seq(Requests), NEW k \in 0 .. Len(q), NEW r \in Requests
  PROVE  /\ With(q, k, r) \in Seq(Requests) /\ Len(With(q, k, r)) = Len(q) + 1
         /\ \A i \in 1 .. Len(q) + 1 :
              With(q, k, r)[i] = IF i <= k THEN q[i] ELSE IF i = k + 1 THEN r ELSE q[i - 1]
         /\ With(q, k, r) = InsertAt(q, k + 1, r)
<1> DEFINE p == With(q, k, r)
<1>1. Len(q) \in Nat /\ \A i \in 1 .. Len(q) : q[i] \in Requests
  OBVIOUS
<1>2. \A i \in 1 .. Len(q) + 1 :
        /\ p[i] = IF i <= k THEN q[i] ELSE IF i = k + 1 THEN r ELSE q[i - 1]
        /\ p[i] \in Requests
  BY <1>1 DEF With
<1>3. p \in [1 .. Len(q) + 1 -> Requests]
  BY <1>2 DEF With
<1>4. p \in Seq(Requests) /\ Len(p) = Len(q) + 1
  BY <1>1, <1>3
<1>5. p = InsertAt(q, k + 1, r)
  <2> DEFINE a == SubSeq(q, 1, k)
             m == <<r>>
             b == SubSeq(q, k + 1, Len(q))
             s == a \o m \o b
  <2>1. a \in Seq(Requests) /\ Len(a) = k /\ \A i \in 1 .. k : a[i] = q[i]
    BY <1>1
  <2>2. /\ b \in Seq(Requests) /\ Len(b) = Len(q) - k
        /\ \A i \in 1 .. Len(q) - k : b[i] = q[k + i]
    BY <1>1
  <2>m. m \in Seq(Requests) /\ Len(m) = 1 /\ m[1] = r
    OBVIOUS
  <2>c. InsertAt(q, k + 1, r) = s
    <3>1. k \in Nat
      BY <1>1
    <3> DEFINE j == k + 1
    <3>2. j = k + 1
      OBVIOUS
    <3> HIDE DEF j, a, m, b, s, p
    <3>3. InsertAt(q, j, r) = SubSeq(q, 1, k) \o <<r>> \o SubSeq(q, j, Len(q))
      BY <3>1, <3>2, InsertAtIs
    <3> QED
      BY <3>2, <3>3 DEF s, a, m, b
  <2> HIDE DEF a, b, m, s
  <2>3. /\ a \o m \in Seq(Requests) /\ Len(a \o m) = k + 1
        /\ \A i \in 1 .. k + 1 : (a \o m)[i] = IF i <= k THEN q[i] ELSE r
    <3>1. /\ a \o m \in Seq(Requests) /\ Len(a \o m) = Len(a) + Len(m)
          /\ \A i \in 1 .. Len(a) + Len(m) :
               (a \o m)[i] = IF i <= Len(a) THEN a[i] ELSE m[i - Len(a)]
      BY <2>1, <2>m, ConcatProperties
    <3>2. \A i \in 1 .. k + 1 : i <= k \/ (i = k + 1 /\ i - k = 1)
      BY <1>1
    <3> QED
      BY <1>1, <2>1, <2>m, <3>1, <3>2
  <2>4. /\ s \in Seq(Requests) /\ Len(s) = Len(q) + 1
        /\ \A i \in 1 .. Len(q) + 1 :
             s[i] = IF i <= k THEN q[i] ELSE IF i = k + 1 THEN r ELSE q[i - 1]
    <3> DEFINE am == a \o m
    <3>1. am \in Seq(Requests) /\ Len(am) = k + 1
      BY <2>3
    <3> HIDE DEF am
    <3>2. /\ am \o b \in Seq(Requests) /\ Len(am \o b) = Len(am) + Len(b)
          /\ \A i \in 1 .. Len(am) + Len(b) :
               (am \o b)[i] = IF i <= Len(am) THEN am[i] ELSE b[i - Len(am)]
      BY <2>2, <3>1, ConcatProperties
    <3>3. \A i \in 1 .. k + 1 : am[i] = IF i <= k THEN q[i] ELSE r
      BY <2>3 DEF am
    <3>4. s = am \o b
      BY DEF s, am
    <3>5. Len(s) = Len(q) + 1
      BY <1>1, <2>2, <3>1, <3>2, <3>4
    <3>6. ASSUME NEW i \in 1 .. Len(q) + 1
          PROVE  s[i] = IF i <= k THEN q[i] ELSE IF i = k + 1 THEN r ELSE q[i - 1]
      <4>1. CASE i <= k + 1
        BY <1>1, <2>2, <3>1, <3>2, <3>3, <3>4, <4>1
      <4>2. CASE i > k + 1
        <5>1. i - (k + 1) \in 1 .. Len(q) - k /\ k + (i - (k + 1)) = i - 1
          BY <1>1, <4>2
        <5>2. s[i] = b[i - (k + 1)]
          BY <1>1, <2>2, <3>1, <3>2, <3>4, <4>2
        <5> QED
          BY <2>2, <4>2, <5>1, <5>2
      <4> QED
        BY <1>1, <4>1, <4>2
    <3> QED
      BY <3>2, <3>4, <3>5, <3>6
  <2>5. s = p
    <3> HIDE DEF p
    <3>1. Len(s) = Len(p) /\ \A i \in 1 .. Len(s) : s[i] = p[i]
      BY <1>1, <1>2, <1>4, <2>4
    <3> QED
      BY <1>4, <2>4, <3>1, SeqEqual
  <2> QED
    BY <2>c, <2>5
<1> QED
  BY <1>2, <1>4, <1>5

(* Request number k removed.                                               *)
LEMMA WithoutFacts ==
  ASSUME NEW q \in Seq(Requests), NEW k \in 1 .. Len(q)
  PROVE  /\ Without(q, k) \in Seq(Requests) /\ Len(Without(q, k)) = Len(q) - 1
         /\ \A i \in 1 .. Len(q) - 1 : Without(q, k)[i] = IF i < k THEN q[i] ELSE q[i + 1]
         /\ Without(q, k) = RemoveAt(q, k)
<1> DEFINE p == Without(q, k)
<1>1. Len(q) \in Nat /\ \A i \in 1 .. Len(q) : q[i] \in Requests
  OBVIOUS
<1>2. \A i \in 1 .. Len(q) - 1 :
        /\ p[i] = IF i < k THEN q[i] ELSE q[i + 1]
        /\ p[i] \in Requests
  BY <1>1 DEF Without
<1>3. p \in [1 .. Len(q) - 1 -> Requests]
  BY <1>2 DEF Without
<1>4. p \in Seq(Requests) /\ Len(p) = Len(q) - 1
  BY <1>1, <1>3
<1>5. p = RemoveAt(q, k)
  <2> DEFINE a == SubSeq(q, 1, k - 1)
             b == SubSeq(q, k + 1, Len(q))
             s == a \o b
  <2>1. a \in Seq(Requests) /\ Len(a) = k - 1 /\ \A i \in 1 .. k - 1 : a[i] = q[i]
    BY <1>1
  <2>2. /\ b \in Seq(Requests) /\ Len(b) = Len(q) - k
        /\ \A i \in 1 .. Len(q) - k : b[i] = q[k + i]
    BY <1>1
  <2>c. RemoveAt(q, k) = s
    BY DEF RemoveAt
  <2> HIDE DEF a, b, s
  <2>4. /\ s \in Seq(Requests) /\ Len(s) = Len(q) - 1
        /\ \A i \in 1 .. Len(q) - 1 : s[i] = IF i < k THEN q[i] ELSE q[i + 1]
    <3>1. /\ a \o b \in Seq(Requests) /\ Len(a \o b) = k - 1 + (Len(q) - k)
          /\ \A i \in 1 .. k - 1 + (Len(q) - k) :
               (a \o b)[i] = IF i <= k - 1 THEN a[i] ELSE b[i - (k - 1)]
      BY <2>1, <2>2, ConcatProperties
    <3> QED
      BY <1>1, <2>1, <2>2, <3>1 DEF s
  <2>5. s = p
    <3> HIDE DEF p
    <3>1. Len(s) = Len(p) /\ \A i \in 1 .. Len(s) : s[i] = p[i]
      BY <1>1, <1>2, <1>4, <2>4
    <3> QED
      BY <1>4, <2>4, <3>1, SeqEqual
  <2> QED
    BY <2>c, <2>5
<1> QED
  BY <1>2, <1>4, <1>5

(* Where a request belongs: behind the last of those at least as urgent    *)
(* that come before any less urgent one.                                   *)
LEMMA Place ==
  ASSUME NEW q \in Seq(Requests), NEW r \in Requests
  PROVE  \E k \in 0 .. Len(q) :
           /\ \A j \in 1 .. k : Priority[q[j]] <= Priority[r]
           /\ k < Len(q) => Priority[q[k + 1]] > Priority[r]
<1> DEFINE S == {i \in 0 .. Len(q) : i = Len(q) \/ Priority[q[i + 1]] > Priority[r]}
<1>1. /\ Len(q) \in Nat /\ Priority[r] \in Nat
      /\ \A i \in 1 .. Len(q) : Priority[q[i]] \in Nat
  BY PriorityAssumption
<1>2. S \subseteq Nat /\ Len(q) \in S
  BY <1>1
<1>3. PICK k \in S : \A i \in S : k <= i
  <2> HIDE DEF S
  <2> QED
    BY <1>2, LeastIn
<1>4. ASSUME NEW j \in 1 .. k PROVE Priority[q[j]] <= Priority[r]
  <2>1. j - 1 \in 0 .. Len(q) /\ j - 1 # Len(q) /\ j - 1 < k /\ j - 1 + 1 = j
    BY <1>1, <1>3
  <2>2. j - 1 \notin S
    BY <1>3, <2>1
  <2> QED
    BY <1>1, <2>1, <2>2
<1> QED
  BY <1>3, <1>4

(* The search of AddRequest finds that place.                              *)
LEMMA PredecessorIs ==
  ASSUME NEW q, Represents(q, head, tail, link), NEW r \in Requests, NEW k \in 0 .. Len(q),
         \A j \in 1 .. k : Priority[q[j]] <= Priority[r],
         k < Len(q) => Priority[q[k + 1]] > Priority[r]
  PROVE  Predecessor(r) = IF k = 0 THEN None ELSE q[k]
<1> DEFINE Passed == {i \in 1 .. Length : \A j \in 1 .. i : Priority[Walk[j]] <= Priority[r]}
<1>1. /\ q \in Seq(Requests) /\ Length = Len(q) /\ Len(q) \in 0 .. N /\ N \in Nat
      /\ \A i \in 1 .. Len(q) : Walk[i] = q[i] /\ Priority[q[i]] \in Nat
      /\ Priority[r] \in Nat
  <2>1. q \in Seq(Requests) /\ Len(q) \in 0 .. N /\ N \in Nat
    BY NoLonger, NIsNatural DEF Represents
  <2>2. Length = Len(q) /\ \A i \in 1 .. Len(q) : Walk[i] = q[i]
    BY <2>1, ListFacts
  <2> QED
    BY <2>1, <2>2, PriorityAssumption
<1>2. Passed = 1 .. k
  <2>1. ASSUME NEW i \in 1 .. k PROVE i \in Passed
    BY <1>1
  <2>2. ASSUME NEW i \in Passed, i > k PROVE FALSE
    BY <1>1, <2>2
  <2> QED
    BY <1>1, <2>1, <2>2
<1>3. Predecessor(r) = IF 1 .. k = {} THEN None ELSE Walk[Max(1 .. k)]
  BY <1>2 DEF Predecessor
<1>4. k # 0 => Max(1 .. k) = k
  BY DEF Max
<1> QED
  BY <1>1, <1>3, <1>4

(* sys_slist_prepend puts it first,                                        *)
LEMMA PrependDoes ==
  ASSUME NEW q, Represents(q, head, tail, link), NEW r \in Requests, ~IsIn(r, q), Prepend(r)
  PROVE  Represents(With(q, 0, r), head', tail', link')
<1> DEFINE p == With(q, 0, r)
<1>1. /\ q \in Seq(Requests) /\ Len(q) \in Nat /\ \A i \in 1 .. Len(q) : q[i] \in Requests
  BY DEF Represents
<1>2. /\ p \in Seq(Requests) /\ Len(p) = Len(q) + 1
      /\ \A i \in 1 .. Len(q) + 1 : p[i] = IF i = 1 THEN r ELSE q[i - 1]
  BY <1>1, WithFacts
<1> HIDE DEF p
<1>3. Distinct(p)
  <2>1. ASSUME NEW i \in 1 .. Len(p), NEW j \in 1 .. Len(p), p[i] = p[j], i < j
        PROVE  FALSE
    <3>1. p[j] = q[j - 1] /\ j - 1 \in 1 .. Len(q) /\ (i = 1 \/ i - 1 \in 1 .. Len(q))
      BY <1>1, <1>2, <2>1
    <3>2. p[i] = IF i = 1 THEN r ELSE q[i - 1]
      BY <1>1, <1>2
    <3> QED
      BY <2>1, <3>1, <3>2 DEF Distinct, Represents, IsIn
  <2> QED
    BY <1>1, <1>2, <2>1 DEF Distinct
<1>4. head' = p[1] /\ tail' = p[Len(p)]
  BY <1>1, <1>2, NoneIsNoRequest DEF Prepend, Represents
<1>5. link' \in [Requests -> Requests \union {None}]
  BY <1>1 DEF Prepend, Represents
<1>6. ASSUME NEW i \in 1 .. Len(p)
      PROVE  link'[p[i]] = IF i = Len(p) THEN None ELSE p[i + 1]
  <2>1. CASE i = 1
    BY <1>1, <1>2, <2>1 DEF Prepend, Represents
  <2>2. CASE i # 1
    <3>1. i - 1 \in 1 .. Len(q) /\ p[i] = q[i - 1] /\ (i # Len(p) => p[i + 1] = q[i])
      BY <1>1, <1>2, <2>2
    <3>2. q[i - 1] # r /\ link'[q[i - 1]] = link[q[i - 1]]
      BY <1>1, <3>1 DEF IsIn, Prepend, Represents
    <3> QED
      BY <1>1, <1>2, <3>1, <3>2 DEF Represents
  <2> QED
    BY <2>1, <2>2
<1> QED
  BY <1>1, <1>2, <1>3, <1>4, <1>5, <1>6 DEF Represents, p

(* sys_slist_insert behind request number k,                               *)
LEMMA InsertAfterDoes ==
  ASSUME NEW q, Represents(q, head, tail, link), NEW r \in Requests, ~IsIn(r, q),
         NEW k \in 1 .. Len(q), InsertAfter(q[k], r)
  PROVE  Represents(With(q, k, r), head', tail', link')
<1> DEFINE p == With(q, k, r)
<1>1. /\ q \in Seq(Requests) /\ Len(q) \in Nat /\ \A i \in 1 .. Len(q) : q[i] \in Requests
      /\ \A i, j \in 1 .. Len(q) : q[i] = q[j] => i = j
      /\ \A i \in 1 .. Len(q) : q[i] # r /\ q[i] # None
      /\ \A i \in 1 .. Len(q) : link[q[i]] = IF i = Len(q) THEN None ELSE q[i + 1]
      /\ link \in [Requests -> Requests \union {None}]
      /\ head = q[1] /\ tail = q[Len(q)]
  BY NoneIsNoRequest DEF Represents, Distinct, IsIn
<1>2. /\ p \in Seq(Requests) /\ Len(p) = Len(q) + 1
      /\ \A i \in 1 .. Len(q) + 1 : p[i] = IF i <= k THEN q[i] ELSE IF i = k + 1 THEN r ELSE q[i - 1]
  BY <1>1, WithFacts
<1> HIDE DEF p
<1>3. Distinct(p)
  <2>1. ASSUME NEW i \in 1 .. Len(p), NEW j \in 1 .. Len(p), p[i] = p[j], i < j
        PROVE  FALSE
    <3> DEFINE f(x) == IF x <= k THEN x ELSE x - 1
    <3>1. /\ \A x \in {i, j} : x = k + 1 \/ (f(x) \in 1 .. Len(q) /\ p[x] = q[f(x)])
          /\ p[k + 1] = r
      BY <1>1, <1>2
    <3> QED
      BY <1>1, <2>1, <3>1
  <2> QED
    BY <1>1, <1>2, <2>1 DEF Distinct
<1>4. link[q[k]] = None <=> k = Len(q)
  BY <1>1
<1>5. head' = p[1] /\ tail' = p[Len(p)]
  BY <1>1, <1>2, <1>4 DEF InsertAfter
<1>6. /\ link' \in [Requests -> Requests \union {None}]
      /\ link'[q[k]] = r
      /\ link'[r] = IF k = Len(q) THEN None ELSE q[k + 1]
      /\ \A i \in 1 .. Len(q) : i # k => link'[q[i]] = link[q[i]]
  <2>1. CASE k = Len(q)
    BY <1>1, <1>4, <2>1 DEF InsertAfter
  <2>2. CASE k # Len(q)
    <3>1. link' = [link EXCEPT ![r] = link[q[k]], ![q[k]] = r]
      BY <1>4, <2>2 DEF InsertAfter
    <3> QED
      BY <1>1, <2>2, <3>1
  <2> QED
    BY <2>1, <2>2
<1>7. ASSUME NEW i \in 1 .. Len(p)
      PROVE  link'[p[i]] = IF i = Len(p) THEN None ELSE p[i + 1]
  <2>1. CASE i <= k
    BY <1>1, <1>2, <1>6, <2>1
  <2>2. CASE i = k + 1
    BY <1>1, <1>2, <1>6, <2>2
  <2>3. CASE i > k + 1
    <3>1. /\ i - 1 \in 1 .. Len(q) /\ i - 1 # k /\ p[i] = q[i - 1]
          /\ i # Len(p) => p[i + 1] = q[i]
      <4>1. i \in 1 .. Len(q) + 1 /\ i - 1 \in 1 .. Len(q) /\ i - 1 # k
        BY <1>1, <1>2, <2>3
      <4>2. p[i] = q[i - 1]
        BY <1>1, <1>2, <2>3, <4>1
      <4>3. ASSUME i # Len(p) PROVE p[i + 1] = q[i]
        <5>1. i + 1 \in 1 .. Len(q) + 1 /\ ~(i + 1 <= k) /\ i + 1 # k + 1 /\ i + 1 - 1 = i
          <6>1. Len(q) \in Nat /\ Len(p) = Len(q) + 1
            BY <1>1, <1>2
          <6> QED
            BY <2>3, <4>1, <4>3, <6>1
        <5> QED
          BY <1>2, <5>1
      <4> QED
        BY <4>1, <4>2, <4>3
    <3> QED
      BY <1>1, <1>2, <1>6, <3>1
  <2> QED
    BY <1>1, <1>2, <2>1, <2>2, <2>3
<1> QED
  BY <1>1, <1>2, <1>3, <1>5, <1>6, <1>7 DEF Represents, p

(* and sys_slist_find_and_remove takes out request number k.               *)
LEMMA RemoveDoes ==
  ASSUME NEW q, Represents(q, head, tail, link), NEW k \in 1 .. Len(q), RemoveRequest(q[k])
  PROVE  Represents(Without(q, k), head', tail', link')
<1> DEFINE p == Without(q, k)
           r == q[k]
           at == Min({i \in 1 .. N : Walk[i] = r})
<1>1. /\ q \in Seq(Requests) /\ Len(q) \in Nat /\ \A i \in 1 .. Len(q) : q[i] \in Requests
      /\ \A i, j \in 1 .. Len(q) : q[i] = q[j] => i = j
      /\ \A i \in 1 .. Len(q) : q[i] # None
      /\ \A i \in 1 .. Len(q) : link[q[i]] = IF i = Len(q) THEN None ELSE q[i + 1]
      /\ link \in [Requests -> Requests \union {None}]
      /\ head = q[1] /\ tail = q[Len(q)]
  BY NoneIsNoRequest DEF Represents, Distinct
<1>2. /\ p \in Seq(Requests) /\ Len(p) = Len(q) - 1
      /\ \A i \in 1 .. Len(q) - 1 : p[i] = IF i < k THEN q[i] ELSE q[i + 1]
  BY <1>1, WithoutFacts
<1>3. at = k
  <2>1. /\ Len(q) \in 0 .. N /\ N \in Nat
        /\ \A i \in 1 .. N : Walk[i] = IF i <= Len(q) THEN q[i] ELSE None
    BY <1>1, ListFacts, NoLonger, NIsNatural DEF Represents
  <2>2. {i \in 1 .. N : Walk[i] = r} = {k}
    BY <1>1, <2>1
  <2>3. Min({k}) = k
    BY DEF Min
  <2> QED
    BY <2>2, <2>3
<1>4. /\ link' = IF k = 1 THEN [link EXCEPT ![r] = None]
                 ELSE [link EXCEPT ![Walk[k - 1]] = link[r], ![r] = None]
      /\ head' = IF k = 1 THEN link[r] ELSE head
      /\ tail' = IF tail # r THEN tail ELSE IF k = 1 THEN head' ELSE Walk[k - 1]
  <2> HIDE DEF at
  <2>1. /\ link' = IF at = 1 THEN [link EXCEPT ![r] = None]
                   ELSE [link EXCEPT ![Walk[at - 1]] = link[r], ![r] = None]
        /\ head' = IF at = 1 THEN link[r] ELSE head
        /\ tail' = IF tail # r THEN tail ELSE IF at = 1 THEN head' ELSE Walk[at - 1]
    BY Zenon DEF RemoveRequest, at
  <2> QED
    BY <1>3, <2>1
<1>5. k # 1 => Walk[k - 1] = q[k - 1] /\ k - 1 \in 1 .. Len(q)
  BY <1>1, ListFacts, NoLonger, NIsNatural DEF Represents
<1> HIDE DEF p, at
<1>6. Distinct(p)
  BY <1>1, <1>2 DEF Distinct
<1>7. /\ head' = IF Len(p) = 0 THEN None ELSE p[1]
      /\ tail' = IF Len(p) = 0 THEN None ELSE p[Len(p)]
  <2>1. CASE k = 1
    BY <1>1, <1>2, <1>4, <2>1
  <2>2. CASE k # 1 /\ k = Len(q)
    BY <1>1, <1>2, <1>4, <1>5, <2>2
  <2>3. CASE k # 1 /\ k # Len(q)
    BY <1>1, <1>2, <1>4, <1>5, <2>3
  <2> QED
    BY <2>1, <2>2, <2>3
<1>8. /\ link' \in [Requests -> Requests \union {None}]
      /\ \A i \in 1 .. Len(q) : i # k /\ i # k - 1 => link'[q[i]] = link[q[i]]
      /\ k # 1 => link'[q[k - 1]] = link[q[k]]
  BY <1>1, <1>4, <1>5
<1>9. ASSUME NEW i \in 1 .. Len(p)
      PROVE  link'[p[i]] = IF i = Len(p) THEN None ELSE p[i + 1]
  <2>1. CASE i < k - 1
    <3>1. /\ i \in 1 .. Len(q) /\ i # k /\ i # k - 1 /\ i # Len(q) /\ i # Len(p)
          /\ p[i] = q[i] /\ p[i + 1] = q[i + 1]
      <4>1. /\ i \in 1 .. Len(q) - 1 /\ i + 1 \in 1 .. Len(q) - 1 /\ i < k /\ i + 1 < k
            /\ i # Len(q) /\ i # Len(p)
        BY <1>1, <1>2, <2>1
      <4> QED
        BY <1>1, <1>2, <2>1, <4>1
    <3> QED
      BY <1>1, <1>8, <3>1
  <2>2. CASE i = k - 1
    <3>1. k # 1 /\ i < k /\ i \in 1 .. Len(q) - 1 /\ (i = Len(p) <=> k = Len(q))
      BY <1>1, <1>2, <2>2
    <3>2. p[i] = q[k - 1]
      BY <1>2, <2>2, <3>1
    <3>3. link'[p[i]] = IF k = Len(q) THEN None ELSE q[k + 1]
      BY <1>1, <1>8, <3>1, <3>2
    <3>4. k # Len(q) => p[i + 1] = q[k + 1]
      <4>1. i + 1 = k /\ (k # Len(q) => k \in 1 .. Len(q) - 1)
        BY <1>1, <2>2
      <4> QED
        BY <1>1, <1>2, <4>1
    <3> QED
      BY <3>1, <3>3, <3>4
  <2>3. CASE i >= k
    <3> DEFINE j == i + 1
    <3>1. /\ j \in 1 .. Len(q) /\ j # k /\ j # k - 1 /\ (i = Len(p) <=> j = Len(q))
          /\ i \in 1 .. Len(q) - 1 /\ ~(i < k) /\ ~(j < k)
      BY <1>1, <1>2, <2>3
    <3>2. p[i] = q[j]
      BY <1>2, <3>1
    <3> HIDE DEF j
    <3>3. link'[p[i]] = IF j = Len(q) THEN None ELSE q[j + 1]
      BY <1>1, <1>8, <3>1, <3>2
    <3>4. j # Len(q) => p[j] = q[j + 1]
      <4>1. j # Len(q) => j \in 1 .. Len(q) - 1
        BY <1>1, <3>1
      <4> QED
        BY <1>2, <3>1, <4>1
    <3> QED
      BY <3>1, <3>3, <3>4 DEF j
  <2> QED
    BY <1>1, <1>2, <2>1, <2>2, <2>3
<1> QED
  BY <1>1, <1>2, <1>6, <1>7, <1>8, <1>9 DEF Represents, p

-----------------------------------------------------------------------------
(* The inductive invariant of the arbiter.                                 *)

(* A sequence that the list holds: sorted, of the requests that wait.      *)
Holds(q, h, t, next, waiting) ==
  /\ Represents(q, h, t, next) /\ Sorted(q)
  /\ waiting = {r \in Requests : IsIn(r, q)}
ListInv == Holds(AsSeq, head, tail, link, pending)

(* The types of the rest; the host has PoolSize connection objects.        *)
AirInv ==
  /\ wasDisconnected \in BOOLEAN /\ retry \in BOOLEAN /\ failed \in BOOLEAN
  /\ recycling \in {"no", "clear", "start"} /\ (recycling = "start" => head # None)
  /\ adv \in Requests \union {None}
  /\ conns \in Nat /\ dead \in Nat /\ conns + dead <= PoolSize
  /\ result \in {"ok", "ENOMEM", "EALREADY", "EIO", "ENOENT"}

IInv == ListInv /\ AirInv /\ AdvertisesTop /\ ResumeIsArmed

(* No list holds two sequences, before a step or after it.                 *)
LEMMA OneSequence ==
  \A q : Represents(q, head, tail, link) => AsSeq = q
  BY ListFacts

LEMMA OneSequenceThen ==
  (\A q : Represents(q, head, tail, link) => AsSeq = q)'
  BY OneSequence, PTL

(* What the list holds after a step is all there is to show.               *)
LEMMA ListThen ==
  ASSUME NEW q, Holds(q, head', tail', link', pending')
  PROVE  ListInv' /\ AsSeq' = q
<1>1. AsSeq' = q
  BY OneSequenceThen DEF Holds
<1> QED
  BY <1>1 DEF ListInv

(* What the invariant says of the pointers.                                *)
LEMMA ListNow ==
  ASSUME ListInv
  PROVE  /\ Holds(AsSeq, head, tail, link, pending)
         /\ Ends /\ head \in Requests \union {None} /\ tail \in Requests \union {None}
         /\ \A r \in Requests : r \in pending <=> IsLinked(r)
<1> DEFINE q == AsSeq
<1>1. Represents(q, head, tail, link) /\ pending = {r \in Requests : IsIn(r, q)}
  BY DEF ListInv, Holds
<1> HIDE DEF q
<1>2. Ends /\ \A r \in Requests : IsLinked(r) <=> IsIn(r, q)
  BY <1>1, ListFacts DEF IsIn
<1>3. head \in Requests \union {None} /\ tail \in Requests \union {None}
  BY <1>1 DEF Represents
<1>4. Holds(AsSeq, head, tail, link, pending)
  BY DEF ListInv
<1> QED
  BY <1>1, <1>2, <1>3, <1>4

(* A step that leaves the list alone.                                      *)
LEMMA ListStays ==
  ASSUME UNCHANGED list
  PROVE  AsSeq' = AsSeq /\ head' = head
<1>1. Walk' = Walk
  BY DEF Walk, list
<1> QED
  BY <1>1 DEF AsSeq, Length, list

(* AddRequest puts a new request in its place.                             *)
LEMMA AddDoes ==
  ASSUME NEW q, Holds(q, head, tail, link, pending), NEW r \in Requests, r \notin pending,
         AddRequest(r), pending' = pending \union {r}
  PROVE  \E k \in 0 .. Len(q) :
           /\ Holds(With(q, k, r), head', tail', link', pending')
           /\ \A j \in 1 .. k : Priority[q[j]] <= Priority[r]
           /\ \A j \in k + 1 .. Len(q) : Priority[q[j]] > Priority[r]
<1>1. /\ Represents(q, head, tail, link) /\ q \in Seq(Requests) /\ Len(q) \in Nat
      /\ Sorted(q) /\ ~IsIn(r, q) /\ pending = {x \in Requests : IsIn(x, q)}
  BY DEF Holds, Represents
<1>2. /\ Priority[r] \in Nat
      /\ \A i \in 1 .. Len(q) : Priority[q[i]] \in Nat /\ q[i] \in Requests /\ q[i] # None
  BY <1>1, PriorityAssumption, NoneIsNoRequest
<1>3. PICK k \in 0 .. Len(q) :
        /\ \A j \in 1 .. k : Priority[q[j]] <= Priority[r]
        /\ k < Len(q) => Priority[q[k + 1]] > Priority[r]
  BY <1>1, Place
<1> DEFINE p == With(q, k, r)
<1>4. Predecessor(r) = IF k = 0 THEN None ELSE q[k]
  BY <1>1, <1>3, PredecessorIs
<1>5. Represents(p, head', tail', link')
  <2>1. CASE k = 0
    BY <1>1, <1>4, <2>1, PrependDoes DEF AddRequest
  <2>2. CASE k # 0
    <3>1. k \in 1 .. Len(q) /\ InsertAfter(q[k], r)
      BY <1>1, <1>2, <1>4, <2>2 DEF AddRequest
    <3> QED
      BY <1>1, <3>1, InsertAfterDoes
  <2> QED
    BY <2>1, <2>2
<1>6. \A j \in k + 1 .. Len(q) : Priority[q[j]] > Priority[r]
  <2>1. ASSUME NEW j \in k + 1 .. Len(q) PROVE Priority[q[k + 1]] <= Priority[q[j]]
    BY <1>1, <1>2 DEF Sorted
  <2>2. ASSUME NEW j \in k + 1 .. Len(q) PROVE k + 1 \in 1 .. Len(q) /\ k < Len(q)
    BY <1>1
  <2> QED
    BY <1>1, <1>2, <1>3, <2>1, <2>2
<1>7. /\ Len(p) = Len(q) + 1
      /\ \A i \in 1 .. Len(q) + 1 : p[i] = IF i <= k THEN q[i] ELSE IF i = k + 1 THEN r ELSE q[i - 1]
  BY <1>1, WithFacts
<1> HIDE DEF p
<1>8. Sorted(p)
  <2> SUFFICES ASSUME NEW i \in 1 .. Len(p), NEW j \in 1 .. Len(p), i < j
               PROVE  Priority[p[i]] <= Priority[p[j]]
    BY DEF Sorted
  <2>1. CASE j <= k
    <3>1. i \in 1 .. Len(q) /\ j \in 1 .. Len(q) /\ p[i] = q[i] /\ p[j] = q[j]
      BY <1>1, <1>7, <2>1
    <3> QED
      BY <1>1, <3>1 DEF Sorted
  <2>2. CASE j = k + 1
    <3>1. i \in 1 .. k /\ p[i] = q[i] /\ p[j] = r
      BY <1>1, <1>7, <2>2
    <3> QED
      BY <1>3, <3>1
  <2>3. CASE j > k + 1
    <3>1. j - 1 \in 1 .. Len(q) /\ p[j] = q[j - 1] /\ j - 1 \in k + 1 .. Len(q)
      BY <1>1, <1>7, <2>3
    <3>2. CASE i <= k
      <4>1. i \in 1 .. Len(q) /\ p[i] = q[i] /\ i < j - 1
        BY <1>1, <1>7, <2>3, <3>2
      <4> QED
        BY <1>1, <3>1, <4>1 DEF Sorted
    <3>3. CASE i = k + 1
      <4>1. p[i] = r
        BY <1>1, <1>7, <3>3
      <4> QED
        BY <1>2, <1>6, <3>1, <4>1
    <3>4. CASE i > k + 1
      <4>1. i - 1 \in 1 .. Len(q) /\ p[i] = q[i - 1] /\ i - 1 < j - 1
        BY <1>1, <1>7, <3>4
      <4> QED
        BY <1>1, <3>1, <4>1 DEF Sorted
    <3> QED
      BY <1>1, <1>7, <3>2, <3>3, <3>4
  <2> QED
    BY <1>1, <1>7, <2>1, <2>2, <2>3
<1>9. \A x \in Requests : IsIn(x, p) <=> x = r \/ IsIn(x, q)
  <2>1. ASSUME NEW i \in 1 .. Len(p) PROVE p[i] = r \/ IsIn(p[i], q)
    <3>1. i <= k \/ i = k + 1 \/ i - 1 \in 1 .. Len(q)
      BY <1>1, <1>7
    <3> QED
      BY <1>1, <1>7, <3>1 DEF IsIn
  <2>2. IsIn(r, p)
    <3>1. k + 1 \in 1 .. Len(p) /\ p[k + 1] = r
      BY <1>1, <1>7
    <3> QED
      BY <3>1 DEF IsIn
  <2>3. ASSUME NEW i \in 1 .. Len(q) PROVE IsIn(q[i], p)
    <3>1. CASE i <= k
      <4>1. i \in 1 .. Len(p) /\ p[i] = q[i]
        BY <1>1, <1>7, <3>1
      <4> QED
        BY <4>1 DEF IsIn
    <3>2. CASE i > k
      <4>1. i + 1 \in 1 .. Len(q) + 1 /\ ~(i + 1 <= k) /\ i + 1 # k + 1 /\ i + 1 - 1 = i
        BY <1>1, <3>2
      <4>2. i + 1 \in 1 .. Len(p) /\ p[i + 1] = q[i]
        BY <1>7, <4>1
      <4> QED
        BY <4>2 DEF IsIn
    <3> QED
      BY <1>1, <3>1, <3>2
  <2> QED
    BY <2>1, <2>2, <2>3 DEF IsIn
<1>10. pending' = {x \in Requests : IsIn(x, p)}
  BY <1>1, <1>9
<1>11. Holds(p, head', tail', link', pending')
  BY <1>5, <1>8, <1>10 DEF Holds
<1> QED
  BY <1>3, <1>6, <1>11 DEF p

(* RemoveRequest takes one out.                                            *)
LEMMA DropDoes ==
  ASSUME NEW q, Holds(q, head, tail, link, pending), NEW k \in 1 .. Len(q),
         RemoveRequest(q[k]), pending' = pending \ {q[k]}
  PROVE  Holds(Without(q, k), head', tail', link', pending')
<1> DEFINE p == Without(q, k)
<1>1. /\ Represents(q, head, tail, link) /\ q \in Seq(Requests) /\ Len(q) \in Nat
      /\ Sorted(q) /\ Distinct(q) /\ pending = {x \in Requests : IsIn(x, q)}
  BY DEF Holds, Represents
<1>2. Represents(p, head', tail', link')
  BY <1>1, RemoveDoes
<1>3. /\ Len(p) = Len(q) - 1
      /\ \A i \in 1 .. Len(q) - 1 : p[i] = IF i < k THEN q[i] ELSE q[i + 1]
  BY <1>1, WithoutFacts
<1> HIDE DEF p
<1>4. Sorted(p)
  <2> SUFFICES ASSUME NEW i \in 1 .. Len(p), NEW j \in 1 .. Len(p), i < j
               PROVE  Priority[p[i]] <= Priority[p[j]]
    BY DEF Sorted
  <2> DEFINE f(x) == IF x < k THEN x ELSE x + 1
  <2>1. /\ f(i) \in 1 .. Len(q) /\ f(j) \in 1 .. Len(q) /\ f(i) < f(j)
        /\ p[i] = q[f(i)] /\ p[j] = q[f(j)]
    BY <1>1, <1>3
  <2> HIDE DEF f
  <2> QED
    BY <1>1, <2>1 DEF Sorted
<1>5. \A x \in Requests : IsIn(x, p) <=> x # q[k] /\ IsIn(x, q)
  <2>1. ASSUME NEW i \in 1 .. Len(p) PROVE p[i] # q[k] /\ IsIn(p[i], q)
    <3> DEFINE f == IF i < k THEN i ELSE i + 1
    <3>1. f \in 1 .. Len(q) /\ f # k /\ p[i] = q[f]
      BY <1>1, <1>3
    <3> HIDE DEF f
    <3> QED
      BY <1>1, <3>1 DEF Distinct, IsIn
  <2>2. ASSUME NEW i \in 1 .. Len(q), i # k PROVE IsIn(q[i], p)
    <3> DEFINE f == IF i < k THEN i ELSE i - 1
    <3>1. f \in 1 .. Len(p) /\ p[f] = q[i]
      BY <1>1, <1>3, <2>2
    <3> HIDE DEF f
    <3> QED
      BY <3>1 DEF IsIn
  <2> QED
    BY <2>1, <2>2 DEF IsIn
<1>6. pending' = {x \in Requests : IsIn(x, p)}
  BY <1>1, <1>5
<1> QED
  BY <1>2, <1>4, <1>6 DEF Holds, p

-----------------------------------------------------------------------------
(* What the steps do.                                                      *)

(* A start carries the request, or is to be tried again.                   *)
LEMMA Starts ==
  ASSUME NEW h \in Requests, NEW on \in Requests \union {None}, failed \in BOOLEAN,
         StartAdvertising(h, on)
  PROVE  /\ adv' \in {on, h, None} /\ retry' \in BOOLEAN /\ failed' \in BOOLEAN
         /\ result' \in {"ok", "ENOMEM", "EALREADY", "EIO"}
         /\ failed => failed'
         /\ adv' = None => retry' = TRUE
  BY NoneIsNoRequest DEF StartAdvertising

(* InsertRequest puts the request in its place; a new top request is on    *)
(* the air after it, or the start is to be tried again.                    *)
LEMMA InsertDoes ==
  ASSUME IInv, NEW r \in Requests, r \notin pending, InsertRequest(r)
  PROVE  /\ ListInv' /\ Queue!Enqueue(r)
         /\ UNCHANGED <<wasDisconnected, recycling, conns, dead>> /\ recycling = "no"
         /\ head' \in Requests
         /\ \/ UNCHANGED <<adv, retry, failed>> /\ head' = head /\ result' = "ok"
            \/ head # None /\ StopFails
            \/ StartAdvertising(head', IF head = None THEN adv ELSE None)
<1> DEFINE q == AsSeq
<1>1. Holds(q, head, tail, link, pending)
  BY ListNow DEF IInv
<1> HIDE DEF q
<1>2. /\ AddRequest(r) /\ pending' = pending \union {r}
      /\ UNCHANGED <<wasDisconnected, recycling, conns, dead>> /\ recycling = "no"
      /\ \/ UNCHANGED <<adv, retry, failed>> /\ head' = head /\ result' = "ok"
         \/ head # None /\ StopFails
         \/ StartAdvertising(head', IF head = None THEN adv ELSE None)
  BY DEF InsertRequest
<1>3. PICK k \in 0 .. Len(q) :
        /\ Holds(With(q, k, r), head', tail', link', pending')
        /\ \A j \in 1 .. k : Priority[q[j]] <= Priority[r]
        /\ \A j \in k + 1 .. Len(q) : Priority[q[j]] > Priority[r]
  BY <1>1, <1>2, AddDoes
<1>4. ListInv' /\ AsSeq' = With(q, k, r)
  BY <1>3, ListThen
<1>5. q \in Seq(Requests) /\ Len(q) \in Nat /\ ~IsIn(r, q)
  BY <1>1 DEF Holds, Represents
<1>6. /\ With(q, k, r) = InsertAt(q, k + 1, r)
      /\ With(q, k, r) \in Seq(Requests) /\ Len(With(q, k, r)) = Len(q) + 1
  BY <1>5, WithFacts
<1>7. Queue!Enqueue(r)
  <2>1. r \notin Queue!ToSet(q)
    <3>1. DOMAIN q = 1 .. Len(q)
      BY <1>5
    <3> QED
      BY <1>5, <3>1 DEF Queue!ToSet, IsIn
  <2>2. /\ k + 1 \in 1 .. Len(q) + 1
        /\ \A j \in 1 .. k + 1 - 1 : Priority[q[j]] <= Priority[r]
        /\ \A j \in k + 1 .. Len(q) : Priority[q[j]] > Priority[r]
    BY <1>3, <1>5
  <2>3. AsSeq' = Queue!InsertAt(q, k + 1, r)
    BY <1>4, <1>6 DEF Queue!InsertAt, InsertAt
  <2> QED
    BY <2>1, <2>2, <2>3 DEF Queue!Enqueue, q
<1>8. head' \in Requests
  BY <1>3, <1>5, <1>6 DEF Holds, Represents
<1> QED
  BY <1>2, <1>4, <1>7, <1>8

(* RemoveRequest of a request that waits.                                  *)
LEMMA RemovalDoes ==
  ASSUME ListInv, NEW r \in Requests, r \in pending, RemoveRequest(r), pending' = pending \ {r}
  PROVE  /\ ListInv' /\ Queue!Dequeue(r) /\ head' \in Requests \union {None}
         /\ head # r => head' = head
<1> DEFINE q == AsSeq
<1>1. Holds(q, head, tail, link, pending)
  BY ListNow
<1> HIDE DEF q
<1>2. q \in Seq(Requests) /\ Len(q) \in Nat /\ IsIn(r, q) /\ Represents(q, head, tail, link)
  BY <1>1 DEF Holds, Represents
<1>3. PICK k \in 1 .. Len(q) : q[k] = r
  BY <1>2 DEF IsIn
<1>4. Holds(Without(q, k), head', tail', link', pending')
  BY <1>1, <1>3, DropDoes
<1>5. ListInv' /\ AsSeq' = Without(q, k)
  BY <1>4, ListThen
<1>6. /\ Without(q, k) = RemoveAt(q, k)
      /\ Without(q, k) \in Seq(Requests) /\ Len(Without(q, k)) = Len(q) - 1
      /\ \A i \in 1 .. Len(q) - 1 : Without(q, k)[i] = IF i < k THEN q[i] ELSE q[i + 1]
  BY <1>2, WithoutFacts
<1>7. Queue!Dequeue(r)
  <2>1. AsSeq' = Queue!RemoveAt(q, k)
    BY <1>5, <1>6 DEF Queue!RemoveAt, RemoveAt
  <2> QED
    BY <1>3, <2>1 DEF Queue!Dequeue, q
<1>8. head' = IF Len(q) = 1 THEN None ELSE Without(q, k)[1]
  BY <1>2, <1>4, <1>6 DEF Holds, Represents
<1>9. head = q[1]
  BY <1>2, <1>3 DEF Represents
<1>10. head # r => k # 1 /\ Without(q, k)[1] = q[1] /\ Len(q) # 1
  BY <1>2, <1>3, <1>6, <1>9
<1>11. head' \in Requests \union {None}
  BY <1>2, <1>6, <1>8
<1> QED
  BY <1>5, <1>7, <1>8, <1>9, <1>10, <1>11

(* CancelRequest takes the request out if it is there.                     *)
LEMMA CancelDoes ==
  ASSUME IInv, NEW r \in Requests, CancelRequest(r)
  PROVE  /\ ListInv' /\ (Queue!Dequeue(r) \/ AsSeq' = AsSeq)
         /\ UNCHANGED <<wasDisconnected, recycling, conns, dead>> /\ recycling = "no"
         /\ head' \in Requests \union {None}
         /\ \/ UNCHANGED <<adv, retry, failed, head>> /\ result' = "ENOENT"
            \/ head' = head /\ StopFails
            \/ head' = None /\ adv' = None /\ retry' = FALSE /\ result' = "ok" /\ failed' = failed
            \/ head' # None /\ StartAdvertising(head', None)
            \/ head' = head /\ head # None /\ StartAdvertising(head', adv)
<1>1. /\ ListInv /\ head \in Requests \union {None}
      /\ \A x \in Requests : x \in pending <=> IsLinked(x)
      /\ Holds(AsSeq, head, tail, link, pending)
  BY ListNow DEF IInv
<1>2. ASSUME UNCHANGED list, pending' = pending
      PROVE  ListInv' /\ AsSeq' = AsSeq /\ head' = head
  <2>1. AsSeq' = AsSeq /\ UNCHANGED <<head, tail, link>>
    BY <1>2, ListStays DEF list
  <2>2. Holds(AsSeq, head', tail', link', pending')
    BY <1>1, <1>2, <2>1
  <2> QED
    BY <2>1, <2>2, ListThen
<1>3. CASE CancelEmpty(r)
  <2>1. head = None /\ pending' = pending \ {r} /\ UNCHANGED <<list, flags, recycling, radio, failed>>
        /\ recycling = "no" /\ result' = "ENOENT"
    BY <1>3 DEF CancelEmpty
  <2>2. r \notin pending
    <3> DEFINE q == AsSeq
    <3>1. Represents(q, head, tail, link) /\ pending = {x \in Requests : IsIn(x, q)}
      BY <1>1 DEF Holds
    <3> HIDE DEF q
    <3>2. q \in Seq(Requests) /\ (Len(q) # 0 => head = q[1])
      BY <3>1 DEF Represents
    <3>3. Len(q) = 0
      BY <2>1, <3>2, NoneIsNoRequest
    <3> QED
      BY <3>1, <3>3 DEF IsIn
  <2>3. ListInv' /\ AsSeq' = AsSeq /\ head' = head
    BY <1>2, <2>1, <2>2
  <2> QED
    BY <1>1, <2>1, <2>3 DEF flags, radio
<1>4. CASE CancelTop(r)
  <2>1. /\ recycling = "no" /\ head = r /\ UNCHANGED <<wasDisconnected, recycling, conns, dead>>
        /\ \/ StopFails /\ UNCHANGED <<list, pending>>
           \/ /\ RemoveRequest(r) /\ pending' = pending \ {r}
              /\ IF head' = None
                 THEN adv' = None /\ retry' = FALSE /\ result' = "ok" /\ UNCHANGED failed
                 ELSE StartAdvertising(head', None)
    BY <1>4 DEF CancelTop
  <2>2. CASE StopFails /\ UNCHANGED <<list, pending>>
    <3>1. ListInv' /\ AsSeq' = AsSeq /\ head' = head
      BY <1>2, <2>2
    <3> QED
      BY <1>1, <2>1, <2>2, <3>1
  <2>3. CASE RemoveRequest(r) /\ pending' = pending \ {r}
    <3>1. r \in pending
      <4> DEFINE q == AsSeq
      <4>1. Represents(q, head, tail, link) /\ pending = {x \in Requests : IsIn(x, q)}
        BY <1>1 DEF Holds
      <4> HIDE DEF q
      <4>2. q \in Seq(Requests) /\ head = IF Len(q) = 0 THEN None ELSE q[1]
        BY <4>1 DEF Represents
      <4>3. 1 \in 1 .. Len(q) /\ q[1] = r
        BY <2>1, <4>2, NoneIsNoRequest
      <4> QED
        BY <4>1, <4>3 DEF IsIn
    <3>2. ListInv' /\ Queue!Dequeue(r) /\ head' \in Requests \union {None}
      BY <1>1, <2>3, <3>1, RemovalDoes
    <3>3. \/ StopFails /\ UNCHANGED <<list, pending>>
          \/ head' = None /\ adv' = None /\ retry' = FALSE /\ result' = "ok" /\ failed' = failed
          \/ head' # None /\ StartAdvertising(head', None)
      BY <2>1
    <3> QED
      BY <2>1, <2>2, <3>2, <3>3
  <2> QED
    BY <2>1, <2>2, <2>3
<1>5. CASE CancelOther(r)
  <2>1. /\ recycling = "no" /\ head \notin {None, r}
        /\ UNCHANGED <<wasDisconnected, recycling, conns, dead>>
        /\ pending' = pending \ {r}
        /\ \/ IsLinked(r) /\ RemoveRequest(r) /\ StartAdvertising(head', adv)
           \/ ~IsLinked(r) /\ result' = "ENOENT" /\ UNCHANGED <<list, adv, retry, failed>>
    BY <1>5 DEF CancelOther
  <2>2. CASE IsLinked(r) /\ RemoveRequest(r) /\ StartAdvertising(head', adv)
    <3>1. /\ ListInv' /\ Queue!Dequeue(r) /\ head' \in Requests \union {None}
          /\ head # r => head' = head
      BY <1>1, <2>1, <2>2, RemovalDoes
    <3> QED
      BY <2>1, <2>2, <3>1
  <2>3. CASE ~IsLinked(r) /\ result' = "ENOENT" /\ UNCHANGED <<list, adv, retry, failed>>
    <3>1. pending' = pending
      BY <1>1, <2>1, <2>3
    <3>2. ListInv' /\ AsSeq' = AsSeq /\ head' = head
      BY <1>2, <2>3, <3>1
    <3> QED
      BY <1>1, <2>1, <2>3, <3>2
  <2> QED
    BY <2>1, <2>2, <2>3
<1> QED
  BY <1>3, <1>4, <1>5 DEF CancelRequest

(* So each of the two keeps the invariant, and is a step of the queue.     *)
LEMMA InsertKeeps ==
  ASSUME IInv, NEW r \in Requests, r \notin pending, InsertRequest(r)
  PROVE  IInv' /\ Queue!Enqueue(r)
<1>1. /\ ListInv' /\ Queue!Enqueue(r)
      /\ UNCHANGED <<wasDisconnected, recycling, conns, dead>> /\ recycling = "no"
      /\ head' \in Requests /\ head' # None
      /\ \/ UNCHANGED <<adv, retry, failed>> /\ head' = head /\ result' = "ok"
         \/ head # None /\ StopFails
         \/ StartAdvertising(head', IF head = None THEN adv ELSE None)
  BY InsertDoes, NoneIsNoRequest
<1>2. AirInv /\ AdvertisesTop /\ ResumeIsArmed /\ failed \in BOOLEAN /\ adv \in Requests \union {None}
  BY DEF IInv, AirInv
<1>3. CASE UNCHANGED <<adv, retry, failed>> /\ head' = head /\ result' = "ok"
  <2>1. AirInv'
    BY <1>1, <1>2, <1>3 DEF AirInv
  <2>2. AdvertisesTop' /\ ResumeIsArmed'
    BY <1>1, <1>2, <1>3 DEF AdvertisesTop, ResumeIsArmed
  <2> QED
    BY <1>1, <2>1, <2>2 DEF IInv
<1>4. CASE head # None /\ StopFails
  <2>1. adv # None /\ adv' = adv /\ retry' = FALSE /\ result' = "EIO" /\ failed' = TRUE
    BY <1>4 DEF StopFails
  <2>2. AirInv'
    BY <1>1, <1>2, <2>1 DEF AirInv
  <2>3. AdvertisesTop' /\ ResumeIsArmed'
    BY <1>2, <2>1 DEF AdvertisesTop, ResumeIsArmed
  <2> QED
    BY <1>1, <2>2, <2>3 DEF IInv
<1>5. CASE StartAdvertising(head', IF head = None THEN adv ELSE None)
  <2> DEFINE on == IF head = None THEN adv ELSE None
  <2>1. on \in Requests \union {None} /\ StartAdvertising(head', on)
        /\ (~failed => on = None)
    BY <1>2, <1>5 DEF AdvertisesTop
  <2> HIDE DEF on
  <2>2. /\ adv' \in {on, head', None} /\ retry' \in BOOLEAN /\ failed' \in BOOLEAN
        /\ result' \in {"ok", "ENOMEM", "EALREADY", "EIO"}
        /\ failed => failed'
        /\ adv' = None => retry' = TRUE
    BY <1>1, <1>2, <2>1, Starts
  <2>3. AirInv'
    BY <1>1, <1>2, <2>1, <2>2 DEF AirInv
  <2>4. AdvertisesTop' /\ ResumeIsArmed'
    BY <1>2, <2>1, <2>2 DEF AdvertisesTop, ResumeIsArmed
  <2> QED
    BY <1>1, <2>3, <2>4 DEF IInv
<1> QED
  BY <1>1, <1>3, <1>4, <1>5

(* A cancelled request leaves the queue, or nothing changes in it.         *)
LEMMA CancelKeeps ==
  ASSUME IInv, NEW r \in Requests, CancelRequest(r)
  PROVE  IInv' /\ (Queue!Dequeue(r) \/ AsSeq' = AsSeq)
<1>1. /\ ListInv' /\ (Queue!Dequeue(r) \/ AsSeq' = AsSeq)
      /\ UNCHANGED <<wasDisconnected, recycling, conns, dead>> /\ recycling = "no"
      /\ head' \in Requests \union {None}
      /\ \/ UNCHANGED <<adv, retry, failed, head>> /\ result' = "ENOENT"
         \/ head' = head /\ StopFails
         \/ head' = None /\ adv' = None /\ retry' = FALSE /\ result' = "ok" /\ failed' = failed
         \/ head' # None /\ StartAdvertising(head', None)
         \/ head' = head /\ head # None /\ StartAdvertising(head', adv)
  BY CancelDoes
<1>2. AirInv /\ AdvertisesTop /\ ResumeIsArmed /\ failed \in BOOLEAN /\ adv \in Requests \union {None}
  BY DEF IInv, AirInv
<1>3. CASE UNCHANGED <<adv, retry, failed, head>> /\ result' = "ENOENT"
  <2>1. AirInv'
    BY <1>1, <1>2, <1>3 DEF AirInv
  <2>2. AdvertisesTop' /\ ResumeIsArmed'
    BY <1>1, <1>2, <1>3 DEF AdvertisesTop, ResumeIsArmed
  <2> QED
    BY <1>1, <2>1, <2>2 DEF IInv
<1>4. CASE StopFails
  <2>1. adv # None /\ adv' = adv /\ retry' = FALSE /\ result' = "EIO" /\ failed' = TRUE
    BY <1>4 DEF StopFails
  <2>2. AirInv'
    BY <1>1, <1>2, <2>1 DEF AirInv
  <2>3. AdvertisesTop' /\ ResumeIsArmed'
    BY <1>2, <2>1 DEF AdvertisesTop, ResumeIsArmed
  <2> QED
    BY <1>1, <2>2, <2>3 DEF IInv
<1>5. CASE head' = None /\ adv' = None /\ retry' = FALSE /\ result' = "ok" /\ failed' = failed
  <2>1. AirInv'
    BY <1>1, <1>2, <1>5 DEF AirInv
  <2>2. AdvertisesTop' /\ ResumeIsArmed'
    BY <1>5 DEF AdvertisesTop, ResumeIsArmed
  <2> QED
    BY <1>1, <2>1, <2>2 DEF IInv
<1>6. ASSUME NEW on \in Requests \union {None}, head' # None, StartAdvertising(head', on),
             on # None => on = adv /\ head' = head
      PROVE  IInv'
  <2>1. /\ adv' \in {on, head', None} /\ retry' \in BOOLEAN /\ failed' \in BOOLEAN
        /\ result' \in {"ok", "ENOMEM", "EALREADY", "EIO"}
        /\ failed => failed'
        /\ adv' = None => retry' = TRUE
    BY <1>1, <1>2, <1>6, Starts
  <2>2. AirInv'
    BY <1>1, <1>2, <1>6, <2>1 DEF AirInv
  <2>3. AdvertisesTop' /\ ResumeIsArmed'
    BY <1>2, <1>6, <2>1 DEF AdvertisesTop, ResumeIsArmed
  <2> QED
    BY <1>1, <2>2, <2>3 DEF IInv
<1> QED
  BY <1>1, <1>2, <1>3, <1>4, <1>5, <1>6

(* The host and its callbacks leave the list alone.                        *)
LEMMA HostKeeps ==
  ASSUME IInv, Host
  PROVE  IInv' /\ AsSeq' = AsSeq
<1>1. UNCHANGED list /\ pending' = pending
  BY DEF Host, Connected, Disconnected, RecycledCheck, RecycledClear, RecycledStart, radio
<1>2. AsSeq' = AsSeq /\ head' = head /\ UNCHANGED <<head, tail, link>>
  BY <1>1, ListStays DEF list
<1>3. ListInv'
  <2>1. Holds(AsSeq, head', tail', link', pending')
    BY <1>1, <1>2 DEF IInv, ListInv
  <2> QED
    BY <2>1, ListThen
<1>4. /\ AirInv /\ AdvertisesTop /\ ResumeIsArmed /\ failed \in BOOLEAN
      /\ adv \in Requests \union {None} /\ head \in Requests \union {None}
      /\ conns \in Nat /\ dead \in Nat /\ PoolSize \in Nat
  BY ListNow, LimitsAssumption DEF IInv, AirInv
<1>5. CASE Connected
  <2>1. AirInv'
    BY <1>2, <1>4, <1>5 DEF AirInv, Connected, flags
  <2>2. AdvertisesTop' /\ ResumeIsArmed'
    BY <1>4, <1>5 DEF AdvertisesTop, ResumeIsArmed, Connected
  <2> QED
    BY <1>2, <1>3, <2>1, <2>2 DEF IInv
<1>6. CASE Disconnected
  <2>1. AirInv'
    BY <1>2, <1>4, <1>6 DEF AirInv, Disconnected
  <2>2. AdvertisesTop' /\ ResumeIsArmed'
    BY <1>2, <1>4, <1>6 DEF AdvertisesTop, ResumeIsArmed, Disconnected
  <2> QED
    BY <1>2, <1>3, <2>1, <2>2 DEF IInv
<1>7. CASE RecycledCheck
  <2>1. AirInv'
    BY <1>2, <1>4, <1>7 DEF AirInv, RecycledCheck, flags
  <2>2. AdvertisesTop' /\ ResumeIsArmed'
    BY <1>2, <1>4, <1>7 DEF AdvertisesTop, ResumeIsArmed, RecycledCheck, flags
  <2> QED
    BY <1>2, <1>3, <2>1, <2>2 DEF IInv
<1>8. CASE RecycledClear
  <2>1. AirInv'
    BY <1>2, <1>4, <1>8 DEF AirInv, RecycledClear, radio
  <2>2. AdvertisesTop' /\ ResumeIsArmed'
    BY <1>2, <1>4, <1>8 DEF AdvertisesTop, ResumeIsArmed, RecycledClear, radio
  <2> QED
    BY <1>2, <1>3, <2>1, <2>2 DEF IInv
<1>9. CASE RecycledStart
  <2>1. /\ recycling = "start" /\ head # None /\ recycling' = "no"
        /\ StartAdvertising(head, adv) /\ UNCHANGED <<wasDisconnected, conns, dead>>
    BY <1>4, <1>9 DEF AirInv, RecycledStart
  <2>2. /\ adv' \in {adv, head, None} /\ retry' \in BOOLEAN /\ failed' \in BOOLEAN
        /\ result' \in {"ok", "ENOMEM", "EALREADY", "EIO"}
        /\ failed => failed'
        /\ adv' = None => retry' = TRUE
    BY <1>4, <2>1, Starts
  <2>3. AirInv'
    BY <1>2, <1>4, <2>1, <2>2 DEF AirInv
  <2>4. AdvertisesTop' /\ ResumeIsArmed'
    BY <1>2, <1>4, <2>2 DEF AdvertisesTop, ResumeIsArmed
  <2> QED
    BY <1>2, <1>3, <2>3, <2>4 DEF IInv
<1> QED
  BY <1>2, <1>5, <1>6, <1>7, <1>8, <1>9 DEF Host

(* Nothing happens.                                                        *)
LEMMA StutterKeeps ==
  ASSUME IInv, UNCHANGED vars
  PROVE  IInv' /\ AsSeq' = AsSeq
<1>1. /\ UNCHANGED list /\ UNCHANGED <<head, tail, link, pending>>
      /\ UNCHANGED <<wasDisconnected, retry, recycling, adv, conns, dead, result, failed>>
  BY DEF vars, list, flags, radio
<1>2. AsSeq' = AsSeq
  BY <1>1, ListStays
<1>3. ListInv'
  <2>1. Holds(AsSeq, head', tail', link', pending')
    BY <1>1 DEF IInv, ListInv
  <2> QED
    BY <2>1, ListThen
<1>4. AirInv' /\ AdvertisesTop' /\ ResumeIsArmed'
  BY <1>1 DEF IInv, AirInv, AdvertisesTop, ResumeIsArmed
<1> QED
  BY <1>2, <1>3, <1>4 DEF IInv

(* The list is empty at first.                                             *)
LEMMA InitEstablishes ==
  ASSUME Init
  PROVE  IInv /\ AsSeq = <<>>
<1>1. /\ head = None /\ tail = None /\ link = [r \in Requests |-> None]
      /\ wasDisconnected = FALSE /\ retry = FALSE /\ recycling = "no"
      /\ adv = None /\ conns = 0 /\ dead = 0
      /\ result = "ok" /\ pending = {} /\ failed = FALSE
  BY DEF Init
<1>2. Represents(<<>>, head, tail, link)
  BY <1>1 DEF Represents, Distinct
<1>3. AsSeq = <<>>
  BY <1>2, OneSequence
<1>4. Holds(<<>>, head, tail, link, pending)
  BY <1>1, <1>2 DEF Holds, Sorted, IsIn
<1>5. AirInv
  <2>1. PoolSize \in Nat /\ 0 + 0 <= PoolSize
    BY LimitsAssumption
  <2>2. /\ wasDisconnected = FALSE /\ retry = FALSE /\ recycling = "no" /\ adv = None
        /\ conns = 0 /\ dead = 0 /\ result = "ok" /\ failed = FALSE
    BY <1>1
  <2> QED
    BY <2>1, <2>2 DEF AirInv
<1> QED
  BY <1>1, <1>3, <1>4, <1>5 DEF IInv, ListInv, AdvertisesTop, ResumeIsArmed

(* A step of the arbiter is one of the queue, or the queue stays.          *)
LEMMA StepKeeps ==
  ASSUME IInv, [Next]_vars
  PROVE  IInv' /\ [Queue!Next]_AsSeq
<1>1. ASSUME NEW r \in Requests, r \notin pending, InsertRequest(r)
      PROVE  IInv' /\ [Queue!Next]_AsSeq
  BY <1>1, InsertKeeps DEF Queue!Next
<1>2. ASSUME NEW r \in Requests, CancelRequest(r)
      PROVE  IInv' /\ [Queue!Next]_AsSeq
  BY <1>2, CancelKeeps DEF Queue!Next
<1>3. CASE Host
  BY <1>3, HostKeeps
<1>4. CASE UNCHANGED vars
  BY <1>4, StutterKeeps
<1> QED
  BY <1>1, <1>2, <1>3, <1>4 DEF Next

-----------------------------------------------------------------------------
(* The theorems of the arbiter.                                            *)

(* The list holds a sorted sequence of the requests that wait, and the     *)
(* state of the advertiser agrees with it, at every step.                  *)
THEOREM Invariance == Spec => []IInv
<1>1. Init => IInv
  BY InitEstablishes
<1>2. IInv /\ [Next]_vars => IInv'
  BY StepKeeps
<1> QED
  BY <1>1, <1>2, PTL DEF Spec

(* InsertRequest and CancelRequest keep the linked list whole: it ends, it *)
(* holds the requests inserted and not cancelled and no others, and its    *)
(* tail pointer, at which the next one may be appended, is its last node.  *)
THEOREM ListIsPending == Spec => []ListHoldsPending
<1>1. IInv => ListHoldsPending
  <2> SUFFICES ASSUME IInv PROVE ListHoldsPending
    OBVIOUS
  <2> DEFINE q == AsSeq
  <2>1. /\ Represents(q, head, tail, link) /\ pending = {r \in Requests : IsIn(r, q)}
        /\ Ends /\ head \in Requests \union {None} /\ tail \in Requests \union {None}
        /\ \A r \in Requests : r \in pending <=> IsLinked(r)
    BY ListNow DEF IInv, Holds
  <2> HIDE DEF q
  <2>2. /\ Length = Len(q) /\ Len(q) \in 0 .. N /\ N \in Nat /\ q \in Seq(Requests)
        /\ \A i \in 1 .. N : Walk[i] = IF i <= Len(q) THEN q[i] ELSE None
    BY <2>1, ListFacts, NoLonger, NIsNatural DEF Represents
  <2>3. TypeOK
    <3>1. link \in [Requests -> Requests \union {None}] /\ pending \subseteq Requests
      BY <2>1 DEF Represents
    <3> QED
      BY <2>1, <3>1, LimitsAssumption DEF TypeOK, IInv, AirInv
  <2>4. pending = {r \in Requests : IsLinked(r)}
    BY <2>1
  <2>5. tail = IF pending = {} THEN None ELSE Walk[Length]
    <3>1. CASE Len(q) = 0
      BY <2>1, <3>1 DEF IsIn, Represents
    <3>2. CASE Len(q) # 0
      <4>1. Len(q) \in 1 .. N /\ 1 \in 1 .. Len(q) /\ q[1] \in Requests
        BY <2>2, <3>2
      <4>2. q[1] \in pending
        BY <2>1, <4>1 DEF IsIn
      <4>3. Walk[Length] = q[Len(q)]
        BY <2>2, <4>1
      <4> QED
        BY <2>1, <3>2, <4>2, <4>3 DEF Represents
    <3> QED
      BY <3>1, <3>2
  <2> QED
    BY <2>1, <2>3, <2>4, <2>5 DEF ListHoldsPending
<1> QED
  BY <1>1, Invariance, PTL

(* The advertiser carries the most urgent request or none, unless the host *)
(* refused to stop or to start: no insertion, cancellation, connection or  *)
(* restart by the recycled callback leaves another one on the air.         *)
THEOREM TopIsAdvertised == Spec => []AdvertisesTop
<1>1. IInv => AdvertisesTop
  BY DEF IInv
<1> QED
  BY <1>1, Invariance, PTL

(* While a request waits and the advertiser is off, the flags of the       *)
(* callbacks are such that an event still to come restarts it, although    *)
(* the disconnected callback comes between the statements of the recycled  *)
(* one.                                                                    *)
THEOREM ResumptionIsArmed == Spec => []ResumeIsArmed
<1>1. IInv => ResumeIsArmed
  BY DEF IInv
<1> QED
  BY <1>1, Invariance, PTL

(* The arbiter implements PriorityQueue: AddRequest inserts behind the     *)
(* requests that are as urgent, RemoveRequest takes out one, and nothing   *)
(* else changes what the list holds.                                       *)
THEOREM ArbiterIsQueue == Spec => ImplementsQueue
<1>1. Init => Queue!Init
  BY InitEstablishes DEF Queue!Init
<1>2. IInv /\ [Next]_vars => [Queue!Next]_AsSeq
  BY StepKeeps
<1> QED
  BY <1>1, <1>2, Invariance, PTL DEF Spec, ImplementsQueue, Queue!Spec

-----------------------------------------------------------------------------
(* The Nordic UART service.                                                *)

(* NusReleasesConnection, and what it rests on: Start holds no connection  *)
(* until it is over, and starts with an accepted request; Stop clears      *)
(* sIsStarted before it cancels and releases.                              *)
NusInv ==
  /\ NusReleasesConnection
  /\ nusCall \in {"insert", "started"} => ~nusStarted /\ nusConn = "none"
  /\ nusCall = "started" => nusAdv
  /\ nusCall \in {"cancel", "release"} => ~nusStarted

(* Every step of the clients and of the host keeps it.                     *)
LEMMA NusStep ==
  ASSUME NusInv, [ClientsNext]_<<vars, dfu, nus>>
  PROVE  NusInv'
<1> USE DEF NusInv, NusReleasesConnection, ClientsTypeOK
<1>1. CASE DfuToggle
  BY <1>1 DEF DfuToggle, nus
<1>2. CASE DfuOff
  BY <1>2 DEF DfuOff, nus
<1>3. CASE DfuFillIn
  BY <1>3 DEF DfuFillIn, nus
<1>4. CASE DfuInsert
  BY <1>4 DEF DfuInsert, nus
<1>5. CASE NusStart
  BY <1>5 DEF NusStart, dfu
<1>6. CASE NusInsert
  <2>1. CASE result' = "ok"
    BY <1>6, <2>1 DEF NusInsert, dfu
  <2>2. CASE result' # "ok"
    BY <1>6, <2>2 DEF NusInsert, dfu
  <2> QED
    BY <2>1, <2>2
<1>7. CASE NusStarted
  BY <1>7 DEF NusStarted, dfu
<1>8. CASE NusStop
  BY <1>8 DEF NusStop, dfu
<1>9. CASE NusCancel
  BY <1>9 DEF NusCancel, dfu
<1>10. CASE NusRelease
  BY <1>10 DEF NusRelease, dfu
<1>11. CASE NusConnected
  BY <1>11 DEF NusConnected, dfu
<1>12. CASE NusDisconnected
  BY <1>12 DEF NusDisconnected, dfu
<1>13. CASE Recycled
  BY <1>13 DEF Recycled, dfu, nus
<1>14. CASE UNCHANGED <<vars, dfu, nus>>
  BY <1>14 DEF dfu, nus
<1> QED
  BY <1>1, <1>2, <1>3, <1>4, <1>5, <1>6, <1>7, <1>8, <1>9, <1>10, <1>11, <1>12, <1>13, <1>14
     DEF ClientsNext

(* NUS keeps no reference to a connection that is gone, and none at all    *)
(* once it is stopped, in whatever order Start, Stop and the callbacks of  *)
(* the host take their steps.                                              *)
THEOREM NusReleases == ClientsSpec => []NusReleasesConnection
<1>1. ClientsInit => NusInv
  BY DEF ClientsInit, NusInv, NusReleasesConnection, ClientsTypeOK
<1>2. NusInv /\ [ClientsNext]_<<vars, dfu, nus>> => NusInv'
  BY NusStep
<1>3. NusInv => NusReleasesConnection
  BY DEF NusInv
<1> QED
  BY <1>1, <1>2, <1>3, PTL DEF ClientsSpec

-----------------------------------------------------------------------------
(* The lock simulator.                                                     *)

(* The steps keep the types. *)
LEMMA SimTypeStep == SimInv /\ [SimNext]_simVars => SimTypeOK'
<1> SUFFICES ASSUME SimInv, [SimNext]_simVars PROVE SimTypeOK'
  OBVIOUS
<1> USE DEF SimInv, SimTypeOK, States, Moving, timers, notify
<1>1. ASSUME NEW c \in Callers, Thread(c) PROVE SimTypeOK'
  <2>1. CASE Lock(c)
    BY <2>1 DEF Lock
  <2>2. CASE Unlock(c)
    BY <2>2 DEF Unlock
  <2>3. CASE SetState(c)
    BY <2>3 DEF SetState
  <2>4. CASE Submit(c)
    BY <2>4 DEF Submit
  <2>5. CASE StartTimer(c)
    BY <2>5 DEF StartTimer
  <2> QED
    BY <1>1, <2>1, <2>2, <2>3, <2>4, <2>5 DEF Thread
<1>2. CASE ActuatorTimer
  BY <1>2 DEF ActuatorTimer
<1>3. CASE RelockTimer
  BY <1>3 DEF RelockTimer
<1>4. CASE Notify
  BY <1>4 DEF Notify, NotifyStart, NotifyCall, Callback
<1>5. CASE UNCHANGED simVars
  BY <1>5 DEF simVars
<1> QED
  BY <1>1, <1>2, <1>3, <1>4, <1>5 DEF SimNext, Timer

(* A movement that begins has its timer started by the one who began it. *)
LEMMA MovementStep == SimInv /\ [SimNext]_simVars => MovementEnds'
<1> SUFFICES ASSUME SimInv, [SimNext]_simVars PROVE MovementEnds'
  OBVIOUS
<1> USE DEF SimInv, SimTypeOK, MovementEnds, Moving, timers, notify
<1>1. ASSUME NEW c \in Callers, Thread(c) PROVE MovementEnds'
  <2>1. CASE Lock(c)
    BY <2>1 DEF Lock
  <2>2. CASE Unlock(c)
    BY <2>2 DEF Unlock
  <2>3. CASE SetState(c)
    BY <2>3 DEF SetState
  <2>4. CASE Submit(c)
    BY <2>4 DEF Submit
  <2>5. CASE StartTimer(c)
    BY <2>5 DEF StartTimer
  <2> QED
    BY <1>1, <2>1, <2>2, <2>3, <2>4, <2>5 DEF Thread
<1>2. CASE ActuatorTimer
  BY <1>2 DEF ActuatorTimer, States
<1>3. CASE RelockTimer
  BY <1>3 DEF RelockTimer
<1>4. CASE Notify
  BY <1>4 DEF Notify, NotifyStart, NotifyCall, Callback
<1>5. CASE UNCHANGED simVars
  BY <1>5 DEF simVars
<1> QED
  BY <1>1, <1>2, <1>3, <1>4, <1>5 DEF SimNext, Timer

(* A state the handler does not know of is announced by a submission. *)
LEMMA NotifyStep == SimInv /\ [SimNext]_simVars => CallbackHearsLast' /\ NotifyInv'
<1> SUFFICES ASSUME SimInv, [SimNext]_simVars PROVE CallbackHearsLast' /\ NotifyInv'
  OBVIOUS
<1> USE DEF SimInv, SimTypeOK, CallbackHearsLast, NotifyInv, Moving, timers, notify
<1>1. ASSUME NEW c \in Callers, Thread(c) PROVE CallbackHearsLast' /\ NotifyInv'
  <2>1. CASE Lock(c)
    BY <2>1 DEF Lock
  <2>2. CASE Unlock(c)
    BY <2>2 DEF Unlock
  <2>3. CASE SetState(c)
    BY <2>3 DEF SetState
  <2>4. CASE Submit(c)
    BY <2>4 DEF Submit
  <2>5. CASE StartTimer(c)
    BY <2>5 DEF StartTimer
  <2> QED
    BY <1>1, <2>1, <2>2, <2>3, <2>4, <2>5 DEF Thread
<1>2. CASE ActuatorTimer
  BY <1>2 DEF ActuatorTimer, States
<1>3. CASE RelockTimer
  BY <1>3 DEF RelockTimer
<1>4. CASE Notify
  BY <1>4 DEF Notify, NotifyStart, NotifyCall, Callback
<1>5. CASE UNCHANGED simVars
  BY <1>5 DEF simVars
<1> QED
  BY <1>1, <1>2, <1>3, <1>4, <1>5 DEF SimNext, Timer

(* The inductive invariant holds in every reachable state. *)
THEOREM SimInvariance == SimSpec => []SimInv
<1>1. SimInit => SimInv
  BY DEF SimInit, SimInv, SimTypeOK, MovementEnds, CallbackHearsLast, NotifyInv,
    States, Moving
<1>2. SimInv /\ [SimNext]_simVars => SimInv'
  BY SimTypeStep, MovementStep, NotifyStep DEF SimInv
<1> QED
  BY <1>1, <1>2, PTL DEF SimSpec

(* The variables keep their types. *)
THEOREM SimTypeCorrect == SimSpec => []SimTypeOK
<1>1. SimInv => SimTypeOK
  BY DEF SimInv
<1> QED
  BY <1>1, SimInvariance, PTL

(* The lock never hangs between two states (StartOperation arms a timer). *)
THEOREM MovementsComplete == SimSpec => []MovementEnds
<1>1. SimInv => MovementEnds
  BY DEF SimInv
<1> QED
  BY <1>1, SimInvariance, PTL

(* However the notifications coalesce, the last state is announced. *)
THEOREM LastStateHeard == SimSpec => []CallbackHearsLast
<1>1. SimInv => CallbackHearsLast
  BY DEF SimInv
<1> QED
  BY <1>1, SimInvariance, PTL

=============================================================================
