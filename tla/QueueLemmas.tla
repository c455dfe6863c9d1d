----------------------------- MODULE QueueLemmas -----------------------------
(***************************************************************************)
(* What the proofs about queues of callers need to know of sequences: what *)
(* is left after a caller has been taken out, and who is in a queue that   *)
(* holds nobody twice; and induction over the natural numbers, stated with *)
(* a set.                                                                  *)
(***************************************************************************)
EXTENDS Integers, Sequences, SequencesExt, SequenceTheorems, WellFoundedInduction, TLAPS

(* ------------------------------ induction ------------------------------ *)

\* A set with 0 in it, and with each number its successor, has them all.
LEMMA SetInduction ==
  ASSUME NEW S, 0 \in S, \A n \in Nat : n \in S => n + 1 \in S
  PROVE  Nat \subseteq S
<1> SUFFICES ASSUME NEW x \in Nat, x \notin S PROVE FALSE
  OBVIOUS
<1> DEFINE T == Nat \ S
           R == OpToRel(<, Nat)
<1>1. IsWellFoundedOn(R, Nat)
  BY NatLessThanWellFounded
<1>2. \A a, b \in Nat : a < b => <<a, b>> \in R
  BY DEF OpToRel
<1> HIDE DEF R
<1>3. PICK m \in T : \A y \in T : ~(<<y, m>> \in R)
  BY <1>1, WFMin
<1>4. m # 0 /\ m - 1 \in Nat /\ m - 1 < m
  OBVIOUS
<1>5. m - 1 \in S
  BY <1>2, <1>3, <1>4
<1>6. (m - 1) + 1 \in S
  BY <1>4, <1>5
<1> QED BY <1>6

\* F is N steps in D, and g takes them from d.
Steps(F, N, D) == F \in [1..N -> [D -> D]]
Follows(g, d, F, N, D) ==
  g \in [0..N -> D] /\ g[0] = d /\ \A i \in 1..N : g[i] = F[i][g[i - 1]]

\* A function on 0..N is defined by its first value and by each from the one before.
LEMMA BoundedRecursion ==
  ASSUME NEW N \in Nat, NEW D, NEW d \in D, NEW F, Steps(F, N, D)
  PROVE  \E g : Follows(g, d, F, N, D)
<1>0. F \in [1..N -> [D -> D]]
  BY DEF Steps
<1> DEFINE Part(n, g) == g = [i \in 0..n |-> IF i = 0 THEN d ELSE F[i][g[i - 1]]]
           S == {n \in Nat : n <= N => \E g \in [0..n -> D] : Part(n, g)}
<1> USE DEF Part
<1>1. \E g \in [0..0 -> D] : Part(0, g)
  <2> DEFINE g == [i \in 0..0 |-> d]
  <2>1. g \in [0..0 -> D]
    OBVIOUS
  <2>2. \A i \in 0..0 : i = 0
    OBVIOUS
  <2>3. g = [i \in 0..0 |-> IF i = 0 THEN d ELSE F[i][g[i - 1]]]
    BY <2>2
  <2> QED BY <2>1, <2>3
<1>2. ASSUME NEW n \in Nat, n + 1 <= N, NEW g \in [0..n -> D], Part(n, g)
      PROVE  \E k \in [0..n + 1 -> D] : Part(n + 1, k)
  <2> DEFINE k == [i \in 0..n + 1 |-> IF i <= n THEN g[i] ELSE F[n + 1][g[n]]]
  <2>1. n + 1 \in 1..N /\ n \in 0..n /\ g[n] \in D
    BY <1>2
  <2>2. F[n + 1][g[n]] \in D
    BY <1>0, <2>1
  <2>3. k \in [0..n + 1 -> D]
    BY <2>2
  <2>4. ASSUME NEW i \in 0..n + 1 PROVE k[i] = IF i = 0 THEN d ELSE F[i][k[i - 1]]
    <3>1. CASE i <= n
      <4>1. g[i] = IF i = 0 THEN d ELSE F[i][g[i - 1]]
        BY <1>2, <3>1
      <4>2. i # 0 => k[i - 1] = g[i - 1]
        BY <3>1
      <4>3. k[i] = g[i]
        BY <3>1
      <4> QED BY <4>1, <4>2, <4>3
    <3>2. CASE i = n + 1
      <4>1. k[i] = F[n + 1][g[n]] /\ k[n] = g[n] /\ i # 0 /\ i - 1 = n
        BY <3>2
      <4> HIDE DEF k
      <4> QED BY <3>2, <4>1
    <3> QED BY <3>1, <3>2
  <2>5. k = [i \in 0..n + 1 |-> k[i]]
    BY <2>3
  <2> HIDE DEF k
  <2>6. Part(n + 1, k)
    BY <2>4, <2>5
  <2> QED BY <2>3, <2>6
<1> HIDE DEF Part
<1>3. 0 \in S
  BY <1>1
<1>4. ASSUME NEW n \in Nat, n \in S PROVE n + 1 \in S
  <2> SUFFICES ASSUME n + 1 <= N PROVE \E k \in [0..n + 1 -> D] : Part(n + 1, k)
    OBVIOUS
  <2>1. PICK g \in [0..n -> D] : Part(n, g)
    BY <1>4
  <2> QED BY <1>2, <2>1
<1> HIDE DEF S
<1>5. N \in S
  BY <1>3, <1>4, SetInduction
<1>6. PICK g \in [0..N -> D] : Part(N, g)
  BY <1>5 DEF S
<1>7. g = [i \in 0..N |-> IF i = 0 THEN d ELSE F[i][g[i - 1]]]
  BY <1>6 DEF Part
<1>8. g[0] = d
  BY <1>7
<1>9. ASSUME NEW i \in 1..N PROVE g[i] = F[i][g[i - 1]]
  <2>1. i \in 0..N /\ i # 0
    OBVIOUS
  <2> QED BY <1>7, <2>1
<1> QED BY <1>8, <1>9 DEF Follows

\* What holds at 0, and of each number when it holds of the one before, holds up to N.
LEMMA BoundedInduction ==
  ASSUME NEW N \in Nat, NEW S, 0 \in S, \A n \in 0..N : n # N /\ n \in S => n + 1 \in S
  PROVE  0..N \subseteq S
<1> DEFINE T == {n \in Nat : n <= N => n \in S}
<1>1. 0 \in T /\ \A n \in Nat : n \in T => n + 1 \in T
  OBVIOUS
<1> HIDE DEF T
<1>2. Nat \subseteq T
  BY <1>1, SetInduction
<1> QED BY <1>2 DEF T

(* ------------------------ parts of a sequence -------------------------- *)

\* What a sequence is after its i-th element is taken out.
LEMMA RemoveAtProperties ==
  ASSUME NEW S, NEW s \in Seq(S), NEW i \in 1 .. Len(s)
  PROVE  /\ RemoveAt(s, i) \in Seq(S)
         /\ Len(RemoveAt(s, i)) = Len(s) - 1
         /\ \A j \in 1 .. Len(s) - 1 :
              RemoveAt(s, i)[j] = IF j < i THEN s[j] ELSE s[j + 1]
<1> DEFINE a == SubSeq(s, 1, i - 1)
           b == SubSeq(s, i + 1, Len(s))
<1>0. Len(s) \in Nat /\ \A j \in 1 .. Len(s) : s[j] \in S
  BY LenProperties, ElementOfSeq
<1>1. /\ a \in Seq(S) /\ Len(a) = i - 1
      /\ \A j \in 1 .. i - 1 : a[j] = s[j]
  <2>1. \A j \in 1 .. i - 1 : s[j] \in S
    BY <1>0
  <2> QED
    BY <1>0, <2>1, SubSeqProperties
<1>2. /\ b \in Seq(S) /\ Len(b) = Len(s) - i
      /\ \A j \in 1 .. Len(s) - i : b[j] = s[i + j]
  <2>1. \A j \in i + 1 .. Len(s) : s[j] \in S
    BY <1>0
  <2>2. /\ b \in Seq(S)
        /\ Len(b) = IF i + 1 <= Len(s) THEN Len(s) - (i + 1) + 1 ELSE 0
        /\ \A j \in 1 .. Len(s) - (i + 1) + 1 : b[j] = s[i + 1 + j - 1]
    BY <1>0, <2>1, SubSeqProperties
  <2> QED
    BY <1>0, <2>2
<1>3. RemoveAt(s, i) = a \o b
  BY DEF RemoveAt
<1> HIDE DEF a, b
<1>4. /\ a \o b \in Seq(S)
      /\ Len(a \o b) = Len(a) + Len(b)
      /\ \A j \in 1 .. Len(a) + Len(b) :
           (a \o b)[j] = IF j <= Len(a) THEN a[j] ELSE b[j - Len(a)]
  BY <1>1, <1>2, ConcatProperties
<1>5. Len(a) + Len(b) = Len(s) - 1
  BY <1>0, <1>1, <1>2
<1>6. ASSUME NEW j \in 1 .. Len(s) - 1
      PROVE  (a \o b)[j] = IF j < i THEN s[j] ELSE s[j + 1]
  <2>1. CASE j < i
    BY <1>0, <1>1, <1>4, <1>5, <2>1
  <2>2. CASE ~ (j < i)
    <3>1. j - (i - 1) \in 1 .. Len(s) - i
      BY <1>0, <2>2
    <3>2. b[j - (i - 1)] = s[i + (j - (i - 1))]
      BY <1>2, <3>1
    <3>3. i + (j - (i - 1)) = j + 1
      BY <1>0
    <3> QED
      BY <1>0, <1>1, <1>4, <1>5, <2>2, <3>2, <3>3
  <2> QED
    BY <2>1, <2>2
<1> QED
  BY <1>3, <1>4, <1>5, <1>6

\* The queue after the i-th waiter and those before it were thrown away.
LEMMA SuffixProperties ==
  ASSUME NEW S, NEW s \in Seq(S), NEW i \in 1 .. Len(s)
  PROVE  /\ SubSeq(s, i + 1, Len(s)) \in Seq(S)
         /\ Len(SubSeq(s, i + 1, Len(s))) = Len(s) - i
         /\ \A j \in 1 .. Len(s) - i : SubSeq(s, i + 1, Len(s))[j] = s[i + j]
<1>0. Len(s) \in Nat /\ \A j \in 1 .. Len(s) : s[j] \in S
  BY LenProperties, ElementOfSeq
<1>1. \A j \in i + 1 .. Len(s) : s[j] \in S
  BY <1>0
<1>2. /\ SubSeq(s, i + 1, Len(s)) \in Seq(S)
      /\ Len(SubSeq(s, i + 1, Len(s))) =
           IF i + 1 <= Len(s) THEN Len(s) - (i + 1) + 1 ELSE 0
      /\ \A j \in 1 .. Len(s) - (i + 1) + 1 :
           SubSeq(s, i + 1, Len(s))[j] = s[i + 1 + j - 1]
  BY <1>0, <1>1, SubSeqProperties
<1> QED
  BY <1>0, <1>2

(* ------------------- queues without a caller twice --------------------- *)

In(q, t) == \E i \in DOMAIN q : q[i] = t
Once(q) == \A i, j \in DOMAIN q : q[i] = q[j] => i = j

\* A caller that is not yet in the queue goes to its end.
LEMMA OnceAppend ==
  ASSUME NEW S, NEW q \in Seq(S), NEW r \in S, Once(q), ~In(q, r)
  PROVE  /\ Once(Append(q, r))
         /\ \A t : In(Append(q, r), t) <=> In(q, t) \/ t = r
<1>1. /\ Len(q) \in Nat /\ DOMAIN q = 1 .. Len(q)
      /\ DOMAIN Append(q, r) = 1 .. Len(q) + 1
      /\ \A i \in 1 .. Len(q) : Append(q, r)[i] = q[i]
      /\ Append(q, r)[Len(q) + 1] = r
  BY LenProperties, AppendProperties
<1>2. Once(Append(q, r))
  BY <1>1 DEF Once, In
<1>3. ASSUME NEW t PROVE In(Append(q, r), t) <=> In(q, t) \/ t = r
  <2>1. CASE t = r
    BY <1>1, <2>1 DEF In
  <2>2. CASE t # r
    <3>1. In(q, t) => In(Append(q, r), t)
      BY <1>1 DEF In
    <3>2. In(Append(q, r), t) => In(q, t)
      BY <1>1, <2>2 DEF In
    <3> QED BY <2>2, <3>1, <3>2
  <2> QED BY <2>1, <2>2
<1> QED BY <1>2, <1>3

\* It goes to its front.
LEMMA OncePrepend ==
  ASSUME NEW S, NEW q \in Seq(S), NEW r \in S, Once(q), ~In(q, r)
  PROVE  /\ Once(<<r>> \o q)
         /\ \A t : In(<<r>> \o q, t) <=> In(q, t) \/ t = r
<1> DEFINE p == <<r>> \o q
<1>1. <<r>> \in Seq(S) /\ Len(<<r>>) = 1 /\ <<r>>[1] = r
  OBVIOUS
<1>2. /\ p \in Seq(S) /\ Len(p) = 1 + Len(q)
      /\ \A i \in 1 .. 1 + Len(q) : p[i] = IF i <= 1 THEN <<r>>[i] ELSE q[i - 1]
  BY <1>1, ConcatProperties
<1> HIDE DEF p
<1>3. /\ Len(q) \in Nat /\ DOMAIN q = 1 .. Len(q) /\ DOMAIN p = 1 .. 1 + Len(q)
      /\ p[1] = r /\ \A i \in 1 .. Len(q) : p[i + 1] = q[i]
  <2>1. Len(q) \in Nat /\ DOMAIN q = 1 .. Len(q) /\ DOMAIN p = 1 .. 1 + Len(q)
    BY <1>2, LenProperties
  <2> QED BY <1>1, <1>2, <2>1
<1>4. \A i \in DOMAIN p : i = 1 \/ (i - 1 \in 1 .. Len(q) /\ p[i] = q[i - 1])
  BY <1>2, <1>3
<1>5. Once(p)
  <2> SUFFICES ASSUME NEW i \in DOMAIN p, NEW j \in DOMAIN p, p[i] = p[j] PROVE i = j
    BY DEF Once
  <2>1. \A m \in DOMAIN p \ {1} : p[m] # r
    BY <1>3, <1>4 DEF In
  <2>2. CASE i = 1 \/ j = 1
    BY <1>3, <2>1, <2>2
  <2>3. CASE i # 1 /\ j # 1
    <3>1. i - 1 = j - 1
      BY <1>3, <1>4, <2>3 DEF Once
    <3> QED BY <1>3, <3>1
  <2> QED BY <2>2, <2>3
<1>6. ASSUME NEW t PROVE In(p, t) <=> In(q, t) \/ t = r
  <2>1. In(p, t) => In(q, t) \/ t = r
    BY <1>3, <1>4 DEF In
  <2>2. In(q, t) => In(p, t)
    <3>1. ASSUME NEW i \in DOMAIN q, q[i] = t PROVE In(p, t)
      <4>1. i + 1 \in DOMAIN p /\ p[i + 1] = t
        BY <1>3, <3>1
      <4> QED BY <4>1 DEF In
    <3> QED BY <3>1 DEF In
  <2>3. t = r => In(p, t)
    BY <1>3 DEF In
  <2> QED BY <2>1, <2>2, <2>3
<1> QED BY <1>5, <1>6 DEF p

\* One element is taken out.
LEMMA OnceRemove ==
  ASSUME NEW S, NEW q \in Seq(S), NEW i \in DOMAIN q, Once(q)
  PROVE  /\ Once(RemoveAt(q, i))
         /\ \A t : In(RemoveAt(q, i), t) <=> In(q, t) /\ t # q[i]
<1> DEFINE p == RemoveAt(q, i)
<1>1. Len(q) \in Nat /\ DOMAIN q = 1 .. Len(q) /\ i \in 1 .. Len(q)
  BY LenProperties
<1>2. /\ p \in Seq(S) /\ Len(p) = Len(q) - 1
      /\ \A j \in 1 .. Len(q) - 1 : p[j] = IF j < i THEN q[j] ELSE q[j + 1]
  BY <1>1, RemoveAtProperties
<1> HIDE DEF p
<1>3. DOMAIN p = 1 .. Len(q) - 1
  BY <1>2, LenProperties
<1>4. \A j \in DOMAIN p : \/ j < i /\ p[j] = q[j] /\ j \in DOMAIN q
                          \/ j >= i /\ p[j] = q[j + 1] /\ j + 1 \in DOMAIN q
  BY <1>1, <1>2, <1>3
<1>5. Once(p)
  <2> SUFFICES ASSUME NEW j \in DOMAIN p, NEW m \in DOMAIN p, p[j] = p[m] PROVE j = m
    BY DEF Once
  <2>1. j \in Int /\ m \in Int /\ i \in Int
    BY <1>1, <1>3
  <2> QED BY <1>1, <1>4, <2>1 DEF Once
<1>6. ASSUME NEW t PROVE In(p, t) <=> In(q, t) /\ t # q[i]
  <2>1. In(p, t) => In(q, t) /\ t # q[i]
    <3>1. ASSUME NEW j \in DOMAIN p, p[j] = t PROVE In(q, t) /\ t # q[i]
      <4>1. CASE j < i /\ p[j] = q[j] /\ j \in DOMAIN q
        BY <1>1, <3>1, <4>1 DEF In, Once
      <4>2. CASE j >= i /\ p[j] = q[j + 1] /\ j + 1 \in DOMAIN q
        <5>1. j + 1 # i
          BY <1>1, <1>3, <4>2
        <5> QED BY <3>1, <4>2, <5>1 DEF In, Once
      <4> QED BY <1>4, <4>1, <4>2
    <3> QED BY <3>1 DEF In
  <2>2. ASSUME NEW j \in DOMAIN q, q[j] = t, t # q[i] PROVE In(p, t)
    <3>1. CASE j < i
      <4>1. j \in DOMAIN p /\ p[j] = t
        BY <1>1, <1>2, <1>3, <2>2, <3>1
      <4> QED BY <4>1 DEF In
    <3>2. CASE ~ (j < i)
      <4>1. j - 1 \in DOMAIN p /\ p[j - 1] = t
        BY <1>1, <1>2, <1>3, <2>2, <3>2
      <4> QED BY <4>1 DEF In
    <3> QED BY <3>1, <3>2
  <2> QED BY <2>1, <2>2 DEF In
<1> QED BY <1>5, <1>6 DEF p

\* Everybody up to the i-th is thrown away.
LEMMA OnceSuffix ==
  ASSUME NEW S, NEW q \in Seq(S), NEW i \in DOMAIN q, Once(q)
  PROVE  /\ Once(SubSeq(q, i + 1, Len(q)))
         /\ \A t : In(SubSeq(q, i + 1, Len(q)), t) => In(q, t)
         /\ \A j \in DOMAIN q : j > i => In(SubSeq(q, i + 1, Len(q)), q[j])
<1> DEFINE p == SubSeq(q, i + 1, Len(q))
<1>1. Len(q) \in Nat /\ DOMAIN q = 1 .. Len(q) /\ i \in 1 .. Len(q)
  BY LenProperties
<1>2. /\ p \in Seq(S) /\ Len(p) = Len(q) - i
      /\ \A j \in 1 .. Len(q) - i : p[j] = q[i + j]
  BY <1>1, SuffixProperties
<1> HIDE DEF p
<1>3. DOMAIN p = 1 .. Len(q) - i
  BY <1>2, LenProperties
<1>4. \A j \in DOMAIN p : i + j \in DOMAIN q /\ p[j] = q[i + j]
  BY <1>1, <1>2, <1>3
<1>5. Once(p)
  <2> SUFFICES ASSUME NEW j \in DOMAIN p, NEW m \in DOMAIN p, p[j] = p[m] PROVE j = m
    BY DEF Once
  <2>1. i + j = i + m
    BY <1>4 DEF Once
  <2> QED BY <1>1, <1>3, <2>1
<1>6. \A t : In(p, t) => In(q, t)
  BY <1>4 DEF In
<1>7. ASSUME NEW j \in DOMAIN q, j > i PROVE In(p, q[j])
  <2>1. j - i \in DOMAIN p /\ p[j - i] = q[i + (j - i)] /\ i + (j - i) = j
    BY <1>1, <1>2, <1>3, <1>7
  <2> QED BY <2>1 DEF In
<1> QED BY <1>5, <1>6, <1>7 DEF p

\* The first leaves.
LEMMA OnceTail ==
  ASSUME NEW S, NEW q \in Seq(S), q # <<>>, Once(q)
  PROVE  /\ Tail(q) \in Seq(S) /\ In(q, Head(q)) /\ Once(Tail(q))
         /\ \A t : In(Tail(q), t) <=> In(q, t) /\ t # Head(q)
<1>1. /\ Tail(q) \in Seq(S) /\ Len(Tail(q)) = Len(q) - 1 /\ Len(q) \in Nat \ {0}
      /\ \A i \in 1 .. Len(q) - 1 : Tail(q)[i] = q[i + 1]
  BY HeadTailProperties, EmptySeq
<1>2. Len(q) - 1 \in Nat /\ DOMAIN Tail(q) = 1 .. Len(q) - 1 /\ DOMAIN q = 1 .. Len(q) /\ Head(q) = q[1]
  BY <1>1, LenProperties
<1>3. \A i \in DOMAIN Tail(q) : i + 1 \in DOMAIN q /\ i + 1 # 1 /\ Tail(q)[i] = q[i + 1]
  BY <1>1, <1>2
<1>4. \A i \in DOMAIN q \ {1} : i - 1 \in DOMAIN Tail(q) /\ Tail(q)[i - 1] = q[i]
  BY <1>1, <1>2
<1>5. 1 \in DOMAIN q
  BY <1>1, <1>2
<1>6. Once(Tail(q))
  <2> SUFFICES ASSUME NEW i \in DOMAIN Tail(q), NEW j \in DOMAIN Tail(q), Tail(q)[i] = Tail(q)[j]
               PROVE  i = j
    BY DEF Once
  <2>1. i + 1 = j + 1
    BY <1>3 DEF Once
  <2> QED BY <1>2, <2>1
<1>7. ASSUME NEW t PROVE In(Tail(q), t) <=> In(q, t) /\ t # Head(q)
  <2>1. In(Tail(q), t) => In(q, t) /\ t # Head(q)
    BY <1>2, <1>3, <1>5 DEF In, Once
  <2>2. In(q, t) /\ t # Head(q) => In(Tail(q), t)
    BY <1>2, <1>4 DEF In
  <2> QED BY <2>1, <2>2
<1> QED BY <1>1, <1>2, <1>5, <1>6, <1>7 DEF In

(* ------------------ queues in the order of the numbers ------------------ *)

Sorted(q) == \A i, j \in DOMAIN q : i < j => q[i] < q[j]

LEMMA SortedOnce == ASSUME NEW q \in Seq(Nat), Sorted(q) PROVE Once(q)
<1>1. DOMAIN q \subseteq Nat /\ \A i \in DOMAIN q : q[i] \in Nat
  BY LenProperties, ElementOfSeq
<1> QED BY <1>1 DEF Sorted, Once

LEMMA SortedAppend ==
  ASSUME NEW q \in Seq(Nat), NEW n \in Nat, Sorted(q), \A i \in DOMAIN q : q[i] < n
  PROVE  Sorted(Append(q, n))
<1>1. /\ Len(q) \in Nat /\ DOMAIN q = 1 .. Len(q) /\ DOMAIN Append(q, n) = 1 .. Len(q) + 1
      /\ \A i \in 1 .. Len(q) : Append(q, n)[i] = q[i]
      /\ Append(q, n)[Len(q) + 1] = n
  BY LenProperties, AppendProperties
<1> QED BY <1>1 DEF Sorted

LEMMA SortedTail ==
  ASSUME NEW q \in Seq(Nat), q # <<>>, Sorted(q)
  PROVE  Sorted(Tail(q)) /\ \A i \in DOMAIN Tail(q) : Head(q) < Tail(q)[i]
<1>1. /\ Tail(q) \in Seq(Nat) /\ Len(Tail(q)) = Len(q) - 1 /\ Len(q) \in Nat \ {0}
      /\ \A i \in 1 .. Len(q) - 1 : Tail(q)[i] = q[i + 1]
  BY HeadTailProperties, EmptySeq
<1>2. Len(q) - 1 \in Nat /\ DOMAIN Tail(q) = 1 .. Len(q) - 1 /\ DOMAIN q = 1 .. Len(q) /\ Head(q) = q[1]
  BY <1>1, LenProperties
<1>3. \A i \in DOMAIN Tail(q) : i + 1 \in DOMAIN q /\ 1 < i + 1 /\ Tail(q)[i] = q[i + 1]
  BY <1>1, <1>2
<1>4. 1 \in DOMAIN q
  BY <1>1, <1>2
<1>5. \A i, j \in DOMAIN Tail(q) : i < j => i + 1 < j + 1
  BY <1>2
<1> QED BY <1>2, <1>3, <1>4, <1>5 DEF Sorted

LEMMA SortedRemove ==
  ASSUME NEW q \in Seq(Nat), NEW n \in DOMAIN q, Sorted(q)
  PROVE  Sorted(RemoveAt(q, n))
<1>1. Len(q) \in Nat /\ DOMAIN q = 1 .. Len(q) /\ n \in 1 .. Len(q)
  BY LenProperties
<1>2. /\ RemoveAt(q, n) \in Seq(Nat) /\ Len(RemoveAt(q, n)) = Len(q) - 1
      /\ \A j \in 1 .. Len(q) - 1 : RemoveAt(q, n)[j] = IF j < n THEN q[j] ELSE q[j + 1]
  BY <1>1, RemoveAtProperties
<1>3. DOMAIN RemoveAt(q, n) = 1 .. Len(q) - 1
  BY <1>2, LenProperties
<1> SUFFICES ASSUME NEW i \in DOMAIN RemoveAt(q, n), NEW j \in DOMAIN RemoveAt(q, n), i < j
             PROVE  RemoveAt(q, n)[i] < RemoveAt(q, n)[j]
  BY DEF Sorted
<1>4. /\ i \in DOMAIN q /\ i + 1 \in DOMAIN q /\ j \in DOMAIN q /\ j + 1 \in DOMAIN q
      /\ i + 1 < j + 1 /\ i < j + 1 /\ i \in Nat /\ j \in Nat
  BY <1>1, <1>3
<1>5. q[i] < q[j] /\ q[i] < q[j + 1] /\ q[i + 1] < q[j + 1]
  BY <1>4 DEF Sorted
<1>6. /\ RemoveAt(q, n)[i] = IF i < n THEN q[i] ELSE q[i + 1]
      /\ RemoveAt(q, n)[j] = IF j < n THEN q[j] ELSE q[j + 1]
  BY <1>2, <1>3
<1>7. j < n => i < n
  BY <1>1, <1>4
<1>8. CASE i < n /\ j < n
  BY <1>5, <1>6, <1>8
<1>9. CASE i < n /\ ~(j < n)
  BY <1>5, <1>6, <1>9
<1>10. CASE ~(i < n) /\ ~(j < n)
  BY <1>5, <1>6, <1>10
<1> QED BY <1>7, <1>8, <1>9, <1>10

=============================================================================
