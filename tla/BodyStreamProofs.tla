-------------------------- MODULE BodyStreamProofs --------------------------
(***************************************************************************)
(* Receiving a response body, for every body, limit, ratio of inflating,   *)
(* parser, framing and mix of read calls: the transport is paused when the *)
(* buffer is full, EOF is exact, waiting is bounded by the timer, and who  *)
(* waits has been given all there is.                                      *)
(*                                                                         *)
(* The handlers are operators from record to record that call each other   *)
(* re-entrantly.  Core says what all of the parser's work keeps, Parsing   *)
(* what holds after each of its turns, Sound what holds between two turns  *)
(* of the event loop and between two steps of a read call; a loop is a run *)
(* of turns (QueueLemmas), so that what each turn keeps the loop keeps.    *)
(*                                                                         *)
(* Fed ties the stream to the wire: what was fed to it and what the        *)
(* decompressor holds are the bytes before the token the parser is at,     *)
(* inflated.  A chunk's end is reached with nothing held, and a wire of    *)
(* chunks ends in "last", so that EOF comes after its last byte.           *)
(*                                                                         *)
(* Served and Waits tie the reader to the parser: a buffer that is empty   *)
(* is not paused for, and the parser, which is always at a token it knows  *)
(* (Aligned), stops only where it has fed something (Tracked, Grown).      *)
(***************************************************************************)
EXTENDS BodyStream, QueueLemmas, FiniteSetTheorems

(* -------------------------------- sums ---------------------------------- *)

\* f adds up the elements of b.
SumOf(f, b) ==
  f \in [0..Len(b) -> Nat] /\ f[0] = 0 /\ \A i \in 1..Len(b) : f[i] = f[i - 1] + b[i]

\* Bytes adds them up.
LEMMA BytesSum == ASSUME NEW b \in Seq(Nat) PROVE \E f : SumOf(f, b) /\ Bytes(b) = f[Len(b)]
<1> DEFINE N == Len(b)
           F == [i \in 1..N |-> [x \in Nat |-> x + b[i]]]
           Eq(g) == g = [i \in 0..N |-> IF i = 0 THEN 0 ELSE g[i - 1] + b[i]]
           upTo == CHOOSE g : Eq(g)
<1>0. N \in Nat /\ 0 \in Nat
  OBVIOUS
<1>1. \A i \in 1..N : b[i] \in Nat
  BY ElementOfSeq
<1>2. Bytes(b) = upTo[N]
  BY DEF Bytes
<1> HIDE DEF N
<1>3. \A i \in 1..N : \A x \in Nat : F[i][x] = x + b[i]
  OBVIOUS
<1>4. F \in [1..N -> [Nat -> Nat]]
  BY <1>1
<1> HIDE DEF F
<1>5. PICK g : Follows(g, 0, F, N, Nat)
  BY <1>0, <1>4, BoundedRecursion DEF Steps
<1>6. g \in [0..N -> Nat] /\ g[0] = 0 /\ \A i \in 1..N : g[i] = F[i][g[i - 1]]
  BY <1>5 DEF Follows
<1>7. ASSUME NEW i \in 1..N PROVE g[i] = g[i - 1] + b[i]
  <2>1. i - 1 \in 0..N
    BY <1>0
  <2>2. g[i - 1] \in Nat
    BY <1>6, <2>1
  <2> QED BY <1>3, <1>6, <2>2
<1>8. Eq(g)
  <2>1. ASSUME NEW i \in 0..N PROVE g[i] = IF i = 0 THEN 0 ELSE g[i - 1] + b[i]
    <3>1. i # 0 => i \in 1..N
      BY <1>0
    <3> QED BY <1>6, <1>7, <3>1
  <2>2. g = [i \in 0..N |-> g[i]]
    BY <1>6
  <2> QED BY <2>1, <2>2
<1> HIDE DEF Eq
<1>9. Eq(upTo)
  BY <1>8
<1> HIDE DEF upTo
<1>10. upTo[0] = 0 /\ \A i \in 1..N : i \in 0..N /\ upTo[i] = upTo[i - 1] + b[i]
  BY <1>0, <1>9 DEF Eq
<1> DEFINE S == {i \in Nat : upTo[i] \in Nat}
<1>11. 0 \in S /\ \A n \in 0..N : n # N /\ n \in S => n + 1 \in S
  <2> SUFFICES ASSUME NEW n \in 0..N, n # N, n \in S PROVE n + 1 \in S
    BY <1>10
  <2>1. n + 1 \in 1..N /\ (n + 1) - 1 = n
    BY <1>0
  <2> QED BY <1>1, <1>10, <2>1
<1> HIDE DEF S
<1>12. 0..N \subseteq S
  BY <1>0, <1>11, BoundedInduction
<1>13. upTo \in [0..N -> Nat]
  <2>1. upTo = [i \in 0..N |-> upTo[i]]
    BY <1>9 DEF Eq
  <2> QED BY <1>12, <2>1 DEF S
<1> QED BY <1>2, <1>10, <1>13 DEF SumOf, N

\* There is one sum.
LEMMA SumUnique ==
  ASSUME NEW b \in Seq(Nat), NEW f, NEW g, SumOf(f, b), SumOf(g, b)
  PROVE  f[Len(b)] = g[Len(b)]
<1> DEFINE N == Len(b)
           S == {i \in Nat : f[i] = g[i]}
<1>0. N \in Nat
  OBVIOUS
<1>1. f[0] = 0 /\ g[0] = 0 /\ \A i \in 1..N : f[i] = f[i - 1] + b[i] /\ g[i] = g[i - 1] + b[i]
  BY DEF SumOf
<1> HIDE DEF N
<1>2. 0 \in S
  BY <1>1
<1>3. ASSUME NEW n \in 0..N, n # N, n \in S PROVE n + 1 \in S
  <2>1. n + 1 \in 1..N /\ (n + 1) - 1 = n
    BY <1>0, <1>3
  <2> QED BY <1>1, <1>3, <2>1
<1> HIDE DEF S
<1>4. 0..N \subseteq S
  BY <1>0, <1>2, <1>3, BoundedInduction
<1>5. N \in 0..N
  BY <1>0
<1>6. N \in S
  BY <1>4, <1>5
<1> QED BY <1>6 DEF S, N

\* Any sum of them is their number.
LEMMA BytesIs ==
  ASSUME NEW b \in Seq(Nat), NEW f, SumOf(f, b)
  PROVE  Bytes(b) = f[Len(b)]
BY BytesSum, SumUnique

\* There are none in an empty sequence.
LEMMA BytesType == ASSUME NEW b \in Seq(Nat) PROVE Bytes(b) \in Nat /\ (b = <<>> => Bytes(b) = 0)
<1>1. PICK f : SumOf(f, b) /\ Bytes(b) = f[Len(b)]
  BY BytesSum
<1>2. Len(b) \in Nat /\ (b = <<>> => Len(b) = 0)
  OBVIOUS
<1> QED BY <1>1, <1>2 DEF SumOf

\* Appending one adds it.
LEMMA BytesAppend ==
  ASSUME NEW b \in Seq(Nat), NEW n \in Nat
  PROVE  Append(b, n) \in Seq(Nat) /\ Bytes(Append(b, n)) = Bytes(b) + n
<1> DEFINE c == Append(b, n)
           N == Len(b)
<1>1. PICK f : SumOf(f, b) /\ Bytes(b) = f[Len(b)]
  BY BytesSum
<1> DEFINE g == [i \in 0..N + 1 |-> IF i <= N THEN f[i] ELSE f[N] + n]
<1>2. /\ c \in Seq(Nat) /\ Len(c) = N + 1 /\ N \in Nat /\ c[N + 1] = n
      /\ \A i \in 1..N : c[i] = b[i]
  BY AppendProperties
<1>3. f \in [0..N -> Nat] /\ f[0] = 0 /\ \A i \in 1..N : f[i] = f[i - 1] + b[i]
  BY <1>1 DEF SumOf
<1> HIDE DEF c, N
<1>4. g \in [0..N + 1 -> Nat]
  <2>1. N \in 0..N
    BY <1>2
  <2> QED BY <1>2, <1>3, <2>1
<1>5. g[0] = 0 /\ g[N + 1] = f[N] + n
  BY <1>2, <1>3
<1>6. ASSUME NEW i \in 1..N + 1 PROVE g[i] = g[i - 1] + c[i]
  <2>1. g[i - 1] = f[i - 1]
    BY <1>2
  <2>2. CASE i <= N
    BY <1>2, <1>3, <2>1, <2>2
  <2>3. CASE i = N + 1
    BY <1>2, <1>5, <2>1, <2>3
  <2> QED BY <1>2, <2>2, <2>3
<1> HIDE DEF g
<1>7. SumOf(g, c)
  BY <1>2, <1>4, <1>5, <1>6 DEF SumOf
<1>8. Bytes(c) = g[N + 1]
  BY <1>2, <1>7, BytesIs
<1> QED BY <1>1, <1>2, <1>5, <1>8 DEF c, N

\* What is left of the blocks when k bytes of the first are taken.
LEMMA RestSum ==
  ASSUME NEW b \in Seq(Nat \ {0}), b # <<>>, NEW k \in 1..Head(b)
  PROVE  /\ Rest(b, k) \in Seq(Nat \ {0}) /\ Head(b) \in Nat \ {0}
         /\ Head(b) <= Bytes(b) /\ Bytes(Rest(b, k)) = Bytes(b) - k
<1> DEFINE N == Len(b)
           h == b[1]
           r == Rest(b, k)
<1>1. /\ b \in Seq(Nat) /\ N \in Nat /\ N >= 1 /\ Head(b) = h
      /\ \A i \in 1..N : b[i] \in Nat \ {0}
  <2>1. \A i \in 1..N : b[i] \in Nat \ {0}
    BY ElementOfSeq
  <2>2. b \in Seq(Nat)
    <3>1. \A i \in 1..N : b[i] \in Nat
      BY <2>1
    <3> QED BY <3>1, SeqDef
  <2> QED BY <2>1, <2>2
<1>2. PICK f : SumOf(f, b) /\ Bytes(b) = f[N]
  BY <1>1, BytesSum
<1>3. f \in [0..N -> Nat] /\ f[0] = 0 /\ \A i \in 1..N : f[i] = f[i - 1] + b[i]
  BY <1>2 DEF SumOf
<1>4. /\ Tail(b) \in Seq(Nat \ {0}) /\ Len(Tail(b)) = N - 1
      /\ \A i \in 1..N - 1 : Tail(b)[i] = b[i + 1]
  BY HeadTailProperties
<1>5. h \in Nat \ {0} /\ k \in 1..h
  BY <1>1
<1>6. ASSUME NEW i \in 1..N PROVE f[i] >= h
  <2> DEFINE S == {j \in Nat : j + 1 <= N => f[j + 1] >= h}
             M == N - 1
  <2>1. f[1] = h
    <3>1. 1 \in 1..N
      BY <1>1
    <3>2. f[1] = f[0] + b[1]
      BY <1>3, <3>1
    <3> QED BY <1>3, <1>5, <3>2
  <2>2. M \in Nat
    BY <1>1
  <2>3. 0 \in S
    BY <1>5, <2>1
  <2>4. ASSUME NEW n \in 0..M, n # M, n \in S PROVE n + 1 \in S
    <3>1. (n + 1) + 1 \in 1..N /\ n + 1 \in 0..N /\ ((n + 1) + 1) - 1 = n + 1 /\ n + 1 <= N
      BY <1>1, <2>4
    <3>2. f[(n + 1) + 1] = f[n + 1] + b[(n + 1) + 1] /\ f[n + 1] >= h
      BY <1>3, <2>4, <3>1
    <3>3. f[n + 1] \in Nat /\ b[(n + 1) + 1] \in Nat
      BY <1>1, <1>3, <3>1
    <3> QED BY <1>5, <3>2, <3>3
  <2> HIDE DEF S, M
  <2>5. 0..M \subseteq S
    BY <2>2, <2>3, <2>4, BoundedInduction
  <2>6. i - 1 \in 0..M /\ (i - 1) + 1 = i /\ i <= N
    BY <1>1 DEF M
  <2> QED BY <2>5, <2>6 DEF S
<1>7. Bytes(b) \in Nat /\ h <= Bytes(b)
  <2>1. N \in 1..N /\ N \in 0..N
    BY <1>1
  <2> QED BY <1>2, <1>3, <1>5, <1>6, <2>1
<1>8. CASE k < h
  <2> DEFINE g == [i \in 0..N |-> IF i = 0 THEN 0 ELSE f[i] - k]
  <2>1. r = <<h - k>> \o Tail(b)
    BY <1>1, <1>8 DEF Rest
  <2>2. h - k \in Nat \ {0}
    BY <1>5, <1>8
  <2>3. <<h - k>> \in Seq(Nat \ {0}) /\ Len(<<h - k>>) = 1 /\ <<h - k>>[1] = h - k
    BY <2>2
  <2>4. /\ r \in Seq(Nat \ {0}) /\ Len(r) = N
        /\ r[1] = h - k /\ \A i \in 2..N : r[i] = b[i]
    <3>1. r \in Seq(Nat \ {0}) /\ Len(r) = 1 + (N - 1)
      BY <1>4, <2>1, <2>3, ConcatProperties
    <3>2. Len(r) = N
      BY <1>1, <3>1
    <3>3. \A i \in 1..Len(r) : r[i] = IF i <= 1 THEN <<h - k>>[i] ELSE Tail(b)[i - 1]
      BY <1>4, <2>1, <2>3, <3>1, ConcatProperties
    <3>4. r[1] = h - k
      BY <1>1, <2>3, <3>2, <3>3
    <3>5. ASSUME NEW i \in 2..N PROVE r[i] = b[i]
      <4>1. i \in 1..Len(r) /\ ~(i <= 1) /\ i - 1 \in 1..N - 1 /\ (i - 1) + 1 = i
        BY <1>1, <3>2
      <4> QED BY <1>4, <3>3, <4>1
    <3> QED BY <3>1, <3>2, <3>4, <3>5
  <2> HIDE DEF r
  <2>5. r \in Seq(Nat)
    <3>1. \A i \in 1..Len(r) : r[i] \in Nat
      BY <2>4, ElementOfSeq
    <3> QED BY <2>4, <3>1, SeqDef
  <2>6. g \in [0..N -> Nat]
    <3>1. ASSUME NEW i \in 0..N, i # 0 PROVE f[i] - k \in Nat
      <4>2. i \in 1..N
        BY <1>1, <3>1
      <4>1. f[i] \in Nat /\ f[i] >= h
        BY <1>3, <1>6, <4>2
      <4> QED BY <1>5, <4>1
    <3> QED BY <3>1
  <2>7. ASSUME NEW i \in 1..N PROVE g[i] = g[i - 1] + r[i]
    <3>1. CASE i = 1
      <4>1. f[1] = f[0] + b[1] /\ g[1] = f[1] - k /\ g[0] = 0 /\ i - 1 = 0
        BY <1>1, <1>3, <3>1
      <4> QED BY <1>3, <1>5, <2>4, <3>1, <4>1
    <3>2. CASE i # 1
      <4>1. i \in 2..N /\ i - 1 \in 0..N /\ i - 1 # 0 /\ i \in 0..N /\ i # 0
        BY <1>1, <3>2
      <4>2. g[i] = f[i] - k /\ g[i - 1] = f[i - 1] - k /\ r[i] = b[i] /\ f[i] = f[i - 1] + b[i]
        BY <1>3, <2>4, <4>1
      <4>3. f[i - 1] \in Nat /\ b[i] \in Nat
        BY <1>1, <1>3, <4>1
      <4> QED BY <1>5, <4>2, <4>3
    <3> QED BY <3>1, <3>2
  <2>8. g[0] = 0 /\ g[N] = f[N] - k
    BY <1>1
  <2> HIDE DEF g
  <2>9. SumOf(g, r)
    BY <2>4, <2>6, <2>7, <2>8 DEF SumOf
  <2>10. Bytes(r) = g[N]
    BY <2>4, <2>5, <2>9, BytesIs
  <2> QED BY <1>1, <1>2, <1>5, <1>7, <2>4, <2>8, <2>10 DEF r
<1>9. CASE k = h
  <2> DEFINE g == [i \in 0..N - 1 |-> f[i + 1] - k]
  <2>1. r = Tail(b)
    BY <1>1, <1>5, <1>9 DEF Rest
  <2> HIDE DEF r
  <2>2. r \in Seq(Nat)
    <3>1. \A i \in 1..Len(r) : r[i] \in Nat
      BY <1>4, <2>1, ElementOfSeq
    <3> QED BY <1>4, <2>1, <3>1, SeqDef
  <2>3. g \in [0..N - 1 -> Nat]
    <3>1. ASSUME NEW i \in 0..N - 1 PROVE f[i + 1] - k \in Nat
      <4>1. i + 1 \in 1..N /\ i + 1 \in 0..N
        BY <1>1
      <4>2. f[i + 1] \in Nat /\ f[i + 1] >= h
        BY <1>3, <1>6, <4>1
      <4> QED BY <1>5, <1>9, <4>2
    <3> QED BY <3>1
  <2>4. g[0] = 0
    <3>1. f[1] = f[0] + b[1] /\ 0 \in 0..N - 1
      BY <1>1, <1>3
    <3>2. g[0] = f[1] - k
      BY <3>1
    <3> QED BY <1>3, <1>5, <1>9, <3>1, <3>2
  <2>5. ASSUME NEW i \in 1..N - 1 PROVE g[i] = g[i - 1] + r[i]
    <3>1. i \in 0..N - 1 /\ i - 1 \in 0..N - 1 /\ i + 1 \in 1..N /\ (i - 1) + 1 = i /\ i \in 0..N /\ (i + 1) - 1 = i
      BY <1>1
    <3>2. g[i] = f[i + 1] - k /\ g[i - 1] = f[i] - k /\ r[i] = b[i + 1] /\ f[i + 1] = f[i] + b[i + 1]
      BY <1>3, <1>4, <2>1, <3>1
    <3>3. f[i] \in Nat /\ b[i + 1] \in Nat
      BY <1>1, <1>3, <3>1
    <3> QED BY <1>5, <3>2, <3>3
  <2>6. g[N - 1] = f[N] - k
    BY <1>1
  <2> HIDE DEF g
  <2>7. SumOf(g, r)
    BY <1>4, <2>1, <2>3, <2>4, <2>5 DEF SumOf
  <2>8. Bytes(r) = g[N - 1]
    BY <1>4, <2>1, <2>2, <2>7, BytesIs
  <2>9. r \in Seq(Nat \ {0})
    BY <1>4, <2>1
  <2> HIDE DEF h, N
  <2> QED BY <1>1, <1>2, <1>5, <1>7, <2>6, <2>8, <2>9 DEF r
<1> QED BY <1>5, <1>8, <1>9

(* ------------------------------- the wire ------------------------------- *)

Tokens == {"size", "byte", "crlf", "last"}
May(a) ==
  IF a = "size" THEN {"byte"} ELSE IF a = "byte" THEN {"byte", "crlf"}
  ELSE IF a = "crlf" THEN {"size", "last"} ELSE {}

\* f tells how many of the first tokens of w are bytes.
CountOf(f, w) ==
  /\ f \in [0..Len(w) -> Nat] /\ f[0] = 0
  /\ \A p \in 1..Len(w) : f[p] = f[p - 1] + IF w[p] = "byte" THEN 1 ELSE 0

\* w is whole chunks, with n bytes in all.
ChunksOf(w, n) ==
  /\ w \in Seq(Tokens)
  /\ Len(w) > 0 => w[1] = "size" /\ w[Len(w)] = "crlf"
  /\ \A p \in 1..Len(w) - 1 : w[p + 1] \in May(w[p]) \ {"last"}
  /\ \E f : CountOf(f, w) /\ f[Len(w)] = n

\* A chunk is a size line, its bytes and a line end.
LEMMA ChunkTokensAre ==
  ASSUME NEW n \in Nat \ {0}
  PROVE  LET c == ChunkTokens(n)
         IN  /\ c \in Seq(Tokens) /\ Len(c) = n + 2
             /\ c[1] = "size" /\ c[n + 2] = "crlf" /\ \A i \in 2..n + 1 : c[i] = "byte"
<1> DEFINE a == <<"size">>
           b == [i \in 1..n |-> "byte"]
           d == <<"crlf">>
           ab == a \o b
           c == ab \o d
<1>1. a \in Seq(Tokens) /\ Len(a) = 1 /\ a[1] = "size"
  BY DEF Tokens
<1>2. d \in Seq(Tokens) /\ Len(d) = 1 /\ d[1] = "crlf"
  BY DEF Tokens
<1>3. b \in Seq(Tokens) /\ Len(b) = n /\ \A i \in 1..n : b[i] = "byte"
  <2>1. "byte" \in Tokens
    BY DEF Tokens
  <2>2. b \in [1..n -> Tokens]
    BY <2>1
  <2>3. b \in Seq(Tokens) /\ DOMAIN b = 1..n
    BY <2>2, SeqDef
  <2>4. Len(b) = n
    BY <2>3, LenProperties
  <2> QED BY <2>3, <2>4
<1> HIDE DEF a, b, d
<1>4. /\ ab \in Seq(Tokens) /\ Len(ab) = n + 1
      /\ ab[1] = "size" /\ \A i \in 2..n + 1 : ab[i] = "byte"
  <2>1. ab \in Seq(Tokens) /\ Len(ab) = 1 + n
    <3>1. a \o b \in Seq(Tokens)
      BY <1>1, <1>3, ConcatProperties
    <3>2. Len(a \o b) = Len(a) + Len(b)
      BY <1>1, <1>3, ConcatProperties
    <3> QED BY <1>1, <1>3, <3>1, <3>2
  <2>2. \A i \in 1..Len(ab) : ab[i] = IF i <= 1 THEN a[i] ELSE b[i - 1]
    BY <1>1, <1>3, <2>1, ConcatProperties
  <2> HIDE DEF ab
  <2>3. ab[1] = "size"
    BY <1>1, <2>1, <2>2
  <2>4. ASSUME NEW i \in 2..n + 1 PROVE ab[i] = "byte"
    <3>1. i \in 1..Len(ab) /\ ~(i <= 1) /\ i - 1 \in 1..n
      BY <2>1
    <3> QED BY <1>3, <2>2, <3>1
  <2> QED BY <2>1, <2>3, <2>4
<1> HIDE DEF ab
<1>5. c \in Seq(Tokens) /\ Len(c) = (n + 1) + 1
  <2>1. ab \o d \in Seq(Tokens)
    BY <1>2, <1>4, ConcatProperties
  <2>2. Len(ab \o d) = Len(ab) + Len(d)
    BY <1>2, <1>4, ConcatProperties
  <2> QED BY <1>2, <1>4, <2>1, <2>2
<1>6. \A i \in 1..Len(c) : c[i] = IF i <= n + 1 THEN ab[i] ELSE d[i - (n + 1)]
  BY <1>2, <1>4, <1>5, ConcatProperties
<1>7. ChunkTokens(n) = c
  BY DEF ChunkTokens, ab, a, b, d
<1> HIDE DEF c
<1>8. c[1] = "size" /\ c[n + 2] = "crlf"
  <2>1. 1 \in 1..Len(c) /\ n + 2 \in 1..Len(c) /\ 1 <= n + 1 /\ ~(n + 2 <= n + 1) /\ (n + 2) - (n + 1) = 1
    BY <1>5
  <2> QED BY <1>2, <1>4, <1>6, <2>1
<1>9. ASSUME NEW i \in 2..n + 1 PROVE c[i] = "byte"
  <2>1. i \in 1..Len(c) /\ i <= n + 1
    BY <1>5
  <2> QED BY <1>4, <1>6, <2>1
<1> QED BY <1>5, <1>7, <1>8, <1>9

\* One chunk more.
LEMMA AddChunk ==
  ASSUME NEW w, NEW m \in Nat, ChunksOf(w, m), NEW n \in Nat \ {0}
  PROVE  ChunksOf(w \o ChunkTokens(n), m + n)
<1> DEFINE c == ChunkTokens(n)
           L == Len(w)
           v == w \o c
<1>1. /\ c \in Seq(Tokens) /\ Len(c) = n + 2
      /\ c[1] = "size" /\ c[n + 2] = "crlf" /\ \A i \in 2..n + 1 : c[i] = "byte"
  BY ChunkTokensAre
<1> HIDE DEF c
<1>2. /\ w \in Seq(Tokens) /\ L \in Nat
      /\ L > 0 => w[1] = "size" /\ w[L] = "crlf"
      /\ \A p \in 1..L - 1 : w[p + 1] \in May(w[p]) \ {"last"}
  BY DEF ChunksOf
<1>3. PICK f : CountOf(f, w) /\ f[L] = m
  BY DEF ChunksOf
<1>4. f \in [0..L -> Nat] /\ f[0] = 0 /\ \A p \in 1..L : f[p] = f[p - 1] + IF w[p] = "byte" THEN 1 ELSE 0
  BY <1>3 DEF CountOf
<1>5. v \in Seq(Tokens) /\ Len(v) = L + (n + 2)
  <2>1. w \o c \in Seq(Tokens)
    BY <1>1, <1>2, ConcatProperties
  <2>2. Len(w \o c) = Len(w) + Len(c)
    BY <1>1, <1>2, ConcatProperties
  <2> QED BY <1>1, <1>2, <2>1, <2>2
<1>6. \A i \in 1..Len(v) : v[i] = IF i <= L THEN w[i] ELSE c[i - L]
  BY <1>1, <1>2, <1>5, ConcatProperties
<1> HIDE DEF v, L
<1>7. /\ \A i \in 1..L : v[i] = w[i]
      /\ v[L + 1] = "size" /\ v[L + (n + 2)] = "crlf"
      /\ \A i \in L + 2..L + (n + 1) : v[i] = "byte"
  <2>1. ASSUME NEW i \in 1..L PROVE v[i] = w[i]
    BY <1>2, <1>5, <1>6
  <2>2. v[L + 1] = "size"
    <3>1. L + 1 \in 1..Len(v) /\ ~(L + 1 <= L) /\ (L + 1) - L = 1
      BY <1>2, <1>5
    <3> QED BY <1>1, <1>6, <3>1
  <2>3. v[L + (n + 2)] = "crlf"
    <3>1. L + (n + 2) \in 1..Len(v) /\ ~(L + (n + 2) <= L) /\ (L + (n + 2)) - L = n + 2
      BY <1>2, <1>5
    <3> QED BY <1>1, <1>6, <3>1
  <2>4. ASSUME NEW i \in L + 2..L + (n + 1) PROVE v[i] = "byte"
    <3>1. i \in 1..Len(v) /\ ~(i <= L) /\ i - L \in 2..n + 1
      BY <1>2, <1>5
    <3> QED BY <1>1, <1>6, <3>1
  <2> QED BY <2>1, <2>2, <2>3, <2>4
<1>8. ASSUME NEW p \in 1..Len(v) - 1 PROVE v[p + 1] \in May(v[p]) \ {"last"}
  <2>0. p \in Nat /\ p >= 1 /\ p <= L + (n + 1)
    BY <1>2, <1>5
  <2>1. CASE p < L
    <3>1. p \in 1..L - 1 /\ p \in 1..L /\ p + 1 \in 1..L
      BY <1>2, <2>0, <2>1
    <3> QED BY <1>2, <1>7, <3>1
  <2>2. CASE p = L
    <3>1. L \in 1..L /\ L > 0
      BY <1>2, <2>0, <2>2
    <3>2. v[p] = "crlf" /\ v[p + 1] = "size"
      BY <1>2, <1>7, <2>2, <3>1
    <3> QED BY <3>2 DEF May
  <2>3. CASE p = L + 1
    <3>1. p + 1 \in L + 2..L + (n + 1)
      BY <1>2, <2>3
    <3>2. v[p] = "size" /\ v[p + 1] = "byte"
      BY <1>7, <2>3, <3>1
    <3> QED BY <3>2 DEF May
  <2>4. CASE p > L + 1 /\ p < L + (n + 1)
    <3>1. p \in L + 2..L + (n + 1) /\ p + 1 \in L + 2..L + (n + 1)
      BY <1>2, <2>0, <2>4
    <3>2. v[p] = "byte" /\ v[p + 1] = "byte"
      BY <1>7, <3>1
    <3> QED BY <3>2 DEF May
  <2>5. CASE p = L + (n + 1) /\ p > L + 1
    <3>1. p \in L + 2..L + (n + 1) /\ p + 1 = L + (n + 2)
      BY <1>2, <2>5
    <3>2. v[p] = "byte" /\ v[p + 1] = "crlf"
      BY <1>7, <3>1
    <3> QED BY <3>2 DEF May
  <2> QED BY <1>2, <2>0, <2>1, <2>2, <2>3, <2>4, <2>5
<1>9. v[1] = "size"
  <2>1. CASE L > 0
    <3>1. 1 \in 1..L
      BY <1>2, <2>1
    <3> QED BY <1>2, <1>7, <2>1, <3>1
  <2>2. CASE L = 0
    BY <1>7, <2>2
  <2> QED BY <1>2, <2>1, <2>2
<1> DEFINE M == L + (n + 2)
           g == [p \in 0..M |-> IF p <= L THEN f[p] ELSE IF p = M THEN m + n ELSE m + (p - (L + 1))]
<1>10. M \in Nat /\ Len(v) = M /\ m = f[L] /\ L \in 0..L /\ 0 \in 0..L
  BY <1>2, <1>3, <1>5
<1>11. /\ \A p \in 0..L : g[p] = f[p]
       /\ \A p \in L + 1..L + (n + 1) : g[p] = m + (p - (L + 1))
       /\ g[M] = m + n
  <2>1. ASSUME NEW p \in 0..L PROVE g[p] = f[p]
    BY <1>2
  <2>2. ASSUME NEW p \in L + 1..L + (n + 1) PROVE g[p] = m + (p - (L + 1))
    <3>1. p \in 0..M /\ ~(p <= L) /\ p # M
      BY <1>2
    <3> QED BY <3>1
  <2>3. M \in 0..M /\ ~(M <= L)
    BY <1>2, <1>10
  <2>4. g[M] = m + n
    BY <2>3
  <2> HIDE DEF g, M
  <2> QED BY <2>1, <2>2, <2>4
<1>12. g \in [0..M -> Nat]
  <2>1. ASSUME NEW p \in 0..M PROVE (IF p <= L THEN f[p] ELSE IF p = M THEN m + n ELSE m + (p - (L + 1))) \in Nat
    <3>1. CASE p <= L
      <4>1. p \in 0..L
        BY <1>2, <3>1
      <4> QED BY <1>4, <3>1, <4>1
    <3>2. CASE ~(p <= L)
      <4>1. p - (L + 1) \in Nat
        BY <1>2, <1>10, <3>2
      <4> QED BY <3>2, <4>1
    <3> QED BY <3>1, <3>2
  <2> QED BY <2>1
<1> HIDE DEF g, M
<1>13. ASSUME NEW p \in 1..M PROVE g[p] = g[p - 1] + IF v[p] = "byte" THEN 1 ELSE 0
  <2>0. p \in Nat /\ p >= 1 /\ p <= L + (n + 2)
    BY <1>2 DEF M
  <2>1. CASE p <= L
    <3>1. p \in 1..L /\ p \in 0..L /\ p - 1 \in 0..L
      BY <1>2, <2>0, <2>1
    <3> QED BY <1>4, <1>7, <1>11, <3>1
  <2>2. CASE p = L + 1
    <3>1. p - 1 = L /\ p \in L + 1..L + (n + 1) /\ p - (L + 1) = 0
      BY <1>2, <2>2
    <3>2. g[p] = m + 0 /\ g[p - 1] = m /\ v[p] = "size"
      BY <1>7, <1>10, <1>11, <2>2, <3>1
    <3> QED BY <3>2
  <2>3. CASE p > L + 1 /\ p <= L + (n + 1)
    <3>1. p \in L + 2..L + (n + 1) /\ p \in L + 1..L + (n + 1) /\ p - 1 \in L + 1..L + (n + 1)
      BY <1>2, <2>0, <2>3
    <3>2. g[p] = m + (p - (L + 1)) /\ g[p - 1] = m + ((p - 1) - (L + 1)) /\ v[p] = "byte"
      BY <1>7, <1>11, <3>1
    <3> QED BY <1>2, <2>0, <3>2
  <2>4. CASE p = L + (n + 2)
    <3>1. p - 1 \in L + 1..L + (n + 1) /\ (p - 1) - (L + 1) = n /\ p = M
      BY <1>2, <2>4 DEF M
    <3>2. g[p] = m + n /\ g[p - 1] = m + n /\ v[p] = "crlf"
      BY <1>7, <1>11, <2>4, <3>1
    <3> QED BY <3>2
  <2> QED BY <1>2, <2>0, <2>1, <2>2, <2>3, <2>4
<1>14. CountOf(g, v)
  <2>1. g[0] = 0
    BY <1>4, <1>10, <1>11
  <2> QED BY <1>10, <1>12, <1>13, <2>1 DEF CountOf
<1>15. v[Len(v)] = "crlf" /\ g[Len(v)] = m + n
  BY <1>7, <1>10, <1>11 DEF M
<1>16. ChunksOf(v, m + n)
  BY <1>5, <1>8, <1>9, <1>14, <1>15 DEF ChunksOf
<1> QED BY <1>16 DEF v, c

\* Chunks is whole chunks, with the bytes of the body.
LEMMA ChunksAre == ASSUME NEW b \in Seq(Nat \ {0}) PROVE ChunksOf(Chunks(b), Bytes(b))
<1> DEFINE N == Len(b)
           D == Seq(Tokens)
           F == [i \in 1..N |-> [x \in D |-> x \o ChunkTokens(b[i])]]
           Eq(g) == g = [i \in 0..N |-> IF i = 0 THEN <<>> ELSE g[i - 1] \o ChunkTokens(b[i])]
           upTo == CHOOSE g : Eq(g)
<1>0. N \in Nat /\ <<>> \in D
  OBVIOUS
<1>1. \A i \in 1..N : b[i] \in Nat \ {0}
  BY ElementOfSeq
<1>2. b \in Seq(Nat)
  <2>1. \A i \in 1..N : b[i] \in Nat
    BY <1>1
  <2> QED BY <2>1, SeqDef
<1>3. Chunks(b) = upTo[N]
  BY DEF Chunks
<1>4. PICK sum : SumOf(sum, b) /\ Bytes(b) = sum[N]
  BY <1>2, BytesSum
<1>5. sum \in [0..N -> Nat] /\ sum[0] = 0 /\ \A i \in 1..N : sum[i] = sum[i - 1] + b[i]
  BY <1>4 DEF SumOf
<1> HIDE DEF N
<1>6. \A i \in 1..N : \A x \in D : x \o ChunkTokens(b[i]) \in D
  <2> SUFFICES ASSUME NEW i \in 1..N, NEW x \in D PROVE x \o ChunkTokens(b[i]) \in D
    OBVIOUS
  <2>1. ChunkTokens(b[i]) \in Seq(Tokens)
    BY <1>1, ChunkTokensAre
  <2> QED BY <2>1, ConcatProperties
<1> HIDE DEF D
<1>7. \A i \in 1..N : \A x \in D : F[i][x] = x \o ChunkTokens(b[i])
  OBVIOUS
<1>8. Steps(F, N, D)
  BY <1>6 DEF Steps
<1> HIDE DEF F
<1>9. PICK g : Follows(g, <<>>, F, N, D)
  BY <1>0, <1>8, BoundedRecursion
<1>10. g \in [0..N -> D] /\ g[0] = <<>> /\ \A i \in 1..N : g[i] = F[i][g[i - 1]]
  BY <1>9 DEF Follows
<1>11. Eq(g)
  <2>1. ASSUME NEW i \in 0..N PROVE g[i] = IF i = 0 THEN <<>> ELSE g[i - 1] \o ChunkTokens(b[i])
    <3>1. CASE i = 0
      BY <1>10, <3>1
    <3>2. CASE i # 0
      <4>1. i \in 1..N /\ i - 1 \in 0..N
        BY <1>0, <3>2
      <4>2. g[i - 1] \in D /\ g[i] = F[i][g[i - 1]]
        BY <1>10, <4>1
      <4> QED BY <1>7, <3>2, <4>1, <4>2
    <3> QED BY <3>1, <3>2
  <2>2. g = [i \in 0..N |-> g[i]]
    BY <1>10
  <2> QED BY <2>1, <2>2
<1>12. Eq(upTo)
  <2> HIDE DEF Eq
  <2> QED BY <1>11
<1> HIDE DEF upTo
<1>13. upTo[0] = <<>> /\ \A i \in 1..N : i \in 0..N /\ i # 0 /\ upTo[i] = upTo[i - 1] \o ChunkTokens(b[i])
  BY <1>0, <1>12
<1> HIDE DEF Eq
<1> DEFINE S == {i \in Nat : ChunksOf(upTo[i], sum[i])}
<1>14. 0 \in S
  <2> DEFINE f == [p \in 0..0 |-> 0]
             w == upTo[0]
  <2>1. w \in Seq(Tokens) /\ Len(w) = 0
    BY <1>0, <1>13 DEF D
  <2>2. f \in [0..0 -> Nat] /\ f[0] = 0
    OBVIOUS
  <2> HIDE DEF f, w
  <2>3. CountOf(f, w)
    <3>1. ASSUME NEW p \in 1..Len(w) PROVE FALSE
      BY <2>1, <3>1
    <3> QED BY <2>1, <2>2, <3>1 DEF CountOf
  <2>4. \A p \in 1..Len(w) - 1 : FALSE
    BY <2>1
  <2>5. ChunksOf(w, 0)
    <3>1. CountOf(f, w) /\ f[Len(w)] = 0
      BY <2>1, <2>2, <2>3
    <3>2. ~ (Len(w) > 0)
      BY <2>1
    <3> QED BY <2>1, <2>4, <3>1, <3>2 DEF ChunksOf
  <2> QED BY <1>5, <2>5 DEF w
<1>15. ASSUME NEW n \in 0..N, n # N, n \in S PROVE n + 1 \in S
  <2>1. n + 1 \in 1..N /\ (n + 1) - 1 = n /\ n \in 0..N
    BY <1>0, <1>15
  <2>2. upTo[n + 1] = upTo[n] \o ChunkTokens(b[n + 1]) /\ sum[n + 1] = sum[n] + b[n + 1]
    BY <1>5, <1>13, <2>1
  <2>3. sum[n] \in Nat /\ b[n + 1] \in Nat \ {0} /\ ChunksOf(upTo[n], sum[n])
    BY <1>1, <1>5, <1>15, <2>1
  <2>4. ChunksOf(upTo[n] \o ChunkTokens(b[n + 1]), sum[n] + b[n + 1])
    BY <2>3, AddChunk
  <2>5. ChunksOf(upTo[n + 1], sum[n + 1]) /\ n + 1 \in Nat
    BY <2>1, <2>2, <2>4
  <2> QED BY <2>5
<1> HIDE DEF S
<1>16. 0..N \subseteq S
  BY <1>0, <1>14, <1>15, BoundedInduction
<1>17. N \in S
  BY <1>0, <1>16
<1> QED BY <1>3, <1>4, <1>17 DEF S, N

\* How many of the first tokens of the wire are bytes.
Before == CHOOSE f : CountOf(f, wire)

\* What is used of the constants, the mode and the wire.
Given ==
  /\ mode.parser \in {"python", "extension"} /\ mode.kind \in {"chunked", "length", "eof"}
  /\ mode.codec \in {"identity", "zlib", "zstd"}
  /\ Limit \in Nat \ {0} /\ Ratio \in Nat \ {0} /\ ReadSizes \subseteq Nat \ {0}
  /\ HighChunks \in Nat /\ LowChunks \in Nat /\ LowChunks <= HighChunks /\ 2 <= LowChunks
  /\ wire \in Seq(Tokens) /\ Len(wire) \in Nat
  /\ Before \in [0..Len(wire) -> Nat] /\ Before[0] = 0
  /\ \A p \in 1..Len(wire) : Before[p] = Before[p - 1] + IF wire[p] = "byte" THEN 1 ELSE 0
  /\ Before[Len(wire)] = Bytes(sizes)
  /\ mode.kind # "chunked" => \A p \in 1..Len(wire) : wire[p] = "byte"
  /\ mode.kind = "chunked" =>
       /\ Len(wire) > 0 /\ wire[1] \in {"size", "last"} /\ wire[Len(wire)] = "last"
       /\ \A p \in 1..Len(wire) - 1 : wire[p + 1] \in May(wire[p])

\* There is one way to count the bytes of a wire.
LEMMA CountUnique ==
  ASSUME NEW w \in Seq(Tokens), NEW f, NEW g, CountOf(f, w), CountOf(g, w)
  PROVE  \A p \in 0..Len(w) : f[p] = g[p]
<1> DEFINE N == Len(w)
           S == {p \in Nat : f[p] = g[p]}
<1>0. N \in Nat
  OBVIOUS
<1>1. /\ f[0] = 0 /\ g[0] = 0
      /\ \A p \in 1..N : f[p] = f[p - 1] + IF w[p] = "byte" THEN 1 ELSE 0
      /\ \A p \in 1..N : g[p] = g[p - 1] + IF w[p] = "byte" THEN 1 ELSE 0
  BY DEF CountOf
<1> HIDE DEF N
<1>2. 0 \in S
  BY <1>1
<1>3. ASSUME NEW n \in 0..N, n # N, n \in S PROVE n + 1 \in S
  <2>1. n + 1 \in 1..N /\ (n + 1) - 1 = n /\ n + 1 \in Nat
    BY <1>0, <1>3
  <2> QED BY <1>1, <1>3, <2>1
<1> HIDE DEF S
<1>4. 0..N \subseteq S
  BY <1>0, <1>2, <1>3, BoundedInduction
<1> QED BY <1>4 DEF S, N

\* A body that is not chunked is its bytes.
LEMMA PlainWire ==
  ASSUME NEW n \in Nat
  PROVE  LET w == [i \in 1..n |-> "byte"]
         IN  /\ w \in Seq(Tokens) /\ Len(w) = n /\ \A p \in 1..n : w[p] = "byte"
             /\ \E f : CountOf(f, w) /\ f[n] = n
<1> DEFINE w == [i \in 1..n |-> "byte"]
           f == [p \in 0..n |-> p]
<1>1. w \in Seq(Tokens) /\ DOMAIN w = 1..n
  <2>1. "byte" \in Tokens
    BY DEF Tokens
  <2>2. w \in [1..n -> Tokens]
    BY <2>1
  <2> QED BY <2>2, SeqDef
<1>2. Len(w) = n
  BY <1>1, LenProperties
<1>3. \A p \in 1..n : w[p] = "byte"
  OBVIOUS
<1> HIDE DEF w
<1>4. f \in [0..n -> Nat] /\ f[0] = 0 /\ f[n] = n
  OBVIOUS
<1>5. ASSUME NEW p \in 1..n PROVE f[p] = f[p - 1] + 1
  <2>1. p \in 0..n /\ p - 1 \in 0..n
    OBVIOUS
  <2> QED BY <2>1
<1> HIDE DEF f
<1>6. CountOf(f, w)
  <2>1. ASSUME NEW p \in 1..n PROVE f[p] = f[p - 1] + IF w[p] = "byte" THEN 1 ELSE 0
    BY <1>3, <1>5
  <2> QED BY <1>2, <1>4, <2>1 DEF CountOf
<1>7. /\ w \in Seq(Tokens) /\ Len(w) = n /\ \A p \in 1..n : w[p] = "byte"
      /\ \E h : CountOf(h, w) /\ h[n] = n
  BY <1>1, <1>2, <1>3, <1>4, <1>6
<1> QED BY <1>7 DEF w

\* A chunked one is its chunks, and the last.
LEMMA ChunkedWire ==
  ASSUME NEW b \in Seq(Nat \ {0})
  PROVE  LET w == Append(Chunks(b), "last")
         IN  /\ w \in Seq(Tokens) /\ Len(w) \in Nat /\ Len(w) > 0
             /\ w[1] \in {"size", "last"} /\ w[Len(w)] = "last"
             /\ \A p \in 1..Len(w) - 1 : w[p + 1] \in May(w[p])
             /\ \E f : CountOf(f, w) /\ f[Len(w)] = Bytes(b)
<1> DEFINE c == Chunks(b)
           L == Len(c)
           w == Append(c, "last")
           n == Bytes(b)
<1>1. ChunksOf(c, n)
  BY ChunksAre
<1> HIDE DEF c, n
<1>2. /\ c \in Seq(Tokens) /\ L \in Nat
      /\ L > 0 => c[1] = "size" /\ c[L] = "crlf"
      /\ \A p \in 1..L - 1 : c[p + 1] \in May(c[p]) \ {"last"}
  BY <1>1 DEF ChunksOf
<1>3. PICK f : CountOf(f, c) /\ f[L] = n
  BY <1>1 DEF ChunksOf
<1>4. f \in [0..L -> Nat] /\ f[0] = 0 /\ \A p \in 1..L : f[p] = f[p - 1] + IF c[p] = "byte" THEN 1 ELSE 0
  BY <1>3 DEF CountOf
<1>5. "last" \in Tokens
  BY DEF Tokens
<1>6. /\ w \in Seq(Tokens) /\ Len(w) = L + 1
      /\ \A i \in 1..L : w[i] = c[i]
      /\ w[L + 1] = "last"
  BY <1>2, <1>5, AppendProperties
<1> HIDE DEF w, L
<1>7. w[1] \in {"size", "last"}
  <2>1. CASE L > 0
    <3>1. 1 \in 1..L
      BY <1>2, <2>1
    <3> QED BY <1>2, <1>6, <2>1, <3>1
  <2>2. CASE L = 0
    BY <1>6, <2>2
  <2> QED BY <1>2, <2>1, <2>2
<1>8. ASSUME NEW p \in 1..Len(w) - 1 PROVE w[p + 1] \in May(w[p])
  <2>1. CASE p < L
    <3>1. p \in 1..L - 1 /\ p \in 1..L /\ p + 1 \in 1..L
      BY <1>2, <2>1
    <3> QED BY <1>2, <1>6, <3>1
  <2>2. CASE p = L
    <3>1. L > 0 /\ L \in 1..L
      BY <1>2, <1>6, <2>2
    <3>2. w[p] = "crlf" /\ w[p + 1] = "last"
      BY <1>2, <1>6, <2>2, <3>1
    <3> QED BY <3>2 DEF May
  <2> QED BY <1>2, <1>6, <2>1, <2>2
<1> DEFINE g == [p \in 0..L + 1 |-> IF p <= L THEN f[p] ELSE n]
<1>9. n \in Nat /\ L \in 0..L
  BY <1>2, <1>3, <1>4
<1>10. g \in [0..L + 1 -> Nat] /\ g[L + 1] = n /\ \A p \in 0..L : g[p] = f[p]
  <2>1. ASSUME NEW p \in 0..L + 1 PROVE (IF p <= L THEN f[p] ELSE n) \in Nat
    <3>1. p <= L => p \in 0..L
      BY <1>2
    <3> QED BY <1>4, <1>9, <3>1
  <2>2. L + 1 \in 0..L + 1 /\ ~(L + 1 <= L)
    BY <1>2
  <2>3. ASSUME NEW p \in 0..L PROVE g[p] = f[p]
    BY <1>2
  <2> QED BY <2>1, <2>2, <2>3
<1> HIDE DEF g
<1>11. ASSUME NEW p \in 1..L + 1 PROVE g[p] = g[p - 1] + IF w[p] = "byte" THEN 1 ELSE 0
  <2>1. CASE p <= L
    <3>1. p \in 1..L /\ p \in 0..L /\ p - 1 \in 0..L
      BY <1>2, <2>1
    <3> QED BY <1>4, <1>6, <1>10, <3>1
  <2>2. CASE p = L + 1
    <3>1. p - 1 = L
      BY <1>2, <2>2
    <3>2. g[p] = n /\ g[p - 1] = n /\ w[p] = "last"
      BY <1>3, <1>6, <1>9, <1>10, <2>2, <3>1
    <3> QED BY <1>9, <3>2
  <2> QED BY <1>2, <2>1, <2>2
<1>12. CountOf(g, w) /\ g[Len(w)] = n
  <2>1. g[0] = 0
    BY <1>2, <1>4, <1>10
  <2> QED BY <1>6, <1>10, <1>11, <2>1 DEF CountOf
<1>13. /\ w \in Seq(Tokens) /\ Len(w) \in Nat /\ Len(w) > 0
       /\ w[1] \in {"size", "last"} /\ w[Len(w)] = "last"
       /\ \A p \in 1..Len(w) - 1 : w[p + 1] \in May(w[p])
       /\ \E h : CountOf(h, w) /\ h[Len(w)] = n
  BY <1>2, <1>6, <1>7, <1>8, <1>12
<1> QED BY <1>13 DEF w, c, n

\* What Init chooses is such a wire.
LEMMA WireIsGiven ==
  ASSUME mode \in Modes, sizes \in Bodies, wire = Wire(mode.kind, sizes)
  PROVE  Given
<1> DEFINE Modal == [parser : {"python", "extension"}, kind : {"chunked", "length", "eof"},
                     codec : {"identity", "zlib", "zstd"}]
<1>1. /\ Modes \subseteq Modal
      /\ Limit \in Nat \ {0} /\ Ratio \in Nat \ {0} /\ ReadSizes \subseteq Nat \ {0}
      /\ sizes \in Seq(Nat \ {0})
  BY BodyAssumption
<1>2. /\ mode.parser \in {"python", "extension"} /\ mode.kind \in {"chunked", "length", "eof"}
      /\ mode.codec \in {"identity", "zlib", "zstd"}
  <2>1. mode \in Modal
    BY <1>1
  <2> QED BY <2>1
<1>3. HighChunks \in Nat /\ LowChunks \in Nat /\ LowChunks <= HighChunks /\ 2 <= LowChunks
  BY <1>1 DEF HighChunks, LowChunks, HigherOf
<1>4. Bytes(sizes) \in Nat
  <2>1. \A i \in 1..Len(sizes) : sizes[i] \in Nat
    BY <1>1, ElementOfSeq
  <2>2. sizes \in Seq(Nat)
    BY <1>1, <2>1, SeqDef
  <2> QED BY <2>2, BytesType
<1>5. /\ wire \in Seq(Tokens) /\ Len(wire) \in Nat
      /\ mode.kind # "chunked" => \A p \in 1..Len(wire) : wire[p] = "byte"
      /\ mode.kind = "chunked" =>
           /\ Len(wire) > 0 /\ wire[1] \in {"size", "last"} /\ wire[Len(wire)] = "last"
           /\ \A p \in 1..Len(wire) - 1 : wire[p + 1] \in May(wire[p])
      /\ \E f : CountOf(f, wire) /\ f[Len(wire)] = Bytes(sizes)
  <2>1. CASE mode.kind = "chunked"
    <3>1. wire = Append(Chunks(sizes), "last")
      BY <2>1 DEF Wire
    <3> QED BY <1>1, <2>1, <3>1, ChunkedWire
  <2>2. CASE mode.kind # "chunked"
    <3>1. wire = [i \in 1..Bytes(sizes) |-> "byte"]
      BY <2>2 DEF Wire
    <3>2. /\ wire \in Seq(Tokens) /\ Len(wire) = Bytes(sizes) /\ \A p \in 1..Bytes(sizes) : wire[p] = "byte"
          /\ \E f : CountOf(f, wire) /\ f[Bytes(sizes)] = Bytes(sizes)
      BY <1>4, <3>1, PlainWire
    <3> QED BY <1>4, <2>2, <3>2
  <2> QED BY <2>1, <2>2
<1>6. PICK f : CountOf(f, wire) /\ f[Len(wire)] = Bytes(sizes)
  BY <1>5
<1>7. CountOf(Before, wire)
  BY <1>6 DEF Before
<1>8. Before[Len(wire)] = Bytes(sizes)
  <2>1. Len(wire) \in 0..Len(wire)
    BY <1>5
  <2>2. Before[Len(wire)] = f[Len(wire)]
    BY <1>5, <1>6, <1>7, <2>1, CountUnique
  <2> QED BY <1>6, <2>2
<1>9. /\ Before \in [0..Len(wire) -> Nat] /\ Before[0] = 0
      /\ \A p \in 1..Len(wire) : Before[p] = Before[p - 1] + IF wire[p] = "byte" THEN 1 ELSE 0
  BY <1>7 DEF CountOf
<1> QED BY <1>1, <1>2, <1>3, <1>5, <1>8, <1>9 DEF Given

(* ---------------------------- bytes and inflating ------------------------ *)

\* Over a run of bytes the count goes up one by one.
LEMMA BeforeBytes ==
  ASSUME Given, NEW p \in Nat, NEW n \in Nat, p + n <= Len(wire), \A k \in 1..n : wire[p + k] = "byte"
  PROVE  Before[p + n] = Before[p] + n
<1> DEFINE S == {i \in Nat : i <= n => Before[p + i] = Before[p] + i}
<1>0. /\ Len(wire) \in Nat /\ Before \in [0..Len(wire) -> Nat]
      /\ \A q \in 1..Len(wire) : Before[q] = Before[q - 1] + IF wire[q] = "byte" THEN 1 ELSE 0
  BY DEF Given
<1>1. 0 \in S
  <2>1. p \in 0..Len(wire) /\ p + 0 = p
    BY <1>0
  <2> QED BY <1>0, <2>1
<1>2. ASSUME NEW i \in 0..n, i # n, i \in S PROVE i + 1 \in S
  <2>1. p + (i + 1) \in 1..Len(wire) /\ (p + (i + 1)) - 1 = p + i /\ i + 1 \in 1..n /\ p + i \in 0..Len(wire)
    BY <1>0, <1>2
  <2>2. wire[p + (i + 1)] = "byte"
    BY <2>1
  <2>3. Before[p + (i + 1)] = Before[p + i] + 1
    BY <1>0, <2>1, <2>2
  <2>4. p \in 0..Len(wire)
    BY <1>0
  <2>5. Before[p + i] = Before[p] + i
    BY <1>2
  <2>6. Before[p] \in Nat
    BY <1>0, <2>4
  <2>7. Before[p + (i + 1)] = Before[p] + (i + 1)
    BY <1>2, <2>3, <2>5, <2>6
  <2> QED BY <2>7
<1> HIDE DEF S
<1>3. 0..n \subseteq S
  BY <1>1, <1>2, BoundedInduction
<1>4. n \in S
  BY <1>3
<1> QED BY <1>4 DEF S

\* Without chunks every token is a byte.
LEMMA BeforePlain ==
  ASSUME Given, mode.kind # "chunked", NEW p \in 0..Len(wire)
  PROVE  Before[p] = p
<1>1. /\ Len(wire) \in Nat /\ Before[0] = 0 /\ p \in Nat
      /\ \A q \in 1..Len(wire) : wire[q] = "byte"
  BY DEF Given
<1>2. \A k \in 1..p : wire[0 + k] = "byte"
  BY <1>1
<1>3. 0 + p <= Len(wire) /\ 0 \in Nat
  BY <1>1
<1>4. Before[0 + p] = Before[0] + p
  BY <1>1, <1>2, <1>3, BeforeBytes
<1> QED BY <1>1, <1>4

\* A set of naturals has a least element.
LEMMA Least ==
  ASSUME NEW S, S \subseteq Nat, S # {}
  PROVE  \E k \in S : \A j \in S : k <= j
<1> DEFINE T == {n \in Nat : \A j \in S : n <= j}
<1> SUFFICES ASSUME \A k \in S : \E j \in S : ~(k <= j) PROVE FALSE
  OBVIOUS
<1>1. 0 \in T
  OBVIOUS
<1>2. ASSUME NEW n \in Nat, n \in T PROVE n + 1 \in T
  <2>1. n \notin S
    BY <1>2
  <2>2. ASSUME NEW j \in S PROVE n + 1 <= j
    BY <1>2, <2>1
  <2> QED BY <2>2
<1>3. PICK k \in S : TRUE
  OBVIOUS
<1> HIDE DEF T
<1>4. k + 1 \in T
  BY <1>1, <1>2, <1>3, SetInduction
<1> QED BY <1>3, <1>4 DEF T

\* Run counts the bytes up to the next token of another kind.
LEMMA RunFacts ==
  ASSUME Given, NEW s, s.parsed \in Nat, s.arrived \in Nat, s.parsed <= s.arrived, s.arrived <= Len(wire)
  PROVE  /\ Run(s) \in Nat /\ s.parsed + Run(s) <= s.arrived
         /\ Before[s.parsed + Run(s)] = Before[s.parsed] + Run(s)
         /\ s.parsed + Run(s) < s.arrived => wire[s.parsed + Run(s) + 1] # "byte"
         /\ mode.kind # "chunked" => s.parsed + Run(s) = s.arrived
         /\ Run(s) > 0 => wire[s.parsed + Run(s)] = "byte"
<1> DEFINE n == s.arrived - s.parsed
           stop == {k \in 1..n : wire[s.parsed + k] # "byte"}
           r == Run(s)
<1>0. n \in Nat /\ Len(wire) \in Nat
  BY DEF Given
<1>1. CASE stop = {}
  <2>1. r = n
    BY <1>1 DEF Run
  <2>2. \A k \in 1..r : wire[s.parsed + k] = "byte"
    BY <1>1, <2>1
  <2>3. s.parsed + r = s.arrived /\ s.parsed + r <= Len(wire) /\ r \in Nat
    BY <1>0, <2>1
  <2>4. Before[s.parsed + r] = Before[s.parsed] + r
    BY <2>2, <2>3, BeforeBytes
  <2>5. r > 0 => r \in 1..r
    BY <2>3
  <2> QED BY <2>2, <2>3, <2>4, <2>5
<1>2. CASE stop # {}
  <2>1. stop \subseteq Nat
    BY <1>0
  <2>2. \E k \in stop : \A j \in stop : k <= j
    BY <1>2, <2>1, Least
  <2> DEFINE k == CHOOSE k \in stop : \A j \in stop : k <= j
  <2>3. k \in stop /\ \A j \in stop : k <= j
    BY <2>2
  <2>4. r = k - 1
    BY <1>2 DEF Run
  <2> HIDE DEF k
  <2>5. k \in 1..n /\ wire[s.parsed + k] # "byte"
    BY <2>3
  <2>6. r \in Nat /\ r < n /\ s.parsed + r + 1 = s.parsed + k /\ s.parsed + r <= Len(wire)
    BY <1>0, <2>4, <2>5
  <2>7. ASSUME NEW i \in 1..r PROVE wire[s.parsed + i] = "byte"
    <3>1. i \in 1..n /\ ~(k <= i)
      BY <1>0, <2>4, <2>5
    <3> QED BY <2>3, <3>1
  <2> HIDE DEF r
  <2>8. Before[s.parsed + r] = Before[s.parsed] + r
    BY <2>6, <2>7, BeforeBytes
  <2>9. mode.kind = "chunked"
    <3>1. s.parsed + k \in 1..Len(wire)
      BY <1>0, <2>5
    <3> QED BY <2>5, <3>1 DEF Given
  <2>10. r > 0 => r \in 1..r
    BY <2>6
  <2> QED BY <2>5, <2>6, <2>7, <2>8, <2>9, <2>10 DEF r
<1> QED BY <1>1, <1>2

\* Inflating a piece and another is inflating both.
LEMMA InflatedFacts ==
  ASSUME Given
  PROVE  /\ Inflated(0) = 0 /\ \A n \in Nat : Inflated(n) \in Nat
         /\ \A m, n \in Nat : Inflated(m + n) = Inflated(m) + Inflated(n)
         /\ \A n \in Nat : n > 0 => Inflated(n) > 0
<1>1. Ratio \in Nat /\ Ratio > 0
  BY DEF Given
<1>2. \A n \in Nat : Inflated(n) \in Nat
  BY <1>1 DEF Inflated
<1>3. \A m, n \in Nat : Ratio * (m + n) = Ratio * m + Ratio * n
  BY <1>1
<1>4. \A m, n \in Nat : Inflated(m + n) = Inflated(m) + Inflated(n)
  BY <1>3 DEF Inflated
<1>5. Ratio * 0 = 0
  BY <1>1
<1>6. Inflated(0) = 0
  BY <1>5 DEF Inflated
<1>7. \A n \in Nat : n > 0 => Ratio * n > 0
  BY <1>1
<1>8. \A n \in Nat : n > 0 => Inflated(n) > 0
  BY <1>7 DEF Inflated
<1> QED BY <1>2, <1>4, <1>6, <1>8

(* ------------------------------- the record ----------------------------- *)

Fields ==
  {"conn", "tpaused", "rpaused", "timer", "ppaused", "pending", "eofPending", "arrived", "parsed",
   "phase", "held", "more", "low", "buf", "size", "cursor", "total", "splits", "eof", "exc", "fut"}

Shape(s) == DOMAIN s = Fields /\ s = [f \in Fields |-> s[f]]

\* Nothing has changed but the fields of F.
Same(t, s, F) == \A f \in Fields \ F : t[f] = s[f]

Records ==
  [conn : {"open", "closed", "reset"}, tpaused : BOOLEAN, rpaused : BOOLEAN, timer : BOOLEAN,
   ppaused : BOOLEAN, pending : BOOLEAN, eofPending : BOOLEAN, arrived : Nat, parsed : Nat,
   phase : {"size", "data", "crlf"}, held : Nat, more : BOOLEAN, low : Nat \ {0},
   buf : Seq(Nat \ {0}), size : Nat, cursor : Nat, total : Nat, splits : Seq(Nat),
   eof : BOOLEAN, exc : {"none", "payload", "timeout"}, fut : {"none", "pending", "set", "exc"}]

TransportTyped(s) ==
  /\ s.conn \in {"open", "closed", "reset"} /\ s.tpaused \in BOOLEAN /\ s.rpaused \in BOOLEAN
  /\ s.timer \in BOOLEAN
  /\ s.exc \in {"none", "payload", "timeout"} /\ s.fut \in {"none", "pending", "set", "exc"}
ParserTyped(s) ==
  /\ s.ppaused \in BOOLEAN /\ s.pending \in BOOLEAN /\ s.eofPending \in BOOLEAN
  /\ s.arrived \in Nat /\ s.parsed \in Nat /\ s.phase \in {"size", "data", "crlf"}
  /\ s.held \in Nat /\ s.more \in BOOLEAN
StreamTyped(s) ==
  /\ s.low \in Nat \ {0} /\ s.buf \in Seq(Nat \ {0}) /\ s.size \in Nat /\ s.cursor \in Nat
  /\ s.total \in Nat /\ s.splits \in Seq(Nat) /\ s.eof \in BOOLEAN
Typed(s) == Shape(s) /\ TransportTyped(s) /\ ParserTyped(s) /\ StreamTyped(s)

\* The typed groups are the type of the record, in parts.
LEMMA TypedIsRecord == ASSUME NEW s PROVE Typed(s) <=> s \in Records
<1> USE DEF Records, Shape, Fields, TransportTyped, ParserTyped, StreamTyped
<1>1. Typed(s) => s \in Records
  BY DEF Typed
<1>2. ASSUME s \in Records PROVE Typed(s)
  <2>1. Shape(s) /\ TransportTyped(s) BY <1>2
  <2>2. ParserTyped(s) BY <1>2
  <2>3. StreamTyped(s) BY <1>2
  <2> QED BY <2>1, <2>2, <2>3 DEF Typed
<1> QED BY <1>1, <1>2

(* ------------------------------ the producer ---------------------------- *)

\* The four fields that PauseReading() sets.
Pausing(t, s) ==
  \/ t.rpaused = TRUE /\ t.ppaused = TRUE /\ t.tpaused = TRUE /\ t.timer = FALSE
  \/ /\ t.rpaused = s.rpaused /\ t.ppaused = s.ppaused
     /\ t.tpaused = s.tpaused /\ t.timer = s.timer
Woken(t, s) == t.fut = IF s.fut = "pending" THEN "set" ELSE s.fut

\* What PauseReading() does to the fields, and so on for the other steps.
LEMMA PauseFields ==
  ASSUME NEW s, Shape(s)
  PROVE  LET t == PauseReading(s)
         IN  /\ Shape(t) /\ Same(t, s, {"rpaused", "ppaused", "tpaused", "timer"})
             /\ t.rpaused = TRUE /\ t.ppaused = TRUE /\ t.tpaused = TRUE /\ t.timer = FALSE
<1> USE DEF PauseReading
<1>1. Shape(PauseReading(s)) BY DEF Shape
<1>2. Same(PauseReading(s), s, {"rpaused", "ppaused", "tpaused", "timer"}) BY DEF Shape, Same
<1>3. PauseReading(s).rpaused = TRUE /\ PauseReading(s).ppaused = TRUE BY DEF Shape, Fields
<1>4. PauseReading(s).tpaused = TRUE /\ PauseReading(s).timer = FALSE BY DEF Shape, Fields
<1> HIDE DEF PauseReading
<1> QED BY <1>1, <1>2, <1>3, <1>4

\* Waking the reader.
LEMMA WakeFields ==
  ASSUME NEW s, Shape(s), NEW state
  PROVE  LET t == Wake(s, state)
         IN  Shape(t) /\ Same(t, s, {"fut"}) /\ t.fut = IF s.fut = "pending" THEN state ELSE s.fut
<1> USE DEF Wake
<1>1. CASE s.fut = "pending"
  <2>1. Shape(Wake(s, state)) BY <1>1 DEF Shape
  <2>2. Same(Wake(s, state), s, {"fut"}) BY <1>1 DEF Shape, Same
  <2>3. Wake(s, state).fut = state BY <1>1 DEF Shape, Fields
  <2> HIDE DEF Wake
  <2> QED BY <1>1, <2>1, <2>2, <2>3
<1>2. CASE s.fut # "pending"
  BY <1>2 DEF Same
<1> QED BY <1>1, <1>2

\* Data in the stream: over the high-water mark the transport is paused.
LEMMA FeedFields ==
  ASSUME NEW s, Shape(s), NEW n
  PROVE  LET t == StreamFeed(s, n)
         IN  /\ Shape(t)
             /\ Same(t, s, {"fut", "buf", "size", "total", "rpaused", "ppaused", "tpaused", "timer"})
             /\ t.buf = Append(s.buf, n) /\ t.size = s.size + n /\ t.total = s.total + n
             /\ Woken(t, s) /\ Pausing(t, s)
             /\ s.size + n > 2 * s.low => t.rpaused /\ t.tpaused /\ t.ppaused
             /\ ~(s.size + n > 2 * s.low) =>
                  t.rpaused = s.rpaused /\ t.ppaused = s.ppaused /\ t.tpaused = s.tpaused
<1> DEFINE w == Wake(s, "set")
           v == [w EXCEPT !.buf = Append(@, n), !.size = @ + n, !.total = @ + n]
           t == StreamFeed(s, n)
<1>1. Shape(w) /\ Same(w, s, {"fut"}) /\ Woken(w, s)
  BY WakeFields DEF Woken
<1> HIDE DEF w
<1>2. Shape(v) BY <1>1 DEF Shape
<1>3. Same(v, w, {"buf", "size", "total"}) BY <1>1 DEF Shape, Same
<1>4. v.buf = Append(w.buf, n) /\ v.size = w.size + n /\ v.total = w.total + n
  BY <1>1 DEF Shape, Fields
<1>5. t = IF v.size > 2 * v.low THEN PauseReading(v) ELSE v
  BY DEF StreamFeed, PauseIfHigh, w
<1> HIDE DEF v, t
<1>6. w.buf = s.buf /\ w.size = s.size /\ w.total = s.total
  BY <1>1 DEF Same, Fields
<1>7. /\ Same(v, s, {"fut", "buf", "size", "total"}) /\ v.fut = w.fut /\ v.low = s.low
      /\ v.rpaused = s.rpaused /\ v.ppaused = s.ppaused /\ v.tpaused = s.tpaused /\ v.timer = s.timer
  BY <1>1, <1>3 DEF Same, Fields
<1>8. CASE s.size + n > 2 * s.low
  <2>1. t = PauseReading(v)
    BY <1>4, <1>5, <1>6, <1>7, <1>8
  <2>2. /\ Shape(t) /\ Same(t, v, {"rpaused", "ppaused", "tpaused", "timer"})
        /\ t.rpaused = TRUE /\ t.ppaused = TRUE /\ t.tpaused = TRUE /\ t.timer = FALSE
    BY <1>2, <2>1, PauseFields
  <2>3. t.buf = v.buf /\ t.size = v.size /\ t.total = v.total /\ t.fut = v.fut
    BY <2>2 DEF Same, Fields
  <2>4. Same(t, s, {"fut", "buf", "size", "total", "rpaused", "ppaused", "tpaused", "timer"})
    BY <1>7, <2>2 DEF Same
  <2>5. Woken(t, s) /\ Pausing(t, s)
    BY <1>1, <1>7, <2>2, <2>3 DEF Woken, Pausing
  <2> QED BY <1>4, <1>6, <1>8, <2>2, <2>3, <2>4, <2>5 DEF t
<1>9. CASE ~(s.size + n > 2 * s.low)
  <2>1. t = v
    BY <1>4, <1>5, <1>6, <1>7, <1>9
  <2>2. Same(t, s, {"fut", "buf", "size", "total", "rpaused", "ppaused", "tpaused", "timer"})
    BY <1>7, <2>1 DEF Same
  <2>3. Woken(t, s) /\ Pausing(t, s)
    BY <1>1, <1>7, <2>1 DEF Woken, Pausing
  <2> QED BY <1>2, <1>4, <1>6, <1>7, <1>9, <2>1, <2>2, <2>3 DEF t
<1> QED BY <1>8, <1>9

\* feed_eof() of the stream.
LEMMA EofFields ==
  ASSUME NEW s, Shape(s)
  PROVE  LET t == StreamFeedEof(s)
         IN  /\ Shape(t) /\ Same(t, s, {"fut", "eof", "rpaused", "tpaused", "timer", "pending"})
             /\ t.eof = TRUE /\ t.rpaused = FALSE /\ t.tpaused = FALSE /\ t.timer = FALSE
             /\ t.pending = FALSE /\ Woken(t, s)
<1> DEFINE w == Wake(s, "set")
           t == [w EXCEPT !.eof = TRUE, !.rpaused = FALSE, !.tpaused = FALSE, !.timer = FALSE, !.pending = FALSE]
<1>1. Shape(w) /\ Same(w, s, {"fut"}) /\ Woken(w, s)
  BY WakeFields DEF Woken
<1>2. StreamFeedEof(s) = t
  BY DEF StreamFeedEof
<1> HIDE DEF w
<1>3. Shape(t) BY <1>1 DEF Shape
<1>4. Same(t, w, {"eof", "rpaused", "tpaused", "timer", "pending"}) BY <1>1 DEF Shape, Same
<1>5. t.eof = TRUE /\ t.rpaused = FALSE /\ t.tpaused = FALSE BY <1>1 DEF Shape, Fields
<1>6. t.timer = FALSE /\ t.pending = FALSE BY <1>1 DEF Shape, Fields
<1> HIDE DEF t
<1>7. t.fut = w.fut /\ Same(t, s, {"fut", "eof", "rpaused", "tpaused", "timer", "pending"})
  BY <1>1, <1>4 DEF Same, Fields
<1> QED BY <1>1, <1>2, <1>3, <1>5, <1>6, <1>7 DEF Woken

\* A chunk end in the stream: over the limit on their number the transport is paused.
LEMMA EndFields ==
  ASSUME NEW s, Shape(s), s.splits \in Seq(Nat), s.total \in Nat
  PROVE  LET t == EndChunk(s)
         IN  /\ Shape(t) /\ Same(t, s, {"fut", "splits", "rpaused", "ppaused", "tpaused", "timer"})
             /\ \/ t.splits = s.splits
                \/ /\ t.splits = Append(s.splits, s.total)
                   /\ s.total # (IF s.splits = <<>> THEN 0 ELSE Last(s.splits))
             /\ (t.fut = s.fut \/ Woken(t, s)) /\ Pausing(t, s)
             /\ t.splits # s.splits /\ Len(t.splits) > HighChunks => t.rpaused /\ t.tpaused /\ t.ppaused
             /\ t.splits = s.splits \/ ~(Len(t.splits) > HighChunks) => t.rpaused = s.rpaused
<1> DEFINE v == [s EXCEPT !.splits = Append(@, s.total)]
           p == PauseIfMany(v)
           t == EndChunk(s)
<1>1. CASE s.total = (IF s.splits = <<>> THEN 0 ELSE Last(s.splits))
  <2>1. t = s
    BY <1>1 DEF EndChunk
  <2> HIDE DEF t
  <2> QED BY <2>1 DEF Same, Pausing, t
<1>2. CASE ~(s.total = (IF s.splits = <<>> THEN 0 ELSE Last(s.splits)))
  <2>1. t = Wake(p, "set")
    BY <1>2 DEF EndChunk
  <2>2. Shape(v) BY DEF Shape
  <2>3. Same(v, s, {"splits"}) BY DEF Shape, Same
  <2>4. v.splits = Append(s.splits, s.total) BY DEF Shape, Fields
  <2> HIDE DEF v
  <2>5. /\ Shape(p) /\ Same(p, v, {"rpaused", "ppaused", "tpaused", "timer"}) /\ Pausing(p, v)
        /\ Len(v.splits) > HighChunks => p.rpaused /\ p.tpaused /\ p.ppaused
        /\ ~(Len(v.splits) > HighChunks) => p.rpaused = v.rpaused
    <3>1. CASE Len(v.splits) > HighChunks
      <4>1. p = PauseReading(v)
        BY <3>1 DEF PauseIfMany
      <4> HIDE DEF p
      <4> QED BY <2>2, <3>1, <4>1, PauseFields DEF Pausing
    <3>2. CASE ~(Len(v.splits) > HighChunks)
      <4>1. p = v
        BY <3>2 DEF PauseIfMany
      <4> HIDE DEF p
      <4> QED BY <2>2, <3>2, <4>1 DEF Pausing, Same
    <3> QED BY <3>1, <3>2
  <2> HIDE DEF p
  <2>6. Shape(t) /\ Same(t, p, {"fut"}) /\ Woken(t, p)
    BY <2>1, <2>5, WakeFields DEF Woken
  <2> HIDE DEF t
  <2>7. /\ p.fut = s.fut /\ t.splits = v.splits
        /\ v.rpaused = s.rpaused /\ v.ppaused = s.ppaused /\ v.tpaused = s.tpaused /\ v.timer = s.timer
        /\ t.rpaused = p.rpaused /\ t.ppaused = p.ppaused /\ t.tpaused = p.tpaused /\ t.timer = p.timer
    BY <2>3, <2>5, <2>6 DEF Same, Fields
  <2>8. Same(t, s, {"fut", "splits", "rpaused", "ppaused", "tpaused", "timer"})
    BY <2>3, <2>5, <2>6 DEF Same
  <2>9. Pausing(t, s)
    BY <2>5, <2>7 DEF Pausing
  <2>10. Woken(t, s)
    BY <2>6, <2>7 DEF Woken
  <2>11. t.splits = s.splits \/ ~(Len(t.splits) > HighChunks) => t.rpaused = s.rpaused
    <3>1. t.splits # s.splits
      <4>1. Len(Append(s.splits, s.total)) = Len(s.splits) + 1 /\ Len(s.splits) \in Nat
        BY AppendProperties, LenProperties
      <4>2. Len(s.splits) + 1 # Len(s.splits)
        BY <4>1
      <4> QED BY <2>4, <2>7, <4>1, <4>2
    <3> QED BY <2>5, <2>7, <3>1
  <2> QED BY <1>2, <2>4, <2>5, <2>6, <2>7, <2>8, <2>9, <2>10, <2>11 DEF t
<1> QED BY <1>1, <1>2

(* ------------------------- inflating a block of it ----------------------- *)

Live(s) == s.conn = "open" /\ ~s.eof
High(s) == s.size > 2 * s.low \/ Len(s.splits) > HighChunks
\* The decompressor is given a limit, until the connection has ended.
Bounded(s) == Compressed /\ s.low < Unlimited /\ ~s.eofPending

Counted(s) ==
  /\ s.size = Bytes(s.buf) /\ s.total = s.cursor + s.size
  /\ s.parsed <= s.arrived /\ s.arrived <= Len(wire)
Pauses(s) == Live(s) /\ High(s) => s.rpaused /\ s.tpaused
Top(s) == Live(s) /\ Bounded(s) => s.size <= 2 * s.low + HigherOf(Limit, s.low)
Timed(s) == Live(s) /\ s.exc = "none" /\ ~s.tpaused => s.timer

\* Chunk ends come one after the other, and none is behind the reader or ahead of the stream.
Ordered(s) ==
  /\ \A i, j \in DOMAIN s.splits : i < j => s.splits[i] < s.splits[j]
  /\ \A i \in DOMAIN s.splits : s.cursor <= s.splits[i] /\ s.splits[i] <= s.total

\* A reader that still waits was given nothing, and a transport is paused over something.
Grown(t, u) ==
  /\ t.fut = "pending" => u.fut = "pending" /\ t.size = u.size /\ t.eof = u.eof
  /\ Ordered(u) => Ordered(t) /\ (t.rpaused => u.rpaused \/ t.size > 0)

ByParser ==
  {"tpaused", "rpaused", "timer", "ppaused", "pending", "parsed", "phase", "held", "more", "buf",
   "size", "total", "splits", "eof", "fut"}

\* t is u after some of the parser's work, whatever it is.
Core(t, u) ==
  /\ Typed(t) /\ Same(t, u, ByParser) /\ Counted(t) /\ Pauses(t) /\ Top(t)
  /\ t.rpaused => t.tpaused
  /\ t.tpaused => t.rpaused \/ u.tpaused
  /\ Timed(u) => Timed(t)
  /\ t.fut = "none" <=> u.fut = "none"
  /\ Len(u.buf) <= Len(t.buf)
  /\ Grown(t, u)

\* There is room for a block more, if there is one.
Spare(s) == Bounded(s) => s.size <= 2 * s.low \/ s.held = 0
\* Above the mark the parser knows that it is paused.
Room(s) == Bounded(s) => s.size <= 2 * s.low \/ s.ppaused \/ s.pending
MoreOK(s) == (s.held > 0 => s.more) /\ (s.more => Compressed)

\* A block of output is some of what is held, and bounded where the decompressor is given a limit.
LEMMA OutputFacts ==
  ASSUME Given, NEW s, s.held \in Nat, s.low \in Nat \ {0}
  PROVE  LET out == OutputBlock(s)
         IN  /\ out \in Nat /\ out <= s.held /\ (s.held > 0 => out > 0)
             /\ ~Compressed => out = s.held
             /\ Bounded(s) => out <= HigherOf(Limit, s.low)
<1>1. Limit \in Nat \ {0}
  BY DEF Given
<1>2. CASE ~Compressed \/ s.low >= Unlimited
  <2>1. OutputBlock(s) = s.held
    BY <1>2 DEF OutputBlock
  <2>2. ~Bounded(s)
    BY <1>2 DEF Bounded, Unlimited
  <2> QED BY <2>1, <2>2
<1>3. CASE ~(~Compressed \/ s.low >= Unlimited)
  <2>1. OutputBlock(s) = LowerOf(s.held, HigherOf(Limit, s.low))
    BY <1>3 DEF OutputBlock
  <2>2. HigherOf(Limit, s.low) \in Nat \ {0}
    BY <1>1 DEF HigherOf
  <2>3. /\ LowerOf(s.held, HigherOf(Limit, s.low)) \in Nat
        /\ LowerOf(s.held, HigherOf(Limit, s.low)) <= s.held
        /\ s.held > 0 => LowerOf(s.held, HigherOf(Limit, s.low)) > 0
        /\ LowerOf(s.held, HigherOf(Limit, s.low)) <= HigherOf(Limit, s.low)
    BY <2>2 DEF LowerOf
  <2> QED BY <1>3, <2>1, <2>3
<1> QED BY <1>2, <1>3

\* What a block of output does.
Inflating == {"held", "more", "fut", "buf", "size", "total", "rpaused", "ppaused", "tpaused", "timer"}

\* Inflating a block keeps Core, and what is inflated is no longer held.
LEMMA BlockFields ==
  ASSUME Given, NEW u, NEW s, Core(s, u), ~s.eof, Spare(s)
  PROVE  LET t == InflateBlock(s)
         IN  /\ Core(t, u) /\ Same(t, s, Inflating) /\ MoreOK(t)
             /\ t.total + t.held = s.total + s.held
             /\ s.held = 0 => /\ t.held = 0 /\ ~t.more /\ t.size = s.size
                              /\ t.ppaused = s.ppaused /\ t.rpaused = s.rpaused
             /\ s.held > 0 => /\ t.held < s.held /\ (t.size > 2 * t.low => t.ppaused)
                              /\ (mode.codec = "zlib" => t.more)
             /\ t.ppaused => s.ppaused \/ t.rpaused
             /\ s.rpaused => t.rpaused
<1> DEFINE o == OutputBlock(s)
           t == InflateBlock(s)
<1>0. /\ Typed(s) /\ Same(s, u, ByParser) /\ Counted(s) /\ Pauses(s) /\ Top(s)
      /\ s.rpaused => s.tpaused
      /\ s.tpaused => s.rpaused \/ u.tpaused
      /\ Timed(u) => Timed(s)
      /\ s.fut = "none" <=> u.fut = "none"
      /\ Len(u.buf) <= Len(s.buf)
      /\ Grown(s, u)
  BY DEF Core
<1>1. Shape(s) /\ TransportTyped(s) /\ ParserTyped(s) /\ StreamTyped(s)
  BY <1>0 DEF Typed
<1>2. /\ s.held \in Nat /\ s.low \in Nat \ {0} /\ s.size \in Nat /\ s.total \in Nat /\ s.cursor \in Nat
      /\ s.buf \in Seq(Nat \ {0}) /\ Len(s.buf) \in Nat
  BY <1>1, LenProperties DEF ParserTyped, StreamTyped
<1>3. /\ o \in Nat /\ o <= s.held /\ (s.held > 0 => o > 0) /\ (~Compressed => o = s.held)
      /\ Bounded(s) => o <= HigherOf(Limit, s.low)
  BY <1>2, OutputFacts
<1>4. t = Inflate(s, o)
  BY DEF InflateBlock
<1> HIDE DEF o, t
<1>5. CASE s.held = 0
  <2>1. o = 0
    BY <1>2, <1>3, <1>5
  <2>2. t = [s EXCEPT !.more = Compressed /\ s.held > 0]
    BY <1>4, <2>1 DEF Inflate
  <2>3. Shape(t) BY <1>1, <2>2 DEF Shape
  <2>4. Same(t, s, {"more"}) BY <1>1, <2>2 DEF Shape, Same
  <2>5. t.more = FALSE
    <3>1. (Compressed /\ s.held > 0) = FALSE
      BY <1>5
    <3>2. t = [s EXCEPT !.more = FALSE]
      BY <2>2, <3>1
    <3> QED BY <1>1, <3>2 DEF Shape, Fields
  <2>6. /\ t.held = s.held /\ t.size = s.size /\ t.total = s.total /\ t.buf = s.buf /\ t.fut = s.fut
        /\ t.ppaused = s.ppaused /\ t.rpaused = s.rpaused /\ t.tpaused = s.tpaused /\ t.timer = s.timer
        /\ t.conn = s.conn /\ t.eof = s.eof /\ t.exc = s.exc /\ t.low = s.low /\ t.cursor = s.cursor
        /\ t.parsed = s.parsed /\ t.arrived = s.arrived /\ t.splits = s.splits
    BY <2>4 DEF Same, Fields
  <2>7. t.phase = s.phase /\ t.pending = s.pending /\ t.eofPending = s.eofPending
    BY <2>4 DEF Same, Fields
  <2>8. Typed(t)
    <3>1. TransportTyped(t) BY <1>1, <2>6 DEF TransportTyped
    <3>2. ParserTyped(t) BY <1>1, <2>5, <2>6, <2>7 DEF ParserTyped
    <3>3. StreamTyped(t) BY <1>1, <2>6 DEF StreamTyped
    <3> QED BY <2>3, <3>1, <3>2, <3>3 DEF Typed
  <2>9. Counted(t) BY <1>0, <2>6 DEF Counted
  <2>10. Pauses(t) /\ Top(t) BY <1>0, <2>6, <2>7 DEF Pauses, Top, Live, High, Bounded
  <2>11. Timed(u) => Timed(t) BY <1>0, <2>6 DEF Timed, Live
  <2>12. Same(t, u, ByParser) BY <1>0, <2>4 DEF Same, ByParser
  <2>13. Core(t, u)
    <3>1. /\ t.rpaused => t.tpaused
          /\ t.tpaused => t.rpaused \/ u.tpaused
      BY <1>0, <2>6
    <3>2. (t.fut = "none" <=> u.fut = "none") /\ Len(u.buf) <= Len(t.buf)
      BY <1>0, <2>6
    <3>3. Grown(t, u)
      BY <1>0, <2>6 DEF Grown, Ordered
    <3> QED BY <2>8, <2>9, <2>10, <2>11, <2>12, <3>1, <3>2, <3>3 DEF Core
  <2>14. Same(t, s, Inflating) BY <2>4 DEF Same, Inflating
  <2>15. MoreOK(t) BY <1>5, <2>5, <2>6 DEF MoreOK
  <2> QED BY <1>5, <2>5, <2>6, <2>13, <2>14, <2>15 DEF t
<1>6. CASE s.held # 0
  <2> DEFINE more == Compressed /\ (s.held > o \/ mode.codec = "zlib")
             v == [s EXCEPT !.held = @ - o, !.more = more]
  <2>1. s.held > 0 /\ o > 0 /\ o # 0 /\ o \in Nat \ {0}
    BY <1>2, <1>3, <1>6
  <2>2. t = StreamFeed(v, o)
    BY <1>4, <2>1 DEF Inflate
  <2>3. Shape(v) BY <1>1 DEF Shape
  <2>4. Same(v, s, {"held", "more"}) BY <1>1 DEF Shape, Same
  <2>5. v.held = s.held - o /\ v.more = more BY <1>1 DEF Shape, Fields
  <2>6. more \in BOOLEAN /\ (~Compressed => ~more) /\ (Compressed /\ s.held > o => more)
        /\ (mode.codec = "zlib" => more)
    BY DEF Compressed
  <2> HIDE DEF v, more
  <2>7. /\ Shape(t)
        /\ Same(t, v, {"fut", "buf", "size", "total", "rpaused", "ppaused", "tpaused", "timer"})
        /\ t.buf = Append(v.buf, o) /\ t.size = v.size + o /\ t.total = v.total + o
        /\ Woken(t, v) /\ Pausing(t, v)
        /\ v.size + o > 2 * v.low => t.rpaused /\ t.tpaused /\ t.ppaused
        /\ ~(v.size + o > 2 * v.low) =>
             t.rpaused = v.rpaused /\ t.ppaused = v.ppaused /\ t.tpaused = v.tpaused
    BY <2>2, <2>3, FeedFields
  <2>8. /\ v.size = s.size /\ v.total = s.total /\ v.buf = s.buf /\ v.fut = s.fut /\ v.low = s.low
        /\ v.ppaused = s.ppaused /\ v.rpaused = s.rpaused /\ v.tpaused = s.tpaused /\ v.timer = s.timer
    BY <2>4 DEF Same, Fields
  <2>9. Same(t, s, Inflating)
    BY <2>4, <2>7 DEF Same, Inflating
  <2>10. /\ t.conn = s.conn /\ t.eof = s.eof /\ t.exc = s.exc /\ t.low = s.low /\ t.cursor = s.cursor
         /\ t.parsed = s.parsed /\ t.arrived = s.arrived /\ t.splits = s.splits
         /\ t.phase = s.phase /\ t.pending = s.pending /\ t.eofPending = s.eofPending
    BY <2>9 DEF Same, Fields, Inflating
  <2>11. t.held = s.held - o /\ t.more = more
    BY <2>5, <2>7 DEF Same, Fields
  <2>12. /\ t.size = s.size + o /\ t.total = s.total + o /\ t.buf = Append(s.buf, o)
         /\ t.held \in Nat /\ t.held < s.held /\ t.size \in Nat /\ t.total \in Nat
    <3>1. t.size = s.size + o /\ t.total = s.total + o /\ t.buf = Append(s.buf, o)
      BY <2>7, <2>8
    <3>2. t.held \in Nat /\ t.held < s.held
      BY <1>2, <1>3, <2>1, <2>11
    <3>3. t.size \in Nat /\ t.total \in Nat
      BY <1>2, <1>3, <3>1
    <3> QED BY <3>1, <3>2, <3>3
  <2>13. t.buf \in Seq(Nat \ {0}) /\ Len(t.buf) = Len(s.buf) + 1 /\ t.size = Bytes(t.buf)
    <3>1. t.buf \in Seq(Nat \ {0}) /\ Len(t.buf) = Len(s.buf) + 1
      BY <1>2, <2>1, <2>12, AppendProperties
    <3>2. s.buf \in Seq(Nat)
      <4>1. \A i \in 1..Len(s.buf) : s.buf[i] \in Nat
        BY <1>2, ElementOfSeq
      <4> QED BY <1>2, <4>1, SeqDef
    <3>3. Bytes(t.buf) = Bytes(s.buf) + o
      BY <1>3, <2>12, <3>2, BytesAppend
    <3> QED BY <1>0, <2>12, <3>1, <3>3 DEF Counted
  <2>14. /\ t.rpaused \in BOOLEAN /\ t.ppaused \in BOOLEAN /\ t.tpaused \in BOOLEAN /\ t.timer \in BOOLEAN
         /\ t.rpaused => t.tpaused
         /\ t.tpaused => t.rpaused \/ s.tpaused
         /\ t.ppaused => s.ppaused \/ t.rpaused
         /\ s.rpaused => t.rpaused
    <3>0. /\ Shape(t) /\ s.rpaused \in BOOLEAN /\ s.ppaused \in BOOLEAN
          /\ s.tpaused \in BOOLEAN /\ s.timer \in BOOLEAN
      BY <1>1, <2>7 DEF TransportTyped, ParserTyped
    <3>1. CASE ~(v.size + o > 2 * v.low)
      <4>1. t.rpaused = s.rpaused /\ t.ppaused = s.ppaused /\ t.tpaused = s.tpaused
        BY <2>7, <2>8, <3>1
      <4>2. t.timer \in BOOLEAN
        BY <2>7, <2>8, <3>0 DEF Pausing
      <4> QED BY <1>0, <3>0, <4>1, <4>2
    <3>2. CASE v.size + o > 2 * v.low
      <4>1. t.rpaused /\ t.ppaused /\ t.tpaused
        BY <2>7, <3>2
      <4>2. t.rpaused \in BOOLEAN /\ t.ppaused \in BOOLEAN /\ t.tpaused \in BOOLEAN /\ t.timer \in BOOLEAN
        BY <2>7, <2>8, <3>0 DEF Pausing
      <4> QED BY <4>1, <4>2
    <3> QED BY <3>1, <3>2
  <2>15. t.fut \in {"none", "pending", "set", "exc"} /\ (t.fut = "none" <=> s.fut = "none")
    BY <1>1, <2>7, <2>8 DEF Woken, TransportTyped
  <2>16. Typed(t)
    <3>1. TransportTyped(t) BY <1>1, <2>10, <2>14, <2>15 DEF TransportTyped
    <3>2. ParserTyped(t) BY <1>1, <2>6, <2>10, <2>11, <2>12, <2>14 DEF ParserTyped
    <3>3. StreamTyped(t) BY <1>1, <2>10, <2>12, <2>13 DEF StreamTyped
    <3> QED BY <2>7, <3>1, <3>2, <3>3 DEF Typed
  <2>17. Counted(t)
    <3>1. t.total = t.cursor + t.size
      BY <1>0, <1>2, <1>3, <2>10, <2>12 DEF Counted
    <3> QED BY <1>0, <2>10, <2>13, <3>1 DEF Counted
  <2>18. t.size > 2 * t.low => t.rpaused /\ t.tpaused /\ t.ppaused
    BY <2>7, <2>8, <2>10, <2>12
  <2>19. Pauses(t)
    <3>1. CASE t.size > 2 * t.low
      BY <2>18, <3>1 DEF Pauses
    <3>2. CASE ~(t.size > 2 * t.low) /\ Len(t.splits) > HighChunks /\ Live(t)
      <4>1. s.rpaused
        BY <1>0, <2>10, <3>2 DEF Pauses, Live, High
      <4> QED BY <2>14, <4>1 DEF Pauses
    <3> QED BY <3>1, <3>2 DEF Pauses, High
  <2>20. Top(t)
    <3> SUFFICES ASSUME Live(t), Bounded(t) PROVE t.size <= 2 * t.low + HigherOf(Limit, t.low)
      BY DEF Top
    <3>1. Bounded(s) BY <2>10 DEF Bounded
    <3>2. s.size <= 2 * s.low BY <1>6, <3>1 DEF Spare
    <3>3. o <= HigherOf(Limit, s.low) BY <1>3, <3>1
    <3>4. HigherOf(Limit, s.low) \in Nat
      BY <1>2 DEF Given, HigherOf
    <3>5. s.size + o <= 2 * s.low + HigherOf(Limit, s.low)
      BY <1>2, <1>3, <3>2, <3>3, <3>4
    <3> QED BY <2>10, <2>12, <3>5
  <2>21. Timed(u) => Timed(t)
    <3> SUFFICES ASSUME Timed(u), Live(t), t.exc = "none", ~t.tpaused PROVE t.timer
      BY DEF Timed
    <3>1. t.timer = s.timer /\ t.tpaused = s.tpaused
      BY <2>7, <2>8 DEF Pausing
    <3> QED BY <1>0, <2>10, <3>1 DEF Timed, Live
  <2>22. Same(t, u, ByParser)
    BY <1>0, <2>9 DEF Same, ByParser, Inflating
  <2>23. Core(t, u)
    <3>1. t.tpaused => t.rpaused \/ u.tpaused
      BY <1>0, <2>14
    <3>2. (t.fut = "none" <=> u.fut = "none")
      BY <1>0, <2>15
    <3>3. Len(u.buf) <= Len(t.buf)
      BY <1>0, <1>2, <2>13
    <3>4. Grown(t, u)
      <4>1. t.fut # "pending"
        BY <2>7 DEF Woken
      <4>2. t.size > 0 /\ t.total >= s.total
        BY <1>2, <2>1, <2>12
      <4>3. Ordered(s) => Ordered(t)
        <5> SUFFICES ASSUME Ordered(s) PROVE Ordered(t)
          OBVIOUS
        <5>1. \A i \in DOMAIN s.splits : s.splits[i] \in Nat
          BY <1>1, ElementOfSeq DEF StreamTyped
        <5>2. ASSUME NEW i \in DOMAIN s.splits PROVE s.splits[i] <= t.total
          BY <1>2, <2>12, <4>2, <5>1 DEF Ordered
        <5> QED BY <2>10, <5>2 DEF Ordered
      <4> QED BY <1>0, <4>1, <4>2, <4>3 DEF Grown
    <3> QED BY <2>14, <2>16, <2>17, <2>19, <2>20, <2>21, <2>22, <3>1, <3>2, <3>3, <3>4 DEF Core
  <2>24. MoreOK(t)
    <3>1. t.held > 0 => t.more
      <4>1. CASE Compressed
        BY <1>2, <1>3, <2>6, <2>11, <4>1
      <4>2. CASE ~Compressed
        BY <1>2, <1>3, <2>11, <4>2
      <4> QED BY <4>1, <4>2
    <3>2. t.more => Compressed
      BY <2>6, <2>11
    <3> QED BY <3>1, <3>2 DEF MoreOK
  <2>25. t.total + t.held = s.total + s.held
    <3>1. t.total = s.total + o /\ t.held = s.held - o
      BY <2>11, <2>12
    <3> QED BY <1>2, <1>3, <3>1
  <2>26. /\ t.held < s.held /\ (t.size > 2 * t.low => t.ppaused)
         /\ mode.codec = "zlib" => t.more
    BY <2>6, <2>11, <2>12, <2>18
  <2> QED BY <1>6, <2>9, <2>14, <2>23, <2>24, <2>25, <2>26 DEF t
<1> QED BY <1>5, <1>6

\* What only the parser looks at can be anything.
ParserOwn == {"parsed", "phase", "held", "more", "ppaused", "pending"}

\* The parser's own steps keep Core.
LEMMA TouchCore ==
  ASSUME NEW u, NEW s, NEW t, Core(s, u), Shape(t), Same(t, s, ParserOwn), ParserTyped(t), t.parsed <= t.arrived
  PROVE  Core(t, u)
<1>0. /\ Typed(s) /\ Same(s, u, ByParser) /\ Counted(s) /\ Pauses(s) /\ Top(s)
      /\ s.rpaused => s.tpaused
      /\ s.tpaused => s.rpaused \/ u.tpaused
      /\ Timed(u) => Timed(s)
      /\ s.fut = "none" <=> u.fut = "none"
      /\ Len(u.buf) <= Len(s.buf)
      /\ Grown(s, u)
  BY DEF Core
<1>1. /\ t.size = s.size /\ t.total = s.total /\ t.buf = s.buf /\ t.fut = s.fut
      /\ t.rpaused = s.rpaused /\ t.tpaused = s.tpaused /\ t.timer = s.timer
      /\ t.conn = s.conn /\ t.eof = s.eof /\ t.exc = s.exc /\ t.low = s.low /\ t.cursor = s.cursor
      /\ t.arrived = s.arrived /\ t.splits = s.splits /\ t.eofPending = s.eofPending
  BY DEF Same, Fields, ParserOwn
<1>2. Typed(t)
  <2>1. TransportTyped(t) BY <1>0, <1>1 DEF Typed, TransportTyped
  <2>2. StreamTyped(t) BY <1>0, <1>1 DEF Typed, StreamTyped
  <2> QED BY <2>1, <2>2 DEF Typed
<1>3. Counted(t) BY <1>0, <1>1 DEF Counted
<1>4. Pauses(t) /\ Top(t) BY <1>0, <1>1 DEF Pauses, Top, Live, High, Bounded
<1>5. Timed(u) => Timed(t) BY <1>0, <1>1 DEF Timed, Live
<1>6. Same(t, u, ByParser) BY <1>0 DEF Same, ByParser, ParserOwn
<1>7. Grown(t, u) BY <1>0, <1>1 DEF Grown, Ordered
<1> QED BY <1>0, <1>1, <1>2, <1>3, <1>4, <1>5, <1>6, <1>7 DEF Core

\* Nothing is added to what is held.
LEMMA NoNewData ==
  ASSUME Given, NEW s, Shape(s), s.held \in Nat
  PROVE  PayloadFeed(s, 0) = InflateBlock(s)
<1>1. s.held + Inflated(0) = s.held
  BY InflatedFacts
<1>2. [s EXCEPT !.held = @ + Inflated(0)] = [s EXCEPT !.held = s.held]
  BY <1>1
<1>3. [s EXCEPT !.held = s.held] = s
  BY DEF Shape, Fields
<1> QED BY <1>2, <1>3 DEF PayloadFeed

\* Stopping at a pause.
LEMMA StopFields ==
  ASSUME NEW s, Shape(s)
  PROVE  LET t == Stop(s)
         IN  Shape(t) /\ Same(t, s, {"ppaused", "pending"}) /\ t.ppaused = FALSE /\ t.pending = TRUE
<1> USE DEF Stop
<1>1. Shape(Stop(s)) BY DEF Shape
<1>2. Same(Stop(s), s, {"ppaused", "pending"}) BY DEF Shape, Same
<1>3. Stop(s).ppaused = FALSE /\ Stop(s).pending = TRUE BY DEF Shape, Fields
<1> HIDE DEF Stop
<1> QED BY <1>1, <1>2, <1>3

(* -------------------------- inflating all of it -------------------------- *)

Drains == Inflating \cup {"pending"}
DrainIdle(t) == ~t.more \/ t.pending

\* t is s after some turns of the loop.
Draining(t, s, u) ==
  /\ Core(t, u) /\ Same(t, s, Drains) /\ MoreOK(t) /\ t.total + t.held = s.total + s.held
  /\ t.held <= s.held
  /\ ~s.more => t = s
  /\ s.more => Room(t)
  /\ t.ppaused => s.ppaused \/ t.rpaused
  /\ s.rpaused => t.rpaused
  /\ t.pending => s.pending \/ ~t.ppaused
  /\ t.pending => s.pending \/ s.ppaused \/ t.rpaused
  /\ mode.codec = "zlib" /\ ~s.pending /\ (s.ppaused => s.more) => (t.ppaused => t.more)

\* A turn of the drain loop inflates something, or the loop is at rest.
LEMMA OneDrainTurn ==
  ASSUME Given, NEW u, NEW s, NEW t, Core(s, u), ~s.eof, Draining(t, s, u)
  PROVE  LET w == DrainTurn(t)
         IN  /\ Draining(w, s, u)
             /\ DrainIdle(t) => w = t
             /\ ~DrainIdle(t) => DrainIdle(w) \/ w.held < t.held
<1> DEFINE w == DrainTurn(t)
<1>0. /\ Core(t, u) /\ Same(t, s, Drains) /\ MoreOK(t) /\ t.total + t.held = s.total + s.held
      /\ t.held <= s.held
      /\ ~s.more => t = s
      /\ s.more => Room(t)
      /\ t.ppaused => s.ppaused \/ t.rpaused
      /\ s.rpaused => t.rpaused
      /\ t.pending => s.pending \/ ~t.ppaused
      /\ t.pending => s.pending \/ s.ppaused \/ t.rpaused
      /\ mode.codec = "zlib" /\ ~s.pending /\ (s.ppaused => s.more) => (t.ppaused => t.more)
  BY DEF Draining
<1>1. /\ Typed(t) /\ Shape(t) /\ t.held \in Nat /\ ParserTyped(t) /\ Counted(t)
      /\ t.rpaused \in BOOLEAN /\ s.held \in Nat
  BY <1>0 DEF Core, Typed, ParserTyped, TransportTyped
<1>2. t.eof = s.eof
  BY <1>0 DEF Same, Fields, Drains, Inflating
<1>3. CASE DrainIdle(t)
  <2>1. w = t
    BY <1>3 DEF DrainTurn, DrainIdle
  <2> HIDE DEF w
  <2> QED BY <1>3, <2>1 DEF w
<1>4. CASE ~DrainIdle(t) /\ t.ppaused
  <2>1. w = Stop(t)
    BY <1>4 DEF DrainTurn, DrainIdle
  <2> HIDE DEF w
  <2>2. /\ Shape(w) /\ Same(w, t, {"ppaused", "pending"}) /\ w.ppaused = FALSE /\ w.pending = TRUE
    BY <1>1, <2>1, StopFields
  <2>3. /\ w.held = t.held /\ w.more = t.more /\ w.rpaused = t.rpaused /\ w.total = t.total
        /\ w.parsed = t.parsed /\ w.arrived = t.arrived /\ w.eofPending = t.eofPending /\ w.phase = t.phase
    BY <2>2 DEF Same, Fields
  <2>4. ParserTyped(w)
    BY <1>1, <2>2, <2>3 DEF ParserTyped
  <2>5. Same(w, t, ParserOwn)
    BY <2>2 DEF Same, ParserOwn
  <2>6. Core(w, u)
    <3>1. w.parsed <= w.arrived
      BY <1>1, <2>3 DEF Counted
    <3> QED BY <1>0, <2>2, <2>4, <2>5, <3>1, TouchCore
  <2>7. Same(w, s, Drains)
    BY <1>0, <2>2 DEF Same, Drains, Inflating
  <2>8. Room(w) /\ MoreOK(w)
    BY <1>0, <2>2, <2>3 DEF Room, MoreOK
  <2>9. s.more
    BY <1>0, <1>4 DEF DrainIdle
  <2>10. Draining(w, s, u)
    BY <1>0, <1>4, <2>2, <2>3, <2>6, <2>7, <2>8, <2>9 DEF Draining
  <2>11. DrainIdle(w)
    BY <2>2 DEF DrainIdle
  <2> QED BY <1>4, <2>10, <2>11 DEF w
<1>5. CASE ~DrainIdle(t) /\ ~t.ppaused
  <2>1. w = InflateBlock(t)
    BY <1>1, <1>5, NoNewData DEF DrainTurn, DrainIdle
  <2>2. s.more /\ t.more /\ ~t.pending
    BY <1>0, <1>5 DEF DrainIdle
  <2>3. Spare(t)
    BY <1>0, <1>5, <2>2 DEF Room, Spare
  <2> HIDE DEF w
  <2>4. /\ Core(w, u) /\ Same(w, t, Inflating) /\ MoreOK(w)
        /\ w.total + w.held = t.total + t.held
        /\ t.held = 0 => /\ w.held = 0 /\ ~w.more /\ w.size = t.size
                         /\ w.ppaused = t.ppaused /\ w.rpaused = t.rpaused
        /\ t.held > 0 => /\ w.held < t.held /\ (w.size > 2 * w.low => w.ppaused)
                         /\ (mode.codec = "zlib" => w.more)
        /\ w.ppaused => t.ppaused \/ w.rpaused
        /\ t.rpaused => w.rpaused
    BY <1>0, <1>2, <2>1, <2>3, BlockFields
  <2>5. w.pending = t.pending /\ w.low = t.low /\ w.eofPending = t.eofPending
    BY <2>4 DEF Same, Fields, Inflating
  <2>6. Same(w, s, Drains)
    BY <1>0, <2>4 DEF Same, Drains, Inflating
  <2>7. t.held = 0 \/ t.held > 0
    BY <1>1
  <2>8. Room(w)
    <3>1. CASE t.held = 0
      BY <1>0, <2>2, <2>4, <2>5, <3>1 DEF Room, Bounded
    <3>2. CASE t.held > 0
      <4>0. w.size \in Nat /\ w.low \in Nat
        BY <2>4 DEF Core, Typed, StreamTyped
      <4>1. w.size > 2 * w.low => w.ppaused
        BY <2>4, <3>2
      <4>2. w.size > 2 * w.low \/ w.size <= 2 * w.low
        BY <4>0
      <4> QED BY <4>1, <4>2 DEF Room
    <3> QED BY <2>7, <3>1, <3>2
  <2>9. (w.ppaused => s.ppaused \/ w.rpaused) /\ w.held <= s.held
    <3>1. w.held \in Nat
      BY <2>4 DEF Core, Typed, ParserTyped
    <3>2. w.held <= t.held
      BY <1>1, <2>4, <2>7, <3>1
    <3>3. w.held <= s.held
      BY <1>0, <1>1, <3>1, <3>2
    <3> QED BY <1>0, <2>4, <3>3
  <2>10. mode.codec = "zlib" => (w.ppaused => w.more)
    BY <1>5, <2>4, <2>7
  <2>11. Draining(w, s, u)
    BY <1>0, <2>2, <2>4, <2>5, <2>6, <2>8, <2>9, <2>10 DEF Draining
  <2>12. DrainIdle(w) \/ w.held < t.held
    BY <2>4, <2>7 DEF DrainIdle
  <2> QED BY <1>5, <2>11, <2>12 DEF w
<1> QED BY <1>3, <1>4, <1>5

(* --------------------------------- loops -------------------------------- *)

\* g is what s becomes with every turn.
Repeats(g, s, T, N, D) == g \in [0..N -> D] /\ g[0] = s /\ \A n \in 1..N : g[n] = T[g[n - 1]]

\* Such a function exists.
LEMMA Repeated ==
  ASSUME NEW N \in Nat, NEW D, NEW T \in [D -> D], NEW s \in D
  PROVE  \E g : Repeats(g, s, T, N, D)
<1> DEFINE F == [i \in 1..N |-> T]
<1>1. Steps(F, N, D)
  BY DEF Steps
<1>2. \A i \in 1..N : F[i] = T
  OBVIOUS
<1> HIDE DEF F
<1>3. PICK g : Follows(g, s, F, N, D)
  BY <1>1, BoundedRecursion
<1>4. g \in [0..N -> D] /\ g[0] = s /\ \A n \in 1..N : g[n] = F[n][g[n - 1]]
  BY <1>3 DEF Follows
<1> QED BY <1>2, <1>4 DEF Repeats

\* Drain repeats its turn.
LEMMA DrainIs ==
  ASSUME NEW s, s.held \in Nat, NEW D, s \in D, \A t \in D : DrainTurn(t) \in D
  PROVE  \E f : /\ f[0] = s /\ \A n \in 0..s.held + 2 : f[n] \in D
               /\ \A n \in 1..s.held + 2 : f[n] = DrainTurn(f[n - 1])
               /\ Drain(s) = f[s.held + 2]
<1> DEFINE N == s.held + 2
           T == [t \in D |-> DrainTurn(t)]
           Eq(g) == g = [n \in 0..N |-> IF n = 0 THEN s ELSE DrainTurn(g[n - 1])]
           after == CHOOSE g : Eq(g)
<1>0. N \in Nat
  OBVIOUS
<1>1. Drain(s) = after[N]
  BY DEF Drain
<1> HIDE DEF N
<1>2. \A t \in D : T[t] = DrainTurn(t)
  OBVIOUS
<1>3. T \in [D -> D]
  OBVIOUS
<1> HIDE DEF T
<1>4. PICK g : Repeats(g, s, T, N, D)
  BY <1>0, <1>3, Repeated
<1>5. g \in [0..N -> D] /\ g[0] = s /\ \A n \in 1..N : g[n] = T[g[n - 1]]
  BY <1>4 DEF Repeats
<1>6. Eq(g)
  <2>1. ASSUME NEW n \in 0..N PROVE g[n] = IF n = 0 THEN s ELSE DrainTurn(g[n - 1])
    <3>1. CASE n = 0
      BY <1>5, <3>1
    <3>2. CASE n # 0
      <4>1. n \in 1..N /\ n - 1 \in 0..N
        BY <1>0, <3>2
      <4>2. g[n - 1] \in D /\ g[n] = T[g[n - 1]]
        BY <1>5, <4>1
      <4> QED BY <1>2, <3>2, <4>2
    <3> QED BY <3>1, <3>2
  <2>2. g = [n \in 0..N |-> g[n]]
    BY <1>5
  <2> QED BY <2>1, <2>2
<1>7. Eq(after)
  <2> HIDE DEF Eq
  <2> QED BY <1>6
<1> HIDE DEF after
<1>8. after[0] = s /\ \A n \in 1..N : after[n] = DrainTurn(after[n - 1])
  <2>1. \A n \in 1..N : n \in 0..N /\ n # 0
    BY <1>0
  <2>2. 0 \in 0..N
    BY <1>0
  <2> QED BY <1>7, <2>1, <2>2
<1> HIDE DEF Eq
<1> DEFINE S == {n \in Nat : after[n] \in D}
<1>9. 0 \in S
  BY <1>8
<1>10. ASSUME NEW n \in 0..N, n # N, n \in S PROVE n + 1 \in S
  <2>1. n + 1 \in 1..N /\ (n + 1) - 1 = n /\ n + 1 \in Nat
    BY <1>0, <1>10
  <2>2. after[n] \in D /\ after[n + 1] = DrainTurn(after[n])
    BY <1>8, <1>10, <2>1
  <2> QED BY <2>1, <2>2
<1> HIDE DEF S
<1>11. 0..N \subseteq S
  BY <1>0, <1>9, <1>10, BoundedInduction
<1>12. \A n \in 0..N : after[n] \in D
  BY <1>11 DEF S
<1> QED BY <1>1, <1>8, <1>12 DEF N

\* The loop ends.
LEMMA DrainRests ==
  ASSUME Given, NEW u, NEW s, Core(s, u), ~s.eof, MoreOK(s), ~s.more \/ Room(s)
  PROVE  Draining(Drain(s), s, u) /\ DrainIdle(Drain(s))
<1> DEFINE N == s.held + 2
           D == {t \in Records : Draining(t, s, u)}
<1>0. s.held \in Nat /\ s.rpaused \in BOOLEAN
  BY DEF Core, Typed, ParserTyped, TransportTyped
<1>1. N \in Nat /\ N >= s.held + 1
  BY <1>0
<1>2. Draining(s, s, u)
  BY <1>0 DEF Draining, Same
<1>3. \A t : Draining(t, s, u) => t \in D
  <2> SUFFICES ASSUME NEW t, Draining(t, s, u) PROVE t \in Records
    OBVIOUS
  <2>1. Typed(t)
    BY DEF Draining, Core
  <2> QED BY <2>1, TypedIsRecord
<1>4. \A t \in D : Draining(t, s, u)
  OBVIOUS
<1> HIDE DEF D
<1>5. \A t \in D : DrainTurn(t) \in D
  BY <1>3, <1>4, OneDrainTurn
<1>6. s \in D
  BY <1>2, <1>3
<1>7. PICK f : /\ f[0] = s /\ \A n \in 0..N : f[n] \in D
               /\ \A n \in 1..N : f[n] = DrainTurn(f[n - 1])
               /\ Drain(s) = f[N]
  BY <1>0, <1>5, <1>6, DrainIs
<1> DEFINE S == {n \in Nat : n <= N => DrainIdle(f[n]) \/ f[n].held + n <= s.held}
<1>8. 0 \in S
  BY <1>0, <1>7
<1>9. ASSUME NEW n \in 0..N, n # N, n \in S PROVE n + 1 \in S
  <2> DEFINE t == f[n]
             w == f[n + 1]
  <2>1. n + 1 \in 1..N /\ (n + 1) - 1 = n /\ n + 1 \in Nat /\ n + 1 \in 0..N /\ n \in Nat /\ n <= N
    BY <1>1, <1>9
  <2>2. w = DrainTurn(t) /\ t \in D /\ w \in D
    BY <1>7, <1>9, <2>1
  <2>3. DrainIdle(t) \/ t.held + n <= s.held
    BY <1>9, <2>1
  <2> HIDE DEF t, w
  <2>4. Draining(t, s, u) /\ Draining(w, s, u)
    BY <1>4, <2>2
  <2>5. (DrainIdle(t) => w = t) /\ (~DrainIdle(t) => DrainIdle(w) \/ w.held < t.held)
    BY <2>2, <2>4, OneDrainTurn
  <2>6. t.held \in Nat /\ w.held \in Nat
    BY <2>4 DEF Draining, Core, Typed, ParserTyped
  <2>7. DrainIdle(w) \/ w.held + (n + 1) <= s.held
    <3>1. CASE DrainIdle(t)
      BY <2>5, <3>1
    <3>2. CASE ~DrainIdle(t) /\ ~DrainIdle(w)
      <4>1. w.held < t.held /\ t.held + n <= s.held
        BY <2>3, <2>5, <3>2
      <4> QED BY <1>0, <2>1, <2>6, <4>1
    <3> QED BY <3>1, <3>2
  <2> QED BY <2>1, <2>7 DEF w
<1> HIDE DEF S
<1>10. 0..N \subseteq S
  BY <1>1, <1>8, <1>9, BoundedInduction
<1>11. N \in S /\ N \in 0..N
  BY <1>1, <1>10
<1>12. Draining(f[N], s, u)
  BY <1>4, <1>7, <1>11
<1>13. f[N].held \in Nat
  BY <1>12 DEF Draining, Core, Typed, ParserTyped
<1>14. DrainIdle(f[N])
  <2>1. DrainIdle(f[N]) \/ f[N].held + N <= s.held
    BY <1>1, <1>11 DEF S
  <2> HIDE DEF N
  <2>2. ~(f[N].held + N <= s.held)
    BY <1>0, <1>1, <1>13
  <2> QED BY <2>1, <2>2
<1> QED BY <1>7, <1>12, <1>14

(* --------------------- a piece of the body in the stream ----------------- *)

Piece(s, n) == Drain(PayloadFeed(Consume(s, n), n))
Roomy(s) == Bounded(s) => s.size <= 2 * s.low
PieceChanges == Drains \cup {"parsed"}

\* What a piece of n bytes leaves.
PieceDone(t, s, n) ==
  /\ Same(t, s, PieceChanges) /\ t.parsed = s.parsed + n
  /\ MoreOK(t) /\ DrainIdle(t) /\ t.total + t.held = s.total + s.held + Inflated(n)
  /\ Roomy(s) => Room(t)
  /\ n = 0 /\ s.held = 0 => /\ t.held = 0 /\ ~t.more /\ ~t.pending
                            /\ t.size = s.size /\ t.ppaused = s.ppaused
  /\ n > 0 \/ s.held > 0 => t.size > 0
  /\ t.ppaused => s.ppaused \/ t.rpaused
  /\ s.rpaused => t.rpaused
  /\ t.pending => ~t.ppaused
  /\ t.pending => s.ppaused \/ t.rpaused
  /\ mode.codec = "zlib" /\ ~s.ppaused => ~t.ppaused

\* A piece of the body that the parser feeds is in the stream, or the parser has stopped.
LEMMA PieceFields ==
  ASSUME Given, NEW u, NEW s, Core(s, u), ~s.eof, ~s.pending, NEW n \in Nat, s.parsed + n <= s.arrived,
         Roomy(s) \/ (n = 0 /\ s.held = 0)
  PROVE  Core(Piece(s, n), u) /\ PieceDone(Piece(s, n), s, n)
<1> DEFINE w == Consume(s, n)
           v == [w EXCEPT !.held = @ + Inflated(n)]
           b == InflateBlock(v)
           t == Drain(b)
<1>0. /\ Typed(s) /\ Shape(s) /\ ParserTyped(s) /\ Counted(s) /\ s.held \in Nat /\ s.parsed \in Nat
      /\ s.size \in Nat /\ s.low \in Nat /\ s.total \in Nat
  BY DEF Core, Typed, ParserTyped, StreamTyped
<1>1. Inflated(n) \in Nat /\ Inflated(0) = 0
  BY InflatedFacts
<1>2. Piece(s, n) = t
  BY DEF Piece, PayloadFeed
<1>3. Shape(w) BY <1>0 DEF Shape, Consume
<1>4. Same(w, s, {"parsed"}) BY <1>0 DEF Shape, Same, Consume
<1>5. w.parsed = s.parsed + n BY <1>0 DEF Shape, Fields, Consume
<1> HIDE DEF w
<1>6. Shape(v) BY <1>3 DEF Shape
<1>7. Same(v, w, {"held"}) BY <1>3 DEF Shape, Same
<1>8. v.held = w.held + Inflated(n) BY <1>3 DEF Shape, Fields
<1> HIDE DEF v
<1>9. Same(v, s, {"parsed", "held"}) /\ v.parsed = s.parsed + n /\ v.held = s.held + Inflated(n)
  BY <1>4, <1>5, <1>7, <1>8 DEF Same, Fields
<1>10. /\ v.eof = s.eof /\ v.pending = s.pending /\ v.ppaused = s.ppaused /\ v.rpaused = s.rpaused
       /\ v.size = s.size /\ v.low = s.low /\ v.total = s.total /\ v.arrived = s.arrived
       /\ v.eofPending = s.eofPending /\ v.phase = s.phase /\ v.more = s.more
  BY <1>9 DEF Same, Fields
<1>11. v.held \in Nat /\ v.parsed \in Nat /\ v.parsed <= v.arrived
  BY <1>0, <1>1, <1>9, <1>10
<1>12. Core(v, u)
  <2>1. ParserTyped(v)
    BY <1>0, <1>10, <1>11 DEF ParserTyped
  <2>2. Same(v, s, ParserOwn)
    BY <1>9 DEF Same, ParserOwn
  <2> QED BY <1>6, <1>11, <2>1, <2>2, TouchCore
<1>13. n = 0 /\ s.held = 0 => v.held = 0
  BY <1>1, <1>9
<1>14. Spare(v)
  BY <1>10, <1>13 DEF Spare, Roomy, Bounded
<1> HIDE DEF b
<1>15. /\ Core(b, u) /\ Same(b, v, Inflating) /\ MoreOK(b) /\ b.total + b.held = v.total + v.held
       /\ v.held = 0 => /\ b.held = 0 /\ ~b.more /\ b.size = v.size
                        /\ b.ppaused = v.ppaused /\ b.rpaused = v.rpaused
       /\ v.held > 0 => /\ b.held < v.held /\ (b.size > 2 * b.low => b.ppaused)
                        /\ (mode.codec = "zlib" => b.more)
       /\ b.ppaused => v.ppaused \/ b.rpaused
       /\ v.rpaused => b.rpaused
  BY <1>10, <1>12, <1>14, BlockFields DEF b
<1>16. /\ b.eof = v.eof /\ b.pending = v.pending /\ b.low = v.low /\ b.parsed = v.parsed
       /\ b.eofPending = v.eofPending
  BY <1>15 DEF Same, Fields, Inflating
<1>17. v.held = 0 \/ v.held > 0
  BY <1>11
<1>18. b.size \in Nat /\ b.low \in Nat
  BY <1>15 DEF Core, Typed, StreamTyped
<1>19. v.held > 0 => Room(b)
  <2>1. b.size > 2 * b.low \/ b.size <= 2 * b.low
    BY <1>18
  <2> QED BY <1>15, <2>1 DEF Room
<1> HIDE DEF t
<1>20. Draining(t, b, u) /\ DrainIdle(t)
  BY <1>10, <1>15, <1>16, <1>17, <1>19, DrainRests DEF t
<1>21. /\ Core(t, u) /\ Same(t, b, Drains) /\ MoreOK(t) /\ t.total + t.held = b.total + b.held
       /\ t.held <= b.held
       /\ ~b.more => t = b
       /\ b.more => Room(t)
       /\ t.ppaused => b.ppaused \/ t.rpaused
       /\ b.rpaused => t.rpaused
       /\ t.pending => b.pending \/ ~t.ppaused
       /\ t.pending => b.pending \/ b.ppaused \/ t.rpaused
       /\ mode.codec = "zlib" /\ ~b.pending /\ (b.ppaused => b.more) => (t.ppaused => t.more)
  BY <1>20 DEF Draining
<1>22. t.parsed = s.parsed + n /\ t.low = b.low /\ t.eofPending = b.eofPending
  BY <1>9, <1>16, <1>21 DEF Same, Fields, Drains, Inflating
<1>23. Same(t, s, PieceChanges)
  BY <1>9, <1>15, <1>21 DEF Same, Drains, Inflating, PieceChanges
<1>24. t.total + t.held = s.total + s.held + Inflated(n)
  BY <1>0, <1>1, <1>9, <1>10, <1>15, <1>21
<1>25. Roomy(s) => Room(t)
  <2>1. CASE b.more
    BY <1>21, <2>1
  <2>2. CASE ~b.more /\ v.held > 0
    BY <1>19, <1>21, <2>2
  <2>3. CASE ~b.more /\ v.held = 0
    BY <1>10, <1>15, <1>16, <1>21, <1>22, <2>3 DEF Roomy, Room, Bounded
  <2> QED BY <1>17, <2>1, <2>2, <2>3
<1>26. n = 0 /\ s.held = 0 => /\ t.held = 0 /\ ~t.more /\ ~t.pending
                              /\ t.size = s.size /\ t.ppaused = s.ppaused
  <2> SUFFICES ASSUME n = 0, s.held = 0
      PROVE  /\ t.held = 0 /\ ~t.more /\ ~t.pending /\ t.size = s.size /\ t.ppaused = s.ppaused
    OBVIOUS
  <2>1. v.held = 0
    BY <1>13
  <2>2. t = b
    BY <1>15, <1>21, <2>1
  <2> QED BY <1>10, <1>15, <1>16, <2>1, <2>2
<1>27. /\ t.ppaused => s.ppaused \/ t.rpaused
       /\ s.rpaused => t.rpaused
       /\ t.pending => ~t.ppaused
       /\ t.pending => s.ppaused \/ t.rpaused
  BY <1>10, <1>15, <1>16, <1>21
<1>28. mode.codec = "zlib" /\ ~s.ppaused => ~t.ppaused
  <2> SUFFICES ASSUME mode.codec = "zlib", ~s.ppaused, t.ppaused PROVE FALSE
    OBVIOUS
  <2>1. b.ppaused => b.more
    BY <1>10, <1>15, <1>17
  <2>2. t.more
    BY <1>10, <1>16, <1>21, <2>1
  <2> QED BY <1>20, <1>27, <2>2 DEF DrainIdle
<1>29. n > 0 \/ s.held > 0 => t.size > 0
  <2> SUFFICES ASSUME n > 0 \/ s.held > 0 PROVE t.size > 0
    OBVIOUS
  <2>1. n > 0 => Inflated(n) > 0
    BY InflatedFacts
  <2>2. v.held > 0
    BY <1>0, <1>1, <1>9, <2>1
  <2>3. /\ v.cursor \in Nat /\ v.size \in Nat /\ v.total = v.cursor + v.size
        /\ b.held \in Nat /\ b.total \in Nat
    BY <1>12, <1>15 DEF Core, Typed, StreamTyped, ParserTyped, Counted
  <2>4. t.cursor = v.cursor
    BY <1>15, <1>21 DEF Same, Fields, Drains, Inflating
  <2>5. /\ t.held \in Nat /\ t.size \in Nat /\ t.total \in Nat /\ t.total = t.cursor + t.size
    BY <1>21 DEF Core, Typed, StreamTyped, ParserTyped, Counted
  <2>6. b.held < v.held /\ b.total + b.held = v.total + v.held
    BY <1>15, <2>2
  <2>7. b.total > v.total
    BY <1>11, <2>3, <2>6
  <2>8. t.total >= b.total
    BY <1>21, <2>3, <2>5
  <2> QED BY <2>3, <2>4, <2>5, <2>7, <2>8
<1> QED BY <1>2, <1>20, <1>21, <1>22, <1>23, <1>24, <1>25, <1>26, <1>27, <1>28, <1>29 DEF PieceDone

(* ------------------------- a turn of either parser ----------------------- *)

\* Without chunks, or with the extension, the parser goes on only when all is inflated.
Quick == mode.parser = "extension" \/ mode.kind # "chunked"
\* Here no pause is left for later, whatever happened before.
Calm == mode.kind # "chunked" /\ (mode.parser = "extension" \/ mode.codec = "zlib")

Fed(s) == s.total + s.held = Inflated(Before[s.parsed])
EofOK(s) ==
  s.eof => /\ s.held = 0
           /\ IF mode.kind = "eof" THEN s.parsed = s.arrived /\ s.conn # "open" ELSE s.parsed = Len(wire)
Between(s) == IF mode.kind = "chunked" THEN s.phase # "data" => s.held = 0 ELSE s.phase = "data"
Known(s) == Quick /\ ~s.pending => ~s.more
Quiet(s) == Calm => ~s.ppaused /\ (s.pending => s.rpaused)
Onward(s) ==
  \/ s.pending \/ Roomy(s)
  \/ mode.parser = "python" /\ (s.ppaused \/ (s.parsed = s.arrived /\ s.held = 0))

\* The token a phase of the chunked body waits for.
Expected(phase) ==
  IF phase = "size" THEN {"size", "last"} ELSE IF phase = "data" THEN {"byte", "crlf"} ELSE {"crlf"}
Aligned(s) == mode.kind = "chunked" => s.parsed < Len(wire) /\ wire[s.parsed + 1] \in Expected(s.phase)
\* Such a parser stops over data that is in the buffer.
Tracked(s) == Quick => Aligned(s) /\ (s.pending => ~s.ppaused /\ s.size > 0)
Inside(s) == MoreOK(s) /\ Between(s) /\ Known(s) /\ Quiet(s) /\ Onward(s) /\ Tracked(s)

\* A turn consumes something, the first one apart, until there is nothing to be done.
Hungry(s) == s.phase = "data" /\ s.parsed < s.arrived => wire[s.parsed + 1] = "byte"
Stopped(s) == s.eof \/ s.pending \/ s.parsed = s.arrived
Moved(t, s) == Stopped(t) \/ (Hungry(t) /\ t.parsed >= s.parsed /\ (Hungry(s) => t.parsed > s.parsed))

\* t is u after some turns.
Parsing(t, u) == Core(t, u) /\ Fed(t) /\ EofOK(t) /\ (~t.eof => Inside(t))

\* A chunk end at the end of the stream is in order; a second one is ahead of the reader.
LEMMA AppendOrdered ==
  ASSUME NEW s, NEW t, Ordered(s), s.splits \in Seq(Nat), s.cursor \in Nat, s.size \in Nat,
         s.total = s.cursor + s.size, t.cursor = s.cursor, t.size = s.size, t.total = s.total,
         t.splits = Append(s.splits, s.total), s.total # (IF s.splits = <<>> THEN 0 ELSE Last(s.splits))
  PROVE  Ordered(t) /\ (Len(t.splits) > 1 => t.size > 0)
<1> DEFINE L == Len(s.splits)
<1>1. /\ L \in Nat /\ DOMAIN s.splits = 1..L /\ DOMAIN t.splits = 1..(L + 1)
      /\ \A i \in 1..L : t.splits[i] = s.splits[i] /\ s.splits[i] \in Nat
      /\ t.splits[L + 1] = s.total /\ Len(t.splits) = L + 1
  <2>1. /\ t.splits \in Seq(Nat) /\ Len(t.splits) = L + 1
        /\ \A i \in 1..L : t.splits[i] = s.splits[i]
        /\ t.splits[L + 1] = s.total
    BY AppendProperties
  <2>2. DOMAIN t.splits = 1..Len(t.splits) /\ DOMAIN s.splits = 1..L /\ L \in Nat
    BY <2>1, LenProperties
  <2>3. \A i \in 1..L : s.splits[i] \in Nat
    BY ElementOfSeq
  <2> QED BY <2>1, <2>2, <2>3
<1>2. s.total \in Nat
  OBVIOUS
<1>3. /\ \A i, j \in 1..L : i < j => s.splits[i] < s.splits[j]
      /\ \A i \in 1..L : s.cursor <= s.splits[i] /\ s.splits[i] <= s.total
  BY <1>1 DEF Ordered
<1>4. L > 0 => s.splits[L] < s.total
  <2> SUFFICES ASSUME L > 0 PROVE s.splits[L] < s.total
    OBVIOUS
  <2>1. s.splits # <<>>
    BY <1>1
  <2>2. L \in 1..L
    BY <1>1
  <2>3. s.total # s.splits[L]
    BY <2>1 DEF Last
  <2> QED BY <1>1, <1>2, <1>3, <2>2, <2>3
<1> HIDE DEF L
<1>5. \A i \in 1..L : s.splits[i] < s.total
  <2> SUFFICES ASSUME NEW i \in 1..L PROVE s.splits[i] < s.total
    OBVIOUS
  <2>1. L \in 1..L /\ L > 0 /\ (i = L \/ i < L)
    BY <1>1
  <2>2. i < L => s.splits[i] < s.splits[L]
    BY <1>3, <2>1
  <2>3. s.splits[i] \in Nat /\ s.splits[L] \in Nat
    BY <1>1, <2>1
  <2> QED BY <1>2, <1>4, <2>1, <2>2, <2>3
<1>6. ASSUME NEW i \in 1..(L + 1), NEW j \in 1..(L + 1), i < j PROVE t.splits[i] < t.splits[j]
  <2>1. i \in 1..L
    BY <1>1, <1>6
  <2>2. CASE j = L + 1
    BY <1>1, <1>5, <2>1, <2>2
  <2>3. CASE j # L + 1
    <3>1. j \in 1..L
      BY <1>1, <2>3
    <3> QED BY <1>1, <1>3, <1>6, <2>1, <3>1
  <2> QED BY <2>2, <2>3
<1>7. ASSUME NEW i \in 1..(L + 1) PROVE t.cursor <= t.splits[i] /\ t.splits[i] <= t.total
  <2>1. CASE i = L + 1
    BY <1>1, <1>2, <2>1
  <2>2. CASE i # L + 1
    <3>1. i \in 1..L
      BY <1>1, <2>2
    <3> QED BY <1>1, <1>3, <3>1
  <2> QED BY <2>1, <2>2
<1>8. Ordered(t)
  BY <1>1, <1>6, <1>7 DEF Ordered
<1>9. ASSUME Len(t.splits) > 1 PROVE t.size > 0
  <2>1. L \in 1..L
    BY <1>1, <1>9
  <2>2. s.cursor <= s.splits[L] /\ s.splits[L] < s.total /\ s.splits[L] \in Nat
    BY <1>1, <1>3, <1>5, <2>1
  <2> QED BY <2>2
<1> QED BY <1>8, <1>9

\* end_http_chunk_receiving() keeps Core.
LEMMA EndCore ==
  ASSUME Given, NEW u, NEW s, Core(s, u)
  PROVE  LET t == EndChunk(s)
         IN  /\ Core(t, u) /\ Same(t, s, {"fut", "splits", "rpaused", "ppaused", "tpaused", "timer"})
             /\ s.ppaused => t.ppaused
<1> DEFINE t == EndChunk(s)
<1>0. /\ Typed(s) /\ Same(s, u, ByParser) /\ Counted(s) /\ Pauses(s) /\ Top(s)
      /\ s.rpaused => s.tpaused
      /\ s.tpaused => s.rpaused \/ u.tpaused
      /\ Timed(u) => Timed(s)
      /\ s.fut = "none" <=> u.fut = "none"
      /\ Len(u.buf) <= Len(s.buf)
      /\ Grown(s, u)
  BY DEF Core
<1>1. Shape(s) /\ TransportTyped(s) /\ ParserTyped(s) /\ StreamTyped(s)
  BY <1>0 DEF Typed
<1>2. s.splits \in Seq(Nat) /\ s.total \in Nat
  BY <1>1 DEF StreamTyped
<1>3. /\ Shape(t) /\ Same(t, s, {"fut", "splits", "rpaused", "ppaused", "tpaused", "timer"})
      /\ \/ t.splits = s.splits
         \/ /\ t.splits = Append(s.splits, s.total)
            /\ s.total # (IF s.splits = <<>> THEN 0 ELSE Last(s.splits))
      /\ (t.fut = s.fut \/ Woken(t, s)) /\ Pausing(t, s)
      /\ t.splits # s.splits /\ Len(t.splits) > HighChunks => t.rpaused /\ t.tpaused /\ t.ppaused
      /\ t.splits = s.splits \/ ~(Len(t.splits) > HighChunks) => t.rpaused = s.rpaused
  BY <1>1, <1>2, EndFields
<1> HIDE DEF t
<1>4. /\ t.size = s.size /\ t.total = s.total /\ t.buf = s.buf /\ t.conn = s.conn /\ t.eof = s.eof
      /\ t.exc = s.exc /\ t.low = s.low /\ t.cursor = s.cursor /\ t.parsed = s.parsed /\ t.arrived = s.arrived
      /\ t.held = s.held /\ t.more = s.more /\ t.phase = s.phase /\ t.pending = s.pending
      /\ t.eofPending = s.eofPending
  BY <1>3 DEF Same, Fields
<1>5. t.splits \in Seq(Nat)
  <2>1. Append(s.splits, s.total) \in Seq(Nat)
    BY <1>2, AppendProperties
  <2> QED BY <1>2, <1>3, <2>1
<1>6. /\ t.rpaused \in BOOLEAN /\ t.ppaused \in BOOLEAN /\ t.tpaused \in BOOLEAN /\ t.timer \in BOOLEAN
  BY <1>1, <1>3 DEF Pausing, TransportTyped, ParserTyped
<1>7. t.fut \in {"none", "pending", "set", "exc"} /\ (t.fut = "none" <=> s.fut = "none")
  BY <1>1, <1>3 DEF Woken, TransportTyped
<1>8. Typed(t)
  <2>1. TransportTyped(t) BY <1>1, <1>4, <1>6, <1>7 DEF TransportTyped
  <2>2. ParserTyped(t) BY <1>1, <1>4, <1>6 DEF ParserTyped
  <2>3. StreamTyped(t) BY <1>1, <1>4, <1>5 DEF StreamTyped
  <2> QED BY <1>3, <2>1, <2>2, <2>3 DEF Typed
<1>9. Counted(t) /\ Top(t)
  BY <1>0, <1>4 DEF Counted, Top, Live, Bounded
<1>10. /\ t.rpaused => t.tpaused
       /\ t.tpaused => t.rpaused \/ u.tpaused
       /\ s.ppaused => t.ppaused
       /\ s.rpaused => t.rpaused
  BY <1>0, <1>3 DEF Pausing
<1>11. Pauses(t)
  <2> SUFFICES ASSUME Live(t), High(t) PROVE t.rpaused /\ t.tpaused
    BY DEF Pauses
  <2>1. CASE t.splits = s.splits
    <3>1. s.rpaused
      BY <1>0, <1>4, <2>1 DEF Pauses, Live, High
    <3> QED BY <1>10, <3>1
  <2>2. CASE t.splits # s.splits /\ Len(t.splits) > HighChunks
    BY <1>3, <2>2
  <2>3. CASE ~(Len(t.splits) > HighChunks)
    <3>1. s.rpaused
      BY <1>0, <1>4, <2>3 DEF Pauses, Live, High
    <3> QED BY <1>10, <3>1
  <2> QED BY <2>1, <2>2, <2>3
<1>12. Timed(u) => Timed(t)
  <2> SUFFICES ASSUME Timed(u), Live(t), t.exc = "none", ~t.tpaused PROVE t.timer
    BY DEF Timed
  <2>1. t.timer = s.timer /\ t.tpaused = s.tpaused
    BY <1>3 DEF Pausing
  <2> QED BY <1>0, <1>4, <2>1 DEF Timed, Live
<1>13. Same(t, u, ByParser)
  BY <1>0, <1>3 DEF Same, ByParser
<1>14. Grown(t, u)
  <2>1. t.fut = "pending" => u.fut = "pending" /\ t.size = u.size /\ t.eof = u.eof
    BY <1>0, <1>3, <1>4 DEF Woken, Grown
  <2>2. ASSUME Ordered(s) PROVE Ordered(t) /\ (t.rpaused => s.rpaused \/ t.size > 0)
    <3>1. CASE t.splits = s.splits
      BY <1>3, <1>4, <2>2, <3>1 DEF Ordered
    <3>2. CASE t.splits # s.splits
      <4>1. /\ t.splits = Append(s.splits, s.total)
            /\ s.total # (IF s.splits = <<>> THEN 0 ELSE Last(s.splits))
            /\ ~(Len(t.splits) > HighChunks) => t.rpaused = s.rpaused
        BY <1>3, <3>2
      <4>2. Ordered(t) /\ (Len(t.splits) > 1 => t.size > 0)
        <5>1. s.cursor \in Nat /\ s.size \in Nat /\ s.total = s.cursor + s.size
          BY <1>0, <1>1 DEF StreamTyped, Counted
        <5> QED BY <1>2, <1>4, <2>2, <4>1, <5>1, AppendOrdered
      <4>3. HighChunks \in Nat /\ HighChunks >= 2 /\ Len(t.splits) \in Nat
        <5>1. HighChunks \in Nat /\ LowChunks \in Nat /\ LowChunks <= HighChunks /\ 2 <= LowChunks
          BY DEF Given
        <5> QED BY <1>5, <5>1, LenProperties
      <4>4. Len(t.splits) > HighChunks => t.size > 0
        BY <4>2, <4>3
      <4> QED BY <4>1, <4>2, <4>4
    <3> QED BY <3>1, <3>2
  <2>3. Ordered(u) => Ordered(s) /\ (s.rpaused => u.rpaused \/ s.size > 0)
    BY <1>0 DEF Grown
  <2> QED BY <1>4, <2>1, <2>2, <2>3 DEF Grown
<1>15. Core(t, u)
  BY <1>0, <1>4, <1>7, <1>8, <1>9, <1>10, <1>11, <1>12, <1>13, <1>14 DEF Core
<1> QED BY <1>3, <1>10, <1>15 DEF t

\* So does feed_eof() of the stream.
LEMMA EofCore ==
  ASSUME NEW u, NEW s, Core(s, u)
  PROVE  LET t == StreamFeedEof(s)
         IN  /\ Core(t, u) /\ Same(t, s, {"fut", "eof", "rpaused", "tpaused", "timer", "pending"})
             /\ t.eof
<1> DEFINE t == StreamFeedEof(s)
<1>0. /\ Typed(s) /\ Same(s, u, ByParser) /\ Counted(s)
      /\ s.fut = "none" <=> u.fut = "none"
      /\ Len(u.buf) <= Len(s.buf)
      /\ Grown(s, u)
  BY DEF Core
<1>1. Shape(s) /\ TransportTyped(s) /\ ParserTyped(s) /\ StreamTyped(s)
  BY <1>0 DEF Typed
<1>2. /\ Shape(t) /\ Same(t, s, {"fut", "eof", "rpaused", "tpaused", "timer", "pending"})
      /\ t.eof = TRUE /\ t.rpaused = FALSE /\ t.tpaused = FALSE /\ t.timer = FALSE
      /\ t.pending = FALSE /\ Woken(t, s)
  BY <1>1, EofFields
<1> HIDE DEF t
<1>3. /\ t.size = s.size /\ t.total = s.total /\ t.buf = s.buf /\ t.conn = s.conn /\ t.splits = s.splits
      /\ t.exc = s.exc /\ t.low = s.low /\ t.cursor = s.cursor /\ t.parsed = s.parsed /\ t.arrived = s.arrived
      /\ t.held = s.held /\ t.more = s.more /\ t.phase = s.phase /\ t.ppaused = s.ppaused
      /\ t.eofPending = s.eofPending
  BY <1>2 DEF Same, Fields
<1>4. t.fut \in {"none", "pending", "set", "exc"} /\ (t.fut = "none" <=> s.fut = "none")
  BY <1>1, <1>2 DEF Woken, TransportTyped
<1>5. Typed(t)
  <2>1. TransportTyped(t) BY <1>1, <1>2, <1>3, <1>4 DEF TransportTyped
  <2>2. ParserTyped(t) BY <1>1, <1>2, <1>3 DEF ParserTyped
  <2>3. StreamTyped(t) BY <1>1, <1>2, <1>3 DEF StreamTyped
  <2> QED BY <1>2, <2>1, <2>2, <2>3 DEF Typed
<1>6. Counted(t)
  BY <1>0, <1>3 DEF Counted
<1>7. Pauses(t) /\ Top(t) /\ Timed(t)
  BY <1>2 DEF Pauses, Top, Timed, Live
<1>8. Same(t, u, ByParser)
  BY <1>0, <1>2 DEF Same, ByParser
<1>9. Grown(t, u)
  <2>1. t.fut # "pending"
    BY <1>2 DEF Woken
  <2>2. Ordered(s) => Ordered(t)
    BY <1>3 DEF Ordered
  <2> QED BY <1>0, <1>2, <2>1, <2>2 DEF Grown
<1>10. Core(t, u)
  BY <1>0, <1>2, <1>3, <1>4, <1>5, <1>6, <1>7, <1>8, <1>9 DEF Core
<1> QED BY <1>2, <1>10 DEF t

\* A token that is no byte is taken.
LEMMA TakeToken ==
  ASSUME Given, NEW u, NEW s, Core(s, u), Fed(s), NEW token, AtToken(s, token), token # "byte"
  PROVE  LET t == Consume(s, 1)
         IN  Core(t, u) /\ Fed(t) /\ Same(t, s, {"parsed"}) /\ t.parsed = s.parsed + 1
<1> DEFINE t == Consume(s, 1)
<1>0. /\ Typed(s) /\ Shape(s) /\ ParserTyped(s) /\ Counted(s) /\ s.parsed \in Nat /\ s.arrived \in Nat
  BY DEF Core, Typed, ParserTyped
<1>1. Shape(t) BY <1>0 DEF Shape, Consume
<1>2. Same(t, s, {"parsed"}) BY <1>0 DEF Shape, Same, Consume
<1>3. t.parsed = s.parsed + 1 BY <1>0 DEF Shape, Fields, Consume
<1> HIDE DEF t
<1>4. /\ t.total = s.total /\ t.held = s.held /\ t.arrived = s.arrived
      /\ t.ppaused = s.ppaused /\ t.pending = s.pending /\ t.eofPending = s.eofPending
      /\ t.phase = s.phase /\ t.more = s.more
  BY <1>2 DEF Same, Fields
<1>5. s.parsed < s.arrived /\ wire[s.parsed + 1] = token
  BY DEF AtToken
<1>6. s.parsed + 1 \in 1..Len(wire) /\ (s.parsed + 1) - 1 = s.parsed
  BY <1>0, <1>5 DEF Counted, Given
<1>7. Core(t, u)
  <2>1. ParserTyped(t) /\ t.parsed <= t.arrived
    BY <1>0, <1>3, <1>4, <1>5 DEF ParserTyped
  <2>2. Same(t, s, ParserOwn)
    BY <1>2 DEF Same, ParserOwn
  <2> QED BY <1>1, <2>1, <2>2, TouchCore
<1>8. Before[t.parsed] = Before[s.parsed]
  <2>1. Before[s.parsed + 1] = Before[s.parsed] + 0
    BY <1>5, <1>6 DEF Given
  <2>2. s.parsed \in 0..Len(wire)
    BY <1>0, <1>6
  <2>3. Before[s.parsed] \in Nat
    BY <2>2 DEF Given
  <2> QED BY <1>3, <2>1, <2>3
<1>9. Fed(t)
  BY <1>4, <1>8 DEF Fed
<1> QED BY <1>2, <1>3, <1>7, <1>9 DEF t

\* The phase is the parser's.
LEMMA PhaseStep ==
  ASSUME NEW u, NEW s, Core(s, u), Fed(s), NEW phase \in {"size", "data", "crlf"}
  PROVE  LET t == [s EXCEPT !.phase = phase]
         IN  Core(t, u) /\ Fed(t) /\ Same(t, s, {"phase"}) /\ t.phase = phase
<1> DEFINE t == [s EXCEPT !.phase = phase]
<1>0. Typed(s) /\ Shape(s) /\ ParserTyped(s) /\ Counted(s)
  BY DEF Core, Typed
<1>1. Shape(t) BY <1>0 DEF Shape
<1>2. Same(t, s, {"phase"}) BY <1>0 DEF Shape, Same
<1>3. t.phase = phase BY <1>0 DEF Shape, Fields
<1> HIDE DEF t
<1>4. /\ t.total = s.total /\ t.held = s.held /\ t.arrived = s.arrived /\ t.parsed = s.parsed
      /\ t.ppaused = s.ppaused /\ t.pending = s.pending /\ t.eofPending = s.eofPending /\ t.more = s.more
  BY <1>2 DEF Same, Fields
<1>5. Core(t, u)
  <2>1. ParserTyped(t) /\ t.parsed <= t.arrived
    BY <1>0, <1>3, <1>4 DEF ParserTyped, Counted
  <2>2. Same(t, s, ParserOwn)
    BY <1>2 DEF Same, ParserOwn
  <2> QED BY <1>1, <2>1, <2>2, TouchCore
<1>6. Fed(t)
  BY <1>0, <1>4 DEF Fed
<1> QED BY <1>2, <1>3, <1>5, <1>6 DEF t

\* The last token is the end of the wire.
LEMMA LastToken ==
  ASSUME Given, NEW p \in 1..Len(wire), wire[p] = "last"
  PROVE  p = Len(wire) /\ mode.kind = "chunked"
<1>1. mode.kind = "chunked"
  BY DEF Given
<1>2. ASSUME p # Len(wire) PROVE FALSE
  <2>1. p \in 1..Len(wire) - 1
    BY <1>2 DEF Given
  <2>2. wire[p + 1] \in May(wire[p])
    BY <1>1, <2>1 DEF Given
  <2> QED BY <2>2 DEF May
<1> QED BY <1>1, <1>2

\* What may come after a token.
LEMMA NextToken ==
  ASSUME Given, mode.kind = "chunked", NEW p \in 1..Len(wire), wire[p] # "last"
  PROVE  p < Len(wire) /\ wire[p + 1] \in May(wire[p])
<1>1. wire[Len(wire)] = "last" /\ Len(wire) \in Nat
  BY DEF Given
<1>2. p \in 1..Len(wire) - 1
  BY <1>1
<1> QED BY <1>1, <1>2 DEF Given

\* Stopping is the parser's, too.
LEMMA StopStep ==
  ASSUME NEW u, NEW s, Core(s, u), Fed(s)
  PROVE  LET t == Stop(s)
         IN  Core(t, u) /\ Fed(t) /\ Same(t, s, {"ppaused", "pending"}) /\ ~t.ppaused /\ t.pending
<1> DEFINE t == Stop(s)
<1>0. Typed(s) /\ Shape(s) /\ ParserTyped(s) /\ Counted(s)
  BY DEF Core, Typed
<1>1. Shape(t) /\ Same(t, s, {"ppaused", "pending"}) /\ t.ppaused = FALSE /\ t.pending = TRUE
  BY <1>0, StopFields
<1> HIDE DEF t
<1>2. /\ t.total = s.total /\ t.held = s.held /\ t.arrived = s.arrived /\ t.parsed = s.parsed
      /\ t.phase = s.phase /\ t.eofPending = s.eofPending /\ t.more = s.more
  BY <1>1 DEF Same, Fields
<1>3. Core(t, u)
  <2>1. ParserTyped(t) /\ t.parsed <= t.arrived
    BY <1>0, <1>1, <1>2 DEF ParserTyped, Counted
  <2>2. Same(t, s, ParserOwn)
    BY <1>1 DEF Same, ParserOwn
  <2> QED BY <1>1, <2>1, <2>2, TouchCore
<1>4. Fed(t)
  BY <1>0, <1>2 DEF Fed
<1> QED BY <1>1, <1>3, <1>4 DEF t

\* The extension looks at the pause after each piece.
LEMMA OnBodyFields ==
  ASSUME Given, mode.parser = "extension", NEW u, NEW s, Core(s, u), Fed(s), ~s.eof, ~s.pending,
         Roomy(s), Quiet(s), Between(s), NEW n \in Nat, n > 0 => s.phase = "data",
         s.parsed + n <= s.arrived, Before[s.parsed + n] = Before[s.parsed] + n,
         Aligned(s), n > 0 => wire[s.parsed + n] = "byte", n > 0 \/ ~s.ppaused
  PROVE  LET t == AfterFeed(Piece(s, n))
         IN  /\ Core(t, u) /\ Fed(t) /\ Inside(t) /\ Same(t, s, PieceChanges)
             /\ t.parsed = s.parsed + n /\ ~t.ppaused
<1> DEFINE p == Piece(s, n)
           t == AfterFeed(p)
<1>0. /\ s.total \in Nat /\ s.held \in Nat /\ s.parsed \in Nat /\ s.arrived \in Nat /\ s.arrived <= Len(wire)
      /\ s.rpaused \in BOOLEAN /\ s.ppaused \in BOOLEAN
  BY DEF Core, Typed, ParserTyped, StreamTyped, Counted, TransportTyped
<1>1. Core(p, u) /\ PieceDone(p, s, n)
  BY PieceFields
<1> HIDE DEF p
<1>2. /\ Same(p, s, PieceChanges) /\ p.parsed = s.parsed + n
      /\ MoreOK(p) /\ DrainIdle(p) /\ p.total + p.held = s.total + s.held + Inflated(n)
      /\ Roomy(s) => Room(p)
      /\ n = 0 /\ s.held = 0 => p.held = 0 /\ ~p.pending /\ p.ppaused = s.ppaused
      /\ n > 0 \/ s.held > 0 => p.size > 0
      /\ p.ppaused => s.ppaused \/ p.rpaused
      /\ s.rpaused => p.rpaused
      /\ p.pending => s.ppaused \/ p.rpaused
  BY <1>1 DEF PieceDone
<1>3. Fed(p)
  <2>1. Before[s.parsed] \in Nat
    BY <1>0 DEF Given
  <2>2. Inflated(Before[s.parsed] + n) = Inflated(Before[s.parsed]) + Inflated(n)
    BY <2>1, InflatedFacts
  <2>3. p.total + p.held = (s.total + s.held) + Inflated(n)
    BY <1>2
  <2> QED BY <1>2, <2>2, <2>3 DEF Fed
<1>4. /\ Core(t, u) /\ Fed(t) /\ Same(t, p, {"ppaused", "pending"}) /\ ~t.ppaused
      /\ ~p.pending /\ ~p.ppaused => ~t.pending
      /\ t.pending => p.pending \/ p.ppaused
      /\ p.pending \/ p.ppaused => t.pending
  <2>1. CASE p.ppaused
    <3>1. t = Stop(p)
      BY <2>1 DEF AfterFeed
    <3> HIDE DEF t
    <3>2. Core(t, u) /\ Fed(t) /\ Same(t, p, {"ppaused", "pending"}) /\ ~t.ppaused /\ t.pending
      BY <1>1, <1>3, <3>1, StopStep
    <3> QED BY <2>1, <3>2
  <2>2. CASE ~p.ppaused
    <3>1. t = p
      BY <2>2 DEF AfterFeed
    <3> HIDE DEF t
    <3> QED BY <1>1, <1>3, <2>2, <3>1 DEF Same
  <2> QED BY <2>1, <2>2
<1> HIDE DEF t
<1>5. /\ t.parsed = p.parsed /\ t.held = p.held /\ t.more = p.more /\ t.rpaused = p.rpaused
      /\ t.size = p.size /\ t.low = p.low /\ t.phase = p.phase /\ t.eofPending = p.eofPending
  BY <1>4 DEF Same, Fields
<1>6. p.phase = s.phase
  BY <1>2 DEF Same, Fields, PieceChanges, Drains, Inflating
<1>7. Same(t, s, PieceChanges)
  BY <1>2, <1>4 DEF Same, PieceChanges, Drains, Inflating
<1>8. MoreOK(t)
  BY <1>2, <1>5 DEF MoreOK
<1>9. Between(t)
  <2>1. CASE n = 0
    BY <1>2, <1>5, <1>6, <2>1 DEF Between
  <2>2. CASE n # 0
    BY <1>5, <1>6, <2>2 DEF Between
  <2> QED BY <2>1, <2>2
<1>10. Known(t)
  BY <1>2, <1>4, <1>5 DEF Known, DrainIdle
<1>11. Quiet(t)
  BY <1>2, <1>4, <1>5 DEF Quiet
<1>12. Onward(t)
  BY <1>2, <1>4, <1>5 DEF Onward, Roomy, Room, Bounded
<1>13. Aligned(t)
  <2> SUFFICES ASSUME mode.kind = "chunked" PROVE t.parsed < Len(wire) /\ wire[t.parsed + 1] \in Expected(t.phase)
    BY DEF Aligned
  <2>1. CASE n = 0
    <3>1. t.parsed = s.parsed
      BY <1>0, <1>2, <1>5, <2>1
    <3> QED BY <1>5, <1>6, <3>1 DEF Aligned
  <2>2. CASE n # 0
    <3>1. n > 0 /\ s.parsed + n \in 1..Len(wire) /\ wire[s.parsed + n] = "byte" /\ s.phase = "data"
      <4>1. n > 0
        BY <2>2
      <4>2. s.parsed + n \in 1..Len(wire)
        <5>1. \A a, b, c, d \in Nat : b > 0 /\ a + b <= c /\ c <= d => a + b \in 1..d
          OBVIOUS
        <5>2. Len(wire) \in Nat /\ s.arrived <= Len(wire) /\ s.arrived \in Nat /\ s.parsed \in Nat
          BY <1>0 DEF Given
        <5> QED BY <1>0, <4>1, <5>1, <5>2
      <4> QED BY <4>1, <4>2
    <3>2. s.parsed + n < Len(wire) /\ wire[(s.parsed + n) + 1] \in May("byte")
      BY <3>1, NextToken
    <3>3. May("byte") = Expected("data")
      BY DEF May, Expected
    <3>4. t.parsed = s.parsed + n /\ t.phase = "data"
      BY <1>2, <1>5, <1>6, <3>1
    <3> QED BY <3>2, <3>3, <3>4
  <2> QED BY <2>1, <2>2
<1>14. t.pending => t.size > 0
  <2> SUFFICES ASSUME t.pending PROVE p.size > 0
    BY <1>5
  <2>1. p.pending \/ p.ppaused
    BY <1>4
  <2>2. ~(n = 0 /\ s.held = 0)
    BY <1>2, <2>1
  <2> QED BY <1>0, <1>2, <2>2
<1>15. Tracked(t)
  BY <1>4, <1>13, <1>14 DEF Tracked
<1> QED BY <1>2, <1>4, <1>5, <1>7, <1>8, <1>9, <1>10, <1>11, <1>12, <1>15 DEF Inside, t, p

\* A turn of the extension; a body without chunks is taken as a whole.
LEMMA OneExecuteTurn ==
  ASSUME Given, mode.parser = "extension", NEW u, NEW s, Parsing(s, u), ~s.eof, ~s.pending
  PROVE  LET t == ExecuteTurn(s)
         IN  Parsing(t, u) /\ (mode.kind # "chunked" => t.parsed = t.arrived) /\ Moved(t, s)
<1> DEFINE t == ExecuteTurn(s)
<1>0. /\ Core(s, u) /\ Fed(s) /\ MoreOK(s) /\ Between(s) /\ Known(s) /\ Quiet(s) /\ Onward(s)
      /\ Aligned(s)
  BY DEF Parsing, Inside, Tracked, Quick
<1>1. /\ s.parsed \in Nat /\ s.arrived \in Nat /\ s.parsed <= s.arrived /\ s.arrived <= Len(wire)
      /\ s.held \in Nat /\ s.phase \in {"size", "data", "crlf"} /\ Len(wire) \in Nat
  BY <1>0 DEF Core, Typed, ParserTyped, Counted, Given
<1>2. Quick /\ ~s.more /\ s.held = 0 /\ Roomy(s)
  <2>1. ~s.more BY <1>0 DEF Known, Quick
  <2>2. ~(s.held > 0) BY <1>0, <2>1 DEF MoreOK
  <2> QED BY <1>0, <1>1, <2>1, <2>2 DEF Onward, Quick
<1>3. CASE s.phase = "size" /\ AtToken(s, "size")
  <2> DEFINE w == Consume(s, 1)
  <2>1. Core(w, u) /\ Fed(w) /\ Same(w, s, {"parsed"}) /\ w.parsed = s.parsed + 1
    BY <1>0, <1>3, TakeToken
  <2>2. t = [w EXCEPT !.phase = "data"]
    BY <1>3 DEF ExecuteTurn, AtToken
  <2> HIDE DEF w, t
  <2>3. Core(t, u) /\ Fed(t) /\ Same(t, w, {"phase"}) /\ t.phase = "data"
    BY <2>1, <2>2, PhaseStep
  <2>4. /\ t.eof = s.eof /\ t.pending = s.pending /\ t.more = s.more /\ t.held = s.held
        /\ t.size = s.size /\ t.low = s.low /\ t.eofPending = s.eofPending
        /\ t.parsed = s.parsed + 1
    BY <2>1, <2>3 DEF Same, Fields
  <2>5. mode.kind = "chunked"
    BY <1>0, <1>3 DEF Between
  <2>7. t.parsed < Len(wire) /\ wire[t.parsed + 1] = "byte"
    <3>1. s.parsed + 1 \in 1..Len(wire) /\ wire[s.parsed + 1] = "size"
      BY <1>1, <1>3 DEF AtToken
    <3>2. s.parsed + 1 < Len(wire) /\ wire[(s.parsed + 1) + 1] \in May("size")
      BY <2>5, <3>1, NextToken
    <3> QED BY <2>4, <3>2 DEF May
  <2>8. Tracked(t) /\ Moved(t, s)
    <3>1. Aligned(t)
      BY <2>3, <2>7 DEF Aligned, Expected
    <3>2. Hungry(t) /\ t.parsed > s.parsed /\ t.parsed >= s.parsed
      BY <1>1, <2>4, <2>7 DEF Hungry
    <3> QED BY <2>4, <3>1, <3>2 DEF Tracked, Moved
  <2>6. Inside(t)
    <3>1. MoreOK(t) /\ Between(t) /\ Known(t)
      BY <1>2, <2>3, <2>4, <2>5 DEF MoreOK, Between, Known
    <3>2. Quiet(t)
      BY <2>5 DEF Quiet, Calm
    <3>3. Onward(t)
      BY <1>2, <2>4 DEF Onward, Roomy, Bounded
    <3> QED BY <2>8, <3>1, <3>2, <3>3 DEF Inside
  <2> QED BY <2>3, <2>4, <2>5, <2>6, <2>8 DEF Parsing, EofOK, t
<1>4. CASE s.phase = "size" /\ AtToken(s, "last")
  <2> DEFINE w == Consume(s, 1)
             e == EndChunk(w)
  <2>1. Core(w, u) /\ Fed(w) /\ Same(w, s, {"parsed"}) /\ w.parsed = s.parsed + 1
    BY <1>0, <1>4, TakeToken
  <2>2. t = StreamFeedEof(e)
    BY <1>4 DEF ExecuteTurn, AtToken
  <2> HIDE DEF w
  <2>3. Core(e, u) /\ Same(e, w, {"fut", "splits", "rpaused", "ppaused", "tpaused", "timer"})
    BY <2>1, EndCore
  <2> HIDE DEF e, t
  <2>4. Core(t, u) /\ Same(t, e, {"fut", "eof", "rpaused", "tpaused", "timer", "pending"}) /\ t.eof
    BY <2>2, <2>3, EofCore
  <2>5. t.total = w.total /\ t.held = w.held /\ t.parsed = w.parsed /\ w.held = s.held
    BY <2>1, <2>3, <2>4 DEF Same, Fields
  <2>6. Fed(t)
    BY <2>1, <2>5 DEF Fed
  <2>7. s.parsed + 1 = Len(wire) /\ mode.kind = "chunked"
    <3>1. s.parsed + 1 \in 1..Len(wire) /\ wire[s.parsed + 1] = "last"
      BY <1>1, <1>4 DEF AtToken
    <3> QED BY <3>1, LastToken
  <2>8. EofOK(t)
    BY <1>2, <2>1, <2>5, <2>7 DEF EofOK
  <2> QED BY <2>4, <2>6, <2>7, <2>8 DEF Parsing, Moved, Stopped, t
<1>5. CASE s.phase = "crlf" /\ AtToken(s, "crlf")
  <2> DEFINE w == Consume(s, 1)
             e == EndChunk(w)
  <2>1. Core(w, u) /\ Fed(w) /\ Same(w, s, {"parsed"}) /\ w.parsed = s.parsed + 1
    BY <1>0, <1>5, TakeToken
  <2>2. t = [e EXCEPT !.phase = "size"]
    BY <1>5 DEF ExecuteTurn
  <2> HIDE DEF w
  <2>3. Core(e, u) /\ Same(e, w, {"fut", "splits", "rpaused", "ppaused", "tpaused", "timer"})
    BY <2>1, EndCore
  <2> HIDE DEF e, t
  <2>4. Fed(e)
    <3>1. e.total = w.total /\ e.held = w.held /\ e.parsed = w.parsed
      BY <2>3 DEF Same, Fields
    <3> QED BY <2>1, <3>1 DEF Fed
  <2>5. Core(t, u) /\ Fed(t) /\ Same(t, e, {"phase"}) /\ t.phase = "size"
    BY <2>2, <2>3, <2>4, PhaseStep
  <2>6. /\ t.eof = s.eof /\ t.pending = s.pending /\ t.more = s.more /\ t.held = s.held
        /\ t.size = s.size /\ t.low = s.low /\ t.eofPending = s.eofPending
        /\ t.parsed = s.parsed + 1
    BY <2>1, <2>3, <2>5 DEF Same, Fields
  <2>7. mode.kind = "chunked"
    BY <1>0, <1>5 DEF Between
  <2>9. t.parsed < Len(wire) /\ wire[t.parsed + 1] \in {"size", "last"}
    <3>1. s.parsed + 1 \in 1..Len(wire) /\ wire[s.parsed + 1] = "crlf"
      BY <1>1, <1>5 DEF AtToken
    <3>2. s.parsed + 1 < Len(wire) /\ wire[(s.parsed + 1) + 1] \in May("crlf")
      BY <2>7, <3>1, NextToken
    <3> QED BY <2>6, <3>2 DEF May
  <2>10. Tracked(t) /\ Moved(t, s)
    <3>1. Aligned(t)
      BY <2>5, <2>9 DEF Aligned, Expected
    <3>2. Hungry(t) /\ t.parsed > s.parsed /\ t.parsed >= s.parsed
      BY <1>1, <2>5, <2>6 DEF Hungry
    <3> QED BY <2>6, <3>1, <3>2 DEF Tracked, Moved
  <2>8. Inside(t)
    <3>1. MoreOK(t) /\ Between(t) /\ Known(t)
      BY <1>2, <2>5, <2>6, <2>7 DEF MoreOK, Between, Known
    <3>2. Quiet(t)
      BY <2>7 DEF Quiet, Calm
    <3>3. Onward(t)
      BY <1>2, <2>6 DEF Onward, Roomy, Bounded
    <3> QED BY <2>10, <3>1, <3>2, <3>3 DEF Inside
  <2> QED BY <2>5, <2>6, <2>7, <2>8, <2>10 DEF Parsing, EofOK, t
<1>6. CASE s.phase = "data"
  <2> DEFINE n == Run(s)
             b == IF n = 0 THEN s ELSE OnBody(Consume(s, n), n)
  <2>1. /\ n \in Nat /\ s.parsed + n <= s.arrived /\ Before[s.parsed + n] = Before[s.parsed] + n
        /\ mode.kind # "chunked" => s.parsed + n = s.arrived
        /\ n > 0 => wire[s.parsed + n] = "byte"
        /\ s.parsed + n < s.arrived => wire[s.parsed + n + 1] # "byte"
    BY <1>1, RunFacts
  <2>2. t = AfterBody(b)
    BY <1>6 DEF ExecuteTurn
  <2>3. n # 0 => b = AfterFeed(Piece(s, n))
    BY DEF OnBody, Piece
  <2>4. n = 0 => b = s
    OBVIOUS
  <2> HIDE DEF n, b, t
  <2>5. /\ Core(b, u) /\ Fed(b) /\ Inside(b) /\ b.eof = s.eof /\ b.phase = "data"
        /\ b.parsed = s.parsed + n /\ b.arrived = s.arrived
    <3>1. CASE n = 0
      BY <1>1, <1>6, <2>4, <3>1 DEF Parsing
    <3>2. CASE n # 0
      <4>0. n > 0
        BY <2>1, <3>2
      <4>1. /\ Core(b, u) /\ Fed(b) /\ Inside(b) /\ Same(b, s, PieceChanges) /\ b.parsed = s.parsed + n
        BY <1>0, <1>2, <1>6, <2>1, <2>3, <3>2, <4>0, OnBodyFields
      <4>2. b.eof = s.eof /\ b.phase = s.phase /\ b.arrived = s.arrived
        BY <4>1 DEF Same, Fields, PieceChanges, Drains, Inflating
      <4> QED BY <1>6, <4>1, <4>2
    <3> QED BY <3>1, <3>2
  <2>6. mode.kind # "chunked" => b.parsed = b.arrived
    BY <2>1, <2>5
  <2>7. /\ MoreOK(b) /\ Between(b) /\ Known(b) /\ Quiet(b) /\ Onward(b) /\ Tracked(b)
    BY <2>5 DEF Inside
  <2>8. b.held \in Nat
    BY <2>5 DEF Core, Typed, ParserTyped
  <2>9. ~b.pending => b.held = 0 /\ ~b.more
    <3>1. ~b.pending => ~b.more BY <1>2, <2>7 DEF Known
    <3> QED BY <2>7, <2>8, <3>1 DEF MoreOK
  <2>10. CASE b.pending
    <3>1. t = b
      BY <2>2, <2>10 DEF AfterBody
    <3> QED BY <2>5, <2>6, <2>10, <3>1 DEF Parsing, EofOK, Moved, Stopped, t
  <2>11. CASE ~b.pending /\ LengthReached(b)
    <3>1. t = StreamFeedEof(b)
      BY <2>2, <2>11 DEF AfterBody
    <3>2. Core(t, u) /\ Same(t, b, {"fut", "eof", "rpaused", "tpaused", "timer", "pending"}) /\ t.eof
      BY <2>5, <3>1, EofCore
    <3>3. t.total = b.total /\ t.held = b.held /\ t.parsed = b.parsed /\ t.arrived = b.arrived
      BY <3>2 DEF Same, Fields
    <3>4. Fed(t)
      BY <2>5, <3>3 DEF Fed
    <3>5. EofOK(t)
      BY <2>9, <2>11, <3>3 DEF EofOK, LengthReached
    <3> QED BY <2>6, <3>2, <3>3, <3>4, <3>5 DEF Parsing, Moved, Stopped, t
  <2>12. CASE ~b.pending /\ ~LengthReached(b) /\ ChunkOver(b)
    <3>1. t = [b EXCEPT !.phase = "crlf"]
      BY <2>2, <2>12 DEF AfterBody
    <3>2. Core(t, u) /\ Fed(t) /\ Same(t, b, {"phase"}) /\ t.phase = "crlf"
      BY <2>5, <3>1, PhaseStep
    <3>3. /\ t.eof = b.eof /\ t.pending = b.pending /\ t.more = b.more /\ t.held = b.held
          /\ t.size = b.size /\ t.low = b.low /\ t.parsed = b.parsed /\ t.arrived = b.arrived
          /\ t.eofPending = b.eofPending
      BY <3>2 DEF Same, Fields
    <3>4. mode.kind = "chunked"
      BY <2>12 DEF ChunkOver
    <3>6. Tracked(t)
      <4>1. b.parsed < Len(wire) /\ wire[b.parsed + 1] \in {"byte", "crlf"}
        BY <1>2, <2>5, <2>7, <3>4 DEF Tracked, Aligned, Expected
      <4>2. wire[b.parsed + 1] # "byte"
        BY <2>12 DEF ChunkOver, ChunkOpen
      <4>3. Aligned(t)
        BY <3>2, <3>3, <4>1, <4>2 DEF Aligned, Expected
      <4> QED BY <2>12, <3>3, <4>3 DEF Tracked
    <3>7. Moved(t, s)
      <4>1. Hungry(t)
        BY <3>2 DEF Hungry
      <4>2. t.parsed = s.parsed + n /\ t.arrived = s.arrived
        BY <2>5, <3>3
      <4>3. t.parsed >= s.parsed
        BY <1>1, <2>1, <4>2
      <4>4. CASE s.parsed = s.arrived
        <5>1. t.parsed = t.arrived
          BY <1>1, <2>1, <4>2, <4>4
        <5> QED BY <5>1 DEF Moved, Stopped
      <4>5. CASE s.parsed # s.arrived
        <5>1. s.parsed < s.arrived
          BY <1>1, <4>5
        <5>2. n = 0 => wire[s.parsed + 1] # "byte"
          BY <1>1, <2>1, <5>1
        <5>3. Hungry(s) => n # 0
          BY <1>6, <5>1, <5>2 DEF Hungry
        <5>4. Hungry(s) => t.parsed > s.parsed
          BY <1>1, <2>1, <4>2, <5>3
        <5> QED BY <4>1, <4>3, <5>4 DEF Moved
      <4> QED BY <4>4, <4>5
    <3>5. Inside(t)
      <4>1. MoreOK(t) /\ Between(t) /\ Known(t)
        BY <2>7, <2>9, <2>12, <3>3, <3>4 DEF MoreOK, Between, Known
      <4>2. Quiet(t)
        BY <3>4 DEF Quiet, Calm
      <4>3. Onward(t)
        BY <2>7, <3>3 DEF Onward, Roomy, Bounded
      <4> QED BY <3>6, <4>1, <4>2, <4>3 DEF Inside
    <3> QED BY <2>5, <3>2, <3>3, <3>4, <3>5, <3>7 DEF Parsing, EofOK, t
  <2>13. CASE ~b.pending /\ ~LengthReached(b) /\ ~ChunkOver(b)
    <3>1. t = b
      BY <2>2, <2>13 DEF AfterBody
    <3>2. b.parsed = b.arrived
      <4>1. CASE mode.kind # "chunked"
        BY <2>6, <4>1
      <4>2. CASE mode.kind = "chunked"
        <5>1. wire[b.parsed + 1] = "byte"
          BY <2>13, <4>2 DEF ChunkOver, ChunkOpen
        <5>2. ~(s.parsed + n < s.arrived)
          BY <2>1, <2>5, <5>1
        <5>3. s.parsed + n = s.arrived
          BY <1>1, <2>1, <5>2
        <5> QED BY <2>5, <5>3
      <4> QED BY <4>1, <4>2
    <3> QED BY <2>5, <2>6, <3>1, <3>2 DEF Parsing, EofOK, Moved, Stopped, t
  <2> QED BY <2>10, <2>11, <2>12, <2>13
<1>7. CASE /\ ~(s.phase = "size" /\ AtToken(s, "size")) /\ ~(s.phase = "size" /\ AtToken(s, "last"))
           /\ ~(s.phase = "crlf" /\ AtToken(s, "crlf")) /\ s.phase # "data"
  <2>1. t = s
    BY <1>7 DEF ExecuteTurn
  <2>2. mode.kind = "chunked" /\ s.phase \in {"size", "crlf"}
    BY <1>0, <1>1, <1>7 DEF Between
  <2>3. s.parsed = s.arrived
    <3> SUFFICES ASSUME s.parsed < s.arrived PROVE FALSE
      BY <1>1
    <3>1. wire[s.parsed + 1] \in Expected(s.phase)
      BY <1>0, <2>2 DEF Aligned
    <3>2. /\ s.phase = "size" => wire[s.parsed + 1] \in {"size", "last"}
          /\ s.phase = "crlf" => wire[s.parsed + 1] = "crlf"
      BY <3>1 DEF Expected
    <3> QED BY <1>7, <2>2, <3>2 DEF AtToken
  <2> HIDE DEF t
  <2> QED BY <2>1, <2>2, <2>3 DEF Moved, Stopped, t
<1> QED BY <1>3, <1>4, <1>5, <1>6, <1>7

\* A turn of the Python parser, on a chunked body.
LEMMA OneChunkTurn ==
  ASSUME Given, mode.parser = "python", mode.kind = "chunked", NEW u, NEW s, Parsing(s, u), ~s.eof, ~s.pending
  PROVE  Parsing(ChunkTurn(s), u)
<1> DEFINE t == ChunkTurn(s)
<1>0. /\ Core(s, u) /\ Fed(s) /\ MoreOK(s) /\ Between(s) /\ Onward(s)
  BY DEF Parsing, Inside
<1>1. /\ s.parsed \in Nat /\ s.arrived \in Nat /\ s.parsed <= s.arrived /\ s.arrived <= Len(wire)
      /\ s.held \in Nat /\ s.phase \in {"size", "data", "crlf"} /\ Len(wire) \in Nat
      /\ s.total \in Nat /\ s.ppaused \in BOOLEAN
  BY <1>0 DEF Core, Typed, ParserTyped, StreamTyped, Counted, Given
<1>2. ASSUME NEW r PROVE Known(r) /\ Quiet(r) /\ Tracked(r)
  BY DEF Known, Quiet, Quick, Calm, Tracked
<1>3. CASE s.phase = "size" /\ AtToken(s, "size")
  <2> DEFINE w == Consume(s, 1)
  <2>1. Core(w, u) /\ Fed(w) /\ Same(w, s, {"parsed"}) /\ w.parsed = s.parsed + 1
    BY <1>0, <1>3, TakeToken
  <2>2. t = [w EXCEPT !.phase = "data"]
    BY <1>3 DEF ChunkTurn, AtToken
  <2> HIDE DEF w, t
  <2>3. Core(t, u) /\ Fed(t) /\ Same(t, w, {"phase"}) /\ t.phase = "data"
    BY <2>1, <2>2, PhaseStep
  <2>4. /\ t.eof = s.eof /\ t.pending = s.pending /\ t.more = s.more /\ t.held = s.held
        /\ t.size = s.size /\ t.low = s.low /\ t.ppaused = s.ppaused /\ t.parsed = s.parsed + 1
        /\ t.eofPending = s.eofPending
    BY <2>1, <2>3 DEF Same, Fields
  <2>5. Inside(t)
    <3>1. MoreOK(t) /\ Between(t)
      BY <1>0, <2>3, <2>4 DEF MoreOK, Between
    <3>2. s.parsed # s.arrived
      BY <1>1, <1>3 DEF AtToken
    <3>3. Onward(t)
      BY <1>0, <2>4, <3>2 DEF Onward, Roomy, Bounded
    <3> QED BY <1>2, <3>1, <3>3 DEF Inside
  <2> QED BY <2>3, <2>4, <2>5 DEF Parsing, EofOK, t
<1>4. CASE s.phase = "size" /\ AtToken(s, "last")
  <2> DEFINE w == Consume(s, 1)
  <2>1. Core(w, u) /\ Fed(w) /\ Same(w, s, {"parsed"}) /\ w.parsed = s.parsed + 1
    BY <1>0, <1>4, TakeToken
  <2>2. t = StreamFeedEof(w)
    BY <1>4 DEF ChunkTurn, AtToken
  <2> HIDE DEF w, t
  <2>3. Core(t, u) /\ Same(t, w, {"fut", "eof", "rpaused", "tpaused", "timer", "pending"}) /\ t.eof
    BY <2>1, <2>2, EofCore
  <2>4. t.total = w.total /\ t.held = w.held /\ t.parsed = w.parsed /\ w.held = s.held
    BY <2>1, <2>3 DEF Same, Fields
  <2>5. Fed(t)
    BY <2>1, <2>4 DEF Fed
  <2>6. s.parsed + 1 = Len(wire)
    <3>1. s.parsed + 1 \in 1..Len(wire) /\ wire[s.parsed + 1] = "last"
      BY <1>1, <1>4 DEF AtToken
    <3> QED BY <3>1, LastToken
  <2>7. s.held = 0
    BY <1>0, <1>4 DEF Between
  <2>8. EofOK(t)
    BY <2>1, <2>4, <2>6, <2>7 DEF EofOK
  <2> QED BY <2>3, <2>5, <2>8 DEF Parsing, t
<1>5. CASE s.phase = "crlf" /\ AtToken(s, "crlf")
  <2> DEFINE w == Consume(s, 1)
  <2>1. Core(w, u) /\ Fed(w) /\ Same(w, s, {"parsed"}) /\ w.parsed = s.parsed + 1
    BY <1>0, <1>5, TakeToken
  <2>2. t = [w EXCEPT !.phase = "size"]
    BY <1>5 DEF ChunkTurn, AtToken
  <2> HIDE DEF w, t
  <2>3. Core(t, u) /\ Fed(t) /\ Same(t, w, {"phase"}) /\ t.phase = "size"
    BY <2>1, <2>2, PhaseStep
  <2>4. /\ t.eof = s.eof /\ t.pending = s.pending /\ t.more = s.more /\ t.held = s.held
        /\ t.size = s.size /\ t.low = s.low /\ t.ppaused = s.ppaused /\ t.parsed = s.parsed + 1
        /\ t.eofPending = s.eofPending
    BY <2>1, <2>3 DEF Same, Fields
  <2>5. Inside(t)
    <3>1. MoreOK(t) /\ Between(t)
      BY <1>0, <1>5, <2>3, <2>4 DEF MoreOK, Between
    <3>2. s.parsed # s.arrived
      BY <1>1, <1>5 DEF AtToken
    <3>3. Onward(t)
      BY <1>0, <2>4, <3>2 DEF Onward, Roomy, Bounded
    <3> QED BY <1>2, <3>1, <3>3 DEF Inside
  <2> QED BY <2>3, <2>4, <2>5 DEF Parsing, EofOK, t
<1>6. CASE s.phase = "data" /\ s.ppaused
  <2>1. t = Stop(s)
    BY <1>6 DEF ChunkTurn
  <2> HIDE DEF t
  <2>2. Core(t, u) /\ Fed(t) /\ Same(t, s, {"ppaused", "pending"}) /\ ~t.ppaused /\ t.pending
    BY <1>0, <2>1, StopStep
  <2>3. t.eof = s.eof /\ t.more = s.more /\ t.held = s.held /\ t.phase = s.phase
    BY <2>2 DEF Same, Fields
  <2>4. Inside(t)
    <3>1. MoreOK(t) /\ Between(t)
      BY <1>0, <2>3 DEF MoreOK, Between
    <3>2. Onward(t)
      BY <2>2 DEF Onward
    <3> QED BY <1>2, <3>1, <3>2 DEF Inside
  <2> QED BY <2>2, <2>3, <2>4 DEF Parsing, EofOK, t
<1>7. CASE s.phase = "data" /\ ~s.ppaused
  <2> DEFINE n == Run(s)
             p == Piece(s, n)
  <2>1. /\ n \in Nat /\ s.parsed + n <= s.arrived /\ Before[s.parsed + n] = Before[s.parsed] + n
        /\ s.parsed + n < s.arrived => wire[s.parsed + n + 1] # "byte"
    BY <1>1, RunFacts
  <2>2. t = AfterPiece(p)
    BY <1>7 DEF ChunkTurn, Piece
  <2> HIDE DEF n, t
  <2>3. Roomy(s) \/ (n = 0 /\ s.held = 0 /\ s.parsed = s.arrived)
    BY <1>0, <1>1, <1>7, <2>1 DEF Onward
  <2>4. Core(p, u) /\ PieceDone(p, s, n)
    BY <1>0, <2>1, <2>3, PieceFields
  <2> HIDE DEF p
  <2>5. /\ Same(p, s, PieceChanges) /\ p.parsed = s.parsed + n
        /\ MoreOK(p) /\ DrainIdle(p) /\ p.total + p.held = s.total + s.held + Inflated(n)
        /\ Roomy(s) => Room(p)
        /\ n = 0 /\ s.held = 0 => /\ p.held = 0 /\ ~p.more /\ ~p.pending
                                  /\ p.size = s.size /\ p.ppaused = s.ppaused
    BY <2>4 DEF PieceDone
  <2>6. Fed(p)
    <3>1. s.parsed \in 0..Len(wire)
      BY <1>1
    <3>2. Before[s.parsed] \in Nat
      BY <3>1 DEF Given
    <3>3. Inflated(Before[s.parsed] + n) = Inflated(Before[s.parsed]) + Inflated(n)
      BY <2>1, <3>2, InflatedFacts
    <3>4. p.total + p.held = (s.total + s.held) + Inflated(n)
      BY <2>5
    <3> QED BY <1>0, <2>1, <2>5, <3>3, <3>4 DEF Fed
  <2>7. /\ p.eof = s.eof /\ p.phase = "data" /\ p.arrived = s.arrived
    BY <1>7, <2>5 DEF Same, Fields, PieceChanges, Drains, Inflating
  <2>8. p.held \in Nat /\ p.parsed \in Nat
    BY <2>4 DEF Core, Typed, ParserTyped
  <2>9. ~p.pending => ~p.more /\ p.held = 0
    BY <2>5, <2>8 DEF DrainIdle, MoreOK
  <2>10. ~p.pending => Roomy(p) \/ p.ppaused \/ p.parsed = p.arrived
    <3>1. CASE Roomy(s)
      BY <2>5, <3>1 DEF Room, Roomy
    <3>2. CASE n = 0 /\ s.held = 0 /\ s.parsed = s.arrived
      BY <1>1, <2>5, <2>7, <3>2
    <3> QED BY <2>3, <3>1, <3>2
  <2>11. CASE p.pending
    <3>1. t = p
      BY <2>2, <2>11 DEF AfterPiece
    <3>2. Between(p) /\ Onward(p)
      BY <2>7, <2>11 DEF Between, Onward
    <3>3. Inside(p)
      BY <1>2, <2>5, <3>2 DEF Inside
    <3> QED BY <2>4, <2>6, <2>7, <3>1, <3>3 DEF Parsing, EofOK, t
  <2>12. CASE ~p.pending /\ ChunkOver(p)
    <3> DEFINE e == EndChunk(p)
    <3>1. t = [e EXCEPT !.phase = "crlf"]
      BY <2>2, <2>12 DEF AfterPiece
    <3>2. Core(e, u) /\ Same(e, p, {"fut", "splits", "rpaused", "ppaused", "tpaused", "timer"}) /\ (p.ppaused => e.ppaused)
      BY <2>4, EndCore
    <3> HIDE DEF e
    <3>3. Fed(e)
      <4>1. e.total = p.total /\ e.held = p.held /\ e.parsed = p.parsed
        BY <3>2 DEF Same, Fields
      <4> QED BY <2>6, <4>1 DEF Fed
    <3>4. Core(t, u) /\ Fed(t) /\ Same(t, e, {"phase"}) /\ t.phase = "crlf"
      BY <3>1, <3>2, <3>3, PhaseStep
    <3>5. /\ t.eof = p.eof /\ t.pending = p.pending /\ t.more = p.more /\ t.held = p.held
          /\ t.size = p.size /\ t.low = p.low /\ t.parsed = p.parsed /\ t.arrived = p.arrived
          /\ t.ppaused = e.ppaused /\ t.eofPending = p.eofPending
      BY <3>2, <3>4 DEF Same, Fields
    <3>6. MoreOK(t) /\ Between(t)
      BY <2>9, <2>12, <3>5 DEF MoreOK, Between
    <3>7. Onward(t)
      BY <2>9, <2>10, <2>12, <3>2, <3>5 DEF Onward, Roomy, Bounded
    <3>8. Inside(t)
      BY <1>2, <3>6, <3>7 DEF Inside
    <3> QED BY <2>7, <3>4, <3>5, <3>8 DEF Parsing, EofOK, t
  <2>13. CASE ~p.pending /\ ~ChunkOver(p)
    <3>1. t = [p EXCEPT !.ppaused = FALSE]
      BY <2>2, <2>13 DEF AfterPiece
    <3>0. Shape(p) /\ ParserTyped(p) /\ Counted(p)
      BY <2>4 DEF Core, Typed
    <3>2. Shape(t) BY <3>0, <3>1 DEF Shape
    <3>3. Same(t, p, {"ppaused"}) BY <3>0, <3>1 DEF Shape, Same
    <3>4. t.ppaused = FALSE BY <3>0, <3>1 DEF Shape, Fields
    <3>5. /\ t.eof = p.eof /\ t.pending = p.pending /\ t.more = p.more /\ t.held = p.held
          /\ t.total = p.total /\ t.parsed = p.parsed /\ t.arrived = p.arrived /\ t.phase = p.phase
          /\ t.eofPending = p.eofPending
      BY <3>3 DEF Same, Fields
    <3>6. Core(t, u)
      <4>1. ParserTyped(t) /\ t.parsed <= t.arrived
        BY <3>0, <3>4, <3>5 DEF ParserTyped, Counted
      <4>2. Same(t, p, ParserOwn)
        BY <3>3 DEF Same, ParserOwn
      <4> QED BY <2>4, <3>2, <4>1, <4>2, TouchCore
    <3>7. Fed(t)
      BY <2>6, <3>5 DEF Fed
    <3>8. p.parsed = p.arrived
      <4>1. wire[p.parsed + 1] = "byte"
        BY <2>13 DEF ChunkOver, ChunkOpen
      <4>2. ~(s.parsed + n < s.arrived)
        BY <2>1, <2>5, <4>1
      <4>3. s.parsed + n = s.arrived
        BY <1>1, <2>1, <4>2
      <4> QED BY <2>5, <2>7, <4>3
    <3>9. MoreOK(t) /\ Between(t) /\ Onward(t)
      BY <2>7, <2>9, <2>13, <3>5, <3>8 DEF MoreOK, Between, Onward
    <3>10. Inside(t)
      BY <1>2, <3>9 DEF Inside
    <3> QED BY <2>7, <3>5, <3>6, <3>7, <3>10 DEF Parsing, EofOK, t
  <2> QED BY <2>11, <2>12, <2>13
<1>8. CASE /\ ~(s.phase = "size" /\ AtToken(s, "size")) /\ ~(s.phase = "size" /\ AtToken(s, "last"))
           /\ ~(s.phase = "crlf" /\ AtToken(s, "crlf")) /\ s.phase # "data"
  <2>1. t = s
    BY <1>8 DEF ChunkTurn
  <2> HIDE DEF t
  <2> QED BY <2>1 DEF t
<1> QED BY <1>3, <1>4, <1>5, <1>6, <1>7, <1>8

(* ------------------------------- the parser ------------------------------ *)

\* A turn, of the parser that is used.
LEMMA OneParseTurn ==
  ASSUME Given, mode.parser = "python" => mode.kind = "chunked", NEW u, NEW s, Parsing(s, u)
  PROVE  LET t == ParseTurn(s)
         IN  /\ Parsing(t, u)
             /\ mode.kind # "chunked" /\ (s.parsed = s.arrived \/ ~(s.pending \/ s.eof)) => t.parsed = t.arrived
             /\ Quick => Moved(t, s)
<1> DEFINE t == ParseTurn(s)
<1>0. mode.parser \in {"python", "extension"}
  BY DEF Given
<1>1. CASE s.pending \/ s.eof
  <2>1. t = s
    BY <1>1 DEF ParseTurn
  <2> HIDE DEF t
  <2> QED BY <1>1, <2>1 DEF t, Moved, Stopped
<1>2. CASE ~(s.pending \/ s.eof) /\ mode.parser = "extension"
  <2>1. t = ExecuteTurn(s)
    BY <1>2 DEF ParseTurn
  <2> HIDE DEF t
  <2>2. Parsing(t, u) /\ (mode.kind # "chunked" => t.parsed = t.arrived) /\ Moved(t, s)
    BY <1>2, <2>1, OneExecuteTurn
  <2> QED BY <2>2 DEF t
<1>3. CASE ~(s.pending \/ s.eof) /\ mode.parser = "python"
  <2>1. t = ChunkTurn(s)
    BY <1>3 DEF ParseTurn
  <2> HIDE DEF t
  <2>2. Parsing(t, u)
    BY <1>3, <2>1, OneChunkTurn
  <2> QED BY <1>3, <2>2 DEF t, Quick
<1> QED BY <1>0, <1>1, <1>2, <1>3

\* f is the states of Parse(s), which stay in D.
ParseRun(f, s, D) ==
  /\ f[0] = s /\ \A n \in 0..Turns(s) : f[n] \in D
  /\ \A n \in 1..Turns(s) : f[n] = ParseTurn(f[n - 1])
  /\ Parse(s) = f[Turns(s)]

\* The loop of Parse is a run of turns.
LEMMA ParseIs ==
  ASSUME NEW s, s.arrived \in Nat, s.parsed \in Nat, s.parsed <= s.arrived, NEW D, s \in D, \A t \in D : ParseTurn(t) \in D
  PROVE  \E f : ParseRun(f, s, D)
<1> DEFINE N == Turns(s)
           T == [t \in D |-> ParseTurn(t)]
           Eq(g) == g = [n \in 0..N |-> IF n = 0 THEN s ELSE ParseTurn(g[n - 1])]
           after == CHOOSE g : Eq(g)
<1>0. N \in Nat
  BY DEF Turns
<1>1. Parse(s) = after[N]
  BY DEF Parse
<1> HIDE DEF N
<1>2. \A t \in D : T[t] = ParseTurn(t)
  OBVIOUS
<1>3. T \in [D -> D]
  OBVIOUS
<1> HIDE DEF T
<1>4. PICK g : Repeats(g, s, T, N, D)
  BY <1>0, <1>3, Repeated
<1>5. g \in [0..N -> D] /\ g[0] = s /\ \A n \in 1..N : g[n] = T[g[n - 1]]
  BY <1>4 DEF Repeats
<1>6. Eq(g)
  <2>1. ASSUME NEW n \in 0..N PROVE g[n] = IF n = 0 THEN s ELSE ParseTurn(g[n - 1])
    <3>1. CASE n = 0
      BY <1>5, <3>1
    <3>2. CASE n # 0
      <4>1. n \in 1..N /\ n - 1 \in 0..N
        BY <1>0, <3>2
      <4>2. g[n - 1] \in D /\ g[n] = T[g[n - 1]]
        BY <1>5, <4>1
      <4> QED BY <1>2, <3>2, <4>2
    <3> QED BY <3>1, <3>2
  <2>2. g = [n \in 0..N |-> g[n]]
    BY <1>5
  <2> QED BY <2>1, <2>2
<1>7. Eq(after)
  <2> HIDE DEF Eq
  <2> QED BY <1>6
<1> HIDE DEF after
<1>8. after[0] = s /\ \A n \in 1..N : after[n] = ParseTurn(after[n - 1])
  <2>1. \A n \in 1..N : n \in 0..N /\ n # 0
    BY <1>0
  <2>2. 0 \in 0..N
    BY <1>0
  <2> QED BY <1>7, <2>1, <2>2
<1> HIDE DEF Eq
<1> DEFINE S == {n \in Nat : after[n] \in D}
<1>9. 0 \in S
  BY <1>8
<1>10. ASSUME NEW n \in 0..N, n # N, n \in S PROVE n + 1 \in S
  <2>1. n + 1 \in 1..N /\ (n + 1) - 1 = n /\ n + 1 \in Nat
    BY <1>0, <1>10
  <2>2. after[n] \in D /\ after[n + 1] = ParseTurn(after[n])
    BY <1>8, <1>10, <2>1
  <2> QED BY <2>1, <2>2
<1> HIDE DEF S
<1>11. 0..N \subseteq S
  BY <1>0, <1>9, <1>10, BoundedInduction
<1>12. \A n \in 0..N : after[n] \in D
  BY <1>11 DEF S
<1> QED BY <1>1, <1>8, <1>12 DEF N, ParseRun

\* What it leaves, and all of a body without chunks is taken.
LEMMA ParseDone ==
  ASSUME Given, mode.parser = "python" => mode.kind = "chunked", NEW u, NEW s, Parsing(s, u), ~s.eof, ~s.pending
  PROVE  LET t == Parse(s)
         IN  Parsing(t, u) /\ (mode.kind # "chunked" => t.parsed = t.arrived) /\ (Quick => Stopped(t))
<1> DEFINE N == Turns(s)
           D == {t \in Records : Parsing(t, u)}
<1>0. s.arrived \in Nat /\ s.parsed \in Nat /\ s.parsed <= s.arrived
  BY DEF Parsing, Core, Typed, ParserTyped, Counted
<1>1. N \in Nat /\ N >= 1
  BY <1>0 DEF Turns
<1>2. \A t : Parsing(t, u) => t \in D
  <2> SUFFICES ASSUME NEW t, Parsing(t, u) PROVE t \in Records
    OBVIOUS
  <2>1. Typed(t)
    BY DEF Parsing, Core
  <2> QED BY <2>1, TypedIsRecord
<1>3. \A t \in D : Parsing(t, u)
  OBVIOUS
<1> HIDE DEF D
<1>4. \A t \in D : ParseTurn(t) \in D
  BY <1>2, <1>3, OneParseTurn
<1>5. s \in D
  BY <1>2
<1> HIDE DEF N
<1>6. PICK f : /\ f[0] = s /\ \A n \in 0..N : f[n] \in D
               /\ \A n \in 1..N : f[n] = ParseTurn(f[n - 1])
               /\ Parse(s) = f[N]
  <2>1. \E f : ParseRun(f, s, D)
    BY <1>0, <1>4, <1>5, ParseIs
  <2> QED BY <2>1 DEF N, ParseRun
<1> DEFINE S == {n \in Nat : n >= 1 /\ mode.kind # "chunked" => f[n].parsed = f[n].arrived}
<1>7. 0 \in S
  OBVIOUS
<1>8. ASSUME NEW n \in 0..N, n # N, n \in S PROVE n + 1 \in S
  <2> DEFINE t == f[n]
             w == f[n + 1]
  <2>1. n + 1 \in 1..N /\ (n + 1) - 1 = n /\ n + 1 \in Nat /\ n \in Nat
    BY <1>1, <1>8
  <2>2. w = ParseTurn(t) /\ t \in D
    BY <1>6, <1>8, <2>1
  <2>3. mode.kind # "chunked" => t.parsed = t.arrived \/ ~(t.pending \/ t.eof)
    <3>1. CASE n = 0
      BY <1>6, <3>1
    <3>2. CASE n # 0
      BY <1>8, <2>1, <3>2
    <3> QED BY <3>1, <3>2
  <2> HIDE DEF t, w
  <2>4. mode.kind # "chunked" => w.parsed = w.arrived
    BY <1>3, <2>2, <2>3, OneParseTurn
  <2> QED BY <2>1, <2>4 DEF w
<1> HIDE DEF S
<1>9. 0..N \subseteq S
  BY <1>1, <1>7, <1>8, BoundedInduction
<1> DEFINE A == {n \in Nat : n >= 1 =>
                     (Stopped(f[n]) \/ (Hungry(f[n]) /\ f[n].parsed >= s.parsed + (n - 1)))}
<1>20. 0 \in A
  OBVIOUS
<1>21. ASSUME Quick, NEW n \in 0..N, n # N, n \in A PROVE n + 1 \in A
  <2> DEFINE t == f[n]
             w == f[n + 1]
  <2>1. n + 1 \in 1..N /\ (n + 1) - 1 = n /\ n + 1 \in Nat /\ n \in Nat /\ n \in 0..N /\ n + 1 \in 0..N
    BY <1>1, <1>21
  <2>2. w = ParseTurn(t) /\ t \in D /\ w \in D
    BY <1>6, <2>1
  <2>3. n >= 1 => Stopped(t) \/ (Hungry(t) /\ t.parsed >= s.parsed + (n - 1))
    BY <1>21, <2>1
  <2>4. n = 0 => t = s
    BY <1>6
  <2> HIDE DEF t, w
  <2>5. Parsing(t, u) /\ Parsing(w, u) /\ Moved(w, t) /\ w = ParseTurn(t)
    BY <1>3, <1>21, <2>2, OneParseTurn
  <2>6. /\ t.parsed \in Nat /\ t.arrived \in Nat /\ w.parsed \in Nat /\ w.arrived \in Nat
        /\ w.parsed <= w.arrived /\ t.arrived = u.arrived /\ w.arrived = u.arrived
    BY <2>5 DEF Parsing, Core, Typed, ParserTyped, Counted, Same, Fields, ByParser
  <2>7. Stopped(w) \/ (Hungry(w) /\ w.parsed >= s.parsed + n)
    <3> SUFFICES ASSUME ~Stopped(w) PROVE Hungry(w) /\ w.parsed >= s.parsed + n
      OBVIOUS
    <3>1. Hungry(w) /\ w.parsed >= t.parsed /\ (Hungry(t) => w.parsed > t.parsed)
      BY <2>5 DEF Moved
    <3>2. ~Stopped(t)
      <4>1. CASE t.eof \/ t.pending
        BY <2>5, <4>1 DEF ParseTurn, Stopped
      <4>2. CASE t.parsed = t.arrived
        <5>1. w.parsed = w.arrived
          BY <2>6, <3>1, <4>2
        <5> QED BY <5>1 DEF Stopped
      <4> QED BY <4>1, <4>2 DEF Stopped
    <3>3. CASE n = 0
      BY <1>0, <2>4, <2>6, <3>1, <3>3
    <3>4. CASE n # 0
      <4>1. n >= 1
        BY <2>1, <3>4
      <4>2. t.parsed >= s.parsed + (n - 1) /\ w.parsed > t.parsed
        BY <2>3, <3>1, <3>2, <4>1
      <4>3. w.parsed >= s.parsed + n
        BY <1>0, <2>1, <2>6, <4>1, <4>2
      <4> QED BY <3>1, <4>3
    <3> QED BY <2>1, <3>3, <3>4
  <2>8. Stopped(f[n + 1]) \/ (Hungry(f[n + 1]) /\ f[n + 1].parsed >= s.parsed + ((n + 1) - 1))
    BY <2>1, <2>7 DEF w
  <2> QED BY <2>1, <2>8
<1> HIDE DEF A
<1>22. Quick => 0..N \subseteq A
  BY <1>1, <1>20, <1>21, BoundedInduction
<1>10. N \in S /\ N \in 0..N
  BY <1>1, <1>9
<1>23. Quick => Stopped(f[N])
  <2> SUFFICES ASSUME Quick, ~Stopped(f[N]) PROVE FALSE
    OBVIOUS
  <2>1. f[N].parsed >= s.parsed + (N - 1)
    <3>1. N \in A
      BY <1>10, <1>22
    <3> QED BY <1>1, <3>1 DEF A
  <2>2. Parsing(f[N], u) /\ Parsing(s, u)
    BY <1>3, <1>6, <1>10
  <2>3. f[N].parsed \in Nat /\ f[N].parsed <= f[N].arrived /\ f[N].arrived = s.arrived
    BY <2>2 DEF Parsing, Core, Typed, ParserTyped, Counted, Same, Fields, ByParser
  <2>4. N - 1 = s.arrived - s.parsed
    BY <1>0 DEF N, Turns
  <2>5. f[N].parsed = f[N].arrived
    <3> HIDE DEF N
    <3> QED BY <1>0, <2>1, <2>3, <2>4
  <2> QED BY <2>5 DEF Stopped
<1>11. mode.kind # "chunked" => f[N].parsed = f[N].arrived
  BY <1>1, <1>10 DEF S
<1> QED BY <1>3, <1>6, <1>10, <1>11, <1>23

\* The Python parser takes a body without chunks as one block.
LEMMA BlockDone ==
  ASSUME Given, mode.parser = "python", mode.kind # "chunked", NEW u, NEW s, Core(s, u), Fed(s), ~s.eof,
         ~s.pending, ~s.eofPending, Roomy(s), Between(s), Calm => ~s.ppaused
  PROVE  LET t == ParseBlock(s)
         IN  Parsing(t, u) /\ t.parsed = t.arrived
<1> DEFINE n == s.arrived - s.parsed
           p == Piece(s, n)
           t == ParseBlock(s)
<1>1. /\ s.parsed \in Nat /\ s.arrived \in Nat /\ s.parsed <= s.arrived /\ s.arrived <= Len(wire)
      /\ s.held \in Nat /\ s.total \in Nat /\ Len(wire) \in Nat /\ s.ppaused \in BOOLEAN
      /\ s.rpaused \in BOOLEAN
  BY DEF Core, Typed, ParserTyped, StreamTyped, TransportTyped, Counted, Given
<1>2. t = CompleteBlock(p)
  BY DEF ParseBlock, Piece
<1>3. n \in Nat /\ s.parsed + n = s.arrived
  BY <1>1
<1>4. s.parsed \in 0..Len(wire) /\ s.arrived \in 0..Len(wire)
  BY <1>1
<1>5. Before[s.parsed + n] = Before[s.parsed] + n /\ Before[s.parsed] \in Nat
  BY <1>1, <1>3, <1>4, BeforePlain
<1> HIDE DEF n, t
<1>6. s.parsed + n <= s.arrived
  BY <1>1, <1>3
<1>7. Core(p, u) /\ PieceDone(p, s, n)
  BY <1>3, <1>6, PieceFields
<1> HIDE DEF p
<1>8. /\ Same(p, s, PieceChanges) /\ p.parsed = s.parsed + n
      /\ MoreOK(p) /\ DrainIdle(p) /\ p.total + p.held = s.total + s.held + Inflated(n)
      /\ Room(p)
      /\ p.pending => s.ppaused \/ p.rpaused
      /\ p.pending => ~p.ppaused
      /\ n = 0 /\ s.held = 0 => ~p.pending
      /\ n > 0 \/ s.held > 0 => p.size > 0
      /\ mode.codec = "zlib" /\ ~s.ppaused => ~p.ppaused
  BY <1>7 DEF PieceDone
<1>9. /\ p.eof = s.eof /\ p.phase = s.phase /\ p.arrived = s.arrived /\ p.eofPending = s.eofPending
  BY <1>8 DEF Same, Fields, PieceChanges, Drains, Inflating
<1>10. p.parsed = p.arrived
  BY <1>3, <1>8, <1>9
<1>11. Fed(p)
  <2>1. Inflated(Before[s.parsed] + n) = Inflated(Before[s.parsed]) + Inflated(n)
    BY <1>3, <1>5, InflatedFacts
  <2>2. p.total + p.held = (s.total + s.held) + Inflated(n)
    BY <1>8
  <2> QED BY <1>5, <1>8, <2>1, <2>2 DEF Fed
<1>12. p.held \in Nat
  BY <1>7 DEF Core, Typed, ParserTyped
<1>13. CASE ~p.pending /\ LengthReached(p)
  <2>1. t = StreamFeedEof(p)
    BY <1>2, <1>13 DEF CompleteBlock
  <2>2. Core(t, u) /\ Same(t, p, {"fut", "eof", "rpaused", "tpaused", "timer", "pending"}) /\ t.eof
    BY <1>7, <2>1, EofCore
  <2>3. t.total = p.total /\ t.held = p.held /\ t.parsed = p.parsed /\ t.arrived = p.arrived
    BY <2>2 DEF Same, Fields
  <2>4. Fed(t)
    BY <1>11, <2>3 DEF Fed
  <2>5. p.held = 0
    BY <1>8, <1>12, <1>13 DEF DrainIdle, MoreOK
  <2>6. EofOK(t)
    BY <1>13, <2>3, <2>5 DEF EofOK, LengthReached
  <2> QED BY <1>10, <2>2, <2>3, <2>4, <2>6 DEF Parsing, t
<1>14. CASE ~(~p.pending /\ LengthReached(p))
  <2>1. t = p
    BY <1>2, <1>9, <1>14 DEF CompleteBlock
  <2>2. Between(p) /\ Known(p)
    BY <1>8, <1>9 DEF Between, Known, DrainIdle
  <2>3. Quiet(p)
    BY <1>8 DEF Quiet, Calm
  <2>4. Onward(p)
    BY <1>8 DEF Onward, Room, Roomy, Bounded
  <2>6. Tracked(p)
    <3>1. p.pending => n > 0 \/ s.held > 0
      BY <1>1, <1>3, <1>8
    <3> QED BY <1>8, <3>1 DEF Tracked, Aligned
  <2>5. Inside(p)
    BY <1>8, <2>2, <2>3, <2>4, <2>6 DEF Inside
  <2> QED BY <1>7, <1>9, <1>10, <1>11, <2>1, <2>5 DEF Parsing, EofOK, t
<1> QED BY <1>13, <1>14

\* What the parser can begin with, with new data or without.
Ready(s, new) ==
  /\ MoreOK(s) /\ Between(s) /\ Known(s) /\ (Calm => ~s.ppaused) /\ Roomy(s)
  /\ mode.kind # "chunked" => IF new THEN mode.parser = "extension" => ~s.more ELSE s.parsed = s.arrived
  /\ Quick => Aligned(s) /\ (s.pending => ~s.ppaused) /\ (new \/ s.pending \/ s.parsed = s.arrived)

\* HttpParser.feed_data(), called by the transport or when reading is resumed.
LEMMA ParserFeedDone ==
  ASSUME Given, NEW s, Core(s, s), Fed(s), EofOK(s), ~s.eofPending, NEW new \in BOOLEAN, ~s.eof => Ready(s, new)
  PROVE  LET t == ParserFeed(s, new)
         IN  /\ Parsing(t, s) /\ (~t.eof /\ mode.kind # "chunked" => t.parsed = t.arrived)
             /\ Quick => Stopped(t)
<1> DEFINE c == [s EXCEPT !.pending = FALSE]
           t == ParserFeed(s, new)
<1>0. /\ Typed(s) /\ Shape(s) /\ ParserTyped(s) /\ Counted(s) /\ mode.parser \in {"python", "extension"}
      /\ s.rpaused \in BOOLEAN /\ s.eof \in BOOLEAN
  BY DEF Core, Typed, Given, TransportTyped, StreamTyped
<1>1. CASE s.eof
  <2>1. t = s
    BY <1>1 DEF ParserFeed
  <2> HIDE DEF t
  <2> QED BY <1>1, <2>1 DEF Parsing, Stopped, t
<1>2. Shape(c) BY <1>0 DEF Shape
<1>3. Same(c, s, {"pending"}) BY <1>0 DEF Shape, Same
<1>4. c.pending = FALSE BY <1>0 DEF Shape, Fields
<1>5. /\ s.eof = FALSE /\ mode.parser = "extension" => t = ExtensionFeed(c)
      /\ s.eof = FALSE /\ mode.parser = "python" /\ ~new /\ ~s.pending => t = s
      /\ s.eof = FALSE /\ mode.parser = "python" /\ (new \/ s.pending) =>
           t = IF mode.kind = "chunked" THEN Parse(c) ELSE ParseBlock(c)
  BY DEF ParserFeed
<1> HIDE DEF c, t
<1> SUFFICES ASSUME s.eof = FALSE
    PROVE  /\ Parsing(t, s) /\ (~t.eof /\ mode.kind # "chunked" => t.parsed = t.arrived)
           /\ Quick => Stopped(t)
  BY <1>0, <1>1 DEF t
<1>6. /\ MoreOK(s) /\ Between(s) /\ Known(s) /\ (Calm => ~s.ppaused) /\ Roomy(s) /\ Ready(s, new)
      /\ Quick => Aligned(s) /\ (s.pending => ~s.ppaused)
  BY DEF Ready
<1>7. /\ c.eof = s.eof /\ c.more = s.more /\ c.held = s.held /\ c.total = s.total
      /\ c.size = s.size /\ c.low = s.low /\ c.parsed = s.parsed /\ c.arrived = s.arrived
      /\ c.ppaused = s.ppaused /\ c.rpaused = s.rpaused /\ c.phase = s.phase /\ c.eofPending = s.eofPending
  BY <1>3 DEF Same, Fields
<1>8. Core(c, s)
  <2>1. ParserTyped(c) /\ c.parsed <= c.arrived
    BY <1>0, <1>4, <1>7 DEF ParserTyped, Counted
  <2>2. Same(c, s, ParserOwn)
    BY <1>3 DEF Same, ParserOwn
  <2> QED BY <1>2, <2>1, <2>2, TouchCore
<1>9. Fed(c) /\ MoreOK(c) /\ Between(c) /\ Roomy(c) /\ Quiet(c) /\ Onward(c)
  <2>1. Fed(c) BY <1>7 DEF Fed
  <2>2. MoreOK(c) /\ Between(c) BY <1>6, <1>7 DEF MoreOK, Between
  <2>3. Roomy(c) BY <1>6, <1>7 DEF Roomy, Bounded
  <2>4. Quiet(c) BY <1>4, <1>6, <1>7 DEF Quiet
  <2> QED BY <2>1, <2>2, <2>3, <2>4 DEF Onward
<1>14. Tracked(c)
  BY <1>4, <1>6, <1>7 DEF Tracked, Aligned
<1>10. CASE mode.parser = "extension"
  <2> DEFINE o == IF c.more THEN OnBody(c, 0) ELSE c
  <2>1. t = ExtensionGo(o)
    BY <1>5, <1>10 DEF ExtensionFeed
  <2>2. CASE ~c.more
    <3>1. o = c
      BY <2>2
    <3>2. Known(c)
      BY <2>2 DEF Known
    <3>3. Parsing(c, s)
      BY <1>7, <1>8, <1>9, <1>14, <3>2 DEF Parsing, Inside, EofOK
    <3>4. t = Parse(c)
      BY <1>4, <1>7, <2>1, <3>1 DEF ExtensionGo
    <3> QED BY <1>4, <1>7, <1>10, <3>3, <3>4, ParseDone
  <2>3. CASE c.more
    <3>1. Consume(c, 0) = c
      <4>1. c.parsed + 0 = c.parsed
        BY <1>0, <1>7 DEF ParserTyped
      <4>2. Consume(c, 0) = [c EXCEPT !.parsed = c.parsed]
        BY <4>1 DEF Consume
      <4> QED BY <1>2, <4>2 DEF Shape, Fields
    <3>2. o = AfterFeed(Piece(c, 0))
      BY <2>3, <3>1 DEF OnBody, Piece
    <3>3. /\ 0 \in Nat /\ ~(0 > 0) /\ c.parsed + 0 = c.parsed /\ c.parsed + 0 <= c.arrived /\ c.parsed \in 0..Len(wire)
      BY <1>0, <1>7 DEF ParserTyped, Counted, Given
    <3>4. Before[c.parsed + 0] = Before[c.parsed] + 0
      BY <3>3 DEF Given
    <3> HIDE DEF o
    <3>5. /\ Core(o, s) /\ Fed(o) /\ Inside(o) /\ Same(o, c, PieceChanges)
          /\ o.parsed = c.parsed + 0 /\ ~o.ppaused
      <4>1. Aligned(c) /\ ~c.ppaused
        BY <1>6, <1>7, <1>10, <2>3 DEF Quick, Known, Aligned
      <4> QED BY <1>4, <1>7, <1>8, <1>9, <1>10, <3>2, <3>3, <3>4, <4>1, OnBodyFields
    <3>6. o.eof = c.eof /\ o.arrived = c.arrived /\ o.eofPending = c.eofPending
      BY <3>5 DEF Same, Fields, PieceChanges, Drains, Inflating
    <3>7. Parsing(o, s)
      BY <1>7, <3>5, <3>6 DEF Parsing, EofOK
    <3>8. CASE o.pending
      <4>1. t = o
        BY <2>1, <3>8 DEF ExtensionGo
      <4>2. mode.kind # "chunked" => o.parsed = o.arrived
        BY <1>6, <1>7, <1>10, <2>3, <3>3, <3>5, <3>6 DEF Ready
      <4> QED BY <3>7, <3>8, <4>1, <4>2 DEF Stopped
    <3>9. CASE ~o.pending
      <4>1. t = Parse(o)
        BY <1>7, <2>1, <3>6, <3>9 DEF ExtensionGo
      <4> QED BY <1>7, <1>10, <3>6, <3>7, <3>9, <4>1, ParseDone
    <3> QED BY <3>8, <3>9
  <2> QED BY <2>2, <2>3
<1>11. CASE mode.parser = "python" /\ ~new /\ ~s.pending
  <2>1. t = s
    BY <1>5, <1>11
  <2>2. Quiet(s) /\ Onward(s)
    BY <1>6, <1>11 DEF Quiet, Onward
  <2>4. Tracked(s)
    BY <1>6, <1>11 DEF Tracked
  <2>3. Parsing(s, s)
    BY <1>6, <2>2, <2>4 DEF Parsing, Inside
  <2> QED BY <1>6, <1>11, <2>1, <2>3 DEF Ready, Stopped
<1>12. CASE mode.parser = "python" /\ (new \/ s.pending) /\ mode.kind = "chunked"
  <2>1. t = Parse(c)
    BY <1>5, <1>12
  <2>2. Known(c)
    BY <1>12 DEF Known, Quick
  <2>3. Parsing(c, s)
    BY <1>7, <1>8, <1>9, <1>14, <2>2 DEF Parsing, Inside, EofOK
  <2> QED BY <1>4, <1>7, <1>12, <2>1, <2>3, ParseDone
<1>13. CASE mode.parser = "python" /\ (new \/ s.pending) /\ mode.kind # "chunked"
  <2>1. t = ParseBlock(c)
    BY <1>5, <1>13
  <2> QED BY <1>4, <1>6, <1>7, <1>8, <1>9, <1>13, <2>1, BlockDone DEF Stopped
<1> QED BY <1>0, <1>10, <1>11, <1>12, <1>13

(* --------------------------- a record at rest ---------------------------- *)

\* When the parser is at rest it knows what it holds, and at a line it holds nothing.
AtRest(s) ==
  /\ MoreOK(s) /\ Between(s) /\ Known(s) /\ Quiet(s)
  /\ mode.kind # "chunked" => s.parsed = s.arrived
  /\ Quick => Aligned(s) /\ (s.pending => ~s.ppaused) /\ (s.pending \/ s.parsed = s.arrived)

\* A body that ends with the connection, which was closed in order.
Ended(s) ==
  s.conn = "closed" /\ mode.kind = "eof" /\ ~(mode.parser = "python" /\ mode.codec = "zstd")
  => s.eof \/ s.exc # "none"

\* Between two turns of the event loop, and between two steps of a read call.
Sound(s) ==
  /\ Typed(s) /\ Counted(s) /\ Fed(s) /\ EofOK(s) /\ Pauses(s) /\ Top(s) /\ Timed(s)
  /\ s.eofPending => s.conn # "open"
  /\ s.rpaused <=> s.tpaused
  /\ Live(s) => AtRest(s)
  /\ Ended(s) /\ Ordered(s)

\* What a reader that finds nothing may rely on: reading is not paused, and the parser has
\* not stopped before the end of what has arrived.
Served(s) == Live(s) /\ Quick /\ s.size = 0 => ~s.rpaused /\ ~s.pending

\* After the parser has run for a record u.
LEMMA ParsedRests ==
  ASSUME Given, NEW u, NEW t, Parsing(t, u), ~t.eof /\ mode.kind # "chunked" => t.parsed = t.arrived,
         Quick => Stopped(t)
  PROVE  Core(t, u) /\ Fed(t) /\ EofOK(t) /\ (Live(t) => AtRest(t) /\ Tracked(t))
BY DEF Parsing, Inside, AtRest, Live, Tracked, Stopped

\* ResponseHandler.resume_reading() where there is room.
LEMMA ResumeSound ==
  ASSUME Given, NEW s, Sound(s), Roomy(s), ~High(s)
  PROVE  LET t == ResumeReading(s)
         IN  /\ Sound(t) /\ Served(t) /\ Same(t, s, ByParser) /\ Len(s.buf) <= Len(t.buf)
             /\ t.fut = "none" <=> s.fut = "none"
<1> DEFINE v == [s EXCEPT !.rpaused = FALSE]
           p == Reenter(s)
           t == ResumeReading(s)
<1>0. /\ Typed(s) /\ Shape(s) /\ TransportTyped(s) /\ ParserTyped(s) /\ StreamTyped(s)
      /\ Counted(s) /\ Fed(s) /\ EofOK(s) /\ Pauses(s) /\ Top(s) /\ Timed(s)
      /\ s.eofPending => s.conn # "open"
      /\ s.rpaused <=> s.tpaused
      /\ Live(s) => AtRest(s)
      /\ Ended(s) /\ Ordered(s)
  BY DEF Sound, Typed
<1>1. Shape(v) BY <1>0 DEF Shape
<1>2. Same(v, s, {"rpaused"}) BY <1>0 DEF Shape, Same
<1>3. v.rpaused = FALSE BY <1>0 DEF Shape, Fields
<1>4. p = IF s.conn = "open" THEN ParserFeed(v, FALSE) ELSE v
  BY DEF Reenter
<1>5. t = [p EXCEPT !.tpaused = @ /\ p.rpaused, !.timer = s.rpaused \/ @]
  BY DEF ResumeReading, ResumeTransport
<1> HIDE DEF v, p, t
<1>6. /\ v.conn = s.conn /\ v.tpaused = s.tpaused /\ v.timer = s.timer /\ v.exc = s.exc /\ v.fut = s.fut
      /\ v.ppaused = s.ppaused /\ v.pending = s.pending /\ v.eofPending = s.eofPending
      /\ v.arrived = s.arrived /\ v.parsed = s.parsed /\ v.phase = s.phase /\ v.held = s.held
      /\ v.more = s.more /\ v.low = s.low /\ v.buf = s.buf /\ v.size = s.size /\ v.cursor = s.cursor
      /\ v.total = s.total /\ v.splits = s.splits /\ v.eof = s.eof
  BY <1>2 DEF Same, Fields
<1>7. Typed(v)
  <2>1. TransportTyped(v) BY <1>0, <1>3, <1>6 DEF TransportTyped
  <2>2. ParserTyped(v) BY <1>0, <1>6 DEF ParserTyped
  <2>3. StreamTyped(v) BY <1>0, <1>6 DEF StreamTyped
  <2> QED BY <1>1, <2>1, <2>2, <2>3 DEF Typed
<1>8. Core(v, v) /\ Fed(v) /\ EofOK(v)
  <2>1. Counted(v) BY <1>0, <1>6 DEF Counted
  <2>2. Pauses(v) BY <1>6 DEF Pauses, High
  <2>3. Top(v) BY <1>0, <1>6 DEF Top, Live, Bounded
  <2>4. Len(v.buf) <= Len(v.buf)
    <3>1. Len(v.buf) \in Nat BY <1>0, <1>6, LenProperties DEF StreamTyped
    <3> QED BY <3>1
  <2>5. Fed(v) /\ EofOK(v) BY <1>0, <1>6 DEF Fed, EofOK
  <2>6. Grown(v, v) BY DEF Grown
  <2> QED BY <1>3, <1>7, <2>1, <2>2, <2>3, <2>4, <2>5, <2>6 DEF Core, Same
<1>9. Core(p, v) /\ Fed(p) /\ EofOK(p) /\ (Live(p) => AtRest(p)) /\ (Live(p) /\ s.conn = "open" => Tracked(p))
  <2>1. CASE s.conn = "open"
    <3>1. ~v.eof => Ready(v, FALSE)
      <4> SUFFICES ASSUME ~v.eof PROVE Ready(v, FALSE)
        OBVIOUS
      <4>1. AtRest(s)
        BY <1>0, <1>6, <2>1 DEF Live
      <4>2. MoreOK(v) /\ Between(v) /\ Known(v)
        BY <1>6, <4>1 DEF AtRest, MoreOK, Between, Known
      <4>3. Roomy(v) /\ (Calm => ~v.ppaused)
        BY <1>6, <4>1 DEF AtRest, Roomy, Bounded, Quiet
      <4>4. mode.kind # "chunked" => v.parsed = v.arrived
        BY <1>6, <4>1 DEF AtRest
      <4>5. Quick => Aligned(v) /\ (v.pending => ~v.ppaused) /\ (v.pending \/ v.parsed = v.arrived)
        BY <1>6, <4>1 DEF AtRest, Aligned
      <4> QED BY <4>2, <4>3, <4>4, <4>5 DEF Ready
    <3>2. p = ParserFeed(v, FALSE) /\ ~v.eofPending
      BY <1>0, <1>4, <1>6, <2>1
    <3>3. Parsing(p, v) /\ (~p.eof /\ mode.kind # "chunked" => p.parsed = p.arrived) /\ (Quick => Stopped(p))
      BY <1>8, <3>1, <3>2, ParserFeedDone
    <3> QED BY <3>3, ParsedRests
  <2>2. CASE s.conn # "open"
    BY <1>4, <1>6, <1>8, <2>2 DEF Live
  <2> QED BY <2>1, <2>2
<1>10. /\ Typed(p) /\ Shape(p) /\ TransportTyped(p) /\ ParserTyped(p) /\ StreamTyped(p)
       /\ Same(p, v, ByParser) /\ Counted(p) /\ Pauses(p) /\ Top(p)
       /\ p.rpaused => p.tpaused
       /\ p.tpaused => p.rpaused \/ s.tpaused
       /\ Timed(v) => Timed(p)
       /\ p.fut = "none" <=> s.fut = "none"
       /\ Len(s.buf) <= Len(p.buf)
  <2>1. Typed(p) /\ Same(p, v, ByParser) /\ Counted(p) /\ Pauses(p) /\ Top(p)
    BY <1>9 DEF Core
  <2>2. /\ p.rpaused => p.tpaused
        /\ p.tpaused => p.rpaused \/ v.tpaused
        /\ Timed(v) => Timed(p)
        /\ p.fut = "none" <=> v.fut = "none"
        /\ Len(v.buf) <= Len(p.buf)
    BY <1>9 DEF Core
  <2>3. Shape(p) /\ TransportTyped(p) /\ ParserTyped(p) /\ StreamTyped(p)
    BY <2>1 DEF Typed
  <2>4. p.tpaused => p.rpaused \/ s.tpaused
    BY <1>6, <2>2
  <2>5. (p.fut = "none" <=> s.fut = "none") /\ Len(s.buf) <= Len(p.buf)
    BY <1>6, <2>2
  <2> QED BY <2>1, <2>2, <2>3, <2>4, <2>5
<1>11. Shape(t) BY <1>5, <1>10 DEF Shape
<1>12. Same(t, p, {"tpaused", "timer"}) BY <1>5, <1>10 DEF Shape, Same
<1>13. t.tpaused = (p.tpaused /\ p.rpaused) /\ t.timer = (s.rpaused \/ p.timer)
  BY <1>5, <1>10 DEF Shape, Fields
<1>14. /\ t.conn = p.conn /\ t.rpaused = p.rpaused /\ t.exc = p.exc /\ t.fut = p.fut
       /\ t.ppaused = p.ppaused /\ t.pending = p.pending /\ t.eofPending = p.eofPending
       /\ t.arrived = p.arrived /\ t.parsed = p.parsed /\ t.phase = p.phase /\ t.held = p.held
       /\ t.more = p.more /\ t.low = p.low /\ t.buf = p.buf /\ t.size = p.size /\ t.cursor = p.cursor
       /\ t.total = p.total /\ t.splits = p.splits /\ t.eof = p.eof
  BY <1>12 DEF Same, Fields
<1>15. p.conn = s.conn /\ p.exc = s.exc /\ p.eofPending = s.eofPending
  BY <1>6, <1>10 DEF Same, Fields, ByParser
<1>16. Typed(t)
  <2>1. t.tpaused \in BOOLEAN /\ t.timer \in BOOLEAN
    BY <1>13
  <2>2. TransportTyped(t) BY <1>10, <1>14, <2>1 DEF TransportTyped
  <2>3. ParserTyped(t) BY <1>10, <1>14 DEF ParserTyped
  <2>4. StreamTyped(t) BY <1>10, <1>14 DEF StreamTyped
  <2> QED BY <1>11, <2>2, <2>3, <2>4 DEF Typed
<1>17. Counted(t) /\ Fed(t) /\ EofOK(t) /\ Top(t)
  BY <1>9, <1>10, <1>14 DEF Counted, Fed, EofOK, Top, Live, Bounded
<1>18. t.rpaused <=> t.tpaused
  BY <1>10, <1>13, <1>14
<1>19. Pauses(t)
  BY <1>10, <1>13, <1>14 DEF Pauses, Live, High
<1>20. Timed(t)
  <2> SUFFICES ASSUME Live(t), t.exc = "none", ~t.tpaused, ~s.rpaused PROVE t.timer
    BY <1>13 DEF Timed
  <2>1. ~s.tpaused /\ ~p.rpaused /\ ~p.tpaused
    BY <1>0, <1>10, <1>14, <1>18
  <2>2. Timed(v)
    BY <1>0, <1>6 DEF Timed, Live
  <2>3. p.timer
    BY <1>10, <1>14, <2>1, <2>2 DEF Timed, Live
  <2> QED BY <1>13, <2>3
<1>21. Live(t) => AtRest(t)
  <2> SUFFICES ASSUME Live(t) PROVE AtRest(t)
    OBVIOUS
  <2>1. AtRest(p)
    BY <1>9, <1>14 DEF Live
  <2> QED BY <1>14, <2>1 DEF AtRest, MoreOK, Between, Known, Quiet, Aligned
<1>22. Ended(t)
  <2>1. s.conn = "closed" => p = v
    BY <1>4
  <2> QED BY <1>0, <1>6, <1>14, <1>15, <2>1 DEF Ended
<1>23. Same(t, s, ByParser)
  BY <1>2, <1>10, <1>12 DEF Same, ByParser
<1>25. Grown(p, v)
  BY <1>9 DEF Core
<1>26. Ordered(v)
  BY <1>0, <1>6 DEF Ordered
<1>27. Ordered(p) /\ (p.rpaused => p.size > 0)
  BY <1>3, <1>25, <1>26 DEF Grown
<1>28. Ordered(t)
  <2>1. p.cursor = t.cursor
    BY <1>14
  <2> QED BY <1>14, <1>27, <2>1 DEF Ordered
<1>29. Served(t)
  <2> SUFFICES ASSUME Live(t), Quick, t.size = 0 PROVE ~t.rpaused /\ ~t.pending
    BY DEF Served
  <2>1. Live(p) /\ s.conn = "open" /\ p.size = 0
    BY <1>14, <1>15 DEF Live
  <2>2. ~(p.size > 0)
    BY <2>1
  <2>3. ~p.pending
    BY <1>9, <2>1, <2>2 DEF Tracked
  <2> QED BY <1>14, <1>27, <2>2, <2>3
<1>24. Sound(t)
  BY <1>0, <1>14, <1>15, <1>16, <1>17, <1>18, <1>19, <1>20, <1>21, <1>22, <1>28 DEF Sound
<1> QED BY <1>10, <1>14, <1>23, <1>24, <1>29 DEF t

(* ------------------------------ the consumer ----------------------------- *)

\* Taking from the first block takes one block at most.
LEMMA RestLength ==
  ASSUME NEW b \in Seq(Nat \ {0}), b # <<>>, NEW k \in Nat
  PROVE  Len(Rest(b, k)) \in Nat /\ Len(b) \in Nat /\ Len(Rest(b, k)) + 1 >= Len(b)
<1>1. /\ Head(b) \in Nat \ {0} /\ Tail(b) \in Seq(Nat \ {0}) /\ Len(Tail(b)) = Len(b) - 1 /\ Len(b) \in Nat
      /\ Len(Tail(b)) \in Nat
  BY HeadTailProperties, LenProperties
<1>2. CASE k < Head(b)
  <2>1. Rest(b, k) = <<Head(b) - k>> \o Tail(b)
    BY <1>2 DEF Rest
  <2>2. Head(b) - k \in Nat \ {0}
    BY <1>1, <1>2
  <2>3. <<Head(b) - k>> \in Seq(Nat \ {0}) /\ Len(<<Head(b) - k>>) = 1
    BY <2>2
  <2>4. Len(Rest(b, k)) = 1 + Len(Tail(b))
    BY <1>1, <2>1, <2>3, ConcatProperties
  <2> QED BY <1>1, <2>4
<1>3. CASE ~(k < Head(b))
  <2>1. Rest(b, k) = Tail(b)
    BY <1>3 DEF Rest
  <2> QED BY <1>1, <2>1
<1> QED BY <1>2, <1>3

\* f is the end of q.
Suffix(f, q) == \E m \in Nat : Len(q) = m + Len(f) /\ \A i \in 1..Len(f) : f[i] = q[m + i]

\* What is dropped is a prefix, and what comes next is not behind pos.
LEMMA FromFacts ==
  ASSUME NEW q \in Seq(Nat), NEW pos \in Nat
  PROVE  /\ From(q, pos) \in Seq(Nat) /\ Len(From(q, pos)) <= Len(q) /\ Suffix(From(q, pos), q)
         /\ From(q, pos) # <<>> => Head(From(q, pos)) \in Nat /\ Head(From(q, pos)) >= pos
<1> DEFINE N == Len(q)
           K == {i \in DOMAIN q : \A j \in 1..i : q[j] < pos}
           f == From(q, pos)
<1>0. N \in Nat /\ DOMAIN q = 1..N /\ \A i \in 1..N : q[i] \in Nat
  BY LenProperties, ElementOfSeq
<1>1. f = SubSeq(q, 1 + Cardinality(K), N)
  BY DEF From
<1>2. \E m \in 0..N : K = 1..m
  <2>1. CASE K = 1..N
    BY <1>0, <2>1
  <2>2. CASE K # 1..N
    <3> DEFINE S == (1..N) \ K
    <3>1. S # {} /\ S \subseteq Nat
      BY <1>0, <2>2
    <3>2. PICK k \in S : \A j \in S : k <= j
      BY <3>1, Least
    <3>3. k \in 1..N /\ k - 1 \in 0..N /\ k \in Nat
      BY <1>0, <3>2
    <3>4. ASSUME NEW i \in K PROVE i \in 1..(k - 1)
      <4>1. i \in 1..N
        BY <1>0
      <4>2. ASSUME i >= k PROVE FALSE
        <5>1. \A j \in 1..k : j \in 1..i
          BY <3>3, <4>1, <4>2
        <5>2. \A j \in 1..k : q[j] < pos
          BY <5>1
        <5> QED BY <1>0, <3>2, <3>3, <5>2
      <4> QED BY <3>3, <4>1, <4>2
    <3>5. ASSUME NEW i \in 1..(k - 1) PROVE i \in K
      <4>1. i \in 1..N /\ ~(k <= i)
        BY <1>0, <3>3
      <4> QED BY <3>2, <4>1
    <3> HIDE DEF K
    <3>6. K = 1..(k - 1)
      BY <3>4, <3>5
    <3> QED BY <3>3, <3>6
  <2> QED BY <2>1, <2>2
<1>3. PICK m \in 0..N : K = 1..m
  BY <1>2
<1>4. Cardinality(1..m) = m
  BY <1>0, FS_Interval
<1>5. f = SubSeq(q, m + 1, N) /\ m + 1 \in Int /\ m \in Nat
  <2> HIDE DEF K, f, N
  <2>1. 1 + m = m + 1 /\ m + 1 \in Int /\ m \in Nat
    BY <1>0
  <2>2. Cardinality(K) = m
    BY <1>3, <1>4
  <2> QED BY <1>1, <2>1, <2>2
<1>6. m + 1 \in 1..N => ~(q[m + 1] < pos)
  <2> SUFFICES ASSUME m + 1 \in 1..N, q[m + 1] < pos PROVE FALSE
    OBVIOUS
  <2>1. ASSUME NEW j \in 1..(m + 1) PROVE q[j] < pos
    <3>1. CASE j = m + 1
      BY <3>1
    <3>2. CASE j # m + 1
      <4>1. j \in 1..m /\ m \in 1..m
        BY <1>5, <3>2
      <4>2. m \in K
        BY <1>3, <4>1
      <4> QED BY <4>1, <4>2
    <3> QED BY <3>1, <3>2
  <2>2. m + 1 \in K
    BY <1>0, <2>1
  <2>3. m + 1 \notin 1..m
    BY <1>5
  <2> QED BY <1>3, <2>2, <2>3
<1> HIDE DEF f, K, N
<1>7. \A i \in (m + 1)..N : i \in 1..N
  BY <1>0, <1>5
<1>8. \A i \in (m + 1)..N : q[i] \in Nat
  BY <1>0, <1>7
<1>9. /\ f \in Seq(Nat) /\ Len(f) = IF m + 1 <= N THEN N - (m + 1) + 1 ELSE 0
      /\ \A i \in 1..(N - (m + 1) + 1) : f[i] = q[m + 1 + i - 1]
  BY <1>0, <1>5, <1>8, SubSeqProperties
<1>10. Len(f) <= N
  BY <1>0, <1>3, <1>5, <1>9
<1>11. f # <<>> => Head(f) \in Nat /\ Head(f) >= pos
  <2> SUFFICES ASSUME f # <<>> PROVE Head(f) \in Nat /\ Head(f) >= pos
    OBVIOUS
  <2>1. m + 1 <= N
    <3>1. ~(m + 1 <= N) => f = <<>>
      BY <1>9, EmptySeq
    <3> QED BY <3>1
  <2>2. m + 1 \in 1..Len(q) /\ Len(q) \in (m + 1)..Len(q)
    BY <1>0, <1>5, <2>1 DEF N
  <2>3. Head(f) = q[m + 1]
    BY <1>5, <2>2, HeadTailOfSubSeq DEF N
  <2>4. m + 1 \in 1..N
    BY <1>0, <1>5, <2>1
  <2> QED BY <1>0, <1>6, <2>3, <2>4
<1>12. Suffix(f, q)
  <2>1. N = m + Len(f) /\ Len(f) = N - (m + 1) + 1
    BY <1>0, <1>3, <1>5, <1>9
  <2>2. ASSUME NEW i \in 1..Len(f) PROVE f[i] = q[m + i]
    <3>1. f[i] = q[m + 1 + i - 1]
      BY <1>9, <2>1
    <3>2. m + 1 + i - 1 = m + i
      BY <1>5
    <3> QED BY <3>1, <3>2
  <2> QED BY <1>5, <2>1, <2>2 DEF Suffix, N
<1> QED BY <1>9, <1>10, <1>11, <1>12 DEF f, N

\* So is what remains of it.
LEMMA SuffixTail ==
  ASSUME NEW q \in Seq(Nat), NEW f \in Seq(Nat), f # <<>>, Suffix(f, q)
  PROVE  Suffix(Tail(f), q)
<1>1. PICK m \in Nat : Len(q) = m + Len(f) /\ \A i \in 1..Len(f) : f[i] = q[m + i]
  BY DEF Suffix
<1>2. Len(f) \in Nat /\ Len(Tail(f)) = Len(f) - 1 /\ Len(Tail(f)) \in Nat
  BY HeadTailProperties, LenProperties
<1>3. Len(q) = (m + 1) + Len(Tail(f)) /\ m + 1 \in Nat
  BY <1>1, <1>2
<1>4. ASSUME NEW i \in 1..Len(Tail(f)) PROVE Tail(f)[i] = q[(m + 1) + i]
  <2>1. Tail(f)[i] = f[i + 1]
    BY HeadTailProperties
  <2>2. i + 1 \in 1..Len(f) /\ m + (i + 1) = (m + 1) + i
    BY <1>2
  <2>3. f[i + 1] = q[m + (i + 1)]
    BY <1>1, <2>2
  <2> QED BY <2>1, <2>2, <2>3
<1> QED BY <1>3, <1>4 DEF Suffix

\* Chunk ends that are dropped from the front leave the others in order.
LEMMA SuffixOrdered ==
  ASSUME NEW s, NEW t, s.splits \in Seq(Nat), t.splits \in Seq(Nat), Ordered(s), Suffix(t.splits, s.splits),
         t.total = s.total, t.cursor \in Nat,
         t.cursor = s.cursor \/ (t.splits # <<>> => Head(t.splits) >= t.cursor)
  PROVE  Ordered(t)
<1> DEFINE p == s.splits
           q == t.splits
<1>1. PICK m \in Nat : Len(p) = m + Len(q) /\ \A i \in 1..Len(q) : q[i] = p[m + i]
  BY DEF Suffix
<1>2. DOMAIN p = 1..Len(p) /\ DOMAIN q = 1..Len(q) /\ Len(p) \in Nat /\ Len(q) \in Nat
  BY LenProperties
<1>3. \A i \in DOMAIN q : m + i \in DOMAIN p /\ q[i] = p[m + i] /\ q[i] \in Nat /\ i \in Nat /\ i >= 1
  <2> SUFFICES ASSUME NEW i \in 1..Len(q)
        PROVE m + i \in DOMAIN p /\ q[i] = p[m + i] /\ q[i] \in Nat /\ i \in Nat /\ i >= 1
    BY <1>2
  <2>1. m + i \in 1..Len(p) /\ q[i] = p[m + i] /\ i \in Nat /\ i >= 1
    <3> HIDE DEF p, q
    <3>1. q[i] = p[m + i] /\ i \in Nat /\ i >= 1
      BY <1>1, <1>2
    <3>2. i <= Len(q)
      BY <1>2
    <3>3. m + i \in 1..Len(p)
      BY <1>1, <1>2, <3>1, <3>2
    <3> QED BY <3>1, <3>3
  <2>2. q[i] \in Nat
    <3>1. t.splits \in Seq(Nat) /\ i \in 1..Len(t.splits)
      OBVIOUS
    <3> QED BY <3>1
  <2> QED BY <1>2, <2>1, <2>2
<1>4. ASSUME NEW i \in DOMAIN q, NEW j \in DOMAIN q, i < j PROVE q[i] < q[j]
  <2>1. m + i < m + j /\ m + i \in DOMAIN p /\ m + j \in DOMAIN p
    BY <1>3, <1>4
  <2>2. p[m + i] < p[m + j]
    BY <2>1 DEF Ordered
  <2> QED BY <1>3, <2>2
<1>5. ASSUME NEW i \in DOMAIN q PROVE t.cursor <= q[i] /\ q[i] <= t.total
  <2>1. s.cursor <= p[m + i] /\ p[m + i] <= s.total
    BY <1>3 DEF Ordered
  <2>2. q[i] <= t.total /\ s.cursor <= q[i]
    BY <1>3, <2>1
  <2>3. CASE t.cursor = s.cursor
    BY <2>2, <2>3
  <2>4. CASE t.splits # <<>> => Head(t.splits) >= t.cursor
    <3>1. q # <<>> /\ 1 \in DOMAIN q
      BY <1>2, <1>3
    <3>2. Head(q) = q[1]
      BY <3>1
    <3>3. q[1] >= t.cursor /\ q[1] \in Nat /\ q[i] \in Nat
      BY <1>3, <2>4, <3>1, <3>2
    <3>4. q[1] <= q[i]
      <4>1. CASE i = 1
        BY <1>3, <4>1
      <4>2. CASE i # 1
        <5>1. 1 < i
          BY <1>3, <4>2
        <5>2. q[1] < q[i]
          BY <1>4, <3>1, <5>1
        <5> QED BY <3>3, <5>2
      <4> QED BY <4>1, <4>2
    <3> HIDE DEF q
    <3>5. t.cursor <= q[i]
      BY <3>3, <3>4
    <3> QED BY <2>2, <3>5
  <2> QED BY <2>2, <2>3, <2>4
<1> QED BY <1>4, <1>5 DEF Ordered

\* The reader takes bytes and chunk ends, raises the marks and waits.
ByReader == {"buf", "size", "cursor", "splits", "low", "fut"}

\* A reader's step that makes the buffer no larger and the marks no lower keeps Sound.
LEMMA ReaderSound ==
  ASSUME Given, NEW s, Sound(s), NEW t, Shape(t), Same(t, s, ByReader),
         t.buf \in Seq(Nat \ {0}), t.size = Bytes(t.buf), t.size \in Nat, t.cursor \in Nat, t.size <= s.size,
         t.cursor + t.size = s.cursor + s.size, t.splits \in Seq(Nat), Len(t.splits) <= Len(s.splits),
         t.low \in Nat \ {0}, s.low <= t.low, t.fut \in {"none", "pending", "set", "exc"},
         Ordered(t)
  PROVE  Sound(t)
<1>0. /\ Typed(s) /\ Shape(s) /\ TransportTyped(s) /\ ParserTyped(s) /\ StreamTyped(s)
      /\ Counted(s) /\ Fed(s) /\ EofOK(s) /\ Pauses(s) /\ Top(s) /\ Timed(s)
      /\ s.eofPending => s.conn # "open"
      /\ s.rpaused <=> s.tpaused
      /\ Live(s) => AtRest(s)
      /\ Ended(s)
  BY DEF Sound, Typed
<1>1. /\ t.conn = s.conn /\ t.tpaused = s.tpaused /\ t.timer = s.timer /\ t.exc = s.exc
      /\ t.rpaused = s.rpaused
      /\ t.ppaused = s.ppaused /\ t.pending = s.pending /\ t.eofPending = s.eofPending
      /\ t.arrived = s.arrived /\ t.parsed = s.parsed /\ t.phase = s.phase /\ t.held = s.held
      /\ t.more = s.more /\ t.total = s.total /\ t.eof = s.eof
  BY DEF Same, Fields, ByReader
<1>2. Typed(t)
  <2>1. TransportTyped(t) BY <1>0, <1>1 DEF TransportTyped
  <2>2. ParserTyped(t) BY <1>0, <1>1 DEF ParserTyped
  <2>3. StreamTyped(t) BY <1>0, <1>1 DEF StreamTyped
  <2> QED BY <2>1, <2>2, <2>3 DEF Typed
<1>3. Counted(t) BY <1>0, <1>1 DEF Counted
<1>4. Fed(t) /\ EofOK(t) /\ Timed(t) BY <1>0, <1>1 DEF Fed, EofOK, Timed, Live
<1>5. s.size \in Nat /\ s.low \in Nat \ {0} /\ Len(s.splits) \in Nat /\ Len(t.splits) \in Nat /\ HighChunks \in Nat
  BY <1>0, LenProperties DEF StreamTyped, Given
<1>6. High(t) => High(s)
  <2>1. \A a, b \in Nat : \A l, m \in Nat : a <= b /\ m <= l /\ a > 2 * l => b > 2 * m
    OBVIOUS
  <2>2. \A a, b, h \in Nat : a <= b /\ a > h => b > h
    OBVIOUS
  <2>3. CASE t.size > 2 * t.low
    <3>1. t.low \in Nat /\ s.low \in Nat
      BY <1>5
    <3>2. s.size > 2 * s.low
      BY <1>5, <2>1, <2>3, <3>1
    <3> QED BY <3>2 DEF High
  <2>4. CASE Len(t.splits) > HighChunks
    <3>1. Len(s.splits) > HighChunks
      BY <1>5, <2>2, <2>4
    <3> QED BY <3>1 DEF High
  <2> QED BY <2>3, <2>4 DEF High
<1>7. Pauses(t) BY <1>0, <1>1, <1>6 DEF Pauses, Live
<1>8. Top(t)
  <2> SUFFICES ASSUME Live(t), Bounded(t) PROVE t.size <= 2 * t.low + HigherOf(Limit, t.low)
    BY DEF Top
  <2>1. Live(s) /\ Bounded(s)
    <3>1. s.low < Unlimited
      BY <1>5 DEF Bounded, Unlimited
    <3> QED BY <1>1, <3>1 DEF Live, Bounded
  <2>2. s.size <= 2 * s.low + HigherOf(Limit, s.low)
    BY <1>0, <2>1 DEF Top
  <2>3. Limit \in Nat
    BY DEF Given
  <2>4. /\ HigherOf(Limit, s.low) \in Nat /\ HigherOf(Limit, t.low) \in Nat
        /\ HigherOf(Limit, s.low) <= HigherOf(Limit, t.low)
    BY <1>5, <2>3 DEF HigherOf
  <2> QED BY <1>5, <2>2, <2>4
<1>9. Live(t) => AtRest(t)
  <2> SUFFICES ASSUME Live(t) PROVE AtRest(t)
    OBVIOUS
  <2>1. AtRest(s)
    BY <1>0, <1>1 DEF Live
  <2> QED BY <1>1, <2>1 DEF AtRest, MoreOK, Between, Known, Quiet, Aligned
<1>10. Ended(t) BY <1>0, <1>1 DEF Ended
<1>11. (t.rpaused <=> t.tpaused) /\ (t.eofPending => t.conn # "open")
  BY <1>0, <1>1
<1> QED BY <1>2, <1>3, <1>4, <1>7, <1>8, <1>9, <1>10, <1>11 DEF Sound

\* What no step of a read call changes.
Keeps(t, s) == t.conn = s.conn /\ t.exc = s.exc /\ t.low = s.low

\* _read_nowait_chunk(): it may resume the parser, which may fill the buffer again.
LEMMA TakeChunk ==
  ASSUME Given, NEW s, Sound(s), s.buf # <<>>, NEW n, n = -1 \/ n \in Nat \ {0}
  PROVE  LET t == ReadNowaitChunk(s, n)
         IN  /\ Sound(t) /\ Served(t) /\ Keeps(t, s) /\ Len(t.buf) + 1 >= Len(s.buf)
             /\ t.cursor >= s.cursor + 1
             /\ n # -1 => t.cursor <= s.cursor + n
<1> DEFINE k == IF n = -1 THEN Head(s.buf) ELSE LowerOf(n, Head(s.buf))
           v == [s EXCEPT !.buf = Rest(@, k), !.size = @ - k, !.cursor = @ + k, !.splits = From(@, s.cursor + k)]
           t == ReadNowaitChunk(s, n)
<1>0. /\ Shape(s) /\ Counted(s) /\ s.buf \in Seq(Nat \ {0}) /\ s.size \in Nat /\ s.cursor \in Nat
      /\ s.splits \in Seq(Nat) /\ s.low \in Nat \ {0} /\ Len(s.buf) \in Nat
      /\ s.fut \in {"none", "pending", "set", "exc"} /\ s.size = Bytes(s.buf)
  BY LenProperties DEF Sound, Typed, StreamTyped, TransportTyped, Counted
<1>1. Head(s.buf) \in Nat \ {0}
  BY <1>0, HeadTailProperties
<1>2. k \in 1..Head(s.buf) /\ k \in Nat /\ (n # -1 => k <= n)
  <2>1. CASE n = -1
    BY <1>1, <2>1
  <2>2. CASE n # -1
    BY <1>1, <2>2 DEF LowerOf
  <2> QED BY <2>1, <2>2
<1>3. t = ResumeIfLow(v)
  BY DEF ReadNowaitChunk
<1> HIDE DEF k
<1>4. Shape(v) BY <1>0 DEF Shape
<1>5. Same(v, s, {"buf", "size", "cursor", "splits"}) BY <1>0 DEF Shape, Same
<1>6. v.buf = Rest(s.buf, k) /\ v.size = s.size - k BY <1>0 DEF Shape, Fields
<1>7. v.cursor = s.cursor + k /\ v.splits = From(s.splits, s.cursor + k) BY <1>0 DEF Shape, Fields
<1> HIDE DEF v, t
<1>8. Rest(s.buf, k) \in Seq(Nat \ {0}) /\ Head(s.buf) <= Bytes(s.buf) /\ Bytes(Rest(s.buf, k)) = Bytes(s.buf) - k
  BY <1>0, <1>2, RestSum
<1>9. Len(v.buf) \in Nat /\ Len(v.buf) + 1 >= Len(s.buf)
  BY <1>0, <1>2, <1>6, RestLength
<1>10. s.cursor + k \in Nat
  BY <1>0, <1>2
<1>11. /\ v.splits \in Seq(Nat) /\ Len(v.splits) <= Len(s.splits) /\ Suffix(v.splits, s.splits)
       /\ v.splits # <<>> => Head(v.splits) >= v.cursor
  BY <1>0, <1>7, <1>10, FromFacts
<1>12. /\ v.buf \in Seq(Nat \ {0}) /\ v.size = Bytes(v.buf) /\ v.size \in Nat /\ v.cursor \in Nat
       /\ v.size <= s.size /\ v.cursor + v.size = s.cursor + s.size
  <2>1. v.buf \in Seq(Nat \ {0}) /\ v.size = Bytes(v.buf)
    BY <1>0, <1>6, <1>8
  <2>2. k <= s.size
    BY <1>0, <1>1, <1>2, <1>8
  <2>3. v.size \in Nat /\ v.cursor \in Nat /\ v.size <= s.size /\ v.cursor + v.size = s.cursor + s.size
    <3>1. s.size \in Nat /\ s.cursor \in Nat /\ k \in Nat /\ v.size = s.size - k /\ v.cursor = s.cursor + k
      BY <1>0, <1>2, <1>6, <1>7
    <3> QED BY <2>2, <3>1
  <2> QED BY <2>1, <2>3
<1>13. v.low = s.low /\ v.fut = s.fut /\ v.conn = s.conn /\ v.exc = s.exc
  BY <1>5 DEF Same, Fields
<1>14. Sound(v)
  <2>1. Same(v, s, ByReader)
    BY <1>5 DEF Same, ByReader
  <2>2. s.low <= v.low
    BY <1>0, <1>13
  <2>3. Ordered(v)
    <3>1. Ordered(s)
      BY DEF Sound
    <3>2. v.total = s.total
      BY <1>5 DEF Same, Fields
    <3> QED BY <1>0, <1>11, <1>12, <3>1, <3>2, SuffixOrdered
  <2> QED BY <1>0, <1>4, <1>11, <1>12, <1>13, <2>1, <2>2, <2>3, ReaderSound
<1>15. (n # -1 => v.cursor <= s.cursor + n) /\ v.cursor >= s.cursor + 1
  BY <1>0, <1>2, <1>7
<1>16. CASE v.size < v.low /\ Len(v.splits) < LowChunks
  <2>1. t = ResumeReading(v)
    BY <1>3, <1>16 DEF ResumeIfLow
  <2>2. Len(v.splits) \in Nat /\ v.low \in Nat /\ HighChunks \in Nat /\ LowChunks \in Nat /\ LowChunks <= HighChunks
    BY <1>0, <1>11, <1>13, LenProperties DEF Given
  <2>3. v.size <= 2 * v.low /\ ~(v.size > 2 * v.low) /\ ~(Len(v.splits) > HighChunks)
    BY <1>12, <1>16, <2>2
  <2>4. Roomy(v) /\ ~High(v)
    BY <2>3 DEF Roomy, High
  <2>5. Sound(t) /\ Served(t) /\ Same(t, v, ByParser) /\ Len(v.buf) <= Len(t.buf)
    BY <1>14, <2>1, <2>4, ResumeSound
  <2>6. t.low = v.low /\ t.conn = v.conn /\ t.exc = v.exc /\ t.cursor = v.cursor
    BY <2>5 DEF Same, Fields, ByParser
  <2>7. Len(t.buf) \in Nat
    BY <2>5, LenProperties DEF Sound, Typed, StreamTyped
  <2>8. Len(t.buf) + 1 >= Len(s.buf)
    BY <1>0, <1>9, <2>5, <2>7
  <2> QED BY <1>13, <1>15, <2>5, <2>6, <2>8 DEF Keeps, t
<1>17. CASE ~(v.size < v.low /\ Len(v.splits) < LowChunks)
  <2>1. t = v
    BY <1>3, <1>17 DEF ResumeIfLow
  <2>2. v.size # 0
    <3>1. CASE ~(v.size < v.low)
      <4>1. v.low \in Nat \ {0}
        BY <1>0, <1>13
      <4> QED BY <1>12, <3>1, <4>1
    <3>2. CASE ~(Len(v.splits) < LowChunks)
      <4> DEFINE a == v.splits[1]
                 b == v.splits[2]
      <4>1. Len(v.splits) \in Nat /\ DOMAIN v.splits = 1..Len(v.splits) /\ LowChunks \in Nat /\ 2 <= LowChunks
        BY <1>11, LenProperties DEF Given
      <4>2. 1 \in DOMAIN v.splits /\ 2 \in DOMAIN v.splits /\ 1 < 2
        BY <3>2, <4>1
      <4>3. a \in Nat /\ b \in Nat
        BY <1>11, <4>1, <4>2, ElementOfSeq
      <4>4. a < b /\ v.cursor <= a /\ b <= v.total
        BY <1>14, <4>2 DEF Sound, Ordered
      <4>5. v.total = v.cursor + v.size
        BY <1>14 DEF Sound, Counted
      <4> HIDE DEF a, b
      <4> QED BY <1>12, <4>3, <4>4, <4>5
    <3> QED BY <1>17, <3>1, <3>2
  <2>3. Served(v)
    BY <2>2 DEF Served
  <2> QED BY <1>9, <1>13, <1>14, <1>15, <2>1, <2>3 DEF Keeps, t
<1> QED BY <1>16, <1>17

\* f is the states of ReadUpTo(s, end), which stay in D.
UpToRun(f, s, end, D) ==
  /\ f[0] = s /\ \A n \in 0..end - s.cursor : f[n] \in D
  /\ \A n \in 1..end - s.cursor : f[n] = ReadTurn(f[n - 1], end)
  /\ ReadUpTo(s, end) = f[end - s.cursor]

\* The loop of ReadUpTo is a run of turns.
LEMMA ReadUpToIs ==
  ASSUME NEW s, NEW end, end - s.cursor \in Nat, NEW D, s \in D, \A t \in D : ReadTurn(t, end) \in D
  PROVE  \E f : UpToRun(f, s, end, D)
<1> DEFINE N == end - s.cursor
           T == [t \in D |-> ReadTurn(t, end)]
           Eq(g) == g = [n \in 0..N |-> IF n = 0 THEN s ELSE ReadTurn(g[n - 1], end)]
           after == CHOOSE g : Eq(g)
<1>0. N \in Nat
  OBVIOUS
<1>1. ReadUpTo(s, end) = after[N]
  BY DEF ReadUpTo
<1> HIDE DEF N
<1>2. \A t \in D : T[t] = ReadTurn(t, end)
  OBVIOUS
<1>3. T \in [D -> D]
  OBVIOUS
<1> HIDE DEF T
<1>4. PICK g : Repeats(g, s, T, N, D)
  BY <1>0, <1>3, Repeated
<1>5. g \in [0..N -> D] /\ g[0] = s /\ \A n \in 1..N : g[n] = T[g[n - 1]]
  BY <1>4 DEF Repeats
<1>6. Eq(g)
  <2>1. ASSUME NEW n \in 0..N PROVE g[n] = IF n = 0 THEN s ELSE ReadTurn(g[n - 1], end)
    <3>1. CASE n = 0
      BY <1>5, <3>1
    <3>2. CASE n # 0
      <4>1. n \in 1..N /\ n - 1 \in 0..N
        BY <1>0, <3>2
      <4>2. g[n - 1] \in D /\ g[n] = T[g[n - 1]]
        BY <1>5, <4>1
      <4> QED BY <1>2, <3>2, <4>2
    <3> QED BY <3>1, <3>2
  <2>2. g = [n \in 0..N |-> g[n]]
    BY <1>5
  <2> QED BY <2>1, <2>2
<1>7. Eq(after)
  <2> HIDE DEF Eq
  <2> QED BY <1>6
<1> HIDE DEF after
<1>8. after[0] = s /\ \A n \in 1..N : after[n] = ReadTurn(after[n - 1], end)
  <2>1. \A n \in 1..N : n \in 0..N /\ n # 0
    BY <1>0
  <2>2. 0 \in 0..N
    BY <1>0
  <2> QED BY <1>7, <2>1, <2>2
<1> HIDE DEF Eq
<1> DEFINE S == {n \in Nat : after[n] \in D}
<1>9. 0 \in S
  BY <1>8
<1>10. ASSUME NEW n \in 0..N, n # N, n \in S PROVE n + 1 \in S
  <2>1. n + 1 \in 1..N /\ (n + 1) - 1 = n /\ n + 1 \in Nat
    BY <1>0, <1>10
  <2>2. after[n] \in D /\ after[n + 1] = ReadTurn(after[n], end)
    BY <1>8, <1>10, <2>1
  <2> QED BY <2>1, <2>2
<1> HIDE DEF S
<1>11. 0..N \subseteq S
  BY <1>0, <1>9, <1>10, BoundedInduction
<1>12. \A n \in 0..N : after[n] \in D
  BY <1>11 DEF S
<1> QED BY <1>1, <1>8, <1>12 DEF N, UpToRun

\* f is the states of Drained(s), which stay in D.
DrainedRun(f, s, D) ==
  /\ f[0] = s /\ \A n \in 0..Inflated(Len(wire)) - s.cursor : f[n] \in D
  /\ \A n \in 1..Inflated(Len(wire)) - s.cursor : f[n] = AllTurn(f[n - 1])
  /\ Drained(s) = f[Inflated(Len(wire)) - s.cursor]

\* The loop of Drained is a run of turns.
LEMMA DrainedIs ==
  ASSUME NEW s, Inflated(Len(wire)) - s.cursor \in Nat, NEW D, s \in D, \A t \in D : AllTurn(t) \in D
  PROVE  \E f : DrainedRun(f, s, D)
<1> DEFINE N == Inflated(Len(wire)) - s.cursor
           T == [t \in D |-> AllTurn(t)]
           Eq(g) == g = [n \in 0..N |-> IF n = 0 THEN s ELSE AllTurn(g[n - 1])]
           after == CHOOSE g : Eq(g)
<1>0. N \in Nat
  OBVIOUS
<1>1. Drained(s) = after[N]
  BY DEF Drained
<1> HIDE DEF N
<1>2. \A t \in D : T[t] = AllTurn(t)
  OBVIOUS
<1>3. T \in [D -> D]
  OBVIOUS
<1> HIDE DEF T
<1>4. PICK g : Repeats(g, s, T, N, D)
  BY <1>0, <1>3, Repeated
<1>5. g \in [0..N -> D] /\ g[0] = s /\ \A n \in 1..N : g[n] = T[g[n - 1]]
  BY <1>4 DEF Repeats
<1>6. Eq(g)
  <2>1. ASSUME NEW n \in 0..N PROVE g[n] = IF n = 0 THEN s ELSE AllTurn(g[n - 1])
    <3>1. CASE n = 0
      BY <1>5, <3>1
    <3>2. CASE n # 0
      <4>1. n \in 1..N /\ n - 1 \in 0..N
        BY <1>0, <3>2
      <4>2. g[n - 1] \in D /\ g[n] = T[g[n - 1]]
        BY <1>5, <4>1
      <4> QED BY <1>2, <3>2, <4>2
    <3> QED BY <3>1, <3>2
  <2>2. g = [n \in 0..N |-> g[n]]
    BY <1>5
  <2> QED BY <2>1, <2>2
<1>7. Eq(after)
  <2> HIDE DEF Eq
  <2> QED BY <1>6
<1> HIDE DEF after
<1>8. after[0] = s /\ \A n \in 1..N : after[n] = AllTurn(after[n - 1])
  <2>1. \A n \in 1..N : n \in 0..N /\ n # 0
    BY <1>0
  <2>2. 0 \in 0..N
    BY <1>0
  <2> QED BY <1>7, <2>1, <2>2
<1> HIDE DEF Eq
<1> DEFINE S == {n \in Nat : after[n] \in D}
<1>9. 0 \in S
  BY <1>8
<1>10. ASSUME NEW n \in 0..N, n # N, n \in S PROVE n + 1 \in S
  <2>1. n + 1 \in 1..N /\ (n + 1) - 1 = n /\ n + 1 \in Nat
    BY <1>0, <1>10
  <2>2. after[n] \in D /\ after[n + 1] = AllTurn(after[n])
    BY <1>8, <1>10, <2>1
  <2> QED BY <2>1, <2>2
<1> HIDE DEF S
<1>11. 0..N \subseteq S
  BY <1>0, <1>9, <1>10, BoundedInduction
<1>12. \A n \in 0..N : after[n] \in D
  BY <1>11 DEF S
<1> QED BY <1>1, <1>8, <1>12 DEF N, DrainedRun

\* What a step of a read call leaves.
Reading(t, s) == Sound(t) /\ Keeps(t, s) /\ (Served(s) => Served(t)) /\ t.cursor >= s.cursor

\* Steps of a read call follow each other.
LEMMA ReadingFacts ==
  ASSUME NEW s, Sound(s)
  PROVE  /\ Reading(s, s)
         /\ \A t, u : Reading(t, u) /\ Reading(u, s) => Reading(t, s)
         /\ \A t : Reading(t, s) => t \in Records
<1>0. \A t : Sound(t) => t.cursor \in Nat
  BY DEF Sound, Typed, StreamTyped
<1>1. Reading(s, s)
  BY <1>0 DEF Reading, Keeps
<1>2. ASSUME NEW t, NEW u, Reading(t, u), Reading(u, s) PROVE Reading(t, s)
  <2>1. Sound(t) /\ Sound(u) /\ t.cursor >= u.cursor /\ u.cursor >= s.cursor
    BY <1>2 DEF Reading
  <2>2. t.cursor >= s.cursor
    BY <1>0, <2>1
  <2> QED BY <1>2, <2>2 DEF Reading, Keeps
<1>3. ASSUME NEW t, Reading(t, s) PROVE t \in Records
  <2>1. Typed(t)
    BY <1>3 DEF Reading, Sound
  <2> QED BY <2>1, TypedIsRecord
<1> QED BY <1>1, <1>2, <1>3

\* A buffer of no bytes is empty.
LEMMA EmptySize ==
  ASSUME Given, NEW s, Sound(s)
  PROVE  s.size = 0 <=> s.buf = <<>>
<1>1. s.buf \in Seq(Nat \ {0}) /\ s.size = Bytes(s.buf)
  BY DEF Sound, Typed, StreamTyped, Counted
<1>2. CASE s.buf = <<>>
  <2>1. Bytes(s.buf) = 0
    <3>1. s.buf \in Seq(Nat)
      BY <1>2
    <3> QED BY <1>2, <3>1, BytesType
  <2> QED BY <1>1, <1>2, <2>1
<1>3. CASE s.buf # <<>>
  <2>1. Head(s.buf) \in Nat \ {0}
    BY <1>1, <1>3, HeadTailProperties
  <2>2. Head(s.buf) \in 1..Head(s.buf)
    BY <2>1
  <2>3. Head(s.buf) <= Bytes(s.buf)
    BY <1>1, <1>3, <2>2, RestSum
  <2> QED BY <1>1, <1>3, <2>1, <2>3
<1> QED BY <1>2, <1>3

\* _read_nowait(-1) takes no more blocks than there are.
LEMMA ReadBlocksSound ==
  ASSUME Given, NEW s, Sound(s), NEW count \in Nat, count <= Len(s.buf)
  PROVE  Reading(ReadBlocks(s, count), s) /\ ReadBlocks(s, count).cursor >= s.cursor + count
<1> DEFINE D == {t \in Records : Reading(t, s)}
           T == [t \in D |-> IF t.buf = <<>> THEN t ELSE ReadNowaitChunk(t, -1)]
           Eq(g) == g = [n \in 0..count |-> IF n = 0 THEN s ELSE ReadNowaitChunk(g[n - 1], -1)]
           after == CHOOSE g : Eq(g)
<1>1. ReadBlocks(s, count) = after[count]
  BY DEF ReadBlocks
<1>2. \A t \in D : T[t] = IF t.buf = <<>> THEN t ELSE ReadNowaitChunk(t, -1)
  OBVIOUS
<1>3. \A t : Reading(t, s) => t \in D
  BY ReadingFacts
<1>4. \A t \in D : Reading(t, s)
  OBVIOUS
<1>5. ASSUME NEW t \in D, t.buf # <<>>
      PROVE  /\ ReadNowaitChunk(t, -1) \in D /\ Len(ReadNowaitChunk(t, -1).buf) + 1 >= Len(t.buf)
             /\ ReadNowaitChunk(t, -1).cursor >= t.cursor + 1
  <2> HIDE DEF D
  <2>1. Sound(t) /\ Reading(t, s)
    BY <1>4 DEF Reading
  <2> DEFINE w == ReadNowaitChunk(t, -1)
  <2>2. /\ Sound(w) /\ Served(w) /\ Keeps(w, t) /\ Len(w.buf) + 1 >= Len(t.buf)
        /\ w.cursor >= t.cursor + 1
    BY <1>5, <2>1, TakeChunk
  <2> HIDE DEF w
  <2>4. w.cursor \in Nat /\ t.cursor \in Nat
    BY <2>1, <2>2 DEF Sound, Typed, StreamTyped
  <2>5. Reading(w, t)
    BY <2>2, <2>4 DEF Reading
  <2>3. Reading(w, s)
    BY <2>1, <2>5, ReadingFacts
  <2> QED BY <1>3, <2>2, <2>3 DEF w
<1>6. s \in D
  BY <1>3, ReadingFacts
<1>7. \A t \in D : Len(t.buf) \in Nat /\ t.cursor \in Nat
  <2> HIDE DEF D
  <2> SUFFICES ASSUME NEW t \in D PROVE Len(t.buf) \in Nat /\ t.cursor \in Nat
    OBVIOUS
  <2>1. Reading(t, s)
    BY <1>4
  <2>2. t.buf \in Seq(Nat \ {0}) /\ t.cursor \in Nat
    BY <2>1 DEF Reading, Sound, Typed, StreamTyped
  <2> QED BY <2>2, LenProperties
<1>8. T \in [D -> D]
  <2>1. \A t \in D : (IF t.buf = <<>> THEN t ELSE ReadNowaitChunk(t, -1)) \in D
    <3> HIDE DEF D
    <3> QED BY <1>5
  <2> QED BY <2>1
<1> HIDE DEF T, D
<1>9. PICK g : Repeats(g, s, T, count, D)
  BY <1>6, <1>8, Repeated
<1>10. g \in [0..count -> D] /\ g[0] = s /\ \A n \in 1..count : g[n] = T[g[n - 1]]
  BY <1>9 DEF Repeats
<1>11. ASSUME NEW n \in 0..count, n # count, Len(g[n].buf) + n >= Len(s.buf),
              g[n].cursor >= s.cursor + n
       PROVE  /\ g[n + 1] = ReadNowaitChunk(g[n], -1) /\ Len(g[n + 1].buf) + (n + 1) >= Len(s.buf)
              /\ g[n + 1].cursor >= s.cursor + (n + 1)
  <2>1. n + 1 \in 1..count /\ (n + 1) - 1 = n /\ n \in Nat /\ n < count
    BY <1>11
  <2>2. g[n] \in D /\ g[n + 1] = T[g[n]]
    BY <1>10, <2>1
  <2>3. Len(g[n].buf) \in Nat /\ Len(s.buf) \in Nat
    BY <1>6, <1>7, <2>2
  <2>4. Len(g[n].buf) # 0
    BY <1>11, <2>1, <2>3
  <2>5. g[n].buf # <<>>
    BY <2>4
  <2>6. g[n + 1] = ReadNowaitChunk(g[n], -1)
    BY <1>2, <2>2, <2>5
  <2>7. /\ g[n + 1] \in D /\ Len(g[n + 1].buf) + 1 >= Len(g[n].buf)
        /\ g[n + 1].cursor >= g[n].cursor + 1
    BY <1>5, <2>2, <2>5, <2>6
  <2>8. Len(g[n + 1].buf) \in Nat
    BY <1>7, <2>7
  <2>9. Len(g[n + 1].buf) + (n + 1) >= Len(s.buf)
    <3>1. \A a, b, c \in Nat : a + n >= c /\ b + 1 >= a => b + (n + 1) >= c
      BY <2>1
    <3>2. /\ Len(g[n].buf) + n >= Len(s.buf) /\ Len(g[n + 1].buf) + 1 >= Len(g[n].buf)
          /\ Len(g[n].buf) \in Nat /\ Len(s.buf) \in Nat /\ Len(g[n + 1].buf) \in Nat
      BY <1>11, <2>3, <2>7, <2>8
    <3> QED BY <3>1, <3>2
  <2>10. g[n + 1].cursor >= s.cursor + (n + 1)
    <3>1. \A a, b, c \in Nat : a >= c + n /\ b >= a + 1 => b >= c + (n + 1)
      BY <2>1
    <3>2. g[n].cursor \in Nat /\ g[n + 1].cursor \in Nat /\ s.cursor \in Nat
      BY <1>6, <1>7, <2>2, <2>7
    <3> QED BY <1>11, <2>7, <3>1, <3>2
  <2> QED BY <2>6, <2>9, <2>10
<1> DEFINE S == {n \in Nat : n <= count => (Len(g[n].buf) + n >= Len(s.buf) /\ g[n].cursor >= s.cursor + n)}
<1>12. 0 \in S
  BY <1>6, <1>7, <1>10
<1>13. ASSUME NEW n \in 0..count, n # count, n \in S PROVE n + 1 \in S
  <2>1. n + 1 \in Nat /\ n <= count
    BY <1>13
  <2>2. Len(g[n].buf) + n >= Len(s.buf) /\ g[n].cursor >= s.cursor + n
    BY <1>13, <2>1
  <2>3. Len(g[n + 1].buf) + (n + 1) >= Len(s.buf) /\ g[n + 1].cursor >= s.cursor + (n + 1)
    BY <1>11, <1>13, <2>2
  <2> QED BY <2>1, <2>3
<1> HIDE DEF S
<1>14. 0..count \subseteq S
  BY <1>12, <1>13, BoundedInduction
<1>15. \A n \in 1..count : g[n] = ReadNowaitChunk(g[n - 1], -1)
  <2> SUFFICES ASSUME NEW n \in 1..count PROVE g[n] = ReadNowaitChunk(g[n - 1], -1)
    OBVIOUS
  <2>1. n - 1 \in 0..count /\ n - 1 # count /\ (n - 1) + 1 = n /\ n - 1 \in Nat /\ n - 1 <= count
    OBVIOUS
  <2>2. n - 1 \in S
    BY <1>14, <2>1
  <2>3. Len(g[n - 1].buf) + (n - 1) >= Len(s.buf) /\ g[n - 1].cursor >= s.cursor + (n - 1)
    BY <2>1, <2>2 DEF S
  <2>4. g[(n - 1) + 1] = ReadNowaitChunk(g[n - 1], -1)
    BY <1>11, <2>1, <2>3
  <2> QED BY <2>1, <2>4
<1>16. Eq(g)
  <2>1. ASSUME NEW n \in 0..count PROVE g[n] = IF n = 0 THEN s ELSE ReadNowaitChunk(g[n - 1], -1)
    <3>1. CASE n = 0
      BY <1>10, <3>1
    <3>2. CASE n # 0
      <4>1. n \in 1..count
        BY <3>2
      <4> QED BY <1>15, <3>2, <4>1
    <3> QED BY <3>1, <3>2
  <2>2. g = [n \in 0..count |-> g[n]]
    BY <1>10
  <2> QED BY <2>1, <2>2
<1>17. Eq(after)
  <2> HIDE DEF Eq
  <2> QED BY <1>16
<1> HIDE DEF after
<1>18. /\ after[0] = s
       /\ \A n \in 1..count : after[n] = ReadNowaitChunk(after[n - 1], -1)
  <2>1. \A n \in 1..count : n \in 0..count /\ n # 0
    OBVIOUS
  <2>2. 0 \in 0..count
    OBVIOUS
  <2> QED BY <1>17, <2>1, <2>2
<1> HIDE DEF Eq
<1> DEFINE A == {n \in Nat : after[n] = g[n]}
<1>19. 0 \in A
  BY <1>10, <1>18
<1>20. ASSUME NEW n \in 0..count, n # count, n \in A PROVE n + 1 \in A
  <2>1. n + 1 \in 1..count /\ (n + 1) - 1 = n /\ n + 1 \in Nat
    BY <1>20
  <2>2. after[n + 1] = ReadNowaitChunk(after[n], -1) /\ g[n + 1] = ReadNowaitChunk(g[n], -1)
    BY <1>15, <1>18, <2>1
  <2> QED BY <1>20, <2>1, <2>2
<1> HIDE DEF A
<1>21. 0..count \subseteq A
  BY <1>19, <1>20, BoundedInduction
<1>22. count \in 0..count /\ after[count] = g[count]
  BY <1>21 DEF A
<1>23. g[count].cursor >= s.cursor + count
  <2>1. count \in S
    BY <1>14, <1>22
  <2> QED BY <2>1 DEF S
<1> QED BY <1>1, <1>4, <1>10, <1>22, <1>23

\* A turn of read(-1) keeps Sound.
LEMMA AllTurnSound ==
  ASSUME Given, NEW s, Sound(s)
  PROVE  /\ Reading(AllTurn(s), s)
         /\ s.buf # <<>> => AllTurn(s).cursor >= s.cursor + 1
<1>1. s.buf \in Seq(Nat \ {0})
  BY DEF Sound, Typed, StreamTyped
<1>2. Len(s.buf) \in Nat /\ Len(s.buf) <= Len(s.buf)
  BY <1>1, LenProperties
<1> DEFINE t == ReadBlocks(s, Len(s.buf))
<1>3. Reading(t, s) /\ t.cursor >= s.cursor + Len(s.buf)
  BY <1>2, ReadBlocksSound
<1>4. AllTurn(s) = IF s.buf = <<>> THEN s ELSE t
  BY DEF AllTurn
<1> HIDE DEF t
<1>5. s.buf # <<>> => t.cursor >= s.cursor + 1
  <2>1. t.cursor \in Nat /\ s.cursor \in Nat
    BY <1>3 DEF Reading, Sound, Typed, StreamTyped
  <2>2. s.buf # <<>> => Len(s.buf) # 0
    BY <1>1, EmptySeq
  <2> QED BY <1>2, <1>3, <2>1, <2>2
<1> QED BY <1>3, <1>4, <1>5, ReadingFacts

\* _read_nowait(n) stays before its end.
LEMMA ReadUpToSound ==
  ASSUME Given, NEW s, Sound(s), NEW end \in Nat, s.cursor <= end
  PROVE  LET t == ReadUpTo(s, end) 
         IN  Reading(t, s) /\ t.cursor \in Nat /\ t.cursor <= end /\ (t.cursor = end \/ t.buf = <<>>)
<1> DEFINE D == {t \in Records : Reading(t, s) /\ t.cursor <= end}
           N == end - s.cursor
<1>1. \A t : Reading(t, s) => t.cursor \in Nat
  BY DEF Reading, Sound, Typed, StreamTyped
<1>2. Reading(s, s)
  BY ReadingFacts
<1>3. N \in Nat
  BY <1>1, <1>2
<1>4. \A t : Reading(t, s) /\ t.cursor <= end => t \in D
  BY ReadingFacts
<1>5. \A t \in D : Reading(t, s) /\ t.cursor <= end
  OBVIOUS
<1> HIDE DEF D
<1>6. ASSUME NEW t \in D 
      PROVE  /\ ReadTurn(t, end) \in D
             /\ t.cursor = end \/ t.buf = <<>> => ReadTurn(t, end) = t
             /\ ~(t.cursor = end \/ t.buf = <<>>) => ReadTurn(t, end).cursor >= t.cursor + 1
  <2>1. Reading(t, s) /\ t.cursor <= end /\ t.cursor \in Nat
    BY <1>1, <1>5
  <2>2. CASE t.cursor = end \/ t.buf = <<>>
    BY <2>2 DEF ReadTurn
  <2>3. CASE ~(t.cursor = end \/ t.buf = <<>>)
    <3> DEFINE n == end - t.cursor
               w == ReadNowaitChunk(t, n)
    <3>1. ReadTurn(t, end) = w
      BY <2>3 DEF ReadTurn
    <3>2. n \in Nat \ {0} /\ n # -1 /\ t.cursor + n = end
      BY <2>1, <2>3
    <3> HIDE DEF n, w
    <3>3. Sound(t)
      BY <2>1 DEF Reading
    <3>4. Sound(w) /\ Served(w) /\ Keeps(w, t) /\ w.cursor <= t.cursor + n /\ w.cursor >= t.cursor + 1
      BY <2>3, <3>2, <3>3, TakeChunk DEF w
    <3>8. w.cursor \in Nat
      BY <3>4 DEF Sound, Typed, StreamTyped
    <3>5. Reading(w, t)
      BY <2>1, <3>4, <3>8 DEF Reading
    <3>6. Reading(w, s)
      BY <2>1, <3>5, ReadingFacts
    <3>7. w.cursor <= end
      BY <2>1, <3>2, <3>4, <3>8
    <3> QED BY <1>4, <2>3, <3>1, <3>4, <3>6, <3>7
  <2> QED BY <2>2, <2>3
<1>7. s \in D
  BY <1>2, <1>4
<1>8. PICK f : UpToRun(f, s, end, D)
  BY <1>3, <1>6, <1>7, ReadUpToIs
<1>9. /\ ReadUpTo(s, end) = f[N] /\ f[0] = s /\ \A n \in 0..N : f[n] \in D
      /\ \A n \in 1..N : f[n] = ReadTurn(f[n - 1], end)
  BY <1>8 DEF UpToRun
<1>12. s.cursor \in Nat /\ s.cursor + N = end
  BY <1>1, <1>2
<1> HIDE DEF N
<1> DEFINE S == {n \in Nat : n <= N => (f[n].cursor = end \/ f[n].buf = <<>> \/ f[n].cursor >= s.cursor + n)}
<1>13. 0 \in S
  BY <1>9, <1>12
<1>14. ASSUME NEW n \in 0..N, n # N, n \in S PROVE n + 1 \in S
  <2>1. n + 1 \in 1..N /\ (n + 1) - 1 = n /\ n + 1 \in Nat /\ n \in Nat /\ n <= N /\ n + 1 \in 0..N
    BY <1>3, <1>14
  <2>2. f[n] \in D /\ f[n + 1] \in D /\ f[n + 1] = ReadTurn(f[n], end)
    BY <1>9, <2>1
  <2>3. f[n].cursor \in Nat /\ f[n + 1].cursor \in Nat
    BY <1>1, <1>5, <2>2
  <2>4. f[n].cursor = end \/ f[n].buf = <<>> \/ f[n].cursor >= s.cursor + n
    BY <1>14, <2>1
  <2>5. CASE f[n].cursor = end \/ f[n].buf = <<>>
    <3>1. f[n + 1] = f[n]
      BY <1>6, <2>2, <2>5
    <3> QED BY <2>1, <2>5, <3>1
  <2>6. CASE ~(f[n].cursor = end \/ f[n].buf = <<>>)
    <3>1. f[n + 1].cursor >= f[n].cursor + 1 /\ f[n].cursor >= s.cursor + n
      BY <1>6, <2>2, <2>4, <2>6
    <3>2. f[n + 1].cursor >= s.cursor + (n + 1)
      BY <1>12, <2>1, <2>3, <3>1
    <3> QED BY <2>1, <3>2
  <2> QED BY <2>5, <2>6
<1> HIDE DEF S
<1>15. 0..N \subseteq S
  BY <1>3, <1>13, <1>14, BoundedInduction
<1>10. N \in 0..N
  BY <1>3
<1>11. ReadUpTo(s, end) \in D
  BY <1>9, <1>10
<1> DEFINE t == ReadUpTo(s, end)
<1>16. Reading(t, s) /\ t.cursor \in Nat /\ t.cursor <= end
  BY <1>1, <1>5, <1>11
<1>17. t = f[N] /\ N \in S /\ N <= N
  BY <1>3, <1>9, <1>10, <1>15
<1> HIDE DEF t
<1>18. t.cursor = end \/ t.buf = <<>> \/ t.cursor >= s.cursor + N
  BY <1>17 DEF S
<1>19. t.cursor = end \/ t.buf = <<>>
  BY <1>12, <1>16, <1>18
<1> QED BY <1>16, <1>19 DEF t

\* _read_nowait(n) keeps Sound and reads n bytes at most.
LEMMA ReadBytesSound ==
  ASSUME Given, NEW s, Sound(s), NEW n \in Nat
  PROVE  LET t == ReadBytes(s, n) 
         IN  /\ Reading(t, s) /\ t.cursor \in Nat /\ t.cursor <= s.cursor + n
             /\ t.cursor = s.cursor + n \/ t.buf = <<>>
<1>1. s.cursor \in Nat
  BY DEF Sound, Typed, StreamTyped
<1>2. s.cursor + n \in Nat /\ s.cursor <= s.cursor + n
  BY <1>1
<1>3. ReadBytes(s, n) = ReadUpTo(s, s.cursor + n)
  BY DEF ReadBytes
<1> QED BY <1>2, <1>3, ReadUpToSound

\* The reader is not ahead of the wire.
LEMMA CursorBound ==
  ASSUME Given, NEW s, Sound(s)
  PROVE  Inflated(Len(wire)) - s.cursor \in Nat /\ s.cursor + s.size <= Inflated(Len(wire))
<1>0. /\ s.parsed \in Nat /\ s.arrived \in Nat /\ s.parsed <= s.arrived /\ s.arrived <= Len(wire) /\ Len(wire) \in Nat
      /\ s.cursor \in Nat /\ s.size \in Nat /\ s.held \in Nat /\ s.total = s.cursor + s.size
      /\ s.total + s.held = Inflated(Before[s.parsed])
  BY DEF Sound, Typed, StreamTyped, ParserTyped, Counted, Fed, Given
<1> DEFINE S == {p \in Nat : p <= Len(wire) => Before[p] <= p}
<1>1. 0 \in S
  BY DEF Given
<1>2. ASSUME NEW p \in 0..Len(wire), p # Len(wire), p \in S PROVE p + 1 \in S
  <2>1. p + 1 \in 1..Len(wire) /\ (p + 1) - 1 = p /\ p + 1 \in Nat /\ p <= Len(wire) /\ p \in 0..Len(wire)
    BY <1>0, <1>2
  <2>2. Before[p] <= p /\ Before[p] \in Nat
    BY <1>2, <2>1 DEF Given
  <2>3. Before[p + 1] = Before[p] + IF wire[p + 1] = "byte" THEN 1 ELSE 0
    BY <2>1 DEF Given
  <2>4. Before[p + 1] <= p + 1
    BY <1>2, <2>2, <2>3
  <2> QED BY <2>1, <2>4
<1> HIDE DEF S
<1>3. 0..Len(wire) \subseteq S
  BY <1>0, <1>1, <1>2, BoundedInduction
<1>4. s.parsed \in 0..Len(wire)
  BY <1>0
<1> DEFINE b == Before[s.parsed]
<1>5. b \in Nat /\ b <= Len(wire)
  <2>1. b <= s.parsed
    BY <1>0, <1>3, <1>4 DEF S
  <2>2. b \in Nat
    BY <1>4 DEF Given
  <2> QED BY <1>0, <2>1, <2>2
<1> HIDE DEF b
<1>6. PICK d \in Nat : b + d = Len(wire)
  <2>1. Len(wire) - b \in Nat /\ b + (Len(wire) - b) = Len(wire)
    BY <1>0, <1>5
  <2> QED BY <2>1
<1>7. Inflated(Len(wire)) = Inflated(b) + Inflated(d) /\ Inflated(b) \in Nat /\ Inflated(d) \in Nat
  BY <1>5, <1>6, InflatedFacts
<1>8. s.cursor + s.size + s.held = Inflated(b)
  BY <1>0 DEF b
<1>9. \A c, z, h, i, j, w \in Nat : c + z + h = i /\ w = i + j => w - c \in Nat /\ c + z <= w
  OBVIOUS
<1>10. s.cursor \in Nat /\ s.size \in Nat /\ s.held \in Nat /\ Inflated(Len(wire)) \in Nat
  BY <1>0, <1>7
<1> QED BY <1>7, <1>8, <1>9, <1>10

\* read(-1) keeps Sound as long as there is something to take.
LEMMA DrainedSound ==
  ASSUME Given, NEW s, Sound(s)
  PROVE  Reading(Drained(s), s) /\ Drained(s).buf = <<>>
<1> DEFINE D == {t \in Records : Reading(t, s)}
           N == Inflated(Len(wire)) - s.cursor
<1>1. N \in Nat
  BY CursorBound
<1>2. \A t : Reading(t, s) => t \in D
  BY ReadingFacts
<1>3. \A t \in D : Reading(t, s)
  OBVIOUS
<1> HIDE DEF D
<1>4. ASSUME NEW t \in D 
      PROVE  /\ AllTurn(t) \in D
             /\ IF t.buf = <<>> THEN AllTurn(t) = t ELSE AllTurn(t).cursor >= t.cursor + 1
  <2>1. Reading(t, s) /\ Sound(t)
    BY <1>3 DEF Reading
  <2>2. Reading(AllTurn(t), t) /\ (t.buf # <<>> => AllTurn(t).cursor >= t.cursor + 1)
    BY <2>1, AllTurnSound
  <2>3. t.buf = <<>> => AllTurn(t) = t
    BY DEF AllTurn
  <2> QED BY <1>2, <2>1, <2>2, <2>3, ReadingFacts
<1>5. s \in D
  BY <1>2, ReadingFacts
<1>6. PICK f : DrainedRun(f, s, D)
  BY <1>1, <1>4, <1>5, DrainedIs
<1>7. /\ Drained(s) = f[N] /\ f[0] = s /\ \A n \in 0..N : f[n] \in D
      /\ \A n \in 1..N : f[n] = AllTurn(f[n - 1])
  BY <1>6 DEF DrainedRun
<1>9. \A t \in D : t.cursor \in Nat /\ t.size \in Nat
  BY <1>3 DEF Reading, Sound, Typed, StreamTyped
<1>10. Inflated(Len(wire)) \in Nat
  BY InflatedFacts DEF Given
<1>11. s.cursor + N = Inflated(Len(wire))
  BY <1>5, <1>9, <1>10
<1> HIDE DEF N
<1>8. N \in 0..N
  BY <1>1
<1> DEFINE S == {n \in Nat : n <= N => (f[n].buf = <<>> \/ f[n].cursor >= s.cursor + n)}
<1>12. 0 \in S
  BY <1>5, <1>7, <1>9
<1>13. ASSUME NEW n \in 0..N, n # N, n \in S PROVE n + 1 \in S
  <2>1. n + 1 \in 1..N /\ (n + 1) - 1 = n /\ n + 1 \in Nat /\ n \in Nat /\ n <= N /\ n + 1 \in 0..N
    BY <1>1, <1>13
  <2>2. f[n] \in D /\ f[n + 1] \in D /\ f[n + 1] = AllTurn(f[n])
    BY <1>7, <2>1
  <2>3. f[n].cursor \in Nat /\ f[n + 1].cursor \in Nat /\ s.cursor \in Nat
    BY <1>5, <1>9, <2>2
  <2>4. f[n].buf = <<>> \/ f[n].cursor >= s.cursor + n
    BY <1>13, <2>1
  <2>5. CASE f[n].buf = <<>>
    <3>1. f[n + 1] = f[n]
      BY <1>4, <2>2, <2>5
    <3> QED BY <2>1, <2>5, <3>1
  <2>6. CASE f[n].buf # <<>>
    <3>1. f[n + 1].cursor >= f[n].cursor + 1 /\ f[n].cursor >= s.cursor + n
      BY <1>4, <2>2, <2>4, <2>6
    <3>2. f[n + 1].cursor >= s.cursor + (n + 1)
      BY <2>1, <2>3, <3>1
    <3> QED BY <2>1, <3>2
  <2> QED BY <2>5, <2>6
<1> HIDE DEF S
<1>14. 0..N \subseteq S
  BY <1>1, <1>12, <1>13, BoundedInduction
<1> DEFINE t == Drained(s)
<1>15. t = f[N] /\ t \in D /\ N \in S /\ N <= N
  BY <1>1, <1>7, <1>8, <1>14
<1> HIDE DEF t
<1>16. t.buf = <<>> \/ t.cursor >= Inflated(Len(wire))
  BY <1>11, <1>15 DEF S
<1>17. t.cursor >= Inflated(Len(wire)) => t.size = 0
  <2>1. Sound(t) /\ t.cursor \in Nat /\ t.size \in Nat
    BY <1>3, <1>9, <1>15 DEF Reading
  <2>2. t.cursor + t.size <= Inflated(Len(wire))
    BY <2>1, CursorBound
  <2> QED BY <1>10, <2>1, <2>2
<1>18. t.buf = <<>>
  <2>1. Sound(t)
    BY <1>3, <1>15 DEF Reading
  <2> QED BY <1>16, <1>17, <2>1, EmptySize
<1> QED BY <1>3, <1>15, <1>18 DEF t

(* ------------------------------- read calls ------------------------------ *)

\* What a call leaves, however it goes on.
Result(out) ==
  /\ Sound(out.st) /\ Served(out.st) /\ out.need \in Nat
  /\ out.how = "wait" => Live(out.st) /\ out.st.size = 0

\* A call that ends here leaves what it found, and one that waits has found nothing.
LEMMA OutcomeResult ==
  ASSUME Given, NEW s, Sound(s), Served(s), NEW n \in Nat
  PROVE  /\ \A how : how # "wait" => Result(Outcome(s, n, how))
         /\ ~s.eof /\ s.buf = <<>> => Result(Wait(s, n))
<1>1. \A how : how # "wait" => Result(Outcome(s, n, how))
  BY DEF Result, Outcome
<1>2. ASSUME ~s.eof, s.buf = <<>> PROVE Result(Wait(s, n))
  <2>1. CASE s.conn = "open"
    <3>1. Wait(s, n) = Outcome(s, n, "wait")
      BY <2>1 DEF Wait
    <3>2. Live(s) /\ s.size = 0
      BY <1>2, <2>1, EmptySize DEF Live
    <3> QED BY <3>1, <3>2 DEF Result, Outcome
  <2>2. CASE s.conn # "open"
    <3>1. Wait(s, n) = Outcome(s, n, "error")
      BY <2>2 DEF Wait
    <3> QED BY <1>1, <3>1
  <2> QED BY <2>1, <2>2
<1> QED BY <1>1, <1>2

\* The read calls keep Sound: readany(),
LEMMA ReadAnyResult == ASSUME Given, NEW s, Sound(s), Served(s) PROVE Result(ReadAny(s))
<1>1. s.buf \in Seq(Nat \ {0})
  BY DEF Sound, Typed, StreamTyped
<1>2. Len(s.buf) \in Nat /\ Len(s.buf) <= Len(s.buf) /\ 0 \in Nat
  BY <1>1, LenProperties
<1>3. Sound(ReadBlocks(s, Len(s.buf))) /\ Served(ReadBlocks(s, Len(s.buf)))
  BY <1>2, ReadBlocksSound DEF Reading
<1>4. CASE s.buf # <<>>
  <2>1. ReadAny(s) = Outcome(ReadBlocks(s, Len(s.buf)), 0, "data")
    BY <1>4 DEF ReadAny
  <2> QED BY <1>2, <1>3, <2>1, OutcomeResult
<1>5. CASE s.buf = <<>> /\ s.eof
  <2>1. ReadAny(s) = Outcome(s, 0, "eof")
    BY <1>5 DEF ReadAny
  <2> QED BY <1>2, <2>1, OutcomeResult
<1>6. CASE s.buf = <<>> /\ ~s.eof
  <2>1. ReadAny(s) = Wait(s, 0)
    BY <1>6 DEF ReadAny
  <2> QED BY <1>2, <1>6, <2>1, OutcomeResult
<1> QED BY <1>4, <1>5, <1>6

\* read(n),
LEMMA ReadResult == ASSUME Given, NEW s, Sound(s), Served(s), NEW n \in Nat PROVE Result(Read(s, n))
<1>1. Sound(ReadBytes(s, n)) /\ Served(ReadBytes(s, n)) /\ 0 \in Nat
  BY ReadBytesSound DEF Reading
<1>2. CASE s.buf # <<>>
  <2>1. Read(s, n) = Outcome(ReadBytes(s, n), 0, "data")
    BY <1>2 DEF Read
  <2> QED BY <1>1, <2>1, OutcomeResult
<1>3. CASE s.buf = <<>> /\ s.eof
  <2>1. Read(s, n) = Outcome(s, 0, "eof")
    BY <1>3 DEF Read
  <2> QED BY <1>1, <2>1, OutcomeResult
<1>4. CASE s.buf = <<>> /\ ~s.eof
  <2>1. Read(s, n) = Wait(s, n)
    BY <1>4 DEF Read
  <2> QED BY <1>4, <2>1, OutcomeResult
<1> QED BY <1>2, <1>3, <1>4

\* read(-1),
LEMMA ReadAllResult == ASSUME Given, NEW s, Sound(s), Served(s) PROVE Result(ReadAll(s))
<1>1. /\ Sound(AllTurn(s)) /\ Served(AllTurn(s)) /\ 0 \in Nat
      /\ Sound(Drained(s)) /\ Served(Drained(s)) /\ Drained(s).buf = <<>>
  BY AllTurnSound, DrainedSound DEF Reading
<1>2. CASE s.buf # <<>> /\ Failed(s)
  <2>1. ReadAll(s) = Outcome(AllTurn(s), 0, "error")
    BY <1>2 DEF ReadAll
  <2> QED BY <1>1, <2>1, OutcomeResult
<1>3. CASE ~(s.buf # <<>> /\ Failed(s)) /\ Drained(s).eof
  <2>1. ReadAll(s) = Outcome(Drained(s), 0, "eof")
    BY <1>3 DEF ReadAll
  <2> QED BY <1>1, <2>1, OutcomeResult
<1>4. CASE ~(s.buf # <<>> /\ Failed(s)) /\ ~Drained(s).eof
  <2>1. ReadAll(s) = Wait(Drained(s), 0)
    BY <1>4 DEF ReadAll
  <2> QED BY <1>1, <1>4, <2>1, OutcomeResult
<1> QED BY <1>2, <1>3, <1>4

\* set_read_chunk_size() only raises the marks.
LEMMA SetReadChunkSizeSound ==
  ASSUME Given, NEW s, Sound(s), NEW n \in Nat
  PROVE  LET t == SetReadChunkSize(s, n) IN Sound(t) /\ t.cursor = s.cursor /\ (Served(s) => Served(t))
<1> DEFINE t == SetReadChunkSize(s, n)
<1>0. /\ Shape(s) /\ s.low \in Nat \ {0} /\ s.buf \in Seq(Nat \ {0}) /\ s.size = Bytes(s.buf) /\ s.size \in Nat
      /\ s.cursor \in Nat /\ s.splits \in Seq(Nat) /\ s.fut \in {"none", "pending", "set", "exc"}
  BY DEF Sound, Typed, StreamTyped, TransportTyped, Counted
<1>1. Shape(t) BY <1>0 DEF Shape, SetReadChunkSize
<1>2. Same(t, s, {"low"}) BY <1>0 DEF Shape, Same, SetReadChunkSize
<1>3. t.low = HigherOf(s.low, n) BY <1>0 DEF Shape, Fields, SetReadChunkSize
<1> HIDE DEF t
<1>4. t.low \in Nat \ {0} /\ s.low <= t.low
  BY <1>0, <1>3 DEF HigherOf
<1>5. t.buf = s.buf /\ t.size = s.size /\ t.cursor = s.cursor /\ t.splits = s.splits /\ t.fut = s.fut
  BY <1>2 DEF Same, Fields
<1>6. Same(t, s, ByReader)
  BY <1>2 DEF Same, ByReader
<1>7. t.size <= s.size /\ Len(t.splits) <= Len(s.splits)
  <2>1. Len(s.splits) \in Nat
    BY <1>0, LenProperties
  <2> QED BY <1>0, <1>5, <2>1
<1>9. Ordered(t)
  <2>1. Ordered(s) /\ t.total = s.total
    BY <1>2 DEF Sound, Same, Fields
  <2> QED BY <1>5, <2>1 DEF Ordered
<1>8. Sound(t)
  BY <1>0, <1>1, <1>4, <1>5, <1>6, <1>7, <1>9, ReaderSound
<1>10. Served(s) => Served(t)
  <2>1. t.conn = s.conn /\ t.eof = s.eof /\ t.rpaused = s.rpaused /\ t.pending = s.pending
    BY <1>2 DEF Same, Fields
  <2> QED BY <1>5, <2>1 DEF Served, Live
<1> QED BY <1>5, <1>8, <1>10 DEF t

\* readexactly(n),
LEMMA ReadExactlyResult == ASSUME Given, NEW s, Sound(s), Served(s), NEW n \in Nat PROVE Result(ReadExactly(s, n))
<1> DEFINE t == IF s.buf = <<>> THEN s ELSE ReadBytes(SetReadChunkSize(s, n), n)
           left == n - (t.cursor - s.cursor)
<1>1. s.cursor \in Nat
  BY DEF Sound, Typed, StreamTyped
<1>2. /\ Sound(t) /\ Served(t) /\ t.cursor \in Nat /\ t.cursor <= s.cursor + n
      /\ t.cursor = s.cursor + n \/ t.buf = <<>>
  <2>1. CASE s.buf = <<>>
    <3>1. t = s
      BY <2>1
    <3> HIDE DEF t
    <3> QED BY <1>1, <2>1, <3>1
  <2>2. CASE s.buf # <<>>
    <3> DEFINE r == SetReadChunkSize(s, n)
    <3>1. t = ReadBytes(r, n)
      BY <2>2
    <3> HIDE DEF t
    <3>2. Sound(r) /\ Served(r) /\ r.cursor = s.cursor
      BY SetReadChunkSizeSound
    <3> HIDE DEF r
    <3>3. /\ Reading(t, r) /\ t.cursor \in Nat /\ t.cursor <= r.cursor + n
          /\ t.cursor = r.cursor + n \/ t.buf = <<>>
      BY <3>1, <3>2, ReadBytesSound
    <3> QED BY <3>2, <3>3 DEF Reading
  <2> QED BY <2>1, <2>2
<1>3. ReadExactly(s, n) =
        IF left = 0 THEN Outcome(t, 0, "data")
        ELSE IF s.buf # <<>> /\ Failed(s) THEN Outcome(t, 0, "error")
        ELSE IF t.eof THEN Outcome(t, 0, "incomplete") ELSE Wait(t, left)
  BY DEF ReadExactly
<1> HIDE DEF t
<1>4. left \in Nat /\ 0 \in Nat /\ (left # 0 => t.buf = <<>>)
  BY <1>1, <1>2
<1> HIDE DEF left
<1>5. Result(Outcome(t, 0, "data")) /\ Result(Outcome(t, 0, "error")) /\ Result(Outcome(t, 0, "incomplete"))
      /\ (left # 0 /\ ~t.eof => Result(Wait(t, left)))
  BY <1>2, <1>4, OutcomeResult
<1> QED BY <1>3, <1>5

\* readchunk(),
LEMMA ReadChunkResult == ASSUME Given, NEW s, Sound(s), Served(s) PROVE Result(ReadChunk(s))
<1> DEFINE ends == From(s.splits, s.cursor)
           rest == IF ends = <<>> THEN ends ELSE Tail(ends)
           p == [s EXCEPT !.splits = rest]
<1>0. /\ Shape(s) /\ s.low \in Nat \ {0} /\ s.buf \in Seq(Nat \ {0}) /\ s.size = Bytes(s.buf) /\ s.size \in Nat
      /\ s.cursor \in Nat /\ s.splits \in Seq(Nat) /\ s.fut \in {"none", "pending", "set", "exc"}
      /\ Len(s.splits) \in Nat /\ 0 \in Nat
  BY LenProperties DEF Sound, Typed, StreamTyped, TransportTyped, Counted
<1>1. /\ ends \in Seq(Nat) /\ Len(ends) <= Len(s.splits) /\ Suffix(ends, s.splits)
      /\ ends # <<>> => Head(ends) \in Nat /\ Head(ends) >= s.cursor
  BY <1>0, FromFacts
<1>2. /\ Failed(s) => ReadChunk(s) = Outcome(s, 0, "error")
      /\ ~Failed(s) /\ ends # <<>> => ReadChunk(s) = Outcome(ReadBytes(p, Head(ends) - s.cursor), 0, "end of chunk")
      /\ ~Failed(s) /\ ends = <<>> /\ s.buf # <<>> =>
           ReadChunk(s) = Outcome(ReadNowaitChunk(p, -1), 0, "part of chunk")
      /\ ~Failed(s) /\ ends = <<>> /\ s.buf = <<>> =>
           ReadChunk(s) = IF s.eof THEN Outcome(p, 0, "eof") ELSE Wait(p, 0)
  BY DEF ReadChunk
<1> HIDE DEF ends
<1>3. rest \in Seq(Nat) /\ Len(rest) <= Len(s.splits) /\ Suffix(rest, s.splits)
  <2>1. CASE ends = <<>>
    BY <1>1, <2>1
  <2>2. CASE ends # <<>>
    <3>1. Tail(ends) \in Seq(Nat) /\ Len(Tail(ends)) = Len(ends) - 1 /\ Len(ends) \in Nat
      BY <1>1, <2>2, HeadTailProperties, LenProperties
    <3>2. rest = Tail(ends)
      BY <2>2
    <3> HIDE DEF rest
    <3>3. Suffix(Tail(ends), s.splits)
      BY <1>0, <1>1, <2>2, SuffixTail
    <3> QED BY <1>0, <1>1, <3>1, <3>2, <3>3
  <2> QED BY <2>1, <2>2
<1> HIDE DEF rest
<1>4. Shape(p) BY <1>0 DEF Shape
<1>5. Same(p, s, {"splits"}) BY <1>0 DEF Shape, Same
<1>6. p.splits = rest BY <1>0 DEF Shape, Fields
<1> HIDE DEF p
<1>7. p.buf = s.buf /\ p.size = s.size /\ p.cursor = s.cursor /\ p.low = s.low /\ p.fut = s.fut
  BY <1>5 DEF Same, Fields
<1>13. Served(p)
  <2>1. p.conn = s.conn /\ p.eof = s.eof /\ p.rpaused = s.rpaused /\ p.pending = s.pending
    BY <1>5 DEF Same, Fields
  <2> QED BY <1>7, <2>1 DEF Served, Live
<1>14. p.eof = s.eof
  BY <1>5 DEF Same, Fields
<1>8. Sound(p)
  <2>1. Same(p, s, ByReader)
    BY <1>5 DEF Same, ByReader
  <2>2. p.size <= s.size /\ s.low <= p.low
    BY <1>0, <1>7
  <2>3. Ordered(p)
    <3>1. Ordered(s) /\ p.total = s.total
      BY <1>5 DEF Sound, Same, Fields
    <3> QED BY <1>0, <1>3, <1>6, <1>7, <3>1, SuffixOrdered
  <2> QED BY <1>0, <1>3, <1>4, <1>6, <1>7, <2>1, <2>2, <2>3, ReaderSound
<1>9. CASE Failed(s)
  BY <1>0, <1>2, <1>9, OutcomeResult
<1>10. CASE ~Failed(s) /\ ends # <<>>
  <2>1. Head(ends) - s.cursor \in Nat
    BY <1>0, <1>1, <1>10
  <2>2. Sound(ReadBytes(p, Head(ends) - s.cursor)) /\ Served(ReadBytes(p, Head(ends) - s.cursor))
    BY <1>8, <1>13, <2>1, ReadBytesSound DEF Reading
  <2> QED BY <1>0, <1>2, <1>10, <2>2, OutcomeResult
<1>11. CASE ~Failed(s) /\ ends = <<>> /\ s.buf # <<>>
  <2>1. Sound(ReadNowaitChunk(p, -1)) /\ Served(ReadNowaitChunk(p, -1))
    BY <1>7, <1>8, <1>11, TakeChunk
  <2> QED BY <1>0, <1>2, <1>11, <2>1, OutcomeResult
<1>12. CASE ~Failed(s) /\ ends = <<>> /\ s.buf = <<>>
  <2>1. Result(Outcome(p, 0, "eof")) /\ (~s.eof => Result(Wait(p, 0)))
    BY <1>0, <1>7, <1>8, <1>12, <1>13, <1>14, OutcomeResult
  <2> QED BY <1>2, <1>12, <2>1
<1> QED BY <1>9, <1>10, <1>11, <1>12

\* and so any of them.
LEMMA GoResult ==
  ASSUME Given, NEW call \in Ops, NEW s, Sound(s), Served(s), NEW n \in Nat
  PROVE  Result(Go(call, s, n))
<1>1. call \in {"readany", "read", "readall", "readexactly", "readchunk"}
  BY BodyAssumption
<1>2. CASE call = "readany"
  BY <1>2, ReadAnyResult DEF Go
<1>3. CASE call = "read"
  BY <1>3, ReadResult DEF Go
<1>4. CASE call = "readall"
  BY <1>4, ReadAllResult DEF Go
<1>5. CASE call = "readexactly"
  BY <1>5, ReadExactlyResult DEF Go
<1>6. CASE call = "readchunk"
  BY <1>6, ReadChunkResult DEF Go
<1> QED BY <1>1, <1>2, <1>3, <1>4, <1>5, <1>6

(* -------------------------------- actions -------------------------------- *)

\* The future the call waits on is not of Sound.
LEMMA FutSound ==
  ASSUME Given, NEW s, Sound(s), NEW x \in {"none", "pending", "set", "exc"}
  PROVE  LET t == [s EXCEPT !.fut = x] 
         IN  Sound(t) /\ t.fut = x /\ t.size = s.size /\ (Live(t) <=> Live(s)) /\ (Served(s) => Served(t))
<1> DEFINE t == [s EXCEPT !.fut = x]
<1>0. /\ Shape(s) /\ s.low \in Nat \ {0} /\ s.buf \in Seq(Nat \ {0}) /\ s.size = Bytes(s.buf) /\ s.size \in Nat
      /\ s.cursor \in Nat /\ s.splits \in Seq(Nat) /\ Len(s.splits) \in Nat
  BY LenProperties DEF Sound, Typed, StreamTyped, TransportTyped, Counted
<1>1. Shape(t) BY <1>0 DEF Shape
<1>2. Same(t, s, {"fut"}) BY <1>0 DEF Shape, Same
<1>3. t.fut = x BY <1>0 DEF Shape, Fields
<1> HIDE DEF t
<1>4. t.buf = s.buf /\ t.size = s.size /\ t.cursor = s.cursor /\ t.splits = s.splits /\ t.low = s.low
  BY <1>2 DEF Same, Fields
<1>5. Same(t, s, ByReader)
  BY <1>2 DEF Same, ByReader
<1>6. t.size <= s.size /\ Len(t.splits) <= Len(s.splits) /\ s.low <= t.low
  BY <1>0, <1>4
<1>8. Ordered(t)
  <2>1. Ordered(s) /\ t.total = s.total
    BY <1>2 DEF Sound, Same, Fields
  <2> QED BY <1>4, <2>1 DEF Ordered
<1>7. Sound(t)
  BY <1>0, <1>1, <1>3, <1>4, <1>5, <1>6, <1>8, ReaderSound
<1>9. (Live(t) <=> Live(s)) /\ (Served(s) => Served(t))
  <2>1. t.conn = s.conn /\ t.eof = s.eof /\ t.rpaused = s.rpaused /\ t.pending = s.pending
    BY <1>2 DEF Same, Fields
  <2> QED BY <1>4, <2>1 DEF Served, Live
<1> QED BY <1>3, <1>4, <1>7, <1>9 DEF t

\* A call that waits has taken all there is, and the connection still reads.
Waits(s) == s.fut = "pending" => Live(s) /\ s.size = 0

\* What an action leaves: the record, and what the task waits for.
After ==
  /\ Sound(st') /\ Served(st') /\ Waits(st') /\ UNCHANGED <<mode, wire, sizes>>
  /\ pc' \in {"idle", "waiting"} /\ need' \in Nat /\ op' \in Ops \cup {"none"}
  /\ pc' = "waiting" => op' \in Ops
  /\ st'.fut = "none" <=> pc' = "idle"

\* A call that ends.
LEMMA EndCallAfter ==
  ASSUME Given, NEW s, Sound(s), Served(s), EndCall(s), UNCHANGED <<mode, wire, sizes>>
  PROVE  After
<1>1. st' = [s EXCEPT !.fut = "none"] /\ pc' = "idle" /\ op' = "none" /\ need' = 0
  BY DEF EndCall
<1>2. Sound(st') /\ Served(st') /\ st'.fut = "none"
  BY <1>1, FutSound
<1> QED BY <1>1, <1>2 DEF After, Waits

\* A call that goes on.
LEMMA ProceedAfter ==
  ASSUME Given, NEW s, Sound(s), Served(s), NEW call \in Ops, NEW n \in Nat, Proceed(call, s, n),
         UNCHANGED <<mode, wire, sizes>>
  PROVE  After
<1> DEFINE out == Go(call, s, n)
<1>1. /\ Sound(out.st) /\ Served(out.st) /\ out.need \in Nat
      /\ out.how = "wait" => Live(out.st) /\ out.st.size = 0
  BY GoResult DEF Result
<1>2. IF out.how = "wait"
      THEN /\ st' = [out.st EXCEPT !.fut = "pending"]
           /\ pc' = "waiting" /\ op' = call /\ need' = out.need
      ELSE EndCall(out.st)
  BY DEF Proceed
<1> HIDE DEF out
<1>3. CASE out.how = "wait"
  <2>1. /\ st' = [out.st EXCEPT !.fut = "pending"] /\ pc' = "waiting" /\ op' = call /\ need' = out.need
    BY <1>2, <1>3
  <2>2. /\ Sound(st') /\ Served(st') /\ st'.fut = "pending" /\ st'.size = out.st.size
        /\ Live(st') <=> Live(out.st)
    BY <1>1, <2>1, FutSound
  <2>3. Waits(st')
    BY <1>1, <1>3, <2>2 DEF Waits
  <2> QED BY <1>1, <2>1, <2>2, <2>3 DEF After
<1>4. CASE out.how # "wait"
  BY <1>1, <1>2, <1>4, EndCallAfter
<1> QED BY <1>3, <1>4

\* The inductive invariant.
BodyInv ==
  /\ mode \in Modes /\ sizes \in Bodies /\ wire = Wire(mode.kind, sizes)
  /\ Sound(st) /\ Served(st) /\ Waits(st)
  /\ pc \in {"idle", "waiting"} /\ need \in Nat /\ op \in Ops \cup {"none"}
  /\ pc = "waiting" => op \in Ops
  /\ st.fut = "none" <=> pc = "idle"

\* The actions: a call,
LEMMA CallAfter ==
  ASSUME Given, BodyInv, NEW call \in Ops, NEW n \in ReadSizes, Call(call, n)
  PROVE  After
<1> DEFINE s == CASE call = "readall" -> SetReadChunkSize(st, Unlimited)
                  [] call \in {"read", "readexactly"} -> SetReadChunkSize(st, n)
                  [] OTHER -> st
<1>1. Sound(st) /\ Served(st) /\ n \in Nat /\ Unlimited \in Nat
  BY DEF BodyInv, Given, Unlimited
<1>2. Proceed(call, s, n) /\ UNCHANGED <<mode, wire, sizes>>
  BY DEF Call
<1>3. Sound(s) /\ Served(s)
  <2>1. CASE call = "readall"
    <3>1. s = SetReadChunkSize(st, Unlimited)
      BY <2>1
    <3> QED BY <1>1, <3>1, SetReadChunkSizeSound
  <2>2. CASE call \in {"read", "readexactly"}
    <3>1. s = SetReadChunkSize(st, n)
      BY <2>2
    <3> QED BY <1>1, <3>1, SetReadChunkSizeSound
  <2>3. CASE call \notin {"readall", "read", "readexactly"}
    <3>1. s = st
      BY <2>3
    <3> QED BY <1>1, <3>1
  <2> QED BY <2>1, <2>2, <2>3
<1> HIDE DEF s
<1> QED BY <1>1, <1>2, <1>3, ProceedAfter

\* its waking up,
LEMMA ResumedAfter ==
  ASSUME Given, BodyInv, Resumed
  PROVE  After
<1>1. Sound(st) /\ Served(st) /\ need \in Nat /\ op \in Ops
  BY DEF BodyInv, Resumed
<1>2. CASE st.fut = "set"
  <2>1. Proceed(op, [st EXCEPT !.fut = "none"], need) /\ UNCHANGED <<mode, wire, sizes>>
    BY <1>2 DEF Resumed
  <2>2. Sound([st EXCEPT !.fut = "none"]) /\ Served([st EXCEPT !.fut = "none"])
    BY <1>1, FutSound
  <2> QED BY <1>1, <2>1, <2>2, ProceedAfter
<1>3. CASE st.fut # "set"
  <2>1. EndCall(st) /\ UNCHANGED <<mode, wire, sizes>>
    BY <1>3 DEF Resumed
  <2> QED BY <1>1, <2>1, EndCallAfter
<1> QED BY <1>2, <1>3

\* its cancellation,
LEMMA CancelAfter ==
  ASSUME Given, BodyInv, CancelRead
  PROVE  After
BY EndCallAfter DEF BodyInv, CancelRead

\* The parser has run on a connection that is read.
LEMMA ParsedSound ==
  ASSUME Given, NEW u, NEW t, Core(t, u), Fed(t), EofOK(t), Live(t) => AtRest(t),
         Timed(u), ~u.tpaused, u.conn = "open", ~u.eofPending, Ordered(u)
  PROVE  Sound(t) /\ (t.fut = "none" <=> u.fut = "none")
<1>1. /\ Typed(t) /\ Same(t, u, ByParser) /\ Counted(t) /\ Pauses(t) /\ Top(t)
      /\ t.rpaused => t.tpaused
      /\ t.tpaused => t.rpaused \/ u.tpaused
      /\ Timed(u) => Timed(t)
      /\ t.fut = "none" <=> u.fut = "none"
  BY DEF Core
<1>2. t.conn = "open" /\ ~t.eofPending
  <2>1. t.conn = u.conn /\ t.eofPending = u.eofPending
    BY <1>1 DEF Same, Fields, ByParser
  <2> QED BY <2>1
<1>3. t.rpaused <=> t.tpaused
  BY <1>1
<1>4. Ended(t)
  BY <1>2 DEF Ended
<1>5. Ordered(t)
  BY DEF Core, Grown
<1> QED BY <1>1, <1>2, <1>3, <1>4, <1>5 DEF Sound

\* data_received(),
LEMMA ReceiveAfter ==
  ASSUME Given, BodyInv, NEW n \in 1..Len(wire), Receive(n)
  PROVE  After
<1> DEFINE v == [st EXCEPT !.arrived = @ + n, !.timer = TRUE]
<1>0. /\ Typed(st) /\ Shape(st) /\ TransportTyped(st) /\ ParserTyped(st) /\ StreamTyped(st)
      /\ Counted(st) /\ Fed(st) /\ EofOK(st) /\ Pauses(st) /\ Top(st)
      /\ st.eofPending => st.conn # "open"
      /\ st.rpaused <=> st.tpaused
      /\ Live(st) => AtRest(st)
  BY DEF BodyInv, Sound, Typed
<1>1. /\ st.conn = "open" /\ ~st.tpaused /\ st.exc = "none" /\ st.arrived + n <= Len(wire)
      /\ st' = ParserFeed(v, TRUE) /\ UNCHANGED <<mode, wire, sizes, pc, op, need>>
  BY DEF Receive
<1>2. n \in Nat /\ n > 0 /\ Len(wire) \in Nat /\ st.arrived \in Nat /\ st.parsed \in Nat /\ st.parsed <= st.arrived
  BY <1>0 DEF Given, ParserTyped, Counted
<1>3. ~st.eof
  <2> SUFFICES ASSUME st.eof PROVE FALSE
    OBVIOUS
  <2>1. st.parsed = Len(wire)
    BY <1>0, <1>1 DEF EofOK
  <2> QED BY <1>1, <1>2, <2>1
<1>4. AtRest(st) /\ ~High(st) /\ ~st.rpaused /\ ~st.eofPending
  BY <1>0, <1>1, <1>3 DEF Live, Pauses
<1>5. Shape(v) BY <1>0 DEF Shape
<1>6. Same(v, st, {"arrived", "timer"}) BY <1>0 DEF Shape, Same
<1>7. v.arrived = st.arrived + n /\ v.timer = TRUE BY <1>0 DEF Shape, Fields
<1> HIDE DEF v
<1>8. /\ v.conn = st.conn /\ v.tpaused = st.tpaused /\ v.rpaused = st.rpaused /\ v.exc = st.exc /\ v.fut = st.fut
      /\ v.ppaused = st.ppaused /\ v.pending = st.pending /\ v.eofPending = st.eofPending
      /\ v.parsed = st.parsed /\ v.phase = st.phase /\ v.held = st.held
      /\ v.more = st.more /\ v.low = st.low /\ v.buf = st.buf /\ v.size = st.size /\ v.cursor = st.cursor
      /\ v.total = st.total /\ v.splits = st.splits /\ v.eof = st.eof
  BY <1>6 DEF Same, Fields
<1>9. v.arrived \in Nat /\ v.parsed <= v.arrived /\ v.arrived <= Len(wire)
  BY <1>1, <1>2, <1>7, <1>8
<1>10. Typed(v)
  <2>1. TransportTyped(v) BY <1>0, <1>7, <1>8 DEF TransportTyped
  <2>2. ParserTyped(v) BY <1>0, <1>8, <1>9 DEF ParserTyped
  <2>3. StreamTyped(v) BY <1>0, <1>8 DEF StreamTyped
  <2> QED BY <1>5, <2>1, <2>2, <2>3 DEF Typed
<1>11. Core(v, v) /\ Fed(v) /\ EofOK(v) /\ Timed(v)
  <2>1. Counted(v) BY <1>0, <1>8, <1>9 DEF Counted
  <2>2. Pauses(v) BY <1>4, <1>8 DEF Pauses, High
  <2>3. Top(v) BY <1>0, <1>8 DEF Top, Live, Bounded
  <2>4. Len(v.buf) <= Len(v.buf)
    <3>1. Len(v.buf) \in Nat BY <1>0, <1>8, LenProperties DEF StreamTyped
    <3> QED BY <3>1
  <2>5. Fed(v) /\ EofOK(v) /\ Timed(v) BY <1>0, <1>3, <1>7, <1>8 DEF Fed, EofOK, Timed
  <2>6. ~v.rpaused
    BY <1>4, <1>8
  <2>7. Grown(v, v) BY DEF Grown
  <2> QED BY <1>10, <2>1, <2>2, <2>3, <2>4, <2>5, <2>6, <2>7 DEF Core, Same
<1>12. Ready(v, TRUE)
  <2>1. MoreOK(v) /\ Between(v) /\ Known(v)
    BY <1>4, <1>8 DEF AtRest, MoreOK, Between, Known
  <2>2. Calm => ~v.ppaused /\ ~v.pending
    BY <1>4, <1>8 DEF AtRest, Quiet
  <2>3. Roomy(v)
    <3>1. ~(st.size > 2 * st.low) /\ st.size \in Nat /\ st.low \in Nat
      BY <1>0, <1>4 DEF High, StreamTyped
    <3>2. st.size <= 2 * st.low
      BY <3>1
    <3> QED BY <1>8, <3>2 DEF Roomy
  <2>4. mode.kind # "chunked" /\ mode.parser = "extension" => ~v.more
    BY <2>1, <2>2 DEF Known, Calm, Quick
  <2>5. Quick => Aligned(v) /\ (v.pending => ~v.ppaused)
    BY <1>4, <1>8 DEF AtRest, Aligned
  <2> QED BY <2>1, <2>2, <2>3, <2>4, <2>5 DEF Ready
<1>13. ~v.eofPending /\ ~v.tpaused /\ v.conn = "open"
  BY <1>1, <1>4, <1>8
<1> DEFINE t == ParserFeed(v, TRUE)
<1>14. Parsing(t, v) /\ (~t.eof /\ mode.kind # "chunked" => t.parsed = t.arrived) /\ (Quick => Stopped(t))
  BY <1>11, <1>12, <1>13, ParserFeedDone
<1>15. st' = t
  BY <1>1
<1> HIDE DEF t
<1>16. Core(t, v) /\ Fed(t) /\ EofOK(t) /\ (Live(t) => AtRest(t)) /\ (Live(t) => Tracked(t))
  BY <1>14, ParsedRests
<1>20. Ordered(v)
  <2>1. Ordered(st)
    BY DEF BodyInv, Sound
  <2> QED BY <1>8, <2>1 DEF Ordered
<1>17. Sound(t) /\ (t.fut = "none" <=> v.fut = "none")
  BY <1>11, <1>13, <1>16, <1>20, ParsedSound
<1>18. /\ pc' = pc /\ need' = need /\ op' = op /\ UNCHANGED <<mode, wire, sizes>>
  BY <1>1
<1>19. st.fut = "none" <=> pc = "idle"
  BY DEF BodyInv
<1>21. Grown(t, v) /\ t.conn = v.conn
  BY <1>16 DEF Core, Same, Fields, ByParser
<1>22. Served(t)
  <2> SUFFICES ASSUME Live(t), Quick, t.size = 0 PROVE ~t.rpaused /\ ~t.pending
    BY DEF Served
  <2>1. ~(t.size > 0)
    OBVIOUS
  <2>2. t.rpaused => v.rpaused \/ t.size > 0
    BY <1>20, <1>21 DEF Grown
  <2>3. ~t.pending
    BY <1>16, <2>1 DEF Tracked
  <2> QED BY <1>4, <1>8, <2>1, <2>2, <2>3
<1>23. Waits(t)
  <2> SUFFICES ASSUME t.fut = "pending" PROVE Live(t) /\ t.size = 0
    BY DEF Waits
  <2>1. v.fut = "pending" /\ t.size = v.size /\ t.eof = v.eof
    BY <1>21 DEF Grown
  <2>2. Live(st) /\ st.size = 0
    BY <1>8, <2>1 DEF BodyInv, Waits
  <2> QED BY <1>8, <1>21, <2>1, <2>2 DEF Live
<1> QED BY <1>8, <1>15, <1>17, <1>18, <1>19, <1>22, <1>23 DEF After, BodyInv

\* The body has failed, or the connection is gone.
LEMMA FailedSound ==
  ASSUME Given, NEW s, Sound(s), NEW t, Shape(t), TransportTyped(t),
         Same(t, s, {"conn", "rpaused", "tpaused", "timer", "exc", "fut"}), t.exc # "none",
         \/ t.conn = s.conn /\ t.rpaused = s.rpaused /\ t.tpaused = s.tpaused
         \/ t.conn # "open" /\ t.rpaused = FALSE /\ t.tpaused = FALSE
  PROVE  Sound(t)
<1>0. /\ Typed(s) /\ Shape(s) /\ TransportTyped(s) /\ ParserTyped(s) /\ StreamTyped(s)
      /\ Counted(s) /\ Fed(s) /\ EofOK(s) /\ Pauses(s) /\ Top(s)
      /\ s.eofPending => s.conn # "open"
      /\ s.rpaused <=> s.tpaused
      /\ Live(s) => AtRest(s)
  BY DEF Sound, Typed
<1>1. /\ t.ppaused = s.ppaused /\ t.pending = s.pending /\ t.eofPending = s.eofPending
      /\ t.arrived = s.arrived /\ t.parsed = s.parsed /\ t.phase = s.phase /\ t.held = s.held
      /\ t.more = s.more /\ t.low = s.low /\ t.buf = s.buf /\ t.size = s.size /\ t.cursor = s.cursor
      /\ t.total = s.total /\ t.splits = s.splits /\ t.eof = s.eof
  BY DEF Same, Fields
<1>2. Typed(t)
  <2>1. ParserTyped(t) BY <1>0, <1>1 DEF ParserTyped
  <2>2. StreamTyped(t) BY <1>0, <1>1 DEF StreamTyped
  <2> QED BY <2>1, <2>2 DEF Typed
<1>3. Counted(t) /\ Fed(t) BY <1>0, <1>1 DEF Counted, Fed
<1>7. Timed(t) /\ Ended(t) BY DEF Timed, Ended
<1>8. Ordered(t)
  <2>1. Ordered(s)
    BY DEF Sound
  <2> QED BY <1>1, <2>1 DEF Ordered
<1>4. Timed(t) /\ Ended(t) /\ Ordered(t) BY <1>7, <1>8
<1>5. CASE t.conn = s.conn /\ t.rpaused = s.rpaused /\ t.tpaused = s.tpaused
  <2>1. EofOK(t) BY <1>0, <1>1, <1>5 DEF EofOK
  <2>2. Pauses(t) BY <1>0, <1>1, <1>5 DEF Pauses, Live, High
  <2>3. Top(t) BY <1>0, <1>1, <1>5 DEF Top, Live, Bounded
  <2>4. Live(t) => AtRest(t)
    <3> SUFFICES ASSUME Live(t) PROVE AtRest(t)
      OBVIOUS
    <3>1. AtRest(s)
      BY <1>0, <1>1, <1>5 DEF Live
    <3> QED BY <1>1, <1>5, <3>1 DEF AtRest, MoreOK, Between, Known, Quiet, Aligned
  <2>5. (t.rpaused <=> t.tpaused) /\ (t.eofPending => t.conn # "open")
    BY <1>0, <1>1, <1>5
  <2> QED BY <1>2, <1>3, <1>4, <2>1, <2>2, <2>3, <2>4, <2>5 DEF Sound
<1>6. CASE t.conn # "open" /\ t.rpaused = FALSE /\ t.tpaused = FALSE
  <2>1. EofOK(t) BY <1>0, <1>1, <1>6 DEF EofOK
  <2>2. Pauses(t) /\ Top(t) /\ ~Live(t) BY <1>6 DEF Pauses, Top, Live
  <2>3. (t.rpaused <=> t.tpaused) /\ (t.eofPending => t.conn # "open")
    BY <1>6
  <2> QED BY <1>2, <1>3, <1>4, <2>1, <2>2, <2>3 DEF Sound
<1> QED BY <1>5, <1>6

\* the sock_read timer,
LEMMA ReadTimeoutAfter ==
  ASSUME Given, BodyInv, ReadTimeout
  PROVE  After
<1> DEFINE w == Wake(st, "exc")
           t == [w EXCEPT !.exc = "timeout", !.timer = FALSE]
<1>0. Sound(st) /\ Shape(st) /\ TransportTyped(st)
  BY DEF BodyInv, Sound, Typed
<1>1. st' = t /\ UNCHANGED <<mode, wire, sizes, pc, op, need>>
  BY DEF ReadTimeout
<1>2. Shape(w) /\ Same(w, st, {"fut"}) /\ w.fut = IF st.fut = "pending" THEN "exc" ELSE st.fut
  BY <1>0, WakeFields
<1> HIDE DEF w
<1>3. Shape(t) BY <1>2 DEF Shape
<1>4. Same(t, w, {"exc", "timer"}) BY <1>2 DEF Shape, Same
<1>5. t.exc = "timeout" /\ t.timer = FALSE BY <1>2 DEF Shape, Fields
<1> HIDE DEF t
<1>6. t.conn = st.conn /\ t.rpaused = st.rpaused /\ t.tpaused = st.tpaused /\ t.fut = w.fut
  BY <1>2, <1>4 DEF Same, Fields
<1>7. TransportTyped(t) /\ (t.fut = "none" <=> st.fut = "none")
  BY <1>0, <1>2, <1>5, <1>6 DEF TransportTyped
<1>8. Same(t, st, {"conn", "rpaused", "tpaused", "timer", "exc", "fut"})
  BY <1>2, <1>4 DEF Same
<1>9. Sound(t)
  BY <1>0, <1>3, <1>5, <1>6, <1>7, <1>8, FailedSound
<1>10. Served(t)
  <2>1. /\ t.conn = st.conn /\ t.eof = st.eof /\ t.rpaused = st.rpaused /\ t.pending = st.pending
        /\ t.size = st.size
    BY <1>2, <1>4 DEF Same, Fields
  <2> QED BY <2>1 DEF BodyInv, Served, Live
<1>11. Waits(t)
  BY <1>2, <1>6 DEF Waits
<1> QED BY <1>1, <1>7, <1>9, <1>10, <1>11 DEF After, BodyInv

\* What the parser does with the rest when the connection has ended.
Closing(s) == [[s EXCEPT !.timer = FALSE] EXCEPT !.eofPending = TRUE, !.pending = FALSE]

\* When the connection ends, all is inflated or the parser stops at a pause.
LEMMA ClosingDrained ==
  ASSUME Given, Sound(st), Live(st), mode.kind = "eof"
  PROVE  LET d == Closing(st)
             l == Drain(d)
         IN  /\ Typed(l) /\ Counted(l) /\ Fed(l) /\ Ordered(l) /\ l.eof = FALSE /\ l.exc = st.exc
             /\ ~st.more => ~l.pending
             /\ l.fut = "pending" => st.fut = "pending"
             /\ l.eofPending = TRUE
             /\ l.fut = "none" <=> st.fut = "none"
             /\ ~l.pending => l.held = 0 /\ l.parsed = l.arrived
             /\ ~st.tpaused /\ ~(mode.parser = "python" /\ mode.codec = "zstd") => ~l.pending
<1> DEFINE g == [st EXCEPT !.timer = FALSE]
           d == Closing(st)
           l == Drain(d)
<1>0. /\ Typed(st) /\ Shape(st) /\ TransportTyped(st) /\ ParserTyped(st) /\ StreamTyped(st)
      /\ Counted(st) /\ Fed(st) /\ Pauses(st)
      /\ st.rpaused <=> st.tpaused
      /\ AtRest(st)
  BY DEF Sound, Typed
<1>1. Shape(g) BY <1>0 DEF Shape
<1>2. Same(g, st, {"timer"}) BY <1>0 DEF Shape, Same
<1>3. g.timer = FALSE BY <1>0 DEF Shape, Fields
<1>4. d = [g EXCEPT !.eofPending = TRUE, !.pending = FALSE]
  BY DEF Closing
<1> HIDE DEF g, d
<1>5. Shape(d) BY <1>1, <1>4 DEF Shape
<1>6. Same(d, g, {"eofPending", "pending"}) BY <1>1, <1>4 DEF Shape, Same
<1>7. d.eofPending = TRUE /\ d.pending = FALSE BY <1>1, <1>4 DEF Shape, Fields
<1>8. /\ d.conn = st.conn /\ d.tpaused = st.tpaused /\ d.rpaused = st.rpaused /\ d.exc = st.exc /\ d.fut = st.fut
      /\ d.ppaused = st.ppaused /\ d.parsed = st.parsed /\ d.phase = st.phase /\ d.held = st.held
      /\ d.more = st.more /\ d.low = st.low /\ d.buf = st.buf /\ d.size = st.size /\ d.cursor = st.cursor
      /\ d.total = st.total /\ d.splits = st.splits /\ d.eof = st.eof /\ d.arrived = st.arrived
      /\ d.timer = FALSE
  BY <1>2, <1>3, <1>6 DEF Same, Fields
<1>9. Typed(d)
  <2>1. TransportTyped(d) BY <1>0, <1>8 DEF TransportTyped
  <2>2. ParserTyped(d) BY <1>0, <1>7, <1>8 DEF ParserTyped
  <2>3. StreamTyped(d) BY <1>0, <1>8 DEF StreamTyped
  <2> QED BY <1>5, <2>1, <2>2, <2>3 DEF Typed
<1>10. ~Bounded(d)
  BY <1>7 DEF Bounded
<1>11. Core(d, d)
  <2>1. Counted(d) BY <1>0, <1>8 DEF Counted
  <2>2. Pauses(d) BY <1>0, <1>8 DEF Pauses, Live, High
  <2>3. Top(d) BY <1>10 DEF Top
  <2>4. Len(d.buf) <= Len(d.buf)
    <3>1. Len(d.buf) \in Nat BY <1>9, LenProperties DEF Typed, StreamTyped
    <3> QED BY <3>1
  <2>5. d.rpaused => d.tpaused
    BY <1>0, <1>8
  <2>6. Grown(d, d) BY DEF Grown
  <2> QED BY <1>9, <2>1, <2>2, <2>3, <2>4, <2>5, <2>6 DEF Core, Same
<1>12. MoreOK(d) /\ Room(d) /\ ~d.eof
  BY <1>0, <1>8, <1>10 DEF AtRest, MoreOK, Room, Live
<1> HIDE DEF l
<1>13. Draining(l, d, d) /\ DrainIdle(l)
  BY <1>11, <1>12, DrainRests DEF l
<1>14. /\ Core(l, d) /\ Same(l, d, Drains) /\ MoreOK(l) /\ l.total + l.held = d.total + d.held
       /\ ~d.more => l = d
  BY <1>13 DEF Draining
<1>15. Typed(l) /\ Counted(l) /\ (l.fut = "none" <=> st.fut = "none")
  BY <1>8, <1>14 DEF Core
<1>16. /\ l.eof = d.eof /\ l.exc = d.exc /\ l.eofPending = d.eofPending /\ l.parsed = d.parsed /\ l.arrived = d.arrived
  BY <1>14 DEF Same, Fields, Drains, Inflating
<1>17. Fed(l)
  BY <1>0, <1>8, <1>14, <1>16 DEF Fed
<1>21. Ordered(l)
  <2>1. Ordered(st) /\ Grown(l, d)
    BY <1>14 DEF Sound, Core
  <2>2. Ordered(d)
    BY <1>8, <2>1 DEF Ordered
  <2> QED BY <2>1, <2>2 DEF Grown
<1>22. /\ ~st.more => ~l.pending
       /\ l.fut = "pending" => st.fut = "pending"
  <2>1. l.fut = "pending" => d.fut = "pending"
    BY <1>14 DEF Core, Grown
  <2> QED BY <1>7, <1>8, <1>14, <2>1
<1>18. l.eof = FALSE
  BY <1>0, <1>8, <1>16 DEF Live, StreamTyped
<1>19. ~l.pending => l.held = 0 /\ l.parsed = l.arrived
  <2> SUFFICES ASSUME ~l.pending PROVE l.held = 0 /\ l.parsed = l.arrived
    OBVIOUS
  <2>1. ~(l.held > 0)
    BY <1>13, <1>14 DEF DrainIdle, MoreOK
  <2>2. l.held \in Nat
    BY <1>15 DEF Typed, ParserTyped
  <2>3. l.held = 0
    BY <2>1, <2>2
  <2>4. st.parsed = st.arrived
    BY <1>0 DEF AtRest
  <2> QED BY <1>8, <1>16, <2>3, <2>4
<1>20. ~st.tpaused /\ ~(mode.parser = "python" /\ mode.codec = "zstd") => ~l.pending
  <2> SUFFICES ASSUME ~st.tpaused, ~(mode.parser = "python" /\ mode.codec = "zstd") PROVE ~l.pending
    OBVIOUS
  <2>1. CASE mode.codec = "identity"
    BY <1>0, <1>7, <1>8, <1>14, <2>1 DEF AtRest, MoreOK, Compressed
  <2>2. CASE mode.codec # "identity"
    <3>1. Calm /\ Quick
      BY <2>2 DEF Calm, Quick, Given
    <3>2. ~st.pending
      BY <1>0, <3>1 DEF AtRest, Quiet
    <3>3. ~st.more
      BY <1>0, <3>1, <3>2 DEF AtRest, Known
    <3> QED BY <1>7, <1>8, <1>14, <3>3
  <2> QED BY <2>1, <2>2
<1> QED BY <1>7, <1>8, <1>15, <1>16, <1>17, <1>18, <1>19, <1>20, <1>21, <1>22 DEF l, d

\* and connection_lost().
LEMMA ConnectionLostAfter ==
  ASSUME Given, BodyInv, NEW how \in {"closed", "reset"}, ConnectionLost(how)
  PROVE  After
<1> DEFINE g == [st EXCEPT !.timer = FALSE]
           l == Drain(Closing(st))
           fed == IF mode.kind # "eof" THEN [Wake(g, "exc") EXCEPT !.exc = "payload"]
                  ELSE IF l.pending THEN l
                  ELSE [StreamFeedEof(l) EXCEPT !.eofPending = FALSE]
           t == [fed EXCEPT !.conn = how, !.rpaused = FALSE, !.tpaused = FALSE, !.timer = FALSE]
<1>0. /\ Sound(st) /\ Typed(st) /\ Shape(st) /\ TransportTyped(st) /\ StreamTyped(st)
      /\ st.fut = "none" <=> pc = "idle"
      /\ how # "open" /\ how \in {"open", "closed", "reset"}
  BY DEF BodyInv, Sound, Typed
<1>1. /\ st.conn = "open" /\ st.exc = "none" /\ st.eof = FALSE /\ (how = "closed" => ~st.tpaused)
      /\ st' = t /\ UNCHANGED <<mode, wire, sizes, pc, op, need>>
  BY <1>0 DEF ConnectionLost, Closing, StreamTyped
<1>2. CASE mode.kind # "eof"
  <2> DEFINE w == Wake(g, "exc")
             x == [w EXCEPT !.exc = "payload"]
  <2>1. Shape(g) BY <1>0 DEF Shape
  <2>2. Same(g, st, {"timer"}) BY <1>0 DEF Shape, Same
  <2>3. fed = x
    BY <1>2
  <2> HIDE DEF g, fed
  <2>4. Shape(w) /\ Same(w, g, {"fut"}) /\ w.fut = IF g.fut = "pending" THEN "exc" ELSE g.fut
    BY <2>1, WakeFields
  <2> HIDE DEF w
  <2>5. Shape(x) BY <2>4 DEF Shape
  <2>6. Same(x, w, {"exc"}) BY <2>4 DEF Shape, Same
  <2>7. x.exc = "payload" BY <2>4 DEF Shape, Fields
  <2> HIDE DEF x
  <2>8. Shape(t) BY <2>3, <2>5 DEF Shape
  <2>9. Same(t, x, {"conn", "rpaused", "tpaused", "timer"}) BY <2>3, <2>5 DEF Shape, Same
  <2>10. t.conn = how /\ t.rpaused = FALSE BY <2>3, <2>5 DEF Shape, Fields
  <2>11. t.tpaused = FALSE /\ t.timer = FALSE BY <2>3, <2>5 DEF Shape, Fields
  <2> HIDE DEF t
  <2>12. t.exc = "payload" /\ t.fut = w.fut /\ g.fut = st.fut
    BY <2>2, <2>6, <2>7, <2>9 DEF Same, Fields
  <2>13. TransportTyped(t) /\ (t.fut = "none" <=> st.fut = "none")
    BY <1>0, <2>4, <2>10, <2>11, <2>12 DEF TransportTyped
  <2>14. Same(t, st, {"conn", "rpaused", "tpaused", "timer", "exc", "fut"})
    BY <2>2, <2>4, <2>6, <2>9 DEF Same
  <2>15. Sound(t)
    BY <1>0, <2>8, <2>10, <2>11, <2>12, <2>13, <2>14, FailedSound
  <2>16. Served(t) /\ Waits(t)
    BY <1>0, <2>4, <2>10, <2>12 DEF Served, Waits, Live
  <2> QED BY <1>0, <1>1, <2>13, <2>15, <2>16 DEF After, BodyInv
<1>3. CASE mode.kind = "eof"
  <2>1. Live(st)
    BY <1>1 DEF Live
  <2>2. /\ Typed(l) /\ Shape(l) /\ TransportTyped(l) /\ ParserTyped(l) /\ StreamTyped(l)
        /\ Counted(l) /\ Fed(l) /\ Ordered(l) /\ l.eof = FALSE /\ l.exc = st.exc
        /\ ~st.more => ~l.pending
        /\ l.fut = "pending" => st.fut = "pending"
        /\ l.eofPending = TRUE
        /\ l.fut = "none" <=> st.fut = "none"
        /\ ~l.pending => l.held = 0 /\ l.parsed = l.arrived
        /\ ~st.tpaused /\ ~(mode.parser = "python" /\ mode.codec = "zstd") => ~l.pending
    BY <1>0, <1>3, <2>1, ClosingDrained DEF Typed
  <2>3. fed = IF l.pending THEN l ELSE [StreamFeedEof(l) EXCEPT !.eofPending = FALSE]
    BY <1>3
  <2> HIDE DEF l, fed
  <2>4. /\ Shape(fed) /\ TransportTyped(fed) /\ ParserTyped(fed) /\ StreamTyped(fed)
        /\ Counted(fed) /\ Fed(fed) /\ Ordered(fed) /\ fed.exc = st.exc
        /\ fed.fut = "none" <=> st.fut = "none"
        /\ fed.fut # "pending"
        /\ fed.eof => fed.held = 0 /\ fed.parsed = fed.arrived
        /\ ~st.tpaused /\ ~(mode.parser = "python" /\ mode.codec = "zstd") => fed.eof
    <3>1. CASE l.pending
      <4>1. fed = l
        BY <2>3, <3>1
      <4>2. l.fut # "pending"
        <5> SUFFICES ASSUME l.fut = "pending" PROVE FALSE
          OBVIOUS
        <5>1. st.size = 0 /\ Quick
          BY <1>3, <2>2 DEF BodyInv, Waits, Quick
        <5>2. ~st.pending
          BY <2>1, <5>1 DEF BodyInv, Served
        <5>3. ~st.more
          BY <1>0, <2>1, <5>1, <5>2 DEF Sound, AtRest, Known
        <5> QED BY <2>2, <3>1, <5>3
      <4> QED BY <2>2, <3>1, <4>1, <4>2
    <3>2. CASE ~l.pending
      <4> DEFINE e == StreamFeedEof(l)
                 y == [e EXCEPT !.eofPending = FALSE]
      <4>1. fed = y
        BY <2>3, <3>2
      <4>2. /\ Shape(e) /\ Same(e, l, {"fut", "eof", "rpaused", "tpaused", "timer", "pending"})
            /\ e.eof = TRUE /\ e.rpaused = FALSE /\ e.tpaused = FALSE /\ e.timer = FALSE
            /\ e.pending = FALSE /\ Woken(e, l)
        BY <2>2, EofFields
      <4> HIDE DEF e
      <4>3. Shape(y) BY <4>2 DEF Shape
      <4>4. Same(y, e, {"eofPending"}) BY <4>2 DEF Shape, Same
      <4>5. y.eofPending = FALSE BY <4>2 DEF Shape, Fields
      <4> HIDE DEF y
      <4>6. /\ y.eof = TRUE /\ y.rpaused = FALSE /\ y.tpaused = FALSE /\ y.timer = FALSE
            /\ y.pending = FALSE /\ y.fut = e.fut
        BY <4>2, <4>4 DEF Same, Fields
      <4>7. /\ y.conn = l.conn /\ y.exc = l.exc /\ y.ppaused = l.ppaused /\ y.arrived = l.arrived
            /\ y.parsed = l.parsed /\ y.phase = l.phase /\ y.held = l.held /\ y.more = l.more
            /\ y.low = l.low /\ y.buf = l.buf /\ y.size = l.size /\ y.cursor = l.cursor
            /\ y.total = l.total /\ y.splits = l.splits
        BY <4>2, <4>4 DEF Same, Fields
      <4>8. y.fut \in {"none", "pending", "set", "exc"} /\ y.fut # "pending" /\ (y.fut = "none" <=> l.fut = "none")
        BY <2>2, <4>2, <4>6 DEF Woken, TransportTyped
      <4>9. TransportTyped(y) BY <2>2, <4>6, <4>7, <4>8 DEF TransportTyped
      <4>10. ParserTyped(y) BY <2>2, <4>5, <4>6, <4>7 DEF ParserTyped
      <4>11. StreamTyped(y) BY <2>2, <4>6, <4>7 DEF StreamTyped
      <4>12. Counted(y) /\ Fed(y) /\ Ordered(y) BY <2>2, <4>7 DEF Counted, Fed, Ordered
      <4> QED BY <2>2, <3>2, <4>1, <4>3, <4>6, <4>7, <4>8, <4>9, <4>10, <4>11, <4>12
    <3> QED BY <3>1, <3>2
  <2>5. Shape(t) BY <2>4 DEF Shape
  <2>6. Same(t, fed, {"conn", "rpaused", "tpaused", "timer"}) BY <2>4 DEF Shape, Same
  <2>7. t.conn = how /\ t.rpaused = FALSE BY <2>4 DEF Shape, Fields
  <2>8. t.tpaused = FALSE /\ t.timer = FALSE BY <2>4 DEF Shape, Fields
  <2> HIDE DEF t
  <2>9. /\ t.exc = fed.exc /\ t.fut = fed.fut /\ t.ppaused = fed.ppaused /\ t.pending = fed.pending
        /\ t.eofPending = fed.eofPending /\ t.arrived = fed.arrived /\ t.parsed = fed.parsed
        /\ t.phase = fed.phase /\ t.held = fed.held /\ t.more = fed.more
        /\ t.low = fed.low /\ t.buf = fed.buf /\ t.size = fed.size /\ t.cursor = fed.cursor
        /\ t.total = fed.total /\ t.splits = fed.splits /\ t.eof = fed.eof
    BY <2>6 DEF Same, Fields
  <2>10. Typed(t)
    <3>1. TransportTyped(t) BY <1>0, <2>4, <2>7, <2>8, <2>9 DEF TransportTyped
    <3>2. ParserTyped(t) BY <2>4, <2>9 DEF ParserTyped
    <3>3. StreamTyped(t) BY <2>4, <2>9 DEF StreamTyped
    <3> QED BY <2>5, <3>1, <3>2, <3>3 DEF Typed
  <2>11. Counted(t) /\ Fed(t) BY <2>4, <2>9 DEF Counted, Fed
  <2>12. EofOK(t) BY <1>0, <1>3, <2>4, <2>7, <2>9 DEF EofOK
  <2>13. Pauses(t) /\ Top(t) /\ Timed(t) /\ ~Live(t) BY <1>0, <2>7 DEF Pauses, Top, Timed, Live
  <2>14. Ended(t)
    BY <1>1, <2>4, <2>7, <2>9 DEF Ended
  <2>15. (t.rpaused <=> t.tpaused) /\ t.conn # "open"
    BY <1>0, <2>7, <2>8
  <2>18. Ordered(t)
    BY <2>4, <2>9 DEF Ordered
  <2>16. Sound(t)
    BY <2>10, <2>11, <2>12, <2>13, <2>14, <2>15, <2>18 DEF Sound
  <2>17. t.fut = "none" <=> st.fut = "none"
    BY <2>4, <2>9
  <2>19. Served(t) /\ Waits(t)
    BY <2>4, <2>9, <2>13 DEF Served, Waits
  <2> QED BY <1>0, <1>1, <2>16, <2>17, <2>19 DEF After, BodyInv
<1> QED BY <1>2, <1>3

\* A new response.
LEMMA InitBody == Init => BodyInv
<1> SUFFICES ASSUME Init PROVE BodyInv
  OBVIOUS
<1>1. mode \in Modes /\ sizes \in Bodies /\ wire = Wire(mode.kind, sizes) /\ pc = "idle" /\ op = "none" /\ need = 0
  BY DEF Init
<1>2. Given
  BY <1>1, WireIsGiven
<1>3. st = [conn |-> "open", tpaused |-> FALSE, rpaused |-> FALSE, timer |-> TRUE, ppaused |-> FALSE,
            pending |-> FALSE, eofPending |-> FALSE, arrived |-> 0, parsed |-> 0,
            phase |-> IF mode.kind = "chunked" THEN "size" ELSE "data", held |-> 0, more |-> FALSE,
            low |-> Limit, buf |-> <<>>, size |-> 0, cursor |-> 0, total |-> 0, splits |-> <<>>,
            eof |-> FALSE, exc |-> "none", fut |-> "none"]
  BY DEF Init
<1>4. /\ st.conn = "open" /\ st.tpaused = FALSE /\ st.rpaused = FALSE /\ st.timer = TRUE /\ st.ppaused = FALSE
      /\ st.pending = FALSE /\ st.eofPending = FALSE /\ st.arrived = 0 /\ st.parsed = 0
      /\ st.phase = IF mode.kind = "chunked" THEN "size" ELSE "data"
  BY <1>3
<1>5. /\ st.held = 0 /\ st.more = FALSE /\ st.low = Limit /\ st.buf = <<>> /\ st.size = 0 /\ st.cursor = 0
      /\ st.total = 0 /\ st.splits = <<>> /\ st.eof = FALSE /\ st.exc = "none" /\ st.fut = "none"
  BY <1>3
<1>6. Shape(st)
  <2>1. DOMAIN st = Fields
    BY <1>3 DEF Fields
  <2>2. st = [f \in DOMAIN st |-> st[f]]
    BY <1>3
  <2> QED BY <2>1, <2>2 DEF Shape
<1>7. <<>> \in Seq(Nat \ {0}) /\ <<>> \in Seq(Nat) /\ Len(<<>>) = 0 /\ Bytes(<<>>) = 0
  <2>1. <<>> \in Seq(Nat \ {0}) /\ <<>> \in Seq(Nat) /\ Len(<<>>) = 0
    OBVIOUS
  <2> QED BY <2>1, BytesType
<1>8. Limit \in Nat \ {0} /\ Before[0] = 0 /\ Len(wire) \in Nat /\ HighChunks \in Nat
  BY <1>2 DEF Given
<1>9. Typed(st)
  <2>1. TransportTyped(st)
    <3>1. st.tpaused \in BOOLEAN /\ st.rpaused \in BOOLEAN /\ st.timer \in BOOLEAN
      BY <1>4
    <3>2. st.conn \in {"open", "closed", "reset"}
      BY <1>4
    <3>3. st.exc \in {"none", "payload", "timeout"} /\ st.fut \in {"none", "pending", "set", "exc"}
      BY <1>5
    <3> QED BY <3>1, <3>2, <3>3 DEF TransportTyped
  <2>2. ParserTyped(st)
    <3>1. st.ppaused \in BOOLEAN /\ st.pending \in BOOLEAN /\ st.eofPending \in BOOLEAN
      BY <1>4
    <3>2. st.more \in BOOLEAN
      BY <1>5
    <3>3. st.arrived \in Nat /\ st.parsed \in Nat /\ st.held \in Nat
      BY <1>4, <1>5
    <3>4. st.phase \in {"size", "data", "crlf"}
      BY <1>4
    <3> QED BY <3>1, <3>2, <3>3, <3>4, Zenon DEF ParserTyped
  <2>3. StreamTyped(st)
    <3>1. st.low \in Nat \ {0}
      BY <1>5, <1>8
    <3>2. st.buf \in Seq(Nat \ {0}) /\ st.splits \in Seq(Nat)
      BY <1>5, <1>7
    <3>3. st.size \in Nat /\ st.cursor \in Nat /\ st.total \in Nat
      BY <1>5
    <3>4. st.eof \in BOOLEAN
      BY <1>5
    <3> QED BY <3>1, <3>2, <3>3, <3>4, Zenon DEF StreamTyped
  <2> QED BY <1>6, <2>1, <2>2, <2>3 DEF Typed
<1>10. Counted(st)
  BY <1>4, <1>5, <1>7, <1>8 DEF Counted
<1>11. Fed(st)
  <2>1. Inflated(0) = 0
    BY <1>2, InflatedFacts
  <2>2. st.total + st.held = 0
    BY <1>5
  <2> QED BY <1>4, <1>8, <2>1, <2>2 DEF Fed
<1>12. ~High(st)
  <2>1. ~(0 > 2 * Limit) /\ ~(0 > HighChunks)
    BY <1>8
  <2> QED BY <1>5, <1>7, <2>1 DEF High
<1>13. Top(st)
  <2>1. HigherOf(Limit, Limit) = Limit
    BY DEF HigherOf
  <2>2. 0 <= 2 * Limit + Limit
    BY <1>8
  <2> QED BY <1>5, <2>1, <2>2 DEF Top
<1>14. AtRest(st)
  <2>1. MoreOK(st) /\ Between(st) BY <1>4, <1>5 DEF MoreOK, Between
  <2>2. Known(st) /\ Quiet(st) BY <1>4, <1>5 DEF Known, Quiet
  <2>3. Aligned(st)
    BY <1>2, <1>4 DEF Aligned, Expected, Given
  <2> QED BY <1>4, <2>1, <2>2, <2>3 DEF AtRest
<1>15. EofOK(st) /\ Pauses(st) /\ Timed(st) /\ Ended(st)
  BY <1>4, <1>5, <1>12 DEF EofOK, Pauses, Timed, Ended
<1>17. Ordered(st)
  <2>1. DOMAIN st.splits = {}
    BY <1>5
  <2> QED BY <2>1 DEF Ordered
<1>16. Sound(st)
  BY <1>4, <1>9, <1>10, <1>11, <1>13, <1>14, <1>15, <1>17 DEF Sound
<1>18. Served(st) /\ Waits(st)
  BY <1>4, <1>5 DEF Served, Waits
<1> QED BY <1>1, <1>5, <1>16, <1>18 DEF BodyInv

\* The predicates do not depend on more than the mode and the wire.
LEMMA AfterInv ==
  ASSUME mode \in Modes, sizes \in Bodies, wire = Wire(mode.kind, sizes), After
  PROVE  BodyInv'
<1>1. mode' = mode /\ wire' = wire /\ sizes' = sizes /\ Sound(st')
  BY DEF After
<1>2. Typed(st)'
  BY <1>1 DEF Sound, Typed, Shape, TransportTyped, ParserTyped, StreamTyped
<1>3. Counted(st)'
  BY <1>1 DEF Sound, Counted
<1>4. Fed(st)'
  <2>1. Before' = Before
    BY <1>1 DEF Before
  <2>2. \A n : Inflated(n)' = Inflated(n)
    BY <1>1 DEF Inflated, Compressed
  <2> QED BY <1>1, <2>1, <2>2 DEF Sound, Fed
<1>5. EofOK(st)'
  BY <1>1 DEF Sound, EofOK
<1>6. Pauses(st)' /\ Timed(st)'
  BY <1>1 DEF Sound, Pauses, Timed, Live, High
<1>7. Top(st)'
  BY <1>1 DEF Sound, Top, Live, Bounded, Compressed
<1>8. (Live(st) => AtRest(st))'
  BY <1>1 DEF Sound, Live, AtRest, MoreOK, Compressed, Between, Known, Quick, Quiet, Calm, Aligned, Expected
<1>9. Ended(st)' /\ Ordered(st)'
  BY <1>1 DEF Sound, Ended, Ordered
<1>10. (st'.rpaused <=> st'.tpaused) /\ (st'.eofPending => st'.conn # "open")
  BY <1>1 DEF Sound
<1>11. Sound(st)'
  BY <1>2, <1>3, <1>4, <1>5, <1>6, <1>7, <1>8, <1>9, <1>10 DEF Sound
<1>12. (mode \in Modes /\ sizes \in Bodies /\ wire = Wire(mode.kind, sizes))'
  BY <1>1
<1>13. Served(st)' /\ Waits(st)'
  BY <1>1 DEF After, Served, Waits, Live, Quick
<1> QED BY <1>11, <1>12, <1>13 DEF BodyInv, After

\* A step of the joint specification in which this component does not move.
LEMMA RestAfter ==
  ASSUME BodyInv, UNCHANGED vars
  PROVE  After
BY DEF BodyInv, After, vars

\* The invariant is inductive.
LEMMA NextBody == BodyInv /\ [Next]_vars => BodyInv'
<1> SUFFICES ASSUME BodyInv, [Next]_vars PROVE BodyInv'
  OBVIOUS
<1>1. mode \in Modes /\ sizes \in Bodies /\ wire = Wire(mode.kind, sizes)
  BY DEF BodyInv
<1>2. Given
  BY <1>1, WireIsGiven
<1>3. After
  <2>1. ASSUME NEW call \in Ops, NEW n \in ReadSizes, Call(call, n) PROVE After
    BY <1>2, <2>1, CallAfter
  <2>2. CASE Resumed
    BY <1>2, <2>2, ResumedAfter
  <2>3. CASE CancelRead
    BY <1>2, <2>3, CancelAfter
  <2>4. ASSUME NEW n \in 1..Len(wire), Receive(n) PROVE After
    BY <1>2, <2>4, ReceiveAfter
  <2>5. ASSUME NEW how \in {"closed", "reset"}, ConnectionLost(how) PROVE After
    BY <1>2, <2>5, ConnectionLostAfter
  <2>6. CASE ReadTimeout
    BY <1>2, <2>6, ReadTimeoutAfter
  <2>7. CASE UNCHANGED vars
    BY <2>7, RestAfter
  <2> QED BY <2>1, <2>2, <2>3, <2>4, <2>5, <2>6, <2>7 DEF Next
<1> QED BY <1>1, <1>3, AfterInv

\* For every body, mode, limit, ratio and mix of read calls, and any way the network cuts
\* the body up, ends it or is late.
THEOREM BodyInvariant == Spec => []BodyInv
<1>1. BodyInv /\ [Next]_vars => BodyInv'
  BY NextBody
<1> QED BY <1>1, InitBody, PTL DEF Spec

\* What the invariant says of the properties.
LEMMA BodyTyped == BodyInv => TypeOK
<1> SUFFICES ASSUME BodyInv PROVE TypeOK
  OBVIOUS
<1>1. Typed(st) /\ Counted(st)
  BY DEF BodyInv, Sound
<1>2. st.buf \in Seq(Nat \ {0})
  BY <1>1 DEF Typed, StreamTyped
<1> QED BY <1>1, <1>2 DEF BodyInv, TypeOK, Counted

\* A stream that is full has paused the transport ...
LEMMA BodyBacked == BodyInv => Backpressure
<1> SUFFICES ASSUME BodyInv, Receiving PROVE
      /\ st.size > 2 * st.low \/ Len(st.splits) > HighChunks => st.tpaused
      /\ Compressed /\ st.low < Unlimited => st.size <= 2 * st.low + HigherOf(Limit, st.low)
  BY DEF Backpressure
<1>1. Pauses(st) /\ Top(st) /\ (st.eofPending => st.conn # "open")
  BY DEF BodyInv, Sound
<1>2. Live(st) /\ ~st.eofPending
  BY <1>1 DEF Receiving, Live
<1>3. ASSUME st.size > 2 * st.low \/ Len(st.splits) > HighChunks PROVE st.tpaused
  BY <1>1, <1>2, <1>3 DEF Pauses, High
<1>4. ASSUME Compressed, st.low < Unlimited PROVE st.size <= 2 * st.low + HigherOf(Limit, st.low)
  <2>1. Bounded(st)
    BY <1>2, <1>4 DEF Bounded
  <2> QED BY <1>1, <1>2, <2>1 DEF Top
<1> QED BY <1>3, <1>4

\* ... EOF is told when everything is in the stream ...
LEMMA BodyExact == BodyInv => EofExact
<1> SUFFICES ASSUME BodyInv, st.eof PROVE
      /\ st.held = 0
      /\ mode.kind # "eof" => st.total = Inflated(Bytes(sizes))
      /\ mode.kind = "eof" => st.total = Inflated(st.arrived)
  BY DEF EofExact
<1>1. EofOK(st) /\ Fed(st) /\ Typed(st) /\ Counted(st)
  BY DEF BodyInv, Sound
<1>2. Given
  BY WireIsGiven DEF BodyInv
<1>3. st.held = 0
  BY <1>1 DEF EofOK
<1>4. st.total = Inflated(Before[st.parsed])
  <2>1. st.total \in Nat
    BY <1>1 DEF Typed, StreamTyped
  <2>2. st.total + st.held = Inflated(Before[st.parsed])
    BY <1>1 DEF Fed
  <2> QED BY <1>3, <2>1, <2>2
<1>5. CASE mode.kind # "eof"
  <2>1. st.parsed = Len(wire)
    BY <1>1, <1>5 DEF EofOK
  <2>2. Before[Len(wire)] = Bytes(sizes)
    BY <1>2 DEF Given
  <2> QED BY <1>3, <1>4, <1>5, <2>1, <2>2
<1>6. CASE mode.kind = "eof"
  <2>1. st.parsed = st.arrived
    BY <1>1, <1>6 DEF EofOK
  <2>2. st.arrived \in 0..Len(wire)
    BY <1>1, <1>2 DEF Typed, ParserTyped, Counted, Given
  <2>3. Before[st.arrived] = st.arrived
    BY <1>2, <1>6, <2>2, BeforePlain
  <2> QED BY <1>3, <1>4, <1>6, <2>1, <2>3
<1> QED BY <1>5, <1>6

\* ... an open transport is guarded by the timer ...
LEMMA BodyTimed == BodyInv => TimerGuards
BY DEF BodyInv, Sound, Timed, Live, Receiving, TimerGuards

\* ... and an orderly close completes the body that it ends.
LEMMA BodyEnded == BodyInv => CleanCloseComplete
BY DEF BodyInv, Sound, Ended, Failed, CleanCloseComplete

\* ... and nothing is withheld from a reader that waits.
LEMMA BodyServed == BodyInv /\ Quick => NothingWithheld
<1> SUFFICES ASSUME BodyInv, Quick, st.fut = "pending", ~Failed(st)
    PROVE  /\ Receiving /\ ~st.tpaused
           /\ st.parsed = st.arrived /\ st.held = 0 /\ st.size = 0
  BY DEF NothingWithheld
<1>1. Live(st) /\ st.size = 0 /\ ~st.rpaused /\ ~st.pending
  BY DEF BodyInv, Waits, Served
<1>2. AtRest(st) /\ (st.rpaused <=> st.tpaused) /\ Typed(st)
  BY <1>1 DEF BodyInv, Sound
<1>3. Receiving /\ ~st.tpaused
  BY <1>1, <1>2 DEF Receiving, Live, Failed
<1>4. st.parsed = st.arrived
  BY <1>1, <1>2 DEF AtRest
<1>5. ~(st.held > 0) /\ st.held \in Nat
  BY <1>1, <1>2 DEF AtRest, Known, MoreOK, Typed, ParserTyped
<1>6. st.held = 0
  BY <1>5
<1> QED BY <1>1, <1>3, <1>4, <1>6

\* Every record is of its type, and the bytes that were fed are those that were read or are
\* buffered, through every re-entrant resume.
THEOREM TypeCorrect == Spec => []TypeOK
BY BodyInvariant, BodyTyped, PTL

\* However reads, resumes that come back into the parser, and chunk ends interleave: while the
\* body can still grow, a buffer above its mark, or one with too many chunks, has the
\* transport paused, and inflating overshoots the mark by one block at most.
THEOREM BackpressureHolds == Spec => []Backpressure
BY BodyInvariant, BodyBacked, PTL

\* EOF is signalled when the last byte, inflated, is in the stream, and not before; a body that
\* ends with the connection is complete when the peer closes it in order (but for the Python
\* parser with zstd); and while the transport is read for a body, the sock_read timer runs.
THEOREM EndExact == Spec => []EndIsExact
<1>1. BodyInv => EndIsExact
  BY BodyTyped, BodyExact, BodyTimed, BodyEnded DEF EndIsExact
<1> QED BY <1>1, BodyInvariant, PTL

\* Where the parser notices every pause, which is everywhere but in chunks that the Python parser
\* reads: while a reader waits, all that has arrived has been parsed, inflated and read, and
\* the transport is open for more, however small the marks and whatever was read before.
THEOREM NothingIsWithheld == Spec => [](Quick => NothingWithheld)
<1>1. BodyInv => (Quick => NothingWithheld)
  BY BodyServed
<1> QED BY <1>1, BodyInvariant, PTL
=============================================================================
