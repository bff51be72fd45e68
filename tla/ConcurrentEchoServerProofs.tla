--------------------- MODULE ConcurrentEchoServerProofs ---------------------
(***************************************************************************)
(* What holds of the concurrent echo server for any number of workers and  *)
(* descriptors, however the streams are cut and wherever channels break.   *)
(*                                                                         *)
(* What the acceptor wrote and the worker has not taken yet is one stream  *)
(* of halves of descriptors.  Flushing leaves the stream as it is, reading *)
(* cuts whole descriptors off its front, an end that closes leaves what    *)
(* the other end has of it.                                                *)
(***************************************************************************)
EXTENDS ConcurrentEchoServer, SequenceTheorems, TLAPS

Half == Fd \X {1, 2}

\* The halves of each descriptor follow each other from the front of s.
Pairs(s) ==
  \A i \in 1 .. Len(s) : s[i][2] = 2 - (i % 2) /\ (i % 2 = 0 => s[i - 1][1] = s[i][1])

\* No descriptor arrives twice.
Once(s) == \A i, j \in 1 .. Len(s) : s[i][2] = 2 /\ s[i] = s[j] => i = j

\* The descriptors that arrive with s.
Arriving(s) == {f \in Fd : <<f, 2>> \in ToSet(s)}

Types ==
  /\ m_worker_idx \in Nat /\ open \subseteq Fd /\ given \in [Fd -> Worker]
  /\ ext \subseteq Worker /\ int \subseteq Worker
  /\ out \in [Worker -> Seq(Half)] /\ wire \in [Worker -> Seq(Half)] /\ in \in [Worker -> Seq(Half)]
  /\ conns \in [Worker -> SUBSET Fd]

\* A closed end holds nothing.  What a worker can still read begins with a whole
\* descriptor, and ends with one as long as the acceptor can add to it.
Channel(w) ==
  /\ w \notin ext => out[w] = <<>>
  /\ w \notin int => in[w] = <<>> /\ wire[w] = <<>>
  /\ w \in int => Pairs(Stream(w))
  /\ w \in int \cap ext => Len(Stream(w)) % 2 = 0
  /\ Once(Stream(w))

\* The inductive invariant.  OneServer alone allows a closed number to be on its way,
\* where the acceptor could add it a second time.
IInv ==
  /\ Types
  /\ \A w \in Worker : Channel(w) /\ Coming(w) \subseteq open
  /\ OneServer

------------------------------------------------------------------------------
(* Streams of halves. *)

LEMMA Elements ==
  ASSUME NEW s \in Seq(Half)
  PROVE  /\ Len(s) \in Nat /\ DOMAIN s = 1 .. Len(s)
         /\ \A i \in 1 .. Len(s) : /\ s[i] = <<s[i][1], s[i][2]>>
                                   /\ s[i][1] \in Fd /\ s[i][2] \in {1, 2}
<1>1. Len(s) \in Nat /\ DOMAIN s = 1 .. Len(s) /\ \A i \in 1 .. Len(s) : s[i] \in Half
  BY LenProperties, ElementOfSeq
<1>2. \A h \in Half : h = <<h[1], h[2]>> /\ h[1] \in Fd /\ h[2] \in {1, 2}
  BY DEF Half
<1> QED
  BY <1>1, <1>2

LEMMA ArrivingIs ==
  ASSUME NEW s \in Seq(Half), NEW f \in Fd
  PROVE  f \in Arriving(s) <=> \E i \in 1 .. Len(s) : s[i][2] = 2 /\ s[i][1] = f
<1>1. f \in Arriving(s) <=> \E i \in 1 .. Len(s) : s[i] = <<f, 2>>
  BY Elements DEF Arriving, ToSet
<1>2. \A i \in 1 .. Len(s) : s[i] = <<f, 2>> <=> s[i][2] = 2 /\ s[i][1] = f
  BY Elements
<1> QED
  BY <1>1, <1>2

\* What is left of a stream when n elements are cut off.
LEMMA Rest ==
  ASSUME NEW s \in Seq(Half), NEW n \in 0 .. Len(s)
  PROVE  LET t == SubSeq(s, n + 1, Len(s))
         IN  /\ t \in Seq(Half) /\ Len(t) = Len(s) - n
             /\ \A i \in 1 .. Len(s) - n : t[i] = s[n + i]
<1> DEFINE t == SubSeq(s, n + 1, Len(s))
<1>1. Len(s) \in Nat /\ n \in 0 .. Len(s) /\ \A i \in 1 .. Len(s) : s[i] \in Half
  BY LenProperties, ElementOfSeq
<1>2. n + 1 \in Int /\ Len(s) \in Int /\ \A i \in n + 1 .. Len(s) : s[i] \in Half
  BY <1>1
<1>3. /\ t \in Seq(Half)
      /\ Len(t) = IF n + 1 <= Len(s) THEN Len(s) - (n + 1) + 1 ELSE 0
      /\ \A i \in 1 .. Len(s) - (n + 1) + 1 : t[i] = s[n + 1 + i - 1]
  BY <1>2, SubSeqProperties
<1> HIDE DEF t
<1>4. Len(s) - (n + 1) + 1 = Len(s) - n /\ (~(n + 1 <= Len(s)) => Len(s) - n = 0)
  BY <1>1
<1>5. \A i \in 1 .. Len(s) - n : n + 1 + i - 1 = n + i
  BY <1>1
<1> QED
  BY <1>3, <1>4, <1>5 DEF t

LEMMA Beginning ==
  ASSUME NEW s \in Seq(Half), NEW n \in 0 .. Len(s)
  PROVE  LET t == SubSeq(s, 1, n)
         IN  /\ t \in Seq(Half) /\ Len(t) = n
             /\ \A i \in 1 .. n : t[i] = s[i]
<1> DEFINE t == SubSeq(s, 1, n)
<1>1. Len(s) \in Nat /\ n \in 0 .. Len(s) /\ \A i \in 1 .. Len(s) : s[i] \in Half
  BY LenProperties, ElementOfSeq
<1>2. 1 \in Int /\ n \in Int /\ \A i \in 1 .. n : s[i] \in Half
  BY <1>1
<1>3. /\ t \in Seq(Half) /\ Len(t) = IF 1 <= n THEN n - 1 + 1 ELSE 0
      /\ \A i \in 1 .. n - 1 + 1 : t[i] = s[1 + i - 1]
  BY <1>2, SubSeqProperties
<1> HIDE DEF t
<1>4. n - 1 + 1 = n /\ (~(1 <= n) => n = 0) /\ \A i \in 1 .. n : 1 + i - 1 = i
  BY <1>1
<1> QED
  BY <1>3, <1>4 DEF t

\* Part of a stream, from after n on, has what the whole has.
LEMMA PartKeeps ==
  ASSUME NEW s \in Seq(Half), NEW t \in Seq(Half), NEW n \in Nat,
         n + Len(t) <= Len(s), \A i \in 1 .. Len(t) : t[i] = s[n + i]
  PROVE  /\ Once(s) => Once(t)
         /\ Pairs(s) /\ n % 2 = 0 => Pairs(t)
         /\ Arriving(t) \subseteq Arriving(s)
<1>1. Len(s) \in Nat /\ Len(t) \in Nat
  BY LenProperties
<1>2. \A i \in 1 .. Len(t) : n + i \in 1 .. Len(s)
  BY <1>1
<1>3. ASSUME Once(s) PROVE Once(t)
  <2> SUFFICES ASSUME NEW i \in 1 .. Len(t), NEW j \in 1 .. Len(t), t[i][2] = 2, t[i] = t[j]
               PROVE  i = j
    BY DEF Once
  <2>1. n + i = n + j
    BY <1>2, <1>3 DEF Once
  <2> QED
    BY <2>1
<1>4. ASSUME Pairs(s), n % 2 = 0 PROVE Pairs(t)
  <2> SUFFICES ASSUME NEW i \in 1 .. Len(t)
               PROVE  t[i][2] = 2 - (i % 2) /\ (i % 2 = 0 => t[i - 1][1] = t[i][1])
    BY DEF Pairs
  <2>1. (n + i) % 2 = i % 2
    <3>1. i \in Int /\ n \in Int
      BY <1>1
    <3>2. PICK q \in Int : n = 2 * q
      <4>1. n = 2 * (n \div 2) /\ n \div 2 \in Int
        BY <3>1, <1>4
      <4> QED
        BY <4>1
    <3> HIDE <1>4
    <3>3. (2 * q + i) % 2 = i % 2
      BY <3>1
    <3> QED
      BY <3>2, <3>3
  <2>2. /\ s[n + i][2] = 2 - ((n + i) % 2)
        /\ (n + i) % 2 = 0 => s[(n + i) - 1][1] = s[n + i][1]
    BY <1>2, <1>4 DEF Pairs
  <2>3. i % 2 = 0 => i - 1 \in 1 .. Len(t) /\ n + (i - 1) = (n + i) - 1
    BY <1>1
  <2> QED
    BY <2>1, <2>2, <2>3
<1>5. Arriving(t) \subseteq Arriving(s)
  <2> SUFFICES ASSUME NEW f \in Fd, f \in Arriving(t) PROVE f \in Arriving(s)
    BY DEF Arriving
  <2>1. PICK i \in 1 .. Len(t) : t[i][2] = 2 /\ t[i][1] = f
    BY ArrivingIs
  <2> QED
    BY <1>2, <2>1, ArrivingIs
<1> QED
  BY <1>3, <1>4, <1>5

\* Both ends of a stream that breaks in two.
LEMMA PartsKeep ==
  ASSUME NEW s \in Seq(Half), NEW t \in Seq(Half)
  PROVE  /\ s \o t \in Seq(Half)
         /\ Once(s \o t) => Once(s) /\ Once(t)
         /\ Pairs(s \o t) => Pairs(s)
         /\ Arriving(s) \subseteq Arriving(s \o t) /\ Arriving(t) \subseteq Arriving(s \o t)
<1> DEFINE u == s \o t
<1>1. /\ u \in Seq(Half) /\ Len(u) = Len(s) + Len(t)
      /\ \A i \in 1 .. Len(s) + Len(t) : u[i] = IF i <= Len(s) THEN s[i] ELSE t[i - Len(s)]
  BY ConcatProperties
<1>2. Len(s) \in Nat /\ Len(t) \in Nat
  BY LenProperties
<1> HIDE DEF u
<1>3. 0 + Len(s) <= Len(u) /\ \A i \in 1 .. Len(s) : s[i] = u[0 + i]
  BY <1>1, <1>2
<1>4. Len(s) + Len(t) <= Len(u) /\ \A i \in 1 .. Len(t) : t[i] = u[Len(s) + i]
  BY <1>1, <1>2
<1>5. 0 % 2 = 0
  OBVIOUS
<1>6. /\ Once(u) => Once(s)
      /\ Pairs(u) => Pairs(s)
      /\ Arriving(s) \subseteq Arriving(u)
  BY <1>1, <1>3, <1>5, PartKeeps
<1>7. /\ Once(u) => Once(t)
      /\ Arriving(t) \subseteq Arriving(u)
  BY <1>1, <1>2, <1>4, PartKeeps
<1> QED
  BY <1>1, <1>6, <1>7 DEF u

\* What the acceptor's append does.
LEMMA AddPair ==
  ASSUME NEW s \in Seq(Half), NEW f \in Fd, f \notin Arriving(s)
  PROVE  /\ s \o Bytes(f) \in Seq(Half)
         /\ Len(s \o Bytes(f)) = Len(s) + 2
         /\ Once(s) => Once(s \o Bytes(f))
         /\ Pairs(s) /\ Len(s) % 2 = 0 => Pairs(s \o Bytes(f))
         /\ Arriving(s \o Bytes(f)) = Arriving(s) \cup {f}
<1> DEFINE b == Bytes(f)
           t == s \o b
           k == Len(s)
<1>1. b \in Seq(Half) /\ Len(b) = 2 /\ b[1] = <<f, 1>> /\ b[2] = <<f, 2>>
  BY DEF Bytes, Half
<1> HIDE DEF b
<1>2. /\ t \in Seq(Half) /\ Len(t) = k + 2
      /\ \A i \in 1 .. k + 2 : t[i] = IF i <= k THEN s[i] ELSE b[i - k]
  <2>1. /\ t \in Seq(Half) /\ Len(t) = Len(s) + Len(b)
        /\ \A i \in 1 .. Len(s) + Len(b) : t[i] = IF i <= Len(s) THEN s[i] ELSE b[i - Len(s)]
    BY <1>1, ConcatProperties
  <2> HIDE DEF t
  <2> QED
    BY <1>1, <2>1
<1>3. k \in Nat
  BY LenProperties
<1> HIDE DEF t, k
<1>4. /\ \A i \in 1 .. k : t[i] = s[i]
      /\ t[k + 1] = <<f, 1>> /\ t[k + 2] = <<f, 2>>
  BY <1>1, <1>2, <1>3
<1>5. \A i \in 1 .. k + 2 : i \in 1 .. k \/ i = k + 1 \/ i = k + 2
  BY <1>3
<1>6. \A i \in 1 .. k : s[i] # <<f, 2>>
  <2> TAKE i \in 1 .. k
  <2>1. ~(s[i][2] = 2 /\ s[i][1] = f)
    BY ArrivingIs DEF k
  <2> QED
    BY <2>1
<1>7. t[k + 1][2] = 1 /\ t[k + 1][1] = f /\ t[k + 2][2] = 2 /\ t[k + 2][1] = f
  BY <1>4
<1>8. ASSUME Once(s) PROVE Once(t)
  <2> SUFFICES ASSUME NEW i \in 1 .. k + 2, NEW j \in 1 .. k + 2, t[i][2] = 2, t[i] = t[j]
               PROVE  i = j
    BY <1>2 DEF Once
  <2>1. i # k + 1 /\ j # k + 1
    BY <1>7
  <2>2. ASSUME i \in 1 .. k, j \in 1 .. k PROVE i = j
    BY <2>2, <1>4, <1>8 DEF Once, k
  <2>3. ~(i \in 1 .. k /\ j = k + 2) /\ ~(i = k + 2 /\ j \in 1 .. k)
    BY <1>4, <1>6
  <2> QED
    BY <1>5, <2>1, <2>2, <2>3
<1>9. ASSUME Pairs(s), k % 2 = 0 PROVE Pairs(t)
  <2> SUFFICES ASSUME NEW i \in 1 .. k + 2
               PROVE  t[i][2] = 2 - (i % 2) /\ (i % 2 = 0 => t[i - 1][1] = t[i][1])
    BY <1>2 DEF Pairs
  <2>1. (k + 1) % 2 = 1 /\ (k + 2) % 2 = 0 /\ (k + 2) - 1 = k + 1
    BY <1>3, <1>9
  <2>2. CASE i = k + 1
    BY <2>1, <2>2, <1>7
  <2>3. CASE i = k + 2
    BY <2>1, <2>3, <1>7
  <2>4. CASE i \in 1 .. k
    <3>1. s[i][2] = 2 - (i % 2) /\ (i % 2 = 0 => s[i - 1][1] = s[i][1])
      BY <2>4, <1>9 DEF Pairs, k
    <3>2. i % 2 = 0 => i - 1 \in 1 .. k
      BY <2>4, <1>3
    <3> QED
      BY <2>4, <3>1, <3>2, <1>4
  <2> QED
    BY <1>5, <2>2, <2>3, <2>4
<1>10. ASSUME NEW g \in Fd PROVE g \in Arriving(t) <=> g \in Arriving(s) \/ g = f
  <2>1. g \in Arriving(t) <=> \E i \in 1 .. k + 2 : t[i][2] = 2 /\ t[i][1] = g
    BY <1>2, ArrivingIs
  <2>2. g \in Arriving(s) <=> \E i \in 1 .. k : s[i][2] = 2 /\ s[i][1] = g
    BY ArrivingIs DEF k
  <2>3. k + 2 \in 1 .. k + 2 /\ \A i \in 1 .. k : i \in 1 .. k + 2
    BY <1>3
  <2> QED
    BY <1>4, <1>5, <1>7, <2>1, <2>2, <2>3
<1>11. Arriving(t) = Arriving(s) \cup {f}
  BY <1>10 DEF Arriving
<1> QED
  BY <1>2, <1>8, <1>9, <1>11 DEF t, k, b

\* Reading m whole descriptors takes those m off what arrives.
LEMMA TakePairs ==
  ASSUME NEW s \in Seq(Half), Pairs(s), Once(s), NEW m \in Nat, 2 * m <= Len(s)
  PROVE  LET t     == SubSeq(s, 2 * m + 1, Len(s))
             taken == {s[2 * i][1] : i \in 1 .. m}
         IN  /\ t \in Seq(Half) /\ Len(t) = Len(s) - 2 * m
             /\ Pairs(t) /\ Once(t)
             /\ taken \subseteq Arriving(s) /\ Arriving(t) = Arriving(s) \ taken
<1> DEFINE n == 2 * m
           k == Len(s)
           t == SubSeq(s, n + 1, k)
           taken == {s[2 * i][1] : i \in 1 .. m}
<1>1. k \in Nat /\ n \in Nat /\ n \in 0 .. k /\ n % 2 = 0
  BY LenProperties
<1>2. /\ t \in Seq(Half) /\ Len(t) = k - n
      /\ \A i \in 1 .. k - n : t[i] = s[n + i]
  BY <1>1, Rest
<1>3. \A i \in 1 .. m : 2 * i \in 1 .. n /\ 2 * i \in 1 .. k /\ (2 * i) % 2 = 0
  BY <1>1
<1>4. \A j \in 1 .. n : j % 2 = 0 => \E i \in 1 .. m : j = 2 * i
  <2> TAKE j \in 1 .. n
  <2> HAVE j % 2 = 0
  <2>1. j \in Int
    OBVIOUS
  <2>2. j \div 2 \in Int /\ j = 2 * (j \div 2)
    BY <2>1
  <2>3. j \div 2 \in 1 .. m
    BY <2>2
  <2> QED
    BY <2>2, <2>3
<1> HIDE DEF n, k, t
<1>5. Pairs(t) /\ Once(t) /\ Arriving(t) \subseteq Arriving(s)
  <2>1. n + Len(t) <= Len(s)
    BY <1>1, <1>2 DEF k
  <2> QED
    BY <1>1, <1>2, <2>1, PartKeeps DEF k
<1>6. \A j \in 1 .. k : s[j][2] = 2 <=> j % 2 = 0
  <2> TAKE j \in 1 .. k
  <2>1. s[j][2] = 2 - (j % 2) /\ j \in Int
    BY DEF Pairs, k
  <2>2. j % 2 = 0 \/ j % 2 = 1
    BY <2>1
  <2> QED
    BY <2>1, <2>2
<1>7. \A i \in 1 .. m : s[2 * i][2] = 2 /\ s[2 * i][1] \in Fd
  BY <1>3, <1>6, Elements DEF k
<1>8. ASSUME NEW f \in Fd
      PROVE  f \in Arriving(s) <=> \E j \in 1 .. k : s[j][2] = 2 /\ s[j][1] = f
  BY ArrivingIs DEF k
<1>9. taken \subseteq Arriving(s)
  BY <1>3, <1>7, <1>8
<1>10. ASSUME NEW f \in Fd
       PROVE  f \in Arriving(t) <=> \E i \in 1 .. k - n : s[n + i][2] = 2 /\ s[n + i][1] = f
  BY <1>2, ArrivingIs
<1>11. ASSUME NEW f \in Arriving(s), f \notin taken PROVE f \in Arriving(t)
  <2>1. f \in Fd
    BY DEF Arriving
  <2>2. PICK j \in 1 .. k : s[j][2] = 2 /\ s[j][1] = f
    BY <2>1, <1>8
  <2>3. j \notin 1 .. n
    BY <2>2, <1>4, <1>6, <1>11
  <2>4. j - n \in 1 .. k - n /\ n + (j - n) = j
    BY <2>3, <1>1
  <2> QED
    BY <2>1, <2>2, <2>4, <1>10
<1>12. ASSUME NEW f \in Arriving(t) PROVE f \notin taken
  <2>1. f \in Fd
    BY DEF Arriving
  <2>2. PICK i \in 1 .. k - n : s[n + i][2] = 2 /\ s[n + i][1] = f
    BY <2>1, <1>10
  <2>3. n + i \in 1 .. k /\ n + i \notin 1 .. n
    BY <1>1
  <2>4. ASSUME NEW j \in 1 .. m, s[2 * j][1] = f PROVE FALSE
    <3>1. 2 * j \in 1 .. n /\ 2 * j \in 1 .. k /\ s[2 * j][2] = 2
      BY <1>3, <1>7
    <3>2. s[2 * j] = s[n + i]
      <4>1. s[2 * j] = <<s[2 * j][1], s[2 * j][2]>> /\ s[n + i] = <<s[n + i][1], s[n + i][2]>>
        BY <3>1, <2>3, Elements DEF k
      <4> QED
        BY <4>1, <3>1, <2>2, <2>4
    <3>3. 2 * j = n + i
      BY <3>1, <3>2, <2>3 DEF Once, k
    <3> QED
      BY <3>1, <3>3, <2>3
  <2> QED
    BY <2>4
<1>13. Arriving(t) = Arriving(s) \ taken
  BY <1>5, <1>11, <1>12
<1> QED
  BY <1>2, <1>5, <1>9, <1>13 DEF n, k, t

LEMMA Associative ==
  \A s, t, u \in Seq(Half) : (s \o t) \o u = s \o (t \o u)
BY ConcatAssociative

\* The pieces of a stream.
LEMMA Recut ==
  ASSUME NEW s \in Seq(Half), NEW t \in Seq(Half), NEW k \in 1 .. Len(t)
  PROVE  /\ SubSeq(t, 1, k) \in Seq(Half) /\ SubSeq(t, k + 1, Len(t)) \in Seq(Half)
         /\ (s \o SubSeq(t, 1, k)) \o SubSeq(t, k + 1, Len(t)) = s \o t
<1>1. Len(t) \in Nat /\ k \in 0 .. Len(t) /\ 1 \in 1 .. Len(t) + 1 /\ k \in 1 - 1 .. Len(t)
  BY LenProperties
<1>2. SubSeq(t, 1, k) \in Seq(Half) /\ SubSeq(t, k + 1, Len(t)) \in Seq(Half)
  BY <1>1, Beginning, Rest
<1>3. Len(t) \in k .. Len(t)
  BY <1>1
<1>4. SubSeq(t, 1, k) \o SubSeq(t, k + 1, Len(t)) = SubSeq(t, 1, Len(t))
  BY <1>1, <1>3, ConcatAdjacentSubSeq
<1>5. SubSeq(t, 1, Len(t)) = t
  BY SubSeqFull
<1> DEFINE a == SubSeq(t, 1, k)
           b == SubSeq(t, k + 1, Len(t))
<1>6. a \in Seq(Half) /\ b \in Seq(Half) /\ a \o b = t
  BY <1>2, <1>4, <1>5
<1> HIDE DEF a, b
<1>7. (s \o a) \o b = s \o (a \o b)
  BY <1>6, Associative
<1>8. (s \o a) \o b = s \o t
  BY <1>6, <1>7
<1> QED
  BY <1>2, <1>8 DEF a, b

LEMMA RestOfJoin ==
  ASSUME NEW s \in Seq(Half), NEW t \in Seq(Half), NEW n \in 0 .. Len(s)
  PROVE  SubSeq(s, n + 1, Len(s)) \o t = SubSeq(s \o t, n + 1, Len(s \o t))
<1> DEFINE a == SubSeq(s, n + 1, Len(s))
           u == s \o t
           b == SubSeq(u, n + 1, Len(u))
<1>1. Len(s) \in Nat /\ Len(t) \in Nat /\ n \in 0 .. Len(s)
  BY LenProperties
<1>2. /\ u \in Seq(Half) /\ Len(u) = Len(s) + Len(t)
      /\ \A i \in 1 .. Len(s) + Len(t) : u[i] = IF i <= Len(s) THEN s[i] ELSE t[i - Len(s)]
  BY ConcatProperties
<1>3. /\ a \in Seq(Half) /\ Len(a) = Len(s) - n
      /\ \A i \in 1 .. Len(s) - n : a[i] = s[n + i]
  BY Rest
<1> HIDE DEF u, a
<1>4. n \in 0 .. Len(u)
  BY <1>1, <1>2
<1>5. /\ b \in Seq(Half) /\ Len(b) = Len(u) - n
      /\ \A i \in 1 .. Len(u) - n : b[i] = u[n + i]
  BY <1>2, <1>4, Rest
<1> HIDE DEF b
<1>6. /\ a \o t \in Seq(Half) /\ Len(a \o t) = Len(a) + Len(t)
      /\ \A i \in 1 .. Len(a) + Len(t) : (a \o t)[i] = IF i <= Len(a) THEN a[i] ELSE t[i - Len(a)]
  BY <1>3, ConcatProperties
<1>7. Len(a \o t) = Len(b)
  BY <1>1, <1>2, <1>3, <1>5, <1>6
<1>8. ASSUME NEW i \in 1 .. Len(b) PROVE (a \o t)[i] = b[i]
  <2>1. i \in 1 .. Len(a) + Len(t) /\ i \in 1 .. Len(u) - n /\ n + i \in 1 .. Len(s) + Len(t)
    BY <1>1, <1>2, <1>3, <1>5
  <2>2. b[i] = u[n + i] /\ u[n + i] = IF n + i <= Len(s) THEN s[n + i] ELSE t[n + i - Len(s)]
    BY <2>1, <1>2, <1>5
  <2>3. CASE i <= Len(a)
    <3>1. i \in 1 .. Len(s) - n /\ n + i <= Len(s)
      BY <2>3, <1>1, <1>3
    <3> QED
      BY <2>1, <2>2, <2>3, <3>1, <1>3, <1>6
  <2>4. CASE ~(i <= Len(a))
    <3>1. ~(n + i <= Len(s)) /\ n + i - Len(s) = i - Len(a)
      BY <2>4, <1>1, <1>3
    <3> QED
      BY <2>1, <2>2, <2>4, <3>1, <1>6
  <2> QED
    BY <2>3, <2>4
<1>9. a \o t = b
  BY <1>5, <1>6, <1>7, <1>8, SeqEqual
<1> QED
  BY <1>9 DEF a, b, u

------------------------------------------------------------------------------
(* The actions.  Each lemma says what becomes of the streams, and that IInv holds. *)

LEMMA ComingIs == \A w \in Worker : /\ Coming(w) = Arriving(Stream(w))
                                    /\ Coming(w)' = Arriving(Stream(w)')
BY DEF Coming, Arriving

LEMMA StreamParts ==
  ASSUME Types, NEW w \in Worker
  PROVE  /\ in[w] \in Seq(Half) /\ wire[w] \in Seq(Half) /\ out[w] \in Seq(Half)
         /\ in[w] \o wire[w] \in Seq(Half) /\ Stream(w) \in Seq(Half)
         /\ Stream(w) = (in[w] \o wire[w]) \o out[w]
<1>1. in[w] \in Seq(Half) /\ wire[w] \in Seq(Half) /\ out[w] \in Seq(Half)
  BY DEF Types
<1>2. in[w] \o wire[w] \in Seq(Half)
  BY <1>1, ConcatProperties
<1>3. (in[w] \o wire[w]) \o out[w] \in Seq(Half)
  BY <1>1, <1>2, ConcatProperties
<1> QED
  BY <1>1, <1>2, <1>3 DEF Stream

\* Nothing happens to the channels of the workers other than w.
Others(w) ==
  \A v \in Worker : v # w =>
    /\ in'[v] = in[v] /\ wire'[v] = wire[v] /\ out'[v] = out[v]
    /\ (v \in ext' <=> v \in ext) /\ (v \in int' <=> v \in int)

LEMMA SameChannel ==
  ASSUME IInv, NEW v \in Worker,
         in'[v] = in[v], wire'[v] = wire[v], out'[v] = out[v],
         v \in ext' <=> v \in ext, v \in int' <=> v \in int
  PROVE  Channel(v)' /\ Coming(v)' = Coming(v)
<1>1. Stream(v)' = Stream(v)
  BY DEF Stream
<1>2. Channel(v)
  BY DEF IInv
<1> QED
  BY <1>1, <1>2, ComingIs DEF Channel, Once, Pairs

LEMMA OthersKeep ==
  ASSUME IInv, NEW w \in Worker, Others(w)
  PROVE  \A v \in Worker : v # w => Channel(v)' /\ Coming(v)' = Coming(v)
BY SameChannel DEF Others

LEMMA InitIInv == Init => IInv
<1> SUFFICES ASSUME Init PROVE IInv
  OBVIOUS
<1>1. 0 \in Worker /\ N \in Nat
  BY WorkerAssumption DEF Worker
<1>2. <<>> \in Seq(Half) /\ Len(<<>>) = 0
  OBVIOUS
<1>3. Types
  BY <1>1, <1>2 DEF Init, Types
<1>4. ASSUME NEW w \in Worker PROVE Stream(w) = <<>> /\ Channel(w) /\ Coming(w) = {}
  <2>1. Stream(w) = <<>>
    <3>1. in[w] = <<>> /\ wire[w] = <<>> /\ out[w] = <<>>
      BY DEF Init
    <3> QED
      BY <3>1, <1>2, ConcatEmptySeq DEF Stream
  <2>2. Pairs(<<>>) /\ Once(<<>>) /\ Arriving(<<>>) = {}
    <3>1. 1 .. Len(<<>>) = {}
      BY <1>2
    <3>2. \A f \in Fd : f \notin Arriving(<<>>)
      BY <1>2, <3>1, ArrivingIs
    <3>3. Arriving(<<>>) \subseteq Fd
      BY DEF Arriving
    <3> QED
      BY <3>1, <3>2, <3>3 DEF Pairs, Once
  <2>3. 0 % 2 = 0
    OBVIOUS
  <2> QED
    BY <2>1, <2>2, <2>3, <1>2, ComingIs DEF Channel, Init
<1>5. OneServer
  BY <1>4 DEF OneServer, Init
<1> QED
  BY <1>3, <1>4, <1>5 DEF IInv

LEMMA TurnInWorker ==
  ASSUME IInv PROVE m_worker_idx % N \in Worker /\ (m_worker_idx + 1) % IdxSize \in Nat
<1>1. m_worker_idx \in Nat /\ N \in Nat \ {0} /\ IdxSize \in Nat \ {0}
  BY WorkerAssumption DEF IInv, Types
<1> QED
  BY <1>1 DEF Worker

LEMMA AcceptIInv ==
  ASSUME IInv, NEW f \in Fd, Accept(f)
  PROVE  /\ IInv' /\ UNCHANGED <<ext, int, conns>>
         /\ \/ \E w \in Worker :
                 /\ f \notin open /\ open' = open \cup {f}
                 /\ given' = [given EXCEPT ![f] = w] /\ Coming(w)' = Coming(w) \cup {f}
                 /\ \A v \in Worker : v # w => Coming(v)' = Coming(v)
            \/ UNCHANGED <<open, given>> /\ \A v \in Worker : Coming(v)' = Coming(v)
<1>1. m_worker_idx' \in Nat /\ f \notin open /\ UNCHANGED <<ext, int, wire, in, conns>>
  BY TurnInWorker DEF Accept
<1>2. PICK w \in Worker :
        \/ /\ w \in ext
           /\ out' = [out EXCEPT ![w] = @ \o Bytes(f)]
           /\ open' = open \cup {f}
           /\ given' = [given EXCEPT ![f] = w]
        \/ w \notin ext /\ UNCHANGED <<out, open, given>>
  BY TurnInWorker DEF Accept
<1>3. CASE w \notin ext /\ UNCHANGED <<out, open, given>>
  <2>1. \A v \in Worker : Channel(v)' /\ Coming(v)' = Coming(v)
    BY <1>1, <1>3, SameChannel
  <2>2. Types'
    BY <1>1, <1>3 DEF Types, IInv
  <2>3. OneServer'
    BY <1>1, <1>3, <2>1 DEF IInv, OneServer
  <2> QED
    BY <1>1, <1>3, <2>1, <2>2, <2>3 DEF IInv
<1>4. CASE /\ w \in ext
           /\ out' = [out EXCEPT ![w] = @ \o Bytes(f)]
           /\ open' = open \cup {f}
           /\ given' = [given EXCEPT ![f] = w]
  <2>1. Types /\ Channel(w) /\ \A v \in Worker : Coming(v) \subseteq open
    BY <1>1 DEF IInv
  <2>2. f \notin Arriving(Stream(w))
    BY <1>1, <2>1, ComingIs
  <2>3. Bytes(f) \in Seq(Half)
    BY DEF Bytes, Half
  <2>4. out[w] \o Bytes(f) \in Seq(Half)
    BY <1>1, <2>1, <2>3, StreamParts, ConcatProperties
  <2>5. out'[w] = out[w] \o Bytes(f) /\ \A v \in Worker : v # w => out'[v] = out[v]
    BY <1>1, <1>4, <2>1 DEF Types
  <2>6. Stream(w)' = Stream(w) \o Bytes(f)
    <3>1. (in[w] \o wire[w]) \o (out[w] \o Bytes(f)) = Stream(w) \o Bytes(f)
      <4> DEFINE a == in[w] \o wire[w]
      <4>1. a \in Seq(Half) /\ out[w] \in Seq(Half) /\ Stream(w) = a \o out[w]
        BY <2>1, StreamParts
      <4> HIDE DEF a
      <4>2. (a \o out[w]) \o Bytes(f) = a \o (out[w] \o Bytes(f))
        BY <2>3, <4>1, Associative
      <4> QED
        BY <4>1, <4>2 DEF a
    <3> QED
      BY <1>1, <2>5, <3>1 DEF Stream
  <2>7. Stream(w) \in Seq(Half) /\ Len(Stream(w)) \in Nat
    BY <1>1, <2>1, StreamParts, LenProperties
  <2>8. /\ Len(Stream(w)') = Len(Stream(w)) + 2
        /\ Once(Stream(w)) => Once(Stream(w)')
        /\ Pairs(Stream(w)) /\ Len(Stream(w)) % 2 = 0 => Pairs(Stream(w)')
        /\ Arriving(Stream(w)') = Arriving(Stream(w)) \cup {f}
    BY <2>2, <2>6, <2>7, AddPair
  <2>9. Len(Stream(w)) % 2 = 0 => Len(Stream(w)') % 2 = 0
    BY <2>7, <2>8
  <2>10. Channel(w)'
    <3>1. w \in ext' /\ (w \in int' <=> w \in int) /\ in'[w] = in[w] /\ wire'[w] = wire[w]
      BY <1>1, <1>4
    <3>2. Once(Stream(w)')
      BY <2>1, <2>8 DEF Channel
    <3>3. w \in int => Pairs(Stream(w)') /\ Len(Stream(w)') % 2 = 0
      BY <1>4, <2>1, <2>8, <2>9 DEF Channel
    <3>4. w \notin int => in[w] = <<>> /\ wire[w] = <<>>
      BY <2>1 DEF Channel
    <3> QED
      BY <3>1, <3>2, <3>3, <3>4 DEF Channel, Once, Pairs
  <2>11. Coming(w)' = Coming(w) \cup {f}
    BY <1>1, <2>8, ComingIs
  <2>12. Others(w)
    BY <1>1, <2>5 DEF Others
  <2>13. \A v \in Worker : v # w => Channel(v)' /\ Coming(v)' = Coming(v)
    BY <1>1, <2>12, OthersKeep
  <2>14. \A g \in Fd : given'[g] = IF g = f THEN w ELSE given[g]
    BY <1>4, <2>1 DEF Types
  <2>15. Types'
    <3>1. out' \in [Worker -> Seq(Half)]
      BY <1>1, <1>4, <2>1, <2>4 DEF Types
    <3>2. given' \in [Fd -> Worker]
      BY <1>1, <1>4, <2>1 DEF Types
    <3> QED
      BY <1>1, <1>4, <2>1, <3>1, <3>2 DEF Types
  <2>16. \A v \in Worker : Channel(v)' /\ Coming(v)' \subseteq open'
    BY <1>4, <2>1, <2>10, <2>11, <2>13
  <2>17. OneServer'
    <3>1. OneServer /\ \A v \in Worker : f \notin conns[v] /\ f \notin Coming(v)
      BY <1>1, <2>1 DEF IInv, OneServer
    <3>2. \A v \in Worker : conns[v] \subseteq Fd /\ Coming(v) \subseteq Fd
      BY <2>1 DEF Types, Coming
    <3> SUFFICES ASSUME NEW v \in Worker
                 PROVE  /\ Coming(v)' \cap conns'[v] = {}
                        /\ conns'[v] \subseteq open'
                        /\ \A g \in Coming(v)' \cup conns'[v] : given'[g] = v
      BY DEF OneServer
    <3>3. conns'[v] = conns[v] /\ Coming(v)' = IF v = w THEN Coming(v) \cup {f} ELSE Coming(v)
      BY <1>1, <2>11, <2>13
    <3> QED
      BY <1>4, <2>14, <3>1, <3>2, <3>3 DEF OneServer
  <2>18. IInv'
    BY <2>15, <2>16, <2>17 DEF IInv
  <2> QED
    BY <1>1, <1>4, <2>11, <2>13, <2>18
<1> QED
  BY <1>2, <1>3, <1>4

\* Only the state of the channels changes.
LEMMA FlushIInv ==
  ASSUME IInv, NEW w \in Worker, Flush(w)
  PROVE  IInv' /\ UNCHANGED <<open, given, ext, int, conns>>
         /\ \A v \in Worker : Coming(v)' = Coming(v)
<1>1. PICK k \in 1 .. Len(out[w]) :
        /\ wire' = [wire EXCEPT ![w] = @ \o SubSeq(out[w], 1, k)]
        /\ out' = [out EXCEPT ![w] = SubSeq(@, k + 1, Len(@))]
  BY DEF Flush
<1>2. w \in ext /\ w \in int /\ UNCHANGED <<m_worker_idx, open, given, ext, int, in, conns>>
  BY DEF Flush
<1>3. Types
  BY DEF IInv
<1> DEFINE a == SubSeq(out[w], 1, k)
           b == SubSeq(out[w], k + 1, Len(out[w]))
           c == in[w] \o wire[w]
<1>4. /\ in[w] \in Seq(Half) /\ wire[w] \in Seq(Half) /\ out[w] \in Seq(Half)
      /\ c \in Seq(Half) /\ Stream(w) = c \o out[w]
  BY <1>3, StreamParts
<1>5. a \in Seq(Half) /\ b \in Seq(Half) /\ (c \o a) \o b = c \o out[w]
  BY <1>4, Recut
<1>6. /\ wire'[w] = wire[w] \o a /\ out'[w] = b
      /\ \A v \in Worker : v # w => wire'[v] = wire[v] /\ out'[v] = out[v]
  BY <1>1, <1>3 DEF Types
<1>7. wire' = [wire EXCEPT ![w] = wire[w] \o a] /\ out' = [out EXCEPT ![w] = b]
  BY <1>1
<1> HIDE DEF a, b
<1>8. Stream(w)' = Stream(w)
  <2>1. in[w] \o (wire[w] \o a) = (in[w] \o wire[w]) \o a
    BY <1>4, <1>5, Associative
  <2>2. Stream(w)' = (in[w] \o (wire[w] \o a)) \o b
    BY <1>2, <1>6 DEF Stream
  <2>3. Stream(w)' = (c \o a) \o b
    BY <2>1, <2>2
  <2> HIDE DEF c
  <2> QED
    BY <2>3, <1>4, <1>5
<1>9. Others(w)
  BY <1>2, <1>6 DEF Others
<1>10. Channel(w)'
  <2>1. Channel(w)
    BY DEF IInv
  <2> QED
    BY <2>1, <1>2, <1>8 DEF Channel, Once, Pairs
<1>11. \A v \in Worker : Channel(v)' /\ Coming(v)' = Coming(v)
  BY <1>8, <1>9, <1>10, OthersKeep, ComingIs
<1>12. Types'
  <2>1. wire[w] \o a \in Seq(Half)
    BY <1>4, <1>5, ConcatProperties
  <2> QED
    BY <1>2, <1>3, <1>5, <1>7, <2>1 DEF Types
<1>13. OneServer'
  BY <1>2, <1>11 DEF IInv, OneServer
<1> QED
  BY <1>2, <1>11, <1>12, <1>13 DEF IInv

LEMMA HandleReadIInv ==
  ASSUME IInv, NEW w \in Worker, HandleRead(w)
  PROVE  IInv' /\ UNCHANGED <<open, given, ext, int>>
         /\ \E taken \in SUBSET Coming(w) :
              /\ conns' = [conns EXCEPT ![w] = @ \cup taken]
              /\ Coming(w)' = Coming(w) \ taken
         /\ \A v \in Worker : v # w => Coming(v)' = Coming(v)
<1>1. PICK k \in 1 .. Len(wire[w]) :
        LET buf   == in[w] \o SubSeq(wire[w], 1, k)
            taken == WholeFds(buf)
        IN  /\ in' = [in EXCEPT ![w] = Remainder(buf)]
            /\ wire' = [wire EXCEPT ![w] = SubSeq(@, k + 1, Len(@))]
            /\ conns' = [conns EXCEPT ![w] = @ \cup taken]
            /\ open' = open \ (taken \cap conns[w])
  BY DEF HandleRead
<1>2. w \in int /\ UNCHANGED <<m_worker_idx, given, ext, int, out>>
  BY DEF HandleRead
<1>3. Types /\ Channel(w) /\ Coming(w) \subseteq open /\ OneServer
  BY DEF IInv
<1> DEFINE a == SubSeq(wire[w], 1, k)
           r == SubSeq(wire[w], k + 1, Len(wire[w]))
           buf == in[w] \o a
           taken == WholeFds(buf)
           rem == Remainder(buf)
           m == Len(buf) \div 2
           s == Stream(w)
<1>4. /\ in[w] \in Seq(Half) /\ wire[w] \in Seq(Half) /\ out[w] \in Seq(Half)
      /\ s \in Seq(Half) /\ s = (in[w] \o wire[w]) \o out[w]
  BY <1>3, StreamParts
<1>5. a \in Seq(Half) /\ r \in Seq(Half) /\ (in[w] \o a) \o r = in[w] \o wire[w]
  BY <1>4, Recut
<1>6. buf \in Seq(Half) /\ Len(buf) \in Nat
  BY <1>4, <1>5, ConcatProperties, LenProperties
<1>7. /\ in' = [in EXCEPT ![w] = rem] /\ wire' = [wire EXCEPT ![w] = r]
      /\ conns' = [conns EXCEPT ![w] = @ \cup taken]
      /\ open' = open \ (taken \cap conns[w])
  BY <1>1
<1>8. /\ taken = {buf[2 * i][1] : i \in 1 .. m}
      /\ rem = SubSeq(buf, 2 * m + 1, Len(buf))
  BY DEF WholeFds, Remainder
<1>9. m \in Nat /\ 2 * m \in 0 .. Len(buf)
  <2> HIDE DEF buf
  <2>1. Len(buf) \div 2 \in Nat /\ 2 * (Len(buf) \div 2) \in 0 .. Len(buf)
    BY <1>6
  <2> QED
    BY <2>1
<1> HIDE DEF a, r, rem, taken, m
<1>10. r \o out[w] \in Seq(Half)
  BY <1>4, <1>5, ConcatProperties
<1>11. s = buf \o (r \o out[w])
  <2>1. s = (buf \o r) \o out[w]
    BY <1>4, <1>5
  <2> HIDE DEF buf, s
  <2>2. buf \in Seq(Half) /\ r \in Seq(Half) /\ out[w] \in Seq(Half)
    BY <1>4, <1>5, <1>6
  <2>3. (buf \o r) \o out[w] = buf \o (r \o out[w])
    BY <2>2, Associative
  <2> QED
    BY <2>1, <2>3
<1> HIDE DEF buf
<1>12. /\ rem \in Seq(Half)
       /\ rem \o (r \o out[w]) = SubSeq(s, 2 * m + 1, Len(s))
  <2>1. rem \in Seq(Half)
    BY <1>6, <1>8, <1>9, Rest
  <2> HIDE DEF s
  <2>2. rem \o (r \o out[w]) = SubSeq(s, 2 * m + 1, Len(s))
    BY <1>6, <1>8, <1>9, <1>10, <1>11, RestOfJoin
  <2> QED
    BY <2>1, <2>2
<1>13. Stream(w)' = SubSeq(s, 2 * m + 1, Len(s))
  <2>1. in'[w] = rem /\ wire'[w] = r /\ out'[w] = out[w]
    BY <1>2, <1>3, <1>7 DEF Types
  <2>2. Stream(w)' = (rem \o r) \o out[w]
    BY <2>1 DEF Stream
  <2>3. (rem \o r) \o out[w] = rem \o (r \o out[w])
    BY <1>4, <1>5, <1>12, Associative
  <2> QED
    BY <2>2, <2>3, <1>12
<1>14. /\ 2 * m <= Len(s) /\ Len(s) \in Nat
       /\ \A i \in 1 .. m : s[2 * i] = buf[2 * i]
  <2>1. /\ Len(s) = Len(buf) + Len(r \o out[w])
        /\ \A i \in 1 .. Len(buf) + Len(r \o out[w]) :
             s[i] = IF i <= Len(buf) THEN buf[i] ELSE (r \o out[w])[i - Len(buf)]
    BY <1>6, <1>10, <1>11, ConcatProperties
  <2>2. Len(r \o out[w]) \in Nat
    BY <1>10, LenProperties
  <2> HIDE DEF s
  <2>3. \A i \in 1 .. m : 2 * i \in 1 .. Len(buf) + Len(r \o out[w]) /\ 2 * i <= Len(buf)
    BY <1>6, <1>9, <2>2
  <2> QED
    BY <1>6, <1>9, <2>1, <2>2, <2>3
<1>15. taken = {s[2 * i][1] : i \in 1 .. m}
  BY <1>8, <1>14
<1>16. Pairs(s) /\ Once(s)
  BY <1>2, <1>3 DEF Channel
<1>17. /\ Stream(w)' \in Seq(Half) /\ Len(Stream(w)') = Len(s) - 2 * m
       /\ Pairs(Stream(w)') /\ Once(Stream(w)')
       /\ taken \subseteq Arriving(s) /\ Arriving(Stream(w)') = Arriving(s) \ taken
  <2> HIDE DEF s
  <2> QED
    BY <1>4, <1>9, <1>13, <1>14, <1>15, <1>16, TakePairs
<1>18. taken \subseteq Coming(w) /\ Coming(w)' = Coming(w) \ taken
  BY <1>17, ComingIs
<1>19. open' = open /\ taken \subseteq Fd
  BY <1>3, <1>7, <1>18 DEF OneServer, Types
<1>20. Others(w)
  BY <1>2, <1>3, <1>7 DEF Others, Types
<1>21. Channel(w)'
  <2>1. Len(s) % 2 = 0 => (Len(s) - 2 * m) % 2 = 0
    <3> HIDE DEF s
    <3> QED
      BY <1>9, <1>14
  <2>2. w \in int \cap ext => Len(Stream(w)') % 2 = 0
    BY <2>1, <1>3, <1>17 DEF Channel
  <2>3. w \notin ext => out[w] = <<>>
    BY <1>3 DEF Channel
  <2> QED
    BY <2>2, <2>3, <1>2, <1>17 DEF Channel, Pairs, Once
<1>22. \A v \in Worker : Channel(v)' /\ (v # w => Coming(v)' = Coming(v))
  BY <1>20, <1>21, OthersKeep
<1>23. Types'
  <2>1. conns'[w] = conns[w] \cup taken /\ conns[w] \subseteq Fd
    BY <1>3, <1>7 DEF Types
  <2> QED
    BY <1>2, <1>3, <1>5, <1>7, <1>12, <1>19, <2>1 DEF Types
<1>24. \A v \in Worker : conns'[v] = IF v = w THEN conns[v] \cup taken ELSE conns[v]
  BY <1>3, <1>7 DEF Types
<1>25. OneServer'
  <2> SUFFICES ASSUME NEW v \in Worker
               PROVE  /\ Coming(v)' \cap conns'[v] = {}
                      /\ conns'[v] \subseteq open'
                      /\ \A g \in Coming(v)' \cup conns'[v] : given'[g] = v
    BY DEF OneServer
  <2>1. /\ Coming(v) \cap conns[v] = {} /\ conns[v] \subseteq open
        /\ \A g \in Coming(v) \cup conns[v] : given[g] = v
    BY <1>3 DEF OneServer
  <2>2. CASE v = w
    BY <2>1, <2>2, <1>2, <1>3, <1>18, <1>19, <1>24
  <2>3. CASE v # w
    BY <2>1, <2>3, <1>2, <1>19, <1>22, <1>24
  <2> QED
    BY <2>2, <2>3
<1>26. \A v \in Worker : Coming(v)' \subseteq open'
  BY <1>18, <1>19, <1>22 DEF IInv
<1> QED
  BY <1>2, <1>7, <1>18, <1>19, <1>22, <1>23, <1>25, <1>26 DEF IInv

LEMMA CloseExternalIInv ==
  ASSUME IInv, NEW w \in Worker, CloseExternal(w)
  PROVE  IInv' /\ UNCHANGED <<open, given, int, conns>> /\ ext' = ext \ {w}
         /\ Coming(w)' \subseteq Coming(w)
         /\ \A v \in Worker : v # w => Coming(v)' = Coming(v)
<1>1. /\ ext' = ext \ {w} /\ out' = [out EXCEPT ![w] = <<>>]
      /\ UNCHANGED <<m_worker_idx, open, given, int, wire, in, conns>>
  BY DEF CloseExternal
<1>2. Types /\ Channel(w) /\ OneServer /\ \A v \in Worker : Coming(v) \subseteq open
  BY DEF IInv
<1> DEFINE c == in[w] \o wire[w]
<1>3. c \in Seq(Half) /\ out[w] \in Seq(Half) /\ Stream(w) = c \o out[w]
  BY <1>2, StreamParts
<1>4. out'[w] = <<>> /\ \A v \in Worker : v # w => out'[v] = out[v]
  BY <1>1, <1>2 DEF Types
<1>5. Stream(w)' = c
  <2>1. Stream(w)' = c \o <<>>
    BY <1>1, <1>4 DEF Stream
  <2> HIDE DEF c
  <2> QED
    BY <2>1, <1>3, ConcatEmptySeq
<1>6. /\ Once(Stream(w)) => Once(Stream(w)')
      /\ Pairs(Stream(w)) => Pairs(Stream(w)')
      /\ Arriving(Stream(w)') \subseteq Arriving(Stream(w))
  <2> HIDE DEF c
  <2> QED
    BY <1>3, <1>5, PartsKeep
<1>7. Channel(w)'
  <2>1. w \notin ext' /\ (w \in int => Pairs(Stream(w)')) /\ Once(Stream(w)')
    BY <1>1, <1>2, <1>6 DEF Channel
  <2>2. w \notin int => in[w] = <<>> /\ wire[w] = <<>>
    BY <1>2 DEF Channel
  <2> QED
    BY <2>1, <2>2, <1>1, <1>4 DEF Channel, Once, Pairs
<1>8. Others(w)
  BY <1>1, <1>4 DEF Others
<1>9. Coming(w)' \subseteq Coming(w) /\ \A v \in Worker : v # w => Channel(v)' /\ Coming(v)' = Coming(v)
  BY <1>6, <1>8, ComingIs, OthersKeep
<1>10. Types'
  <2>1. <<>> \in Seq(Half)
    OBVIOUS
  <2> QED
    BY <1>1, <1>2, <2>1 DEF Types
<1>11. OneServer'
  BY <1>1, <1>2, <1>9 DEF OneServer
<1> QED
  BY <1>1, <1>2, <1>7, <1>9, <1>10, <1>11 DEF IInv

LEMMA CloseInternalIInv ==
  ASSUME IInv, NEW w \in Worker, CloseInternal(w)
  PROVE  IInv' /\ UNCHANGED <<open, given, ext, conns>> /\ int' = int \ {w}
         /\ Coming(w)' \subseteq Coming(w)
         /\ \A v \in Worker : v # w => Coming(v)' = Coming(v)
<1>1. /\ int' = int \ {w} /\ wire' = [wire EXCEPT ![w] = <<>>] /\ in' = [in EXCEPT ![w] = <<>>]
      /\ UNCHANGED <<m_worker_idx, open, given, ext, out, conns>>
  BY DEF CloseInternal
<1>2. Types /\ Channel(w) /\ OneServer /\ \A v \in Worker : Coming(v) \subseteq open
  BY DEF IInv
<1> DEFINE c == in[w] \o wire[w]
<1>3. c \in Seq(Half) /\ out[w] \in Seq(Half) /\ Stream(w) = c \o out[w]
  BY <1>2, StreamParts
<1>4. /\ wire'[w] = <<>> /\ in'[w] = <<>>
      /\ \A v \in Worker : v # w => wire'[v] = wire[v] /\ in'[v] = in[v]
  BY <1>1, <1>2 DEF Types
<1>5. Stream(w)' = out[w]
  <2>1. Stream(w)' = (<<>> \o <<>>) \o out[w]
    BY <1>1, <1>4 DEF Stream
  <2>2. <<>> \o <<>> = <<>>
    OBVIOUS
  <2> QED
    BY <2>1, <2>2, <1>3, ConcatEmptySeq
<1>6. /\ Once(Stream(w)) => Once(Stream(w)')
      /\ Arriving(Stream(w)') \subseteq Arriving(Stream(w))
  <2> HIDE DEF c
  <2> QED
    BY <1>3, <1>5, PartsKeep
<1>7. Channel(w)'
  <2>1. w \notin int' /\ Once(Stream(w)')
    BY <1>1, <1>2, <1>6 DEF Channel
  <2>2. w \notin ext => out[w] = <<>>
    BY <1>2 DEF Channel
  <2> QED
    BY <2>1, <2>2, <1>1, <1>4 DEF Channel, Once, Pairs
<1>8. Others(w)
  BY <1>1, <1>4 DEF Others
<1>9. Coming(w)' \subseteq Coming(w) /\ \A v \in Worker : v # w => Channel(v)' /\ Coming(v)' = Coming(v)
  BY <1>6, <1>8, ComingIs, OthersKeep
<1>10. Types'
  <2>1. <<>> \in Seq(Half)
    OBVIOUS
  <2> QED
    BY <1>1, <1>2, <2>1 DEF Types
<1>11. OneServer'
  BY <1>1, <1>2, <1>9 DEF OneServer
<1> QED
  BY <1>1, <1>2, <1>7, <1>9, <1>10, <1>11 DEF IInv

LEMMA HandleEndIInv ==
  ASSUME IInv, NEW w \in Worker, NEW f \in Fd, HandleEnd(w, f)
  PROVE  IInv' /\ UNCHANGED <<given, ext, int>>
         /\ f \in conns[w] /\ open' = open \ {f} /\ conns' = [conns EXCEPT ![w] = @ \ {f}]
         /\ \A v \in Worker : Coming(v)' = Coming(v)
<1>1. /\ f \in conns[w] /\ open' = open \ {f} /\ conns' = [conns EXCEPT ![w] = @ \ {f}]
      /\ UNCHANGED <<m_worker_idx, given, ext, int, out, wire, in>>
  BY DEF HandleEnd
<1>2. Types /\ OneServer /\ \A v \in Worker : Coming(v) \subseteq open
  BY DEF IInv
<1>3. \A v \in Worker : Channel(v)' /\ Coming(v)' = Coming(v)
  BY <1>1, SameChannel
<1>4. \A v \in Worker : conns'[v] = IF v = w THEN conns[v] \ {f} ELSE conns[v]
  BY <1>1, <1>2 DEF Types
<1>5. \A v \in Worker : f \notin Coming(v) /\ (v # w => f \notin conns[v])
  BY <1>1, <1>2 DEF OneServer
<1>6. Types'
  <2>1. conns[w] \ {f} \subseteq Fd
    BY <1>2 DEF Types
  <2> QED
    BY <1>1, <1>2, <2>1 DEF Types
<1>7. OneServer'
  BY <1>1, <1>2, <1>3, <1>4, <1>5 DEF OneServer
<1>8. \A v \in Worker : Coming(v)' \subseteq open'
  BY <1>1, <1>2, <1>3, <1>5
<1> QED
  BY <1>1, <1>3, <1>6, <1>7, <1>8 DEF IInv

LEMMA StutterIInv ==
  ASSUME IInv, UNCHANGED vars PROVE IInv' /\ \A v \in Worker : Coming(v)' = Coming(v)
<1>1. UNCHANGED <<m_worker_idx, open, given, ext, int, out, wire, in, conns>>
  BY DEF vars
<1>2. \A v \in Worker : Channel(v)' /\ Coming(v)' = Coming(v)
  BY <1>1, SameChannel
<1>3. Types' /\ OneServer'
  BY <1>1, <1>2 DEF IInv, Types, OneServer
<1> QED
  BY <1>1, <1>2, <1>3 DEF IInv

LEMMA NextIInv == IInv /\ [Next]_vars => IInv'
<1> SUFFICES ASSUME IInv, [Next]_vars PROVE IInv'
  OBVIOUS
<1>1. ASSUME NEW f \in Fd, Accept(f) PROVE IInv'
  BY <1>1, AcceptIInv
<1>2. ASSUME NEW w \in Worker, Flush(w) PROVE IInv'
  BY <1>2, FlushIInv
<1>3. ASSUME NEW w \in Worker, HandleRead(w) PROVE IInv'
  BY <1>3, HandleReadIInv
<1>4. ASSUME NEW w \in Worker, CloseExternal(w) PROVE IInv'
  BY <1>4, CloseExternalIInv
<1>5. ASSUME NEW w \in Worker, CloseInternal(w) PROVE IInv'
  BY <1>5, CloseInternalIInv
<1>6. ASSUME NEW w \in Worker, NEW f \in Fd, HandleEnd(w, f) PROVE IInv'
  BY <1>6, HandleEndIInv
<1> QED
  BY <1>1, <1>2, <1>3, <1>4, <1>5, <1>6, StutterIInv DEF Next

LEMMA SpecIInv == Spec => []IInv
BY InitIInv, NextIInv, PTL DEF Spec

------------------------------------------------------------------------------
(* Theorems. *)

\* However the stream is cut and wherever the channel breaks, the worker's loop never
\* makes a descriptor of the parts of two.
THEOREM FdsAreWhole == Spec => []NoTornFd
<1>1. IInv => NoTornFd
  <2> SUFFICES ASSUME IInv, NEW w \in Worker, NEW i \in 1 .. Len(in[w] \o wire[w])
               PROVE  LET s == in[w] \o wire[w]
                      IN  s[i][2] = 2 - (i % 2) /\ (i % 2 = 0 => s[i - 1][1] = s[i][1])
    BY DEF NoTornFd
  <2> DEFINE c == in[w] \o wire[w]
  <2>1. Channel(w)
    BY DEF IInv
  <2>2. c \in Seq(Half) /\ out[w] \in Seq(Half) /\ Stream(w) = c \o out[w]
    BY StreamParts DEF IInv
  <2>3. w \in int
    <3>1. ASSUME w \notin int PROVE FALSE
      <4>1. in[w] = <<>> /\ wire[w] = <<>>
        BY <2>1, <3>1 DEF Channel
      <4>2. <<>> \o <<>> = <<>> /\ Len(<<>>) = 0
        OBVIOUS
      <4> QED
        BY <4>1, <4>2
    <3> QED
      BY <3>1
  <2>4. i \in 1 .. Len(c)
    OBVIOUS
  <2> HIDE DEF c
  <2>5. Pairs(c)
    BY <2>1, <2>2, <2>3, PartsKeep DEF Channel
  <2>6. c[i][2] = 2 - (i % 2) /\ (i % 2 = 0 => c[i - 1][1] = c[i][1])
    BY <2>4, <2>5 DEF Pairs
  <2> QED
    BY <2>6 DEF c
<1> QED
  BY <1>1, SpecIInv, PTL

\* A descriptor is with the worker it was given to and nowhere else, on its way or in
\* the set, although the kernel reuses numbers as soon as they are closed.
THEOREM ServedByOne == Spec => []OneServer
<1>1. IInv => OneServer
  BY DEF IInv
<1> QED
  BY <1>1, SpecIInv, PTL

------------------------------------------------------------------------------
(* The refinement. *)

\* The state of FdHandOff.
Where ==
  [f \in Fd |-> LET w == given[f] IN
     CASE f \notin open       -> <<"closed">>
       [] f \in conns[w]      -> <<"served", w>>
       [] f \in Coming(w)     -> <<"transit", w>>
       [] OTHER               -> <<"lost">>]

Gone == {w \in Worker : Broken(w)}

\* OneServer makes the cases exclusive.
LEMMA WhereIs ==
  ASSUME IInv, NEW f \in Fd
  PROVE  /\ f \notin open => Where[f] = <<"closed">>
         /\ \A w \in Worker : f \in conns[w] => Where[f] = <<"served", w>>
         /\ \A w \in Worker : f \in Coming(w) => Where[f] = <<"transit", w>>
         /\ f \in open /\ (\A w \in Worker : f \notin conns[w] /\ f \notin Coming(w))
              => Where[f] = <<"lost">>
BY DEF IInv, OneServer, Types, Where

LEMMA WhereNext ==
  ASSUME IInv', NEW f \in Fd
  PROVE  /\ f \notin open' => Where'[f] = <<"closed">>
         /\ \A w \in Worker : f \in conns'[w] => Where'[f] = <<"served", w>>
         /\ \A w \in Worker : f \in Coming(w)' => Where'[f] = <<"transit", w>>
         /\ f \in open' /\ (\A w \in Worker : f \notin conns'[w] /\ f \notin Coming(w)')
              => Where'[f] = <<"lost">>
BY DEF IInv, OneServer, Types, Where

\* A descriptor about which nothing changes stays where it is.
LEMMA WhereStays ==
  ASSUME IInv, IInv', NEW f \in Fd, f \in open' <=> f \in open,
         \A w \in Worker : /\ f \in conns'[w] <=> f \in conns[w]
                           /\ f \in Coming(w)' <=> f \in Coming(w)
  PROVE  Where'[f] = Where[f]
BY WhereIs, WhereNext DEF IInv, OneServer

LEMMA Moves ==
  ASSUME NEW S \in SUBSET Fd, NEW from, NEW to,
         \A f \in S : Where[f] = from,
         \A f \in Fd : Where'[f] = IF f \in S THEN to ELSE Where[f]
  PROVE  Abs!Move(S, from, to)
<1>1. Where' = [f \in Fd |-> IF f \in S THEN to ELSE Where[f]]
  BY DEF Where
<1> QED
  BY <1>1 DEF Abs!Move, Where

LEMMA GoneIs ==
  /\ Gone = {w \in Worker : w \notin ext \/ w \notin int}
  /\ Gone' = {w \in Worker : w \notin ext' \/ w \notin int'}
BY DEF Gone, Broken

LEMMA InitAbs == Init => Abs!Init
<1> SUFFICES ASSUME Init PROVE Abs!Init
  OBVIOUS
<1>1. \A f \in Fd : Where[f] = <<"closed">>
  BY InitIInv, WhereIs DEF Init
<1>2. Where = [f \in Fd |-> <<"closed">>]
  BY <1>1 DEF Where
<1>3. Gone = {}
  BY GoneIs DEF Init
<1> QED
  BY <1>2, <1>3 DEF Abs!Init, Where, Gone

LEMMA StepAbs == IInv /\ IInv' /\ [Next]_vars => [Abs!Next]_<<Where, Gone>>
<1> SUFFICES ASSUME IInv, IInv', [Next]_vars PROVE [Abs!Next]_<<Where, Gone>>
  OBVIOUS
<1>0. Types /\ OneServer /\ \A w \in Worker : Coming(w) \subseteq open
  BY DEF IInv
<1>1. ASSUME \A f \in Fd : f \in open' <=> f \in open,
             \A w \in Worker : conns'[w] = conns[w] /\ Coming(w)' = Coming(w)
      PROVE  Where' = Where
  <2>1. \A f \in Fd : Where'[f] = Where[f]
    BY <1>1, WhereStays
  <2> QED
    BY <2>1 DEF Where
<1>2. ASSUME NEW f \in Fd, Accept(f) PROVE [Abs!Next]_<<Where, Gone>>
  <2>1. UNCHANGED <<ext, int, conns>>
    BY <1>2, AcceptIInv
  <2>2. Gone' = Gone
    BY <2>1, GoneIs
  <2>3. CASE UNCHANGED <<open, given>> /\ \A v \in Worker : Coming(v)' = Coming(v)
    BY <1>1, <2>1, <2>2, <2>3
  <2>4. ASSUME NEW w \in Worker,
               f \notin open, open' = open \cup {f}, Coming(w)' = Coming(w) \cup {f},
               \A v \in Worker : v # w => Coming(v)' = Coming(v)
        PROVE  Abs!Next
    <3>1. Where[f] = <<"closed">> /\ Where'[f] = Abs!Transit(w)
      BY <2>4, WhereIs, WhereNext DEF Abs!Transit
    <3>2. \A g \in Fd : g # f => Where'[g] = Where[g]
      BY <2>1, <2>4, WhereStays
    <3>3. Abs!Move({f}, <<"closed">>, Abs!Transit(w))
      BY <3>1, <3>2, Moves
    <3> QED
      BY <2>2, <3>3 DEF Abs!Accept, Abs!Next, Gone
  <2> QED
    BY <1>2, <2>3, <2>4, AcceptIInv
<1>3. ASSUME NEW w \in Worker, Flush(w) PROVE [Abs!Next]_<<Where, Gone>>
  <2>1. UNCHANGED <<open, given, ext, int, conns>> /\ \A v \in Worker : Coming(v)' = Coming(v)
    BY <1>3, FlushIInv
  <2> QED
    BY <1>1, <2>1, GoneIs
<1>4. ASSUME NEW w \in Worker, HandleRead(w) PROVE Abs!Next
  <2>1. /\ UNCHANGED <<open, given, ext, int>>
        /\ \A v \in Worker : v # w => Coming(v)' = Coming(v)
    BY <1>4, HandleReadIInv
  <2>2. PICK taken \in SUBSET Coming(w) : /\ conns' = [conns EXCEPT ![w] = @ \cup taken]
                                          /\ Coming(w)' = Coming(w) \ taken
    BY <1>4, HandleReadIInv
  <2>3. taken \in SUBSET Fd
    BY DEF Coming
  <2>4. \A v \in Worker : conns'[v] = IF v = w THEN conns[v] \cup taken ELSE conns[v]
    BY <1>0, <2>2 DEF Types
  <2>5. \A f \in taken : Where[f] = Abs!Transit(w) /\ Where'[f] = Abs!Served(w)
    BY <2>3, <2>4, WhereIs, WhereNext DEF Abs!Transit, Abs!Served
  <2>6. \A f \in Fd : f \notin taken => Where'[f] = Where[f]
    BY <2>1, <2>2, <2>4, WhereStays
  <2>7. Abs!Move(taken, Abs!Transit(w), Abs!Served(w))
    BY <2>3, <2>5, <2>6, Moves
  <2>8. Gone' = Gone
    BY <2>1, GoneIs
  <2> QED
    BY <2>3, <2>7, <2>8 DEF Abs!Serve, Abs!Next, Gone
<1>5. ASSUME NEW w \in Worker, UNCHANGED <<open, given, conns>>, Gone' = Gone \cup {w},
             Coming(w)' \subseteq Coming(w),
             \A v \in Worker : v # w => Coming(v)' = Coming(v)
      PROVE  Abs!Next
  <2> DEFINE S == {f \in Coming(w) : f \notin Coming(w)'}
  <2>1. S \in SUBSET Fd
    BY DEF Coming
  <2>2. \A f \in S : Where[f] = Abs!Transit(w) /\ Where'[f] = <<"lost">>
    <3> SUFFICES ASSUME NEW f \in S PROVE Where[f] = Abs!Transit(w) /\ Where'[f] = <<"lost">>
      OBVIOUS
    <3>1. f \in Fd /\ f \in Coming(w) /\ f \notin Coming(w)' /\ f \in open'
      BY <1>0, <1>5, <2>1
    <3>2. \A v \in Worker : f \notin conns[v] /\ (v # w => f \notin Coming(v))
      BY <1>0, <3>1 DEF OneServer
    <3>3. \A v \in Worker : f \notin conns'[v] /\ f \notin Coming(v)'
      BY <1>5, <3>1, <3>2
    <3> QED
      BY <3>1, <3>3, WhereIs, WhereNext DEF Abs!Transit
  <2>3. \A f \in Fd : f \notin S => Where'[f] = Where[f]
    BY <1>5, WhereStays
  <2>4. Abs!Move(S, Abs!Transit(w), <<"lost">>)
    BY <2>1, <2>2, <2>3, Moves
  <2> QED
    BY <1>5, <2>1, <2>4 DEF Abs!Break, Abs!Next, Gone
<1>6. ASSUME NEW w \in Worker, CloseExternal(w) PROVE Abs!Next
  <2>1. /\ UNCHANGED <<open, given, int, conns>> /\ ext' = ext \ {w}
        /\ Coming(w)' \subseteq Coming(w)
        /\ \A v \in Worker : v # w => Coming(v)' = Coming(v)
    BY <1>6, CloseExternalIInv
  <2>2. Gone' = Gone \cup {w}
    BY <2>1, GoneIs
  <2> QED
    BY <1>5, <2>1, <2>2
<1>7. ASSUME NEW w \in Worker, CloseInternal(w) PROVE Abs!Next
  <2>1. /\ UNCHANGED <<open, given, ext, conns>> /\ int' = int \ {w}
        /\ Coming(w)' \subseteq Coming(w)
        /\ \A v \in Worker : v # w => Coming(v)' = Coming(v)
    BY <1>7, CloseInternalIInv
  <2>2. Gone' = Gone \cup {w}
    BY <2>1, GoneIs
  <2> QED
    BY <1>5, <2>1, <2>2
<1>8. ASSUME NEW w \in Worker, NEW f \in Fd, HandleEnd(w, f) PROVE Abs!Next
  <2>1. /\ UNCHANGED <<given, ext, int>>
        /\ f \in conns[w] /\ open' = open \ {f} /\ conns' = [conns EXCEPT ![w] = @ \ {f}]
        /\ \A v \in Worker : Coming(v)' = Coming(v)
    BY <1>8, HandleEndIInv
  <2>2. Where[f] = Abs!Served(w) /\ Where'[f] = <<"closed">>
    BY <2>1, WhereIs, WhereNext DEF Abs!Served
  <2>3. \A v \in Worker : conns'[v] = IF v = w THEN conns[v] \ {f} ELSE conns[v]
    BY <1>0, <2>1 DEF Types
  <2>4. \A g \in Fd : g # f => Where'[g] = Where[g]
    BY <2>1, <2>3, WhereStays
  <2>5. Abs!Move({f}, Abs!Served(w), <<"closed">>)
    BY <2>2, <2>4, Moves
  <2>6. Gone' = Gone
    BY <2>1, GoneIs
  <2> QED
    BY <2>5, <2>6 DEF Abs!Close, Abs!Next, Gone
<1>9. ASSUME UNCHANGED vars PROVE UNCHANGED <<Where, Gone>>
  <2>1. UNCHANGED <<open, ext, int, conns>> /\ \A v \in Worker : Coming(v)' = Coming(v)
    BY <1>9, StutterIInv DEF vars
  <2> QED
    BY <1>1, <2>1, GoneIs
<1> QED
  BY <1>2, <1>3, <1>4, <1>6, <1>7, <1>8, <1>9 DEF Next

\* The server hands descriptors over as FdHandOff allows: what is accepted arrives at one
\* worker, is served and closed there, and only a channel that breaks loses any.
THEOREM HandOffImplemented == Spec => ImplementsHandOff
<1>1. IInv /\ IInv' /\ [Next]_vars =>
        [Abs!Next]_<<[f \in Fd |-> LET w == given[f] IN
                       CASE f \notin open       -> <<"closed">>
                         [] f \in conns[w]      -> <<"served", w>>
                         [] f \in Coming(w)     -> <<"transit", w>>
                         [] OTHER               -> <<"lost">>],
                     {w \in Worker : Broken(w)}>>
  BY StepAbs DEF Where, Gone
<1> QED
  BY SpecIInv, InitAbs, <1>1, PTL DEF Spec, ImplementsHandOff, Abs!Spec

=============================================================================
