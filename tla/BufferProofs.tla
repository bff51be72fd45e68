---------------------------- MODULE BufferProofs ----------------------------
(***************************************************************************)
(* What holds of ranger::event::buffer for any number of buffers, evbuffers*)
(* and bytes: each evbuffer has one owner, which frees it once, and each   *)
(* byte is in one place, which it leaves behind those ahead of it.         *)
(*                                                                         *)
(* The bytes of an evbuffer are a Row, a sequence of numbers without       *)
(* repetition.  Lemmas say what appending, cutting and joining make of     *)
(* rows, then what the operations of libevent make of the bytes of all     *)
(* evbuffers together: where they are (Spread) and in which order.         *)
(***************************************************************************)
EXTENDS Buffer, FiniteSetTheorems, SequenceTheorems, WellFoundedInduction, TLAPS

\* A nonempty set of numbers has its Min, here the first end of a line.  The library's
\* theorem on well-founded orders stands in for induction.
LEMMA MinNat ==
  ASSUME NEW S \in SUBSET Nat, S # {}
  PROVE  Min(S) \in S
<1> DEFINE R == OpToRel(<, Nat)
<1>1. IsWellFoundedOn(R, Nat)
  BY NatLessThanWellFounded
<1>2. \A x, y \in Nat : y < x => <<y, x>> \in R
  BY DEF OpToRel
<1> HIDE DEF R
<1>3. PICK x \in S : \A y \in S : ~ (<<y, x>> \in R)
  BY <1>1, WFMin
<1>4. \A y \in S : x =< y
  <2> TAKE y \in S
  <2>1. x \in Nat /\ y \in Nat /\ ~(y < x)
    BY <1>2, <1>3
  <2> QED
    BY <2>1
<1> QED
  BY <1>4 DEF Min

Row(s) == s \in Seq(Nat) /\ IsInjective(s)

LEMMA RowAppend ==
  ASSUME NEW s, Row(s), NEW n \in Nat, n \notin ToSet(s)
  PROVE  Row(Append(s, n)) /\ ToSet(Append(s, n)) = ToSet(s) \cup {n}
<1> DEFINE k == Len(s)
           t == Append(s, n)
<1>1. k \in Nat /\ DOMAIN s = 1 .. k /\ \A i \in 1 .. k : s[i] \in Nat /\ s[i] # n
  BY LenProperties, ElementOfSeq DEF Row, ToSet
<1>2. /\ t \in Seq(Nat) /\ DOMAIN t = 1 .. k + 1
      /\ t[k + 1] = n /\ \A i \in 1 .. k : t[i] = s[i]
  BY AppendProperties, LenProperties DEF Row
<1> HIDE DEF k, t
<1>3. IsInjective(t)
  <2> SUFFICES ASSUME NEW i \in 1 .. k + 1, NEW j \in 1 .. k + 1, t[i] = t[j] PROVE i = j
    BY <1>2 DEF IsInjective
  <2>1. CASE i \in 1 .. k /\ j \in 1 .. k
    BY <2>1, <1>1, <1>2 DEF Row, IsInjective
  <2>2. CASE i = k + 1 \/ j = k + 1
    BY <2>2, <1>1, <1>2
  <2> QED
    BY <1>1, <2>1, <2>2
<1>4. \A x : x \in ToSet(t) <=> x \in ToSet(s) \cup {n}
  <2> TAKE x
  <2>1. ASSUME x \in ToSet(t) PROVE x \in ToSet(s) \cup {n}
    <3>1. PICK i \in 1 .. k + 1 : x = t[i]
      BY <1>2, <2>1 DEF ToSet
    <3>2. i \in 1 .. k \/ i = k + 1
      BY <1>1
    <3> QED
      BY <1>1, <1>2, <3>1, <3>2 DEF ToSet
  <2>2. ASSUME x \in ToSet(s) PROVE x \in ToSet(t)
    <3>1. PICK i \in 1 .. k : x = s[i]
      BY <1>1, <2>2 DEF ToSet
    <3>2. i \in 1 .. k + 1
      BY <1>1
    <3> QED
      BY <1>2, <3>1, <3>2 DEF ToSet
  <2>3. n \in ToSet(t)
    <3>1. k + 1 \in 1 .. k + 1
      BY <1>1
    <3> QED
      BY <1>2, <3>1 DEF ToSet
  <2> QED
    BY <2>1, <2>2, <2>3
<1> QED
  BY <1>2, <1>3, <1>4 DEF t, Row

\* The two parts of a sequence, element by element.
LEMMA CutParts ==
  ASSUME NEW s, Row(s), NEW n \in 0 .. Len(s)
  PROVE  LET p == SubSeq(s, 1, n)
             q == SubSeq(s, n + 1, Len(s))
         IN  /\ p \in Seq(Nat) /\ DOMAIN p = 1 .. n /\ \A i \in 1 .. n : p[i] = s[i]
             /\ q \in Seq(Nat) /\ DOMAIN q = 1 .. Len(s) - n
             /\ \A i \in 1 .. Len(s) - n : q[i] = s[n + i]
<1> DEFINE k == Len(s)
           p == SubSeq(s, 1, n)
           q == SubSeq(s, n + 1, k)
<1>1. k \in Nat /\ n \in 0 .. k /\ DOMAIN s = 1 .. k
  BY LenProperties DEF Row
<1>2. /\ p \in Seq(Nat) /\ DOMAIN p = 1 .. n /\ \A i \in 1 .. n : p[i] = s[i]
  BY <1>1, SubSeqProperties, LenProperties DEF Row
<1>3. /\ q \in Seq(Nat) /\ DOMAIN q = 1 .. k - n /\ \A i \in 1 .. k - n : q[i] = s[n + i]
  <2>1. n + 1 \in Int /\ k \in Int /\ \A i \in n + 1 .. k : s[i] \in Nat
    <3>1. \A i \in n + 1 .. k : i \in 1 .. k
      BY <1>1
    <3> QED
      BY <1>1, <3>1, ElementOfSeq DEF Row
  <2>2. /\ q \in Seq(Nat)
        /\ Len(q) = (IF n + 1 <= k THEN k - (n + 1) + 1 ELSE 0)
        /\ \A i \in 1 .. k - (n + 1) + 1 : q[i] = s[(n + 1) + i - 1]
    BY <2>1, SubSeqProperties
  <2> HIDE DEF k, q
  <2>3. k - (n + 1) + 1 = k - n /\ Len(q) = k - n
    <3>1. k - (n + 1) + 1 = k - n /\ (~(n + 1 <= k) => k - n = 0)
      BY <1>1
    <3> QED
      BY <2>2, <3>1
  <2>4. \A i \in 1 .. k - n : (n + 1) + i - 1 = n + i
    BY <1>1
  <2> QED
    BY <2>2, <2>3, <2>4, LenProperties
<1> QED
  BY <1>2, <1>3 DEF k, p, q

LEMMA RowCut ==
  ASSUME NEW s, Row(s), NEW n \in 0 .. Len(s)
  PROVE  LET p == SubSeq(s, 1, n)
             q == SubSeq(s, n + 1, Len(s))
         IN  /\ Row(p) /\ Row(q)
             /\ ToSet(p) \cup ToSet(q) = ToSet(s) /\ ToSet(p) \cap ToSet(q) = {}
<1> DEFINE k == Len(s)
           p == SubSeq(s, 1, n)
           q == SubSeq(s, n + 1, k)
<1>1. k \in Nat /\ n \in 0 .. k /\ DOMAIN s = 1 .. k
  BY LenProperties DEF Row
<1>2. /\ p \in Seq(Nat) /\ DOMAIN p = 1 .. n /\ \A i \in 1 .. n : p[i] = s[i]
      /\ q \in Seq(Nat) /\ DOMAIN q = 1 .. k - n /\ \A i \in 1 .. k - n : q[i] = s[n + i]
  BY CutParts
<1> HIDE DEF k, p, q
<1>3. \A i, j \in 1 .. k : s[i] = s[j] => i = j
  BY <1>1 DEF Row, IsInjective
<1>4. IsInjective(p)
  <2> SUFFICES ASSUME NEW i \in 1 .. n, NEW j \in 1 .. n, p[i] = p[j] PROVE i = j
    BY <1>2 DEF IsInjective
  <2>1. i \in 1 .. k /\ j \in 1 .. k
    BY <1>1
  <2> QED
    BY <1>2, <1>3, <2>1
<1>5. IsInjective(q)
  <2> SUFFICES ASSUME NEW i \in 1 .. k - n, NEW j \in 1 .. k - n, q[i] = q[j] PROVE i = j
    BY <1>2 DEF IsInjective
  <2>1. n + i \in 1 .. k /\ n + j \in 1 .. k
    BY <1>1
  <2>2. n + i = n + j
    BY <1>2, <1>3, <2>1
  <2> QED
    BY <1>1, <2>2
<1>6. \A x : x \in ToSet(p) <=> \E i \in 1 .. n : x = s[i]
  BY <1>2 DEF ToSet
<1>7. \A x : x \in ToSet(q) <=> \E i \in n + 1 .. k : x = s[i]
  <2> TAKE x
  <2>1. ASSUME x \in ToSet(q) PROVE \E i \in n + 1 .. k : x = s[i]
    <3>1. PICK i \in 1 .. k - n : x = q[i]
      BY <1>2, <2>1 DEF ToSet
    <3>2. n + i \in n + 1 .. k
      BY <1>1
    <3> QED
      BY <1>2, <3>1, <3>2
  <2>2. ASSUME NEW i \in n + 1 .. k, x = s[i] PROVE x \in ToSet(q)
    <3>1. i - n \in 1 .. k - n /\ n + (i - n) = i
      BY <1>1
    <3>2. q[i - n] = s[i]
      BY <1>2, <3>1
    <3> QED
      BY <1>2, <2>2, <3>1, <3>2 DEF ToSet
  <2> QED
    BY <2>1, <2>2
<1>8. \A x : x \in ToSet(s) <=> \E i \in 1 .. k : x = s[i]
  BY <1>1 DEF ToSet
<1>9. \A i : i \in 1 .. k <=> i \in 1 .. n \/ i \in n + 1 .. k
  BY <1>1
<1>10. ToSet(p) \cup ToSet(q) = ToSet(s)
  BY <1>6, <1>7, <1>8, <1>9
<1>11. ToSet(p) \cap ToSet(q) = {}
  <2> SUFFICES ASSUME NEW i \in 1 .. n, NEW j \in n + 1 .. k, s[i] = s[j] PROVE FALSE
    BY <1>6, <1>7
  <2> QED
    BY <1>1, <1>3, <1>9
<1> QED
  BY <1>2, <1>4, <1>5, <1>10, <1>11 DEF Row, k, p, q

LEMMA RowJoin ==
  ASSUME NEW s, NEW t, Row(s), Row(t), ToSet(s) \cap ToSet(t) = {}
  PROVE  Row(s \o t) /\ ToSet(s \o t) = ToSet(s) \cup ToSet(t)
<1> DEFINE k == Len(s)
           l == Len(t)
           u == s \o t
<1>1. k \in Nat /\ l \in Nat /\ DOMAIN s = 1 .. k /\ DOMAIN t = 1 .. l
  BY LenProperties DEF Row
<1>2. /\ u \in Seq(Nat) /\ DOMAIN u = 1 .. k + l
      /\ \A i \in 1 .. k + l : u[i] = IF i <= k THEN s[i] ELSE t[i - k]
  BY ConcatProperties, LenProperties DEF Row
<1> HIDE DEF k, l, u
<1>3. \A i \in 1 .. k : u[i] = s[i] /\ i \in 1 .. k + l
  BY <1>1, <1>2
<1>4. \A i \in 1 .. l : u[k + i] = t[i] /\ k + i \in 1 .. k + l
  <2> TAKE i \in 1 .. l
  <2>1. k + i \in 1 .. k + l /\ ~(k + i <= k) /\ (k + i) - k = i
    BY <1>1
  <2> QED
    BY <1>2, <2>1
<1>5. \A i \in 1 .. k + l : i \in 1 .. k \/ \E j \in 1 .. l : i = k + j
  <2> TAKE i \in 1 .. k + l
  <2>1. CASE i <= k
    BY <2>1, <1>1
  <2>2. CASE ~(i <= k)
    <3>1. i - k \in 1 .. l /\ i = k + (i - k)
      BY <2>2, <1>1
    <3> QED
      BY <3>1
  <2> QED
    BY <2>1, <2>2
<1>6. \A x : x \in ToSet(s) <=> \E i \in 1 .. k : x = s[i]
  BY <1>1 DEF ToSet
<1>7. \A x : x \in ToSet(t) <=> \E i \in 1 .. l : x = t[i]
  BY <1>1 DEF ToSet
<1>8. \A x : x \in ToSet(u) <=> \E i \in 1 .. k + l : x = u[i]
  BY <1>2 DEF ToSet
<1>9. ToSet(u) = ToSet(s) \cup ToSet(t)
  <2>1. \A x : x \in ToSet(u) => x \in ToSet(s) \cup ToSet(t)
    <3> SUFFICES ASSUME NEW i \in 1 .. k + l PROVE u[i] \in ToSet(s) \cup ToSet(t)
      BY <1>8
    <3> QED
      BY <1>3, <1>4, <1>5, <1>6, <1>7
  <2>2. \A x : x \in ToSet(s) \cup ToSet(t) => x \in ToSet(u)
    BY <1>3, <1>4, <1>6, <1>7, <1>8
  <2> QED
    BY <2>1, <2>2
<1>10. IsInjective(u)
  <2> SUFFICES ASSUME NEW i \in 1 .. k + l, NEW j \in 1 .. k + l, u[i] = u[j] PROVE i = j
    BY <1>2 DEF IsInjective
  <2>1. CASE i \in 1 .. k /\ j \in 1 .. k
    BY <2>1, <1>1, <1>3 DEF Row, IsInjective
  <2>2. ASSUME NEW a \in 1 .. l, NEW b \in 1 .. l, i = k + a, j = k + b PROVE i = j
    BY <2>2, <1>1, <1>4 DEF Row, IsInjective
  <2>3. \A a \in 1 .. k, b \in 1 .. l : u[a] # u[k + b]
    BY <1>3, <1>4, <1>6, <1>7
  <2> QED
    BY <1>5, <2>1, <2>2, <2>3
<1> QED
  BY <1>2, <1>9, <1>10 DEF u, Row

------------------------------------------------------------------------------
(* The bytes.  Spread is OnePlace of given contents, with the types it needs. *)

Spread(d, m, g) ==
  /\ m \in Nat /\ g \subseteq 1 .. m
  /\ d \in [AllEv -> Seq(Nat)] /\ \A e \in AllEv : Row(d[e])
  /\ \A e, f \in AllEv : e # f => ToSet(d[e]) \cap ToSet(d[f]) = {}
  /\ \A x : (x \in 1 .. m /\ x \notin g) <=> \E e \in AllEv : x \in ToSet(d[e])

LEMMA SpreadIsOnce ==
  ASSUME Spread(data, made, gone)
  PROVE  OnePlace
<1>1. UNION {ToSet(data[e]) : e \in AllEv} = 1 .. made \ gone
  <2>1. \A x : x \in UNION {ToSet(data[e]) : e \in AllEv} <=> \E e \in AllEv : x \in ToSet(data[e])
    OBVIOUS
  <2>2. \A x : x \in 1 .. made \ gone <=> x \in 1 .. made /\ x \notin gone
    OBVIOUS
  <2> QED
    BY <2>1, <2>2 DEF Spread
<1> QED
  BY <1>1 DEF OnePlace, Spread, Row

\* evbuffer_add: the new byte is nowhere yet.
LEMMA AddSpread ==
  ASSUME NEW d, NEW m, NEW g, Spread(d, m, g), NEW e \in AllEv
  PROVE  Spread([d EXCEPT ![e] = Append(@, m + 1)], m + 1, g)
<1> DEFINE t == Append(d[e], m + 1)
           n == [d EXCEPT ![e] = t]
<1>1. m \in Nat /\ m + 1 \in Nat /\ m + 1 \notin 1 .. m /\ \A x : x \in 1 .. m + 1 <=> x \in 1 .. m \/ x = m + 1
  BY DEF Spread
<1>2. m + 1 \notin ToSet(d[e]) /\ m + 1 \notin g
  BY <1>1 DEF Spread
<1>3. Row(t) /\ ToSet(t) = ToSet(d[e]) \cup {m + 1}
  BY <1>1, <1>2, RowAppend DEF Spread
<1> HIDE DEF t
<1>4. n \in [AllEv -> Seq(Nat)] /\ \A f \in AllEv : n[f] = IF f = e THEN t ELSE d[f]
  BY <1>3 DEF Spread, Row
<1> HIDE DEF n
<1>5. \A f \in AllEv : m + 1 \notin ToSet(d[f])
  BY <1>1 DEF Spread
<1>6. \A f, h \in AllEv : f # h => ToSet(n[f]) \cap ToSet(n[h]) = {}
  <2> TAKE f, h \in AllEv
  <2> HAVE f # h
  <2>1. ToSet(d[f]) \cap ToSet(d[h]) = {}
    BY DEF Spread
  <2> QED
    BY <1>3, <1>4, <1>5, <2>1
<1>7. \A x : (x \in 1 .. m + 1 /\ x \notin g) <=> \E f \in AllEv : x \in ToSet(n[f])
  <2> TAKE x
  <2>1. (\E f \in AllEv : x \in ToSet(n[f])) <=> x = m + 1 \/ \E f \in AllEv : x \in ToSet(d[f])
    BY <1>3, <1>4
  <2> QED
    BY <1>1, <1>2, <2>1 DEF Spread
<1>8. g \subseteq 1 .. m + 1 /\ \A f \in AllEv : Row(n[f])
  BY <1>1, <1>3, <1>4 DEF Spread
<1>9. Spread(n, m + 1, g)
  BY <1>1, <1>4, <1>6, <1>7, <1>8 DEF Spread
<1> QED
  BY <1>9 DEF n, t

\* The first k bytes of an evbuffer leave it for good.
LEMMA TakeSpread ==
  ASSUME NEW d, NEW m, NEW g, Spread(d, m, g), NEW e \in AllEv, NEW k \in 0 .. Len(d[e])
  PROVE  Spread([d EXCEPT ![e] = SubSeq(@, k + 1, Len(@))], m, g \cup ToSet(SubSeq(d[e], 1, k)))
<1> DEFINE p == SubSeq(d[e], 1, k)
           q == SubSeq(d[e], k + 1, Len(d[e]))
           n == [d EXCEPT ![e] = q]
           h == g \cup ToSet(p)
<1>1. /\ Row(p) /\ Row(q)
      /\ ToSet(p) \cup ToSet(q) = ToSet(d[e]) /\ ToSet(p) \cap ToSet(q) = {}
  BY RowCut DEF Spread
<1> HIDE DEF p, q
<1>2. n \in [AllEv -> Seq(Nat)] /\ \A f \in AllEv : n[f] = IF f = e THEN q ELSE d[f]
  BY <1>1 DEF Spread, Row
<1> HIDE DEF n
<1>3. \A x : (x \in 1 .. m /\ x \notin h) <=> \E f \in AllEv : x \in ToSet(n[f])
  <2> TAKE x
  <2>1. ASSUME x \in 1 .. m, x \notin h PROVE \E f \in AllEv : x \in ToSet(n[f])
    <3>1. PICK f \in AllEv : x \in ToSet(d[f])
      BY <2>1 DEF Spread
    <3> QED
      BY <1>1, <1>2, <2>1, <3>1
  <2>2. ASSUME NEW f \in AllEv, x \in ToSet(n[f]) PROVE x \in 1 .. m /\ x \notin h
    BY <1>1, <1>2, <2>2 DEF Spread
  <2> QED
    BY <2>1, <2>2
<1>4. h \subseteq 1 .. m
  BY <1>1 DEF Spread
<1> HIDE DEF h
<1>5. Spread(n, m, h)
  BY <1>1, <1>2, <1>3, <1>4 DEF Spread
<1> QED
  BY <1>5 DEF n, q, p, h

\* An evbuffer is freed with what it holds.
LEMMA DropSpread ==
  ASSUME NEW d, NEW m, NEW g, Spread(d, m, g), NEW e \in AllEv
  PROVE  Spread([d EXCEPT ![e] = <<>>], m, g \cup ToSet(d[e]))
<1> DEFINE n == [d EXCEPT ![e] = <<>>]
           h == g \cup ToSet(d[e])
<1>1. Row(<<>>) /\ ToSet(<<>>) = {}
  BY EmptySeq DEF Row, IsInjective, ToSet
<1>2. n \in [AllEv -> Seq(Nat)] /\ \A f \in AllEv : n[f] = IF f = e THEN <<>> ELSE d[f]
  BY <1>1 DEF Spread, Row
<1> HIDE DEF n
<1>3. \A x : (x \in 1 .. m /\ x \notin h) <=> \E f \in AllEv : x \in ToSet(n[f])
  <2> TAKE x
  <2>1. ASSUME x \in 1 .. m, x \notin h PROVE \E f \in AllEv : x \in ToSet(n[f])
    <3>1. PICK f \in AllEv : x \in ToSet(d[f])
      BY <2>1 DEF Spread
    <3> QED
      BY <1>2, <2>1, <3>1
  <2>2. ASSUME NEW f \in AllEv, x \in ToSet(n[f]) PROVE x \in 1 .. m /\ x \notin h
    BY <1>1, <1>2, <2>2 DEF Spread
  <2> QED
    BY <2>1, <2>2
<1>4. h \subseteq 1 .. m
  BY DEF Spread
<1> HIDE DEF h
<1>5. Spread(n, m, h)
  BY <1>1, <1>2, <1>3, <1>4 DEF Spread
<1> QED
  BY <1>5 DEF n, h

\* The first k bytes of f go to the end of e.
LEMMA TransferSpread ==
  ASSUME NEW d, NEW m, NEW g, Spread(d, m, g),
         NEW e \in AllEv, NEW f \in AllEv, e # f, NEW k \in 0 .. Len(d[f])
  PROVE  Spread([d EXCEPT ![e] = @ \o SubSeq(d[f], 1, k),
                          ![f] = SubSeq(@, k + 1, Len(@))], m, g)
<1> DEFINE p == SubSeq(d[f], 1, k)
           q == SubSeq(d[f], k + 1, Len(d[f]))
           t == d[e] \o p
           n == [d EXCEPT ![e] = t, ![f] = q]
<1>1. /\ Row(p) /\ Row(q)
      /\ ToSet(p) \cup ToSet(q) = ToSet(d[f]) /\ ToSet(p) \cap ToSet(q) = {}
  BY RowCut DEF Spread
<1> HIDE DEF p, q
<1>2. Row(t) /\ ToSet(t) = ToSet(d[e]) \cup ToSet(p)
  BY <1>1, RowJoin DEF Spread
<1> HIDE DEF t
<1>3. /\ n \in [AllEv -> Seq(Nat)]
      /\ \A h \in AllEv : n[h] = IF h = e THEN t ELSE IF h = f THEN q ELSE d[h]
  BY <1>1, <1>2 DEF Spread, Row
<1> HIDE DEF n
<1>4. \A h, i \in AllEv : h # i => ToSet(n[h]) \cap ToSet(n[i]) = {}
  <2> TAKE h, i \in AllEv
  <2> HAVE h # i
  <2>1. /\ ToSet(d[h]) \cap ToSet(d[i]) = {}
        /\ h # e => ToSet(d[h]) \cap ToSet(d[e]) = {}
        /\ i # e => ToSet(d[i]) \cap ToSet(d[e]) = {}
        /\ h # f => ToSet(d[h]) \cap ToSet(d[f]) = {}
        /\ i # f => ToSet(d[i]) \cap ToSet(d[f]) = {}
    BY DEF Spread
  <2> QED
    BY <1>1, <1>2, <1>3, <2>1
<1>5. \A x : (\E h \in AllEv : x \in ToSet(n[h])) <=> \E h \in AllEv : x \in ToSet(d[h])
  <2> TAKE x
  <2>1. ASSUME NEW h \in AllEv, x \in ToSet(d[h]) PROVE \E i \in AllEv : x \in ToSet(n[i])
    BY <1>1, <1>2, <1>3, <2>1
  <2>2. ASSUME NEW h \in AllEv, x \in ToSet(n[h]) PROVE \E i \in AllEv : x \in ToSet(d[i])
    BY <1>1, <1>2, <1>3, <2>2
  <2> QED
    BY <2>1, <2>2
<1>6. Spread(n, m, g)
  BY <1>1, <1>2, <1>3, <1>4, <1>5 DEF Spread
<1>7. n = [d EXCEPT ![e] = @ \o SubSeq(d[f], 1, k), ![f] = SubSeq(@, k + 1, Len(@))]
  BY DEF n, t, p, q
<1> QED
  BY <1>6, <1>7

------------------------------------------------------------------------------
(* Order. *)

\* What is behind a byte that stays, stays behind it; so does, of the part that leaves,
\* what is ahead of a byte that leaves.
LEMMA AheadCut ==
  ASSUME NEW s, Row(s), NEW n \in 0 .. Len(s), NEW x, NEW y, Ahead(s, x, y)
  PROVE  LET p == SubSeq(s, 1, n)
             q == SubSeq(s, n + 1, Len(s))
         IN  /\ x \in ToSet(q) => y \in ToSet(q) /\ Ahead(q, x, y)
             /\ y \in ToSet(p) => x \in ToSet(p) /\ Ahead(p, x, y)
<1> DEFINE k == Len(s)
           p == SubSeq(s, 1, n)
           q == SubSeq(s, n + 1, k)
<1>1. k \in Nat /\ n \in 0 .. k /\ DOMAIN s = 1 .. k
  BY LenProperties DEF Row
<1>2. /\ p \in Seq(Nat) /\ DOMAIN p = 1 .. n /\ \A i \in 1 .. n : p[i] = s[i]
      /\ q \in Seq(Nat) /\ DOMAIN q = 1 .. k - n /\ \A i \in 1 .. k - n : q[i] = s[n + i]
  BY CutParts
<1> HIDE DEF k, p, q
<1>3. \A i, j \in 1 .. k : s[i] = s[j] => i = j
  BY <1>1 DEF Row, IsInjective
<1>4. PICK i \in 1 .. k, j \in 1 .. k : i < j /\ s[i] = x /\ s[j] = y
  BY <1>1 DEF Ahead
<1>5. ASSUME x \in ToSet(q) PROVE y \in ToSet(q) /\ Ahead(q, x, y)
  <2>1. PICK a \in 1 .. k - n : q[a] = x
    BY <1>2, <1>5 DEF ToSet
  <2>2. n + a \in 1 .. k /\ s[n + a] = x
    BY <1>1, <1>2, <2>1
  <2>3. n + a = i
    BY <1>3, <1>4, <2>2
  <2>4. j - n \in 1 .. k - n /\ a < j - n /\ n + (j - n) = j
    BY <1>1, <1>4, <2>3
  <2>5. q[j - n] = y
    BY <1>2, <1>4, <2>4
  <2> QED
    BY <1>2, <2>1, <2>4, <2>5 DEF ToSet, Ahead
<1>6. ASSUME y \in ToSet(p) PROVE x \in ToSet(p) /\ Ahead(p, x, y)
  <2>1. PICK b \in 1 .. n : p[b] = y
    BY <1>2, <1>6 DEF ToSet
  <2>2. b \in 1 .. k /\ s[b] = y
    BY <1>1, <1>2, <2>1
  <2>3. b = j
    BY <1>3, <1>4, <2>2
  <2>4. i \in 1 .. n /\ i < b
    BY <1>1, <1>4, <2>3
  <2>5. p[i] = x
    BY <1>2, <1>4, <2>4
  <2> QED
    BY <1>2, <2>1, <2>4, <2>5 DEF ToSet, Ahead
<1> QED
  BY <1>5, <1>6 DEF k, p, q

LEMMA AheadJoin ==
  ASSUME NEW s, NEW t, Row(s), Row(t), NEW x, NEW y,
         Ahead(s, x, y) \/ Ahead(t, x, y) \/ (x \in ToSet(s) /\ y \in ToSet(t))
  PROVE  Ahead(s \o t, x, y)
<1> DEFINE k == Len(s)
           l == Len(t)
           u == s \o t
<1>1. k \in Nat /\ l \in Nat /\ DOMAIN s = 1 .. k /\ DOMAIN t = 1 .. l
  BY LenProperties DEF Row
<1>2. /\ u \in Seq(Nat) /\ DOMAIN u = 1 .. k + l
      /\ \A i \in 1 .. k + l : u[i] = IF i <= k THEN s[i] ELSE t[i - k]
  BY ConcatProperties, LenProperties DEF Row
<1> HIDE DEF k, l, u
<1>3. \A i \in 1 .. k : u[i] = s[i] /\ i \in 1 .. k + l
  BY <1>1, <1>2
<1>4. \A i \in 1 .. l : u[k + i] = t[i] /\ k + i \in 1 .. k + l
  <2> TAKE i \in 1 .. l
  <2>1. k + i \in 1 .. k + l /\ ~(k + i <= k) /\ (k + i) - k = i
    BY <1>1
  <2> QED
    BY <1>2, <2>1
<1>5. ASSUME Ahead(s, x, y) PROVE Ahead(u, x, y)
  BY <1>1, <1>2, <1>3, <1>5 DEF Ahead
<1>6. ASSUME Ahead(t, x, y) PROVE Ahead(u, x, y)
  <2>1. PICK i \in 1 .. l, j \in 1 .. l : i < j /\ t[i] = x /\ t[j] = y
    BY <1>1, <1>6 DEF Ahead
  <2>2. k + i < k + j
    BY <1>1, <2>1
  <2> QED
    BY <1>2, <1>4, <2>1, <2>2 DEF Ahead
<1>7. ASSUME x \in ToSet(s), y \in ToSet(t) PROVE Ahead(u, x, y)
  <2>1. PICK i \in 1 .. k, j \in 1 .. l : s[i] = x /\ t[j] = y
    BY <1>1, <1>7 DEF ToSet
  <2>2. i < k + j
    BY <1>1
  <2> QED
    BY <1>2, <1>3, <1>4, <2>1, <2>2 DEF Ahead
<1> QED
  BY <1>5, <1>6, <1>7 DEF u

LEMMA AheadAppend ==
  ASSUME NEW s, Row(s), NEW n \in Nat, NEW x, NEW y,
         Ahead(s, x, y) \/ (x \in ToSet(s) /\ y = n)
  PROVE  Ahead(Append(s, n), x, y)
<1> DEFINE k == Len(s)
           t == Append(s, n)
<1>1. k \in Nat /\ DOMAIN s = 1 .. k
  BY LenProperties DEF Row
<1>2. DOMAIN t = 1 .. k + 1 /\ t[k + 1] = n /\ \A i \in 1 .. k : t[i] = s[i]
  BY AppendProperties, LenProperties DEF Row
<1> HIDE DEF k, t
<1>3. k + 1 \in 1 .. k + 1 /\ \A i \in 1 .. k : i \in 1 .. k + 1 /\ i < k + 1
  BY <1>1
<1>4. Ahead(t, x, y)
  BY <1>1, <1>2, <1>3 DEF Ahead, ToSet
<1> QED
  BY <1>4 DEF t

\* NoOvertaking of given contents: those before the step and those after it.
InLine(d, n) ==
  \A e, f \in AllEv :
    /\ \A x, y \in ToSet(d[f]) :
         Ahead(d[f], x, y) =>
           /\ f = e /\ x \in ToSet(n[e]) => y \in ToSet(n[e])
           /\ {x, y} \subseteq ToSet(n[e]) => Ahead(n[e], x, y)
    /\ \A x \in ToSet(d[e]) \cap ToSet(n[e]), y \in ToSet(n[e]) \ ToSet(d[e]) :
         Ahead(n[e], x, y)

\* Contents that stay, or lose a beginning, are in line.
LEMMA FromFrontInLine ==
  ASSUME NEW d, NEW m, NEW g, Spread(d, m, g), NEW n,
         \A e \in AllEv : \/ n[e] = d[e]
                          \/ ToSet(n[e]) = {}
                          \/ \E k \in 0 .. Len(d[e]) : n[e] = SubSeq(d[e], k + 1, Len(d[e]))
  PROVE  InLine(d, n)
<1>1. \A e \in AllEv : Row(d[e])
  BY DEF Spread
<1>2. \A e \in AllEv : ToSet(n[e]) \subseteq ToSet(d[e])
  <2> SUFFICES ASSUME NEW e \in AllEv, NEW k \in 0 .. Len(d[e]),
                      n[e] = SubSeq(d[e], k + 1, Len(d[e]))
               PROVE  ToSet(n[e]) \subseteq ToSet(d[e])
    OBVIOUS
  <2>1. ToSet(SubSeq(d[e], k + 1, Len(d[e]))) \subseteq ToSet(d[e])
    BY <1>1, RowCut
  <2> QED
    BY <2>1
<1>3. ASSUME NEW e \in AllEv, NEW x, NEW y, Ahead(d[e], x, y), x \in ToSet(n[e]),
             y \in ToSet(d[e])
      PROVE  y \in ToSet(n[e]) /\ Ahead(n[e], x, y)
  BY <1>1, <1>3, AheadCut
<1>4. \A e, f \in AllEv : \A x \in ToSet(d[f]) : x \in ToSet(n[e]) => e = f
  BY <1>2 DEF Spread
<1> QED
  BY <1>2, <1>3, <1>4 DEF InLine

LEMMA AddInLine ==
  ASSUME NEW d, NEW m, NEW g, Spread(d, m, g), NEW e \in AllEv
  PROVE  InLine(d, [d EXCEPT ![e] = Append(@, m + 1)])
<1> DEFINE t == Append(d[e], m + 1)
           n == [d EXCEPT ![e] = t]
<1>1. m \in Nat /\ m + 1 \in Nat /\ m + 1 \notin 1 .. m
  BY DEF Spread
<1>2. \A f \in AllEv : Row(d[f]) /\ m + 1 \notin ToSet(d[f])
  BY <1>1 DEF Spread
<1>3. ToSet(t) = ToSet(d[e]) \cup {m + 1}
  BY <1>1, <1>2, RowAppend
<1>4. \A x, y : Ahead(d[e], x, y) \/ (x \in ToSet(d[e]) /\ y = m + 1) => Ahead(t, x, y)
  BY <1>1, <1>2, AheadAppend
<1> HIDE DEF t
<1>5. \A f \in AllEv : n[f] = IF f = e THEN t ELSE d[f]
  BY DEF Spread
<1> HIDE DEF n
<1>6. \A f, h \in AllEv : \A x \in ToSet(d[f]) : x \in ToSet(n[h]) => f = h
  <2>1. \A f, h \in AllEv : f # h => ToSet(d[f]) \cap ToSet(d[h]) = {}
    BY DEF Spread
  <2>2. \A h \in AllEv : ToSet(n[h]) \subseteq ToSet(d[h]) \cup {m + 1}
    BY <1>3, <1>5
  <2> QED
    BY <1>2, <2>1, <2>2
<1>7. InLine(d, n)
  BY <1>2, <1>3, <1>4, <1>5, <1>6 DEF InLine
<1> QED
  BY <1>7 DEF n, t

LEMMA TransferInLine ==
  ASSUME NEW d, NEW m, NEW g, Spread(d, m, g),
         NEW e \in AllEv, NEW f \in AllEv, e # f, NEW k \in 0 .. Len(d[f])
  PROVE  InLine(d, [d EXCEPT ![e] = @ \o SubSeq(d[f], 1, k),
                             ![f] = SubSeq(@, k + 1, Len(@))])
<1> DEFINE p == SubSeq(d[f], 1, k)
           q == SubSeq(d[f], k + 1, Len(d[f]))
           t == d[e] \o p
           n == [d EXCEPT ![e] = t, ![f] = q]
<1>1. Row(d[e]) /\ Row(d[f]) /\ ToSet(d[e]) \cap ToSet(d[f]) = {}
  BY DEF Spread
<1>2. /\ Row(p) /\ Row(q)
      /\ ToSet(p) \cup ToSet(q) = ToSet(d[f]) /\ ToSet(p) \cap ToSet(q) = {}
  BY <1>1, RowCut
<1>3. \A x, y : Ahead(d[f], x, y) =>
        /\ x \in ToSet(q) => y \in ToSet(q) /\ Ahead(q, x, y)
        /\ y \in ToSet(p) => Ahead(p, x, y)
  BY <1>1, AheadCut
<1> HIDE DEF p, q
<1>4. ToSet(t) = ToSet(d[e]) \cup ToSet(p)
  <2>1. ToSet(d[e]) \cap ToSet(p) = {}
    BY <1>1, <1>2
  <2> QED
    BY <1>1, <1>2, <2>1, RowJoin
<1>5. \A x, y : Ahead(d[e], x, y) \/ Ahead(p, x, y) \/ (x \in ToSet(d[e]) /\ y \in ToSet(p))
               => Ahead(t, x, y)
  BY <1>1, <1>2, AheadJoin
<1> HIDE DEF t
<1>6. \A h \in AllEv : n[h] = IF h = e THEN t ELSE IF h = f THEN q ELSE d[h]
  BY DEF Spread
<1>7. n = [d EXCEPT ![e] = @ \o SubSeq(d[f], 1, k), ![f] = SubSeq(@, k + 1, Len(@))]
  BY DEF n, t, p, q
<1> HIDE DEF n
<1>8. \A h, i \in AllEv : h # i => ToSet(d[h]) \cap ToSet(d[i]) = {}
  BY DEF Spread
<1>9. ASSUME NEW h \in AllEv, NEW i \in AllEv, NEW x \in ToSet(d[i]), NEW y \in ToSet(d[i]),
             Ahead(d[i], x, y)
      PROVE  /\ i = h /\ x \in ToSet(n[h]) => y \in ToSet(n[h])
             /\ {x, y} \subseteq ToSet(n[h]) => Ahead(n[h], x, y)
  <2>1. CASE h = e
    <3>1. CASE i = e
      BY <1>4, <1>5, <1>6, <1>9, <2>1, <3>1
    <3>2. CASE i = f
      BY <1>1, <1>3, <1>4, <1>5, <1>6, <1>9, <2>1, <3>2
    <3>3. CASE i # e /\ i # f
      BY <1>2, <1>4, <1>6, <1>8, <2>1, <3>3
    <3> QED
      BY <3>1, <3>2, <3>3
  <2>2. CASE h = f
    BY <1>2, <1>3, <1>6, <1>8, <1>9, <2>2
  <2>3. CASE h # e /\ h # f
    BY <1>6, <1>8, <1>9, <2>3
  <2> QED
    BY <2>1, <2>2, <2>3
<1>10. ASSUME NEW h \in AllEv, NEW x \in ToSet(d[h]) \cap ToSet(n[h]),
              NEW y \in ToSet(n[h]) \ ToSet(d[h])
       PROVE  Ahead(n[h], x, y)
  BY <1>2, <1>4, <1>5, <1>6
<1>11. InLine(d, n)
  BY <1>9, <1>10 DEF InLine
<1> QED
  BY <1>7, <1>11

------------------------------------------------------------------------------
(* The objects. *)

Holds(b, e) == m_buf[b] = e /\ m_flag[b]

Types ==
  /\ alive \subseteq Buf /\ live \subseteq AllEv
  /\ m_buf \in [Buf -> AllEv \cup {NULL}] /\ m_flag \in [Buf -> BOOLEAN]

\* Who frees is constructed and holds an evbuffer of a buffer, not that of a connection.
OwnersAlive == \A b \in Buf, e \in AllEv : Holds(b, e) => b \in alive /\ e \in Ev \cap live
OneOwner == \A e \in AllEv : \A b, c \in Buf : Holds(b, e) /\ Holds(c, e) => b = c
NoOrphan == \A e \in Ev \cap live : \E b \in Buf : Holds(b, e)

\* The inductive invariant.  OwnedOnce alone counts the owners and does not say that
\* nobody holds the evbuffer of a connection, which is what keeps FreedRightly.
IInv ==
  /\ Types /\ OwnersAlive /\ OneOwner /\ NoOrphan
  /\ Spread(data, made, gone)
  /\ bad = FALSE

LEMMA OwnersCounted ==
  ASSUME Types, OwnersAlive, OneOwner, NoOrphan
  PROVE  OwnedOnce
<1> SUFFICES ASSUME NEW e \in Ev PROVE Cardinality(Owners(e)) = IF e \in live THEN 1 ELSE 0
  BY DEF OwnedOnce
<1>1. e \in AllEv
  BY DEF AllEv
<1>2. CASE e \in live
  <2>1. PICK b \in Buf : Holds(b, e)
    BY <1>2 DEF NoOrphan
  <2>2. Owners(e) = {b}
    BY <1>1, <2>1 DEF Owners, Holds, OneOwner, OwnersAlive, Types
  <2> QED
    BY <1>2, <2>2, FS_Singleton
<1>3. CASE e \notin live
  <2>1. Owners(e) = {}
    BY <1>1, <1>3 DEF Owners, Holds, OwnersAlive, Types
  <2> QED
    BY <1>3, <2>1, FS_EmptySet
<1> QED
  BY <1>2, <1>3

LEMMA IInvImplies ==
  ASSUME IInv
  PROVE  OwnedOnce /\ FreedRightly /\ OnePlace
BY OwnersCounted, SpreadIsOnce DEF IInv, FreedRightly

\* Only an owner frees, and what it frees is there and belongs to a buffer.
LEMMA FreeIsRight ==
  ASSUME IInv, NEW b \in Buf, Free(m_buf[b], m_flag[b])
  PROVE  /\ bad' = FALSE /\ live' \subseteq live
         /\ \A e \in AllEv : e \in live' <=> e \in live /\ ~Holds(b, e)
         /\ Spread(data', made, gone')
<1>1. CASE \E e \in AllEv : Holds(b, e)
  <2>1. PICK e \in AllEv : Holds(b, e)
    BY <1>1
  <2>2. e \in Ev \cap live /\ e # NULL /\ e # ConnEv
    BY <2>1, BufferAssumption DEF IInv, OwnersAlive
  <2>3. /\ bad' = (bad \/ e \notin live \/ e = ConnEv) /\ live' = live \ {e}
        /\ data' = [data EXCEPT ![e] = <<>>] /\ gone' = gone \cup ToSet(data[e])
    BY <2>1, <2>2 DEF Free, Holds
  <2>4. Spread(data', made, gone')
    BY <2>3, DropSpread DEF IInv
  <2> QED
    BY <2>1, <2>2, <2>3, <2>4 DEF IInv, Holds
<1>2. CASE \A e \in AllEv : ~Holds(b, e)
  <2>1. m_buf[b] = NULL \/ ~m_flag[b]
    BY <1>2 DEF IInv, Types, Holds
  <2>2. UNCHANGED <<bad, live, data, gone>>
    BY <2>1 DEF Free
  <2> QED
    BY <1>2, <2>2 DEF IInv
<1> QED
  BY <1>1, <1>2

LEMMA InitIInv == Init => IInv
<1> SUFFICES ASSUME Init PROVE IInv
  OBVIOUS
<1>1. Row(<<>>) /\ ToSet(<<>>) = {}
  BY EmptySeq DEF Row, IsInjective, ToSet
<1>2. Types /\ OwnersAlive /\ OneOwner /\ NoOrphan
  BY BufferAssumption DEF Init, Types, OwnersAlive, OneOwner, NoOrphan, Holds, AllEv
<1>3. data \in [AllEv -> Seq(Nat)] /\ \A e \in AllEv : data[e] = <<>>
  BY <1>1 DEF Init, Row
<1>4. Spread(data, made, gone)
  BY <1>1, <1>3 DEF Init, Spread
<1> QED
  BY <1>2, <1>4 DEF Init, IInv

------------------------------------------------------------------------------
(* One lemma per action that changes an object. *)

LEMMA DefaultIInv ==
  ASSUME IInv, NEW b \in Buf, NEW e \in Ev, Default(b, e)
  PROVE  IInv'
<1>1. /\ b \notin alive /\ e \in AllEv /\ e \notin live
      /\ alive' = alive \cup {b} /\ live' = live \cup {e}
      /\ data' = data /\ made' = made /\ gone' = gone /\ bad' = bad
  BY DEF Default, Fresh, AllEv, bytes
<1>2. /\ m_buf' \in [Buf -> AllEv \cup {NULL}] /\ m_flag' \in [Buf -> BOOLEAN]
      /\ \A c \in Buf : /\ m_buf'[c] = IF c = b THEN e ELSE m_buf[c]
                        /\ m_flag'[c] = IF c = b THEN TRUE ELSE m_flag[c]
  BY <1>1 DEF Default, IInv, Types
<1>3. \A c \in Buf, f \in AllEv : Holds(c, f)' <=> IF c = b THEN f = e ELSE Holds(c, f)
  BY <1>2 DEF Holds
<1>4. Types'
  BY <1>1, <1>2 DEF IInv, Types
<1>5. OwnersAlive' /\ OneOwner'
  BY <1>1, <1>3 DEF IInv, OwnersAlive, OneOwner
<1>6. NoOrphan'
  BY <1>1, <1>3 DEF IInv, OwnersAlive, NoOrphan, AllEv
<1> QED
  BY <1>1, <1>4, <1>5, <1>6 DEF IInv

\* A view, and a copy, hold nothing.
LEMMA LookIInv ==
  ASSUME IInv, NEW b \in Buf, NEW e \in AllEv \cup {NULL}, Fresh(b),
         alive' = alive \cup {b},
         m_buf' = [m_buf EXCEPT ![b] = e], m_flag' = [m_flag EXCEPT ![b] = FALSE],
         UNCHANGED <<live, bytes, bad>>
  PROVE  IInv'
<1>1. /\ b \notin alive /\ live' = live
      /\ data' = data /\ made' = made /\ gone' = gone /\ bad' = bad
  BY DEF Fresh, bytes
<1>2. /\ m_buf' \in [Buf -> AllEv \cup {NULL}] /\ m_flag' \in [Buf -> BOOLEAN]
      /\ \A c \in Buf : /\ m_buf'[c] = IF c = b THEN e ELSE m_buf[c]
                        /\ m_flag'[c] = IF c = b THEN FALSE ELSE m_flag[c]
  BY DEF IInv, Types
<1>3. \A c \in Buf, f \in AllEv : Holds(c, f)' <=> Holds(c, f)
  BY <1>1, <1>2 DEF Holds, IInv, OwnersAlive
<1>4. Types'
  BY <1>1, <1>2 DEF IInv, Types
<1>5. OwnersAlive' /\ OneOwner' /\ NoOrphan'
  BY <1>1, <1>3 DEF IInv, OwnersAlive, OneOwner, NoOrphan, AllEv
<1> QED
  BY <1>1, <1>4, <1>5 DEF IInv

LEMMA MoveConstructIInv ==
  ASSUME IInv, NEW b \in Buf, NEW r \in Buf, MoveConstruct(b, r)
  PROVE  IInv'
<1>1. /\ b \notin alive /\ r \in alive /\ b # r /\ live' = live /\ alive' = alive \cup {b}
      /\ data' = data /\ made' = made /\ gone' = gone /\ bad' = bad
  BY DEF MoveConstruct, Fresh, Used, bytes
<1>2. /\ m_buf' \in [Buf -> AllEv \cup {NULL}] /\ m_flag' \in [Buf -> BOOLEAN]
      /\ \A c \in Buf : /\ m_buf'[c] = IF c = b THEN m_buf[r] ELSE IF c = r THEN NULL ELSE m_buf[c]
                        /\ m_flag'[c] = IF c = b THEN m_flag[r] ELSE m_flag[c]
  BY <1>1 DEF MoveConstruct, IInv, Types
<1>3. \A c \in Buf, f \in AllEv :
        Holds(c, f)' <=> IF c = b THEN Holds(r, f) ELSE IF c = r THEN FALSE ELSE Holds(c, f)
  BY <1>1, <1>2, BufferAssumption DEF Holds
<1>4. Types'
  BY <1>1, <1>2 DEF IInv, Types
<1>5. OwnersAlive'
  BY <1>1, <1>3 DEF IInv, OwnersAlive
<1>6. OneOwner'
  BY <1>1, <1>3 DEF IInv, OneOwner
<1>7. NoOrphan'
  <2> SUFFICES ASSUME NEW e \in Ev \cap live PROVE \E c \in Buf : Holds(c, e)'
    BY <1>1 DEF NoOrphan
  <2>1. PICK c \in Buf : Holds(c, e)
    BY DEF IInv, NoOrphan
  <2>2. c # b
    BY <1>1, <2>1 DEF IInv, OwnersAlive, AllEv
  <2> QED
    BY <1>1, <1>3, <2>1, <2>2 DEF AllEv
<1> QED
  BY <1>1, <1>4, <1>5, <1>6, <1>7 DEF IInv

LEMMA SwapIInv ==
  ASSUME IInv, NEW b \in Buf, NEW c \in Buf, Swap(b, c)
  PROVE  IInv'
<1> DEFINE Other(a) == IF a = b THEN c ELSE IF a = c THEN b ELSE a
<1>1. /\ b \in alive /\ c \in alive /\ live' = live /\ alive' = alive
      /\ data' = data /\ made' = made /\ gone' = gone /\ bad' = bad
  BY DEF Swap, Used, bytes
<1>2. /\ m_buf' \in [Buf -> AllEv \cup {NULL}] /\ m_flag' \in [Buf -> BOOLEAN]
      /\ \A a \in Buf : m_buf'[a] = m_buf[Other(a)] /\ m_flag'[a] = m_flag[Other(a)]
  BY DEF Swap, IInv, Types
<1>3. \A a \in Buf : Other(a) \in Buf /\ Other(Other(a)) = a /\ (Other(a) \in alive => a \in alive)
  BY <1>1
<1> HIDE DEF Other
<1>4. \A a \in Buf, f \in AllEv : Holds(a, f)' <=> Holds(Other(a), f)
  BY <1>2 DEF Holds
<1>5. Types'
  BY <1>1, <1>2 DEF IInv, Types
<1>6. OwnersAlive'
  BY <1>1, <1>3, <1>4 DEF IInv, OwnersAlive
<1>7. OneOwner'
  <2> SUFFICES ASSUME NEW f \in AllEv, NEW x \in Buf, NEW y \in Buf, Holds(x, f)', Holds(y, f)'
               PROVE  x = y
    BY DEF OneOwner
  <2>1. Other(x) = Other(y)
    BY <1>3, <1>4 DEF IInv, OneOwner
  <2> QED
    BY <1>3, <2>1
<1>8. NoOrphan'
  <2> SUFFICES ASSUME NEW e \in Ev \cap live PROVE \E a \in Buf : Holds(a, e)'
    BY <1>1 DEF NoOrphan
  <2>1. PICK a \in Buf : Holds(a, e)
    BY DEF IInv, NoOrphan
  <2> QED
    BY <1>3, <1>4, <2>1 DEF AllEv
<1> QED
  BY <1>1, <1>5, <1>6, <1>7, <1>8 DEF IInv

LEMMA MoveAssignIInv ==
  ASSUME IInv, NEW b \in Buf, NEW r \in Buf, MoveAssign(b, r)
  PROVE  IInv'
<1>1. /\ b \in alive /\ r \in alive /\ b # r /\ alive' = alive /\ made' = made
  BY DEF MoveAssign, Used
<1>2. /\ m_buf' \in [Buf -> AllEv \cup {NULL}] /\ m_flag' \in [Buf -> BOOLEAN]
      /\ \A c \in Buf : /\ m_buf'[c] = IF c = b THEN m_buf[r] ELSE IF c = r THEN NULL ELSE m_buf[c]
                        /\ m_flag'[c] = IF c = b THEN m_flag[r] ELSE m_flag[c]
  BY <1>1 DEF MoveAssign, IInv, Types
<1>3. \A c \in Buf, f \in AllEv :
        Holds(c, f)' <=> IF c = b THEN Holds(r, f) ELSE IF c = r THEN FALSE ELSE Holds(c, f)
  BY <1>1, <1>2, BufferAssumption DEF Holds
<1>4. /\ bad' = FALSE /\ live' \subseteq live /\ Spread(data', made, gone')
      /\ \A e \in AllEv : e \in live' <=> e \in live /\ ~Holds(b, e)
  BY FreeIsRight DEF MoveAssign
<1>5. Types'
  BY <1>1, <1>2, <1>4 DEF IInv, Types
<1>6. OneOwner'
  BY <1>1, <1>3 DEF IInv, OneOwner
<1>7. OwnersAlive'
  <2> SUFFICES ASSUME NEW c \in Buf, NEW f \in AllEv, Holds(c, f)' PROVE c \in alive /\ f \in Ev \cap live'
    BY <1>1 DEF OwnersAlive
  <2>1. \E a \in Buf : Holds(a, f) /\ a # b
    BY <1>1, <1>3
  <2>2. ~Holds(b, f)
    BY <2>1 DEF IInv, OneOwner
  <2>3. f \in Ev \cap live
    BY <2>1 DEF IInv, OwnersAlive
  <2>4. c \in alive
    BY <1>1, <1>3 DEF IInv, OwnersAlive
  <2> QED
    BY <1>4, <2>2, <2>3, <2>4
<1>8. NoOrphan'
  <2> SUFFICES ASSUME NEW e \in Ev \cap live' PROVE \E c \in Buf : Holds(c, e)'
    BY DEF NoOrphan
  <2>1. e \in AllEv /\ e \in live /\ ~Holds(b, e)
    BY <1>4 DEF AllEv
  <2>2. PICK c \in Buf : Holds(c, e)
    BY <2>1 DEF IInv, NoOrphan
  <2> QED
    BY <1>3, <2>1, <2>2
<1> QED
  BY <1>1, <1>4, <1>5, <1>6, <1>7, <1>8 DEF IInv

LEMMA DestructIInv ==
  ASSUME IInv, NEW b \in Buf, Destruct(b)
  PROVE  IInv'
<1>1. b \in alive /\ alive' = alive \ {b} /\ made' = made
  BY DEF Destruct, Used
<1>2. /\ m_buf' \in [Buf -> AllEv \cup {NULL}] /\ m_flag' \in [Buf -> BOOLEAN]
      /\ \A c \in Buf : /\ m_buf'[c] = IF c = b THEN NULL ELSE m_buf[c]
                        /\ m_flag'[c] = IF c = b THEN FALSE ELSE m_flag[c]
  BY DEF Destruct, IInv, Types
<1>3. \A c \in Buf, f \in AllEv : Holds(c, f)' <=> c # b /\ Holds(c, f)
  BY <1>2 DEF Holds
<1>4. /\ bad' = FALSE /\ live' \subseteq live /\ Spread(data', made, gone')
      /\ \A e \in AllEv : e \in live' <=> e \in live /\ ~Holds(b, e)
  BY FreeIsRight DEF Destruct
<1>5. Types'
  BY <1>1, <1>2, <1>4 DEF IInv, Types
<1>6. OneOwner'
  BY <1>3 DEF IInv, OneOwner
<1>7. OwnersAlive'
  <2> SUFFICES ASSUME NEW c \in Buf, NEW f \in AllEv, Holds(c, f)' PROVE c \in alive' /\ f \in Ev \cap live'
    BY DEF OwnersAlive
  <2>1. c # b /\ Holds(c, f)
    BY <1>3
  <2>2. ~Holds(b, f) /\ c \in alive /\ f \in Ev \cap live
    BY <2>1 DEF IInv, OneOwner, OwnersAlive
  <2> QED
    BY <1>1, <1>4, <2>1, <2>2
<1>8. NoOrphan'
  <2> SUFFICES ASSUME NEW e \in Ev \cap live' PROVE \E c \in Buf : Holds(c, e)'
    BY DEF NoOrphan
  <2>1. e \in AllEv /\ e \in live /\ ~Holds(b, e)
    BY <1>4 DEF AllEv
  <2>2. PICK c \in Buf : Holds(c, e)
    BY <2>1 DEF IInv, NoOrphan
  <2> QED
    BY <1>3, <2>1, <2>2
<1> QED
  BY <1>1, <1>4, <1>5, <1>6, <1>7, <1>8 DEF IInv

------------------------------------------------------------------------------
(* The actions that move bytes leave the objects alone. *)

LEMMA SameHolders ==
  ASSUME IInv, UNCHANGED holders, Spread(data', made', gone')
  PROVE  IInv'
<1>1. alive' = alive /\ m_buf' = m_buf /\ m_flag' = m_flag /\ live' = live /\ bad' = bad
  BY DEF holders
<1>2. \A b \in Buf, e \in AllEv : Holds(b, e)' <=> Holds(b, e)
  BY <1>1 DEF Holds
<1>3. Types' /\ OwnersAlive' /\ OneOwner'
  BY <1>1, <1>2 DEF IInv, Types, OwnersAlive, OneOwner
<1>4. NoOrphan'
  BY <1>1, <1>2 DEF IInv, NoOrphan, AllEv
<1> QED
  BY <1>1, <1>3, <1>4 DEF IInv

LEMMA AddIInv ==
  ASSUME IInv, NEW e \in AllEv, Add(e)
  PROVE  IInv'
<1>1. /\ UNCHANGED holders /\ made' = made + 1 /\ gone' = gone
      /\ data' = [data EXCEPT ![e] = Append(@, made + 1)]
  BY DEF Add
<1>2. Spread(data', made', gone')
  BY <1>1, AddSpread DEF IInv
<1> QED
  BY <1>1, <1>2, SameHolders

LEMMA TakeIInv ==
  ASSUME IInv, NEW e \in AllEv, NEW n \in 0 .. Len(data[e]), Take(e, n)
  PROVE  IInv'
<1>1. /\ UNCHANGED holders /\ made' = made
      /\ data' = [data EXCEPT ![e] = SubSeq(@, n + 1, Len(@))]
      /\ gone' = gone \cup ToSet(SubSeq(data[e], 1, n))
  BY DEF Take
<1>2. Spread(data', made', gone')
  BY <1>1, TakeSpread DEF IInv
<1> QED
  BY <1>1, <1>2, SameHolders

LEMMA TransferIInv ==
  ASSUME IInv, NEW e \in AllEv, NEW f \in AllEv, NEW n \in 0 .. Len(data[f]),
         Transfer(e, f, n), UNCHANGED <<holders, made, gone>>
  PROVE  IInv'
<1>1. UNCHANGED holders /\ made' = made /\ gone' = gone
  OBVIOUS
<1>2. Spread(data', made', gone')
  <2>1. CASE e = f
    BY <1>1, <2>1 DEF Transfer, IInv
  <2>2. CASE e # f
    <3>1. Spread([data EXCEPT ![e] = @ \o SubSeq(data[f], 1, n),
                              ![f] = SubSeq(@, n + 1, Len(@))], made, gone)
      BY <2>2, TransferSpread DEF IInv
    <3> QED
      BY <1>1, <2>2, <3>1 DEF Transfer
  <2> QED
    BY <2>1, <2>2
<1> QED
  BY <1>1, <1>2, SameHolders

LEMMA CloseConnectionIInv ==
  ASSUME IInv, CloseConnection
  PROVE  IInv'
<1>1. /\ alive' = alive /\ m_buf' = m_buf /\ m_flag' = m_flag /\ bad' = bad /\ made' = made
      /\ live' = live \ {ConnEv} /\ ConnEv \in AllEv /\ ConnEv \notin Ev
      /\ data' = [data EXCEPT ![ConnEv] = <<>>] /\ gone' = gone \cup ToSet(data[ConnEv])
  BY BufferAssumption DEF CloseConnection, objs, AllEv
<1>2. \A b \in Buf, e \in AllEv : Holds(b, e)' <=> Holds(b, e)
  BY <1>1 DEF Holds
<1>3. Types' /\ OneOwner'
  BY <1>1, <1>2 DEF IInv, Types, OneOwner
<1>4. OwnersAlive'
  BY <1>1, <1>2 DEF IInv, OwnersAlive
<1>5. NoOrphan'
  BY <1>1, <1>2 DEF IInv, NoOrphan, AllEv
<1>6. Spread(data', made', gone')
  BY <1>1, DropSpread DEF IInv
<1> QED
  BY <1>1, <1>3, <1>4, <1>5, <1>6 DEF IInv

LEMMA RowLen ==
  ASSUME IInv, NEW e \in AllEv
  PROVE  Len(data[e]) \in Nat /\ DOMAIN data[e] = 1 .. Len(data[e])
BY LenProperties DEF IInv, Spread

\* Both calls that give bytes to the program take a beginning of the evbuffer.
LEMMA RemoveBytesTakes ==
  ASSUME IInv, NEW b \in Buf, NEW n \in 1 .. MaxByte, RemoveBytes(b, n)
  PROVE  \E e \in AllEv : \E k \in 0 .. Len(data[e]) : Take(e, k)
<1> DEFINE e == m_buf[b]
           l == Len(data[e])
           k == Min({n, l})
<1>1. e \in AllEv /\ l \in Nat /\ n \in Nat
  BY RowLen DEF RemoveBytes, Usable, IInv, Types
<1>2. Take(e, k)
  BY DEF RemoveBytes
<1>3. k \in 0 .. l
  <2> HIDE DEF e, l
  <2>1. \A x \in {n, l} : (\A y \in {n, l} : x =< y) => x \in 0 .. l
    BY <1>1
  <2>2. \E x \in {n, l} : \A y \in {n, l} : x =< y
    BY <1>1
  <2> QED
    BY <2>1, <2>2 DEF Min
<1> HIDE DEF k
<1> QED
  BY <1>1, <1>2, <1>3

LEMMA ReadlnTakes ==
  ASSUME IInv, NEW b \in Buf, Readln(b)
  PROVE  \E e \in AllEv : \E k \in 0 .. Len(data[e]) : Take(e, k)
<1> DEFINE e == m_buf[b]
           s == data[e]
           ends == {n \in DOMAIN s : s[n] \in Newline}
           k == IF ends = {} THEN 0 ELSE Min(ends)
<1>1. e \in AllEv
  BY DEF Readln, Usable, IInv, Types
<1>2. Len(s) \in Nat /\ DOMAIN s = 1 .. Len(s)
  BY <1>1, RowLen
<1>3. Take(e, k)
  BY DEF Readln
<1>4. k \in 0 .. Len(s)
  <2>1. ends \in SUBSET Nat /\ ends \subseteq 1 .. Len(s)
    BY <1>2
  <2> HIDE DEF ends, s
  <2>2. ends # {} => Min(ends) \in 1 .. Len(s)
    BY <2>1, MinNat
  <2> QED
    BY <1>2, <2>2
<1> HIDE DEF k
<1> QED
  BY <1>1, <1>3, <1>4

LEMMA NextIInv == IInv /\ [Next]_vars => IInv'
<1> SUFFICES ASSUME IInv, [Next]_vars PROVE IInv'
  OBVIOUS
<1>1. ASSUME NEW b \in Buf, NEW e \in Ev, Default(b, e) PROVE IInv'
  BY <1>1, DefaultIInv
<1>2. ASSUME NEW b \in Buf, View(b) PROVE IInv'
  BY <1>2, LookIInv DEF View, AllEv
<1>3. ASSUME NEW b \in Buf, Destruct(b) PROVE IInv'
  BY <1>3, DestructIInv
<1>4. ASSUME NEW b \in Buf, AppendBytes(b) \/ Printf(b) PROVE IInv'
  <2>1. m_buf[b] \in AllEv /\ Add(m_buf[b])
    BY <1>4 DEF AppendBytes, Printf, Usable, IInv, Types
  <2> QED
    BY <2>1, AddIInv
<1>5. ASSUME NEW b \in Buf, Readln(b) PROVE IInv'
  BY <1>5, ReadlnTakes, TakeIInv
<1>6. ASSUME NEW b \in Buf, NEW n \in 1 .. MaxByte, RemoveBytes(b, n) PROVE IInv'
  BY <1>6, RemoveBytesTakes, TakeIInv
<1>7. ASSUME NEW b \in Buf, NEW c \in Buf, CopyConstruct(b, c) PROVE IInv'
  <2>1. m_buf[c] \in AllEv \cup {NULL}
    BY DEF IInv, Types
  <2> QED
    BY <1>7, <2>1, LookIInv DEF CopyConstruct, CopyFlag
<1>8. ASSUME NEW b \in Buf, NEW c \in Buf, MoveConstruct(b, c) PROVE IInv'
  BY <1>8, MoveConstructIInv
<1>9. ASSUME NEW b \in Buf, NEW c \in Buf, Swap(b, c) PROVE IInv'
  BY <1>9, SwapIInv
<1>10. ASSUME NEW b \in Buf, NEW c \in Buf, MoveAssign(b, c) PROVE IInv'
  BY <1>10, MoveAssignIInv
<1>11. ASSUME NEW b \in Buf, NEW c \in Buf, AppendBuffer(b, c) PROVE IInv'
  <2>1. m_buf[b] \in AllEv /\ m_buf[c] \in AllEv
    BY <1>11 DEF AppendBuffer, Usable, IInv, Types
  <2>2. Len(data[m_buf[c]]) \in 0 .. Len(data[m_buf[c]])
    BY <2>1, RowLen
  <2> QED
    BY <1>11, <2>1, <2>2, TransferIInv DEF AppendBuffer
<1>12. ASSUME NEW b \in Buf, NEW c \in Buf, NEW n \in 1 .. MaxByte, RemoveToBuffer(b, c, n) PROVE IInv'
  <2>1. m_buf[b] \in AllEv /\ m_buf[c] \in AllEv
    BY <1>12 DEF RemoveToBuffer, Usable, IInv, Types
  <2>2. n \in 0 .. Len(data[m_buf[b]])
    BY <1>12, <2>1, RowLen DEF RemoveToBuffer
  <2> QED
    BY <1>12, <2>1, <2>2, TransferIInv DEF RemoveToBuffer
<1>13. CASE Arrive
  BY <1>13, AddIInv DEF Arrive, AllEv
<1>14. CASE CloseConnection
  BY <1>14, CloseConnectionIInv
<1>15. CASE UNCHANGED vars
  BY <1>15, SameHolders DEF vars, objs, bytes, holders, IInv
<1> QED
  BY <1>1, <1>2, <1>3, <1>4, <1>5, <1>6, <1>7, <1>8, <1>9, <1>10, <1>11, <1>12, <1>13, <1>14, <1>15
     DEF Next

LEMMA SpecIInv == Spec => []IInv
BY InitIInv, NextIInv, PTL DEF Spec

\* Every evbuffer a buffer created has exactly one owner as long as it lives, however
\* many buffers there are and however they are copied, moved, swapped and destroyed.
THEOREM OneOwnerEach == Spec => []OwnedOnce
BY SpecIInv, IInvImplies, PTL

\* No evbuffer is freed twice and none of a connection is freed by a buffer.
THEOREM NothingFreedTwice == Spec => []FreedRightly
BY SpecIInv, IInvImplies, PTL

------------------------------------------------------------------------------
(* The order of the bytes. *)

\* A step that leaves the contents of each evbuffer alone, or empties it, keeps them in line.
LEMMA EmptiedInLine ==
  ASSUME IInv, \A e \in AllEv : data'[e] = data[e] \/ data'[e] = <<>>
  PROVE  InLine(data, data')
<1>1. ToSet(<<>>) = {}
  BY EmptySeq DEF ToSet
<1>2. \A e \in AllEv : data'[e] = data[e] \/ ToSet(data'[e]) = {}
  BY <1>1
<1> QED
  BY ONLY <1>2, IInv, FromFrontInLine DEF IInv

LEMMA FreeInLine ==
  ASSUME IInv, NEW b \in Buf, Free(m_buf[b], m_flag[b])
  PROVE  InLine(data, data')
<1>1. data' = data \/ \E e \in AllEv : data' = [data EXCEPT ![e] = <<>>]
  BY DEF Free, IInv, Types
<1>2. \A e \in AllEv : data'[e] = data[e] \/ data'[e] = <<>>
  BY <1>1 DEF IInv, Spread
<1> QED
  BY <1>2, EmptiedInLine

LEMMA TakeInLine ==
  ASSUME IInv, NEW e \in AllEv, NEW n \in 0 .. Len(data[e]), Take(e, n)
  PROVE  InLine(data, data')
<1>1. \A f \in AllEv : IF f = e THEN data'[f] = SubSeq(data[e], n + 1, Len(data[e]))
                       ELSE data'[f] = data[f]
  BY DEF Take, IInv, Spread
<1>2. \A f \in AllEv : \/ data'[f] = data[f]
                       \/ \E k \in 0 .. Len(data[f]) : data'[f] = SubSeq(data[f], k + 1, Len(data[f]))
  BY <1>1
<1> QED
  BY ONLY <1>2, IInv, FromFrontInLine DEF IInv

LEMMA MoveInLine ==
  ASSUME IInv, NEW e \in AllEv, NEW f \in AllEv, NEW n \in 0 .. Len(data[f]), Transfer(e, f, n)
  PROVE  InLine(data, data')
<1>1. CASE e = f
  BY <1>1, EmptiedInLine DEF Transfer
<1>2. CASE e # f
  <2>1. InLine(data, [data EXCEPT ![e] = @ \o SubSeq(data[f], 1, n),
                                  ![f] = SubSeq(@, n + 1, Len(@))])
    BY <1>2, TransferInLine DEF IInv
  <2> QED
    BY <1>2, <2>1 DEF Transfer
<1> QED
  BY <1>1, <1>2

LEMMA NextInLine == IInv /\ [Next]_vars => NoOvertaking
<1> SUFFICES ASSUME IInv, [Next]_vars PROVE InLine(data, data')
  BY DEF InLine, NoOvertaking
<1>1. ASSUME data' = data PROVE InLine(data, data')
  BY <1>1, EmptiedInLine
<1>2. ASSUME NEW e \in AllEv, Add(e) PROVE InLine(data, data')
  <2>1. data' = [data EXCEPT ![e] = Append(@, made + 1)]
    BY <1>2 DEF Add
  <2>2. InLine(data, [data EXCEPT ![e] = Append(@, made + 1)])
    BY AddInLine DEF IInv
  <2> QED
    BY <2>1, <2>2
<1>3. ASSUME NEW b \in Buf, NEW e \in Ev, Default(b, e) PROVE InLine(data, data')
  BY <1>1, <1>3 DEF Default, bytes
<1>4. ASSUME NEW b \in Buf, View(b) PROVE InLine(data, data')
  BY <1>1, <1>4 DEF View, bytes
<1>5. ASSUME NEW b \in Buf, Destruct(b) PROVE InLine(data, data')
  BY <1>5, FreeInLine DEF Destruct
<1>6. ASSUME NEW b \in Buf, AppendBytes(b) \/ Printf(b) PROVE InLine(data, data')
  BY <1>2, <1>6 DEF AppendBytes, Printf, Usable, IInv, Types
<1>7. ASSUME NEW b \in Buf, Readln(b) PROVE InLine(data, data')
  BY <1>7, ReadlnTakes, TakeInLine
<1>8. ASSUME NEW b \in Buf, NEW n \in 1 .. MaxByte, RemoveBytes(b, n) PROVE InLine(data, data')
  BY <1>8, RemoveBytesTakes, TakeInLine
<1>9. ASSUME NEW b \in Buf, NEW c \in Buf, CopyConstruct(b, c) \/ MoveConstruct(b, c) \/ Swap(b, c)
      PROVE  InLine(data, data')
  BY <1>1, <1>9 DEF CopyConstruct, MoveConstruct, Swap, bytes
<1>10. ASSUME NEW b \in Buf, NEW c \in Buf, MoveAssign(b, c) PROVE InLine(data, data')
  BY <1>10, FreeInLine DEF MoveAssign
<1>11. ASSUME NEW b \in Buf, NEW c \in Buf, AppendBuffer(b, c) PROVE InLine(data, data')
  <2>1. m_buf[b] \in AllEv /\ m_buf[c] \in AllEv
    BY <1>11 DEF AppendBuffer, Usable, IInv, Types
  <2>2. Len(data[m_buf[c]]) \in 0 .. Len(data[m_buf[c]])
    BY <2>1, RowLen
  <2> QED
    BY <1>11, <2>1, <2>2, MoveInLine DEF AppendBuffer
<1>12. ASSUME NEW b \in Buf, NEW c \in Buf, NEW n \in 1 .. MaxByte, RemoveToBuffer(b, c, n)
       PROVE  InLine(data, data')
  <2>1. m_buf[b] \in AllEv /\ m_buf[c] \in AllEv
    BY <1>12 DEF RemoveToBuffer, Usable, IInv, Types
  <2>2. n \in 0 .. Len(data[m_buf[b]])
    BY <1>12, <2>1, RowLen DEF RemoveToBuffer
  <2> QED
    BY <1>12, <2>1, <2>2, MoveInLine DEF RemoveToBuffer
<1>13. CASE Arrive
  BY <1>2, <1>13 DEF Arrive, AllEv
<1>14. CASE CloseConnection
  <2>1. data' = [data EXCEPT ![ConnEv] = <<>>]
    BY <1>14 DEF CloseConnection
  <2>2. \A e \in AllEv : data'[e] = data[e] \/ data'[e] = <<>>
    BY <2>1 DEF IInv, Spread
  <2> QED
    BY <2>2, EmptiedInLine
<1>15. CASE UNCHANGED vars
  BY <1>1, <1>15 DEF vars, bytes
<1> QED
  BY <1>3, <1>4, <1>5, <1>6, <1>7, <1>8, <1>9, <1>10, <1>11, <1>12, <1>13, <1>14, <1>15 DEF Next

\* An evbuffer is a queue for any number of buffers, views and bytes: no sequence of append,
\* remove, readln and drain loses a byte, doubles one, or lets one overtake another.
THEOREM BytesKeepOrder == Spec => BytesInOrder
<1>1. Spec => []OnePlace
  BY SpecIInv, IInvImplies, PTL
<1>2. Spec => [][NoOvertaking]_vars
  <2>1. IInv /\ [Next]_vars => [NoOvertaking]_vars
    BY NextInLine
  <2> QED
    BY SpecIInv, <2>1, PTL DEF Spec
<1> QED
  BY <1>1, <1>2 DEF BytesInOrder

=============================================================================
