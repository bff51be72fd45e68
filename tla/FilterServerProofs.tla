------------------------- MODULE FilterServerProofs -------------------------
(***************************************************************************)
(* Proofs that the filter servers, in C++ and in Lua, send back what they  *)
(* were sent, for streams of any length, any alphabet and any size of a    *)
(* block, and lose no more than the rest of a block.  At the end, what     *)
(* holds of the other Lua sample, the echo server.                         *)
(***************************************************************************)
EXTENDS FilterServer, LuaEcho, SequenceTheorems, TLAPS

Bytes == Seq(Byte)

Events == {"read", "eof", "error"}

\* One direction of the transformation in the program that l says, C++ or Lua.
ShiftIn(l, c) == IF c <= (IF l THEN Z ELSE Z - 1) THEN c + 1 ELSE c
Lift(l, s) == [n \in DOMAIN s |-> ShiftIn(l, s[n])]

\* What the client shall read of s; and what it will have read when the bytes u have
\* climbed, the text t was sent back and the bytes d have arrived.
Seen(l, s) == Lift(l, Lift(l, s))
Pipe(l, d, t, u) == d \o Lift(l, t \o Lift(l, u))

TypeOK ==
  /\ lua \in BOOLEAN /\ client \in {"open", "shut", "reset"}
  /\ sent \in Bytes /\ toServer \in Bytes /\ toClient \in Bytes /\ back \in Bytes /\ output \in Bytes
  /\ input \in [Bev -> Bytes]
  /\ enabled \in SUBSET {"read", "write"} /\ due \in [Bev -> SUBSET Events]
  /\ conn \in {"open", "eof", "error"}

------------------------------------------------------------------------------
(* The inductive invariant. *)

\* Bytes before the first transformation, and behind the second one.
Up == (blocks \o raw) \o toServer
Down == (back \o toClient) \o output

\* The client is there and can still get all that it is owed.
Unbroken == conn = "open" /\ client # "reset"

\* EchoTransformed with the stages it is made of.
Flow ==
  /\ Unbroken => Pipe(lua, Down, text, Up) = Seen(lua, sent)
  /\ IsPrefix(back \o toClient, Seen(lua, sent))

\* Data that a bufferevent could pass on announces itself.
Announced ==
  /\ Len(raw) >= Size => "read" \in due["socket"]
  /\ blocks # <<>> => "read" \in due["size"]
  /\ text # <<>> => "read" \in due["transform"]

\* The end of the file climbs behind the data, level by level.
EofClimbs ==
  /\ \A b \in Bev : "eof" \in due[b] => "read" \notin enabled /\ toServer = <<>> /\ client # "open"
  /\ "eof" \in due["size"] => "read" \notin due["socket"]
  /\ "eof" \in due["transform"] => "read" \notin due["socket"] /\ "read" \notin due["size"]

IInv ==
  /\ TypeOK
  /\ Flow
  /\ conn = "open" => Announced /\ EofClimbs

------------------------------------------------------------------------------
(* Sequences: how they are cut and joined, and their beginnings.              *)

LEMMA Joined ==
  ASSUME NEW S, NEW a \in Seq(S), NEW b \in Seq(S)
  PROVE  /\ a \o b \in Seq(S) /\ Len(a \o b) = Len(a) + Len(b)
         /\ Len(a) \in Nat /\ Len(b) \in Nat
         /\ a \o <<>> = a /\ <<>> \o a = a
BY ConcatProperties, ConcatEmptySeq, LenProperties

LEMMA Regroup ==
  ASSUME NEW S
  PROVE  \A a, b, c \in Seq(S) : (a \o b) \o c = a \o (b \o c)
BY ConcatAssociative

LEMMA RegroupBytes ==
  \A a, b, c \in Bytes : (a \o b) \o c = a \o (b \o c)
BY ConcatAssociative DEF Bytes

LEMMA Cut ==
  ASSUME NEW S, NEW a \in Seq(S), NEW k \in 0 .. Len(a)
  PROVE  /\ SubSeq(a, 1, k) \in Seq(S) /\ SubSeq(a, k + 1, Len(a)) \in Seq(S)
         /\ SubSeq(a, 1, k) \o SubSeq(a, k + 1, Len(a)) = a
<1>1. Len(a) \in Nat /\ \A i \in 1 .. Len(a) : a[i] \in S
  BY LenProperties, ElementOfSeq
<1>2. SubSeq(a, 1, k) \in Seq(S)
  BY <1>1, SubSeqProperties
<1>3. SubSeq(a, k + 1, Len(a)) \in Seq(S)
  BY <1>1, SubSeqProperties
<1>4. 1 \in 1 .. Len(a) + 1 /\ k \in 1 - 1 .. Len(a) /\ Len(a) \in k .. Len(a)
  BY <1>1
<1>5. SubSeq(a, 1, k) \o SubSeq(a, k + 1, Len(a)) = SubSeq(a, 1, Len(a))
  BY <1>4, ConcatAdjacentSubSeq
<1> QED
  BY <1>2, <1>3, <1>5, SubSeqFull

LEMMA PrefixIsBeginning ==
  ASSUME NEW S, NEW a \in Seq(S), NEW b \in Seq(S)
  PROVE  IsPrefix(a, b) <=> Len(a) <= Len(b) /\ \A i \in 1 .. Len(a) : a[i] = b[i]
<1>1. /\ Len(a) \in Nat /\ Len(b) \in Nat
      /\ \A i \in 1 .. Len(b) : b[i] \in S
  BY LenProperties, ElementOfSeq
<1>2. SubSeq(a, 1, Len(a)) = a
  BY SubSeqFull
<1>3. ASSUME Len(a) <= Len(b)
      PROVE  a = SubSeq(b, 1, Len(a)) <=> \A i \in 1 .. Len(a) : a[i] = b[i]
  <2>1. /\ SubSeq(b, 1, Len(a)) \in Seq(S) /\ Len(SubSeq(b, 1, Len(a))) = Len(a)
        /\ \A i \in 1 .. Len(a) : SubSeq(b, 1, Len(a))[i] = b[i]
    BY <1>1, <1>3, SubSeqProperties
  <2> QED
    BY <2>1, SeqEqual
<1> QED
  BY <1>1, <1>2, <1>3 DEF IsPrefix

LEMMA PrefixOfItself ==
  ASSUME NEW S, NEW a \in Seq(S)
  PROVE  IsPrefix(a, a)
BY PrefixIsBeginning, LenProperties

LEMMA PrefixOfMore ==
  ASSUME NEW S, NEW a \in Seq(S), NEW b \in Seq(S), NEW x \in S, IsPrefix(a, b)
  PROVE  IsPrefix(a, Append(b, x))
<1>1. Len(a) <= Len(b) /\ \A i \in 1 .. Len(a) : a[i] = b[i]
  BY PrefixIsBeginning
<1>2. Len(a) \in Nat /\ Len(b) \in Nat
  BY LenProperties
<1> DEFINE c == Append(b, x)
<1>3. /\ c \in Seq(S) /\ Len(c) = Len(b) + 1
      /\ \A i \in 1 .. Len(b) : c[i] = b[i]
  BY AppendProperties
<1> HIDE DEF c
<1>4. Len(a) <= Len(c) /\ \A i \in 1 .. Len(a) : a[i] = c[i]
  BY <1>1, <1>2, <1>3
<1>5. IsPrefix(a, c)
  BY <1>3, <1>4, PrefixIsBeginning
<1> QED
  BY <1>5 DEF c

LEMMA PrefixOfPart ==
  ASSUME NEW S, NEW a \in Seq(S), NEW b \in Seq(S), NEW c \in Seq(S), IsPrefix(a \o b, c)
  PROVE  IsPrefix(a, c)
<1>1. Len(a) \in Nat /\ Len(b) \in Nat /\ Len(c) \in Nat
  BY LenProperties
<1>2. /\ a \o b \in Seq(S) /\ Len(a \o b) = Len(a) + Len(b)
      /\ \A i \in 1 .. Len(a) : (a \o b)[i] = a[i]
  BY <1>1, ConcatProperties
<1> DEFINE ab == a \o b
<1> HIDE DEF ab
<1>3. Len(ab) <= Len(c) /\ \A i \in 1 .. Len(ab) : ab[i] = c[i]
  BY <1>2, PrefixIsBeginning DEF ab
<1>4. Len(a) <= Len(ab) /\ \A i \in 1 .. Len(a) : i \in 1 .. Len(ab) /\ ab[i] = a[i]
  BY <1>1, <1>2 DEF ab
<1>5. Len(a) <= Len(c) /\ \A i \in 1 .. Len(a) : a[i] = c[i]
  BY <1>1, <1>2, <1>3, <1>4 DEF ab
<1> QED
  BY <1>5, PrefixIsBeginning

LEMMA Grown ==
  ASSUME NEW a \in Bytes, NEW c \in Byte
  PROVE  <<c>> \in Bytes /\ Append(a, c) \in Bytes /\ Append(a, c) = a \o <<c>>
BY AppendProperties, AppendIsConcat DEF Bytes

LEMMA JoinedBytes ==
  ASSUME NEW a \in Bytes, NEW b \in Bytes
  PROVE  a \o b \in Bytes /\ a \o <<>> = a /\ <<>> \o a = a
BY Joined DEF Bytes

LEMMA JoinedValues ==
  ASSUME NEW a \in Bytes, NEW b \in Bytes
  PROVE  /\ a \o b \in Bytes /\ Len(a \o b) = Len(a) + Len(b)
         /\ \A i \in 1 .. Len(a) + Len(b) : (a \o b)[i] = IF i <= Len(a) THEN a[i] ELSE b[i - Len(a)]
BY ConcatProperties DEF Bytes

LEMMA AppendOver ==
  ASSUME NEW a \in Bytes, NEW b \in Bytes, NEW c \in Byte
  PROVE  a \o Append(b, c) = Append(a \o b, c)
<1>1. <<c>> \in Bytes /\ Append(b, c) = b \o <<c>>
  BY Grown
<1>2. a \o b \in Bytes
  BY JoinedBytes
<1>3. Append(a \o b, c) = (a \o b) \o <<c>>
  BY <1>2, Grown
<1>4. (a \o b) \o <<c>> = a \o (b \o <<c>>)
  BY <1>1, RegroupBytes
<1> QED
  BY <1>1, <1>3, <1>4, Zenon

LEMMA FirstBegins ==
  ASSUME NEW a \in Bytes, NEW b \in Bytes
  PROVE  IsPrefix(a, a \o b)
<1>1. a \o b \in Bytes
  BY JoinedBytes
<1>2. IsPrefix(a \o b, a \o b)
  BY <1>1, PrefixOfItself DEF Bytes
<1> QED
  BY <1>1, <1>2, PrefixOfPart DEF Bytes

\* Bytes that move from the front of one buffer to the end of the one before it.
LEMMA CutOver ==
  ASSUME NEW a \in Bytes, NEW b \in Bytes, NEW k \in 0 .. Len(b)
  PROVE  /\ a \o SubSeq(b, 1, k) \in Bytes /\ SubSeq(b, k + 1, Len(b)) \in Bytes
         /\ (a \o SubSeq(b, 1, k)) \o SubSeq(b, k + 1, Len(b)) = a \o b
<1> DEFINE c == SubSeq(b, 1, k)
           d == SubSeq(b, k + 1, Len(b))
<1> HIDE DEF c, d
<1>1. c \in Bytes /\ d \in Bytes
  BY Cut DEF c, d, Bytes
<1>2. (a \o c) \o d = a \o (c \o d)
  BY <1>1, RegroupBytes
<1>3. a \o c \in Bytes
  BY <1>1, JoinedBytes
<1>4. c \o d = b
  BY Cut DEF c, d, Bytes
<1> QED
  BY <1>1, <1>2, <1>3, <1>4 DEF c, d

------------------------------------------------------------------------------
(* The transformation, byte by byte.                                          *)

LEMMA ShiftByte ==
  ASSUME NEW l \in BOOLEAN, NEW c \in Byte
  PROVE  ShiftIn(l, c) \in Byte
BY FilterAssumption DEF ShiftIn, Byte

LEMMA LiftBytes ==
  ASSUME NEW l \in BOOLEAN, NEW s \in Bytes
  PROVE  /\ Lift(l, s) \in Bytes /\ Len(Lift(l, s)) = Len(s)
         /\ \A i \in 1 .. Len(s) : Lift(l, s)[i] = ShiftIn(l, s[i])
<1>1. Len(s) \in Nat /\ DOMAIN s = 1 .. Len(s) /\ \A i \in 1 .. Len(s) : s[i] \in Byte
  BY LenProperties, ElementOfSeq DEF Bytes
<1>2. \A i \in 1 .. Len(s) : ShiftIn(l, s[i]) \in Byte
  BY <1>1, ShiftByte
<1>3. Lift(l, s) = [i \in 1 .. Len(s) |-> ShiftIn(l, s[i])]
  BY <1>1 DEF Lift
<1>4. Lift(l, s) \in [1 .. Len(s) -> Byte]
  BY <1>2, <1>3
<1>5. Lift(l, s) \in Seq(Byte)
  BY <1>1, <1>4
<1> QED
  BY <1>1, <1>3, <1>4, <1>5 DEF Bytes

LEMMA LiftConcat ==
  ASSUME NEW l \in BOOLEAN, NEW a \in Bytes, NEW b \in Bytes
  PROVE  Lift(l, a \o b) = Lift(l, a) \o Lift(l, b)
<1> DEFINE c == a \o b
           d == Lift(l, a) \o Lift(l, b)
<1>1. Len(a) \in Nat /\ Len(b) \in Nat
  BY LenProperties DEF Bytes
<1>2. /\ c \in Bytes /\ Len(c) = Len(a) + Len(b)
      /\ \A i \in 1 .. Len(a) + Len(b) : c[i] = IF i <= Len(a) THEN a[i] ELSE b[i - Len(a)]
  BY JoinedValues
<1>3. /\ Lift(l, a) \in Bytes /\ Len(Lift(l, a)) = Len(a)
      /\ Lift(l, b) \in Bytes /\ Len(Lift(l, b)) = Len(b)
  BY LiftBytes
<1>4. /\ d \in Bytes /\ Len(d) = Len(a) + Len(b)
      /\ \A i \in 1 .. Len(a) + Len(b) :
           d[i] = IF i <= Len(a) THEN Lift(l, a)[i] ELSE Lift(l, b)[i - Len(a)]
  <2> DEFINE la == Lift(l, a)
             lb == Lift(l, b)
  <2> HIDE DEF la, lb
  <2>1. la \in Bytes /\ Len(la) = Len(a) /\ lb \in Bytes /\ Len(lb) = Len(b)
    BY <1>3 DEF la, lb
  <2>2. /\ la \o lb \in Bytes /\ Len(la \o lb) = Len(la) + Len(lb)
        /\ \A i \in 1 .. Len(la) + Len(lb) : (la \o lb)[i] = IF i <= Len(la) THEN la[i] ELSE lb[i - Len(la)]
    BY <2>1, JoinedValues
  <2> QED
    BY <2>1, <2>2 DEF la, lb
<1> HIDE DEF c, d
<1>5. Lift(l, c) \in Bytes /\ Len(Lift(l, c)) = Len(a) + Len(b)
  BY <1>2, LiftBytes
<1>6. ASSUME NEW i \in 1 .. Len(a) + Len(b) PROVE Lift(l, c)[i] = d[i]
  <2>1. Lift(l, c)[i] = ShiftIn(l, c[i])
    BY <1>2, LiftBytes
  <2>2. CASE i <= Len(a)
    <3>1. i \in 1 .. Len(a)
      BY <1>1, <2>2
    <3>2. Lift(l, a)[i] = ShiftIn(l, a[i])
      BY <3>1, LiftBytes
    <3> QED
      BY <1>2, <1>4, <2>1, <2>2, <3>2
  <2>3. CASE ~(i <= Len(a))
    <3>1. i - Len(a) \in 1 .. Len(b)
      BY <1>1, <2>3
    <3>2. Lift(l, b)[i - Len(a)] = ShiftIn(l, b[i - Len(a)])
      BY <3>1, LiftBytes
    <3> QED
      BY <1>2, <1>4, <2>1, <2>3, <3>2
  <2> QED
    BY <2>2, <2>3
<1>7. Lift(l, c) = d
  BY <1>4, <1>5, <1>6, SeqEqual DEF Bytes
<1> QED
  BY <1>7 DEF c, d

LEMMA LiftAppend ==
  ASSUME NEW l \in BOOLEAN, NEW a \in Bytes, NEW c \in Byte
  PROVE  Lift(l, Append(a, c)) = Append(Lift(l, a), ShiftIn(l, c))
<1>1. <<c>> \in Bytes /\ Append(a, c) = a \o <<c>>
  BY Grown
<1>2. Lift(l, <<c>>) = <<ShiftIn(l, c)>>
  BY DEF Lift
<1>3. Lift(l, a \o <<c>>) = Lift(l, a) \o Lift(l, <<c>>)
  BY <1>1, LiftConcat
<1>4. Append(Lift(l, a), ShiftIn(l, c)) = Lift(l, a) \o <<ShiftIn(l, c)>>
  BY LiftBytes, ShiftByte, Grown
<1> QED
  BY <1>1, <1>2, <1>3, <1>4, Zenon

LEMMA LiftEmpty == \A l : Lift(l, <<>>) = <<>>
BY DEF Lift

LEMMA SeenBytes ==
  ASSUME NEW l \in BOOLEAN, NEW s \in Bytes
  PROVE  Seen(l, s) \in Bytes /\ Seen(l, <<>>) = <<>>
BY LiftBytes, LiftEmpty DEF Seen

LEMMA SeenGrows ==
  ASSUME NEW l \in BOOLEAN, NEW s \in Bytes, NEW c \in Byte
  PROVE  Seen(l, Append(s, c)) = Append(Seen(l, s), ShiftIn(l, ShiftIn(l, c)))
<1>1. Lift(l, s) \in Bytes /\ ShiftIn(l, c) \in Byte
  BY LiftBytes, ShiftByte
<1>2. Lift(l, Append(s, c)) = Append(Lift(l, s), ShiftIn(l, c))
  BY LiftAppend
<1>3. Lift(l, Append(Lift(l, s), ShiftIn(l, c))) = Append(Lift(l, Lift(l, s)), ShiftIn(l, ShiftIn(l, c)))
  BY <1>1, LiftAppend
<1> QED
  BY <1>2, <1>3, Zenon DEF Seen

\* A byte that enters the chain comes last.
LEMMA PipeGrows ==
  ASSUME NEW l \in BOOLEAN, NEW d \in Bytes, NEW t \in Bytes, NEW u \in Bytes, NEW c \in Byte
  PROVE  Pipe(l, d, t, Append(u, c)) = Append(Pipe(l, d, t, u), ShiftIn(l, ShiftIn(l, c)))
<1> DEFINE e == ShiftIn(l, c)
           f == ShiftIn(l, ShiftIn(l, c))
<1>1. e \in Byte /\ f \in Byte
  BY ShiftByte
<1>2. Lift(l, u) \in Bytes /\ t \o Lift(l, u) \in Bytes /\ Lift(l, t \o Lift(l, u)) \in Bytes
  BY LiftBytes, JoinedBytes
<1>3. Lift(l, Append(u, c)) = Append(Lift(l, u), e)
  BY LiftAppend
<1>4. t \o Append(Lift(l, u), e) = Append(t \o Lift(l, u), e)
  BY <1>1, <1>2, AppendOver
<1>5. Lift(l, Append(t \o Lift(l, u), e)) = Append(Lift(l, t \o Lift(l, u)), f)
  BY <1>1, <1>2, LiftAppend
<1>6. d \o Append(Lift(l, t \o Lift(l, u)), f) = Append(d \o Lift(l, t \o Lift(l, u)), f)
  BY <1>1, <1>2, AppendOver
<1> QED
  BY <1>3, <1>4, <1>5, <1>6, Zenon DEF Pipe

\* Bytes that are transformed change the buffer, and not what will be read.
LEMMA PipeTransforms ==
  ASSUME NEW l \in BOOLEAN, NEW d, NEW t \in Bytes, NEW b \in Bytes, NEW u \in Bytes
  PROVE  Pipe(l, d, t, b \o u) = Pipe(l, d, t \o Lift(l, b), u)
<1>1. Lift(l, b) \in Bytes /\ Lift(l, u) \in Bytes
  BY LiftBytes
<1>2. Lift(l, b \o u) = Lift(l, b) \o Lift(l, u)
  BY LiftConcat
<1>3. (t \o Lift(l, b)) \o Lift(l, u) = t \o (Lift(l, b) \o Lift(l, u))
  BY <1>1, RegroupBytes
<1> QED
  BY <1>2, <1>3, Zenon DEF Pipe

\* The same for the text that is sent back.
LEMMA PipeEchoes ==
  ASSUME NEW l \in BOOLEAN, NEW d \in Bytes, NEW t \in Bytes, NEW u \in Bytes
  PROVE  Pipe(l, d, t, u) = Pipe(l, d \o Lift(l, t), <<>>, u)
<1>1. Lift(l, t) \in Bytes /\ Lift(l, u) \in Bytes /\ Lift(l, Lift(l, u)) \in Bytes
  BY LiftBytes
<1>2. Lift(l, t \o Lift(l, u)) = Lift(l, t) \o Lift(l, Lift(l, u))
  BY <1>1, LiftConcat
<1>3. (d \o Lift(l, t)) \o Lift(l, Lift(l, u)) = d \o (Lift(l, t) \o Lift(l, Lift(l, u)))
  BY <1>1, RegroupBytes
<1>4. <<>> \o Lift(l, u) = Lift(l, u)
  BY <1>1, JoinedBytes
<1> QED
  BY <1>2, <1>3, <1>4, Zenon DEF Pipe

LEMMA PipeBegins ==
  ASSUME NEW l \in BOOLEAN, NEW d \in Bytes, NEW o \in Bytes, NEW t \in Bytes, NEW u \in Bytes
  PROVE  IsPrefix(d, Pipe(l, d \o o, t, u))
<1> DEFINE r == Lift(l, t \o Lift(l, u))
<1>1. r \in Bytes
  BY LiftBytes, JoinedBytes
<1> HIDE DEF r
<1>2. d \o o \in Bytes /\ o \o r \in Bytes
  BY <1>1, JoinedBytes
<1>3. (d \o o) \o r = d \o (o \o r)
  BY <1>1, RegroupBytes
<1>4. IsPrefix(d, d \o (o \o r))
  BY <1>2, FirstBegins
<1>5. Pipe(l, d \o o, t, u) = (d \o o) \o r
  BY Zenon DEF Pipe, r
<1> QED
  BY <1>3, <1>4, <1>5, Zenon

\* What the model and the invariant call the same.
LEMMA TransformIsLift == \A s : Transform(s) = Lift(lua, s)
BY DEF Transform, Shift, LastShifted, Lift, ShiftIn

\* Two transformations, one after the other, are what the client is promised.
TwiceIn(l, c) == IF c > Z THEN c ELSE Min({c + 2, IF l THEN Z + 1 ELSE Z})

LEMMA TwiceShifted ==
  ASSUME NEW l \in BOOLEAN, NEW c \in Byte
  PROVE  TwiceIn(l, c) = ShiftIn(l, ShiftIn(l, c))
<1> DEFINE m == IF l THEN Z + 1 ELSE Z
<1>1. Min({c + 2, m}) = IF c + 2 <= m THEN c + 2 ELSE m
  <2>1. c + 2 \in Nat /\ m \in Nat
    BY FilterAssumption DEF Byte
  <2> QED
    BY <2>1 DEF Min
<1> QED
  BY <1>1, FilterAssumption DEF TwiceIn, ShiftIn, Byte

LEMMA TwiceSeen ==
  ASSUME NEW l \in BOOLEAN, NEW s \in Bytes
  PROVE  [n \in DOMAIN s |-> TwiceIn(l, s[n])] = Seen(l, s)
<1>1. Lift(l, s) \in Bytes /\ Len(Lift(l, s)) = Len(s)
  BY LiftBytes
<1>2. /\ Len(s) \in Nat /\ DOMAIN s = 1 .. Len(s)
      /\ DOMAIN Lift(l, s) = 1 .. Len(s)
      /\ \A i \in 1 .. Len(s) : s[i] \in Byte
  BY <1>1, LenProperties, ElementOfSeq DEF Bytes
<1>3. \A i \in 1 .. Len(s) : TwiceIn(l, s[i]) = ShiftIn(l, Lift(l, s)[i])
  BY <1>2, TwiceShifted, LiftBytes
<1>4. Seen(l, s) = [i \in 1 .. Len(s) |-> ShiftIn(l, Lift(l, s)[i])]
  BY <1>2 DEF Seen, Lift
<1> QED
  BY <1>2, <1>3, <1>4

LEMMA ImageIsSeen ==
  ASSUME lua \in BOOLEAN, sent \in Bytes
  PROVE  Image = Seen(lua, sent)
<1>1. Image = [n \in DOMAIN sent |-> TwiceIn(lua, sent[n])]
  BY Zenon DEF Image, Twice, TwiceIn
<1> QED
  BY <1>1, TwiceSeen

LEMMA Division ==
  ASSUME NEW n \in Nat
  PROVE  (n \div Size) * Size \in 0 .. n /\ n - (n \div Size) * Size < Size
BY FilterAssumption

LEMMA WholeBlocks ==
  ASSUME NEW s \in Bytes
  PROVE  /\ Whole(s) \in 0 .. Len(s) /\ Len(s) \in Nat
         /\ Rest(s) \in Bytes /\ Len(Rest(s)) < Size
         /\ Whole(s) = 0 => Len(s) < Size
<1>1. Len(s) \in Nat
  BY LenProperties DEF Bytes
<1>2. Whole(s) \in 0 .. Len(s) /\ Len(s) - Whole(s) < Size
  BY <1>1, Division DEF Whole
<1>3. Rest(s) \in Bytes
  BY <1>2, Cut DEF Rest, Bytes
<1>4. Len(Rest(s)) = Len(s) - Whole(s)
  <2> DEFINE w == Whole(s)
  <2>1. w \in 0 .. Len(s)
    BY <1>2
  <2> HIDE DEF w
  <2>2. \A i \in w + 1 .. Len(s) : s[i] \in Byte
    BY <1>1, <2>1, ElementOfSeq DEF Bytes
  <2>3. Len(SubSeq(s, w + 1, Len(s))) = IF w + 1 <= Len(s) THEN Len(s) - (w + 1) + 1 ELSE 0
    BY <1>1, <2>1, <2>2, SubSeqProperties
  <2>4. Len(SubSeq(s, w + 1, Len(s))) = Len(s) - w
    BY <1>1, <2>1, <2>3
  <2> QED
    BY <2>4 DEF w, Rest
<1> QED
  BY <1>1, <1>2, <1>3, <1>4

------------------------------------------------------------------------------
(* The invariant holds.                                                       *)

\* The types of what the buffers hold, under their names.
LEMMA Typed ==
  ASSUME TypeOK
  PROVE  /\ raw \in Bytes /\ blocks \in Bytes /\ text \in Bytes /\ lua \in BOOLEAN
         /\ Up \in Bytes /\ Down \in Bytes /\ back \o toClient \in Bytes /\ raw \o toServer \in Bytes
         /\ Seen(lua, sent) \in Bytes
<1>1. raw \in Bytes /\ blocks \in Bytes /\ text \in Bytes
  BY DEF TypeOK, raw, blocks, text, Bev
<1>2. sent \in Bytes /\ toServer \in Bytes /\ toClient \in Bytes /\ back \in Bytes /\ output \in Bytes
      /\ lua \in BOOLEAN
  BY DEF TypeOK
<1>3. blocks \o raw \in Bytes /\ back \o toClient \in Bytes /\ raw \o toServer \in Bytes
  BY <1>1, <1>2, JoinedBytes
<1>4. Up \in Bytes /\ Down \in Bytes
  BY <1>2, <1>3, JoinedBytes DEF Up, Down
<1> QED
  BY <1>1, <1>2, <1>3, <1>4, SeenBytes

LEMMA EmptyBytes == <<>> \in Bytes
BY DEF Bytes

LEMMA InitTypes == Init => TypeOK
BY EmptyBytes DEF Init, TypeOK, Bev, Events

LEMMA NextTypes ==
  ASSUME TypeOK, [Next]_vars
  PROVE  TypeOK'
<1>a. /\ lua \in BOOLEAN /\ client \in {"open", "shut", "reset"} /\ enabled \in SUBSET {"read", "write"}
      /\ sent \in Bytes /\ toServer \in Bytes /\ toClient \in Bytes /\ back \in Bytes /\ output \in Bytes
      /\ input \in [Bev -> Bytes] /\ due \in [Bev -> SUBSET Events]
      /\ raw \in Bytes /\ blocks \in Bytes /\ text \in Bytes
  BY Typed DEF TypeOK
<1>1. CASE \E c \in Byte : Send(c)
  <2>1. PICK c \in Byte : Send(c)
    BY <1>1
  <2>2. Append(sent, c) \in Bytes /\ Append(toServer, c) \in Bytes
    BY <1>a, Grown
  <2> QED
    BY <2>1, <2>2 DEF TypeOK, Send
<1>2. CASE Shutdown
  BY <1>2 DEF TypeOK, Shutdown
<1>3. CASE Receive
  <2>1. back \o toClient \in Bytes
    BY <1>a, JoinedBytes
  <2> QED
    BY <1>3, <2>1, EmptyBytes DEF TypeOK, Receive
<1>4. CASE ReadSocket
  <2>1. PICK k \in 1 .. Len(toServer) :
           /\ input' = [input EXCEPT !["socket"] = @ \o SubSeq(toServer, 1, k)]
           /\ toServer' = SubSeq(toServer, k + 1, Len(toServer))
    BY <1>4 DEF ReadSocket
  <2>2. k \in 0 .. Len(toServer)
    BY <2>1
  <2>3. raw \o SubSeq(toServer, 1, k) \in Bytes /\ SubSeq(toServer, k + 1, Len(toServer)) \in Bytes
    BY <1>a, <2>2, CutOver
  <2>4. input' \in [Bev -> Bytes] /\ toServer' \in Bytes
    BY <1>a, <2>1, <2>3 DEF raw, Bev
  <2>5. due' \in [Bev -> SUBSET Events]
    BY <1>4, <1>a DEF ReadSocket, Bev, Events
  <2> QED
    BY <1>4, <2>4, <2>5 DEF TypeOK, ReadSocket
<1>5. CASE \E what \in {"eof", "error"} : StopReading(what)
  <2>1. PICK what \in {"eof", "error"} : StopReading(what)
    BY <1>5
  <2>2. due' \in [Bev -> SUBSET Events]
    BY <2>1, <1>a DEF StopReading, Bev, Events
  <2> QED
    BY <2>1, <2>2 DEF TypeOK, StopReading
<1>6. CASE WriteSocket
  <2>1. toClient \o output \in Bytes
    BY <1>a, JoinedBytes
  <2> QED
    BY <1>6, <2>1, EmptyBytes DEF TypeOK, WriteSocket
<1>7. CASE SizeInput
  <2>1. due' \in [Bev -> SUBSET Events]
    BY <1>7, <1>a DEF SizeInput, Pass, Bev, Events
  <2>2. blocks \o SubSeq(raw, 1, Whole(raw)) \in Bytes /\ Rest(raw) \in Bytes
    BY <1>a, WholeBlocks, CutOver
  <2>3. input' \in [Bev -> Bytes]
    BY <1>7, <1>a, <2>2 DEF SizeInput, blocks, Bev
  <2> QED
    BY <1>7, <2>1, <2>3 DEF TypeOK, SizeInput
<1>8. CASE TransformInput
  <2>1. due' \in [Bev -> SUBSET Events]
    BY <1>8, <1>a DEF TransformInput, Pass, Bev, Events
  <2>2. text \o Transform(blocks) \in Bytes
    BY <1>a, TransformIsLift, LiftBytes, JoinedBytes
  <2>3. input' \in [Bev -> Bytes]
    BY <1>8, <1>a, <2>2, EmptyBytes DEF TransformInput, text, Bev
  <2> QED
    BY <1>8, <2>1, <2>3 DEF TypeOK, TransformInput
<1>9. CASE HandleRead
  <2>1. output \o Transform(text) \in Bytes
    BY <1>a, TransformIsLift, LiftBytes, JoinedBytes
  <2>2. input' \in [Bev -> Bytes] /\ due' \in [Bev -> SUBSET Events]
    BY <1>9, <1>a, EmptyBytes DEF HandleRead, Bev, Events
  <2> QED
    BY <1>9, <2>1, <2>2 DEF TypeOK, HandleRead, Output
<1>10. CASE HandleEof \/ HandleError
  BY <1>10, EmptyBytes DEF TypeOK, HandleEof, HandleError, Erase, Bev, Events
<1>11. CASE UNCHANGED vars
  BY <1>11 DEF TypeOK, vars
<1>12. CASE Reset
  BY <1>12, EmptyBytes DEF TypeOK, Reset
<1>13. CASE WriteFails
  <2>1. due' \in [Bev -> SUBSET Events]
    BY <1>13, <1>a DEF WriteFails, Bev, Events
  <2> QED
    BY <1>13, <2>1 DEF TypeOK, WriteFails
<1> QED
  BY <1>1, <1>2, <1>3, <1>4, <1>5, <1>6, <1>7, <1>8, <1>9, <1>10, <1>11, <1>12, <1>13 DEF Next

\* The flow, action by action.
LEMMA SendFlows ==
  ASSUME TypeOK, Flow, NEW c \in Byte, Send(c)
  PROVE  Flow'
<1> DEFINE f == ShiftIn(lua, ShiftIn(lua, c))
<1>1. f \in Byte
  BY Typed, ShiftByte
<1>2. /\ sent \in Bytes /\ toServer \in Bytes /\ lua \in BOOLEAN /\ blocks \o raw \in Bytes
      /\ text \in Bytes /\ Up \in Bytes /\ Down \in Bytes /\ back \o toClient \in Bytes
  BY Typed, JoinedBytes DEF TypeOK
<1>3. lua' = lua /\ Down' = Down /\ text' = text /\ conn' = conn /\ client' = client
      /\ back' \o toClient' = back \o toClient
  BY DEF Send, Down, text
<1>4. Up' = Append(Up, c)
  <2>1. (blocks \o raw) \o Append(toServer, c) = Append((blocks \o raw) \o toServer, c)
    BY <1>2, AppendOver
  <2> QED
    BY <2>1 DEF Send, Up, blocks, raw
<1>5. Seen(lua, sent)' = Append(Seen(lua, sent), f)
  <2>1. Seen(lua, Append(sent, c)) = Append(Seen(lua, sent), f)
    BY <1>2, SeenGrows
  <2>2. sent' = Append(sent, c)
    BY DEF Send
  <2> QED
    BY <1>3, <2>1, <2>2 DEF Seen, Lift, ShiftIn
<1>6. Pipe(lua, Down, text, Append(Up, c)) = Append(Pipe(lua, Down, text, Up), f)
  <2>1. lua \in BOOLEAN /\ Down \in Bytes /\ text \in Bytes /\ Up \in Bytes /\ c \in Byte
    BY <1>2
  <2> QED
    BY ONLY <2>1, PipeGrows, Zenon
<1> HIDE DEF f
<1>7. (Unbroken => Pipe(lua, Down, text, Up) = Seen(lua, sent))'
  <2>1. Pipe(lua, Down, text, Up)' = Pipe(lua, Down, text, Append(Up, c))
    BY <1>3, <1>4, Zenon DEF Pipe, Lift, ShiftIn
  <2> QED
    BY <1>3, <1>5, <1>6, <2>1, Zenon DEF Flow, Unbroken
<1>8. IsPrefix(back \o toClient, Append(Seen(lua, sent), f))
  BY <1>1, <1>2, SeenBytes, PrefixOfMore DEF Flow, Bytes
<1>9. IsPrefix(back \o toClient, Seen(lua, sent))'
  BY <1>3, <1>5, <1>8 DEF IsPrefix
<1> QED
  BY <1>7, <1>9 DEF Flow

\* A step that does not send leaves the invariant as long as it keeps what will be read.
LEMMA KeepsFlow ==
  ASSUME TypeOK', lua' = lua, sent' = sent, Flow, Pipe(lua, Down', text', Up') = Seen(lua, sent)
  PROVE  Flow'
<1>1. /\ lua \in BOOLEAN /\ toServer' \in Bytes /\ output' \in Bytes
      /\ back' \in Bytes /\ toClient' \in Bytes /\ raw' \in Bytes /\ blocks' \in Bytes /\ text' \in Bytes
  BY DEF TypeOK, Bev, raw, blocks, text
<1> DEFINE d == back' \o toClient'
           u == (blocks' \o raw') \o toServer'
<1>2. d \in Bytes /\ blocks' \o raw' \in Bytes
  BY <1>1, JoinedBytes
<1>3. u \in Bytes
  BY <1>1, <1>2, JoinedBytes
<1>4. Up' = u /\ Down' = d \o output'
  BY Zenon DEF Up, Down
<1> HIDE DEF d, u
<1>5. IsPrefix(d, Pipe(lua, d \o output', text', u))
  <2>1. lua \in BOOLEAN /\ d \in Bytes /\ output' \in Bytes /\ text' \in Bytes /\ u \in Bytes
    BY <1>1, <1>2, <1>3
  <2> QED
    BY ONLY <2>1, PipeBegins, Zenon
<1>6. IsPrefix(d, Seen(lua, sent))
  BY <1>4, <1>5, Zenon
<1>7. IsPrefix(back \o toClient, Seen(lua, sent))'
  BY <1>6, Zenon DEF d, Seen, Lift, ShiftIn, IsPrefix
<1>8. (Pipe(lua, Down, text, Up) = Seen(lua, sent))'
  BY Zenon DEF Pipe, Seen, Lift, ShiftIn
<1> QED
  BY <1>7, <1>8, Zenon DEF Flow

\* So does a step that only moves bytes between the buffers of one direction.
LEMMA OthersFlow ==
  ASSUME Flow, lua' = lua, sent' = sent, Unbroken' => Unbroken, back' \o toClient' = back \o toClient,
         Down' = Down, text' = text, Up' = Up
  PROVE  Flow'
<1>1. Seen(lua, sent)' = Seen(lua, sent)
  BY Zenon DEF Seen, Lift, ShiftIn
<1>2. Pipe(lua, Down, text, Up)' = Pipe(lua, Down, text, Up)
  BY Zenon DEF Pipe, Lift, ShiftIn
<1>3. (Unbroken => Pipe(lua, Down, text, Up) = Seen(lua, sent))'
  BY <1>1, <1>2, Zenon DEF Flow
<1>4. IsPrefix(back \o toClient, Seen(lua, sent))
  BY DEF Flow
<1>5. IsPrefix(back \o toClient, Seen(lua, sent))'
  BY <1>1, <1>4, Zenon DEF IsPrefix
<1> QED
  BY <1>3, <1>5 DEF Flow

\* After a reset or the erase the client reads no more.
LEMMA BrokenFlows ==
  ASSUME Flow, ~Unbroken', lua' = lua, sent' = sent, IsPrefix(back' \o toClient', Seen(lua, sent))
  PROVE  Flow'
BY Zenon DEF Flow, Seen, Lift, ShiftIn, IsPrefix

LEMMA ReceiveFlows ==
  ASSUME TypeOK, Flow, Receive
  PROVE  Flow'
<1>1. /\ lua' = lua /\ sent' = sent /\ Unbroken' = Unbroken /\ text' = text /\ Up' = Up /\ output' = output
      /\ back' = back \o toClient /\ toClient' = <<>>
  BY DEF Receive, Unbroken, text, Up, blocks, raw
<1>2. back \o toClient \in Bytes
  BY Typed
<1>3. (back \o toClient) \o <<>> = back \o toClient
  BY <1>2, JoinedBytes
<1>4. back' \o toClient' = back \o toClient
  BY <1>1, <1>3, Zenon
<1>5. Down' = Down
  BY <1>1, <1>4, Zenon DEF Down
<1> QED
  BY <1>1, <1>4, <1>5, OthersFlow

LEMMA ReadSocketFlows ==
  ASSUME TypeOK, TypeOK', Flow, ReadSocket
  PROVE  Flow'
<1>1. PICK k \in 1 .. Len(toServer) :
         /\ input' = [input EXCEPT !["socket"] = @ \o SubSeq(toServer, 1, k)]
         /\ toServer' = SubSeq(toServer, k + 1, Len(toServer))
  BY DEF ReadSocket
<1>2. k \in 0 .. Len(toServer) /\ raw \in Bytes /\ blocks \in Bytes /\ toServer \in Bytes
  BY <1>1, Typed DEF TypeOK
<1> DEFINE c == SubSeq(toServer, 1, k)
           e == SubSeq(toServer, k + 1, Len(toServer))
<1>3. c \in Bytes /\ e \in Bytes /\ (raw \o c) \o e = raw \o toServer
  <2>1. c \in Bytes /\ e \in Bytes
    BY <1>2, Cut DEF Bytes
  <2> QED
    BY <1>2, <2>1, CutOver
<1>4. raw' = raw \o c /\ blocks' = blocks /\ text' = text /\ toServer' = e
  BY <1>1 DEF raw, blocks, text, TypeOK, Bev
<1> HIDE DEF c, e
<1>5. (blocks \o (raw \o c)) \o e = (blocks \o raw) \o toServer
  <2>1. raw \o c \in Bytes
    BY <1>2, <1>3, JoinedBytes
  <2>2. (blocks \o (raw \o c)) \o e = blocks \o ((raw \o c) \o e)
    BY <1>2, <1>3, <2>1, RegroupBytes
  <2>3. (blocks \o raw) \o toServer = blocks \o (raw \o toServer)
    BY <1>2, RegroupBytes
  <2> QED
    BY <1>3, <2>2, <2>3, Zenon
<1>6. Up' = Up
  BY <1>4, <1>5, Zenon DEF Up
<1>7. /\ lua' = lua /\ sent' = sent /\ Unbroken' = Unbroken /\ Down' = Down
      /\ back' \o toClient' = back \o toClient
  BY DEF ReadSocket, CanRead, Down, Unbroken
<1> QED
  BY <1>4, <1>6, <1>7, OthersFlow

LEMMA WriteSocketFlows ==
  ASSUME TypeOK, TypeOK', Flow, WriteSocket
  PROVE  Flow'
<1>1. /\ lua' = lua /\ sent' = sent /\ Unbroken /\ text' = text /\ Up' = Up
      /\ back' = back /\ toClient' = toClient \o output /\ output' = <<>>
  BY DEF WriteSocket, CanWrite, Unbroken, text, Up, blocks, raw
<1>2. back \in Bytes /\ toClient \in Bytes /\ output \in Bytes
  BY DEF TypeOK
<1>3. toClient \o output \in Bytes
  BY <1>2, JoinedBytes
<1>4. (back \o toClient) \o output = back \o (toClient \o output)
  BY <1>2, RegroupBytes
<1>5. (back \o (toClient \o output)) \o <<>> = back \o (toClient \o output)
  <2>1. back \o (toClient \o output) \in Bytes
    BY <1>2, <1>3, JoinedBytes
  <2> QED
    BY <2>1, JoinedBytes
<1>6. Down' = Down
  BY <1>1, <1>4, <1>5, Zenon DEF Down
<1>7. Pipe(lua, Down', text', Up') = Seen(lua, sent)
  BY <1>1, <1>6, Zenon DEF Flow
<1> QED
  BY <1>1, <1>7, KeepsFlow

LEMMA SizeInputFlows ==
  ASSUME TypeOK, TypeOK', Flow, SizeInput
  PROVE  Flow'
<1>1. raw \in Bytes /\ blocks \in Bytes /\ toServer \in Bytes
  BY Typed DEF TypeOK
<1>2. /\ lua' = lua /\ sent' = sent /\ Unbroken' = Unbroken /\ text' = text /\ Down' = Down
      /\ toServer' = toServer /\ back' \o toClient' = back \o toClient
  BY DEF SizeInput, Due, Unbroken, text, Down, TypeOK, Bev
<1>3. blocks' \o raw' = blocks \o raw
  <2>1. CASE UNCHANGED input
    BY <2>1 DEF blocks, raw
  <2>2. CASE input' = [input EXCEPT !["size"] = @ \o SubSeq(raw, 1, Whole(raw)), !["socket"] = Rest(raw)]
    <3>1. blocks' = blocks \o SubSeq(raw, 1, Whole(raw)) /\ raw' = SubSeq(raw, Whole(raw) + 1, Len(raw))
      BY <2>2 DEF blocks, raw, TypeOK, Bev, Rest
    <3>2. Whole(raw) \in 0 .. Len(raw)
      BY <1>1, WholeBlocks
    <3>3. (blocks \o SubSeq(raw, 1, Whole(raw))) \o SubSeq(raw, Whole(raw) + 1, Len(raw)) = blocks \o raw
      BY <1>1, <3>2, CutOver
    <3> QED
      BY <3>1, <3>3, Zenon
  <2> QED
    BY <2>1, <2>2 DEF SizeInput
<1>4. Up' = Up
  BY <1>2, <1>3, Zenon DEF Up
<1> QED
  BY <1>2, <1>4, OthersFlow

LEMMA TransformInputFlows ==
  ASSUME TypeOK, TypeOK', Flow, TransformInput, Unbroken
  PROVE  Flow'
<1>1. /\ raw \in Bytes /\ blocks \in Bytes /\ text \in Bytes /\ toServer \in Bytes
      /\ raw \o toServer \in Bytes /\ Down \in Bytes /\ lua \in BOOLEAN
  BY Typed DEF TypeOK
<1>2. lua' = lua /\ sent' = sent /\ Down' = Down /\ toServer' = toServer
  BY DEF TransformInput, Due, Down
<1>3. Pipe(lua, Down, text, Up) = Seen(lua, sent)
  BY DEF Flow
<1>4. CASE UNCHANGED input
  <2>1. text' = text /\ Up' = Up
    BY <1>2, <1>4 DEF text, Up, blocks, raw
  <2>2. Pipe(lua, Down', text', Up') = Seen(lua, sent)
    BY <1>2, <1>3, <2>1, Zenon
  <2> QED
    BY <1>2, <2>2, KeepsFlow
<1>5. CASE input' = [input EXCEPT !["transform"] = @ \o Transform(blocks), !["size"] = <<>>]
  <2>1. text' = text \o Transform(blocks) /\ blocks' = <<>> /\ raw' = raw
    BY <1>5 DEF text, blocks, raw, TypeOK, Bev
  <2>2. text' = text \o Lift(lua, blocks)
    BY <2>1, TransformIsLift, Zenon
  <2>3. Up = blocks \o (raw \o toServer)
    BY <1>1, RegroupBytes DEF Up
  <2>4. Up' = raw \o toServer
    <3>1. <<>> \o raw = raw
      BY <1>1, JoinedBytes
    <3> QED
      BY <1>2, <2>1, <3>1, Zenon DEF Up
  <2>5. Pipe(lua, Down, text, blocks \o (raw \o toServer)) = Pipe(lua, Down, text \o Lift(lua, blocks), raw \o toServer)
    <3> DEFINE v == raw \o toServer
    <3>1. lua \in BOOLEAN /\ text \in Bytes /\ blocks \in Bytes /\ v \in Bytes
      BY <1>1
    <3> HIDE DEF v
    <3>2. Pipe(lua, Down, text, blocks \o v) = Pipe(lua, Down, text \o Lift(lua, blocks), v)
      <4>1. \A t, b, u \in Bytes : Pipe(lua, Down, t, b \o u) = Pipe(lua, Down, t \o Lift(lua, b), u)
        BY <3>1, PipeTransforms
      <4> QED
        BY ONLY <3>1, <4>1, Zenon
    <3> QED
      BY <3>2 DEF v
  <2>6. Pipe(lua, Down', text', Up') = Seen(lua, sent)
    BY <1>2, <1>3, <2>2, <2>3, <2>4, <2>5, Zenon
  <2> QED
    BY <1>2, <2>6, KeepsFlow
<1> QED
  BY <1>4, <1>5 DEF TransformInput

LEMMA HandleReadFlows ==
  ASSUME TypeOK, TypeOK', Flow, HandleRead, Unbroken
  PROVE  Flow'
<1>1. /\ text \in Bytes /\ output \in Bytes /\ back \o toClient \in Bytes
      /\ Down \in Bytes /\ Up \in Bytes /\ lua \in BOOLEAN
  BY Typed DEF TypeOK
<1>2. /\ lua' = lua /\ sent' = sent /\ back' = back /\ toClient' = toClient
      /\ toServer' = toServer /\ output' = output \o Transform(text)
      /\ text' = <<>> /\ blocks' = blocks /\ raw' = raw
  BY DEF HandleRead, Output, text, blocks, raw, TypeOK, Bev
<1>3. Up' = Up
  BY <1>2, Zenon DEF Up
<1>4. Down' = Down \o Lift(lua, text)
  <2>1. Lift(lua, text) \in Bytes
    BY <1>1, LiftBytes
  <2>2. ((back \o toClient) \o output) \o Lift(lua, text) = (back \o toClient) \o (output \o Lift(lua, text))
    BY <1>1, <2>1, RegroupBytes
  <2>3. output' = output \o Lift(lua, text)
    BY <1>2, TransformIsLift, Zenon
  <2> QED
    BY <1>2, <2>2, <2>3, Zenon DEF Down
<1>5. Pipe(lua, Down, text, Up) = Pipe(lua, Down \o Lift(lua, text), <<>>, Up)
  <2>1. \A d, t, u \in Bytes : Pipe(lua, d, t, u) = Pipe(lua, d \o Lift(lua, t), <<>>, u)
    BY <1>1, PipeEchoes
  <2> QED
    BY ONLY <1>1, <2>1, Zenon
<1>6. Pipe(lua, Down', text', Up') = Seen(lua, sent)
  BY <1>2, <1>3, <1>4, <1>5, Zenon DEF Flow
<1> QED
  BY <1>2, <1>6, KeepsFlow

LEMMA NextFlows ==
  ASSUME TypeOK, TypeOK', Flow, [Next]_vars
  PROVE  Flow'
<1>1. CASE Shutdown
  <2>1. Unbroken' => Unbroken
    BY <1>1 DEF Shutdown, Unbroken
  <2> QED
    BY <1>1, <2>1, OthersFlow DEF Shutdown, Down, text, Up, blocks, raw
<1>2. CASE (\E what \in {"eof", "error"} : StopReading(what)) \/ WriteFails
  <2>1. Unbroken' => Unbroken
    BY <1>2 DEF StopReading, WriteFails, Unbroken
  <2> QED
    BY <1>2, <2>1, OthersFlow DEF StopReading, WriteFails, Down, text, Up, blocks, raw
<1>3. CASE UNCHANGED vars
  <2>1. Unbroken' => Unbroken
    BY <1>3 DEF vars, Unbroken
  <2> QED
    BY <1>3, <2>1, OthersFlow DEF vars, Down, text, Up, blocks, raw
<1>4. CASE Reset
  <2>1. ~Unbroken' /\ lua' = lua /\ sent' = sent /\ back' = back /\ toClient' = <<>>
    BY <1>4 DEF Reset, Unbroken
  <2>2. back \in Bytes /\ toClient \in Bytes /\ Seen(lua, sent) \in Bytes
    BY Typed DEF TypeOK
  <2>3. IsPrefix(back, Seen(lua, sent))
    BY <2>2, PrefixOfPart DEF Flow, Bytes
  <2>4. back \o <<>> = back
    BY <2>2, JoinedBytes
  <2>5. IsPrefix(back' \o toClient', Seen(lua, sent))
    BY <2>1, <2>3, <2>4, Zenon
  <2> QED
    BY <2>1, <2>5, BrokenFlows
<1>5. CASE HandleEof \/ HandleError
  <2>1. conn' # "open" /\ lua' = lua /\ sent' = sent /\ back' = back /\ toClient' = toClient
    BY <1>5 DEF HandleEof, HandleError, Erase
  <2>2. IsPrefix(back' \o toClient', Seen(lua, sent))
    BY <2>1, Zenon DEF Flow
  <2> QED
    BY <2>1, <2>2, BrokenFlows DEF Unbroken
<1>6. CASE (TransformInput \/ HandleRead) /\ ~Unbroken
  <2>1. ~Unbroken' /\ lua' = lua /\ sent' = sent /\ back' = back /\ toClient' = toClient
    BY <1>6 DEF TransformInput, HandleRead, Due, Unbroken
  <2>2. IsPrefix(back' \o toClient', Seen(lua, sent))
    BY <2>1, Zenon DEF Flow
  <2> QED
    BY <2>1, <2>2, BrokenFlows
<1> QED
  BY <1>1, <1>2, <1>3, <1>4, <1>5, <1>6, SendFlows, ReceiveFlows, ReadSocketFlows, WriteSocketFlows,
     SizeInputFlows, TransformInputFlows, HandleReadFlows DEF Next

------------------------------------------------------------------------------
(* The end of the file comes behind the data.                                 *)

Ordered == conn = "open" => Announced /\ EofClimbs

LEMMA NextOrdered ==
  ASSUME TypeOK, Ordered, [Next]_vars
  PROVE  Ordered'
<1> USE DEF raw, blocks, text, Bev, Events
<1>a. /\ input \in [Bev -> Bytes] /\ due \in [Bev -> SUBSET Events]
      /\ raw \in Bytes /\ blocks \in Bytes /\ toServer \in Bytes
  BY Typed DEF TypeOK
<1>1. CASE \E c \in Byte : Send(c)
  <2>1. PICK c \in Byte : Send(c)
    BY <1>1
  <2>2. client = "open"
    BY <2>1, Zenon DEF Send, TypeOK
  <2>3. Announced => Announced'
    BY <2>1 DEF Send, Announced
  <2>4. EofClimbs => EofClimbs'
    BY <2>1, <2>2 DEF Send, EofClimbs
  <2> QED
    BY <2>1, <2>3, <2>4 DEF Send, Ordered
<1>2. CASE Shutdown \/ Reset
  <2>1. Announced => Announced'
    BY <1>2 DEF Shutdown, Reset, Announced
  <2>2. EofClimbs => EofClimbs'
    BY <1>2 DEF Shutdown, Reset, EofClimbs
  <2> QED
    BY <1>2, <2>1, <2>2 DEF Shutdown, Reset, Ordered
<1>3. CASE Receive
  BY <1>3 DEF Receive, Ordered, Announced, EofClimbs
<1>4. CASE ReadSocket
  <2>1. PICK k \in 1 .. Len(toServer) :
           /\ input' = [input EXCEPT !["socket"] = @ \o SubSeq(toServer, 1, k)]
           /\ toServer' = SubSeq(toServer, k + 1, Len(toServer))
    BY <1>4 DEF ReadSocket
  <2>2. toServer # <<>>
    BY <2>1
  <2>3. /\ due' = [due EXCEPT !["socket"] = @ \cup {"read"}] /\ client' = client /\ conn = "open"
        /\ enabled' = enabled /\ blocks' = blocks /\ text' = text
    BY <1>4, <1>a, <2>1 DEF ReadSocket, CanRead
  <2> HIDE DEF raw, blocks, text
  <2>4. Announced'
    BY <1>a, <2>3 DEF Ordered, Announced
  <2>5. EofClimbs'
    BY <1>a, <2>2, <2>3 DEF Ordered, EofClimbs
  <2> QED
    BY <2>4, <2>5 DEF Ordered
<1>5. CASE (\E what \in {"eof", "error"} : StopReading(what)) \/ WriteFails
  <2>1. CASE WriteFails
    <3>1. /\ due' = [due EXCEPT !["socket"] = @ \cup {"error"}] /\ enabled' = enabled \ {"write"}
          /\ conn = "open" /\ client' = client /\ toServer' = toServer /\ input' = input
      BY <2>1 DEF WriteFails, CanWrite
    <3>2. Announced'
      BY <3>1, <1>a DEF Ordered, Announced
    <3>3. EofClimbs'
      BY <3>1, <1>a DEF Ordered, EofClimbs
    <3> QED
      BY <3>2, <3>3 DEF Ordered
  <2>2. CASE \E what \in {"eof", "error"} : StopReading(what)
    <3>1. PICK what \in {"eof", "error"} : StopReading(what)
      BY <2>2
    <3>2. /\ due' = [due EXCEPT !["socket"] = @ \cup {what}] /\ enabled' = enabled \ {"read"}
          /\ conn = "open" /\ client' = client /\ client # "open" /\ "read" \in enabled
          /\ toServer = <<>> /\ toServer' = toServer /\ input' = input
      BY <3>1 DEF StopReading, CanRead
    <3>3. Announced'
      BY <3>2, <1>a DEF Ordered, Announced
    <3>4. EofClimbs'
      BY <3>2, <1>a DEF Ordered, EofClimbs
    <3> QED
      BY <3>3, <3>4 DEF Ordered
  <2> QED
    BY <1>5, <2>1, <2>2
<1>6. CASE WriteSocket
  BY <1>6 DEF WriteSocket, Ordered, Announced, EofClimbs
<1>7. CASE SizeInput
  <2>1. /\ Announced /\ EofClimbs
        /\ client' = client /\ toServer' = toServer /\ enabled' = enabled
    BY <1>7 DEF SizeInput, Due, Ordered
  <2>2. /\ due'["socket"] = {} /\ due["size"] \subseteq due'["size"] /\ due'["transform"] = due["transform"]
        /\ "eof" \in due'["size"] => "eof" \in due["size"] \cup due["socket"]
        /\ "read" \in due'["size"] => "read" \in due["size"] \cup due["socket"]
    BY <1>7, <1>a DEF SizeInput, Pass
  <2>3. EofClimbs'
    BY <2>1, <2>2 DEF EofClimbs
  <2>4. Announced'
    <3>1. CASE "read" \in due["socket"] /\ Whole(raw) > 0
      <4>1. text' = text /\ raw' = Rest(raw) /\ "read" \in due'["size"]
        BY <1>7, <1>a, <3>1 DEF SizeInput, Pass
      <4> HIDE DEF raw, blocks, text
      <4>2. Len(Rest(raw)) < Size /\ Len(Rest(raw)) \in Nat
        BY <1>a, WholeBlocks, LenProperties DEF Bytes
      <4>3. ~(Len(raw') >= Size)
        BY <4>1, <4>2, FilterAssumption
      <4> QED
        BY <2>1, <2>2, <4>1, <4>3 DEF Announced
    <3>2. CASE ~("read" \in due["socket"] /\ Whole(raw) > 0)
      <4>1. input' = input
        BY <1>7, <3>2 DEF SizeInput
      <4>2. ~(Len(raw) >= Size)
        <5> HIDE DEF raw
        <5>1. Len(raw) \in Nat /\ Whole(raw) \in 0 .. Len(raw) /\ (Whole(raw) = 0 => Len(raw) < Size)
          BY <1>a, WholeBlocks
        <5> QED
          BY <2>1, <3>2, <5>1, FilterAssumption DEF Announced
      <4> QED
        BY <2>1, <2>2, <4>1, <4>2 DEF Announced
    <3> QED
      BY <3>1, <3>2
  <2> QED
    BY <2>3, <2>4 DEF Ordered
<1>8. CASE TransformInput
  <2>1. /\ Announced /\ EofClimbs
        /\ client' = client /\ toServer' = toServer /\ enabled' = enabled
    BY <1>8 DEF TransformInput, Due, Ordered
  <2>2. /\ due'["size"] = {} /\ due["transform"] \subseteq due'["transform"] /\ due'["socket"] = due["socket"]
        /\ "eof" \in due'["transform"] => "eof" \in due["transform"] \cup due["size"]
    BY <1>8, <1>a DEF TransformInput, Pass
  <2>3. EofClimbs'
    BY <2>1, <2>2 DEF EofClimbs
  <2>4. Announced'
    <3>1. CASE "read" \in due["size"]
      <4>1. blocks' = <<>> /\ raw' = raw /\ "read" \in due'["transform"]
        BY <1>8, <1>a, <3>1 DEF TransformInput, Pass
      <4> QED
        BY <2>1, <2>2, <4>1 DEF Announced
    <3>2. CASE "read" \notin due["size"]
      <4>1. input' = input
        BY <1>8, <3>2 DEF TransformInput
      <4> QED
        BY <2>1, <2>2, <3>2, <4>1 DEF Announced
    <3> QED
      BY <3>1, <3>2
  <2> QED
    BY <2>3, <2>4 DEF Ordered
<1>9. CASE HandleRead
  <2>1. Announced'
    BY <1>9, <1>a DEF HandleRead, Ordered, Announced
  <2>2. EofClimbs'
    BY <1>9, <1>a DEF HandleRead, Ordered, EofClimbs
  <2> QED
    BY <2>1, <2>2 DEF Ordered
<1>10. CASE HandleEof \/ HandleError
  BY <1>10 DEF HandleEof, HandleError, Erase, Ordered
<1>11. CASE UNCHANGED vars
  BY <1>11 DEF vars, Ordered, Announced, EofClimbs
<1> QED
  BY <1>1, <1>2, <1>3, <1>4, <1>5, <1>6, <1>7, <1>8, <1>9, <1>10, <1>11 DEF Next

------------------------------------------------------------------------------
(* The invariant, and the theorems.                                           *)

LEMMA InitIInv == Init => IInv
<1> SUFFICES ASSUME Init PROVE IInv
  OBVIOUS
<1>1. TypeOK
  BY InitTypes
<1>2. /\ lua \in BOOLEAN /\ sent = <<>> /\ back = <<>> /\ toClient = <<>> /\ output = <<>> /\ toServer = <<>>
      /\ raw = <<>> /\ blocks = <<>> /\ text = <<>>
  BY DEF Init, raw, blocks, text, Bev
<1>3. <<>> \o <<>> = <<>>
  BY EmptyBytes, JoinedBytes
<1>4. Up = <<>> /\ Down = <<>> /\ back \o toClient = <<>> /\ Seen(lua, sent) = <<>>
  BY <1>2, <1>3, LiftEmpty, Zenon DEF Up, Down, Seen
<1>5. Pipe(lua, Down, text, Up) = <<>>
  BY <1>2, <1>3, <1>4, LiftEmpty, Zenon DEF Pipe
<1>6. IsPrefix(<<>>, <<>>)
  BY EmptyBytes, PrefixOfItself DEF Bytes
<1>7. Flow
  BY <1>4, <1>5, <1>6, Zenon DEF Flow
<1>8. Announced
  BY <1>2, FilterAssumption DEF Announced
<1>9. EofClimbs
  BY DEF Init, EofClimbs, Bev
<1> QED
  BY <1>1, <1>7, <1>8, <1>9 DEF IInv

LEMMA NextIInv == IInv /\ [Next]_vars => IInv'
<1> SUFFICES ASSUME IInv, [Next]_vars PROVE IInv'
  OBVIOUS
<1>1. TypeOK'
  BY NextTypes DEF IInv
<1>2. Flow'
  BY <1>1, NextFlows DEF IInv
<1>3. Ordered'
  BY NextOrdered DEF IInv, Ordered
<1> QED
  BY <1>1, <1>2, <1>3 DEF IInv, Ordered

LEMMA SpecIInv == Spec => []IInv
BY InitIInv, NextIInv, PTL DEF Spec

LEMMA FlowIsEcho == IInv => EchoTransformed
<1> SUFFICES ASSUME IInv PROVE EchoTransformed
  OBVIOUS
<1>1. /\ raw \in Bytes /\ blocks \in Bytes /\ text \in Bytes /\ lua \in BOOLEAN /\ sent \in Bytes
      /\ toServer \in Bytes /\ toClient \in Bytes /\ back \in Bytes /\ output \in Bytes
  BY Typed DEF IInv, TypeOK
<1>2. Image = Seen(lua, sent)
  BY <1>1, ImageIsSeen
<1>3. conn = "open" /\ client # "reset" =>
        Down \o Transform(text \o Transform(Up)) = Image
  <2>1. Transform(Up) = Lift(lua, Up) /\ Transform(text \o Lift(lua, Up)) = Lift(lua, text \o Lift(lua, Up))
    BY TransformIsLift, Zenon
  <2> QED
    BY <1>2, <2>1, Zenon DEF IInv, Flow, Unbroken, Pipe
<1>4. IsPrefix(back \o toClient, Image)
  BY <1>2, Zenon DEF IInv, Flow
<1>5. (conn = "open" /\ client # "reset" =>
         back \o toClient \o output \o Transform(text \o Transform(blocks \o raw \o toServer)) = Image)
  BY <1>3, Zenon DEF Up, Down
<1> QED
  BY <1>4, <1>5 DEF EchoTransformed

\* The client reads back what it sent, each byte transformed twice, for any stream, any size
\* of a block and both programs; a connection that was erased delivers the beginning of it.
THEOREM EchoIsTransformed == Spec => []EchoTransformed
BY SpecIInv, FlowIsEcho, PTL

LEMMA RestAtEnd ==
  ASSUME IInv, [Next]_vars, conn' = "eof", conn # "eof"
  PROVE  toServer = <<>> /\ blocks = <<>> /\ text = <<>> /\ Len(raw) < Size
<1>1. HandleEof
  BY DEF Next, vars, Send, Shutdown, Reset, Receive, ReadSocket, StopReading, WriteSocket, WriteFails,
         SizeInput, TransformInput, HandleRead, HandleError, Erase
<1>2. /\ conn = "open" /\ "eof" \in due["transform"] /\ "read" \notin due["transform"]
      /\ Announced /\ EofClimbs
  BY <1>1 DEF HandleEof, IInv
<1>3. text = <<>> /\ "read" \notin due["size"] /\ "read" \notin due["socket"]
  BY <1>2 DEF Announced, EofClimbs
<1>4. blocks = <<>>
  BY <1>2, <1>3 DEF Announced
<1>5. toServer = <<>> /\ ~(Len(raw) >= Size)
  BY <1>2, <1>3 DEF Announced, EofClimbs, Bev
<1>6. Len(raw) \in Nat
  BY Typed, LenProperties DEF IInv, Bytes
<1> QED
  BY <1>3, <1>4, <1>5, <1>6, FilterAssumption

\* When the server is told of the end of the file, it has sent back all but the rest of a block.
THEOREM OnlyRestIsLost == Spec => OnlyRestLost
<1>1. IInv /\ [Next]_vars =>
        [conn' = "eof" /\ conn # "eof" => toServer = <<>> /\ blocks = <<>> /\ text = <<>> /\ Len(raw) < Size]_vars
  BY RestAtEnd
<1> QED
  BY SpecIInv, <1>1, PTL DEF Spec, OnlyRestLost

------------------------------------------------------------------------------
(* The filter server implements ByteStream.                                   *)

LEMMA Reads ==
  ASSUME NEW a \in Bytes, NEW b \in Bytes, NEW i \in Bytes, b # <<>>, IsPrefix(a \o b, i)
  PROVE  \E m \in Len(a) + 1 .. Len(i) : a \o b = SubSeq(i, 1, m)
<1> DEFINE c == a \o b
<1>1. c \in Bytes /\ Len(c) = Len(a) + Len(b)
  BY JoinedValues
<1>2. Len(a) \in Nat /\ Len(b) \in Nat /\ Len(b) > 0 /\ Len(i) \in Nat
  BY LenProperties, EmptySeq DEF Bytes
<1> HIDE DEF c
<1>3. IsPrefix(c, i)
  BY DEF c
<1>4. Len(c) <= Len(i) /\ SubSeq(c, 1, Len(c)) = SubSeq(i, 1, Len(c))
  BY <1>3 DEF IsPrefix
<1>5. SubSeq(c, 1, Len(c)) = c
  BY <1>1, SubSeqFull DEF Bytes
<1>6. Len(c) \in Len(a) + 1 .. Len(i)
  BY <1>1, <1>2, <1>4
<1>7. c = SubSeq(i, 1, Len(c))
  BY <1>4, <1>5
<1> QED
  BY <1>6, <1>7 DEF c

LEMMA StreamInit == Init => Stream!Init
<1> SUFFICES ASSUME Init PROVE Stream!Init
  OBVIOUS
<1>1. Image = Seen(lua, sent) /\ sent = <<>> /\ back = <<>>
  BY EmptyBytes, ImageIsSeen DEF Init
<1>2. Image = <<>>
  BY <1>1, LiftEmpty, Zenon DEF Seen
<1> QED
  BY <1>1, <1>2 DEF Stream!Init

LEMMA StreamStep ==
  ASSUME IInv, IInv', [Next]_vars
  PROVE  [Stream!Next]_<<Image, back>>
<1>1. lua \in BOOLEAN /\ sent \in Bytes /\ back \in Bytes /\ toClient \in Bytes /\ Image = Seen(lua, sent)
  BY ImageIsSeen DEF IInv, TypeOK
<1>2. CASE \E c \in Byte : Send(c)
  <2>1. PICK c \in Byte : Send(c)
    BY <1>2
  <2>2. sent' = Append(sent, c) /\ lua' = lua /\ back' = back
    BY <2>1 DEF Send
  <2>3. Image' = Append(Image, ShiftIn(lua, ShiftIn(lua, c)))
    <3>1. Append(sent, c) \in Bytes
      BY <1>1, Grown
    <3>2. Image' = [n \in DOMAIN sent' |-> TwiceIn(lua, sent'[n])]
      BY <2>2, Zenon DEF Image, Twice, TwiceIn
    <3>3. Image' = Seen(lua, Append(sent, c))
      BY <1>1, <2>2, <3>1, <3>2, TwiceSeen
    <3> QED
      BY <1>1, <3>3, SeenGrows
  <2>4. ShiftIn(lua, ShiftIn(lua, c)) \in Byte
    BY <1>1, ShiftByte
  <2> QED
    BY <2>2, <2>3, <2>4 DEF Stream!Next, Stream!Put
<1>3. CASE Receive
  <2>1. toClient # <<>> /\ back' = back \o toClient /\ sent' = sent /\ lua' = lua
    BY <1>3 DEF Receive
  <2>2. Image' = Image
    BY <2>1, Zenon DEF Image, Twice
  <2>3. IsPrefix(back \o toClient, Image)
    BY FlowIsEcho DEF EchoTransformed
  <2>4. Image \in Bytes
    BY <1>1, SeenBytes
  <2>5. \E m \in Len(back) + 1 .. Len(Image) : back \o toClient = SubSeq(Image, 1, m)
    BY <1>1, <2>1, <2>3, <2>4, Reads
  <2> QED
    BY <2>1, <2>2, <2>5 DEF Stream!Next, Stream!Get
<1>4. CASE sent' = sent /\ lua' = lua /\ back' = back
  <2>1. Image' = Image
    BY <1>4, Zenon DEF Image, Twice
  <2> QED
    BY <1>4, <2>1
<1>5. (\E c \in Byte : Send(c)) \/ Receive \/ (sent' = sent /\ lua' = lua /\ back' = back)
  BY DEF Next, vars, Shutdown, Reset, ReadSocket, StopReading, WriteSocket, WriteFails, SizeInput,
         TransformInput, HandleRead, HandleEof, HandleError, Erase
<1> QED
  BY <1>2, <1>3, <1>4, <1>5

\* The client of a filter server reads the stream as ByteStream says, also when the server
\* erases the connection in the middle of it.
THEOREM StreamImplemented == Spec => ImplementsStream
BY SpecIInv, StreamInit, StreamStep, PTL DEF Spec, ImplementsStream, Stream!Spec

------------------------------------------------------------------------------
(* What ByteStream promises, for the stream that the refinement names.        *)

LEMMA PrefixesNest ==
  ASSUME NEW a \in Bytes, NEW b \in Bytes, NEW c \in Bytes, IsPrefix(a, c), IsPrefix(b, c), Len(a) <= Len(b)
  PROVE  IsPrefix(a, b)
<1>1. Len(a) \in Nat /\ Len(b) \in Nat /\ Len(c) \in Nat
  BY LenProperties DEF Bytes
<1>2. /\ \A i \in 1 .. Len(a) : a[i] = c[i]
      /\ \A i \in 1 .. Len(b) : b[i] = c[i]
  BY PrefixIsBeginning DEF Bytes
<1>3. \A i \in 1 .. Len(a) : a[i] = b[i]
  BY <1>1, <1>2
<1> QED
  BY <1>3, PrefixIsBeginning DEF Bytes

LEMMA FirstOnes ==
  ASSUME NEW a \in Bytes, NEW n \in 0 .. Len(a)
  PROVE  SubSeq(a, 1, n) \in Bytes /\ Len(SubSeq(a, 1, n)) = n /\ IsPrefix(SubSeq(a, 1, n), a)
<1>1. Len(a) \in Nat /\ \A i \in 1 .. n : a[i] \in Byte
  BY LenProperties, ElementOfSeq DEF Bytes
<1> DEFINE b == SubSeq(a, 1, n)
<1>2. b \in Bytes /\ Len(b) = n /\ \A i \in 1 .. n : b[i] = a[i]
  BY <1>1, SubSeqProperties DEF Bytes
<1> HIDE DEF b
<1>3. IsPrefix(b, a)
  BY <1>1, <1>2, PrefixIsBeginning DEF Bytes
<1> QED
  BY <1>2, <1>3 DEF b

Begins == Image \in Bytes /\ back \in Bytes /\ IsPrefix(back, Image)

LEMMA BeginsInit == Stream!Init => Begins
BY EmptyBytes, PrefixOfItself DEF Stream!Init, Begins, Bytes

LEMMA BeginsNext ==
  ASSUME Begins, [Stream!Next]_<<Image, back>>
  PROVE  Begins' /\ (IsPrefix(back, back'))
<1>1. CASE Stream!Put
  <2>1. PICK b \in Byte : Image' = Append(Image, b) /\ back' = back
    BY <1>1 DEF Stream!Put
  <2>2. Append(Image, b) \in Bytes /\ IsPrefix(back, Append(Image, b)) /\ IsPrefix(back, back)
    BY Grown, PrefixOfMore, PrefixOfItself DEF Begins, Bytes
  <2> QED
    BY <2>1, <2>2 DEF Begins
<1>2. CASE Stream!Get
  <2>1. PICK n \in Len(back) + 1 .. Len(Image) : back' = SubSeq(Image, 1, n) /\ Image' = Image
    BY <1>2 DEF Stream!Get
  <2>2. Len(back) \in Nat /\ Len(Image) \in Nat
    BY LenProperties DEF Begins, Bytes
  <2>3. n \in 0 .. Len(Image) /\ Len(back) <= n
    BY <2>1, <2>2
  <2>4. SubSeq(Image, 1, n) \in Bytes /\ Len(SubSeq(Image, 1, n)) = n /\ IsPrefix(SubSeq(Image, 1, n), Image)
    BY <2>3, FirstOnes DEF Begins
  <2>5. IsPrefix(back, SubSeq(Image, 1, n))
    BY <2>3, <2>4, PrefixesNest DEF Begins
  <2> QED
    BY <2>1, <2>4, <2>5 DEF Begins
<1>3. CASE UNCHANGED <<Image, back>>
  <2>1. IsPrefix(back, back)
    BY PrefixOfItself DEF Begins, Bytes
  <2> QED
    BY <1>3, <2>1 DEF Begins
<1> QED
  BY <1>1, <1>2, <1>3 DEF Stream!Next

\* A reader of a ByteStream has the beginning of what was sent, and keeps it.
THEOREM StreamPromises ==
  Stream!Spec => [](IsPrefix(back, Image)) /\ [][IsPrefix(back, back')]_<<Image, back>>
<1>1. Begins /\ [Stream!Next]_<<Image, back>> => Begins'
  BY BeginsNext
<1>2. Begins => IsPrefix(back, Image)
  BY DEF Begins
<1>3. Begins /\ [Stream!Next]_<<Image, back>> => [IsPrefix(back, back')]_<<Image, back>>
  BY BeginsNext
<1> QED
  BY BeginsInit, <1>1, <1>2, <1>3, PTL DEF Stream!Spec

------------------------------------------------------------------------------
(* The other Lua sample, echo_server.lua: what holds for any number of       *)
(* connections and descriptors, whenever the collector runs.                 *)

LuaTypes ==
  /\ obj \in [Conn -> {"none", "live", "closed", "freed"}]
  /\ fd \in [Conn -> Fd \cup {NULL}]
  /\ table \in [Fd -> Conn \cup {NULL}]
  /\ \/ Idle
     \/ \E c \in Conn, pc \in {"local", "handler", "forgotten", "returned"} : At(c, pc)

\* A descriptor is that of one connection, which is live.
Described ==
  /\ \A c \in Conn : fd[c] # NULL <=> obj[c] = "live"
  /\ \A c, d \in Conn : fd[c] # NULL /\ fd[c] = fd[d] => c = d

\* How a live connection is kept, by its own entry and no other.
Kept ==
  \A c \in Conn : obj[c] = "live" => table[fd[c]] = c \/ At(c, "local") \/ At(c, "forgotten")

\* What is known of the connection whose handler runs.
Running ==
  \A c \in Conn : /\ At(c, "local") \/ At(c, "handler") => obj[c] = "live"
                  /\ At(c, "forgotten") => \A f \in Fd : table[f] # c

\* The inductive invariant.  GoneIsLeftAlone needs Running: at every statement but close()
\* the connection of the handler is live, since Kept names an entry that only its own
\* handler drops and a later connection, whose number is another one, does not overwrite.
LuaIInv == LuaTypes /\ Described /\ TableSound /\ Kept /\ Running /\ GoneIsLeftAlone

\* A handler is at one place of one connection.
LEMMA OnePlace ==
  ASSUME NEW c \in Conn, NEW d \in Conn, NEW p, NEW q, At(c, p), At(d, q)
  PROVE  c = d /\ p = q /\ frame.conn = c
<1>1. [conn |-> c, at |-> p].conn = [conn |-> d, at |-> q].conn
  BY DEF At
<1>2. [conn |-> c, at |-> p].at = [conn |-> d, at |-> q].at
  BY DEF At
<1> QED
  BY <1>1, <1>2 DEF At

LEMMA IdleIsNowhere ==
  ASSUME Idle, NEW c \in Conn, NEW p
  PROVE  ~At(c, p)
<1>1. [conn |-> c, at |-> p].conn = c /\ NoFrame.conn = NULL
  BY DEF NoFrame
<1> QED
  BY <1>1, LuaAssumption DEF Idle, At

LEMMA LuaInitIInv == LuaInit => LuaIInv
BY IdleIsNowhere DEF LuaInit, LuaIInv, LuaTypes, Idle, Described, TableSound, Kept, Running, GoneIsLeftAlone

\* The frames of the next state.
LEMMA GoesTo ==
  ASSUME NEW c \in Conn, NEW p, frame' = [conn |-> c, at |-> p]
  PROVE  \A d \in Conn, q \in {"local", "handler", "forgotten", "returned"} : At(d, q)' <=> d = c /\ q = p
BY DEF At

LEMMA GoesIdle ==
  ASSUME frame' = NoFrame
  PROVE  Idle' /\ \A d \in Conn, q \in {"local", "handler", "forgotten", "returned"} : ~At(d, q)'
BY IdleIsNowhere, LuaAssumption DEF Idle, At, NoFrame

LEMMA AcceptCallIInv ==
  ASSUME LuaIInv, NEW c \in Conn, NEW f \in Fd, AcceptCall(c, f)
  PROVE  LuaIInv'
<1>1. /\ Idle /\ obj[c] = "none" /\ table' = table /\ used' = used
      /\ \A d \in Conn : fd[d] # f
      /\ frame' = [conn |-> c, at |-> "local"]
  BY DEF AcceptCall, Range, LuaIInv, LuaTypes
<1>2. /\ obj' \in [Conn -> {"none", "live", "closed", "freed"}]
      /\ fd' \in [Conn -> Fd \cup {NULL}]
      /\ \A d \in Conn : /\ obj'[d] = IF d = c THEN "live" ELSE obj[d]
                         /\ fd'[d] = IF d = c THEN f ELSE fd[d]
  BY DEF AcceptCall, LuaIInv, LuaTypes
<1>3. \A d \in Conn, q \in {"local", "handler", "forgotten", "returned"} : At(d, q)' <=> d = c /\ q = "local"
  BY <1>1, GoesTo
<1>4. \A d \in Conn : \A q : ~At(d, q)
  BY <1>1, IdleIsNowhere
<1>5. f # NULL
  BY LuaAssumption
<1>6. LuaTypes'
  BY <1>1, <1>2, <1>3 DEF LuaIInv, LuaTypes
<1>7. Described'
  BY <1>1, <1>2, <1>5 DEF LuaIInv, Described
<1>8. TableSound'
  BY <1>1, <1>2 DEF LuaIInv, TableSound, LuaTypes
<1>9. Kept'
  BY <1>1, <1>2, <1>3, <1>4 DEF LuaIInv, Kept
<1>10. Running'
  BY <1>2, <1>3 DEF Running
<1> QED
  BY <1>1, <1>6, <1>7, <1>8, <1>9, <1>10 DEF LuaIInv, GoneIsLeftAlone

LEMMA AcceptReturnIInv ==
  ASSUME LuaIInv, NEW c \in Conn, AcceptReturn(c)
  PROVE  LuaIInv'
<1>1. At(c, "local") /\ obj' = obj /\ fd' = fd /\ used' = used /\ frame' = NoFrame
  BY DEF AcceptReturn
<1>2. obj[c] = "live" /\ fd[c] \in Fd /\ fd[c] # NULL
  BY <1>1, LuaAssumption DEF LuaIInv, Running, Described, LuaTypes
<1>3. /\ table' \in [Fd -> Conn \cup {NULL}]
      /\ \A f \in Fd : table'[f] = IF f = fd[c] THEN c ELSE table[f]
  BY <1>2 DEF AcceptReturn, LuaIInv, LuaTypes
<1>4. Idle' /\ \A d \in Conn, q \in {"local", "handler", "forgotten", "returned"} : ~At(d, q)'
  BY <1>1, GoesIdle
<1>5. LuaTypes' /\ Described' /\ Running'
  BY <1>1, <1>3, <1>4 DEF LuaIInv, LuaTypes, Described, Running
<1>6. TableSound'
  BY <1>1, <1>2, <1>3 DEF LuaIInv, TableSound
<1>7. Kept'
  <2> SUFFICES ASSUME NEW d \in Conn, obj[d] = "live" PROVE table'[fd[d]] = d
    BY <1>1 DEF Kept
  <2>1. fd[d] \in Fd /\ fd[d] # NULL
    BY DEF LuaIInv, Described, LuaTypes
  <2>2. CASE d = c
    BY <2>1, <2>2, <1>3
  <2>3. CASE d # c
    <3>1. table[fd[d]] = d
      BY <2>3, <1>1, OnePlace DEF LuaIInv, Kept
    <3>2. fd[d] # fd[c]
      BY <2>1, <2>3 DEF LuaIInv, Described
    <3> QED
      BY <2>1, <3>1, <3>2, <1>3
  <2> QED
    BY <2>2, <2>3
<1> QED
  BY <1>1, <1>5, <1>6, <1>7 DEF LuaIInv, GoneIsLeftAlone

LEMMA CallIInv ==
  ASSUME LuaIInv, NEW c \in Conn, Call(c)
  PROVE  LuaIInv'
<1>1. /\ Idle /\ obj[c] = "live" /\ frame' = [conn |-> c, at |-> "handler"]
      /\ obj' = obj /\ fd' = fd /\ table' = table /\ used' = used
  BY DEF Call
<1>2. \A d \in Conn, q \in {"local", "handler", "forgotten", "returned"} : At(d, q)' <=> d = c /\ q = "handler"
  BY <1>1, GoesTo
<1>3. \A d \in Conn : \A q : ~At(d, q)
  BY <1>1, IdleIsNowhere
<1> QED
  BY <1>1, <1>2, <1>3 DEF LuaIInv, LuaTypes, Described, TableSound, Kept, Running, GoneIsLeftAlone

\* Where the handler stands when it moves its program counter.
LEMMA HandlerMoves ==
  ASSUME NEW c \in Conn, NEW p, NEW q, At(c, p), frame' = [frame EXCEPT !.at = q]
  PROVE  frame' = [conn |-> c, at |-> q]
BY DEF At

LEMMA EchoDataIInv ==
  ASSUME LuaIInv, NEW c \in Conn, EchoData(c)
  PROVE  LuaIInv'
<1>1. /\ At(c, "handler") /\ obj[c] = "live" /\ used' = used
      /\ obj' = obj /\ fd' = fd /\ table' = table
  BY DEF EchoData, Touched, LuaIInv, Running
<1>2. frame' = [conn |-> c, at |-> "returned"]
  BY <1>1, HandlerMoves DEF EchoData
<1>3. \A d \in Conn, q \in {"local", "handler", "forgotten", "returned"} : At(d, q)' <=> d = c /\ q = "returned"
  BY <1>2, GoesTo
<1>4. \A d \in Conn : ~At(d, "local") /\ ~At(d, "forgotten")
  BY <1>1, OnePlace
<1> QED
  BY <1>1, <1>3, <1>4 DEF LuaIInv, LuaTypes, Described, TableSound, Kept, Running, GoneIsLeftAlone

LEMMA ForgetIInv ==
  ASSUME LuaIInv, NEW c \in Conn, Forget(c)
  PROVE  LuaIInv'
<1>1. /\ At(c, "handler") /\ obj[c] = "live" /\ used' = used /\ obj' = obj /\ fd' = fd
  BY DEF Forget, Touched, LuaIInv, Running
<1>2. frame' = [conn |-> c, at |-> "forgotten"]
  BY <1>1, HandlerMoves DEF Forget
<1>3. \A d \in Conn, q \in {"local", "handler", "forgotten", "returned"} : At(d, q)' <=> d = c /\ q = "forgotten"
  BY <1>2, GoesTo
<1>4. \A d \in Conn : ~At(d, "local") /\ ~At(d, "forgotten")
  BY <1>1, OnePlace
<1>5. /\ table' \in [Fd -> Conn \cup {NULL}]
      /\ \A f \in Fd : table'[f] = IF f = fd[c] THEN NULL ELSE table[f]
  BY DEF Forget, LuaIInv, LuaTypes
<1>6. LuaTypes' /\ Described'
  BY <1>1, <1>3, <1>5 DEF LuaIInv, LuaTypes, Described
<1>7. TableSound'
  BY <1>1, <1>5 DEF LuaIInv, TableSound
<1>8. Kept'
  <2> SUFFICES ASSUME NEW d \in Conn, obj[d] = "live", d # c PROVE table'[fd[d]] = d
    BY <1>1, <1>3 DEF Kept
  <2>1. table[fd[d]] = d /\ fd[d] \in Fd
    BY <1>4 DEF LuaIInv, Kept, Described, LuaTypes
  <2>2. fd[d] # fd[c]
    BY DEF LuaIInv, Described
  <2> QED
    BY <2>1, <2>2, <1>5
<1>9. Running'
  <2>1. \A f \in Fd : table'[f] # c
    BY <1>5, LuaAssumption DEF LuaIInv, TableSound
  <2> QED
    BY <1>3, <2>1 DEF Running
<1> QED
  BY <1>1, <1>6, <1>7, <1>8, <1>9 DEF LuaIInv, GoneIsLeftAlone

LEMMA CloseIInv ==
  ASSUME LuaIInv, NEW c \in Conn, Close(c)
  PROVE  LuaIInv'
<1>1. /\ At(c, "forgotten") /\ table' = table /\ \A f \in Fd : table[f] # c
      /\ used' \subseteq used \cup {"close"}
  BY DEF Close, Touched, LuaIInv, Running
<1>2. frame' = [conn |-> c, at |-> "returned"]
  BY <1>1, HandlerMoves DEF Close
<1>3. \A d \in Conn, q \in {"local", "handler", "forgotten", "returned"} : At(d, q)' <=> d = c /\ q = "returned"
  BY <1>2, GoesTo
<1>4. \A d \in Conn : d # c => ~At(d, "local") /\ ~At(d, "forgotten")
  BY <1>1, OnePlace
<1>5. /\ obj' \in [Conn -> {"none", "live", "closed", "freed"}]
      /\ fd' \in [Conn -> Fd \cup {NULL}]
      /\ obj'[c] # "live" /\ fd'[c] = NULL
      /\ \A d \in Conn : d # c => obj'[d] = obj[d] /\ fd'[d] = fd[d]
  BY DEF Close, LuaIInv, LuaTypes
<1>6. LuaTypes'
  BY <1>1, <1>3, <1>5 DEF LuaIInv, LuaTypes
<1>7. Described'
  BY <1>5 DEF LuaIInv, Described
<1>8. TableSound'
  BY <1>1, <1>5 DEF LuaIInv, TableSound, LuaTypes
<1>9. Kept'
  BY <1>1, <1>4, <1>5 DEF LuaIInv, Kept
<1>10. Running'
  BY <1>3 DEF Running
<1> QED
  BY <1>1, <1>6, <1>7, <1>8, <1>9, <1>10 DEF LuaIInv, GoneIsLeftAlone

LEMMA ReturnIInv ==
  ASSUME LuaIInv, NEW c \in Conn, Return(c)
  PROVE  LuaIInv'
<1>1. /\ At(c, "returned") /\ frame' = NoFrame
      /\ obj' = obj /\ fd' = fd /\ table' = table /\ used' = used
  BY DEF Return
<1>2. Idle' /\ \A d \in Conn, q \in {"local", "handler", "forgotten", "returned"} : ~At(d, q)'
  BY <1>1, GoesIdle
<1>3. \A d \in Conn : ~At(d, "local") /\ ~At(d, "forgotten")
  BY <1>1, OnePlace
<1> QED
  BY <1>1, <1>2, <1>3 DEF LuaIInv, LuaTypes, Described, TableSound, Kept, Running, GoneIsLeftAlone

LEMMA CollectIInv ==
  ASSUME LuaIInv, NEW c \in Conn, Collect(c)
  PROVE  LuaIInv'
<1>1. /\ table' = table /\ frame' = frame /\ used' = used
      /\ \A f \in Fd : table[f] # c
      /\ ~At(c, "local")
  BY DEF Collect, Reachable, Range, LuaIInv, LuaTypes
<1>2. /\ obj' \in [Conn -> {"none", "live", "closed", "freed"}]
      /\ fd' \in [Conn -> Fd \cup {NULL}]
      /\ \A d \in Conn : /\ obj'[d] = IF d = c THEN "freed" ELSE obj[d]
                         /\ fd'[d] = IF d = c THEN NULL ELSE fd[d]
  BY DEF Collect, LuaIInv, LuaTypes
<1>3. \A d \in Conn : \A q : At(d, q)' <=> At(d, q)
  BY <1>1 DEF At
<1>4. LuaTypes'
  BY <1>1, <1>2, <1>3 DEF LuaIInv, LuaTypes, Idle
<1>5. Described'
  BY <1>2 DEF LuaIInv, Described
<1>6. TableSound'
  BY <1>1, <1>2 DEF LuaIInv, TableSound, LuaTypes
<1>7. Kept'
  BY <1>1, <1>2, <1>3 DEF LuaIInv, Kept
<1>8. Running'
  <2>1. ~At(c, "handler")
    <3>1. ASSUME At(c, "handler") PROVE FALSE
      <4>1. obj[c] = "live" /\ ~At(c, "forgotten")
        BY <3>1, OnePlace DEF LuaIInv, Running
      <4>2. table[fd[c]] = c /\ fd[c] \in Fd
        BY <1>1, <4>1 DEF LuaIInv, Kept, Described, LuaTypes
      <4> QED
        BY <1>1, <4>2
    <3> QED
      BY <3>1
  <2> QED
    BY <1>1, <1>2, <1>3, <2>1 DEF LuaIInv, Running
<1> QED
  BY <1>1, <1>4, <1>5, <1>6, <1>7, <1>8 DEF LuaIInv, GoneIsLeftAlone

LEMMA ReuseIInv ==
  ASSUME LuaIInv, NEW c \in Conn, Reuse(c)
  PROVE  LuaIInv'
<1>1. /\ table' = table /\ frame' = frame /\ used' = used /\ fd' = fd
      /\ obj[c] = "freed"
  BY DEF Reuse
<1>2. /\ obj' \in [Conn -> {"none", "live", "closed", "freed"}]
      /\ \A d \in Conn : obj'[d] = IF d = c THEN "none" ELSE obj[d]
  BY DEF Reuse, LuaIInv, LuaTypes
<1>3. \A d \in Conn : \A q : At(d, q)' <=> At(d, q)
  BY <1>1 DEF At
<1>4. \A d \in Conn : obj'[d] = "live" <=> obj[d] = "live"
  BY <1>1, <1>2
<1>5. LuaTypes'
  BY <1>1, <1>2, <1>3 DEF LuaIInv, LuaTypes, Idle
<1>6. Described' /\ Kept' /\ Running'
  BY <1>1, <1>3, <1>4 DEF LuaIInv, Described, Kept, Running
<1>7. TableSound'
  BY <1>1, <1>4 DEF LuaIInv, TableSound, LuaTypes
<1> QED
  BY <1>1, <1>5, <1>6, <1>7 DEF LuaIInv, GoneIsLeftAlone

LEMMA LuaNextIInv == LuaIInv /\ [LuaNext]_luaVars => LuaIInv'
<1> SUFFICES ASSUME LuaIInv, [LuaNext]_luaVars PROVE LuaIInv'
  OBVIOUS
<1>1. ASSUME NEW c \in Conn, NEW f \in Fd, AcceptCall(c, f) PROVE LuaIInv'
  BY <1>1, AcceptCallIInv
<1>2. ASSUME NEW c \in Conn, AcceptReturn(c) PROVE LuaIInv'
  BY <1>2, AcceptReturnIInv
<1>3. ASSUME NEW c \in Conn, Call(c) PROVE LuaIInv'
  BY <1>3, CallIInv
<1>4. ASSUME NEW c \in Conn, EchoData(c) PROVE LuaIInv'
  BY <1>4, EchoDataIInv
<1>5. ASSUME NEW c \in Conn, Forget(c) PROVE LuaIInv'
  BY <1>5, ForgetIInv
<1>6. ASSUME NEW c \in Conn, Close(c) PROVE LuaIInv'
  BY <1>6, CloseIInv
<1>7. ASSUME NEW c \in Conn, Return(c) PROVE LuaIInv'
  BY <1>7, ReturnIInv
<1>8. ASSUME NEW c \in Conn, Collect(c) PROVE LuaIInv'
  BY <1>8, CollectIInv
<1>9. ASSUME NEW c \in Conn, Reuse(c) PROVE LuaIInv'
  BY <1>9, ReuseIInv
<1>10. CASE UNCHANGED luaVars
  BY <1>10 DEF luaVars, LuaIInv, LuaTypes, Described, TableSound, Kept, Running, GoneIsLeftAlone, Idle, At
<1> QED
  BY <1>1, <1>2, <1>3, <1>4, <1>5, <1>6, <1>7, <1>8, <1>9, <1>10 DEF LuaNext

LEMMA LuaSpecIInv == LuaSpec => []LuaIInv
BY LuaInitIInv, LuaNextIInv, PTL DEF LuaSpec

LEMMA KeptIsReachable == LuaIInv => KeptByTable
<1> SUFFICES ASSUME LuaIInv, NEW c \in Conn, obj[c] = "live" PROVE Reachable(c) \/ At(c, "forgotten")
  BY DEF KeptByTable
<1>1. fd[c] \in Fd /\ (table[fd[c]] = c \/ At(c, "local") \/ At(c, "forgotten"))
  BY DEF LuaIInv, LuaTypes, Described, Kept
<1> QED
  BY <1>1 DEF Reachable, Range, LuaIInv, LuaTypes

\* An entry of conn_table is a live connection under its own descriptor, for any number of
\* connections and whenever their descriptors are used again.
THEOREM TableIsSound == LuaSpec => []TableSound
BY LuaSpecIInv, PTL DEF LuaIInv

\* The collector never ends a live connection before its handler has forgotten it.
THEOREM CollectorSpares == LuaSpec => []KeptByTable
BY LuaSpecIInv, KeptIsReachable, PTL

\* Nothing but close() is ever called on a connection that the collector has taken.
THEOREM OnlyCloseIsLate == LuaSpec => []GoneIsLeftAlone
BY LuaSpecIInv, PTL DEF LuaIInv

=============================================================================
