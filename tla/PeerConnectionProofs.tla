------------------------ MODULE PeerConnectionProofs ------------------------
(***************************************************************************)
(* Proofs that the echo server and the clients keep the stream of their    *)
(* peer, for streams of any length, any token bucket, with a timeout and   *)
(* without; and that the handler shared by a pair of connections, which    *)
(* plays ping-pong with itself, survives when it closes both.              *)
(***************************************************************************)
EXTENDS PeerConnection, ConnectionPair, SequenceTheorems, TLAPS

Byte == Nat
Bytes == Seq(Byte)

TypeOK ==
  /\ program \in Program
  /\ peer \in {"none", "refused", "open", "shut", "reset"}
  /\ sent \in 0 .. MaxBytes
  /\ inbound \in Bytes /\ outbound \in Bytes /\ received \in Bytes /\ printed \in Bytes
  /\ input \in Bytes /\ output \in Bytes
  /\ enabled \subseteq {"read", "write"}
  /\ tokens \in 0 .. Burst
  /\ readPending \in BOOLEAN /\ writePending \in BOOLEAN
  /\ what \subseteq {"CONNECTED", "EOF", "ERROR", "TIMEOUT"}
  /\ phase \in {"none", "connected", "read", "write", "event"}
  /\ conn \in {"open", "eof", "error", "timeout"}

------------------------------------------------------------------------------
(* The inductive invariant. *)

\* Where the bytes are: on their way to the program, or back to the peer.
Coming == input \o inbound
Written == received \o outbound
Back == Written \o output

Whole == conn = "open" /\ peer # "reset"

\* The server's stream, from the peer's program through the server and back.
EchoInv ==
  /\ Whole => Back \o Coming = Sequence(sent)
  /\ IsPrefix(Written, Sequence(sent))

\* A client's stream ends in what it has printed; what it writes is the request.
PrintInv ==
  /\ Whole => printed \o Coming = Sequence(sent)
  /\ IsPrefix(printed \o Coming, Sequence(sent))
  /\ Whole => Back = <<Request>>
  /\ IsPrefix(Written, <<Request>>)

\* Data in the input announces itself; the end of the file was found behind the last of it.
EofInv ==
  /\ input # <<>> => readPending
  /\ phase \in {"write", "event"} => ~readPending
  /\ "EOF" \in what => /\ peer \in {"shut", "reset"} /\ "read" \notin enabled
                       /\ peer = "shut" => inbound = <<>>

IInv ==
  /\ TypeOK
  /\ Server => EchoInv
  /\ ~Server => PrintInv
  /\ EofInv

------------------------------------------------------------------------------
(* Sequences: how they are cut and joined, and their beginnings.              *)

LEMMA Joined ==
  ASSUME NEW S, NEW a \in Seq(S), NEW b \in Seq(S)
  PROVE  /\ a \o b \in Seq(S) /\ Len(a \o b) = Len(a) + Len(b)
         /\ Len(a) \in Nat /\ Len(b) \in Nat
         /\ a \o <<>> = a /\ <<>> \o a = a
BY ConcatProperties, ConcatEmptySeq, LenProperties

LEMMA Regroup ==
  ASSUME NEW S
  PROVE  \A a, b, c \in Seq(S) : (a \o b) \o c = a \o (b \o c)
BY ConcatAssociative

LEMMA Cut ==
  ASSUME NEW S, NEW a \in Seq(S), NEW k \in 0 .. Len(a)
  PROVE  /\ SubSeq(a, 1, k) \in Seq(S) /\ SubSeq(a, k + 1, Len(a)) \in Seq(S)
         /\ SubSeq(a, 1, k) \o SubSeq(a, k + 1, Len(a)) = a
<1>1. Len(a) \in Nat /\ \A i \in 1 .. Len(a) : a[i] \in S
  BY LenProperties, ElementOfSeq
<1>2. SubSeq(a, 1, k) \in Seq(S)
  BY <1>1, SubSeqProperties
<1>3. SubSeq(a, k + 1, Len(a)) \in Seq(S)
  BY <1>1, SubSeqProperties
<1>4. 1 \in 1 .. Len(a) + 1 /\ k \in 1 - 1 .. Len(a) /\ Len(a) \in k .. Len(a)
  BY <1>1
<1>5. SubSeq(a, 1, k) \o SubSeq(a, k + 1, Len(a)) = SubSeq(a, 1, Len(a))
  BY <1>4, ConcatAdjacentSubSeq
<1> QED
  BY <1>2, <1>3, <1>5, SubSeqFull

\* Bytes that move from the front of one buffer to the end of the one before it.
LEMMA CutOver ==
  ASSUME NEW S, NEW a \in Seq(S), NEW b \in Seq(S), NEW k \in 0 .. Len(b)
  PROVE  /\ a \o SubSeq(b, 1, k) \in Seq(S) /\ SubSeq(b, k + 1, Len(b)) \in Seq(S)
         /\ (a \o SubSeq(b, 1, k)) \o SubSeq(b, k + 1, Len(b)) = a \o b
<1> DEFINE c == SubSeq(b, 1, k)
           d == SubSeq(b, k + 1, Len(b))
<1> HIDE DEF c, d
<1>1. c \in Seq(S) /\ d \in Seq(S)
  BY Cut DEF c, d
<1>2. (a \o c) \o d = a \o (c \o d)
  <2>1. \A x, y, z \in Seq(S) : (x \o y) \o z = x \o (y \o z)
    BY Regroup
  <2> QED
    BY <1>1, <2>1, Zenon
<1>3. a \o c \in Seq(S)
  BY <1>1, Joined
<1>4. c \o d = b
  BY Cut DEF c, d
<1> QED
  BY <1>1, <1>2, <1>3, <1>4 DEF c, d

LEMMA AppendOver ==
  ASSUME NEW S, NEW a \in Seq(S), NEW b \in Seq(S), b # <<>>
  PROVE  /\ Append(a, Head(b)) \in Seq(S) /\ Tail(b) \in Seq(S)
         /\ Append(a, Head(b)) \o Tail(b) = a \o b
<1>1. Len(b) \in Nat /\ 1 \in 0 .. Len(b) /\ 1 \in 1 .. Len(b)
  BY EmptySeq, LenProperties
<1>2. Head(b) \in S /\ Tail(b) \in Seq(S) /\ Head(b) = b[1]
  BY HeadTailProperties
<1>3. Tail(b) = SubSeq(b, 2, Len(b))
  BY TailIsSubSeq
<1>4. SubSeq(b, 1, 1) = <<b[1]>>
  <2>1. SubSeq(b, 1, 1) = <<b[1]>> \o SubSeq(b, 1 + 1, 1)
    BY <1>1, SubSeqRecursiveFirst
  <2>2. SubSeq(b, 1 + 1, 1) = <<>>
    BY SubSeqEmpty
  <2> DEFINE first == <<b[1]>>
  <2>3. first \in Seq(S)
    BY <1>2
  <2> HIDE DEF first
  <2>4. first \o <<>> = first
    BY <2>3, Joined
  <2> QED
    BY <2>1, <2>2, <2>4 DEF first
<1>5. Append(a, Head(b)) = a \o <<Head(b)>>
  BY <1>2, AppendIsConcat
<1>6. /\ a \o SubSeq(b, 1, 1) \in Seq(S)
      /\ (a \o SubSeq(b, 1, 1)) \o SubSeq(b, 1 + 1, Len(b)) = a \o b
  BY <1>1, CutOver
<1> QED
  BY <1>2, <1>3, <1>4, <1>5, <1>6

LEMMA AppendBehind ==
  ASSUME NEW S, NEW a \in Seq(S), NEW b \in Seq(S), NEW x \in S
  PROVE  a \o Append(b, x) = Append(a \o b, x) /\ Append(b, x) \in Seq(S)
<1> DEFINE last == <<x>>
<1>1. last \in Seq(S) /\ a \o b \in Seq(S) /\ Append(b, x) \in Seq(S)
  BY Joined, AppendProperties
<1>2. Append(b, x) = b \o last /\ Append(a \o b, x) = (a \o b) \o last
  BY <1>1, AppendIsConcat
<1> HIDE DEF last
<1>3. (a \o b) \o last = a \o (b \o last)
  BY <1>1, Regroup
<1> QED
  BY <1>1, <1>2, <1>3

LEMMA PrefixIsBeginning ==
  ASSUME NEW S, NEW a \in Seq(S), NEW b \in Seq(S)
  PROVE  IsPrefix(a, b) <=> Len(a) <= Len(b) /\ \A i \in 1 .. Len(a) : a[i] = b[i]
<1>1. /\ Len(a) \in Nat /\ Len(b) \in Nat
      /\ \A i \in 1 .. Len(b) : b[i] \in S
  BY LenProperties, ElementOfSeq
<1>2. SubSeq(a, 1, Len(a)) = a
  BY SubSeqFull
<1>3. ASSUME Len(a) <= Len(b)
      PROVE  a = SubSeq(b, 1, Len(a)) <=> \A i \in 1 .. Len(a) : a[i] = b[i]
  <2>1. /\ SubSeq(b, 1, Len(a)) \in Seq(S) /\ Len(SubSeq(b, 1, Len(a))) = Len(a)
        /\ \A i \in 1 .. Len(a) : SubSeq(b, 1, Len(a))[i] = b[i]
    BY <1>1, <1>3, SubSeqProperties
  <2> QED
    BY <2>1, SeqEqual
<1> QED
  BY <1>1, <1>2, <1>3 DEF IsPrefix

LEMMA PrefixOfItself ==
  ASSUME NEW S, NEW a \in Seq(S)
  PROVE  IsPrefix(a, a)
BY PrefixIsBeginning, LenProperties

LEMMA PrefixOfMore ==
  ASSUME NEW S, NEW a \in Seq(S), NEW b \in Seq(S), NEW x \in S, IsPrefix(a, b)
  PROVE  IsPrefix(a, Append(b, x))
<1>1. Len(a) <= Len(b) /\ \A i \in 1 .. Len(a) : a[i] = b[i]
  BY PrefixIsBeginning
<1>2. Len(a) \in Nat /\ Len(b) \in Nat
  BY LenProperties
<1> DEFINE c == Append(b, x)
<1>3. /\ c \in Seq(S) /\ Len(c) = Len(b) + 1
      /\ \A i \in 1 .. Len(b) : c[i] = b[i]
  BY AppendProperties
<1> HIDE DEF c
<1>4. Len(a) <= Len(c) /\ \A i \in 1 .. Len(a) : a[i] = c[i]
  BY <1>1, <1>2, <1>3
<1>5. IsPrefix(a, c)
  BY <1>3, <1>4, PrefixIsBeginning
<1> QED
  BY <1>5 DEF c

LEMMA PrefixOfPart ==
  ASSUME NEW S, NEW a \in Seq(S), NEW b \in Seq(S), NEW c \in Seq(S), IsPrefix(a \o b, c)
  PROVE  IsPrefix(a, c)
<1>1. Len(a) \in Nat /\ Len(b) \in Nat /\ Len(c) \in Nat
  BY LenProperties
<1>2. /\ a \o b \in Seq(S) /\ Len(a \o b) = Len(a) + Len(b)
      /\ \A i \in 1 .. Len(a) : (a \o b)[i] = a[i]
  BY <1>1, ConcatProperties
<1> DEFINE ab == a \o b
<1> HIDE DEF ab
<1>3. Len(ab) <= Len(c) /\ \A i \in 1 .. Len(ab) : ab[i] = c[i]
  BY <1>2, PrefixIsBeginning DEF ab
<1>4. Len(a) <= Len(ab) /\ \A i \in 1 .. Len(a) : i \in 1 .. Len(ab) /\ ab[i] = a[i]
  BY <1>1, <1>2 DEF ab
<1>5. Len(a) <= Len(c) /\ \A i \in 1 .. Len(a) : a[i] = c[i]
  BY <1>1, <1>2, <1>3, <1>4 DEF ab
<1> QED
  BY <1>5, PrefixIsBeginning

LEMMA SequenceGrows ==
  ASSUME NEW n \in Nat
  PROVE  /\ Sequence(n) \in Bytes /\ Len(Sequence(n)) = n
         /\ Sequence(n + 1) = Append(Sequence(n), n + 1)
<1>1. \A m \in Nat : Sequence(m) \in Bytes /\ Len(Sequence(m)) = m
  BY DEF Sequence, Bytes, Byte
<1>2. /\ Append(Sequence(n), n + 1) \in Bytes /\ Len(Append(Sequence(n), n + 1)) = n + 1
      /\ \A i \in 1 .. n : Append(Sequence(n), n + 1)[i] = i
      /\ Append(Sequence(n), n + 1)[n + 1] = n + 1
  BY <1>1, AppendProperties DEF Sequence, Bytes, Byte
<1>3. n + 1 \in Nat /\ \A i \in 1 .. n + 1 : Sequence(n + 1)[i] = Append(Sequence(n), n + 1)[i]
  BY <1>2 DEF Sequence
<1>4. Sequence(n + 1) = Append(Sequence(n), n + 1)
  BY <1>1, <1>2, <1>3, SeqEqual DEF Bytes
<1> QED
  BY <1>1, <1>4

------------------------------------------------------------------------------
(* What each step does to the buffers.                                        *)

LEMMA Typed ==
  ASSUME TypeOK
  PROVE  /\ sent \in Nat /\ Sequence(sent) \in Bytes
         /\ Coming \in Bytes /\ Written \in Bytes /\ Back \in Bytes
         /\ printed \o Coming \in Bytes /\ Back \o Coming \in Bytes
<1>1. sent \in Nat
  BY PeerAssumption DEF TypeOK
<1>2. Coming \in Bytes /\ Written \in Bytes
  BY Joined DEF TypeOK, Coming, Written, Bytes
<1>3. Back \in Bytes
  BY <1>2, Joined DEF TypeOK, Back, Bytes
<1>4. printed \o Coming \in Bytes
  BY <1>2, Joined DEF TypeOK, Bytes
<1>5. Back \o Coming \in Bytes
  BY <1>2, <1>3, Joined DEF Bytes
<1> QED
  BY <1>1, <1>2, <1>3, <1>4, <1>5, SequenceGrows

LEMMA TypedNext ==
  ASSUME TypeOK'
  PROVE  Coming' \in Bytes /\ Written' \in Bytes /\ Back' \in Bytes /\ sent' \in Nat
<1>1. Coming' \in Bytes /\ Written' \in Bytes
  BY Joined DEF TypeOK, Coming, Written, Bytes
<1>2. Back' \in Bytes
  BY <1>1, Joined DEF TypeOK, Back, Bytes
<1> QED
  BY <1>1, <1>2, PeerAssumption DEF TypeOK

LEMMA SendAdds ==
  ASSUME TypeOK, Send
  PROVE  /\ sent' = sent + 1 /\ sent' \in 0 .. MaxBytes
         /\ inbound' \in Bytes
         /\ conn = "open" => Coming' = Append(Coming, sent + 1)
         /\ conn # "open" => inbound' = inbound
<1>1. sent + 1 \in Nat /\ sent' = sent + 1 /\ sent' \in 0 .. MaxBytes
  BY PeerAssumption DEF TypeOK, Send
<1>2. CASE conn = "open"
  <2>1. inbound' = Append(inbound, sent + 1) /\ input' = input
    BY <1>2 DEF Send, bev
  <2>2. inbound \in Bytes /\ input \in Bytes
    BY DEF TypeOK
  <2> QED
    BY <1>1, <1>2, <2>1, <2>2, AppendBehind DEF Coming, Bytes, Byte
<1>3. CASE conn # "open"
  BY <1>1, <1>3 DEF Send, TypeOK
<1> QED
  BY <1>2, <1>3

LEMMA CutOverBytes ==
  ASSUME NEW a \in Bytes, NEW b \in Bytes, NEW k \in 0 .. Len(b)
  PROVE  /\ a \o SubSeq(b, 1, k) \in Bytes /\ SubSeq(b, k + 1, Len(b)) \in Bytes
         /\ (a \o SubSeq(b, 1, k)) \o SubSeq(b, k + 1, Len(b)) = a \o b
BY CutOver DEF Bytes

LEMMA RegroupBytes ==
  \A a, b, c \in Bytes : (a \o b) \o c = a \o (b \o c)
BY ConcatAssociative DEF Bytes

LEMMA InputThenInbound ==
  ASSUME TypeOK, NEW a \in Bytes
  PROVE  (a \o input) \o inbound = a \o (input \o inbound)
<1>1. input \in Bytes /\ inbound \in Bytes
  BY DEF TypeOK
<1> QED
  BY <1>1, RegroupBytes

LEMMA ReceiveKeeps ==
  ASSUME TypeOK, Receive
  PROVE  received' \in Bytes /\ outbound' \in Bytes /\ Written' = Written
BY AppendOver DEF TypeOK, Receive, Written, Bytes

LEMMA ReadKeeps ==
  ASSUME TypeOK, ReadSocket
  PROVE  input' \in Bytes /\ inbound' \in Bytes /\ Coming' = Coming
<1>1. PICK k \in 1 .. Len(inbound) :
        /\ input' = input \o SubSeq(inbound, 1, k)
        /\ inbound' = SubSeq(inbound, k + 1, Len(inbound))
  BY DEF ReadSocket
<1>2. input \in Bytes /\ inbound \in Bytes /\ k \in 0 .. Len(inbound)
  BY DEF TypeOK
<1>3. /\ input \o SubSeq(inbound, 1, k) \in Bytes /\ SubSeq(inbound, k + 1, Len(inbound)) \in Bytes
      /\ (input \o SubSeq(inbound, 1, k)) \o SubSeq(inbound, k + 1, Len(inbound)) = input \o inbound
  BY <1>2, CutOverBytes
<1> QED
  BY <1>1, <1>3, Zenon DEF Coming

\* The token bucket is not overdrawn.
LEMMA TokensLast ==
  ASSUME TypeOK, ReadSocket
  PROVE  tokens' \in 0 .. Burst
<1>1. PICK k \in 1 .. Len(inbound) :
        k <= Allowance /\ tokens' = IF program.limited THEN tokens - k ELSE tokens
  BY DEF ReadSocket
<1>2. Len(inbound) \in Nat
  BY LenProperties DEF TypeOK, Bytes
<1> QED
  BY <1>1, <1>2, PeerAssumption DEF TypeOK, Allowance

LEMMA WriteKeeps ==
  ASSUME TypeOK, WriteSocket
  PROVE  outbound' \in Bytes /\ output' \in Bytes /\ Back' = Back
<1>1. PICK k \in 1 .. Len(output) :
        /\ outbound' = outbound \o SubSeq(output, 1, k)
        /\ output' = SubSeq(output, k + 1, Len(output))
  BY DEF WriteSocket
<1>2. k \in 0 .. Len(output) /\ output \in Bytes /\ outbound \in Bytes /\ received \in Bytes
  BY DEF TypeOK
<1>3. received' = received
  BY DEF WriteSocket
<1>4. /\ outbound \o SubSeq(output, 1, k) \in Bytes /\ SubSeq(output, k + 1, Len(output)) \in Bytes
      /\ (outbound \o SubSeq(output, 1, k)) \o SubSeq(output, k + 1, Len(output)) = outbound \o output
  BY <1>2, CutOverBytes
<1>5. outbound' \in Bytes /\ output' \in Bytes /\ outbound' \o output' = outbound \o output
  BY <1>1, <1>4, Zenon
<1>6. outbound' \in Bytes /\ output' \in Bytes
  BY <1>5
<1>7. (received \o outbound) \o output = received \o (outbound \o output)
  BY <1>2, RegroupBytes
<1>8. (received \o outbound') \o output' = received \o (outbound' \o output')
  BY <1>2, <1>6, RegroupBytes
<1>9. Back' = Back
  BY <1>3, <1>5, <1>7, <1>8, Zenon DEF Back, Written
<1> QED
  BY <1>6, <1>9

LEMMA EchoKeeps ==
  ASSUME TypeOK, Echo, inbound' = inbound, outbound' = outbound, received' = received
  PROVE  input' \in Bytes /\ output' \in Bytes /\ Back' \o Coming' = Back \o Coming
<1>1. /\ input \in Bytes /\ output \in Bytes /\ inbound \in Bytes
      /\ Written \in Bytes /\ Back \in Bytes /\ Written' = Written
  BY Typed DEF TypeOK, Written
<1>2. input' = <<>> /\ output' = output \o input
  BY DEF Echo
<1>3. <<>> \in Bytes /\ output \o input \in Bytes /\ Coming' = inbound
  BY <1>1, <1>2, Joined DEF Coming, Bytes
<1>4. (Written \o output) \o input = Written \o (output \o input)
  BY <1>1, RegroupBytes
<1>5. (Back \o input) \o inbound = Back \o (input \o inbound)
  BY <1>1, RegroupBytes
<1>6. Back' = Back \o input
  BY <1>1, <1>2, <1>4, Zenon DEF Back
<1> QED
  BY <1>2, <1>3, <1>5, <1>6, Zenon DEF Coming

LEMMA PrintKeeps ==
  ASSUME TypeOK, PrintAll, inbound' = inbound
  PROVE  input' \in Bytes /\ printed' \in Bytes /\ printed' \o Coming' = printed \o Coming
<1>1. input \in Bytes /\ printed \in Bytes /\ inbound \in Bytes
  BY DEF TypeOK
<1>2. input' = <<>> /\ printed' = printed \o input
  BY DEF PrintAll
<1>3. <<>> \in Bytes /\ printed \o input \in Bytes /\ Coming' = inbound
  BY <1>1, <1>2, Joined DEF Coming, Bytes
<1>4. (printed \o input) \o inbound = printed \o (input \o inbound)
  BY <1>1, RegroupBytes
<1> QED
  BY <1>2, <1>3, <1>4, Zenon DEF Coming

------------------------------------------------------------------------------
(* Types.                                                                     *)

LEMMA TypeInit == Init => TypeOK
<1> SUFFICES ASSUME Init PROVE TypeOK
  OBVIOUS
<1>1. <<>> \in Bytes /\ <<Request>> \in Bytes
  BY DEF Bytes, Byte, Request
<1>2. output \in Bytes /\ peer \in {"none", "open"}
  BY <1>1 DEF Init
<1>3. Burst \in 0 .. Burst /\ 0 \in 0 .. MaxBytes
  BY PeerAssumption
<1> QED
  BY <1>1, <1>2, <1>3 DEF Init, TypeOK

LEMMA TypeNext == TypeOK /\ [Next]_vars => TypeOK'
<1> SUFFICES ASSUME TypeOK, [Next]_vars PROVE TypeOK'
  OBVIOUS
<1>0. <<>> \in Bytes
  BY DEF Bytes
<1>1. CASE Send
  BY <1>1, SendAdds DEF Send, TypeOK, bev, pending, handled
<1>2. CASE Shutdown
  BY <1>2 DEF Shutdown, TypeOK, bev, pending, handled
<1>3. CASE Reset
  BY <1>0, <1>3 DEF Reset, TypeOK, bev, pending, handled
<1>4. CASE Receive
  BY <1>4, ReceiveKeeps DEF Receive, TypeOK, bev, pending, handled
<1>5. CASE Connect
  BY <1>5 DEF Connect, TypeOK, handled
<1>6. CASE ReadSocket
  BY <1>6, ReadKeeps, TokensLast DEF ReadSocket, TypeOK, handled
<1>7. CASE Refill
  BY <1>7, PeerAssumption DEF Refill, TypeOK, wires, pending, handled
<1>8. CASE WriteSocket
  <2>1. writePending' \in BOOLEAN
    BY <1>8 DEF WriteSocket, TypeOK
  <2> QED
    BY <1>8, <2>1, WriteKeeps DEF WriteSocket, TypeOK, handled
<1>9. CASE WriteFails
  BY <1>9 DEF WriteFails, TypeOK, wires, handled
<1>10. ASSUME NEW flag \in {"EOF", "ERROR", "TIMEOUT"}, StopReading(flag) PROVE TypeOK'
  BY <1>10 DEF StopReading, TypeOK, wires, handled
<1>11. CASE StartDeferred
  BY <1>11 DEF StartDeferred, TypeOK, wires, bev, pending
<1>12. CASE HandleConnected
  BY <1>12 DEF HandleConnected, Callback, After, TypeOK, wires, bev
<1>13. CASE HandleRead
  <2>1. /\ phase' = "write" /\ readPending' = FALSE
        /\ UNCHANGED <<program, wires, enabled, tokens, writePending, what, conn, reported>>
    BY <1>13 DEF HandleRead, Callback, After
  <2>2. input' \in Bytes /\ output' \in Bytes /\ printed' \in Bytes
    BY <1>13, <2>1, EchoKeeps, PrintKeeps DEF HandleRead, TypeOK, wires
  <2> QED
    BY <2>1, <2>2 DEF TypeOK, wires
<1>14. CASE HandleWrite
  BY <1>14 DEF HandleWrite, Callback, After, TypeOK, wires, bev
<1>15. CASE HandleEvent
  <2>1. conn' \in {conn, "eof", "error", "timeout"}
    BY <1>15 DEF HandleEvent, EventCode
  <2> QED
    BY <1>0, <1>15, <2>1 DEF HandleEvent, TypeOK
<1>16. CASE UNCHANGED vars
  BY <1>16 DEF vars, TypeOK, wires, bev, pending, handled
<1> QED
  BY <1>1, <1>2, <1>3, <1>4, <1>5, <1>6, <1>7, <1>8, <1>9, <1>10, <1>11, <1>12, <1>13, <1>14,
     <1>15, <1>16 DEF Next

------------------------------------------------------------------------------
(* The end of the file comes after the data.                                  *)

LEMMA EofNext == TypeOK /\ EofInv /\ [Next]_vars => EofInv'
<1> SUFFICES ASSUME TypeOK, EofInv, [Next]_vars PROVE EofInv'
  OBVIOUS
<1>1. CASE Send
  BY <1>1 DEF Send, EofInv, bev, pending, handled
<1>2. CASE Shutdown
  BY <1>2 DEF Shutdown, EofInv, bev, pending, handled
<1>3. CASE Reset
  BY <1>3 DEF Reset, EofInv, bev, pending, handled
<1>4. CASE Receive
  BY <1>4 DEF Receive, EofInv, bev, pending, handled
<1>5. CASE Connect
  BY <1>5 DEF Connect, EofInv, handled
<1>6. CASE ReadSocket
  <2>1. "read" \in enabled /\ phase = "none" /\ readPending'
    BY <1>6 DEF ReadSocket, CanRead, Idle
  <2>2. "EOF" \notin what
    BY <2>1 DEF EofInv
  <2> QED
    BY <1>6, <2>1, <2>2 DEF ReadSocket, EofInv, handled
<1>7. CASE Refill
  BY <1>7 DEF Refill, EofInv, wires, pending, handled
<1>8. CASE WriteSocket
  BY <1>8 DEF WriteSocket, EofInv, handled
<1>9. CASE WriteFails
  BY <1>9 DEF WriteFails, EofInv, wires, handled
<1>10. ASSUME NEW flag \in {"EOF", "ERROR", "TIMEOUT"}, StopReading(flag) PROVE EofInv'
  BY <1>10 DEF StopReading, CanRead, EofInv, wires, handled
<1>11. CASE StartDeferred
  BY <1>11 DEF StartDeferred, EofInv, wires, bev, pending
<1>12. CASE HandleConnected
  BY <1>12 DEF HandleConnected, Callback, After, EofInv, wires, bev
<1>13. CASE HandleRead
  <2>1. input' = <<>>
    BY <1>13 DEF HandleRead, Echo, PrintAll, EofInv
  <2> QED
    BY <1>13, <2>1 DEF HandleRead, EofInv, wires
<1>14. CASE HandleWrite
  BY <1>14 DEF HandleWrite, Callback, After, EofInv, wires, bev
<1>15. CASE HandleEvent
  BY <1>15 DEF HandleEvent, Callback, EofInv
<1>16. CASE UNCHANGED vars
  BY <1>16 DEF vars, EofInv, wires, bev, pending, handled
<1> QED
  BY <1>1, <1>2, <1>3, <1>4, <1>5, <1>6, <1>7, <1>8, <1>9, <1>10, <1>11, <1>12, <1>13, <1>14,
     <1>15, <1>16 DEF Next

------------------------------------------------------------------------------
(* The stream of the server.                                                  *)

\* The steps that touch no buffer between the peer's program and the handlers.
Apart ==
  \/ Shutdown \/ Connect \/ Refill \/ WriteFails \/ StartDeferred \/ HandleConnected \/ HandleWrite
  \/ \E flag \in {"EOF", "ERROR", "TIMEOUT"} : StopReading(flag)
  \/ UNCHANGED vars

LEMMA ApartKeeps ==
  ASSUME TypeOK, Apart
  PROVE  /\ UNCHANGED <<program, sent, printed, conn, inbound, outbound, received, input, output>>
         /\ Whole' <=> Whole
<1>1. UNCHANGED <<program, sent, printed, conn, inbound, outbound, received, input, output>>
  BY DEF Apart, Shutdown, Connect, Refill, WriteFails, StartDeferred, HandleConnected, HandleWrite,
         StopReading, wires, bev, pending, handled, vars
<1>2. peer' = "reset" <=> peer = "reset"
  BY DEF Apart, Shutdown, Connect, Refill, WriteFails, StartDeferred, HandleConnected, HandleWrite,
         StopReading, wires, bev, pending, handled, vars
<1> QED
  BY <1>1, <1>2 DEF Whole

LEMMA Steps ==
  [Next]_vars <=> \/ Apart \/ Send \/ Reset \/ Receive \/ ReadSocket \/ WriteSocket
                  \/ HandleRead \/ HandleEvent
BY DEF Next, Apart

\* What comes before other parts of a stream is a beginning of it.
LEMMA FirstBegins ==
  ASSUME NEW a \in Bytes, NEW b \in Bytes, NEW c \in Bytes
  PROVE  IsPrefix(a, a \o b) /\ IsPrefix(a, (a \o b) \o c)
<1>1. a \o b \in Bytes /\ (a \o b) \o c \in Bytes
  BY Joined DEF Bytes
<1>2. IsPrefix(a \o b, a \o b) /\ IsPrefix((a \o b) \o c, (a \o b) \o c)
  BY <1>1, PrefixOfItself DEF Bytes
<1>3. IsPrefix(a, a \o b)
  BY <1>1, <1>2, PrefixOfPart DEF Bytes
<1>4. IsPrefix(a \o b, (a \o b) \o c)
  BY <1>1, <1>2, PrefixOfPart DEF Bytes
<1> QED
  BY <1>1, <1>3, <1>4, PrefixOfPart DEF Bytes

\* A longer stream begins with what a shorter one began with.
LEMMA StillBegins ==
  ASSUME NEW n \in Nat, NEW s \in Bytes, IsPrefix(s, Sequence(n))
  PROVE  IsPrefix(s, Sequence(n + 1))
<1>1. /\ Sequence(n) \in Bytes /\ n + 1 \in Byte
      /\ Sequence(n + 1) = Append(Sequence(n), n + 1)
  BY SequenceGrows DEF Byte
<1>2. IsPrefix(s, Append(Sequence(n), n + 1))
  BY <1>1, PrefixOfMore DEF Bytes
<1> QED
  BY <1>1, <1>2

LEMMA EchoNext ==
  ASSUME TypeOK, TypeOK', Server, EchoInv, [Next]_vars
  PROVE  EchoInv'
<1> USE Typed
<1>1. CASE Apart
  BY <1>1, ApartKeeps DEF EchoInv, Back, Written, Coming
<1>2. CASE Send
  <2>1. Written' = Written /\ Back' = Back /\ (Whole' <=> Whole)
    BY <1>2 DEF Send, bev, handled, Written, Back, Whole
  <2>2. IsPrefix(Written, Sequence(sent'))
    BY <1>2, SendAdds, StillBegins DEF EchoInv
  <2>3. ASSUME Whole PROVE Back \o Coming' = Sequence(sent')
    <3>1. Back \o Coming = Sequence(sent) /\ Coming' = Append(Coming, sent + 1) /\ sent' = sent + 1
      BY <1>2, <2>3, SendAdds DEF Whole, EchoInv
    <3> Back \in Bytes /\ Coming \in Bytes /\ sent \in Nat /\ sent + 1 \in Byte
      BY Typed DEF Byte
    <3>2. Back \o Append(Coming, sent + 1) = Append(Back \o Coming, sent + 1)
      BY AppendBehind DEF Bytes
    <3>3. Sequence(sent + 1) = Append(Sequence(sent), sent + 1)
      BY SequenceGrows
    <3> QED
      BY <3>1, <3>2, <3>3
  <2> QED
    BY <2>1, <2>2, <2>3 DEF EchoInv
<1>3. CASE Reset
  <2>1. ~Whole' /\ received' = received /\ outbound' = <<>> /\ sent' = sent
    BY <1>3 DEF Reset, Whole
  <2>2. received \in Bytes /\ outbound \in Bytes
    BY DEF TypeOK
  <2>3. IsPrefix(received, Sequence(sent))
    BY <2>2, PrefixOfPart DEF EchoInv, Written, Bytes
  <2>4. received \o <<>> = received
    BY <2>2, Joined DEF Bytes
  <2>5. Written' = received
    BY <2>1, <2>4 DEF Written
  <2> QED
    BY <2>1, <2>3, <2>5 DEF EchoInv
<1>4. CASE Receive
  <2>1. Written' = Written /\ sent' = sent /\ output' = output /\ Coming' = Coming /\ (Whole' <=> Whole)
    BY <1>4, ReceiveKeeps DEF Receive, bev, handled, Coming, Whole
  <2> QED
    BY <2>1 DEF EchoInv, Back
<1>5. CASE ReadSocket
  <2>1. /\ Coming' = Coming /\ Written' = Written /\ sent' = sent /\ Back' = Back /\ (Whole' <=> Whole)
    BY <1>5, ReadKeeps DEF ReadSocket, handled, Written, Back, Whole
  <2> QED
    BY <2>1 DEF EchoInv
<1>6. CASE WriteSocket
  <2>1. Back' = Back /\ Coming' = Coming /\ sent' = sent /\ Whole
    BY <1>6, WriteKeeps DEF WriteSocket, CanWrite, Idle, Coming, Whole
  <2>2. Back' \o Coming' = Sequence(sent')
    BY <2>1 DEF EchoInv
  <2>3. Written' \in Bytes /\ output' \in Bytes /\ Coming' \in Bytes
    BY <2>1, TypedNext DEF TypeOK
  <2>4. IsPrefix(Written', (Written' \o output') \o Coming')
    BY <2>3, FirstBegins
  <2>5. Back' = Written' \o output'
    BY DEF Back
  <2> QED
    BY <2>2, <2>4, <2>5 DEF EchoInv
<1>7. CASE HandleRead
  <2>1. /\ sent' = sent /\ Written' = Written /\ (Whole' <=> Whole)
        /\ inbound' = inbound /\ outbound' = outbound /\ received' = received
    BY <1>7 DEF HandleRead, wires, Written, Whole
  <2>2. Back' \o Coming' = Back \o Coming
    <3>1. CASE Echo
      BY <2>1, <3>1, EchoKeeps
    <3>2. CASE input' = input /\ output' = output
      BY <2>1, <3>2 DEF Back, Coming
    <3> QED
      BY <1>7, <3>1, <3>2 DEF HandleRead
  <2> QED
    BY <2>1, <2>2 DEF EchoInv
<1>8. CASE HandleEvent
  <2>1. sent' = sent /\ Written' = Written /\ peer' = peer
    BY <1>8 DEF HandleEvent, Written
  <2>2. CASE conn' = "open"
    <3>1. conn = "open" /\ UNCHANGED <<input, output, inbound>>
      BY <1>8, <2>2 DEF HandleEvent, Callback, EventCode
    <3> QED
      BY <2>1, <2>2, <3>1 DEF EchoInv, Whole, Back, Coming
  <2>3. CASE conn' # "open"
    BY <2>1, <2>3 DEF EchoInv, Whole
  <2> QED
    BY <2>2, <2>3
<1> QED
  BY <1>1, <1>2, <1>3, <1>4, <1>5, <1>6, <1>7, <1>8, Steps

------------------------------------------------------------------------------
(* The stream of a client.                                                    *)

LEMMA PrintNext ==
  ASSUME TypeOK, TypeOK', ~Server, PrintInv, [Next]_vars
  PROVE  PrintInv'
<1>1. CASE Apart
  BY <1>1, ApartKeeps DEF PrintInv, Back, Written, Coming
<1>2. CASE Send
  <2>1. /\ Written' = Written /\ Back' = Back /\ printed' = printed /\ input' = input
        /\ (Whole' <=> Whole)
    BY <1>2 DEF Send, bev, handled, Written, Back, Whole
  <2>2. sent \in Nat /\ sent' = sent + 1 /\ printed \in Bytes /\ Coming \in Bytes /\ printed \o Coming \in Bytes
    BY <1>2, SendAdds, Typed DEF TypeOK
  <2>3. CASE conn = "open"
    <3>1. Coming' = Append(Coming, sent + 1) /\ Whole /\ sent + 1 \in Byte
      BY <1>2, <2>2, <2>3, SendAdds DEF Send, Whole, Byte
    <3>2. printed \o Append(Coming, sent + 1) = Append(printed \o Coming, sent + 1)
      BY <2>2, <3>1, AppendBehind DEF Bytes
    <3>3. Sequence(sent + 1) = Append(Sequence(sent), sent + 1)
      BY <2>2, SequenceGrows
    <3>4. printed \o Coming = Sequence(sent)
      BY <3>1, Zenon DEF PrintInv
    <3>5. printed' \o Coming' = Sequence(sent')
      BY <2>1, <2>2, <3>1, <3>2, <3>3, <3>4
    <3>6. Sequence(sent') \in Bytes
      BY TypedNext, SequenceGrows
    <3>7. IsPrefix(Sequence(sent'), Sequence(sent'))
      BY <3>6, PrefixOfItself DEF Bytes
    <3> QED
      BY <2>1, <3>5, <3>7 DEF PrintInv
  <2>4. CASE conn # "open"
    <3>1. Coming' = Coming
      BY <1>2, <2>1, <2>4, SendAdds DEF Coming
    <3>2. IsPrefix(printed \o Coming, Sequence(sent'))
      BY <2>2, StillBegins DEF PrintInv
    <3> QED
      BY <2>1, <2>4, <3>1, <3>2 DEF PrintInv, Whole
  <2> QED
    BY <2>3, <2>4
<1>3. CASE Reset
  <2>1. /\ ~Whole' /\ received' = received /\ outbound' = <<>> /\ sent' = sent
        /\ printed' = printed /\ input' = input /\ inbound' \in {inbound, <<>>}
    BY <1>3 DEF Reset, Whole, bev, handled
  <2>2. /\ received \in Bytes /\ outbound \in Bytes /\ printed \in Bytes /\ input \in Bytes /\ inbound \in Bytes
        /\ <<Request>> \in Bytes /\ Sequence(sent) \in Bytes
    BY Typed DEF TypeOK, Bytes, Byte, Request
  <2>3. IsPrefix(received, <<Request>>) /\ received \o <<>> = received
    BY <2>2, PrefixOfPart, Joined DEF PrintInv, Written, Bytes
  <2>4. IsPrefix(printed' \o Coming', Sequence(sent))
    <3>1. CASE inbound' = inbound
      BY <2>1, <3>1 DEF PrintInv, Coming
    <3>2. CASE inbound' = <<>>
      <4>1. printed \o input \in Bytes /\ input \o <<>> = input
        BY <2>2, Joined DEF Bytes
      <4>2. Coming' = input
        BY <2>1, <3>2, <4>1, Zenon DEF Coming
      <4>3. (printed \o input) \o inbound = printed \o (input \o inbound)
        BY <2>2, InputThenInbound
      <4>4. IsPrefix((printed \o input) \o inbound, Sequence(sent))
        BY <4>3, Zenon DEF PrintInv, Coming
      <4>5. IsPrefix(printed \o input, Sequence(sent))
        BY <2>2, <4>1, <4>4, PrefixOfPart DEF Bytes
      <4> QED
        BY <2>1, <4>2, <4>5
    <3> QED
      BY <2>1, <3>1, <3>2
  <2>5. Written' = received
    BY <2>1, <2>3 DEF Written
  <2> QED
    BY <2>1, <2>3, <2>4, <2>5 DEF PrintInv
<1>4. CASE Receive
  <2>1. /\ Written' = Written /\ sent' = sent /\ output' = output /\ Coming' = Coming
        /\ printed' = printed /\ (Whole' <=> Whole)
    BY <1>4, ReceiveKeeps DEF Receive, bev, handled, Coming, Whole
  <2> QED
    BY <2>1 DEF PrintInv, Back
<1>5. CASE ReadSocket
  <2>1. /\ Coming' = Coming /\ Written' = Written /\ sent' = sent /\ Back' = Back
        /\ printed' = printed /\ (Whole' <=> Whole)
    BY <1>5, ReadKeeps DEF ReadSocket, handled, Written, Back, Whole
  <2> QED
    BY <2>1 DEF PrintInv
<1>6. CASE WriteSocket
  <2>1. /\ Back' = Back /\ Coming' = Coming /\ sent' = sent /\ printed' = printed /\ Whole
        /\ (Whole' <=> Whole)
    BY <1>6, WriteKeeps DEF WriteSocket, CanWrite, Idle, Coming, Whole, handled
  <2>2. Written' \in Bytes /\ output' \in Bytes /\ <<>> \in Bytes
    BY TypedNext DEF TypeOK, Bytes, Byte
  <2>3. IsPrefix(Written', Written' \o output')
    BY <2>2, FirstBegins
  <2>4. Written' \o output' = <<Request>>
    BY <2>1 DEF PrintInv, Back
  <2> QED
    BY <2>1, <2>3, <2>4 DEF PrintInv
<1>7. CASE HandleRead
  <2>1. /\ sent' = sent /\ Written' = Written /\ (Whole' <=> Whole) /\ output' = output
        /\ inbound' = inbound /\ outbound' = outbound /\ received' = received
    BY <1>7 DEF HandleRead, wires, Written, Whole
  <2>2. printed' \o Coming' = printed \o Coming
    <3>1. CASE PrintAll
      BY <2>1, <3>1, PrintKeeps
    <3>2. CASE input' = input /\ printed' = printed
      BY <2>1, <3>2 DEF Coming
    <3> QED
      BY <1>7, <3>1, <3>2 DEF HandleRead
  <2> QED
    BY <2>1, <2>2 DEF PrintInv, Back
<1>8. CASE HandleEvent
  <2>1. sent' = sent /\ Written' = Written /\ peer' = peer /\ printed' = printed
    BY <1>8 DEF HandleEvent, Written
  <2>2. CASE conn' = "open"
    <3>1. conn = "open" /\ UNCHANGED <<input, output, inbound>>
      BY <1>8, <2>2 DEF HandleEvent, Callback, EventCode
    <3> QED
      BY <2>1, <2>2, <3>1 DEF PrintInv, Whole, Back, Coming
  <2>3. CASE conn' # "open"
    <3>1. input' = <<>> /\ inbound' = <<>>
      BY <1>8, <2>3 DEF HandleEvent, Callback
    <3>2. printed \in Bytes /\ Coming \in Bytes /\ Sequence(sent) \in Bytes /\ <<>> \in Bytes
      BY Typed DEF TypeOK, Bytes
    <3>3. <<>> \o <<>> = <<>> /\ printed \o <<>> = printed
      BY <3>2, Joined DEF Bytes
    <3>4. IsPrefix(printed, Sequence(sent))
      BY <3>2, PrefixOfPart DEF PrintInv, Bytes
    <3>5. printed' \o Coming' = printed
      BY <2>1, <3>1, <3>3 DEF Coming
    <3> QED
      BY <2>1, <2>3, <3>4, <3>5 DEF PrintInv, Whole
  <2> QED
    BY <2>2, <2>3
<1> QED
  BY <1>1, <1>2, <1>3, <1>4, <1>5, <1>6, <1>7, <1>8, Steps

------------------------------------------------------------------------------
(* The theorems.                                                              *)

LEMMA InitIInv == Init => IInv
<1> SUFFICES ASSUME Init PROVE IInv
  OBVIOUS
<1>1. TypeOK
  BY TypeInit
<1>2. EofInv
  BY DEF Init, EofInv
<1>3. Sequence(0) = <<>> /\ <<>> \in Bytes /\ <<Request>> \in Bytes
  BY EmptySeq DEF Sequence, Bytes, Byte, Request
<1>4. /\ <<>> \o <<>> = <<>> /\ <<>> \o <<Request>> = <<Request>>
      /\ IsPrefix(<<>>, <<>>) /\ IsPrefix(<<>>, <<Request>>)
  BY <1>3, Joined, FirstBegins DEF Bytes
<1>5. Written = <<>> /\ Coming = <<>> /\ sent = 0 /\ printed = <<>>
  BY <1>4 DEF Init, Written, Coming
<1>6. Server => Back = <<>>
  BY <1>4, <1>5 DEF Init, Back
<1>7. ~Server => Back = <<Request>>
  BY <1>4, <1>5 DEF Init, Back
<1> QED
  BY <1>1, <1>2, <1>3, <1>4, <1>5, <1>6, <1>7 DEF IInv, EchoInv, PrintInv

LEMMA NextIInv == IInv /\ [Next]_vars => IInv'
<1> SUFFICES ASSUME IInv, [Next]_vars PROVE IInv'
  OBVIOUS
<1>1. TypeOK'
  BY TypeNext DEF IInv
<1>2. EofInv'
  BY EofNext DEF IInv
<1>3. program' = program
  BY DEF Next, vars, Send, Shutdown, Reset, Receive, Connect, ReadSocket, Refill, WriteSocket, WriteFails,
         StopReading, StartDeferred, HandleConnected, HandleRead, HandleWrite, HandleEvent
<1>4. Server' <=> Server
  BY <1>3 DEF Server
<1> QED
  BY <1>1, <1>2, <1>4, EchoNext, PrintNext DEF IInv

LEMMA SpecIInv == Spec => []IInv
BY InitIInv, NextIInv, PTL DEF Spec

\* The state of the connection is of its types; in particular the token bucket is never
\* overdrawn and never overflows.
THEOREM TypesKept == Spec => []TypeOK
BY SpecIInv, PTL DEF IInv

LEMMA StreamHolds == IInv => StreamInOrder
<1> SUFFICES ASSUME IInv PROVE StreamInOrder
  OBVIOUS
<1>1. TypeOK /\ (Server => EchoInv) /\ (~Server => PrintInv)
  BY DEF IInv
<1>2. /\ Back \in Bytes /\ printed \in Bytes /\ input \in Bytes /\ inbound \in Bytes
      /\ Coming \in Bytes /\ Sequence(sent) \in Bytes
  BY <1>1, Typed DEF TypeOK
<1>3. /\ (Back \o input) \o inbound = Back \o (input \o inbound)
      /\ (printed \o input) \o inbound = printed \o (input \o inbound)
  BY <1>1, <1>2, InputThenInbound
<1>4. ~Server => IsPrefix(printed, Sequence(sent))
  BY <1>1, <1>2, PrefixOfPart DEF PrintInv, Bytes
<1> QED
  BY <1>1, <1>3, <1>4, Zenon DEF StreamInOrder, EchoInv, PrintInv, Whole, Back, Written, Coming

\* Nothing the peer sent is lost, doubled or overtaken, for streams of any length.
THEOREM StreamKept == Spec => []StreamInOrder
BY SpecIInv, StreamHolds, PTL

\* A program that hears of the end of the file has been given all the data before.
THEOREM EofIsLast == Spec => EofComesLast
<1>1. IInv => (HandleEvent /\ "EOF" \in what /\ peer # "reset" => input = <<>> /\ inbound = <<>>)
  BY DEF IInv, EofInv, HandleEvent, Callback
<1> QED
  BY <1>1, SpecIInv, PTL DEF EofComesLast

------------------------------------------------------------------------------
(* The refinement.                                                            *)

LEMMA Reads ==
  ASSUME NEW n \in Nat, NEW s \in Bytes, NEW t \in Bytes, NEW u \in Bytes, t = s \o u,
         IsPrefix(t, Sequence(n))
  PROVE  t = s \/ \E m \in Len(s) + 1 .. Len(Sequence(n)) : t = SubSeq(Sequence(n), 1, m)
<1>1. Len(s) \in Nat /\ Len(u) \in Nat /\ Len(t) = Len(s) + Len(u) /\ SubSeq(t, 1, Len(t)) = t
  BY Joined, SubSeqFull DEF Bytes
<1>2. Len(t) <= Len(Sequence(n)) /\ t = SubSeq(Sequence(n), 1, Len(t)) /\ Len(Sequence(n)) \in Nat
  BY <1>1, SequenceGrows DEF IsPrefix
<1>3. CASE u = <<>>
  BY <1>3, Joined DEF Bytes
<1>4. CASE u # <<>>
  <2>1. Len(u) > 0
    BY <1>1, <1>4, EmptySeq DEF Bytes
  <2>2. Len(t) \in Len(s) + 1 .. Len(Sequence(n))
    BY <1>1, <1>2, <2>1
  <2> QED
    BY <1>2, <2>2
<1> QED
  BY <1>3, <1>4

LEMMA StreamInit == Init => Stream!Init
<1>1. Sequence(0) = <<>>
  BY DEF Sequence
<1> QED
  BY <1>1 DEF Init, Stream!Init

LEMMA StreamStep ==
  ASSUME IInv, IInv', [Next]_vars
  PROVE  [Stream!Next]_<<Sequence(sent), IF Server THEN received ELSE printed>>
<1> DEFINE Got == IF Server THEN received ELSE printed
<1>1. TypeOK /\ TypeOK' /\ sent \in Nat /\ sent' \in Nat
  BY Typed, TypedNext DEF IInv
<1>2. Server' <=> Server
  BY DEF Server, Next, vars, Send, Shutdown, Reset, Receive, Connect, ReadSocket, Refill, WriteSocket,
         WriteFails, StopReading, StartDeferred, HandleConnected, HandleRead, HandleWrite, HandleEvent
<1>3. CASE Send
  <2>1. Got' = Got /\ sent' = sent + 1 /\ sent + 1 \in 1 .. MaxBytes
    BY <1>1, <1>2, <1>3, PeerAssumption DEF Send, handled
  <2>2. Sequence(sent') = Append(Sequence(sent), sent + 1)
    BY <1>1, <2>1, SequenceGrows
  <2> QED
    BY <2>1, <2>2 DEF Stream!Next, Stream!Put
<1>4. CASE Receive /\ Server
  <2>1. received \in Bytes /\ received' \in Bytes /\ outbound # <<>> /\ outbound \in Bytes /\ outbound' \in Bytes
    BY <1>1, <1>4 DEF Receive, TypeOK
  <2>2. received' = received \o <<Head(outbound)>> /\ <<Head(outbound)>> \in Bytes
    BY <1>4, <2>1, AppendIsConcat, HeadTailProperties DEF Receive, Bytes
  <2>3. IsPrefix(Written', Sequence(sent')) /\ sent' = sent /\ Sequence(sent) \in Bytes
    BY <1>1, <1>2, <1>4, Typed DEF IInv, EchoInv, Receive
  <2>4. IsPrefix(received', Sequence(sent))
    BY <2>1, <2>3, PrefixOfPart DEF Written, Bytes
  <2>5. \/ received' = received
        \/ \E m \in Len(received) + 1 .. Len(Sequence(sent)) : received' = SubSeq(Sequence(sent), 1, m)
    BY <1>1, <2>1, <2>2, <2>4, Reads
  <2> QED
    BY <1>2, <1>4, <2>3, <2>5 DEF Stream!Next, Stream!Get
<1>5. CASE HandleRead /\ ~Server /\ PrintAll
  <2>1. printed \in Bytes /\ printed' \in Bytes /\ input \in Bytes /\ printed' = printed \o input
    BY <1>1, <1>5 DEF PrintAll, TypeOK
  <2>2. /\ IsPrefix(printed' \o Coming', Sequence(sent')) /\ sent' = sent /\ Sequence(sent) \in Bytes
        /\ Coming' \in Bytes
    BY <1>1, <1>2, <1>5, Typed, TypedNext DEF IInv, PrintInv, HandleRead, wires
  <2>3. IsPrefix(printed', Sequence(sent))
    BY <2>1, <2>2, PrefixOfPart DEF Bytes
  <2>4. \/ printed' = printed
        \/ \E m \in Len(printed) + 1 .. Len(Sequence(sent)) : printed' = SubSeq(Sequence(sent), 1, m)
    BY <1>1, <2>1, <2>3, Reads
  <2> QED
    BY <1>2, <1>5, <2>2, <2>4 DEF Stream!Next, Stream!Get
<1>6. CASE sent' = sent /\ Got' = Got
  BY <1>6
<1>7. \/ Send \/ (Receive /\ Server) \/ (HandleRead /\ ~Server /\ PrintAll)
      \/ (sent' = sent /\ Got' = Got)
  <2>1. CASE Apart
    BY <1>1, <1>2, <2>1, ApartKeeps
  <2>2. CASE Reset \/ ReadSocket \/ WriteSocket \/ HandleEvent
    BY <1>2, <2>2 DEF Reset, ReadSocket, WriteSocket, HandleEvent, handled
  <2>3. CASE Receive
    BY <1>2, <2>3 DEF Receive, handled
  <2>4. CASE HandleRead
    BY <1>2, <2>4 DEF HandleRead, wires
  <2> QED
    BY <2>1, <2>2, <2>3, <2>4, Steps
<1> QED
  BY <1>3, <1>4, <1>5, <1>6, <1>7

\* The peer of the server, and the user of a client, read the stream as ByteStream says.
THEOREM StreamImplemented == Spec => ImplementsStream
BY SpecIInv, StreamInit, StreamStep, PTL DEF Spec, ImplementsStream, Stream!Spec

------------------------------------------------------------------------------
(* The connection pair sample: the closure of connection_pair.cpp survives    *)
(* its own close(), for every initial counter and every width of size_t.      *)

PairTypes ==
  /\ m_cnt \in 0 .. 2 * Half - 1
  /\ reader \in Side /\ closer \in Side \cup {"none"}

\* The message is on its way to the second connection exactly when an even number
\* of echoes is left.
Alternates ==
  \/ reader = "second" /\ \E k \in Nat : m_cnt = 2 * k
  \/ reader = "first" /\ \E k \in Nat : m_cnt = 2 * k + 1

Parity == PairTypes /\ (closer = "none" => Alternates) /\ closer # "first"

LEMMA EvenStart ==
  ASSUME NEW m, Start(m)
  PROVE  m \in 0 .. 2 * Half - 1 /\ \E k \in Nat : m = 2 * k
<1>1. PICK cnt \in 0 .. 2 * Half - 1 : m = IF cnt < Half THEN 2 * cnt ELSE 2 * (cnt - Half)
  BY DEF Start
<1>2. CASE cnt < Half
  <2>1. cnt \in Nat /\ m = 2 * cnt
    BY <1>1, <1>2
  <2> QED
    BY <1>2, <2>1, HalfAssumption
<1>3. CASE ~(cnt < Half)
  <2>1. cnt - Half \in Nat /\ m = 2 * (cnt - Half)
    BY <1>1, <1>3, HalfAssumption
  <2> QED
    BY <1>1, <2>1, HalfAssumption
<1> QED
  BY <1>2, <1>3

LEMMA ParityInit == PairInit => Parity
BY EvenStart DEF PairInit, Parity, Alternates, PairTypes, Side

LEMMA ParityNext == Parity /\ [PairNext]_pairVars => Parity'
<1> SUFFICES ASSUME Parity, [PairNext]_pairVars PROVE Parity'
  OBVIOUS
<1> USE HalfAssumption DEF Parity, Alternates, PairTypes, Side
<1>1. CASE EchoBack
  <2>1. m_cnt \in Nat /\ m_cnt > 0 /\ m_cnt' = m_cnt - 1 /\ closer = "none" /\ closer' = "none"
    BY <1>1 DEF EchoBack
  <2>2. CASE reader = "second"
    <3>1. PICK k \in Nat : m_cnt = 2 * k
      BY <2>1, <2>2
    <3>2. k - 1 \in Nat /\ m_cnt' = 2 * (k - 1) + 1
      BY <2>1, <3>1
    <3>3. reader' = "first"
      BY <1>1, <2>2 DEF EchoBack, Peer
    <3>4. m_cnt' \in 0 .. 2 * Half - 1
      BY <2>1
    <3>5. Alternates'
      BY <3>2, <3>3
    <3> QED
      BY <2>1, <3>3, <3>4, <3>5
  <2>3. CASE reader = "first"
    <3>1. PICK k \in Nat : m_cnt = 2 * k + 1
      BY <2>1, <2>3
    <3>2. m_cnt' = 2 * k /\ reader' = "second"
      BY <1>1, <2>1, <2>3, <3>1 DEF EchoBack, Peer
    <3> QED
      BY <1>1, <2>1, <3>2 DEF EchoBack
  <2> QED
    BY <2>2, <2>3
<1>2. CASE CloseBoth
  <2>1. m_cnt = 0 /\ closer = "none"
    BY <1>2 DEF CloseBoth
  <2>2. reader = "second"
    <3> SUFFICES ASSUME NEW k \in Nat, m_cnt = 2 * k + 1 PROVE FALSE
      BY <2>1
    <3> QED
      BY <2>1
  <2> QED
    BY <1>2, <2>2 DEF CloseBoth
<1>3. CASE UNCHANGED pairVars
  BY <1>3 DEF pairVars
<1> QED
  BY <1>1, <1>2, <1>3 DEF PairNext

\* The closing handler is never the first connection's, whatever the counter.
THEOREM ClosureSafe == PairSpec => []ClosureSurvives
<1>1. Parity => ClosureSurvives
  BY DEF Parity, ClosureSurvives
<1> QED
  BY ParityInit, ParityNext, <1>1, PTL DEF PairSpec

=============================================================================
