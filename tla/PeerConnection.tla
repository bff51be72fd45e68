--------------------------- MODULE PeerConnection ---------------------------
(***************************************************************************)
(* One tcp_connection of a sample and its peer: a connection accepted by   *)
(* echo_server.cpp, or the one a client opens (simple_client and           *)
(* rate_limit, in C++ and in Lua), from the peer's socket through          *)
(* libevent's buffers and deferred callbacks to the handler and back.      *)
(*                                                                         *)
(* Connections are made with BEV_OPT_DEFER_CALLBACKS: what happens to the  *)
(* socket is noted, and later one deferred call reports it in the order    *)
(* connected, read, write, event.  handle_event reports one event_code     *)
(* however many of libevent's flags have gathered.  Any of the calls may   *)
(* close the connection, which then must hear nothing more.                *)
(***************************************************************************)
EXTENDS Naturals, Sequences, SequencesExt

CONSTANTS
  MaxBytes,    \* bound on what the peer sends
  HasTimeout,  \* the server calls set_timeouts with a read timeout
  Rate, Burst  \* of the token bucket of rate_limit

ASSUME PeerAssumption ==
  /\ MaxBytes \in Nat /\ HasTimeout \in BOOLEAN
  /\ Rate \in Nat \ {0} /\ Burst \in Nat /\ Rate <= Burst

VARIABLES
  program,   \* the program, and whether it calls set_rate_limit
  peer,      \* "none" while connecting, "refused", "open", "shut" for writing, "reset"
  sent,      \* number of bytes the peer has sent; byte n is the number n
  inbound,   \* the kernel's buffers
  outbound,
  received,  \* what the peer has read
  printed,   \* what the client has printed
  input,     \* the buffers of the bufferevent
  output,
  enabled,   \* what the bufferevent still does: "read", "write"
  tokens,    \* its read limit
  readPending, writePending,  \* callbacks that are due
  what,      \* flags of the event callbacks that are due
  phase,     \* the deferred call: "none", or the callback it comes to next
  conn,      \* "open", or the event_code whose handler closed the connection
  reported   \* what the handler has printed of an error

wires == <<peer, sent, inbound, outbound, received>>
bev == <<input, output, enabled, tokens>>
pending == <<readPending, writePending, what>>
handled == <<phase, conn, printed, reported>>
vars == <<program, wires, bev, pending, handled>>

Server == program.name = "echo_server"

Request == 0

\* Before the first error.
NoReport == [endpoint |-> "none", error_code |-> "none"]

Program ==
  [name : {"echo_server"}, limited : {FALSE}] \cup [name : {"client", "client.lua"}, limited : BOOLEAN]

\* A server's connection has been accepted; a client has begun to connect and put
\* its request into the write buffer.
Init ==
  /\ program \in Program
  /\ peer = IF Server THEN "open" ELSE "none"
  /\ sent = 0 /\ inbound = <<>> /\ outbound = <<>> /\ received = <<>> /\ printed = <<>>
  /\ input = <<>> /\ output = IF Server THEN <<>> ELSE <<Request>>
  /\ enabled = {"read", "write"} /\ tokens = Burst
  /\ readPending = FALSE /\ writePending = FALSE /\ what = {}
  /\ phase = "none" /\ conn = "open" /\ reported = NoReport

------------------------------------------------------------------------------
(* The peer and the network. *)

Send ==
  /\ peer = "open" /\ sent < MaxBytes
  /\ sent' = sent + 1
  /\ inbound' = IF conn = "open" THEN Append(inbound, sent + 1) ELSE inbound
  /\ UNCHANGED <<program, peer, outbound, received, bev, pending, handled>>

Shutdown ==
  /\ peer = "open" /\ peer' = "shut"
  /\ UNCHANGED <<program, sent, inbound, outbound, received, bev, pending, handled>>

\* A reset may overtake what the peer sent.
Reset ==
  /\ peer \in {"open", "shut"} /\ peer' = "reset"
  /\ inbound' \in {inbound, <<>>} /\ outbound' = <<>>
  /\ UNCHANGED <<program, sent, received, bev, pending, handled>>

Receive ==
  /\ peer \in {"open", "shut"} /\ outbound # <<>>
  /\ received' = Append(received, Head(outbound)) /\ outbound' = Tail(outbound)
  /\ UNCHANGED <<program, peer, sent, inbound, bev, pending, handled>>

------------------------------------------------------------------------------
(* libevent between the deferred calls. *)

Idle == conn = "open" /\ phase = "none"

Connect ==
  /\ Idle /\ peer = "none"
  /\ \/ peer' = "open" /\ what' = what \cup {"CONNECTED"} /\ UNCHANGED enabled
     \/ peer' = "refused" /\ what' = what \cup {"ERROR"} /\ enabled' = {}
  /\ UNCHANGED <<program, sent, inbound, outbound, received, input, output, tokens,
                 readPending, writePending, handled>>

\* What the rate limit lets through.
Allowance == IF program.limited THEN tokens ELSE MaxBytes

CanRead == Idle /\ "read" \in enabled /\ peer # "none" /\ Allowance > 0

\* Reads some of what has arrived.
ReadSocket ==
  /\ CanRead
  /\ \E k \in 1 .. Len(inbound) :
       /\ k <= Allowance
       /\ input' = input \o SubSeq(inbound, 1, k)
       /\ inbound' = SubSeq(inbound, k + 1, Len(inbound))
       /\ tokens' = IF program.limited THEN tokens - k ELSE tokens
  /\ readPending' = TRUE
  /\ UNCHANGED <<program, peer, sent, outbound, received, output, enabled, writePending, what, handled>>

\* A tick of the token bucket; a bufferevent that had no token reads again.
Refill ==
  /\ Idle /\ program.limited /\ tokens < Burst
  /\ tokens' = IF tokens + Rate < Burst THEN tokens + Rate ELSE Burst
  /\ UNCHANGED <<program, wires, input, output, enabled, pending, handled>>

\* The end of the file, an error or a timeout: reading stops.
StopReading(flag) ==
  /\ CanRead /\ inbound = <<>>
  /\ \/ flag = "EOF" /\ peer = "shut"
     \/ flag = "ERROR" /\ peer = "reset"
     \/ flag = "TIMEOUT" /\ Server /\ HasTimeout
  /\ enabled' = enabled \ {"read"}
  /\ what' = what \cup {flag}
  /\ UNCHANGED <<program, wires, input, output, tokens, readPending, writePending, handled>>

CanWrite == Idle /\ "write" \in enabled /\ output # <<>>

\* Writes some of the output; writing to a reset connection is an error.
WriteSocket ==
  /\ CanWrite /\ peer \in {"open", "shut"}
  /\ \E k \in 1 .. Len(output) :
       /\ outbound' = outbound \o SubSeq(output, 1, k)
       /\ output' = SubSeq(output, k + 1, Len(output))
  /\ writePending' = (writePending \/ output' = <<>>)
  /\ UNCHANGED <<program, peer, sent, inbound, received, input, enabled, tokens, readPending, what, handled>>

WriteFails ==
  /\ CanWrite /\ peer = "reset"
  /\ enabled' = enabled \ {"write"}
  /\ what' = what \cup {"ERROR"}
  /\ UNCHANGED <<program, wires, input, output, tokens, readPending, writePending, handled>>

\* The order in which a deferred call makes its callbacks.
After(p) ==
  CASE p = "connected" -> "read" [] p = "read" -> "write" [] p = "write" -> "event" [] p = "event" -> "none"

StartDeferred ==
  /\ Idle /\ (readPending \/ writePending \/ what # {})
  /\ phase' = "connected"
  /\ UNCHANGED <<program, wires, bev, pending, conn, printed, reported>>

------------------------------------------------------------------------------
(* The callbacks of tcp_connection and the handlers of the programs. *)

Callback(p) == conn = "open" /\ phase = p

\* The handlers that know event_code::connected print the peer's address.
HandleConnected ==
  /\ Callback("connected") /\ phase' = After(phase)
  /\ what' = what \ {"CONNECTED"}
  /\ UNCHANGED <<program, wires, bev, readPending, writePending, conn, printed, reported>>

\* Mutation: the new data overtakes what waits to be written.
EchoInFront == output' = input \o output /\ input' = <<>>

\* Mutation: only a part is echoed, the rest waits for another read event.
EchoOne == output' = Append(output, Head(input)) /\ input' = Tail(input)

\* conn.write_buffer().append(conn.read_buffer()): all of it, at the end.
Echo == output' = output \o input /\ input' = <<>>

\* The clients take the whole buffer and print it.
PrintAll == printed' = printed \o input /\ input' = <<>>

HandleRead ==
  /\ Callback("read") /\ phase' = After(phase)
  /\ \/ readPending /\ Server /\ Echo /\ UNCHANGED printed
     \/ readPending /\ ~Server /\ PrintAll /\ UNCHANGED output
     \/ ~readPending /\ UNCHANGED <<input, output, printed>>
  /\ readPending' = FALSE
  /\ UNCHANGED <<program, wires, enabled, tokens, writePending, what, conn, reported>>

\* No handler has a case for event_code::write.
HandleWrite ==
  /\ Callback("write") /\ phase' = After(phase)
  /\ writePending' = FALSE
  /\ UNCHANGED <<program, wires, bev, readPending, what, conn, printed, reported>>

\* The event_code of a set of flags.
EventCode(flags) ==
  IF "EOF" \in flags THEN "eof" ELSE IF "ERROR" \in flags THEN "error" ELSE "timeout"

\* Mutation: the switch has no case for event_code::eof.
ClosesOnFailure(code) == code \in (IF Server THEN {"timeout", "error"} ELSE {"error"})

\* The server erases the connection on every event, the C++ clients close it on an
\* error only, the Lua clients never.
Closes(code) ==
  code \in CASE Server                      -> {"timeout", "error", "eof"}
             [] program.name = "client"     -> {"error"}
             [] program.name = "client.lua" -> {}

\* The error libevent has met, and puts into errno before it calls handle_event.
Cause == IF peer = "refused" THEN "ECONNREFUSED" ELSE "ECONNRESET"

\* What remote_endpoint() returns and error_code() after it.  getpeername fails on a
\* socket that is not connected: errno is overwritten, and the address is what the
\* uninitialized sockaddr_in held, which the build decides.
ErrorReports ==
  IF peer \in {"open", "shut"}
  THEN {[endpoint |-> "peer", error_code |-> Cause]}
  ELSE [endpoint : {"peer", "garbage"}, error_code : {"ENOTCONN"}]

HandleError ==
  IF what # {} /\ EventCode(what) = "error" THEN reported' \in ErrorReports ELSE UNCHANGED reported

\* Erasing or closing the connection frees the bufferevent: callbacks, buffers and
\* all; what still arrives is thrown away.
HandleEvent ==
  /\ Callback("event")
  /\ phase' = "none" /\ what' = {}
  /\ HandleError
  /\ IF what # {} /\ Closes(EventCode(what))
     THEN /\ conn' = EventCode(what)
          /\ input' = <<>> /\ output' = <<>> /\ inbound' = <<>>
          /\ readPending' = FALSE /\ writePending' = FALSE /\ enabled' = {}
     ELSE UNCHANGED <<conn, input, output, inbound, readPending, writePending, enabled>>
  /\ UNCHANGED <<program, peer, sent, outbound, received, tokens, printed>>

Next ==
  \/ Send \/ Shutdown \/ Reset \/ Receive
  \/ Connect \/ ReadSocket \/ Refill \/ WriteSocket \/ WriteFails
  \/ \E flag \in {"EOF", "ERROR", "TIMEOUT"} : StopReading(flag)
  \/ StartDeferred \/ HandleConnected \/ HandleRead \/ HandleWrite \/ HandleEvent

\* The loop serves the socket, the ticks and the deferred call; the network
\* delivers.  The peer need not send, close or reset anything.
Fairness ==
  /\ WF_vars(Receive) /\ WF_vars(ReadSocket) /\ WF_vars(Refill)
  /\ WF_vars(WriteSocket) /\ WF_vars(WriteFails)
  /\ \A flag \in {"EOF", "ERROR"} : WF_vars(StopReading(flag))
  /\ WF_vars(StartDeferred) /\ WF_vars(HandleConnected)
  /\ WF_vars(HandleRead) /\ WF_vars(HandleWrite) /\ WF_vars(HandleEvent)

Spec == Init /\ [][Next]_vars /\ Fairness

------------------------------------------------------------------------------
(* Properties. *)

Sequence(n) == [i \in 1 .. n |-> i]

\* Nothing the peer sent is lost, doubled or overtaken between the two sockets and
\* the two buffers: what the program has dealt with followed by what is still under
\* way is exactly what was sent, until the connection is closed or reset.  Whenever
\* it is closed, the peer reads a prefix: the end of an echo may be missing, never
\* the middle.
StreamInOrder ==
  LET written == received \o outbound
      dealt   == IF Server THEN written \o output ELSE printed
  IN  /\ conn = "open" /\ peer # "reset" => dealt \o input \o inbound = Sequence(sent)
      /\ IsPrefix(IF Server THEN written ELSE printed, Sequence(sent))
      /\ ~Server => IsPrefix(written, <<Request>>)

\* The peer of the server reads the stream it sent, a client prints that of its peer:
\* nothing is skipped, and nothing that was read is taken back, when the connection is
\* closed or reset.
Stream == INSTANCE ByteStream
  WITH Byte <- 1 .. MaxBytes, sent <- Sequence(sent), got <- IF Server THEN received ELSE printed

ImplementsStream == Stream!Spec

\* When a program hears of the end of the file it has been given, and has dealt
\* with, everything the peer sent before it.
EofComesLast ==
  [][HandleEvent /\ "EOF" \in what /\ peer # "reset" => input = <<>> /\ inbound = <<>>]_vars

\* A client's loop has nothing to wait for: run() returns.
RunReturns ==
  /\ phase = "none" /\ ~readPending /\ ~writePending /\ what = {}
  /\ "read" \notin enabled /\ (output = <<>> \/ "write" \notin enabled)

\* A connection whose peer has gone is closed: the server does not collect dead
\* connections, and a client, which may ignore the end of the file, does not hang.
DeadIsClosed ==
  (peer \in {"shut", "reset", "refused"}) ~> (conn # "open" \/ (~Server /\ RunReturns))

\* As long as the peer stays, every byte it sends comes back from the server.  A
\* client prints everything that a peer sent before it closed the connection, the
\* rate limit notwithstanding.
StreamArrives ==
  \A n \in 1 .. MaxBytes :
    (sent = n) ~> \/ Len(IF Server THEN received ELSE printed) >= n
                  \/ peer = "reset"
                  \/ Server /\ (peer = "shut" \/ conn # "open")

\* What a handler prints of an error is the peer it had and the error it met.
ErrorReported ==
  reported # NoReport => reported = [endpoint |-> "peer", error_code |-> Cause]

=============================================================================
