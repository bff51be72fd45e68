---------------------------- MODULE FilterServer ----------------------------
(***************************************************************************)
(* One connection of sample/filter_server.cpp or filter_server.lua: the    *)
(* bytes of the client climb through two filter bufferevents and come down *)
(* again.                                                                  *)
(*                                                                         *)
(*   socket  --raw-->  size_filter  --blocks-->  transform_filter          *)
(*                                  --text-->  handle_read, which echoes   *)
(*                                                                         *)
(* Every bufferevent of the chain defers its callbacks, so data, the end   *)
(* of the file and errors move up one level per deferred call.  Down the   *)
(* chain both handle_output run at once, when the server writes.  No       *)
(* timeouts are set: handle_timeout is never called.                       *)
(***************************************************************************)
EXTENDS Naturals, Sequences, SequencesExt

CONSTANTS
  Size,      \* the argument of size_filter
  Z,         \* the letters 'a' .. 'z' are 0 .. Z; Z + 1 is any other byte
  MaxBytes   \* bound on what the client sends

\* A block of no bytes would divide by zero in size_filter::handle_input.
ASSUME FilterAssumption == Size \in Nat \ {0} /\ Z \in Nat /\ MaxBytes \in Nat

VARIABLES
  lua,        \* the Lua sample is running, whose filters are lua_filter_handlers
  sent,       \* what the client has sent
  client,     \* "open", "shut" for writing, or "reset"
  toServer,   \* the kernel's buffers
  toClient,
  back,       \* what the client has read
  input,      \* the input buffer of each bufferevent of the chain
  output,     \* the output buffer of the socket's bufferevent
  enabled,    \* what the socket's bufferevent still does, among "read" and "write"
  due,        \* the deferred callbacks of each bufferevent
  conn        \* "open", or erased on "eof" or "error"

vars == <<lua, sent, client, toServer, toClient, back, input, output, enabled, due, conn>>

Byte == 0 .. Z + 1
Bev == {"socket", "size", "transform"}

raw == input["socket"]
blocks == input["size"]
text == input["transform"]

Init ==
  /\ lua \in BOOLEAN
  /\ sent = <<>> /\ client = "open"
  /\ toServer = <<>> /\ toClient = <<>> /\ back = <<>>
  /\ input = [b \in Bev |-> <<>>] /\ output = <<>>
  /\ enabled = {"read", "write"} /\ due = [b \in Bev |-> {}]
  /\ conn = "open"

------------------------------------------------------------------------------
(* What the filters do to the data. *)

\* Mutation: every byte is changed.
ShiftAny(c) == (c + 1) % (Z + 2)

\* The last byte that is changed: C++ tests ch < 'z', Lua tests buf[i] <= 'z' and
\* makes of 'z' the byte that follows it.
LastShifted == IF lua THEN Z ELSE Z - 1

Shift(c) == IF c <= LastShifted THEN c + 1 ELSE c

\* transform_filter, or the function transform of Lua, in either direction.
Transform(s) == [n \in DOMAIN s |-> Shift(s[n])]

\* The bytes of s that the size filter hands up: as many whole blocks as there are.
\* In Lua, math.floor(src:size() / size) of them.
Whole(s) == (Len(s) \div Size) * Size

\* Mutation: what is left of the last block is thrown away.
RestNothing(s) == <<>>

\* The bytes that wait in the input of the socket for more.
Rest(s) == SubSeq(s, Whole(s) + 1, Len(s))

------------------------------------------------------------------------------
(* The client and the socket. *)

Send(c) ==
  /\ client = "open" /\ Len(sent) < MaxBytes
  /\ sent' = Append(sent, c) /\ toServer' = Append(toServer, c)
  /\ UNCHANGED <<lua, client, toClient, back, input, output, enabled, due, conn>>

Shutdown ==
  /\ client = "open" /\ client' = "shut"
  /\ UNCHANGED <<lua, sent, toServer, toClient, back, input, output, enabled, due, conn>>

\* A reset may overtake what the client sent; the client reads no more.
Reset ==
  /\ client # "reset" /\ client' = "reset"
  /\ toServer' \in {toServer, <<>>} /\ toClient' = <<>>
  /\ UNCHANGED <<lua, sent, back, input, output, enabled, due, conn>>

Receive ==
  /\ toClient # <<>>
  /\ back' = back \o toClient /\ toClient' = <<>>
  /\ UNCHANGED <<lua, sent, client, toServer, input, output, enabled, due, conn>>

CanRead == conn = "open" /\ "read" \in enabled

ReadSocket ==
  /\ CanRead
  /\ \E k \in 1 .. Len(toServer) :
       /\ input' = [input EXCEPT !["socket"] = @ \o SubSeq(toServer, 1, k)]
       /\ toServer' = SubSeq(toServer, k + 1, Len(toServer))
  /\ due' = [due EXCEPT !["socket"] = @ \cup {"read"}]
  /\ UNCHANGED <<lua, sent, client, toClient, back, output, enabled, conn>>

\* The end of the file or an error: reading stops.
StopReading(what) ==
  /\ CanRead /\ toServer = <<>>
  /\ \/ what = "eof" /\ client = "shut"
     \/ what = "error" /\ client = "reset"
  /\ enabled' = enabled \ {"read"}
  /\ due' = [due EXCEPT !["socket"] = @ \cup {what}]
  /\ UNCHANGED <<lua, sent, client, toServer, toClient, back, input, output, conn>>

CanWrite == conn = "open" /\ "write" \in enabled /\ output # <<>>

WriteSocket ==
  /\ CanWrite /\ client # "reset"
  /\ toClient' = toClient \o output /\ output' = <<>>
  /\ UNCHANGED <<lua, sent, client, toServer, back, input, enabled, due, conn>>

\* What was read before the reset may still climb behind this error.
WriteFails ==
  /\ CanWrite /\ client = "reset"
  /\ enabled' = enabled \ {"write"}
  /\ due' = [due EXCEPT !["socket"] = @ \cup {"error"}]
  /\ UNCHANGED <<lua, sent, client, toServer, toClient, back, input, output, conn>>

------------------------------------------------------------------------------
(* Deferred calls: first the data, then the end of the file or the error. *)

Due(b) == conn = "open" /\ due[b] # {}

\* The callbacks of b have run; those in up are now due one level higher.
Pass(b, c, up) == due' = [due EXCEPT ![b] = {}, ![c] = @ \cup up \cup (due[b] \ {"read"})]

\* The size filter, called again and again until it returns false.
SizeInput ==
  /\ Due("socket")
  /\ IF "read" \in due["socket"] /\ Whole(raw) > 0
     THEN /\ input' = [input EXCEPT !["size"] = @ \o SubSeq(raw, 1, Whole(raw)),
                                    !["socket"] = Rest(raw)]
          /\ Pass("socket", "size", {"read"})
     ELSE UNCHANGED input /\ Pass("socket", "size", {})
  /\ UNCHANGED <<lua, sent, client, toServer, toClient, back, output, enabled, conn>>

\* transform_filter::handle_input
TransformInput ==
  /\ Due("size")
  /\ IF "read" \in due["size"]
     THEN /\ input' = [input EXCEPT !["transform"] = @ \o Transform(blocks), !["size"] = <<>>]
          /\ Pass("size", "transform", {"read"})
     ELSE UNCHANGED input /\ Pass("size", "transform", {})
  /\ UNCHANGED <<lua, sent, client, toServer, toClient, back, output, enabled, conn>>

\* conn.write_buffer().append: transform_filter::handle_output and
\* size_filter::handle_output bring it to the socket's output at once.
Output(s) == output' = output \o Transform(s)

\* handle_read
HandleRead ==
  /\ conn = "open" /\ "read" \in due["transform"]
  /\ Output(text)
  /\ input' = [input EXCEPT !["transform"] = <<>>]
  /\ due' = [due EXCEPT !["transform"] = @ \ {"read"}]
  /\ UNCHANGED <<lua, sent, client, toServer, toClient, back, enabled, conn>>

\* handle_eof and handle_error erase the connection: the chain is freed with all its
\* buffers, the output that was just written included.
Erase(what) ==
  /\ conn' = what
  /\ input' = [b \in Bev |-> <<>>] /\ output' = <<>>
  /\ enabled' = {} /\ due' = [b \in Bev |-> {}]
  /\ UNCHANGED <<lua, sent, client, toServer, toClient, back>>

\* Mutation: the end of the file is served before the data.
HandleEofFirst == conn = "open" /\ "eof" \in due["transform"] /\ Erase("eof")

HandleEof ==
  /\ conn = "open" /\ "eof" \in due["transform"] /\ "read" \notin due["transform"]
  /\ Erase("eof")

\* Of both flags in one event handle_event takes the end of the file.
HandleError == conn = "open" /\ due["transform"] = {"error"} /\ Erase("error")

Next ==
  \/ \E c \in Byte : Send(c)
  \/ Shutdown \/ Reset \/ Receive \/ ReadSocket \/ StopReading("eof") \/ StopReading("error")
  \/ WriteSocket \/ WriteFails
  \/ SizeInput \/ TransformInput \/ HandleRead \/ HandleEof \/ HandleError

\* The network delivers and the loop makes its deferred calls; the client may stop
\* sending without a word.
Fairness ==
  /\ WF_vars(Receive) /\ WF_vars(ReadSocket) /\ WF_vars(WriteSocket) /\ WF_vars(WriteFails)
  /\ WF_vars(StopReading("eof")) /\ WF_vars(StopReading("error"))
  /\ WF_vars(SizeInput) /\ WF_vars(TransformInput)
  /\ WF_vars(HandleRead) /\ WF_vars(HandleEof) /\ WF_vars(HandleError)

Spec == Init /\ [][Next]_vars /\ Fairness

------------------------------------------------------------------------------
(* Properties. *)

\* What a byte has become after both passes: two letters further, 'z' at most in
\* C++ and the byte after 'z' at most in Lua.
Twice(c) == IF c > Z THEN c ELSE Min({c + 2, IF lua THEN Z + 1 ELSE Z})

\* What the client shall read of what it sent.
Image == [n \in DOMAIN sent |-> Twice(sent[n])]

\* The client reads back what it sent, every byte transformed once on its way up
\* and once on its way down, wherever the stream is cut: no stage loses, doubles
\* or reorders bytes, or transforms one twice.  After the connection is erased or the
\* client has reset it, the end may be missing, never the middle.
EchoTransformed ==
  /\ conn = "open" /\ client # "reset" =>
       back \o toClient \o output \o Transform(text \o Transform(blocks \o raw \o toServer)) = Image
  /\ IsPrefix(back \o toClient, Image)

\* The client reads the stream that it sent, transformed: nothing is skipped, and nothing
\* that was read is taken back, when the connection is erased.
Stream == INSTANCE ByteStream WITH sent <- Image, got <- back

ImplementsStream == Stream!Spec

\* When the server hears of the end of the file, all that it was not given is the
\* beginning of a block that never became whole.
OnlyRestLost ==
  [][conn' = "eof" /\ conn # "eof" => toServer = <<>> /\ blocks = <<>> /\ text = <<>> /\ Len(raw) < Size]_vars

\* Every whole block is sent back as long as the client keeps its end open.
BlocksArrive ==
  \A n \in 1 .. MaxBytes \div Size : (Len(sent) >= n * Size) ~> (Len(back) >= n * Size \/ client # "open")

=============================================================================
