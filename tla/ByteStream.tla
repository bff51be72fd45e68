----------------------------- MODULE ByteStream -----------------------------
(***************************************************************************)
(* What a program that sends a stream back, or prints it, promises to the  *)
(* one who reads: at any time what has been read is the beginning of what  *)
(* was sent, and what has been read stays read.  How long bytes stay under *)
(* way is left open, and a stream may be cut anywhere.                     *)
(*                                                                         *)
(* The echo server and the clients implement this with the buffers of      *)
(* PeerConnection, the filter servers with those of FilterServer.          *)
(***************************************************************************)
EXTENDS Naturals, Sequences

CONSTANT Byte

VARIABLES
  sent,  \* what was sent, as the reader shall see it
  got    \* what has been read

Init == sent = <<>> /\ got = <<>>

Put == \E b \in Byte : sent' = Append(sent, b) /\ UNCHANGED got

Get == \E n \in Len(got) + 1 .. Len(sent) : got' = SubSeq(sent, 1, n) /\ UNCHANGED sent

Next == Put \/ Get

Spec == Init /\ [][Next]_<<sent, got>>

=============================================================================
