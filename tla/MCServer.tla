------------------------------ MODULE MCServer ------------------------------
(***************************************************************************)
(* TLC instance of ConcurrentEchoServer: two workers, of which one may lose*)
(* its channel, and three descriptors.                                     *)
(***************************************************************************)
EXTENDS ConcurrentEchoServer

=============================================================================
