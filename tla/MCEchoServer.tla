---------------------------- MODULE MCEchoServer ----------------------------
(* TLC instance of EchoServer: three acceptors over two listeners, four      *)
(* connections over three descriptor numbers.                                *)
EXTENDS EchoServer, TLC

Symmetry == Permutations(Acc) \cup Permutations(Listener) \cup Permutations(Conn)

=============================================================================
