------------------------------- MODULE MCPair -------------------------------
(* TLC instance of ConnectionPair: every counter of a size_t of 128 values.  *)
EXTENDS ConnectionPair

=============================================================================
