------------------------------ MODULE MCBuffer ------------------------------
(* TLC instance of Buffer: three objects over two evbuffers of their own and *)
(* that of a connection, and three bytes of which the second ends a line.    *)
EXTENDS Buffer

=============================================================================
