------------------------------- MODULE MCTcp -------------------------------
(***************************************************************************)
(* TLC instance of TcpConnection: three declared connections, three        *)
(* bufferevents (a socket and two filters, or two sockets and a filter),   *)
(* two descriptors.                                                        *)
(***************************************************************************)
EXTENDS TcpConnection, TLC

\* Addresses and descriptor numbers are interchangeable.
Symmetry ==
  Permutations(Conn) \cup Permutations(Bev) \cup Permutations(Filter) \cup Permutations(Fd)

=============================================================================
