------------------------------ MODULE FdHandOff ------------------------------
(***************************************************************************)
(* What a multi-threaded server promises of the descriptors it accepts:    *)
(* each is handed to one worker, which serves it and closes it; until then *)
(* nobody else touches it.  Only a channel that is broken loses what is on *)
(* its way.                                                                *)
(*                                                                         *)
(* sample/concurrent_echo_server.cpp implements this with one socket pair  *)
(* per worker; see ConcurrentEchoServer.                                   *)
(***************************************************************************)

CONSTANTS Fd, Worker

VARIABLES
  place,   \* where each descriptor is
  broken   \* workers whose channel is broken

Transit(w) == <<"transit", w>>
Served(w) == <<"served", w>>

Init == place = [f \in Fd |-> <<"closed">>] /\ broken = {}

\* Moves the descriptors of S from one place to another.
Move(S, from, to) ==
  /\ \A f \in S : place[f] = from
  /\ place' = [f \in Fd |-> IF f \in S THEN to ELSE place[f]]

Accept(f, w) == Move({f}, <<"closed">>, Transit(w)) /\ UNCHANGED broken

Serve(S, w) == Move(S, Transit(w), Served(w)) /\ UNCHANGED broken

Close(f, w) == Move({f}, Served(w), <<"closed">>) /\ UNCHANGED broken

\* The channel breaks on one of its sides, with what is on its way on that side.
Break(S, w) == Move(S, Transit(w), <<"lost">>) /\ broken' = broken \cup {w}

Next ==
  \/ \E f \in Fd, w \in Worker : Accept(f, w) \/ Close(f, w)
  \/ \E S \in SUBSET Fd, w \in Worker : Serve(S, w) \/ Break(S, w)

Spec == Init /\ [][Next]_<<place, broken>>

==============================================================================
