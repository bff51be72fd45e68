---------------------------- MODULE MCEventLoop ----------------------------
(***************************************************************************)
(* TLC instance of EventLoop: a timer of one second and one of a negative  *)
(* fraction of a microsecond, a trigger, a signal, and one call of exit()  *)
(* in flight.                                                              *)
(***************************************************************************)
EXTENDS EventLoop, TLC

CONSTANTS t1, t0

MCTimer == {t1, t0}
MCPeriod == t1 :> Second @@ t0 :> -400

=============================================================================
