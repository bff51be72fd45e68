----------------------------- MODULE Durations -----------------------------
(***************************************************************************)
(* What becomes of a std::chrono::duration on its way to libevent.         *)
(*                                                                         *)
(* timer::active, dispatcher::exit, token_bucket_cfg::create and           *)
(* tcp_connection::set_timeouts each split their duration into seconds and *)
(* microseconds with two duration_casts, which truncate towards zero, and  *)
(* pass a timeval to libevent only if one of the two is positive.  Without *)
(* it a timer is not added, exit is immediate, a bucket ticks every second *)
(* and a timeout is off.                                                   *)
(*                                                                         *)
(* Durations are in nanoseconds, the finest unit of the standard library.  *)
(***************************************************************************)
EXTENDS Integers

Microsecond == 1000
Second == 1000000000

\* duration_cast to a coarser unit: towards zero.
Cast(d, unit) == IF d >= 0 THEN d \div unit ELSE -((-d) \div unit)

\* sec = duration_cast<seconds>(d), usec = duration_cast<microseconds>(d - sec)
Split(d) ==
  LET sec == Cast(d, Second)
  IN  [sec |-> sec, usec |-> Cast(d - sec * Second, Microsecond)]

\* if (sec > 0 || usec > 0)
Given(t) == t.sec > 0 \/ t.usec > 0

=============================================================================
