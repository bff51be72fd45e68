--------------------------- MODULE HandleOwnership ---------------------------
(***************************************************************************)
(* What every movable wrapper of this library promises about the libevent  *)
(* object behind it: a wrapper holds at most one resource, a resource has  *)
(* at most one holder, hand-over is by move or by swap and loses nothing,  *)
(* and an event on a resource is reported to whoever holds it now.         *)
(*                                                                         *)
(* tcp_connection implements this with a raw callback context that each    *)
(* member function has to re-point; see TcpConnection and its run MCTcp.   *)
(***************************************************************************)

CONSTANTS Handle, Resource, NULL

VARIABLES
  holds,   \* the resource each wrapper holds, or NULL
  sink     \* the wrapper told of events on the resource a wrapper holds

vars == <<holds, sink>>

TypeOK ==
  /\ holds \in [Handle -> Resource \cup {NULL}]
  /\ sink \in [Handle -> Handle \cup {NULL}]

Held == {holds[h] : h \in Handle} \ {NULL}

Init ==
  /\ holds = [h \in Handle |-> NULL]
  /\ sink = [h \in Handle |-> NULL]

\* Events are always reported to the present holder.
Reported == sink' = [h \in Handle |-> IF holds'[h] = NULL THEN NULL ELSE h]

\* One or two idle wrappers obtain unheld resources.
Acquire(h, r) ==
  /\ holds[h] = NULL /\ r \notin Held
  /\ holds' = [holds EXCEPT ![h] = r]
  /\ Reported

AcquirePair(h, k, r, s) ==
  /\ h # k /\ holds[h] = NULL /\ holds[k] = NULL
  /\ r # s /\ r \notin Held /\ s \notin Held
  /\ holds' = [holds EXCEPT ![h] = r, ![k] = s]
  /\ Reported

Release(h) ==
  /\ holds' = [holds EXCEPT ![h] = NULL]
  /\ Reported

\* The resource of k passes to h; what h held before is released.
Transfer(h, k) ==
  /\ h # k
  /\ holds' = [holds EXCEPT ![h] = holds[k], ![k] = NULL]
  /\ Reported

Exchange(h, k) ==
  /\ holds' = [holds EXCEPT ![h] = holds[k], ![k] = holds[h]]
  /\ Reported

Next ==
  \/ \E h \in Handle, r \in Resource : Acquire(h, r)
  \/ \E h, k \in Handle, r, s \in Resource : AcquirePair(h, k, r, s)
  \/ \E h \in Handle : Release(h)
  \/ \E h, k \in Handle : Transfer(h, k) \/ Exchange(h, k)

Spec == Init /\ [][Next]_vars

------------------------------------------------------------------------------

\* No two wrappers hold the same resource: whatever is freed by one destructor
\* or close() is not freed again by another.
ExclusiveHolder ==
  \A h, k \in Handle : holds[h] # NULL /\ holds[h] = holds[k] => h = k

\* An event never reaches a wrapper that is closed, moved from or gone.
ReportedToHolder ==
  \A h \in Handle : sink[h] = IF holds[h] = NULL THEN NULL ELSE h

==============================================================================
