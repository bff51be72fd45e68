--------------------------- MODULE ConnectionPair ---------------------------
(***************************************************************************)
(* The ping-pong program sample/connection_pair.cpp: two connections of    *)
(* one socket pair share one handler, which echoes what it reads and, when *)
(* its counter is used up, closes both connections from inside itself.     *)
(*                                                                         *)
(* A connection calls its handler through m_event_handler, and close()     *)
(* destroys m_event_handler.  first.close() in the handler of the first    *)
(* connection would destroy the closure that is running, and               *)
(* m_conn_pair.second.close() would read "this" out of it.  Nothing in the *)
(* code says why that never happens; the reason is a parity argument.      *)
(*                                                                         *)
(* There is one message, of a few bytes, and it crosses the socket pair    *)
(* whole: it is wherever the next read event will be.                      *)
(*                                                                         *)
(* The specification is PairSpec, with names that leave room for another   *)
(* module beside it.                                                       *)
(***************************************************************************)
EXTENDS Integers

CONSTANT Half   \* size_t has 2 * Half values

ASSUME HalfAssumption == Half \in Nat \ {0}

VARIABLES
  m_cnt,      \* echoes left
  reader,     \* the connection whose read event is next
  closer      \* the connection whose handler has closed both, or "none"

pairVars == <<m_cnt, reader, closer>>

Side == {"first", "second"}

Peer(s) == IF s = "first" THEN "second" ELSE "first"

\* Mutation: the counter is not doubled.
StartOfCount(m) == m \in 0 .. 2 * Half - 1

\* m_cnt(cnt * 2), where the product wraps.
Start(m) ==
  \E cnt \in 0 .. 2 * Half - 1 : m = IF cnt < Half THEN 2 * cnt ELSE 2 * (cnt - Half)

\* run() writes the message to the first connection.
PairInit == Start(m_cnt) /\ reader = "second" /\ closer = "none"

\* Mutation: m_cnt > 0, without the decrement.
EchoKeepsCount ==
  /\ closer = "none" /\ m_cnt > 0
  /\ reader' = Peer(reader)
  /\ UNCHANGED <<m_cnt, closer>>

\* The handler of the reader, m_cnt-- > 0.
EchoBack ==
  /\ closer = "none" /\ m_cnt > 0
  /\ m_cnt' = m_cnt - 1
  /\ reader' = Peer(reader)
  /\ UNCHANGED closer

\* m_cnt-- wraps.  The handler of the reader calls first.close(), then
\* second.close(); only the reader's closure is running.
CloseBoth ==
  /\ closer = "none" /\ m_cnt = 0
  /\ m_cnt' = 2 * Half - 1
  /\ closer' = reader
  /\ UNCHANGED reader

PairNext == EchoBack \/ CloseBoth

\* One thread runs the loop, which goes on as long as it has an event.
PairSpec == PairInit /\ [][PairNext]_pairVars /\ WF_pairVars(PairNext)

------------------------------------------------------------------------------

\* The handler that closes both connections is never the first connection's, so
\* the closure it calls second.close() through is still there.
ClosureSurvives == closer # "first"

\* run() returns: the counter is used up and both connections are closed.
Ends == <>(closer # "none")

=============================================================================
