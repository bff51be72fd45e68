--------------------------- MODULE ConnectionSet ---------------------------
(***************************************************************************)
(* std::set<tcp_connection>, in which the servers keep their connections.  *)
(*                                                                         *)
(* std::less<tcp_connection> compares what file_descriptor() returns at the*)
(* moment of the comparison, so the order of the set is only as good as    *)
(* the descriptors of its elements: they must be distinct and must not     *)
(* change while the element is in the set.                                 *)
(***************************************************************************)
EXTENDS Integers, Sequences, SequencesExt, FiniteSets

CONSTANT
  Conn     \* the tcp_connection objects that may be made

VARIABLES
  nodes,    \* the elements of the set, in the order of the tree
  fd,       \* file_descriptor() of each connection; -1 without a bufferevent
  closing,  \* descriptors of bufferevents that were freed and are not closed yet
  running,  \* the connection whose handler is running, in a set
  lost      \* connections that emplace did not take

setVars == <<nodes, fd, closing, running, lost>>

SetInit ==
  /\ nodes = <<>> /\ fd = [c \in Conn |-> -1]
  /\ closing = {} /\ running = {} /\ lost = {}

\* std::less<tcp_connection>
Less(a, b) == fd[a] < fd[b]

\* Where the search for a key ends: behind everything that is less, or behind
\* everything that is not greater.
LowerBound(key) == Cardinality({n \in DOMAIN nodes : fd[nodes[n]] < key}) + 1
UpperBound(key) == Cardinality({n \in DOMAIN nodes : fd[nodes[n]] <= key}) + 1

Live(c) == fd[c] # -1

\* tcp_connection conn(m_disp, f); m_conn_set.emplace(std::move(conn)).  An element
\* with the same descriptor would keep the new connection out of the set.
Emplace(c, f) ==
  /\ ~Live(c)
  /\ fd' = [fd EXCEPT ![c] = f]
  /\ IF \E d \in ToSet(nodes) : fd[d] = f
     THEN lost' = lost \cup {c} /\ UNCHANGED nodes
     ELSE nodes' = InsertAt(nodes, LowerBound(f), c) /\ UNCHANGED lost
  /\ UNCHANGED <<closing, running>>

\* An event of a connection calls its handler.
Event(c) ==
  /\ running = {} /\ c \in ToSet(nodes)
  /\ running' = {c}
  /\ UNCHANGED <<nodes, fd, closing, lost>>

\* The handler returns without ending the connection.
Return ==
  /\ running # {} /\ running' = {}
  /\ UNCHANGED <<nodes, fd, closing, lost>>

\* What the set holds in the places from first up to before past.
Between(first, past) == {nodes[n] : n \in first..past - 1}

\* Mutation: the descriptors stay open.
EraseLeaks(first, past) ==
  /\ nodes' = SubSeq(nodes, 1, first - 1) \o SubSeq(nodes, past, Len(nodes))
  /\ fd' = [d \in Conn |-> IF d \in Between(first, past) THEN -1 ELSE fd[d]]
  /\ UNCHANGED closing

\* The nodes go, and with each its ~tcp_connection; libevent closes the descriptors
\* when the callback that is running is over.
Erase(first, past) ==
  /\ nodes' = SubSeq(nodes, 1, first - 1) \o SubSeq(nodes, past, Len(nodes))
  /\ fd' = [d \in Conn |-> IF d \in Between(first, past) THEN -1 ELSE fd[d]]
  /\ closing' = closing \cup {fd[d] : d \in Between(first, past)}

\* Mutation: the connection is closed where it is.
HandleEndCloses(c) ==
  /\ running = {c} /\ running' = {}
  /\ fd' = [fd EXCEPT ![c] = -1] /\ closing' = closing \cup {fd[c]}
  /\ UNCHANGED <<nodes, lost>>

\* m_conn_set.erase(conn): the range of elements equivalent to conn goes.
HandleEnd(c) ==
  /\ running = {c} /\ running' = {}
  /\ Erase(LowerBound(fd[c]), UpperBound(fd[c]))
  /\ UNCHANGED lost

\* libevent finishes the deferred frees.
FinishFree == closing # {} /\ closing' = {} /\ UNCHANGED <<nodes, fd, running, lost>>

=============================================================================
