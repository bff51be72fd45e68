----------------------------- MODULE EchoServer -----------------------------
(***************************************************************************)
(* sample/echo_server.cpp as a whole: acceptors, the accept handler and    *)
(* the set of connections in one thread, and the life of a descriptor from *)
(* accept over the guard of handle_accept and a connection in the set to   *)
(* its close, when the kernel may hand its number out again.               *)
(*                                                                         *)
(* The sample leaves its acceptor where it is; the program modelled here   *)
(* may also have several and move, close and re-program them at any moment.*)
(***************************************************************************)
EXTENDS TcpAcceptor, ConnectionSet

ASSUME NumberAssumption == Fd \subseteq Nat /\ NULL # -1

vars == <<acceptorVars, setVars>>

Init == AcceptorInit /\ SetInit

\* No handler is running.
InLoop == ~InHandler /\ running = {}

\* The loop reports a new descriptor, or an event of a connection.
LoopAccepts ==
  /\ InLoop
  /\ \E l \in Listener, f \in Fd : HandleAccept(l, f)
  /\ UNCHANGED setVars

LoopReports ==
  /\ InLoop
  /\ \E c \in Conn : Event(c)
  /\ UNCHANGED acceptorVars

\* The accept handler makes a connection, puts it into the set and returns true,
\* or returns false.
AcceptReturns ==
  \/ HandlerTakes /\ \E c \in Conn : Emplace(c, frame.fd)
  \/ HandlerRefuses /\ UNCHANGED setVars

\* The handler of a connection echoes, or erases the connection.
HandlerReturns ==
  /\ Return \/ \E c \in Conn : HandleEnd(c)
  /\ UNCHANGED acceptorVars

LoopFrees ==
  /\ InLoop /\ FinishFree
  /\ open' = open \ closing /\ bad' = (bad \/ ~(closing \subseteq open))
  /\ UNCHANGED <<obj, lis, frame>>

Next ==
  \/ UseAcceptors /\ UNCHANGED setVars
  \/ LoopAccepts \/ AcceptReturns
  \/ LoopReports \/ HandlerReturns \/ LoopFrees

Spec == Init /\ [][Next]_vars

------------------------------------------------------------------------------
(* Properties. *)

\* Every open descriptor has one owner, the guard of the running handle_accept, a
\* connection or a bufferevent that is being freed, and none is closed twice.
AcceptedOwnedOnce ==
  /\ open = ({frame.fd} \ {NULL}) \cup {fd[c] : c \in {d \in Conn : Live(d)}} \cup closing
  /\ \A c \in Conn : fd[c] \notin closing \cup {frame.fd}
  /\ \A c, d \in Conn : Live(c) /\ fd[c] = fd[d] => c = d
  /\ frame.fd \notin closing
  /\ ~bad

\* The tree of the set stays sorted although its keys are read from live objects.
Sorted == \A m, n \in DOMAIN nodes : m < n => Less(nodes[m], nodes[n])

\* Every connection that was accepted is kept until its own handler ends it: none
\* is turned away because an earlier one still has its number, none stays behind
\* without a descriptor.
AcceptedKept == lost = {} /\ ToSet(nodes) = {c \in Conn : Live(c)}

\* tcp_acceptor implements the ownership every wrapper promises: a listener reports
\* to the acceptor that holds it now, in the next iteration of the accept loop even
\* when a handler has just moved the acceptor.  A dying listener is held by nobody.
Abs == INSTANCE HandleOwnership
  WITH Handle <- Acc, Resource <- Listener,
       holds <- [a \in Acc |-> obj[a].listener],
       sink <- [a \in Acc |-> IF obj[a].listener = NULL THEN NULL ELSE lis[obj[a].listener]]

ImplementsOwnership == Abs!Spec

=============================================================================
