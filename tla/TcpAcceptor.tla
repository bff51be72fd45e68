----------------------------- MODULE TcpAcceptor -----------------------------
(***************************************************************************)
(* ranger::event::tcp_acceptor (core/tcp_acceptor.cpp): to which object a  *)
(* listener reports an accepted descriptor, and what becomes of the        *)
(* descriptor.  EchoServer puts a server on top.                           *)
(*                                                                         *)
(* handle_accept guards the descriptor with a scope_guard, calls the       *)
(* handler and dismisses the guard when the handler returns true.  The     *)
(* handler may close, move, swap or re-program the acceptor it was called  *)
(* for; libevent keeps the listener alive until the callback returns.      *)
(***************************************************************************)
EXTENDS Naturals, FiniteSets

CONSTANTS
  Acc,        \* the acceptors the program declares
  Tmp,        \* the temporary of close() and operator=
  Listener,   \* addresses of evconnlistener objects
  Fd,         \* descriptor numbers
  NULL

Obj == Acc \cup {Tmp}
ASSUME AcceptorAssumption ==
  /\ Tmp \notin Acc /\ NULL \notin Obj \cup Listener \cup Fd
  /\ Obj \cap {"free", "dying"} = {}

VARIABLES
  obj,    \* m_listener of each acceptor, whether it has a handler and extra data
  lis,    \* context of the callback of each listener, or "free" or "dying"
  frame,  \* the call of handle_accept in progress
  open,   \* accepted descriptors that are open
  bad     \* a descriptor that is not open was closed

acceptorVars == <<obj, lis, frame, open, bad>>

\* Storage without an acceptor, and the time between calls of handle_accept.
Unborn == [alive |-> FALSE, listener |-> NULL, handler |-> FALSE, extra |-> FALSE]
NoFrame == [fd |-> NULL, listener |-> NULL]
InHandler == frame # NoFrame

AcceptorInit ==
  /\ obj = [a \in Obj |-> Unborn]
  /\ lis = [l \in Listener |-> "free"]
  /\ frame = NoFrame /\ open = {} /\ bad = FALSE

------------------------------------------------------------------------------
(* Acceptors are made, moved and closed, outside or inside a handler.  A     *)
(* state of the acceptors is a record s of obj and lis.                      *)

Now == [obj |-> obj, lis |-> lis]

Become(s) == obj' = s.obj /\ lis' = s.lis /\ UNCHANGED <<frame, open, bad>>

ResetCallbacks(s, a) ==
  IF s.obj[a].listener = NULL THEN s ELSE [s EXCEPT !.lis[s.obj[a].listener] = a]

\* The extra data stays behind.
Moved(s, d, r) ==
  [s EXCEPT !.obj[d] = [s.obj[r] EXCEPT !.extra = FALSE],
            !.obj[r] = [Unborn EXCEPT !.alive = TRUE, !.extra = s.obj[r].extra]]

\* Mutation: the callbacks keep their context.
MoveCtorNoReset(s, d, r) == Moved(s, d, r)

MoveCtor(s, d, r) == ResetCallbacks(Moved(s, d, r), d)

\* evconnlistener_free: a listener whose callback is running dies when it returns.
FreeListener(s, l) ==
  IF l = NULL THEN s ELSE [s EXCEPT !.lis[l] = IF frame.listener = l THEN "dying" ELSE "free"]

Destroy(s, a) == [FreeListener(s, s.obj[a].listener) EXCEPT !.obj[a] = Unborn]

\* Only the listeners and the handlers are exchanged.
Exchanged(s, a, b) ==
  [s EXCEPT !.obj[a] = [s.obj[b] EXCEPT !.extra = s.obj[a].extra],
            !.obj[b] = [s.obj[a] EXCEPT !.extra = s.obj[b].extra]]

\* Mutation: the other acceptor's callbacks are forgotten.
SwapObjOneSided(s, a, b) == IF a = b THEN s ELSE ResetCallbacks(Exchanged(s, a, b), a)

SwapObj(s, a, b) ==
  IF a = b THEN s ELSE ResetCallbacks(ResetCallbacks(Exchanged(s, a, b), a), b)

Fresh(a) == a \in Acc /\ ~obj[a].alive
Used(a) == a \in Acc /\ obj[a].alive

\* evconnlistener_new_bind, which gives the callbacks their first context.
Bind(s, a, l) == ResetCallbacks([s EXCEPT !.obj[a].listener = l], a)

\* bind() that fails throws from a constructor that has not completed: no object.
Construct(a, l, h) ==
  /\ Fresh(a) /\ lis[l] = "free"
  /\ Become(Bind([Now EXCEPT !.obj[a] = [Unborn EXCEPT !.alive = TRUE, !.handler = h]], a, l))

SetEventHandler(a) == Used(a) /\ Become([Now EXCEPT !.obj[a].handler = TRUE])

SetExtraData(a) == Used(a) /\ Become([Now EXCEPT !.obj[a].extra = TRUE])

MoveConstruct(d, r) == Fresh(d) /\ Used(r) /\ Become(MoveCtor(Now, d, r))

Swap(a, b) == Used(a) /\ Used(b) /\ Become(SwapObj(Now, a, b))

MoveAssign(d, r) ==
  /\ Used(d) /\ Used(r)
  /\ Become(IF d = r THEN Now ELSE Destroy(SwapObj(MoveCtor(Now, Tmp, r), d, Tmp), Tmp))

Close(a) == Used(a) /\ Become(Destroy(MoveCtor(Now, Tmp, a), Tmp))

Destruct(a) == Used(a) /\ Become(Destroy(Now, a))

------------------------------------------------------------------------------
(* Descriptors. *)

\* The guard.
CloseFd(f) == open' = open \ {f} /\ bad' = (f \notin open)

\* handle_accept up to the call of the handler.  Without a handler the guard
\* closes the descriptor at once.
HandleAccept(l, f) ==
  /\ ~InHandler /\ lis[l] \in Obj /\ f \in Fd \ open
  /\ IF obj[lis[l]].handler
     THEN frame' = [fd |-> f, listener |-> l] /\ open' = open \cup {f}
     ELSE UNCHANGED <<frame, open>>
  /\ UNCHANGED <<obj, lis, bad>>

\* The handler has returned, and libevent lets go of the listener.
FinishAccept ==
  /\ InHandler /\ frame' = NoFrame
  /\ lis' = [l \in Listener |-> IF lis[l] = "dying" THEN "free" ELSE lis[l]]
  /\ UNCHANGED obj

\* Mutation: the guard is not dismissed.
HandlerTakesUnguarded == FinishAccept /\ CloseFd(frame.fd)

\* The handler has made a connection of the descriptor and returns true.
HandlerTakes == FinishAccept /\ UNCHANGED <<open, bad>>

\* The handler returns false.
HandlerRefuses == FinishAccept /\ CloseFd(frame.fd)

\* What a program can do with its acceptors at any moment, handlers included.
UseAcceptors ==
  \/ \E a \in Acc, l \in Listener, h \in BOOLEAN : Construct(a, l, h)
  \/ \E a \in Acc : SetEventHandler(a) \/ SetExtraData(a) \/ Close(a) \/ Destruct(a)
  \/ \E a, b \in Acc : MoveConstruct(a, b) \/ MoveAssign(a, b) \/ Swap(a, b)

==============================================================================
