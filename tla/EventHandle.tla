----------------------------- MODULE EventHandle -----------------------------
(***************************************************************************)
(* The handles ranger::event::timer, trigger and signal.  The three classes*)
(* are written alike (core/ranger/event/timer.hpp, trigger.hpp,            *)
(* signal.hpp): a handle owns an impl, the impl owns the libevent event    *)
(* and points back to its handle, and the event carries the impl as the    *)
(* context of its callback.  The callback follows impl, m_handle and       *)
(* m_event_handler, none of which libevent keeps alive.                    *)
(*                                                                         *)
(* As in TcpConnection, each member function is an operator from heap to   *)
(* heap, and functions that call others are compositions.                  *)
(***************************************************************************)
EXTENDS Naturals, FiniteSets

CONSTANTS
  Handle,    \* the timers (triggers, signals) the program declares
  Tmp,       \* the temporary of close() and operator=
  Impl,      \* addresses of timer_impl objects
  Hdl,       \* event handlers
  NULL

Obj == Handle \cup {Tmp}

ASSUME HandleAssumption ==
  Tmp \notin Handle /\ NULL \notin Obj \cup Impl \cup Hdl

VARIABLES
  heap,      \* the handles, the impls and their events
  intended,  \* history: the handler the program last set for each event
  bad        \* the callback has followed a pointer to freed memory

vars == <<heap, intended, bad>>

OrNull(S) == S \cup {NULL}

\* Storage without a handle; alive: a handle has been constructed in it.
Unborn == [alive |-> FALSE, impl |-> NULL, handler |-> NULL]

\* event: "none", "idle" or "pending"; live: the impl has not been deleted.
NoImpl == [live |-> FALSE, handle |-> NULL, event |-> "none"]

------------------------------------------------------------------------------
(* The member functions, from heap to heap. *)

SetHandle(h, i, o) == IF i = NULL THEN h ELSE [h EXCEPT !.impl[i].handle = o]

\* timer_impl(dispatcher&): event_new.
NewImpl == [NoImpl EXCEPT !.live = TRUE, !.event = "idle"]

\* explicit timer(dispatcher&), and the one with a handler.
Ctor(h, o, i, hd) ==
  SetHandle([h EXCEPT !.impl[i] = NewImpl,
                      !.obj[o] = [alive |-> TRUE, impl |-> i, handler |-> hd]], i, o)

\* ~timer_impl: event_free, which removes a pending event first.
DeleteImpl(h, i) == [h EXCEPT !.impl[i] = NoImpl]

Destroy(h, o) ==
  LET deleted == IF h.obj[o].impl = NULL THEN h ELSE DeleteImpl(h, h.obj[o].impl)
  IN  [deleted EXCEPT !.obj[o] = Unborn]

\* Mutation: the impl is not told its new handle.
MoveCtorKeepsHandle(h, d, s) ==
  [h EXCEPT !.obj[d] = h.obj[s], !.obj[s] = [@ EXCEPT !.impl = NULL, !.handler = NULL]]

MoveCtor(h, d, s) ==
  LET rhs == h.obj[s]
  IN  SetHandle([h EXCEPT !.obj[d] = [alive |-> TRUE, impl |-> rhs.impl, handler |-> rhs.handler],
                          !.obj[s] = [@ EXCEPT !.impl = NULL, !.handler = NULL]],
                rhs.impl, d)

\* Mutation: the handlers stay.
SwapMembersNotHandler(h, a, b) ==
  [h EXCEPT !.obj[a].impl = h.obj[b].impl, !.obj[b].impl = h.obj[a].impl]

SwapMembers(h, a, b) ==
  LET mine == h.obj[a]  theirs == h.obj[b]
  IN  [h EXCEPT !.obj[a] = [@ EXCEPT !.impl = theirs.impl, !.handler = theirs.handler],
                !.obj[b] = [@ EXCEPT !.impl = mine.impl, !.handler = mine.handler]]

\* Mutation: only one of the impls is told its new handle.
SwapObjOneSided(h, a, b) ==
  IF a = b THEN h ELSE LET s == SwapMembers(h, a, b) IN SetHandle(s, s.obj[a].impl, a)

SwapObj(h, a, b) ==
  IF a = b THEN h
  ELSE LET s == SwapMembers(h, a, b)
       IN  SetHandle(SetHandle(s, s.obj[a].impl, a), s.obj[b].impl, b)

\* auto tmp = std::move(rhs); swap(tmp); then tmp goes out of scope.
Assign(h, d, s) ==
  IF d = s THEN h ELSE Destroy(SwapObj(MoveCtor(h, Tmp, s), d, Tmp), Tmp)

\* timer(std::move(*this)): the temporary dies at the semicolon.
CloseObj(h, o) == Destroy(MoveCtor(h, Tmp, o), Tmp)

------------------------------------------------------------------------------
(* The program's calls.  Nothing in a handle is locked: all of them are made *)
(* on the thread of the loop, before run() or from a handler.                *)

Fresh(o) == o \in Handle /\ ~heap.obj[o].alive
Used(o) == o \in Handle /\ heap.obj[o].alive

Construct(o, i, hd) ==
  /\ Fresh(o) /\ heap.impl[i] = NoImpl
  /\ heap' = Ctor(heap, o, i, hd)
  /\ intended' = [intended EXCEPT ![i] = hd]
  /\ UNCHANGED bad

SetEventHandler(o, hd) ==
  /\ Used(o)
  /\ heap' = [heap EXCEPT !.obj[o].handler = hd]
  /\ intended' = [i \in Impl |-> IF i = heap.obj[o].impl THEN hd ELSE intended[i]]
  /\ UNCHANGED bad

\* Arms the event; a timer's duration is not zero here.  See EventLoop.
Active(o) ==
  /\ Used(o) /\ heap.obj[o].impl # NULL
  /\ heap' = [heap EXCEPT !.impl[heap.obj[o].impl].event = "pending"]
  /\ UNCHANGED <<intended, bad>>

Rearrange(h) == heap' = h /\ UNCHANGED <<intended, bad>>

MoveConstruct(d, s) == Fresh(d) /\ Used(s) /\ Rearrange(MoveCtor(heap, d, s))
MoveAssign(d, s) == Used(d) /\ Used(s) /\ Rearrange(Assign(heap, d, s))
Swap(a, b) == Used(a) /\ Used(b) /\ Rearrange(SwapObj(heap, a, b))
Close(o) == Used(o) /\ Rearrange(CloseObj(heap, o))
Destruct(o) == Used(o) /\ Rearrange(Destroy(heap, o))

\* The loop calls handle_expire, handle_touch or handle_signal with the impl, which
\* calls the handler of the impl's handle.
Fire(i) ==
  LET hdl == heap.impl[i].handle
  IN  /\ heap.impl[i].event = "pending"
      /\ heap' = [heap EXCEPT !.impl[i].event = "idle"]
      /\ bad' = ~(heap.impl[i].live /\ (hdl = NULL \/ heap.obj[hdl].alive))
      /\ UNCHANGED intended

Init ==
  /\ heap = [obj |-> [o \in Obj |-> Unborn], impl |-> [i \in Impl |-> NoImpl]]
  /\ intended = [i \in Impl |-> NULL]
  /\ bad = FALSE

Next ==
  ~bad /\
  \/ \E o \in Handle, i \in Impl, hd \in OrNull(Hdl) : Construct(o, i, hd)
  \/ \E o \in Handle, hd \in Hdl : SetEventHandler(o, hd)
  \/ \E o \in Handle : Active(o) \/ Close(o) \/ Destruct(o)
  \/ \E d, s \in Handle : MoveConstruct(d, s) \/ MoveAssign(d, s) \/ Swap(d, s)
  \/ \E i \in Impl : Fire(i)

Spec == Init /\ [][Next]_vars

------------------------------------------------------------------------------
(* Properties. *)

\* An event that fires never reaches an impl or a handle that is gone, whatever
\* moves, swaps and closes came before; and no impl stays behind without a handle.
NoDangling ==
  /\ ~bad
  /\ \A i \in Impl : heap.impl[i].live => \E o \in Handle : heap.obj[o].impl = i

\* The handler an event will call is the one the program last set for it, although
\* handler and event travel from handle to handle in separate members.
HandlerTravels ==
  \A o \in Obj :
    heap.obj[o].impl # NULL => heap.obj[o].handler = intended[heap.obj[o].impl]

Abs == INSTANCE HandleOwnership
  WITH Resource <- Impl,
       holds <- [o \in Handle |-> heap.obj[o].impl],
       sink <- [o \in Handle |-> IF heap.obj[o].impl = NULL THEN NULL
                                 ELSE heap.impl[heap.obj[o].impl].handle]

\* timer, trigger and signal implement the ownership every wrapper promises.
ImplementsOwnership == Abs!Spec

==============================================================================
