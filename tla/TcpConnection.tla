---------------------------- MODULE TcpConnection ----------------------------
(***************************************************************************)
(* Ownership of libevent's bufferevents by ranger::event::tcp_connection   *)
(* objects (core/tcp_connection.cpp, core/ranger/event/tcp_connection.hpp).*)
(*                                                                         *)
(* A connection object owns a chain of bufferevents: m_base_bev is the     *)
(* socket, m_top_bev the last filter stacked on it.  libevent keeps a raw  *)
(* pointer to the object as the context of the callbacks, the rate limiter *)
(* keeps a raw pointer to a token_bucket_cfg, and the socket keeps the     *)
(* file descriptor.  Construction, moves, swap, close, filters and every   *)
(* path that throws must keep all of these in agreement.                   *)
(*                                                                         *)
(* The heap is one record; each C++ member function is an operator from    *)
(* heap to heap, so that a function that calls others (close(), operator=, *)
(* create_pair) is the composition of their operators.                     *)
(***************************************************************************)
EXTENDS Naturals, FiniteSets

CONSTANTS
  Conn,       \* the tcp_connection objects the program declares
  Tmp1, Tmp2, \* unnamed temporaries and locals of the library's own functions
  Bev,        \* addresses at which libevent can allocate a bufferevent
  Filter,     \* addresses of filter_handler objects
  Fd,         \* file descriptor numbers
  Cfg,        \* token_bucket_cfg objects
  Hdl,        \* event handlers
  Extra,      \* values given to set_extra_data
  NULL

Obj == Conn \cup {Tmp1, Tmp2}

ASSUME TempsAreNotDeclared == Tmp1 # Tmp2 /\ Tmp1 \notin Conn /\ Tmp2 \notin Conn

ASSUME NullIsNoObject ==
  NULL \notin Obj \cup Bev \cup Filter \cup Fd \cup Cfg \cup Hdl \cup Extra

VARIABLES
  heap,           \* the objects, the bufferevents and what they own
  fds,            \* descriptors the program itself has to close
  cfgs,           \* token_bucket_cfg the program itself holds a shared_ptr to
  connectFailed   \* history: bufferevent_socket_connect has returned -1

vars == <<heap, fds, cfgs, connectFailed>>

OrNull(S) == S \cup {NULL}

\* The members of a tcp_connection; alive: its storage holds a constructed object.
ConnRec == [alive: BOOLEAN, top: OrNull(Bev), base: OrNull(Bev),
            bucket: OrNull(Cfg), handler: OrNull(Hdl), extra: OrNull(Extra)]

\* What libevent keeps of a bufferevent; below: the bufferevents under a filter.
BevRec == [live: BOOLEAN, ctx: OrNull(Obj), below: SUBSET Bev,
           filter: OrNull(Filter), cfg: OrNull(Cfg), fd: OrNull(Fd)]

Unborn == [alive |-> FALSE, top |-> NULL, base |-> NULL,
           bucket |-> NULL, handler |-> NULL, extra |-> NULL]

Empty == [Unborn EXCEPT !.alive = TRUE]

NoBev == [live |-> FALSE, ctx |-> NULL, below |-> {},
          filter |-> NULL, cfg |-> NULL, fd |-> NULL]

Alive(h, c) == h.conn[c].alive

------------------------------------------------------------------------------
(* libevent, as the library uses it. *)

Chain(h, b) == {b} \cup h.bev[b].below

\* bufferevent_free with BEV_OPT_CLOSE_ON_FREE: the whole chain goes, each
\* filter's handler is deleted (filter_free) and the socket is closed.  Freeing
\* memory that is not a live bufferevent is undefined: "bad" records it.
BufferEventFree(h, b) ==
  IF h.bev[b].live
  THEN [h EXCEPT !.bev = [x \in Bev |-> IF x \in Chain(h, b) THEN NoBev ELSE h.bev[x]],
                 !.filters = @ \ {h.bev[x].filter : x \in Chain(h, b)},
                 !.open = @ \ {h.bev[x].fd : x \in Chain(h, b)}]
  ELSE [h EXCEPT !.bad = TRUE]

CloseSocket(h, f) == [h EXCEPT !.open = @ \ {f}]

------------------------------------------------------------------------------
(* The member functions, from heap to heap. *)

\* bufferevent_enable is left out: nothing here depends on what is enabled.
ResetCallbacks(h, c) ==
  IF h.conn[c].top = NULL THEN h ELSE [h EXCEPT !.bev[h.conn[c].top].ctx = c]

\* tcp_connection(bufferevent*) on a fresh bufferevent b for descriptor f.
SocketCtor(h, c, b, f) ==
  ResetCallbacks([h EXCEPT !.bev[b] = [NoBev EXCEPT !.live = TRUE, !.fd = f],
                           !.conn[c] = [Empty EXCEPT !.top = b, !.base = b],
                           !.open = @ \cup {f}], c)

Destroy(h, c) ==
  LET freed == IF h.conn[c].top = NULL THEN h ELSE BufferEventFree(h, h.conn[c].top)
  IN  [freed EXCEPT !.conn[c] = Unborn]

\* Mutation: the source keeps its pointers, so two objects free the same chain.
MoveCtorKeepsSource(h, d, s) ==
  ResetCallbacks([h EXCEPT !.conn[d] = h.conn[s],
                           !.conn[s] = [@ EXCEPT !.bucket = NULL, !.handler = NULL]], d)

\* Mutation: the moved-to object is not made the context of the callbacks.
MoveCtorNoReset(h, d, s) ==
  [h EXCEPT !.conn[d] = h.conn[s], !.conn[s] = Empty]

MoveCtor(h, d, s) ==
  LET rhs   == h.conn[s]
      taken == [h EXCEPT !.conn[d] = [alive |-> TRUE, top |-> rhs.top, base |-> rhs.base,
                                      bucket |-> rhs.bucket, handler |-> rhs.handler,
                                      extra |-> rhs.extra],
                         !.conn[s] = [@ EXCEPT !.bucket = NULL, !.handler = NULL]]
  IN  [ResetCallbacks(taken, d) EXCEPT
         !.conn[s] = [@ EXCEPT !.top = NULL, !.base = NULL, !.extra = NULL]]

\* Mutation: the socket of the chain is left behind.
SwapMembersNotBase(h, a, b) ==
  [h EXCEPT !.conn[a] = [h.conn[b] EXCEPT !.base = h.conn[a].base],
            !.conn[b] = [h.conn[a] EXCEPT !.base = h.conn[b].base]]

\* Mutation: m_extra_data is not exchanged.
SwapMembersNotExtra(h, a, b) ==
  [h EXCEPT !.conn[a] = [h.conn[b] EXCEPT !.extra = h.conn[a].extra],
            !.conn[b] = [h.conn[a] EXCEPT !.extra = h.conn[b].extra]]

\* swap() exchanges the five members one by one.
SwapMembers(h, a, b) ==
  LET mine == h.conn[a]  theirs == h.conn[b]
  IN  [h EXCEPT
        !.conn[a] = [@ EXCEPT !.top = theirs.top, !.base = theirs.base,
                              !.bucket = theirs.bucket, !.handler = theirs.handler,
                              !.extra = theirs.extra],
        !.conn[b] = [@ EXCEPT !.top = mine.top, !.base = mine.base,
                              !.bucket = mine.bucket, !.handler = mine.handler,
                              !.extra = mine.extra]]

\* Mutation: only *this resets its callbacks.
SwapConnResetsOne(h, a, b) ==
  IF a = b THEN h ELSE ResetCallbacks(SwapMembers(h, a, b), a)

SwapConn(h, a, b) ==
  IF a = b THEN h ELSE ResetCallbacks(ResetCallbacks(SwapMembers(h, a, b), a), b)

\* auto tmp = std::move(rhs); swap(tmp); then tmp goes out of scope.
Assign(h, d, s) ==
  IF d = s THEN h ELSE Destroy(SwapConn(MoveCtor(h, Tmp1, s), d, Tmp1), Tmp1)

\* Mutation: the temporary outlives the call.
CloseConnKeepsTemporary(h, c) == MoveCtor(h, Tmp1, c)

\* tcp_connection(std::move(*this)): the temporary dies at the semicolon.
CloseConn(h, c) == Destroy(MoveCtor(h, Tmp1, c), Tmp1)

\* bufferevent_filter_new has put bufferevent b, with handler flt, on top.
\* libevent takes over the callbacks of the bufferevent underneath.
StackFilter(h, c, b, flt) ==
  LET under == h.conn[c].top
      bevs  == [h.bev EXCEPT ![under].ctx = NULL,
                             ![b] = [NoBev EXCEPT !.live = TRUE, !.filter = flt,
                                                  !.below = Chain(h, under)]]
      conns == [h.conn EXCEPT ![c].top = b]
  IN  ResetCallbacks([h EXCEPT !.bev = bevs, !.filters = @ \cup {flt}, !.conn = conns], c)

\* Mutation: the shared_ptr is not kept.
InstallRateLimitUnowned(h, c, k) ==
  IF h.conn[c].base = NULL THEN h ELSE [h EXCEPT !.bev[h.conn[c].base].cfg = k]

InstallRateLimit(h, c, k) ==
  IF h.conn[c].base = NULL THEN h
  ELSE [h EXCEPT !.bev[h.conn[c].base].cfg = k, !.conn[c].bucket = k]

------------------------------------------------------------------------------
(* The program's calls.  A step of undefined behaviour (heap.bad) ends it:  *)
(* a second bufferevent_free dereferences the method table of freed memory. *)

FreshBev == {b \in Bev : ~heap.bev[b].live}
FreshFd == Fd \ heap.open
NewConn(c) == c \in Conn /\ ~Alive(heap, c)
UsedConn(c) == c \in Conn /\ Alive(heap, c)

Construct(c) ==
  /\ NewConn(c)
  /\ heap' = [heap EXCEPT !.conn[c] = Empty]
  /\ UNCHANGED <<fds, cfgs, connectFailed>>

\* tcp_connection(disp, fd).  When bufferevent_socket_new fails the constructor
\* throws before the object exists and the caller still holds the descriptor.
ConstructFromFd(c, b, f) ==
  /\ NewConn(c) /\ b \in FreshBev /\ f \in fds
  /\ heap' = SocketCtor(heap, c, b, f)
  /\ fds' = fds \ {f}
  /\ UNCHANGED <<cfgs, connectFailed>>

\* tcp_connection(disp, handler, ep) and its overloads, connect() returning 0.
ConstructAndConnect(c, b, f, hd) ==
  /\ NewConn(c) /\ b \in FreshBev /\ f \in FreshFd
  /\ heap' = [SocketCtor(heap, c, b, f) EXCEPT !.conn[c].handler = hd]
  /\ UNCHANGED <<fds, cfgs, connectFailed>>

\* connect() returning -1 frees the bufferevent and throws from the body of a
\* delegating constructor.  The delegated-to constructor has completed, so the
\* destructor runs as the exception leaves, and m_top_bev still points there.
ConstructAndFailToConnect(c, b, f, hd) ==
  /\ NewConn(c) /\ b \in FreshBev /\ f \in FreshFd
  /\ LET built == [SocketCtor(heap, c, b, f) EXCEPT !.conn[c].handler = hd]
     IN  heap' = Destroy(BufferEventFree(built, built.conn[c].top), c)
  /\ connectFailed' = TRUE
  /\ UNCHANGED <<fds, cfgs>>

\* create_pair: both connections are built as locals, then moved into the pair.
BuiltPair(h, p, q, b1, b2, f, g) ==
  LET locals == SocketCtor(SocketCtor(h, Tmp1, b1, f), Tmp2, b2, g)
      moved  == MoveCtor(MoveCtor(locals, p, Tmp1), q, Tmp2)
  IN  Destroy(Destroy(moved, Tmp2), Tmp1)

CreatePair(p, q, b1, b2, f, g) ==
  /\ NewConn(p) /\ NewConn(q) /\ p # q
  /\ b1 \in FreshBev /\ b2 \in FreshBev /\ b1 # b2
  /\ f \in FreshFd /\ g \in FreshFd /\ f # g
  /\ heap' = BuiltPair([heap EXCEPT !.open = @ \cup {f, g}], p, q, b1, b2, f, g)
  /\ UNCHANGED <<fds, cfgs, connectFailed>>

\* Mutation: both guards are dismissed as soon as the first connection exists.
CreatePairThrowsUnguarded(b, f, g) ==
  /\ b \in FreshBev /\ f \in FreshFd /\ g \in FreshFd /\ f # g
  /\ heap' = Destroy(SocketCtor([heap EXCEPT !.open = @ \cup {f, g}], Tmp1, b, f), Tmp1)
  /\ UNCHANGED <<fds, cfgs, connectFailed>>

\* A failing step of create_pair: the scope guards that were not dismissed close
\* their descriptor, and first_conn, if it exists, closes its own.
CreatePairThrows(b, f, g) ==
  /\ b \in FreshBev
  /\ f \in FreshFd /\ g \in FreshFd /\ f # g
  /\ LET opened == [heap EXCEPT !.open = @ \cup {f, g}]
     IN  \/ heap' = CloseSocket(CloseSocket(opened, g), f)
         \/ heap' = CloseSocket(Destroy(SocketCtor(opened, Tmp1, b, f), Tmp1), g)
  /\ UNCHANGED <<fds, cfgs, connectFailed>>

Destruct(c) ==
  /\ UsedConn(c)
  /\ heap' = Destroy(heap, c)
  /\ UNCHANGED <<fds, cfgs, connectFailed>>

MoveConstruct(d, s) ==
  /\ NewConn(d) /\ UsedConn(s)
  /\ heap' = MoveCtor(heap, d, s)
  /\ UNCHANGED <<fds, cfgs, connectFailed>>

MoveAssign(d, s) ==
  /\ UsedConn(d) /\ UsedConn(s)
  /\ heap' = Assign(heap, d, s)
  /\ UNCHANGED <<fds, cfgs, connectFailed>>

Swap(a, b) ==
  /\ UsedConn(a) /\ UsedConn(b)
  /\ heap' = SwapConn(heap, a, b)
  /\ UNCHANGED <<fds, cfgs, connectFailed>>

Close(c) ==
  /\ UsedConn(c)
  /\ heap' = CloseConn(heap, c)
  /\ UNCHANGED <<fds, cfgs, connectFailed>>

AppendFilter(c, b, flt) ==
  /\ UsedConn(c) /\ heap.conn[c].top # NULL
  /\ b \in FreshBev /\ flt \in Filter \ heap.filters
  /\ heap' = StackFilter(heap, c, b, flt)
  /\ UNCHANGED <<fds, cfgs, connectFailed>>

\* bufferevent_filter_new fails, as it does on a connection without a bufferevent:
\* the unique_ptr still owns the new handler and deletes it.
AppendFilterThrows(c, flt) ==
  /\ UsedConn(c) /\ flt \in Filter \ heap.filters
  /\ LET made == [heap EXCEPT !.filters = @ \cup {flt}]
     IN  heap' = [made EXCEPT !.filters = @ \ {flt}]
  /\ UNCHANGED <<fds, cfgs, connectFailed>>

SetRateLimit(c, k) ==
  /\ UsedConn(c) /\ k \in cfgs
  /\ heap' = InstallRateLimit(heap, c, k)
  /\ UNCHANGED <<fds, cfgs, connectFailed>>

ResetRateLimit(c) ==
  /\ UsedConn(c)
  /\ heap' = InstallRateLimit(heap, c, NULL)
  /\ UNCHANGED <<fds, cfgs, connectFailed>>

SetEventHandler(c, hd) ==
  /\ UsedConn(c)
  /\ heap' = [heap EXCEPT !.conn[c].handler = hd]
  /\ UNCHANGED <<fds, cfgs, connectFailed>>

SetExtraData(c, e) ==
  /\ UsedConn(c)
  /\ heap' = [heap EXCEPT !.conn[c].extra = e]
  /\ UNCHANGED <<fds, cfgs, connectFailed>>

\* The program obtains a descriptor (accept) and may close one it still holds.
TakeFd(f) ==
  /\ f \in FreshFd
  /\ heap' = [heap EXCEPT !.open = @ \cup {f}]
  /\ fds' = fds \cup {f}
  /\ UNCHANGED <<cfgs, connectFailed>>

FileDescriptorClose(f) ==
  /\ f \in fds
  /\ heap' = CloseSocket(heap, f)
  /\ fds' = fds \ {f}
  /\ UNCHANGED <<cfgs, connectFailed>>

\* A cfg is deleted with the last shared_ptr to it.
CfgAlive(k) == k \in cfgs \/ \E c \in Obj : heap.conn[c].bucket = k

CreateCfg(k) ==
  /\ k \in Cfg /\ ~CfgAlive(k)
  /\ cfgs' = cfgs \cup {k}
  /\ UNCHANGED <<heap, fds, connectFailed>>

ReleaseCfg(k) ==
  /\ k \in cfgs
  /\ cfgs' = cfgs \ {k}
  /\ UNCHANGED <<heap, fds, connectFailed>>

------------------------------------------------------------------------------

Init ==
  /\ heap = [conn |-> [c \in Obj |-> Unborn], bev |-> [b \in Bev |-> NoBev],
             filters |-> {}, open |-> {}, bad |-> FALSE]
  /\ fds = {}
  /\ cfgs = {}
  /\ connectFailed = FALSE

ConstructStep ==
  \/ \E c \in Conn : Construct(c)
  \/ \E c \in Conn, b \in Bev, f \in Fd : ConstructFromFd(c, b, f)
  \/ \E c \in Conn, b \in Bev, f \in Fd, hd \in OrNull(Hdl) :
       \/ ConstructAndConnect(c, b, f, hd)
       \/ ConstructAndFailToConnect(c, b, f, hd)
  \/ \E p, q \in Conn, b1, b2 \in Bev, f, g \in Fd : CreatePair(p, q, b1, b2, f, g)
  \/ \E b \in Bev, f, g \in Fd : CreatePairThrows(b, f, g)

HandOverStep ==
  \/ \E c \in Conn : Destruct(c) \/ Close(c)
  \/ \E d, s \in Conn : MoveConstruct(d, s) \/ MoveAssign(d, s) \/ Swap(d, s)

ConfigureStep ==
  \/ \E c \in Conn, b \in Bev, flt \in Filter : AppendFilter(c, b, flt)
  \/ \E c \in Conn, flt \in Filter : AppendFilterThrows(c, flt)
  \/ \E c \in Conn, k \in Cfg : SetRateLimit(c, k)
  \/ \E c \in Conn : ResetRateLimit(c)
  \/ \E c \in Conn, hd \in Hdl : SetEventHandler(c, hd)
  \/ \E c \in Conn, e \in OrNull(Extra) : SetExtraData(c, e)

ProgramStep ==
  \/ \E f \in Fd : TakeFd(f) \/ FileDescriptorClose(f)
  \/ \E k \in Cfg : CreateCfg(k) \/ ReleaseCfg(k)

Next == ~heap.bad /\ (ConstructStep \/ HandOverStep \/ ConfigureStep \/ ProgramStep)

Spec == Init /\ [][Next]_vars

------------------------------------------------------------------------------
(* Properties. *)

Owned(c) == IF heap.conn[c].top = NULL THEN {} ELSE Chain(heap, heap.conn[c].top)

LiveBev == {b \in Bev : heap.bev[b].live}

\* Every variable keeps its type, storage without an object holds nothing, and
\* the temporaries of close(), operator= and create_pair are gone between calls.
TypeOK ==
  /\ heap.conn \in [Obj -> ConnRec]
  /\ heap.bev \in [Bev -> BevRec]
  /\ heap.filters \subseteq Filter /\ heap.open \subseteq Fd /\ heap.bad \in BOOLEAN
  /\ \A c \in Obj : c \in {Tmp1, Tmp2} \/ ~Alive(heap, c) => heap.conn[c] = Unborn
  /\ fds \subseteq Fd /\ cfgs \subseteq Cfg /\ connectFailed \in BOOLEAN

\* Whatever sequence of moves, swaps, closes and filters came before, the
\* callbacks of a connection's top bufferevent carry the address of the object
\* that owns it now, so handle_read, handle_write and handle_event never run on
\* a connection that was moved from or destroyed.
CallbacksReachOwner ==
  \A c \in Obj : heap.conn[c].top # NULL => heap.bev[heap.conn[c].top].ctx = c

\* The bufferevents of the process are partitioned among the live connections:
\* none is dangling, shared or leaked, and m_base_bev is always the socket at the
\* bottom of the chain whose top is m_top_bev.
OneOwner ==
  /\ LiveBev = UNION {Owned(c) : c \in Obj}
  /\ \A c, d \in Obj : c # d => Owned(c) \cap Owned(d) = {}
  /\ \A c \in Obj :
       IF heap.conn[c].top = NULL THEN heap.conn[c].base = NULL
       ELSE /\ heap.conn[c].base \in Owned(c)
            /\ heap.bev[heap.conn[c].base].below = {}

\* The rate limiter of a bufferevent keeps a raw pointer to its configuration:
\* as long as it is installed, the shared_ptr in the connection that owns the
\* bufferevent keeps it alive, through every hand-over.
RateLimitCfgAlive ==
  \A b \in LiveBev : heap.bev[b].cfg # NULL => CfgAlive(heap.bev[b].cfg)

\* What libevent holds for the connections is owned once.  A filter_handler passes
\* from the unique_ptr of append_filter to libevent and lives exactly as long as the
\* one bufferevent that calls it; an open descriptor belongs to the program or to one
\* live socket.  No constructor, close, failing append_filter or throwing path of
\* create_pair leaks or shares either.
HeldOnce ==
  LET owned == {heap.bev[b].fd : b \in LiveBev} \ {NULL}
      Differ(x, y) == x # NULL => x # y
  IN  /\ heap.filters = {heap.bev[b].filter : b \in LiveBev} \ {NULL}
      /\ heap.open = fds \cup owned /\ fds \cap owned = {}
      /\ \A b, e \in LiveBev :
           b # e => /\ Differ(heap.bev[b].filter, heap.bev[e].filter)
                    /\ Differ(heap.bev[b].fd, heap.bev[e].fd)

\* Apart from a constructor whose connect() fails, no sequence of calls frees a
\* bufferevent twice or frees one that does not exist.
DoubleFreeOnlyOnConnect == heap.bad => connectFailed

\* A bufferevent is freed once.  connect() reports failure with the exception
\* "bufferevent_socket_connect call failed.", which a caller can only handle if
\* the constructor that throws it has released the bufferevent just once.
NoDoubleFree == ~heap.bad

\* Whenever a bufferevent changes hands, the filters above it, its rate limit
\* configuration, the event handler and the extra data go with it.
PayloadTravels ==
  [][\A c, d \in Conn :
       c # d /\ heap.conn[c].base # NULL /\ heap'.conn[d].base = heap.conn[c].base
         => /\ heap'.conn[d].top = heap.conn[c].top
            /\ heap'.conn[d].bucket = heap.conn[c].bucket
            /\ heap'.conn[d].handler = heap.conn[c].handler
            /\ heap'.conn[d].extra = heap.conn[c].extra]_vars

\* The abstract view: a connection holds its socket, and an event on it is
\* reported to the context of the callbacks on top of the chain.
Abs == INSTANCE HandleOwnership
  WITH Handle <- Conn, Resource <- Bev,
       holds <- [c \in Conn |-> heap.conn[c].base],
       sink <- [c \in Conn |-> IF heap.conn[c].top = NULL THEN NULL
                               ELSE heap.bev[heap.conn[c].top].ctx]

\* tcp_connection implements the ownership every wrapper promises.
ImplementsOwnership == Abs!Spec

==============================================================================
