------------------------- MODULE TcpConnectionProofs -------------------------
(***************************************************************************)
(* Proofs about TcpConnection, for any number of connections, bufferevents,*)
(* filters, descriptors and configurations.                                *)
(***************************************************************************)
EXTENDS TcpConnection, TLAPS

HeapRec == [conn: [Obj -> ConnRec], bev: [Bev -> BevRec],
            filters: SUBSET Filter, open: SUBSET Fd, bad: BOOLEAN]

Own(h, c) == IF h.conn[c].top = NULL THEN {} ELSE Chain(h, h.conn[c].top)

\* Storage without an object, and an object without a chain, hold nothing.
CleanAt(h, c) ==
  /\ ~h.conn[c].alive => h.conn[c] = Unborn
  /\ h.conn[c].top = NULL => h.conn[c].base = NULL /\ h.conn[c].bucket = NULL

Clean(h) == \A c \in Obj : CleanAt(h, c)

\* The chain of a connection is live, ends in its socket, calls the connection,
\* and only the socket has a rate limit: the one the connection keeps alive.
ChainedAt(h, c) ==
  h.conn[c].top # NULL =>
    /\ h.bev[h.conn[c].top].ctx = c
    /\ h.conn[c].base \in Own(h, c)
    /\ h.bev[h.conn[c].base].cfg = h.conn[c].bucket
    /\ \A b \in Own(h, c) :
         /\ h.bev[b].live
         /\ h.bev[b].below \subseteq Own(h, c)
         /\ h.bev[b].below = {} <=> b = h.conn[c].base
         /\ b # h.conn[c].base => h.bev[b].cfg = NULL

Chained(h) == \A c \in Obj : ChainedAt(h, c)

Disjoint(h) == \A c, d \in Obj : c # d => Own(h, c) \cap Own(h, d) = {}

Covered(h) ==
  \A b \in Bev : IF h.bev[b].live THEN \E c \in Obj : b \in Own(h, c) ELSE h.bev[b] = NoBev

HInv(h) == h \in HeapRec /\ Clean(h) /\ Chained(h) /\ Disjoint(h) /\ Covered(h)

\* From h to r no filter handler and no descriptor changes hands.
SameHeld(r, h) ==
  /\ r.filters = h.filters /\ r.open = h.open
  /\ \A b \in Bev : r.bev[b].filter = h.bev[b].filter /\ r.bev[b].fd = h.bev[b].fd

\* From h to r the bufferevents N are freed with what they hold.
Released(r, h, N) ==
  /\ r.filters = h.filters \ {h.bev[x].filter : x \in N}
  /\ r.open = h.open \ {h.bev[x].fd : x \in N}
  /\ \A b \in Bev : r.bev[b] = IF b \in N THEN NoBev ELSE h.bev[b]

------------------------------------------------------------------------------
(* What each operator leaves in the heap. *)


LEMMA ConnType ==
  ASSUME NEW h \in HeapRec, NEW c \in Obj
  PROVE  /\ h.conn[c] \in ConnRec
         /\ h.conn[c].top \in OrNull(Bev)
BY DEF HeapRec, ConnRec

LEMMA NullNotBev == NULL \notin Bev
BY NullIsNoObject

LEMMA ResetFields ==
  ASSUME NEW h \in HeapRec, NEW c \in Obj
  PROVE  LET r == ResetCallbacks(h, c) IN
         /\ r \in HeapRec
         /\ r.conn = h.conn /\ r.filters = h.filters /\ r.open = h.open /\ r.bad = h.bad
         /\ r.bev = [b \in Bev |-> IF b = h.conn[c].top THEN [h.bev[b] EXCEPT !.ctx = c]
                                   ELSE h.bev[b]]
<1> DEFINE t == h.conn[c].top
           r == ResetCallbacks(h, c)
<1>0. h.bev \in [Bev -> BevRec]
  BY DEF HeapRec
<1>1. CASE t = NULL
  <2>1. r = h
    BY <1>1 DEF ResetCallbacks
  <2>2. h.bev = [b \in Bev |-> IF b = t THEN [h.bev[b] EXCEPT !.ctx = c] ELSE h.bev[b]]
    BY <1>0, <1>1, NullNotBev
  <2> QED
    BY <2>1, <2>2
<1>2. CASE t # NULL
  <2>1. t \in Bev
    BY <1>2, ConnType DEF OrNull
  <2>2. [h.bev[t] EXCEPT !.ctx = c] \in BevRec
    <3>1. h.bev[t] \in BevRec
      BY <2>1, <1>0
    <3> QED
      BY <3>1 DEF BevRec, OrNull
  <2> DEFINE g == [h.bev EXCEPT ![t].ctx = c]
  <2>3. g \in [Bev -> BevRec]
    BY <2>1, <2>2, <1>0
  <2>4. r = [h EXCEPT !.bev = g]
    BY <1>2 DEF ResetCallbacks, HeapRec
  <2>5. g = [b \in Bev |-> IF b = t THEN [h.bev[b] EXCEPT !.ctx = c] ELSE h.bev[b]]
    BY <2>1, <1>0
  <2> HIDE DEF g
  <2>6. /\ r \in HeapRec /\ r.bev = g
        /\ r.conn = h.conn /\ r.filters = h.filters /\ r.open = h.open /\ r.bad = h.bad
    BY <2>3, <2>4 DEF HeapRec
  <2> QED
    BY <2>5, <2>6
<1> QED
  BY <1>1, <1>2

LEMMA RecTypes ==
  /\ Unborn \in ConnRec /\ Empty \in ConnRec /\ NoBev \in BevRec
  /\ Unborn.top = NULL /\ Unborn.alive = FALSE /\ Empty.alive = TRUE /\ Empty.top = NULL
  /\ Unborn.base = NULL /\ Unborn.bucket = NULL /\ Empty.base = NULL /\ Empty.bucket = NULL
  /\ NoBev.live = FALSE
BY DEF Unborn, Empty, NoBev, ConnRec, BevRec, OrNull

SocketConn(b) == [Empty EXCEPT !.top = b, !.base = b]

SocketBev(c, f) == [NoBev EXCEPT !.live = TRUE, !.fd = f, !.ctx = c]

LEMMA SocketRecs ==
  ASSUME NEW c \in Obj, NEW b \in Bev, NEW f \in OrNull(Fd)
  PROVE  /\ SocketConn(b) \in ConnRec /\ SocketConn(b).top = b /\ SocketConn(b).base = b
         /\ SocketConn(b).bucket = NULL /\ SocketConn(b).alive = TRUE
         /\ SocketBev(c, f) \in BevRec /\ SocketBev(c, f).ctx = c /\ SocketBev(c, f).live = TRUE
         /\ SocketBev(c, f).below = {} /\ SocketBev(c, f).cfg = NULL
BY DEF SocketConn, SocketBev, NoBev, Empty, Unborn, ConnRec, BevRec, OrNull

LEMMA SocketBevNew ==
  ASSUME NEW c \in Obj, NEW f \in OrNull(Fd)
  PROVE  /\ SocketBev(c, f) = [[NoBev EXCEPT !.live = TRUE, !.fd = f] EXCEPT !.ctx = c]
         /\ [NoBev EXCEPT !.live = TRUE, !.fd = f] \in BevRec
BY DEF SocketBev, NoBev, BevRec, OrNull

LEMMA SocketCtorFields ==
  ASSUME NEW h \in HeapRec, NEW c \in Obj, NEW b \in Bev, NEW f \in Fd
  PROVE  LET r == SocketCtor(h, c, b, f) IN
         /\ r \in HeapRec
         /\ r.conn = [h.conn EXCEPT ![c] = SocketConn(b)]
         /\ r.bev = [h.bev EXCEPT ![b] = SocketBev(c, f)]
         /\ r.filters = h.filters /\ r.open = h.open \cup {f} /\ r.bad = h.bad
<1> DEFINE n == [NoBev EXCEPT !.live = TRUE, !.fd = f]
           x == [h.conn EXCEPT ![c] = SocketConn(b)]
           y == [h.bev EXCEPT ![b] = n]
           g == [h EXCEPT !.bev = y, !.conn = x, !.open = h.open \cup {f}]
           r == SocketCtor(h, c, b, f)
<1>1. f \in OrNull(Fd)
  BY DEF OrNull
<1>2. h.conn \in [Obj -> ConnRec] /\ h.bev \in [Bev -> BevRec] /\ h.open \in SUBSET Fd
  BY DEF HeapRec
<1>3. x \in [Obj -> ConnRec] /\ y \in [Bev -> BevRec]
  BY <1>1, <1>2, SocketRecs, SocketBevNew
<1>4. g \in HeapRec /\ g.conn = x /\ g.bev = y /\ g.filters = h.filters
      /\ g.open = h.open \cup {f} /\ g.bad = h.bad
  <2> HIDE DEF x, y
  <2> QED BY <1>2, <1>3 DEF HeapRec
<1>5. r = ResetCallbacks(g, c)
  BY DEF SocketCtor, SocketConn, HeapRec
<1>6. x[c].top = b
  BY <1>1, <1>2, SocketRecs, SocketBevNew
<1>7. [z \in Bev |-> IF z = b THEN [y[z] EXCEPT !.ctx = c] ELSE y[z]]
        = [h.bev EXCEPT ![b] = SocketBev(c, f)]
  BY <1>1, <1>2, SocketRecs, SocketBevNew
<1> DEFINE e == [z \in Bev |-> IF z = b THEN [y[z] EXCEPT !.ctx = c] ELSE y[z]]
<1> HIDE DEF g, x, y, r
<1>8. /\ r \in HeapRec
      /\ r.conn = g.conn /\ r.filters = g.filters /\ r.open = g.open /\ r.bad = g.bad
      /\ r.bev = [z \in Bev |-> IF z = g.conn[c].top THEN [g.bev[z] EXCEPT !.ctx = c]
                                ELSE g.bev[z]]
  BY <1>4, <1>5, ResetFields
<1>9. r.bev = e
  BY <1>4, <1>6, <1>8
<1>10. r.bev = [h.bev EXCEPT ![b] = SocketBev(c, f)]
  BY <1>7, <1>9
<1> QED
  BY <1>4, <1>8, <1>10 DEF x, r

------------------------------------------------------------------------------
(* The operators preserve HInv.  A hand-over renames the owners: P maps each *)
(* object to the one whose chain it has received.                            *)

LEMMA OwnType ==
  ASSUME NEW h \in HeapRec, NEW c \in Obj
  PROVE  /\ Own(h, c) \subseteq Bev
         /\ h.conn[c].top # NULL => h.conn[c].top \in Own(h, c)
<1>1. h.conn[c].top # NULL => h.conn[c].top \in Bev
  BY ConnType DEF OrNull
<1>2. \A b \in Bev : h.bev[b].below \subseteq Bev
  BY DEF HeapRec, BevRec
<1> QED
  BY <1>1, <1>2 DEF Own, Chain

Permutes(P) ==
  /\ P \in [Obj -> Obj]
  /\ \A c, d \in Obj : P[c] = P[d] => c = d
  /\ \A d \in Obj : \E c \in Obj : P[c] = d

Renamed(r, h, P) ==
  /\ \A c \in Obj : /\ r.conn[c].top = h.conn[P[c]].top
                    /\ r.conn[c].base = h.conn[P[c]].base
                    /\ r.conn[c].bucket = h.conn[P[c]].bucket
                    /\ ~r.conn[c].alive => r.conn[c] = Unborn
                    /\ r.conn[c].top # NULL => r.bev[r.conn[c].top].ctx = c
  /\ \A b \in Bev : /\ r.bev[b].live = h.bev[b].live
                    /\ r.bev[b].below = h.bev[b].below
                    /\ r.bev[b].cfg = h.bev[b].cfg
                    /\ ~h.bev[b].live => r.bev[b] = h.bev[b]

LEMMA Rename ==
  ASSUME NEW h, HInv(h), NEW r \in HeapRec, NEW P, Permutes(P), Renamed(r, h, P)
  PROVE  HInv(r)
<1>1. h \in HeapRec
  BY DEF HInv
<1>2. /\ P \in [Obj -> Obj]
      /\ \A c, d \in Obj : P[c] = P[d] => c = d
      /\ \A d \in Obj : \E c \in Obj : P[c] = d
  BY DEF Permutes
<1>3. \A c \in Obj : /\ r.conn[c].top = h.conn[P[c]].top
                     /\ r.conn[c].base = h.conn[P[c]].base
                     /\ r.conn[c].bucket = h.conn[P[c]].bucket
                     /\ ~r.conn[c].alive => r.conn[c] = Unborn
                     /\ r.conn[c].top # NULL => r.bev[r.conn[c].top].ctx = c
  BY DEF Renamed
<1>4. \A b \in Bev : /\ r.bev[b].live = h.bev[b].live
                     /\ r.bev[b].below = h.bev[b].below
                     /\ r.bev[b].cfg = h.bev[b].cfg
                     /\ ~h.bev[b].live => r.bev[b] = h.bev[b]
  BY DEF Renamed
<1>5. ASSUME NEW c \in Obj
      PROVE  Own(r, c) = Own(h, P[c])
  <2>1. P[c] \in Obj /\ r.conn[c].top = h.conn[P[c]].top
    BY <1>2, <1>3
  <2>2. h.conn[P[c]].top # NULL => h.conn[P[c]].top \in Bev
    BY <1>1, <2>1, ConnType DEF OrNull
  <2>3. r.conn[c].top # NULL => r.bev[r.conn[c].top].below = h.bev[h.conn[P[c]].top].below
    BY <1>4, <2>1, <2>2
  <2> QED
    BY <2>1, <2>3 DEF Own, Chain
<1>6. Clean(r)
  <2> SUFFICES ASSUME NEW c \in Obj PROVE CleanAt(r, c)
    BY DEF Clean
  <2>1. P[c] \in Obj /\ CleanAt(h, P[c])
    BY <1>2 DEF HInv, Clean
  <2>2. /\ r.conn[c].top = h.conn[P[c]].top /\ r.conn[c].base = h.conn[P[c]].base
        /\ r.conn[c].bucket = h.conn[P[c]].bucket
        /\ ~r.conn[c].alive => r.conn[c] = Unborn
    BY <1>3
  <2> QED
    BY <2>1, <2>2 DEF CleanAt
<1>7. Chained(r)
  <2> SUFFICES ASSUME NEW c \in Obj, r.conn[c].top # NULL
               PROVE  /\ r.bev[r.conn[c].top].ctx = c
                      /\ r.conn[c].base \in Own(r, c)
                      /\ r.bev[r.conn[c].base].cfg = r.conn[c].bucket
                      /\ \A b \in Own(r, c) :
                           /\ r.bev[b].live
                           /\ r.bev[b].below \subseteq Own(r, c)
                           /\ r.bev[b].below = {} <=> b = r.conn[c].base
                           /\ b # r.conn[c].base => r.bev[b].cfg = NULL
    BY DEF Chained, ChainedAt
  <2>1. /\ P[c] \in Obj /\ h.conn[P[c]].top # NULL
        /\ h.conn[P[c]].base = r.conn[c].base /\ h.conn[P[c]].bucket = r.conn[c].bucket
    BY <1>2, <1>3
  <2>2. Own(h, P[c]) \subseteq Bev /\ Own(r, c) = Own(h, P[c])
    BY <1>1, <1>5, <2>1, OwnType
  <2>3. /\ h.conn[P[c]].base \in Own(h, P[c])
        /\ h.bev[h.conn[P[c]].base].cfg = h.conn[P[c]].bucket
        /\ \A b \in Own(h, P[c]) :
             /\ h.bev[b].live
             /\ h.bev[b].below \subseteq Own(h, P[c])
             /\ h.bev[b].below = {} <=> b = h.conn[P[c]].base
             /\ b # h.conn[P[c]].base => h.bev[b].cfg = NULL
    BY <2>1 DEF HInv, Chained, ChainedAt
  <2>4. r.bev[r.conn[c].top].ctx = c
    BY <1>3
  <2>5. r.conn[c].base \in Own(r, c) /\ r.conn[c].base \in Bev
    BY <2>1, <2>2, <2>3
  <2>6. r.bev[r.conn[c].base].cfg = r.conn[c].bucket
    BY <1>4, <2>1, <2>3, <2>5
  <2>7. ASSUME NEW b \in Own(r, c)
        PROVE  /\ r.bev[b].live
               /\ r.bev[b].below \subseteq Own(r, c)
               /\ r.bev[b].below = {} <=> b = r.conn[c].base
               /\ b # r.conn[c].base => r.bev[b].cfg = NULL
    <3>1. b \in Bev /\ b \in Own(h, P[c])
      BY <2>2
    <3>2. /\ r.bev[b].live = h.bev[b].live /\ r.bev[b].below = h.bev[b].below
          /\ r.bev[b].cfg = h.bev[b].cfg
      BY <1>4, <3>1
    <3>3. /\ h.bev[b].live
          /\ h.bev[b].below \subseteq Own(h, P[c])
          /\ h.bev[b].below = {} <=> b = h.conn[P[c]].base
          /\ b # h.conn[P[c]].base => h.bev[b].cfg = NULL
      BY <2>3, <3>1
    <3> QED
      BY <2>1, <2>2, <3>2, <3>3
  <2> QED
    BY <2>4, <2>5, <2>6, <2>7
<1>8. Disjoint(r)
  BY <1>2, <1>5 DEF HInv, Disjoint
<1>9. Covered(r)
  <2> SUFFICES ASSUME NEW b \in Bev
               PROVE IF r.bev[b].live THEN \E c \in Obj : b \in Own(r, c) ELSE r.bev[b] = NoBev
    BY DEF Covered
  <2>1. CASE r.bev[b].live
    BY <1>2, <1>4, <1>5, <2>1 DEF HInv, Covered
  <2>2. CASE ~r.bev[b].live
    BY <1>4, <2>2 DEF HInv, Covered
  <2> QED
    BY <2>1, <2>2
<1> QED
  BY <1>6, <1>7, <1>8, <1>9 DEF HInv

LEMMA DestroyFields ==
  ASSUME NEW h, HInv(h), NEW c \in Obj
  PROVE  LET r == Destroy(h, c) IN
         /\ r \in HeapRec /\ r.bad = h.bad
         /\ r.conn = [h.conn EXCEPT ![c] = Unborn]
         /\ r.bev = [x \in Bev |-> IF x \in Own(h, c) THEN NoBev ELSE h.bev[x]]
         /\ Released(r, h, Own(h, c))
<1> DEFINE t == h.conn[c].top
           x == [h.conn EXCEPT ![c] = Unborn]
           y == [z \in Bev |-> IF z \in Own(h, c) THEN NoBev ELSE h.bev[z]]
           u == h.filters \ {h.bev[z].filter : z \in Chain(h, t)}
           v == h.open \ {h.bev[z].fd : z \in Chain(h, t)}
           r == Destroy(h, c)
<1>1. h \in HeapRec
  BY DEF HInv
<1>2. x \in [Obj -> ConnRec] /\ y \in [Bev -> BevRec] /\ u \in SUBSET Filter /\ v \in SUBSET Fd
  BY <1>1, RecTypes DEF HeapRec
<1>3. CASE t = NULL
  <2>1. y = h.bev
    BY <1>1, <1>3 DEF Own, HeapRec
  <2>2. r = [h EXCEPT !.conn = x]
    BY <1>1, <1>3 DEF Destroy, HeapRec
  <2> HIDE DEF x, y, r
  <2>3. /\ r \in HeapRec /\ r.bad = h.bad /\ r.conn = x /\ r.bev = y
        /\ r.filters = h.filters /\ r.open = h.open
    BY <1>1, <1>2, <2>1, <2>2 DEF HeapRec
  <2>4. Released(r, h, Own(h, c))
    BY <1>3, <2>1, <2>3 DEF Own, Released
  <2> QED
    BY <2>3, <2>4 DEF x, y, r
<1>4. CASE t # NULL
  <2>1. h.bev[t].live
    BY <1>1, <1>4, OwnType DEF HInv, Chained, ChainedAt
  <2>2. Own(h, c) = Chain(h, t)
    BY <1>4 DEF Own
  <2>3. BufferEventFree(h, t) = [h EXCEPT !.bev = y, !.filters = u, !.open = v]
    BY <2>1, <2>2 DEF BufferEventFree
  <2>4. r = [[h EXCEPT !.bev = y, !.filters = u, !.open = v] EXCEPT !.conn[c] = Unborn]
    BY <1>4, <2>3 DEF Destroy
  <2> HIDE DEF y, u, v
  <2>5. /\ r \in HeapRec /\ r.bev = y /\ r.bad = h.bad
        /\ r.conn = x /\ r.filters = u /\ r.open = v
    BY <1>1, <1>2, <2>4 DEF HeapRec
  <2> HIDE DEF r
  <2>6. Released(r, h, Own(h, c))
    BY <2>2, <2>5 DEF Released, y, u, v
  <2> QED
    BY <2>5, <2>6 DEF y, r
<1> QED
  BY <1>3, <1>4

LEMMA DestroyKeeps ==
  ASSUME NEW h, HInv(h), NEW c \in Obj
  PROVE  HInv(Destroy(h, c))
<1> DEFINE r == Destroy(h, c)
<1>1. h \in HeapRec /\ r \in HeapRec
  BY DestroyFields DEF HInv
<1>2. /\ r.conn = [h.conn EXCEPT ![c] = Unborn]
      /\ r.bev = [x \in Bev |-> IF x \in Own(h, c) THEN NoBev ELSE h.bev[x]]
  BY DestroyFields
<1> HIDE DEF r
<1>3. r.conn[c] = Unborn /\ \A d \in Obj \ {c} : r.conn[d] = h.conn[d]
  BY <1>1, <1>2 DEF HeapRec
<1>4. ASSUME NEW d \in Obj, d # c
      PROVE  /\ Own(r, d) = Own(h, d) /\ Own(r, d) \subseteq Bev
             /\ \A b \in Own(r, d) : r.bev[b] = h.bev[b]
  <2>1. Own(h, d) \cap Own(h, c) = {} /\ Own(h, d) \subseteq Bev
    BY <1>1, <1>4, OwnType DEF HInv, Disjoint
  <2>2. \A b \in Own(h, d) : r.bev[b] = h.bev[b]
    BY <1>2, <2>1
  <2>3. h.conn[d].top # NULL => h.conn[d].top \in Own(h, d)
    BY <1>1, OwnType
  <2>4. Own(r, d) = Own(h, d)
    BY <1>3, <1>4, <2>2, <2>3 DEF Own, Chain
  <2> QED
    BY <2>1, <2>2, <2>4
<1>5. Own(r, c) = {}
  BY <1>3, RecTypes DEF Own
<1>6. Clean(r)
  BY <1>3, RecTypes DEF HInv, Clean, CleanAt
<1>7. Chained(r)
  <2> SUFFICES ASSUME NEW d \in Obj, r.conn[d].top # NULL
               PROVE  /\ r.bev[r.conn[d].top].ctx = d
                      /\ r.conn[d].base \in Own(r, d)
                      /\ r.bev[r.conn[d].base].cfg = r.conn[d].bucket
                      /\ \A b \in Own(r, d) :
                           /\ r.bev[b].live
                           /\ r.bev[b].below \subseteq Own(r, d)
                           /\ r.bev[b].below = {} <=> b = r.conn[d].base
                           /\ b # r.conn[d].base => r.bev[b].cfg = NULL
    BY DEF Chained, ChainedAt
  <2>1. d # c
    BY <1>3, RecTypes
  <2>2. r.conn[d] = h.conn[d] /\ Own(r, d) = Own(h, d)
    BY <1>3, <1>4, <2>1
  <2>3. \A b \in Own(h, d) : r.bev[b] = h.bev[b]
    BY <1>4, <2>1, <2>2
  <2>4. h.conn[d].top \in Own(h, d)
    BY <1>1, <2>2, OwnType
  <2>5. /\ h.bev[h.conn[d].top].ctx = d
        /\ h.conn[d].base \in Own(h, d)
        /\ h.bev[h.conn[d].base].cfg = h.conn[d].bucket
        /\ \A b \in Own(h, d) :
             /\ h.bev[b].live
             /\ h.bev[b].below \subseteq Own(h, d)
             /\ h.bev[b].below = {} <=> b = h.conn[d].base
             /\ b # h.conn[d].base => h.bev[b].cfg = NULL
    BY <2>2 DEF HInv, Chained, ChainedAt
  <2> QED
    BY <2>2, <2>3, <2>4, <2>5
<1>8. Disjoint(r)
  BY <1>4, <1>5 DEF HInv, Disjoint
<1>9. Covered(r)
  <2> SUFFICES ASSUME NEW b \in Bev
               PROVE IF r.bev[b].live THEN \E d \in Obj : b \in Own(r, d) ELSE r.bev[b] = NoBev
    BY DEF Covered
  <2>1. CASE b \in Own(h, c)
    BY <1>2, <2>1, RecTypes
  <2>2. CASE b \notin Own(h, c)
    <3>1. r.bev[b] = h.bev[b]
      BY <1>2, <2>2
    <3>2. h.bev[b].live => \E d \in Obj : d # c /\ b \in Own(h, d)
      BY <2>2 DEF HInv, Covered
    <3> QED
      BY <1>4, <3>1, <3>2 DEF HInv, Covered
  <2> QED
    BY <2>1, <2>2
<1> QED
  BY <1>1, <1>6, <1>7, <1>8, <1>9 DEF HInv, r

LEMMA ConnExt ==
  ASSUME NEW x \in ConnRec, NEW y \in ConnRec,
         x.alive = y.alive, x.top = y.top, x.base = y.base,
         x.bucket = y.bucket, x.handler = y.handler, x.extra = y.extra
  PROVE  x = y
<1>1. ASSUME NEW z \in ConnRec
      PROVE  z = [alive |-> z.alive, top |-> z.top, base |-> z.base, bucket |-> z.bucket,
                  handler |-> z.handler, extra |-> z.extra]
  BY DEF ConnRec
<1> QED
  BY <1>1

LEMMA ConnRecs ==
  ASSUME NEW x \in ConnRec
  PROVE  /\ x.alive => [alive |-> TRUE, top |-> x.top, base |-> x.base, bucket |-> x.bucket,
                        handler |-> x.handler, extra |-> x.extra] = x
         /\ [x EXCEPT !.bucket = NULL, !.handler = NULL] \in ConnRec
         /\ x.alive => [[x EXCEPT !.bucket = NULL, !.handler = NULL]
                          EXCEPT !.top = NULL, !.base = NULL, !.extra = NULL] = Empty
         /\ \A y \in ConnRec : y.alive = x.alive =>
              [x EXCEPT !.top = y.top, !.base = y.base, !.bucket = y.bucket,
                        !.handler = y.handler, !.extra = y.extra] = y
<1>1. x.alive => x.alive = TRUE
  BY DEF ConnRec
<1>2. x = [alive |-> x.alive, top |-> x.top, base |-> x.base, bucket |-> x.bucket,
           handler |-> x.handler, extra |-> x.extra]
  BY DEF ConnRec
<1>3. [x EXCEPT !.bucket = NULL, !.handler = NULL] \in ConnRec
  BY DEF ConnRec, OrNull
<1>4. ASSUME x.alive
      PROVE  [[x EXCEPT !.bucket = NULL, !.handler = NULL]
               EXCEPT !.top = NULL, !.base = NULL, !.extra = NULL] = Empty
  <2> DEFINE z == [[x EXCEPT !.bucket = NULL, !.handler = NULL]
                    EXCEPT !.top = NULL, !.base = NULL, !.extra = NULL]
  <2>1. /\ z \in ConnRec /\ z.alive = x.alive /\ z.top = NULL /\ z.base = NULL
        /\ z.bucket = NULL /\ z.handler = NULL /\ z.extra = NULL
    BY DEF ConnRec, OrNull
  <2>2. /\ Empty \in ConnRec /\ Empty.alive = TRUE /\ Empty.top = NULL /\ Empty.base = NULL
        /\ Empty.bucket = NULL /\ Empty.handler = NULL /\ Empty.extra = NULL
    BY DEF Empty, Unborn, ConnRec, OrNull
  <2> HIDE DEF z
  <2>3. x.alive = TRUE /\ z.alive = Empty.alive
    BY <1>1, <1>4, <2>1, <2>2
  <2>4. z = Empty
    BY <2>1, <2>2, <2>3, ConnExt
  <2> QED
    BY <2>4 DEF z
<1>5. ASSUME NEW y \in ConnRec, y.alive = x.alive
      PROVE  [x EXCEPT !.top = y.top, !.base = y.base, !.bucket = y.bucket,
                       !.handler = y.handler, !.extra = y.extra] = y
  BY <1>5 DEF ConnRec
<1>6. x.alive => [alive |-> TRUE, top |-> x.top, base |-> x.base, bucket |-> x.bucket,
                  handler |-> x.handler, extra |-> x.extra] = x
  BY <1>1, <1>2
<1> QED
  BY <1>3, <1>4, <1>5, <1>6

LEMMA MoveCtorFields ==
  ASSUME NEW h \in HeapRec, NEW d \in Obj, NEW s \in Obj, d # s, h.conn[s].alive
  PROVE  LET r == MoveCtor(h, d, s) IN
         /\ r \in HeapRec /\ r.bad = h.bad
         /\ r.conn = [h.conn EXCEPT ![d] = h.conn[s], ![s] = Empty]
         /\ r.bev = [b \in Bev |-> IF b = h.conn[s].top THEN [h.bev[b] EXCEPT !.ctx = d]
                                   ELSE h.bev[b]]
         /\ SameHeld(r, h)
<1> DEFINE rhs == h.conn[s]
           rest == [rhs EXCEPT !.bucket = NULL, !.handler = NULL]
           x == [h.conn EXCEPT ![d] = rhs, ![s] = rest]
           g == [h EXCEPT !.conn = x]
           q == ResetCallbacks(g, d)
           y == [h.conn EXCEPT ![d] = rhs, ![s] = Empty]
           r == MoveCtor(h, d, s)
<1>1. h.conn \in [Obj -> ConnRec] /\ rhs \in ConnRec /\ rest \in ConnRec
  <2>1. h.conn \in [Obj -> ConnRec] /\ rhs \in ConnRec
    BY DEF HeapRec
  <2> QED
    BY <2>1, ConnRecs
<1>2. x \in [Obj -> ConnRec] /\ y \in [Obj -> ConnRec] /\ x[d] = rhs /\ x[s] = rest
  BY <1>1, RecTypes
<1>3. g = [h EXCEPT !.conn[d] = [alive |-> TRUE, top |-> rhs.top, base |-> rhs.base,
                                 bucket |-> rhs.bucket, handler |-> rhs.handler,
                                 extra |-> rhs.extra],
                    !.conn[s] = [@ EXCEPT !.bucket = NULL, !.handler = NULL]]
  <2>1. [alive |-> TRUE, top |-> rhs.top, base |-> rhs.base, bucket |-> rhs.bucket,
         handler |-> rhs.handler, extra |-> rhs.extra] = rhs
    BY <1>1, ConnRecs
  <2> QED
    BY <1>1, <2>1 DEF HeapRec
<1>4. r = [q EXCEPT !.conn[s] = [@ EXCEPT !.top = NULL, !.base = NULL, !.extra = NULL]]
  BY <1>3 DEF MoveCtor
<1> HIDE DEF rest
<1>5. /\ g \in HeapRec /\ g.conn = x /\ g.bev = h.bev /\ g.bad = h.bad
      /\ g.filters = h.filters /\ g.open = h.open
  <2> HIDE DEF x
  <2> QED BY <1>2 DEF HeapRec
<1> HIDE DEF g
<1>6. /\ q \in HeapRec /\ q.conn = g.conn /\ q.bad = g.bad
      /\ q.filters = g.filters /\ q.open = g.open
      /\ q.bev = [b \in Bev |-> IF b = g.conn[d].top THEN [g.bev[b] EXCEPT !.ctx = d]
                                ELSE g.bev[b]]
  BY <1>5, ResetFields
<1>7. [rest EXCEPT !.top = NULL, !.base = NULL, !.extra = NULL] = Empty
  BY <1>1, ConnRecs DEF rest
<1> HIDE DEF q
<1>8. r = [q EXCEPT !.conn = y]
  <2>1. [q.conn EXCEPT ![s] = [@ EXCEPT !.top = NULL, !.base = NULL, !.extra = NULL]] = y
    <3>1. [x EXCEPT ![s] = Empty] = y
      BY <1>1
    <3> HIDE DEF x, y
    <3>2. q.conn = x /\ x[s] = rest
      BY <1>2, <1>5, <1>6
    <3>3. [q.conn EXCEPT ![s] = [q.conn[s] EXCEPT !.top = NULL, !.base = NULL, !.extra = NULL]]
            = [x EXCEPT ![s] = Empty]
      BY <1>7, <3>2
    <3> QED
      BY <3>1, <3>3
  <2> HIDE DEF y
  <2> QED
    BY <1>4, <1>6, <2>1 DEF HeapRec
<1>9. /\ r \in HeapRec /\ r.bad = q.bad /\ r.conn = y /\ r.bev = q.bev
      /\ r.filters = q.filters /\ r.open = q.open
  <2> HIDE DEF y, r
  <2> QED
    BY <1>2, <1>6, <1>8 DEF HeapRec
<1> HIDE DEF r
<1>10. r.bev = [b \in Bev |-> IF b = rhs.top THEN [h.bev[b] EXCEPT !.ctx = d] ELSE h.bev[b]]
  BY <1>2, <1>5, <1>6, <1>9
<1>11. SameHeld(r, h)
  <2>1. \A b \in Bev : h.bev[b] \in BevRec
    BY DEF HeapRec
  <2>2. \A b \in Bev : [h.bev[b] EXCEPT !.ctx = d].filter = h.bev[b].filter
                     /\ [h.bev[b] EXCEPT !.ctx = d].fd = h.bev[b].fd
    BY <2>1 DEF BevRec
  <2>3. \A b \in Bev : r.bev[b].filter = h.bev[b].filter /\ r.bev[b].fd = h.bev[b].fd
    BY <1>10, <2>2
  <2> QED
    BY <1>5, <1>6, <1>9, <2>3 DEF SameHeld
<1> QED
  BY <1>5, <1>6, <1>9, <1>10, <1>11 DEF r

LEMMA CtxOnly ==
  ASSUME NEW x \in BevRec, NEW c \in OrNull(Obj)
  PROVE  LET y == [x EXCEPT !.ctx = c] IN
         /\ y \in BevRec /\ y.ctx = c
         /\ y.live = x.live /\ y.below = x.below /\ y.cfg = x.cfg
         /\ y.filter = x.filter /\ y.fd = x.fd
BY DEF BevRec, OrNull

\* Tops of different connections differ, and every top is live.
LEMMA TopsDiffer ==
  ASSUME NEW h, HInv(h), NEW c \in Obj, h.conn[c].top # NULL
  PROVE  /\ h.conn[c].top \in Bev /\ h.bev[h.conn[c].top].live
         /\ h.bev[h.conn[c].top] \in BevRec
         /\ \A d \in Obj : d # c => h.conn[d].top # h.conn[c].top
<1>1. h \in HeapRec
  BY DEF HInv
<1>2. \A d \in Obj : h.conn[d].top # NULL => h.conn[d].top \in Own(h, d)
  BY <1>1, OwnType
<1>3. h.conn[c].top \in Bev /\ h.bev[h.conn[c].top] \in BevRec
  BY <1>1, ConnType DEF OrNull, HeapRec
<1> QED
  BY <1>2, <1>3 DEF HInv, Disjoint, Chained, ChainedAt

LEMMA MoveCtorKeeps ==
  ASSUME NEW h, HInv(h), NEW d \in Obj, NEW s \in Obj, d # s,
         h.conn[s].alive, ~h.conn[d].alive
  PROVE  HInv(MoveCtor(h, d, s))
<1> DEFINE r == MoveCtor(h, d, s)
           P == [c \in Obj |-> IF c = d THEN s ELSE IF c = s THEN d ELSE c]
<1>1. h \in HeapRec
  BY DEF HInv
<1>2. /\ r \in HeapRec
      /\ r.conn = [h.conn EXCEPT ![d] = h.conn[s], ![s] = Empty]
      /\ r.bev = [b \in Bev |-> IF b = h.conn[s].top THEN [h.bev[b] EXCEPT !.ctx = d]
                                ELSE h.bev[b]]
  BY <1>1, MoveCtorFields
<1> HIDE DEF r
<1>3. h.conn[d] = Unborn
  BY DEF HInv, Clean, CleanAt
<1>4. /\ r.conn[d] = h.conn[s] /\ r.conn[s] = Empty
      /\ \A c \in Obj : c # d /\ c # s => r.conn[c] = h.conn[c]
  BY <1>1, <1>2 DEF HeapRec
<1>5. ASSUME NEW b \in Bev
      PROVE  /\ r.bev[b].live = h.bev[b].live
             /\ r.bev[b].below = h.bev[b].below
             /\ r.bev[b].cfg = h.bev[b].cfg
             /\ ~h.bev[b].live => r.bev[b] = h.bev[b]
  <2>1. CASE b = h.conn[s].top
    <3>1. h.bev[b].live /\ h.bev[b] \in BevRec
      BY <2>1, NullNotBev, TopsDiffer
    <3>2. r.bev[b] = [h.bev[b] EXCEPT !.ctx = d]
      BY <1>2, <2>1
    <3>3. d \in OrNull(Obj)
      BY DEF OrNull
    <3>4. LET y == [h.bev[b] EXCEPT !.ctx = d] IN
          y.live = h.bev[b].live /\ y.below = h.bev[b].below /\ y.cfg = h.bev[b].cfg
      BY <3>1, <3>3, CtxOnly
    <3> QED
      BY <3>1, <3>2, <3>4
  <2>2. CASE b # h.conn[s].top
    BY <1>2, <2>2
  <2> QED
    BY <2>1, <2>2
<1>6. ASSUME NEW c \in Obj, r.conn[c].top # NULL
      PROVE  r.bev[r.conn[c].top].ctx = c
  <2>1. CASE c = d
    <3>1. r.conn[c].top = h.conn[s].top
      BY <1>4, <2>1
    <3>2. h.conn[s].top \in Bev /\ h.bev[h.conn[s].top] \in BevRec
      BY <1>6, <3>1, TopsDiffer
    <3>3. r.bev[r.conn[c].top] = [h.bev[h.conn[s].top] EXCEPT !.ctx = d]
      BY <1>2, <3>1, <3>2
    <3> QED
      BY <2>1, <3>2, <3>3, CtxOnly DEF OrNull
  <2>2. CASE c # d
    <3>1. c # s
      BY <1>4, <1>6, RecTypes
    <3>2. r.conn[c].top = h.conn[c].top
      BY <1>4, <2>2, <3>1
    <3>3. h.conn[c].top \in Bev /\ h.conn[c].top # h.conn[s].top
      BY <1>6, <3>1, <3>2, TopsDiffer
    <3>4. r.bev[r.conn[c].top] = h.bev[h.conn[c].top]
      BY <1>2, <3>2, <3>3
    <3> QED
      BY <1>6, <3>2, <3>4 DEF HInv, Chained, ChainedAt
  <2> QED
    BY <2>1, <2>2
<1>7. ASSUME NEW c \in Obj
      PROVE  /\ r.conn[c].top = h.conn[P[c]].top
             /\ r.conn[c].base = h.conn[P[c]].base
             /\ r.conn[c].bucket = h.conn[P[c]].bucket
             /\ ~r.conn[c].alive => r.conn[c] = Unborn
  <2>1. CASE c = d
    BY <1>4, <2>1 DEF HInv, Clean, CleanAt
  <2>2. CASE c = s
    BY <1>3, <1>4, <2>2, RecTypes
  <2>3. CASE c # d /\ c # s
    BY <1>4, <2>3 DEF HInv, Clean, CleanAt
  <2> QED
    BY <2>1, <2>2, <2>3
<1>8. Permutes(P)
  <2>1. P \in [Obj -> Obj] /\ \A c \in Obj : P[P[c]] = c
    OBVIOUS
  <2> HIDE DEF P
  <2> QED
    BY <2>1 DEF Permutes
<1> HIDE DEF P
<1>9. HInv(r)
  <2>1. \A c \in Obj : /\ r.conn[c].top = h.conn[P[c]].top
                       /\ r.conn[c].base = h.conn[P[c]].base
                       /\ r.conn[c].bucket = h.conn[P[c]].bucket
                       /\ ~r.conn[c].alive => r.conn[c] = Unborn
                       /\ r.conn[c].top # NULL => r.bev[r.conn[c].top].ctx = c
    BY <1>6, <1>7
  <2>2. \A b \in Bev : /\ r.bev[b].live = h.bev[b].live
                       /\ r.bev[b].below = h.bev[b].below
                       /\ r.bev[b].cfg = h.bev[b].cfg
                       /\ ~h.bev[b].live => r.bev[b] = h.bev[b]
    BY <1>5
  <2>3. r \in HeapRec
    BY <1>2
  <2>4. Renamed(r, h, P)
    BY <2>1, <2>2 DEF Renamed
  <2> QED
    BY <1>8, <2>3, <2>4, Rename
<1> QED
  BY <1>9 DEF r

LEMMA ResetData ==
  ASSUME NEW h \in HeapRec, NEW c \in Obj
  PROVE  LET r == ResetCallbacks(h, c) IN
         /\ r \in HeapRec /\ r.conn = h.conn /\ r.bad = h.bad
         /\ \A b \in Bev : /\ r.bev[b].live = h.bev[b].live
                           /\ r.bev[b].below = h.bev[b].below
                           /\ r.bev[b].cfg = h.bev[b].cfg
                           /\ b # h.conn[c].top => r.bev[b] = h.bev[b]
         /\ h.conn[c].top # NULL => r.bev[h.conn[c].top].ctx = c
         /\ SameHeld(r, h)
<1> DEFINE t == h.conn[c].top
           r == ResetCallbacks(h, c)
<1>1. /\ r \in HeapRec /\ r.conn = h.conn /\ r.bad = h.bad
      /\ r.filters = h.filters /\ r.open = h.open
      /\ r.bev = [b \in Bev |-> IF b = t THEN [h.bev[b] EXCEPT !.ctx = c] ELSE h.bev[b]]
  BY ResetFields
<1> HIDE DEF r
<1>2. ASSUME t # NULL
      PROVE  /\ t \in Bev
             /\ r.bev[t].live = h.bev[t].live /\ r.bev[t].below = h.bev[t].below
             /\ r.bev[t].cfg = h.bev[t].cfg /\ r.bev[t].ctx = c
             /\ r.bev[t].filter = h.bev[t].filter /\ r.bev[t].fd = h.bev[t].fd
  <2>1. t \in Bev
    BY <1>2, ConnType DEF OrNull
  <2>2. h.bev[t] \in BevRec /\ c \in OrNull(Obj)
    BY <2>1 DEF HeapRec, OrNull
  <2>3. r.bev[t] = [h.bev[t] EXCEPT !.ctx = c]
    BY <1>1, <2>1
  <2>4. LET y == [h.bev[t] EXCEPT !.ctx = c] IN
        /\ y.ctx = c /\ y.live = h.bev[t].live /\ y.below = h.bev[t].below
        /\ y.cfg = h.bev[t].cfg /\ y.filter = h.bev[t].filter /\ y.fd = h.bev[t].fd
    BY <2>2, CtxOnly
  <2> QED
    BY <2>1, <2>3, <2>4
<1>3. \A b \in Bev : b # t => r.bev[b] = h.bev[b]
  BY <1>1
<1>4. \A b \in Bev : b = t => t # NULL
  BY NullNotBev
<1>5. SameHeld(r, h)
  BY <1>1, <1>2, <1>3, <1>4 DEF SameHeld
<1> QED
  BY <1>1, <1>2, <1>3, <1>4, <1>5 DEF r

LEMMA SwapConnKeeps ==
  ASSUME NEW h, HInv(h), NEW a \in Obj, NEW b \in Obj, a # b,
         h.conn[a].alive, h.conn[b].alive
  PROVE  LET r == SwapConn(h, a, b) IN
         /\ HInv(r) /\ r.bad = h.bad
         /\ r.conn = [h.conn EXCEPT ![a] = h.conn[b], ![b] = h.conn[a]]
         /\ SameHeld(r, h)
<1> DEFINE x == [h.conn EXCEPT ![a] = h.conn[b], ![b] = h.conn[a]]
           g == SwapMembers(h, a, b)
           q == ResetCallbacks(g, a)
           r == ResetCallbacks(q, b)
           P == [c \in Obj |-> IF c = a THEN b ELSE IF c = b THEN a ELSE c]
<1>1. h \in HeapRec /\ h.conn \in [Obj -> ConnRec] /\ h.conn[a] \in ConnRec /\ h.conn[b] \in ConnRec
  BY DEF HInv, HeapRec
<1>2. x \in [Obj -> ConnRec]
  BY <1>1
<1>3. g = [h EXCEPT !.conn = x]
  <2> DEFINE A == [h.conn[a] EXCEPT !.top = h.conn[b].top, !.base = h.conn[b].base,
                     !.bucket = h.conn[b].bucket, !.handler = h.conn[b].handler,
                     !.extra = h.conn[b].extra]
             B == [h.conn[b] EXCEPT !.top = h.conn[a].top, !.base = h.conn[a].base,
                     !.bucket = h.conn[a].bucket, !.handler = h.conn[a].handler,
                     !.extra = h.conn[a].extra]
  <2>1. h.conn[a].alive = h.conn[b].alive
    <3>1. h.conn[a].alive \in BOOLEAN /\ h.conn[b].alive \in BOOLEAN
      BY <1>1 DEF ConnRec
    <3> QED
      BY <3>1
  <2>2. A = h.conn[b] /\ B = h.conn[a]
    BY <1>1, <2>1, ConnRecs
  <2>3. g = [h EXCEPT !.conn = [h.conn EXCEPT ![a] = A, ![b] = B]]
    BY <1>1 DEF SwapMembers, HeapRec
  <2> HIDE DEF A, B
  <2> QED
    BY <2>2, <2>3
<1>4. /\ g \in HeapRec /\ g.conn = x /\ g.bev = h.bev /\ g.bad = h.bad
      /\ g.filters = h.filters /\ g.open = h.open
  <2> HIDE DEF x, g
  <2> QED
    BY <1>1, <1>2, <1>3 DEF HeapRec
<1>5. x[a] = h.conn[b] /\ x[b] = h.conn[a] /\ \A c \in Obj : c # a /\ c # b => x[c] = h.conn[c]
  BY <1>1
<1> HIDE DEF g, x
<1>6. /\ q \in HeapRec /\ q.conn = g.conn /\ q.bad = g.bad
      /\ \A z \in Bev : /\ q.bev[z].live = g.bev[z].live
                        /\ q.bev[z].below = g.bev[z].below
                        /\ q.bev[z].cfg = g.bev[z].cfg
                        /\ z # g.conn[a].top => q.bev[z] = g.bev[z]
      /\ g.conn[a].top # NULL => q.bev[g.conn[a].top].ctx = a
      /\ SameHeld(q, g)
  BY <1>4, ResetData
<1> HIDE DEF q
<1>7. /\ r \in HeapRec /\ r.conn = q.conn /\ r.bad = q.bad
      /\ \A z \in Bev : /\ r.bev[z].live = q.bev[z].live
                        /\ r.bev[z].below = q.bev[z].below
                        /\ r.bev[z].cfg = q.bev[z].cfg
                        /\ z # q.conn[b].top => r.bev[z] = q.bev[z]
      /\ q.conn[b].top # NULL => r.bev[q.conn[b].top].ctx = b
      /\ SameHeld(r, q)
  BY <1>6, ResetData
<1> HIDE DEF r
<1>8. r.conn = x /\ r.bad = h.bad
  BY <1>4, <1>6, <1>7
<1>9. ASSUME NEW c \in Obj
      PROVE  /\ r.conn[c].top = h.conn[P[c]].top
             /\ r.conn[c].base = h.conn[P[c]].base
             /\ r.conn[c].bucket = h.conn[P[c]].bucket
             /\ ~r.conn[c].alive => r.conn[c] = Unborn
  <2>1. CASE c = a
    BY <1>5, <1>8, <2>1
  <2>2. CASE c = b
    BY <1>5, <1>8, <2>2
  <2>3. CASE c # a /\ c # b
    BY <1>5, <1>8, <2>3 DEF HInv, Clean, CleanAt
  <2> QED
    BY <2>1, <2>2, <2>3
<1>10. ASSUME NEW z \in Bev
       PROVE  /\ r.bev[z].live = h.bev[z].live
              /\ r.bev[z].below = h.bev[z].below
              /\ r.bev[z].cfg = h.bev[z].cfg
              /\ z # h.conn[a].top /\ z # h.conn[b].top => r.bev[z] = h.bev[z]
  BY <1>4, <1>5, <1>6, <1>7
<1>11. ASSUME NEW z \in Bev, ~h.bev[z].live
       PROVE  r.bev[z] = h.bev[z]
  BY <1>10, <1>11, NullNotBev, TopsDiffer
<1>12. ASSUME NEW c \in Obj, r.conn[c].top # NULL
       PROVE  r.bev[r.conn[c].top].ctx = c
  <2>1. CASE c = a
    <3>1. x[a].top # NULL /\ x[a].top = h.conn[b].top
      BY <1>5, <1>8, <1>12, <2>1
    <3>2. h.conn[b].top \in Bev /\ h.conn[a].top # h.conn[b].top
      BY <3>1, TopsDiffer
    <3>3. r.bev[x[a].top] = q.bev[x[a].top]
      BY <1>4, <1>5, <1>6, <1>7, <3>1, <3>2
    <3> QED
      BY <1>4, <1>6, <1>8, <2>1, <3>1, <3>3
  <2>2. CASE c = b
    BY <1>4, <1>6, <1>7, <1>8, <1>12, <2>2
  <2>3. CASE c # a /\ c # b
    <3>1. r.conn[c].top = h.conn[c].top /\ h.conn[c].top # NULL
      BY <1>5, <1>8, <1>12, <2>3
    <3>2. h.conn[c].top \in Bev /\ h.conn[c].top # h.conn[a].top /\ h.conn[c].top # h.conn[b].top
      BY <2>3, <3>1, TopsDiffer
    <3> QED
      BY <1>10, <3>1, <3>2 DEF HInv, Chained, ChainedAt
  <2> QED
    BY <2>1, <2>2, <2>3
<1>13. Permutes(P)
  <2>1. P \in [Obj -> Obj] /\ \A c \in Obj : P[P[c]] = c
    OBVIOUS
  <2> HIDE DEF P
  <2> QED
    BY <2>1 DEF Permutes
<1> HIDE DEF P
<1>14. HInv(r)
  <2>1. \A c \in Obj : /\ r.conn[c].top = h.conn[P[c]].top
                       /\ r.conn[c].base = h.conn[P[c]].base
                       /\ r.conn[c].bucket = h.conn[P[c]].bucket
                       /\ ~r.conn[c].alive => r.conn[c] = Unborn
                       /\ r.conn[c].top # NULL => r.bev[r.conn[c].top].ctx = c
    BY <1>9, <1>12
  <2>2. \A z \in Bev : /\ r.bev[z].live = h.bev[z].live
                       /\ r.bev[z].below = h.bev[z].below
                       /\ r.bev[z].cfg = h.bev[z].cfg
                       /\ ~h.bev[z].live => r.bev[z] = h.bev[z]
    BY <1>10, <1>11
  <2>3. r \in HeapRec
    BY <1>7
  <2>4. Renamed(r, h, P)
    BY <2>1, <2>2 DEF Renamed
  <2> QED
    BY <1>13, <2>3, <2>4, Rename
<1>15. SwapConn(h, a, b) = r
  BY DEF SwapConn, r, q, g
<1>16. SameHeld(r, h)
  BY <1>4, <1>6, <1>7 DEF SameHeld
<1> QED
  BY <1>8, <1>14, <1>15, <1>16 DEF x

\* A change to one connection, which may add the fresh bufferevents N to its chain.
LEMMA Local ==
  ASSUME NEW h, HInv(h), NEW r \in HeapRec, NEW c \in Obj, NEW N \in SUBSET Bev,
         \A b \in N : ~h.bev[b].live,
         \A d \in Obj : d # c => r.conn[d] = h.conn[d],
         \A b \in Bev : b \notin N /\ b \notin Own(h, c) => r.bev[b] = h.bev[b],
         Own(r, c) = Own(h, c) \cup N,
         CleanAt(r, c), ChainedAt(r, c)
  PROVE  HInv(r)
<1>1. h \in HeapRec
  BY DEF HInv
<1>2. ASSUME NEW d \in Obj, d # c
      PROVE  /\ Own(r, d) = Own(h, d) /\ Own(r, d) \subseteq Bev
             /\ Own(h, d) \cap Own(r, c) = {}
             /\ r.conn[d] = h.conn[d]
             /\ \A b \in Own(r, d) : r.bev[b] = h.bev[b]
  <2>1. Own(h, d) \cap Own(h, c) = {} /\ Own(h, d) \subseteq Bev
    BY <1>1, <1>2, OwnType DEF HInv, Disjoint
  <2>2. h.conn[d].top # NULL => h.conn[d].top \in Own(h, d)
    BY <1>1, OwnType
  <2>3. \A b \in Own(h, d) : h.bev[b].live
    BY DEF HInv, Chained, ChainedAt, Own
  <2>4. \A b \in Own(h, d) : r.bev[b] = h.bev[b]
    BY <2>1, <2>3
  <2>5. r.conn[d] = h.conn[d]
    BY <1>2
  <2>6. Own(r, d) = Own(h, d)
    BY <2>2, <2>4, <2>5 DEF Own, Chain
  <2> QED
    BY <2>1, <2>3, <2>4, <2>5, <2>6
<1>3. Clean(r)
  BY <1>2 DEF HInv, Clean, CleanAt
<1>4. Chained(r)
  <2> SUFFICES ASSUME NEW d \in Obj, d # c
               PROVE  ChainedAt(r, d)
    BY DEF Chained
  <2>1. /\ Own(r, d) = Own(h, d) /\ r.conn[d] = h.conn[d]
        /\ \A b \in Own(h, d) : r.bev[b] = h.bev[b]
    BY <1>2
  <2>2. h.conn[d].top # NULL => h.conn[d].top \in Own(h, d)
    BY <1>1, OwnType
  <2>3. ChainedAt(h, d)
    BY DEF HInv, Chained
  <2> QED
    BY <2>1, <2>2, <2>3 DEF ChainedAt
<1>5. Disjoint(r)
  BY <1>2 DEF HInv, Disjoint
<1>6. Covered(r)
  <2> SUFFICES ASSUME NEW b \in Bev
               PROVE IF r.bev[b].live THEN \E d \in Obj : b \in Own(r, d) ELSE r.bev[b] = NoBev
    BY DEF Covered
  <2>1. CASE b \in Own(r, c)
    BY <2>1 DEF ChainedAt, Own
  <2>2. CASE b \notin Own(r, c)
    <3>1. r.bev[b] = h.bev[b]
      BY <2>2
    <3>2. h.bev[b].live => \E d \in Obj : d # c /\ b \in Own(h, d)
      BY <2>2 DEF HInv, Covered
    <3>3. ~h.bev[b].live => h.bev[b] = NoBev
      BY DEF HInv, Covered
    <3> QED
      BY <1>2, <3>1, <3>2, <3>3
  <2> QED
    BY <2>1, <2>2
<1> QED
  BY <1>3, <1>4, <1>5, <1>6 DEF HInv

LEMMA SocketCtorKeeps ==
  ASSUME NEW h, HInv(h), NEW c \in Obj, NEW b \in Bev, NEW f \in Fd,
         ~h.conn[c].alive, ~h.bev[b].live
  PROVE  HInv(SocketCtor(h, c, b, f))
<1> DEFINE r == SocketCtor(h, c, b, f)
<1>1. h \in HeapRec
  BY DEF HInv
<1>2. /\ r \in HeapRec
      /\ r.conn = [h.conn EXCEPT ![c] = SocketConn(b)]
      /\ r.bev = [h.bev EXCEPT ![b] = SocketBev(c, f)]
  BY <1>1, SocketCtorFields
<1> HIDE DEF r
<1>3. /\ r.conn[c] = SocketConn(b) /\ \A d \in Obj : d # c => r.conn[d] = h.conn[d]
      /\ r.bev[b] = SocketBev(c, f) /\ \A z \in Bev : z # b => r.bev[z] = h.bev[z]
  BY <1>1, <1>2 DEF HeapRec
<1>4. /\ r.conn[c].top = b /\ r.conn[c].base = b /\ r.conn[c].bucket = NULL /\ r.conn[c].alive
      /\ r.bev[b].ctx = c /\ r.bev[b].live /\ r.bev[b].below = {} /\ r.bev[b].cfg = NULL
  <2>1. f \in OrNull(Fd)
    BY DEF OrNull
  <2>2. /\ SocketConn(b).top = b /\ SocketConn(b).base = b /\ SocketConn(b).bucket = NULL
        /\ SocketBev(c, f).ctx = c /\ SocketBev(c, f).below = {} /\ SocketBev(c, f).cfg = NULL
    BY DEF SocketConn, SocketBev, NoBev, Empty, Unborn
  <2>3. SocketConn(b).alive = TRUE /\ SocketBev(c, f).live = TRUE
    BY <2>1, SocketRecs
  <2>4. r.conn[c].alive = TRUE /\ r.bev[b].live = TRUE
    BY <1>3, <2>3
  <2>5. r.conn[c].alive /\ r.bev[b].live
    BY <2>4
  <2> QED
    BY <1>3, <2>2, <2>5
<1>5. Own(h, c) = {} /\ b # NULL
  BY RecTypes, NullNotBev DEF HInv, Clean, CleanAt, Own
<1>6. Own(r, c) = {b}
  BY <1>4, <1>5 DEF Own, Chain
<1>7. CleanAt(r, c) /\ ChainedAt(r, c)
  BY <1>4, <1>5, <1>6 DEF CleanAt, ChainedAt
<1> DEFINE N == {b}
<1>8. /\ N \in SUBSET Bev /\ \A z \in N : ~h.bev[z].live
      /\ \A z \in Bev : z \notin N /\ z \notin Own(h, c) => r.bev[z] = h.bev[z]
      /\ Own(r, c) = Own(h, c) \cup N
  BY <1>3, <1>5, <1>6
<1> HIDE DEF N
<1>9. HInv(r)
  BY <1>2, <1>3, <1>7, <1>8, Local
<1> QED
  BY <1>9 DEF r

\* Changing members other than the two pointers and the rate limit.
LEMMA MemberKeeps ==
  ASSUME NEW h, HInv(h), NEW c \in Obj, NEW x \in ConnRec, x.alive,
         x.top = h.conn[c].top, x.base = h.conn[c].base, x.bucket = h.conn[c].bucket
  PROVE  LET r == [h EXCEPT !.conn[c] = x] IN
         HInv(r) /\ r.bad = h.bad /\ r.conn = [h.conn EXCEPT ![c] = x] /\ SameHeld(r, h)
<1> DEFINE n == [h.conn EXCEPT ![c] = x]
           r == [h EXCEPT !.conn = n]
<1>1. h \in HeapRec /\ n \in [Obj -> ConnRec]
  BY DEF HInv, HeapRec
<1>2. n[c] = x /\ \A d \in Obj : d # c => n[d] = h.conn[d]
  BY <1>1 DEF HeapRec
<1>3. r = [h EXCEPT !.conn[c] = x]
  OBVIOUS
<1> HIDE DEF n
<1>4. /\ r \in HeapRec /\ r.conn = n /\ r.bev = h.bev /\ r.bad = h.bad
      /\ r.filters = h.filters /\ r.open = h.open
  BY <1>1 DEF HeapRec
<1> HIDE DEF r
<1>5. Own(r, c) = Own(h, c)
  BY <1>2, <1>4 DEF Own, Chain
<1>6. CleanAt(r, c) /\ ChainedAt(r, c)
  BY <1>2, <1>4, <1>5 DEF HInv, Clean, Chained, CleanAt, ChainedAt
<1>7. HInv(r)
  <2> DEFINE N == {}
  <2>1. /\ N \in SUBSET Bev /\ \A z \in N : ~h.bev[z].live
        /\ \A z \in Bev : z \notin N /\ z \notin Own(h, c) => r.bev[z] = h.bev[z]
        /\ Own(r, c) = Own(h, c) \cup N
        /\ \A d \in Obj : d # c => r.conn[d] = h.conn[d]
    BY <1>2, <1>4, <1>5
  <2> HIDE DEF N
  <2> QED
    BY <1>4, <1>6, <2>1, Local
<1>8. SameHeld(r, h)
  BY <1>4 DEF SameHeld
<1> QED
  BY <1>3, <1>4, <1>7, <1>8 DEF n

LEMMA InstallRateLimitKeeps ==
  ASSUME NEW h, HInv(h), NEW c \in Obj, NEW k \in OrNull(Cfg), h.conn[c].alive
  PROVE  LET r == InstallRateLimit(h, c, k) IN
         /\ HInv(r) /\ r.bad = h.bad /\ \A d \in Obj : d # c => r.conn[d] = h.conn[d]
         /\ r.conn[c].base = h.conn[c].base /\ SameHeld(r, h)
<1> DEFINE e == h.conn[c].base
           x == [h.conn[c] EXCEPT !.bucket = k]
           y == [h.bev[e] EXCEPT !.cfg = k]
           n == [h.conn EXCEPT ![c] = x]
           m == [h.bev EXCEPT ![e] = y]
           r == InstallRateLimit(h, c, k)
<1>1. h \in HeapRec /\ h.conn \in [Obj -> ConnRec] /\ h.bev \in [Bev -> BevRec]
  BY DEF HInv, HeapRec
<1>2. CASE e = NULL
  BY <1>1, <1>2 DEF InstallRateLimit, SameHeld
<1>3. CASE e # NULL
  <2>1. h.conn[c].top # NULL /\ e \in Own(h, c) /\ Own(h, c) \subseteq Bev
    BY <1>1, <1>3, OwnType DEF HInv, Clean, CleanAt, Chained, ChainedAt
  <2>2. /\ x \in ConnRec /\ x.top = h.conn[c].top /\ x.base = e /\ x.bucket = k
        /\ x.alive = h.conn[c].alive
    <3>1. h.conn[c] \in ConnRec
      BY <1>1
    <3> QED
      BY <3>1 DEF ConnRec
  <2>3. /\ y \in BevRec /\ y.live = h.bev[e].live /\ y.below = h.bev[e].below
        /\ y.ctx = h.bev[e].ctx /\ y.cfg = k
        /\ y.filter = h.bev[e].filter /\ y.fd = h.bev[e].fd
    <3>1. h.bev[e] \in BevRec
      BY <1>1, <2>1
    <3> QED
      BY <3>1 DEF BevRec
  <2>4. r = [h EXCEPT !.bev = m, !.conn = n]
    BY <1>1, <1>3, <2>1 DEF InstallRateLimit, HeapRec
  <2> HIDE DEF x, y, r
  <2>5. /\ n \in [Obj -> ConnRec] /\ m \in [Bev -> BevRec]
        /\ n[c] = x /\ \A d \in Obj : d # c => n[d] = h.conn[d]
        /\ m[e] = y /\ \A z \in Bev : z # e => m[z] = h.bev[z]
    BY <1>1, <2>1, <2>2, <2>3
  <2> HIDE DEF n, m
  <2>6. /\ r \in HeapRec /\ r.conn = n /\ r.bev = m /\ r.bad = h.bad
        /\ r.filters = h.filters /\ r.open = h.open
    BY <1>1, <2>4, <2>5 DEF HeapRec
  <2>7. \A z \in Bev : /\ r.bev[z].live = h.bev[z].live
                       /\ r.bev[z].below = h.bev[z].below
                       /\ r.bev[z].ctx = h.bev[z].ctx
                       /\ z # e => r.bev[z].cfg = h.bev[z].cfg
    BY <2>3, <2>5, <2>6
  <2>8. Own(r, c) = Own(h, c)
    <3>1. h.conn[c].top \in Bev /\ r.conn[c].top = h.conn[c].top
      BY <2>1, <1>1, <2>2, <2>5, <2>6, OwnType
    <3> QED
      BY <2>7, <3>1 DEF Own, Chain
  <2>9. CleanAt(r, c)
    BY <2>1, <2>2, <2>5, <2>6 DEF CleanAt
  <2>10. ChainedAt(r, c)
    <3>1. /\ h.bev[h.conn[c].top].ctx = c /\ h.conn[c].top \in Bev
          /\ \A b \in Own(h, c) :
               /\ h.bev[b].live
               /\ h.bev[b].below \subseteq Own(h, c)
               /\ h.bev[b].below = {} <=> b = e
               /\ b # e => h.bev[b].cfg = NULL
      BY <2>1, <1>1, OwnType DEF HInv, Chained, ChainedAt
    <3>2. r.conn[c].top = h.conn[c].top /\ r.conn[c].base = e /\ r.conn[c].bucket = k
      BY <2>2, <2>5, <2>6
    <3>3. r.bev[e].cfg = k
      BY <2>3, <2>5, <2>6
    <3>4. \A b \in Own(h, c) : b \in Bev
      BY <2>1
    <3> QED
      BY <2>1, <2>7, <2>8, <3>1, <3>2, <3>3, <3>4 DEF ChainedAt
  <2>11. HInv(r)
    <3> DEFINE N == {}
    <3>1. /\ N \in SUBSET Bev /\ \A z \in N : ~h.bev[z].live
          /\ \A z \in Bev : z \notin N /\ z \notin Own(h, c) => r.bev[z] = h.bev[z]
          /\ Own(r, c) = Own(h, c) \cup N
          /\ \A d \in Obj : d # c => r.conn[d] = h.conn[d]
      BY <2>1, <2>5, <2>6, <2>8
    <3> HIDE DEF N
    <3>2. r \in HeapRec
      BY <2>6
    <3> QED
      BY <2>9, <2>10, <3>1, <3>2, Local
  <2>12. SameHeld(r, h)
    BY <2>3, <2>5, <2>6 DEF SameHeld
  <2>13. r.conn[c].base = h.conn[c].base
    BY <2>2, <2>5, <2>6
  <2> QED
    BY <2>5, <2>6, <2>11, <2>12, <2>13 DEF r
<1> QED
  BY <1>2, <1>3

LEMMA StackFilterKeeps ==
  ASSUME NEW h, HInv(h), NEW c \in Obj, NEW b \in Bev, NEW flt \in Filter,
         h.conn[c].top # NULL, ~h.bev[b].live
  PROVE  LET r == StackFilter(h, c, b, flt) IN
         /\ HInv(r) /\ r.bad = h.bad /\ \A d \in Obj : d # c => r.conn[d] = h.conn[d]
         /\ r.conn[c].base = h.conn[c].base
         /\ r.filters = h.filters \cup {flt} /\ r.open = h.open
         /\ r.bev[b].filter = flt /\ r.bev[b].fd = NULL
         /\ \A e \in Bev : e # b => r.bev[e].filter = h.bev[e].filter /\ r.bev[e].fd = h.bev[e].fd
<1> DEFINE t == h.conn[c].top
           x == [h.conn[c] EXCEPT !.top = b]
           y == [h.bev[t] EXCEPT !.ctx = NULL]
           z == [NoBev EXCEPT !.live = TRUE, !.filter = flt, !.below = Chain(h, t)]
           n == [h.conn EXCEPT ![c] = x]
           m == [h.bev EXCEPT ![t] = y, ![b] = z]
           u == h.filters \cup {flt}
           g == [h EXCEPT !.bev = m, !.filters = u, !.conn = n]
           r == ResetCallbacks(g, c)
<1>1. h \in HeapRec /\ h.conn \in [Obj -> ConnRec] /\ h.bev \in [Bev -> BevRec]
      /\ u \in SUBSET Filter
  BY DEF HInv, HeapRec
<1>2. /\ t \in Bev /\ h.bev[t].live /\ h.bev[t] \in BevRec /\ h.conn[c] \in ConnRec
      /\ t # b
  BY <1>1, TopsDiffer
<1>3. Own(h, c) = Chain(h, t) /\ Own(h, c) \subseteq Bev /\ t \in Own(h, c)
  BY <1>1, OwnType DEF Own
<1>4. x \in ConnRec /\ x.top = b /\ x.base = h.conn[c].base /\ x.bucket = h.conn[c].bucket
      /\ x.alive = h.conn[c].alive
  BY <1>2 DEF ConnRec, OrNull
<1>5. /\ y \in BevRec /\ y.live = h.bev[t].live /\ y.below = h.bev[t].below /\ y.cfg = h.bev[t].cfg
      /\ y.filter = h.bev[t].filter /\ y.fd = h.bev[t].fd
  <2> HIDE DEF t
  <2>1. NULL \in OrNull(Obj)
    BY DEF OrNull
  <2> QED
    BY <1>2, <2>1, CtxOnly
<1>6. /\ z \in BevRec /\ z.live = TRUE /\ z.below = Chain(h, t) /\ z.cfg = NULL
      /\ z.filter = flt /\ z.fd = NULL
  <2> DEFINE C == Chain(h, t)
  <2>1. C \in SUBSET Bev
    BY <1>3
  <2> HIDE DEF C
  <2>2. /\ [NoBev EXCEPT !.live = TRUE, !.filter = flt, !.below = C] \in BevRec
        /\ [NoBev EXCEPT !.live = TRUE, !.filter = flt, !.below = C].live = TRUE
        /\ [NoBev EXCEPT !.live = TRUE, !.filter = flt, !.below = C].below = C
        /\ [NoBev EXCEPT !.live = TRUE, !.filter = flt, !.below = C].cfg = NULL
        /\ [NoBev EXCEPT !.live = TRUE, !.filter = flt, !.below = C].filter = flt
        /\ [NoBev EXCEPT !.live = TRUE, !.filter = flt, !.below = C].fd = NULL
    BY <2>1 DEF NoBev, BevRec, OrNull
  <2> QED
    BY <2>2 DEF C
<1>7. StackFilter(h, c, b, flt) = r
  <2> DEFINE w == [h.bev EXCEPT ![t].ctx = NULL, ![b] = z]
             v == [h.conn EXCEPT ![c].top = b]
             e == [h EXCEPT !.bev = w, !.filters = @ \cup {flt}, !.conn = v]
  <2>1. StackFilter(h, c, b, flt) = ResetCallbacks(e, c)
    BY DEF StackFilter
  <2>2. w = m /\ v = n
    <3> HIDE DEF z, t
    <3> QED BY <1>1, <1>2
  <2> HIDE DEF w, v, m, n
  <2>4. e = g
    BY <1>1, <2>2 DEF HeapRec
  <2> HIDE DEF e, g
  <2> QED
    BY <2>1, <2>4 DEF g
<1> HIDE DEF t, x, y, z
<1>8. /\ n \in [Obj -> ConnRec] /\ m \in [Bev -> BevRec]
      /\ n[c] = x /\ \A d \in Obj : d # c => n[d] = h.conn[d]
      /\ m[t] = y /\ m[b] = z /\ \A e \in Bev : e # t /\ e # b => m[e] = h.bev[e]
  BY <1>1, <1>2, <1>4, <1>5, <1>6
<1> HIDE DEF n, m, u
<1>9. /\ g \in HeapRec /\ g.conn = n /\ g.bev = m /\ g.bad = h.bad
      /\ g.filters = u /\ g.open = h.open
  BY <1>1, <1>8 DEF HeapRec
<1> HIDE DEF g
<1>10. /\ r \in HeapRec /\ r.conn = g.conn /\ r.bad = g.bad
       /\ \A e \in Bev : /\ r.bev[e].live = g.bev[e].live
                         /\ r.bev[e].below = g.bev[e].below
                         /\ r.bev[e].cfg = g.bev[e].cfg
                         /\ e # g.conn[c].top => r.bev[e] = g.bev[e]
       /\ g.conn[c].top # NULL => r.bev[g.conn[c].top].ctx = c
       /\ SameHeld(r, g)
  BY <1>9, ResetData
<1> HIDE DEF r
<1>11. /\ r.conn = n /\ r.bad = h.bad /\ r.conn[c] = x
       /\ \A d \in Obj : d # c => r.conn[d] = h.conn[d]
  BY <1>8, <1>9, <1>10
<1>12. /\ r.bev[b].ctx = c /\ r.bev[b].below = Chain(h, t) /\ r.bev[b].cfg = NULL
  BY <1>4, <1>6, <1>8, <1>9, <1>10, NullNotBev
<1>13. r.bev[b].live
  <2>1. r.bev[b].live = TRUE
    BY <1>6, <1>8, <1>9, <1>10
  <2> QED
    BY <2>1
<1>14. \A e \in Bev : e # b => /\ r.bev[e].live = h.bev[e].live
                               /\ r.bev[e].below = h.bev[e].below
                               /\ r.bev[e].cfg = h.bev[e].cfg
                               /\ e # t => r.bev[e] = h.bev[e]
  BY <1>4, <1>5, <1>8, <1>9, <1>10
<1>15. Own(r, c) = Own(h, c) \cup {b}
  BY <1>3, <1>4, <1>11, <1>12, NullNotBev DEF Own, Chain
<1>16. /\ h.conn[c].base \in Own(h, c)
       /\ h.bev[h.conn[c].base].cfg = h.conn[c].bucket
       /\ \A e \in Own(h, c) : /\ h.bev[e].live
                               /\ h.bev[e].below \subseteq Own(h, c)
                               /\ h.bev[e].below = {} <=> e = h.conn[c].base
                               /\ e # h.conn[c].base => h.bev[e].cfg = NULL
  BY DEF HInv, Chained, ChainedAt
<1>17. CleanAt(r, c)
  <2>1. h.conn[c].alive
    BY RecTypes DEF HInv, Clean, CleanAt
  <2>2. r.conn[c].alive /\ r.conn[c].top # NULL
    BY <2>1, <1>4, <1>11, NullNotBev
  <2> QED
    BY <2>2 DEF CleanAt
<1>18. ChainedAt(r, c)
  <2>1. r.conn[c].top = b /\ r.conn[c].base = h.conn[c].base /\ r.conn[c].bucket = h.conn[c].bucket
    BY <1>4, <1>11
  <2>2. b \notin Own(h, c)
    BY <1>16
  <2>3. \A e \in Own(h, c) : /\ r.bev[e].live = h.bev[e].live
                            /\ r.bev[e].below = h.bev[e].below
                            /\ r.bev[e].cfg = h.bev[e].cfg
    BY <1>3, <1>14, <2>2
  <2>4. r.bev[b].below = Own(h, c) /\ Own(h, c) # {}
    BY <1>3, <1>12
  <2>5. r.bev[b].below # {} /\ b # h.conn[c].base
    BY <1>16, <2>2, <2>4
  <2> QED
    BY <1>12, <1>13, <1>15, <1>16, <2>1, <2>3, <2>4, <2>5 DEF ChainedAt
<1>19. HInv(r)
  <2> DEFINE N == {b}
  <2>1. /\ N \in SUBSET Bev /\ \A e \in N : ~h.bev[e].live
        /\ \A e \in Bev : e \notin N /\ e \notin Own(h, c) => r.bev[e] = h.bev[e]
        /\ Own(r, c) = Own(h, c) \cup N
    BY <1>3, <1>14, <1>15
  <2>2. r \in HeapRec /\ \A d \in Obj : d # c => r.conn[d] = h.conn[d]
    BY <1>10, <1>11
  <2> HIDE DEF N
  <2> QED
    BY <1>17, <1>18, <2>1, <2>2, Local
<1>20. /\ r.filters = h.filters \cup {flt} /\ r.open = h.open
       /\ r.bev[b].filter = flt /\ r.bev[b].fd = NULL
       /\ \A e \in Bev : e # b => r.bev[e].filter = h.bev[e].filter /\ r.bev[e].fd = h.bev[e].fd
  BY <1>5, <1>6, <1>8, <1>9, <1>10 DEF SameHeld, u
<1>21. r.conn[c].base = h.conn[c].base
  BY <1>4, <1>11
<1> QED
  BY <1>7, <1>11, <1>19, <1>20, <1>21

------------------------------------------------------------------------------
(* The composed operators.  Between calls the temporaries hold nothing.      *)

Good(h) == HInv(h) /\ h.conn[Tmp1] = Unborn /\ h.conn[Tmp2] = Unborn

\* The filter handlers and the descriptors outside v are those of the bufferevents, each
\* held by one of them.
Accounts(S, F) ==
  /\ S = {F[b] : b \in Bev} \ {NULL}
  /\ \A b, e \in Bev : F[b] # NULL /\ F[b] = F[e] => b = e

FilterOf(h) == [b \in Bev |-> h.bev[b].filter]
FdOf(h) == [b \in Bev |-> h.bev[b].fd]

Held(h, v) ==
  /\ v \subseteq h.open
  /\ Accounts(h.filters, FilterOf(h))
  /\ Accounts(h.open \ v, FdOf(h))

\* What holds for the program's own descriptors v holds after the call too.
HeldKept(r, h) == \A v \in SUBSET Fd : Held(h, v) => Held(r, v)

\* A bufferevent that held nothing receives x.
LEMMA AddKey ==
  ASSUME NEW S, NEW F, NEW G, Accounts(S, F), NEW b \in Bev, NEW x, x # NULL, x \notin S,
         F[b] = NULL, G[b] = x, \A e \in Bev : e # b => G[e] = F[e]
  PROVE  Accounts(S \cup {x}, G)
<1>1. \A e \in Bev : F[e] # NULL => F[e] \in S
  BY DEF Accounts
<1>2. S \cup {x} = {G[e] : e \in Bev} \ {NULL}
  BY DEF Accounts
<1>3. ASSUME NEW e \in Bev, NEW d \in Bev, G[e] # NULL, G[e] = G[d]
      PROVE  e = d
  BY <1>1, <1>3 DEF Accounts
<1> QED
  BY <1>2, <1>3 DEF Accounts

\* The bufferevents N let go of what they hold.
LEMMA DropKeys ==
  ASSUME NEW S, NEW F, NEW G, Accounts(S, F), NEW N \in SUBSET Bev,
         \A e \in Bev : G[e] = IF e \in N THEN NULL ELSE F[e]
  PROVE  Accounts(S \ {F[e] : e \in N}, G)
<1>1. ASSUME NEW y \in S \ {F[e] : e \in N}
      PROVE  y \in {G[e] : e \in Bev} \ {NULL}
  <2>1. PICK e \in Bev : F[e] = y /\ y # NULL
    BY <1>1 DEF Accounts
  <2>2. e \notin N
    BY <1>1, <2>1
  <2> QED
    BY <2>1, <2>2
<1>2. ASSUME NEW e \in Bev, G[e] # NULL
      PROVE  G[e] \in S \ {F[d] : d \in N}
  <2>1. e \notin N /\ G[e] = F[e] /\ F[e] \in S
    BY <1>2 DEF Accounts
  <2>2. \A d \in N : F[d] # F[e]
    BY <1>2, <2>1 DEF Accounts
  <2> QED
    BY <2>1, <2>2
<1>3. S \ {F[e] : e \in N} = {G[e] : e \in Bev} \ {NULL}
  BY <1>1, <1>2
<1>4. \A b, e \in Bev : G[b] # NULL /\ G[b] = G[e] => b = e
  BY DEF Accounts
<1> QED
  BY <1>3, <1>4 DEF Accounts

LEMMA HeldSame ==
  ASSUME NEW h, NEW r, SameHeld(r, h)
  PROVE  HeldKept(r, h)
<1>1. FilterOf(r) = FilterOf(h) /\ FdOf(r) = FdOf(h)
  BY DEF SameHeld, FilterOf, FdOf
<1> QED
  BY <1>1 DEF SameHeld, HeldKept, Held

LEMMA HeldReleased ==
  ASSUME NEW h, NEW r, NEW N \in SUBSET Bev, Released(r, h, N)
  PROVE  HeldKept(r, h)
<1> SUFFICES ASSUME NEW v \in SUBSET Fd, Held(h, v) PROVE Held(r, v)
  BY DEF HeldKept
<1> DEFINE FF == {h.bev[x].filter : x \in N}
           DD == {h.bev[x].fd : x \in N}
<1>1. r.filters = h.filters \ FF /\ r.open = h.open \ DD
  BY DEF Released
<1>2. FF = {FilterOf(h)[x] : x \in N} /\ DD = {FdOf(h)[x] : x \in N}
  BY DEF FilterOf, FdOf
<1>3. NoBev.filter = NULL /\ NoBev.fd = NULL
  BY DEF NoBev
<1>4. \A e \in Bev : /\ FilterOf(r)[e] = IF e \in N THEN NULL ELSE FilterOf(h)[e]
                     /\ FdOf(r)[e] = IF e \in N THEN NULL ELSE FdOf(h)[e]
  BY <1>3 DEF Released, FilterOf, FdOf
<1> HIDE DEF FF, DD
<1>5. Accounts(h.filters \ FF, FilterOf(r))
  <2>1. Accounts(h.filters, FilterOf(h))
    BY DEF Held
  <2>2. Accounts(h.filters \ {FilterOf(h)[x] : x \in N}, FilterOf(r))
    BY <1>4, <2>1, DropKeys
  <2> QED
    BY <1>2, <2>2
<1>6. Accounts((h.open \ v) \ DD, FdOf(r))
  <2>1. Accounts(h.open \ v, FdOf(h))
    BY DEF Held
  <2>2. Accounts((h.open \ v) \ {FdOf(h)[x] : x \in N}, FdOf(r))
    BY <1>4, <2>1, DropKeys
  <2> QED
    BY <1>2, <2>2
<1>7. v \cap DD = {}
  <2>1. \A x \in N : FdOf(h)[x] \in (h.open \ v) \cup {NULL}
    BY DEF Held, Accounts
  <2>2. NULL \notin v
    BY NullIsNoObject
  <2> QED
    BY <1>2, <2>1, <2>2
<1>8. (h.open \ v) \ DD = (h.open \ DD) \ v /\ v \subseteq h.open \ DD
  BY <1>7 DEF Held
<1> QED
  BY <1>1, <1>5, <1>6, <1>8 DEF Held

\* Bufferevent b, which held nothing, receives descriptor f, which no other holds.
LEMMA HeldSocket ==
  ASSUME NEW h, NEW r, NEW b \in Bev, h.bev[b] = NoBev, NEW f \in Fd,
         r.filters = h.filters, r.open = h.open \cup {f},
         r.bev[b].filter = NULL, r.bev[b].fd = f,
         \A e \in Bev : e # b => r.bev[e] = h.bev[e]
  PROVE  \A v \in SUBSET Fd : Held(h, v) /\ f \notin h.open \ v => Held(r, v \ {f})
<1> SUFFICES ASSUME NEW v \in SUBSET Fd, Held(h, v), f \notin h.open \ v
             PROVE  Held(r, v \ {f})
  OBVIOUS
<1>1. NoBev.filter = NULL /\ NoBev.fd = NULL /\ f # NULL
  BY NullIsNoObject DEF NoBev
<1>2. FilterOf(r) = FilterOf(h)
  BY <1>1 DEF FilterOf
<1>3. /\ FdOf(h)[b] = NULL /\ FdOf(r)[b] = f
      /\ \A e \in Bev : e # b => FdOf(r)[e] = FdOf(h)[e]
  BY <1>1 DEF FdOf
<1>4. Accounts((h.open \ v) \cup {f}, FdOf(r))
  <2>1. Accounts(h.open \ v, FdOf(h))
    BY DEF Held
  <2> QED
    BY <1>1, <1>3, <2>1, AddKey
<1>5. (h.open \ v) \cup {f} = r.open \ (v \ {f})
  BY DEF Held
<1> QED
  BY <1>2, <1>4, <1>5 DEF Held

LEMMA HeldFilter ==
  ASSUME NEW h, NEW r, NEW b \in Bev, h.bev[b] = NoBev, NEW flt \in Filter, flt \notin h.filters,
         r.filters = h.filters \cup {flt}, r.open = h.open,
         r.bev[b].filter = flt, r.bev[b].fd = NULL,
         \A e \in Bev : e # b => r.bev[e].filter = h.bev[e].filter /\ r.bev[e].fd = h.bev[e].fd
  PROVE  HeldKept(r, h)
<1> SUFFICES ASSUME NEW v \in SUBSET Fd, Held(h, v) PROVE Held(r, v)
  BY DEF HeldKept
<1>1. NoBev.filter = NULL /\ NoBev.fd = NULL /\ flt # NULL
  BY NullIsNoObject DEF NoBev
<1>2. FdOf(r) = FdOf(h)
  BY <1>1 DEF FdOf
<1>3. /\ FilterOf(h)[b] = NULL /\ FilterOf(r)[b] = flt
      /\ \A e \in Bev : e # b => FilterOf(r)[e] = FilterOf(h)[e]
  BY <1>1 DEF FilterOf
<1>4. Accounts(h.filters \cup {flt}, FilterOf(r))
  <2>1. Accounts(h.filters, FilterOf(h))
    BY DEF Held
  <2> QED
    BY <1>1, <1>3, <2>1, AddKey
<1> QED
  BY <1>2, <1>4 DEF Held

\* The program takes and gives up descriptors that no bufferevent holds.
LEMMA HeldOpen ==
  ASSUME NEW h \in HeapRec, NEW v, Held(h, v), NEW D, D \cap h.open = {}
  PROVE  Held([h EXCEPT !.open = h.open \cup D], v \cup D)
<1> DEFINE w == h.open \cup D
           r == [h EXCEPT !.open = w]
<1>1. /\ w \ (v \cup D) = h.open \ v /\ v \cup D \subseteq w
  BY DEF Held
<1> HIDE DEF w
<1>2. r.bev = h.bev /\ r.filters = h.filters /\ r.open = w
  BY DEF HeapRec
<1> HIDE DEF r
<1>3. FilterOf(r) = FilterOf(h) /\ FdOf(r) = FdOf(h)
  BY <1>2 DEF FilterOf, FdOf
<1>4. Held(r, v \cup D)
  BY <1>1, <1>2, <1>3 DEF Held
<1> QED
  BY <1>4 DEF r, w

LEMMA HeldClose ==
  ASSUME NEW h \in HeapRec, NEW v, Held(h, v), NEW f \in v
  PROVE  Held(CloseSocket(h, f), v \ {f})
<1> DEFINE w == h.open \ {f}
           r == [h EXCEPT !.open = w]
<1>1. w \ (v \ {f}) = h.open \ v /\ v \ {f} \subseteq w
  BY DEF Held
<1> HIDE DEF w
<1>2. r.bev = h.bev /\ r.filters = h.filters /\ r.open = w
  BY DEF HeapRec
<1> HIDE DEF r
<1>3. FilterOf(r) = FilterOf(h) /\ FdOf(r) = FdOf(h)
  BY <1>2 DEF FilterOf, FdOf
<1>4. Held(r, v \ {f})
  BY <1>1, <1>2, <1>3 DEF Held
<1> QED
  BY <1>4 DEF r, w, CloseSocket

LEMMA Distinct ==
  /\ Tmp1 \in Obj /\ Tmp2 \in Obj /\ Tmp1 # Tmp2
  /\ \A c \in Conn : c \in Obj /\ c # Tmp1 /\ c # Tmp2
BY TempsAreNotDeclared DEF Obj

LEMMA UnbornFacts ==
  ~Unborn.alive /\ Empty.alive
<1>1. Unborn.alive = FALSE /\ Empty.alive = TRUE
  BY RecTypes
<1> QED
  BY <1>1

\* The parts of the heap the invariant does not depend on.
LEMMA RestKeeps ==
  ASSUME NEW h, Good(h), NEW v \in SUBSET Fd
  PROVE  /\ Good([h EXCEPT !.open = v]) /\ [h EXCEPT !.open = v].bad = h.bad
         /\ Good([h EXCEPT !.bad = TRUE])
<1>1. h \in HeapRec
  BY DEF Good, HInv
<1>2. ASSUME NEW r \in HeapRec, r.conn = h.conn, r.bev = h.bev
      PROVE  Good(r)
  <2>1. \A c \in Obj : Own(r, c) = Own(h, c)
    BY <1>2 DEF Own, Chain
  <2>2. Clean(r) /\ Chained(r)
    BY <1>2, <2>1 DEF Good, HInv, Clean, CleanAt, Chained, ChainedAt
  <2>3. Disjoint(r) /\ Covered(r)
    BY <1>2, <2>1 DEF Good, HInv, Disjoint, Covered
  <2> QED
    BY <1>2, <2>2, <2>3 DEF Good, HInv
<1>3. /\ [h EXCEPT !.open = v] \in HeapRec
      /\ [h EXCEPT !.open = v].conn = h.conn /\ [h EXCEPT !.open = v].bev = h.bev
  BY <1>1 DEF HeapRec
<1>5. /\ [h EXCEPT !.bad = TRUE] \in HeapRec
      /\ [h EXCEPT !.bad = TRUE].conn = h.conn /\ [h EXCEPT !.bad = TRUE].bev = h.bev
  BY <1>1 DEF HeapRec
<1>4. [h EXCEPT !.open = v].bad = h.bad
  BY <1>1 DEF HeapRec
<1>6. Good([h EXCEPT !.open = v])
  BY <1>2, <1>3
<1>7. Good([h EXCEPT !.bad = TRUE])
  BY <1>2, <1>5
<1> QED
  BY <1>4, <1>6, <1>7

LEMMA MoveGood ==
  ASSUME NEW h, HInv(h), NEW d \in Obj, NEW s \in Obj, d # s,
         h.conn[s].alive, ~h.conn[d].alive
  PROVE  LET r == MoveCtor(h, d, s) IN
         /\ HInv(r) /\ r.bad = h.bad
         /\ r.conn[d] = h.conn[s] /\ r.conn[s] = Empty
         /\ \A c \in Obj : c # d /\ c # s => r.conn[c] = h.conn[c]
         /\ HeldKept(r, h)
<1> DEFINE r == MoveCtor(h, d, s)
<1>1. h \in HeapRec
  BY DEF HInv
<1>2. /\ r \in HeapRec /\ r.bad = h.bad
      /\ r.conn = [h.conn EXCEPT ![d] = h.conn[s], ![s] = Empty]
      /\ r.bev = [b \in Bev |-> IF b = h.conn[s].top THEN [h.bev[b] EXCEPT !.ctx = d]
                                ELSE h.bev[b]]
      /\ SameHeld(r, h)
  BY <1>1, MoveCtorFields
<1>3. HInv(r)
  BY MoveCtorKeeps
<1> HIDE DEF r
<1>4. /\ r.conn[d] = h.conn[s] /\ r.conn[s] = Empty
      /\ \A c \in Obj : c # d /\ c # s => r.conn[c] = h.conn[c]
  BY <1>1, <1>2 DEF HeapRec
<1>5. HeldKept(r, h)
  BY <1>2, HeldSame
<1> QED
  BY <1>2, <1>3, <1>4, <1>5 DEF r

LEMMA DestroyGood ==
  ASSUME NEW h, HInv(h), NEW c \in Obj
  PROVE  LET r == Destroy(h, c) IN
         /\ HInv(r) /\ r.bad = h.bad /\ r.conn[c] = Unborn
         /\ \A d \in Obj : d # c => r.conn[d] = h.conn[d]
         /\ HeldKept(r, h)
<1> DEFINE r == Destroy(h, c)
<1>1. h \in HeapRec
  BY DEF HInv
<1>2. r.bad = h.bad /\ r.conn = [h.conn EXCEPT ![c] = Unborn] /\ Released(r, h, Own(h, c))
  BY DestroyFields
<1>3. HInv(r)
  BY DestroyKeeps
<1> HIDE DEF r
<1>4. r.conn[c] = Unborn /\ \A d \in Obj : d # c => r.conn[d] = h.conn[d]
  BY <1>1, <1>2 DEF HeapRec
<1>5. HeldKept(r, h)
  BY <1>1, <1>2, OwnType, HeldReleased
<1> QED
  BY <1>2, <1>3, <1>4, <1>5 DEF r

LEMMA SocketGood ==
  ASSUME NEW h, HInv(h), NEW c \in Obj, NEW b \in Bev, NEW f \in Fd,
         ~h.conn[c].alive, ~h.bev[b].live
  PROVE  LET r == SocketCtor(h, c, b, f) IN
         /\ HInv(r) /\ r.bad = h.bad /\ r.conn[c] = SocketConn(b) /\ r.conn[c].alive
         /\ \A d \in Obj : d # c => r.conn[d] = h.conn[d]
         /\ \A e \in Bev : e # b => r.bev[e] = h.bev[e]
         /\ r.open = h.open \cup {f}
         /\ \A v \in SUBSET Fd : Held(h, v) /\ f \notin h.open \ v => Held(r, v \ {f})
<1> DEFINE r == SocketCtor(h, c, b, f)
<1>1. h \in HeapRec
  BY DEF HInv
<1>2. /\ r.bad = h.bad /\ r.conn = [h.conn EXCEPT ![c] = SocketConn(b)]
      /\ r.bev = [h.bev EXCEPT ![b] = SocketBev(c, f)]
      /\ r.filters = h.filters /\ r.open = h.open \cup {f}
  BY <1>1, SocketCtorFields
<1>3. HInv(r)
  BY SocketCtorKeeps
<1> HIDE DEF r
<1>4. /\ r.conn[c] = SocketConn(b) /\ \A d \in Obj : d # c => r.conn[d] = h.conn[d]
      /\ \A e \in Bev : e # b => r.bev[e] = h.bev[e]
      /\ r.bev[b] = SocketBev(c, f)
  BY <1>1, <1>2 DEF HeapRec
<1>5. r.conn[c].alive
  <2>1. SocketConn(b).alive = TRUE
    BY DEF SocketConn, Empty, Unborn
  <2> QED
    BY <1>4, <2>1
<1>6. \A v \in SUBSET Fd : Held(h, v) /\ f \notin h.open \ v => Held(r, v \ {f})
  <2>1. h.bev[b] = NoBev
    BY DEF HInv, Covered
  <2>2. r.bev[b].filter = NULL /\ r.bev[b].fd = f
    BY <1>4 DEF SocketBev, NoBev
  <2> QED
    BY <1>2, <1>4, <2>1, <2>2, HeldSocket
<1> QED
  BY <1>2, <1>3, <1>4, <1>5, <1>6 DEF r

LEMMA CloseGood ==
  ASSUME NEW h, Good(h), NEW c \in Conn, h.conn[c].alive
  PROVE  LET r == CloseConn(h, c) IN
         /\ Good(r) /\ r.bad = h.bad /\ r.conn[c] = Empty
         /\ \A d \in Conn : d # c => r.conn[d] = h.conn[d]
         /\ HeldKept(r, h)
<1> DEFINE q == MoveCtor(h, Tmp1, c)
           r == Destroy(q, Tmp1)
<1>1. ~h.conn[Tmp1].alive
  BY UnbornFacts DEF Good
<1>2. /\ HInv(q) /\ q.bad = h.bad /\ q.conn[Tmp2] = Unborn /\ q.conn[c] = Empty
      /\ \A d \in Conn : d # c => q.conn[d] = h.conn[d]
      /\ HeldKept(q, h)
  BY <1>1, Distinct, MoveGood DEF Good
<1> HIDE DEF q
<1>3. /\ HInv(r) /\ r.bad = q.bad /\ r.conn[Tmp1] = Unborn /\ r.conn[Tmp2] = q.conn[Tmp2]
      /\ \A d \in Conn : r.conn[d] = q.conn[d]
      /\ HeldKept(r, q)
  BY <1>2, Distinct, DestroyGood
<1> HIDE DEF r
<1>4. Good(r) /\ r.bad = h.bad /\ r.conn[c] = Empty
  BY <1>2, <1>3 DEF Good
<1>5. HeldKept(r, h)
  BY <1>2, <1>3 DEF HeldKept
<1> QED
  BY <1>2, <1>3, <1>4, <1>5 DEF CloseConn, q, r

LEMMA AssignGood ==
  ASSUME NEW h, Good(h), NEW d \in Conn, NEW s \in Conn, h.conn[d].alive, h.conn[s].alive
  PROVE  LET r == Assign(h, d, s) IN
         /\ Good(r) /\ r.bad = h.bad /\ HeldKept(r, h)
         /\ d = s => r = h
         /\ d # s => /\ r.conn[d] = h.conn[s] /\ r.conn[s] = Empty
                     /\ \A c \in Conn : c # d /\ c # s => r.conn[c] = h.conn[c]
<1>1. CASE d = s
  BY <1>1 DEF Assign, HeldKept
<1>2. CASE d # s
  <2> DEFINE q == MoveCtor(h, Tmp1, s)
             w == SwapConn(q, d, Tmp1)
             r == Destroy(w, Tmp1)
  <2>1. ~h.conn[Tmp1].alive
    BY UnbornFacts DEF Good
  <2>2. /\ HInv(q) /\ q.bad = h.bad /\ q.conn[Tmp2] = Unborn
        /\ q.conn[Tmp1] = h.conn[s] /\ q.conn[d] = h.conn[d] /\ q.conn[s] = Empty
        /\ \A c \in Conn : c # s => q.conn[c] = h.conn[c]
        /\ HeldKept(q, h)
    BY <1>2, <2>1, Distinct, MoveGood DEF Good
  <2> HIDE DEF q
  <2>3. /\ HInv(w) /\ w.bad = q.bad
        /\ w.conn = [q.conn EXCEPT ![d] = q.conn[Tmp1], ![Tmp1] = q.conn[d]]
        /\ SameHeld(w, q)
    BY <2>2, Distinct, SwapConnKeeps
  <2> HIDE DEF w
  <2>4. /\ w.conn[Tmp2] = Unborn /\ w.conn[d] = h.conn[s]
        /\ \A c \in Conn : c # d => w.conn[c] = q.conn[c]
    BY <2>2, <2>3, Distinct DEF HInv, HeapRec
  <2>5. /\ HInv(r) /\ r.bad = w.bad /\ r.conn[Tmp1] = Unborn /\ r.conn[Tmp2] = w.conn[Tmp2]
        /\ \A c \in Conn : r.conn[c] = w.conn[c]
        /\ HeldKept(r, w)
    <3>1. HInv(w)
      BY <2>3
    <3> QED
      BY <3>1, Distinct, DestroyGood
  <2> HIDE DEF r
  <2>6. Good(r) /\ r.bad = h.bad
    BY <2>2, <2>3, <2>4, <2>5 DEF Good
  <2>7. HeldKept(r, h)
    <3>1. HeldKept(w, q)
      BY <2>3, HeldSame
    <3> QED
      BY <2>2, <2>5, <3>1 DEF HeldKept
  <2>8. /\ r.conn[d] = h.conn[s] /\ r.conn[s] = Empty
        /\ \A c \in Conn : c # d /\ c # s => r.conn[c] = h.conn[c]
    BY <1>2, <2>2, <2>4, <2>5
  <2>9. Assign(h, d, s) = r
    BY <1>2 DEF Assign, q, w, r
  <2> QED
    BY <1>2, <2>6, <2>7, <2>8, <2>9
<1> QED
  BY <1>1, <1>2

LEMMA PairGood ==
  ASSUME NEW h, Good(h), NEW p \in Conn, NEW q \in Conn, p # q,
         ~h.conn[p].alive, ~h.conn[q].alive,
         NEW b1 \in Bev, NEW b2 \in Bev, b1 # b2, ~h.bev[b1].live, ~h.bev[b2].live,
         NEW f \in Fd, NEW g \in Fd, f # g
  PROVE  LET r == BuiltPair(h, p, q, b1, b2, f, g) IN
         /\ Good(r) /\ r.bad = h.bad
         /\ r.conn[p] = SocketConn(b1) /\ r.conn[q] = SocketConn(b2)
         /\ \A c \in Conn : c # p /\ c # q => r.conn[c] = h.conn[c]
         /\ \A v \in SUBSET Fd : Held(h, v) /\ f \in v /\ g \in v => Held(r, (v \ {f}) \ {g})
<1> DEFINE h1 == SocketCtor(h, Tmp1, b1, f)
           h2 == SocketCtor(h1, Tmp2, b2, g)
           h3 == MoveCtor(h2, p, Tmp1)
           h4 == MoveCtor(h3, q, Tmp2)
           h5 == Destroy(h4, Tmp2)
           h6 == Destroy(h5, Tmp1)
<1>1. ~h.conn[Tmp1].alive /\ ~h.conn[Tmp2].alive
  BY UnbornFacts DEF Good
<1>2. /\ HInv(h1) /\ h1.bad = h.bad /\ h1.conn[Tmp1].alive
      /\ h1.conn[Tmp1] = SocketConn(b1) /\ h1.open = h.open \cup {f}
      /\ \A v \in SUBSET Fd : Held(h, v) /\ f \notin h.open \ v => Held(h1, v \ {f})
      /\ \A d \in Obj : d # Tmp1 => h1.conn[d] = h.conn[d]
      /\ ~h1.bev[b2].live
  <2>1. HInv(h)
    BY DEF Good
  <2>2. /\ HInv(h1) /\ h1.bad = h.bad /\ h1.conn[Tmp1] = SocketConn(b1) /\ h1.conn[Tmp1].alive
        /\ \A d \in Obj : d # Tmp1 => h1.conn[d] = h.conn[d]
        /\ \A e \in Bev : e # b1 => h1.bev[e] = h.bev[e]
        /\ h1.open = h.open \cup {f}
        /\ \A v \in SUBSET Fd : Held(h, v) /\ f \notin h.open \ v => Held(h1, v \ {f})
    BY <1>1, <2>1, Distinct, SocketGood
  <2> HIDE DEF h1
  <2>3. ~h1.bev[b2].live
    BY <2>2
  <2> QED
    BY <2>2, <2>3
<1> HIDE DEF h1
<1>3. /\ HInv(h2) /\ h2.bad = h1.bad /\ h2.conn[Tmp2].alive
      /\ h2.conn[Tmp2] = SocketConn(b2)
      /\ \A v \in SUBSET Fd : Held(h1, v) /\ g \notin h1.open \ v => Held(h2, v \ {g})
      /\ \A d \in Obj : d # Tmp2 => h2.conn[d] = h1.conn[d]
  <2>1. ~h1.conn[Tmp2].alive
    BY <1>1, <1>2, Distinct
  <2> QED
    BY <1>2, <2>1, Distinct, SocketGood
<1> HIDE DEF h2
<1>4. /\ h2.conn[Tmp1].alive /\ ~h2.conn[p].alive /\ ~h2.conn[q].alive
  BY <1>2, <1>3, Distinct
<1>5. /\ HInv(h3) /\ h3.bad = h2.bad
      /\ \A c \in Obj : c # p /\ c # Tmp1 => h3.conn[c] = h2.conn[c]
      /\ h3.conn[p] = h2.conn[Tmp1] /\ HeldKept(h3, h2)
  <2>1. HInv(h2)
    BY <1>3
  <2> QED
    BY <1>4, <2>1, Distinct, MoveGood
<1> HIDE DEF h3
<1>6. h3.conn[Tmp2].alive /\ ~h3.conn[q].alive
  BY <1>3, <1>4, <1>5, Distinct
<1>7. /\ HInv(h4) /\ h4.bad = h3.bad
      /\ \A c \in Obj : c # q /\ c # Tmp2 => h4.conn[c] = h3.conn[c]
      /\ h4.conn[q] = h3.conn[Tmp2] /\ HeldKept(h4, h3)
  <2>1. HInv(h3)
    BY <1>5
  <2> QED
    BY <1>6, <2>1, Distinct, MoveGood
<1> HIDE DEF h4
<1>8. /\ HInv(h5) /\ h5.bad = h4.bad /\ h5.conn[Tmp2] = Unborn
      /\ \A c \in Obj : c # Tmp2 => h5.conn[c] = h4.conn[c]
      /\ HeldKept(h5, h4)
  BY <1>7, Distinct, DestroyGood
<1> HIDE DEF h5
<1>9. /\ HInv(h6) /\ h6.bad = h5.bad /\ h6.conn[Tmp1] = Unborn /\ h6.conn[Tmp2] = Unborn
      /\ \A c \in Obj : c # Tmp1 => h6.conn[c] = h5.conn[c]
      /\ HeldKept(h6, h5)
  BY <1>8, Distinct, DestroyGood
<1>10. BuiltPair(h, p, q, b1, b2, f, g) = h6
  BY DEF BuiltPair, h1, h2, h3, h4, h5
<1> HIDE DEF h6
<1>11. Good(h6) /\ h6.bad = h.bad
  BY <1>2, <1>3, <1>5, <1>7, <1>8, <1>9 DEF Good
<1>12. /\ h6.conn[p] = SocketConn(b1) /\ h6.conn[q] = SocketConn(b2)
       /\ \A c \in Conn : c # p /\ c # q => h6.conn[c] = h.conn[c]
  <2>1. \A c \in Conn : h6.conn[c] = h4.conn[c]
    BY <1>8, <1>9, Distinct
  <2>2. \A c \in Conn : c # p /\ c # q => h4.conn[c] = h.conn[c]
    BY <1>2, <1>3, <1>5, <1>7, Distinct
  <2>3. h4.conn[p] = SocketConn(b1) /\ h4.conn[q] = SocketConn(b2)
    BY <1>2, <1>3, <1>5, <1>7, Distinct
  <2> QED
    BY <2>1, <2>2, <2>3
<1>13. ASSUME NEW v \in SUBSET Fd, Held(h, v), f \in v, g \in v
       PROVE  Held(h6, (v \ {f}) \ {g})
  <2>1. Held(h1, v \ {f})
    BY <1>2, <1>13
  <2>2. g \notin h1.open \ (v \ {f}) /\ v \ {f} \in SUBSET Fd
    BY <1>13
  <2>3. Held(h2, (v \ {f}) \ {g})
    BY <1>3, <2>1, <2>2
  <2>4. (v \ {f}) \ {g} \in SUBSET Fd
    OBVIOUS
  <2> QED
    BY <1>5, <1>7, <1>8, <1>9, <2>3, <2>4 DEF HeldKept
<1> QED
  BY <1>10, <1>11, <1>12, <1>13

LEMMA CloseSocketGood ==
  ASSUME NEW h, Good(h), NEW f \in Fd
  PROVE  LET r == CloseSocket(h, f) IN Good(r) /\ r.bad = h.bad /\ r.conn = h.conn
<1>1. h.open \ {f} \in SUBSET Fd
  BY DEF Good, HInv, HeapRec
<1>2. CloseSocket(h, f).conn = h.conn
  BY DEF CloseSocket, Good, HInv, HeapRec
<1> QED
  BY <1>1, <1>2, RestKeeps DEF CloseSocket

LEMMA PairThrowsGood ==
  ASSUME NEW h, Good(h), NEW b \in Bev, ~h.bev[b].live, NEW f \in Fd
  PROVE  LET r == Destroy(SocketCtor(h, Tmp1, b, f), Tmp1) IN
         /\ Good(r) /\ r.bad = h.bad
         /\ \A c \in Conn : r.conn[c] = h.conn[c]
         /\ \A v \in SUBSET Fd : Held(h, v) /\ f \in v => Held(r, v \ {f})
<1> DEFINE q == SocketCtor(h, Tmp1, b, f)
           r == Destroy(q, Tmp1)
<1>1. /\ HInv(q) /\ q.bad = h.bad /\ q.conn[Tmp2] = Unborn
      /\ \A c \in Conn : q.conn[c] = h.conn[c]
      /\ \A v \in SUBSET Fd : Held(h, v) /\ f \notin h.open \ v => Held(q, v \ {f})
  BY UnbornFacts, Distinct, SocketGood DEF Good
<1> HIDE DEF q
<1>2. /\ HInv(r) /\ r.bad = q.bad /\ r.conn[Tmp1] = Unborn /\ r.conn[Tmp2] = q.conn[Tmp2]
      /\ \A c \in Conn : r.conn[c] = q.conn[c]
      /\ HeldKept(r, q)
  BY <1>1, Distinct, DestroyGood
<1> HIDE DEF r
<1>3. Good(r) /\ r.bad = h.bad /\ \A c \in Conn : r.conn[c] = h.conn[c]
  BY <1>1, <1>2 DEF Good
<1>4. \A v \in SUBSET Fd : Held(h, v) /\ f \in v => Held(r, v \ {f})
  BY <1>1, <1>2 DEF HeldKept
<1> QED
  BY <1>3, <1>4 DEF q, r

LEMMA HandlerGood ==
  ASSUME NEW h, Good(h), NEW c \in Conn, h.conn[c].alive, NEW hd \in OrNull(Hdl)
  PROVE  LET r == [h EXCEPT !.conn[c].handler = hd] IN
         /\ Good(r) /\ r.bad = h.bad /\ r.bev = h.bev
         /\ r.conn[c].top = h.conn[c].top /\ r.conn[c].base = h.conn[c].base
         /\ \A d \in Conn : d # c => r.conn[d] = h.conn[d]
         /\ HeldKept(r, h) /\ r.open = h.open
<1> DEFINE x == [h.conn[c] EXCEPT !.handler = hd]
           r == [h EXCEPT !.conn[c] = x]
<1>1. h \in HeapRec /\ h.conn[c] \in ConnRec
  BY Distinct DEF Good, HInv, HeapRec
<1>2. /\ x \in ConnRec /\ x.alive = h.conn[c].alive /\ x.top = h.conn[c].top
      /\ x.base = h.conn[c].base /\ x.bucket = h.conn[c].bucket
  BY <1>1 DEF ConnRec
<1>3. r = [h EXCEPT !.conn[c].handler = hd]
  BY <1>1 DEF HeapRec
<1>4. r.bev = h.bev
  BY <1>1 DEF HeapRec
<1> HIDE DEF x
<1>5. HInv(r) /\ r.bad = h.bad /\ r.conn = [h.conn EXCEPT ![c] = x] /\ SameHeld(r, h)
  <2>1. HInv(h) /\ c \in Obj /\ x.alive
    BY <1>2, Distinct DEF Good
  <2> QED
    BY <1>2, <2>1, MemberKeeps
<1> HIDE DEF r
<1>6. /\ r.conn[c] = x /\ r.conn[Tmp1] = h.conn[Tmp1] /\ r.conn[Tmp2] = h.conn[Tmp2]
      /\ \A d \in Conn : d # c => r.conn[d] = h.conn[d]
  BY <1>1, <1>5, Distinct DEF HeapRec
<1>7. HeldKept(r, h) /\ r.open = h.open
  BY <1>5, HeldSame DEF SameHeld
<1> QED
  BY <1>2, <1>3, <1>4, <1>5, <1>6, <1>7 DEF Good

LEMMA ExtraGood ==
  ASSUME NEW h, Good(h), NEW c \in Conn, h.conn[c].alive, NEW e \in OrNull(Extra)
  PROVE  LET r == [h EXCEPT !.conn[c].extra = e] IN
         /\ Good(r) /\ r.bad = h.bad /\ r.conn[c].base = h.conn[c].base
         /\ \A d \in Conn : d # c => r.conn[d] = h.conn[d]
         /\ HeldKept(r, h)
<1> DEFINE x == [h.conn[c] EXCEPT !.extra = e]
           r == [h EXCEPT !.conn[c] = x]
<1>1. h \in HeapRec /\ h.conn[c] \in ConnRec
  BY Distinct DEF Good, HInv, HeapRec
<1>2. /\ x \in ConnRec /\ x.alive = h.conn[c].alive /\ x.top = h.conn[c].top
      /\ x.base = h.conn[c].base /\ x.bucket = h.conn[c].bucket
  BY <1>1 DEF ConnRec
<1>3. r = [h EXCEPT !.conn[c].extra = e]
  BY <1>1 DEF HeapRec
<1> HIDE DEF x
<1>4. HInv(r) /\ r.bad = h.bad /\ r.conn = [h.conn EXCEPT ![c] = x] /\ SameHeld(r, h)
  <2>1. HInv(h) /\ c \in Obj /\ x.alive
    BY <1>2, Distinct DEF Good
  <2> QED
    BY <1>2, <2>1, MemberKeeps
<1> HIDE DEF r
<1>5. /\ r.conn[c] = x /\ r.conn[Tmp1] = h.conn[Tmp1] /\ r.conn[Tmp2] = h.conn[Tmp2]
      /\ \A d \in Conn : d # c => r.conn[d] = h.conn[d]
  BY <1>1, <1>4, Distinct DEF HeapRec
<1>6. HeldKept(r, h)
  BY <1>4, HeldSame
<1> QED
  BY <1>2, <1>3, <1>4, <1>5, <1>6 DEF Good

LEMMA ConstructGood ==
  ASSUME NEW h, Good(h), NEW c \in Conn, ~h.conn[c].alive
  PROVE  LET r == [h EXCEPT !.conn[c] = Empty] IN
         /\ Good(r) /\ r.bad = h.bad /\ r.conn[c].base = h.conn[c].base
         /\ \A d \in Conn : d # c => r.conn[d] = h.conn[d]
         /\ HeldKept(r, h)
<1> DEFINE r == [h EXCEPT !.conn[c] = Empty]
<1>1. h \in HeapRec /\ HInv(h) /\ c \in Obj /\ h.conn[c] = Unborn
  BY Distinct DEF Good, HInv, Clean, CleanAt
<1>2. /\ Empty \in ConnRec /\ Empty.top = h.conn[c].top /\ Empty.base = h.conn[c].base
      /\ Empty.bucket = h.conn[c].bucket
  BY <1>1, RecTypes
<1>3. HInv(r) /\ r.bad = h.bad /\ r.conn = [h.conn EXCEPT ![c] = Empty] /\ SameHeld(r, h)
  BY <1>1, <1>2, UnbornFacts, MemberKeeps
<1> HIDE DEF r
<1>4. /\ r.conn[c] = Empty /\ r.conn[Tmp1] = h.conn[Tmp1] /\ r.conn[Tmp2] = h.conn[Tmp2]
      /\ \A d \in Conn : d # c => r.conn[d] = h.conn[d]
  BY <1>1, <1>3, Distinct DEF HeapRec
<1>5. HeldKept(r, h)
  BY <1>3, HeldSame
<1> QED
  BY <1>2, <1>3, <1>4, <1>5 DEF Good, r

LEMMA SocketConnGood ==
  ASSUME NEW h, Good(h), NEW c \in Conn, ~h.conn[c].alive,
         NEW b \in Bev, ~h.bev[b].live, NEW f \in Fd
  PROVE  LET r == SocketCtor(h, c, b, f) IN
         /\ Good(r) /\ r.bad = h.bad /\ r.conn[c].alive /\ r.conn[c].top = b
         /\ r.conn[c].base = b /\ h.conn[c].base = NULL
         /\ \A d \in Conn : d # c => r.conn[d] = h.conn[d]
         /\ r.open = h.open \cup {f}
         /\ \A v \in SUBSET Fd : Held(h, v) /\ f \notin h.open \ v => Held(r, v \ {f})
<1> DEFINE r == SocketCtor(h, c, b, f)
<1>1. /\ HInv(r) /\ r.bad = h.bad /\ r.conn[c] = SocketConn(b) /\ r.conn[c].alive
      /\ \A d \in Obj : d # c => r.conn[d] = h.conn[d]
      /\ r.open = h.open \cup {f}
      /\ \A v \in SUBSET Fd : Held(h, v) /\ f \notin h.open \ v => Held(r, v \ {f})
  BY Distinct, SocketGood DEF Good
<1>2. SocketConn(b).top = b /\ SocketConn(b).base = b
  BY DEF SocketConn, Empty, Unborn
<1> HIDE DEF r
<1>3. h.conn[c].base = NULL
  BY Distinct, RecTypes DEF Good, HInv, Clean, CleanAt
<1> QED
  BY <1>1, <1>2, <1>3, Distinct DEF Good, r

\* A failed connect(): the second bufferevent_free is the only harm done.
LEMMA ConnectFailsGood ==
  ASSUME NEW h, Good(h), NEW c \in Conn, h.conn[c].alive, h.conn[c].top # NULL
  PROVE  LET r == Destroy(BufferEventFree(h, h.conn[c].top), c) IN
         /\ Good(r) /\ r.conn[c] = Unborn
         /\ \A d \in Conn : d # c => r.conn[d] = h.conn[d]
         /\ HeldKept(r, h)
<1> DEFINE t == h.conn[c].top
           y == [z \in Bev |-> IF z \in Chain(h, t) THEN NoBev ELSE h.bev[z]]
           u == h.filters \ {h.bev[z].filter : z \in Chain(h, t)}
           v == h.open \ {h.bev[z].fd : z \in Chain(h, t)}
           f1 == BufferEventFree(h, t)
           D == Destroy(h, c)
           r == Destroy(f1, c)
           n == [h.conn EXCEPT ![c] = Unborn]
<1>1. h \in HeapRec /\ HInv(h) /\ c \in Obj
  BY Distinct DEF Good, HInv
<1>2. t \in Bev /\ h.bev[t].live /\ t \in Own(h, c) /\ Own(h, c) = Chain(h, t)
  BY <1>1, TopsDiffer, OwnType DEF Own
<1>3. f1 = [h EXCEPT !.bev = y, !.filters = u, !.open = v]
  BY <1>2 DEF BufferEventFree
<1>4. /\ y \in [Bev -> BevRec] /\ u \in SUBSET Filter /\ v \in SUBSET Fd /\ y[t] = NoBev
      /\ n \in [Obj -> ConnRec]
  BY <1>1, <1>2, RecTypes DEF HeapRec
<1>5. D = [f1 EXCEPT !.conn[c] = Unborn]
  BY DEF Destroy
<1> HIDE DEF y, u, v, f1
<1>6. /\ f1 \in HeapRec /\ f1.conn = h.conn /\ f1.bev[t] = NoBev
  BY <1>1, <1>3, <1>4 DEF HeapRec
<1>7. BufferEventFree(f1, t) = [f1 EXCEPT !.bad = TRUE]
  <2>1. ~f1.bev[t].live
    BY <1>6, RecTypes
  <2> QED
    BY <2>1 DEF BufferEventFree
<1>8. r = [[f1 EXCEPT !.bad = TRUE] EXCEPT !.conn[c] = Unborn]
  BY <1>6, <1>7 DEF Destroy
<1>9. r = [D EXCEPT !.bad = TRUE]
  <2>1. r = [f1 EXCEPT !.bad = TRUE, !.conn = n]
    BY <1>6, <1>8 DEF HeapRec
  <2>2. D = [f1 EXCEPT !.conn = n]
    BY <1>5, <1>6 DEF HeapRec
  <2> HIDE DEF r, D, n
  <2> QED
    BY <1>4, <1>6, <2>1, <2>2 DEF HeapRec
<1>10. /\ Good(D) /\ D.conn[c] = Unborn /\ \A d \in Conn : d # c => D.conn[d] = h.conn[d]
       /\ HeldKept(D, h)
  <2>1. /\ HInv(D) /\ \A d \in Obj : d # c => D.conn[d] = h.conn[d]
        /\ D.conn[c] = Unborn /\ HeldKept(D, h)
    BY <1>1, DestroyGood
  <2> HIDE DEF D
  <2> QED
    BY <2>1, Distinct DEF Good
<1> HIDE DEF D, r
<1>11. Good([D EXCEPT !.bad = TRUE])
  <2>1. {} \in SUBSET Fd
    OBVIOUS
  <2> QED
    BY <1>10, <2>1, RestKeeps
<1>12. r.conn = D.conn /\ r.bev = D.bev /\ r.filters = D.filters /\ r.open = D.open
  BY <1>9, <1>10 DEF Good, HInv, HeapRec
<1>13. HeldKept(r, D)
  <2>1. SameHeld(r, D)
    BY <1>12 DEF SameHeld
  <2> QED
    BY <2>1, HeldSame
<1>14. HeldKept(r, h)
  BY <1>10, <1>13 DEF HeldKept
<1>15. Good(r) /\ r.conn[c] = Unborn /\ \A d \in Conn : d # c => r.conn[d] = h.conn[d]
  BY <1>9, <1>10, <1>11, <1>12
<1> QED
  BY <1>14, <1>15 DEF r, f1

LEMMA RateLimitGood ==
  ASSUME NEW h, Good(h), NEW c \in Conn, h.conn[c].alive, NEW k \in OrNull(Cfg)
  PROVE  LET r == InstallRateLimit(h, c, k) IN
         /\ Good(r) /\ r.bad = h.bad /\ r.conn[c].base = h.conn[c].base
         /\ \A d \in Conn : d # c => r.conn[d] = h.conn[d]
         /\ HeldKept(r, h)
<1> DEFINE r == InstallRateLimit(h, c, k)
<1>1. /\ HInv(r) /\ r.bad = h.bad /\ \A d \in Obj : d # c => r.conn[d] = h.conn[d]
      /\ r.conn[c].base = h.conn[c].base /\ SameHeld(r, h)
  BY Distinct, InstallRateLimitKeeps DEF Good
<1> HIDE DEF r
<1>2. HeldKept(r, h)
  BY <1>1, HeldSame
<1> QED
  BY <1>1, <1>2, Distinct DEF Good, r

LEMMA FilterGood ==
  ASSUME NEW h, Good(h), NEW c \in Conn, h.conn[c].top # NULL,
         NEW b \in Bev, ~h.bev[b].live, NEW flt \in Filter, flt \notin h.filters
  PROVE  LET r == StackFilter(h, c, b, flt) IN
         /\ Good(r) /\ r.bad = h.bad /\ r.conn[c].base = h.conn[c].base
         /\ \A d \in Conn : d # c => r.conn[d] = h.conn[d]
         /\ HeldKept(r, h)
<1> DEFINE r == StackFilter(h, c, b, flt)
<1>1. /\ HInv(r) /\ r.bad = h.bad /\ \A d \in Obj : d # c => r.conn[d] = h.conn[d]
      /\ r.conn[c].base = h.conn[c].base
      /\ r.filters = h.filters \cup {flt} /\ r.open = h.open
      /\ r.bev[b].filter = flt /\ r.bev[b].fd = NULL
      /\ \A e \in Bev : e # b => r.bev[e].filter = h.bev[e].filter /\ r.bev[e].fd = h.bev[e].fd
  BY Distinct, StackFilterKeeps DEF Good
<1> HIDE DEF r
<1>2. HeldKept(r, h)
  <2>1. h.bev[b] = NoBev
    BY DEF Good, HInv, Covered
  <2> QED
    BY <1>1, <2>1, HeldFilter
<1> QED
  BY <1>1, <1>2, Distinct DEF Good, r

LEMMA SwapGood ==
  ASSUME NEW h, Good(h), NEW a \in Conn, NEW b \in Conn, h.conn[a].alive, h.conn[b].alive
  PROVE  LET r == SwapConn(h, a, b) IN
         /\ Good(r) /\ r.bad = h.bad /\ HeldKept(r, h)
         /\ r.conn[a] = h.conn[b] /\ r.conn[b] = h.conn[a]
         /\ \A c \in Conn : c # a /\ c # b => r.conn[c] = h.conn[c]
<1> DEFINE r == SwapConn(h, a, b)
<1>1. CASE a = b
  BY <1>1 DEF SwapConn, HeldKept
<1>2. CASE a # b
  <2>1. /\ HInv(r) /\ r.bad = h.bad
        /\ r.conn = [h.conn EXCEPT ![a] = h.conn[b], ![b] = h.conn[a]]
        /\ SameHeld(r, h)
    BY <1>2, Distinct, SwapConnKeeps DEF Good
  <2> HIDE DEF r
  <2>2. h.conn \in [Obj -> ConnRec]
    BY DEF Good, HInv, HeapRec
  <2>3. /\ r.conn[Tmp1] = h.conn[Tmp1] /\ r.conn[Tmp2] = h.conn[Tmp2]
        /\ r.conn[a] = h.conn[b] /\ r.conn[b] = h.conn[a]
        /\ \A c \in Conn : c # a /\ c # b => r.conn[c] = h.conn[c]
    BY <2>1, <2>2, Distinct
  <2>4. HeldKept(r, h)
    BY <2>1, HeldSame
  <2> QED
    BY <2>1, <2>3, <2>4 DEF Good, r
<1> QED
  BY <1>1, <1>2

LEMMA MoveConstructGood ==
  ASSUME NEW h, Good(h), NEW d \in Conn, NEW s \in Conn, ~h.conn[d].alive, h.conn[s].alive
  PROVE  LET r == MoveCtor(h, d, s) IN
         /\ Good(r) /\ r.bad = h.bad /\ HeldKept(r, h)
         /\ r.conn[d] = h.conn[s] /\ r.conn[s] = Empty
         /\ \A c \in Conn : c # d /\ c # s => r.conn[c] = h.conn[c]
<1> DEFINE r == MoveCtor(h, d, s)
<1>1. d # s
  OBVIOUS
<1>2. /\ HInv(r) /\ r.bad = h.bad /\ \A c \in Obj : c # d /\ c # s => r.conn[c] = h.conn[c]
      /\ r.conn[d] = h.conn[s] /\ r.conn[s] = Empty /\ HeldKept(r, h)
  BY <1>1, Distinct, MoveGood DEF Good
<1> HIDE DEF r
<1> QED
  BY <1>2, Distinct DEF Good, r

LEMMA DestructGood ==
  ASSUME NEW h, Good(h), NEW c \in Conn
  PROVE  LET r == Destroy(h, c) IN
         /\ Good(r) /\ r.bad = h.bad /\ r.conn[c] = Unborn
         /\ \A d \in Conn : d # c => r.conn[d] = h.conn[d]
         /\ HeldKept(r, h)
<1> DEFINE r == Destroy(h, c)
<1>1. /\ HInv(r) /\ r.bad = h.bad /\ \A d \in Obj : d # c => r.conn[d] = h.conn[d]
      /\ r.conn[c] = Unborn /\ HeldKept(r, h)
  BY Distinct, DestroyGood DEF Good
<1> HIDE DEF r
<1> QED
  BY <1>1, Distinct DEF Good, r

------------------------------------------------------------------------------
(* The inductive invariant.                                                  *)

IInv ==
  /\ Good(heap)
  /\ Held(heap, fds)
  /\ fds \subseteq Fd /\ cfgs \subseteq Cfg /\ connectFailed \in BOOLEAN
  /\ heap.bad => connectFailed

LEMMA InitIInv == Init => IInv
<1> SUFFICES ASSUME Init PROVE IInv
  OBVIOUS
<1>1. /\ heap = [conn |-> [c \in Obj |-> Unborn], bev |-> [b \in Bev |-> NoBev],
                 filters |-> {}, open |-> {}, bad |-> FALSE]
      /\ fds = {} /\ cfgs = {} /\ connectFailed = FALSE
  BY DEF Init
<1>2. heap \in HeapRec
  BY <1>1, RecTypes DEF HeapRec
<1>3. heap.conn = [c \in Obj |-> Unborn] /\ heap.bev = [b \in Bev |-> NoBev] /\ ~heap.bad
  BY <1>1
<1>4. \A c \in Obj : heap.conn[c] = Unborn /\ heap.conn[c].top = NULL /\ Own(heap, c) = {}
  BY <1>3, RecTypes DEF Own
<1>5. \A b \in Bev : heap.bev[b] = NoBev /\ ~heap.bev[b].live
  BY <1>3, RecTypes
<1>6. Clean(heap) /\ Chained(heap)
  BY <1>4, RecTypes DEF Clean, CleanAt, Chained, ChainedAt
<1>7. Disjoint(heap) /\ Covered(heap)
  BY <1>4, <1>5 DEF Disjoint, Covered
<1>8. Good(heap)
  BY <1>2, <1>4, <1>6, <1>7, Distinct DEF Good, HInv
<1>9. Held(heap, fds)
  <2>1. NoBev.filter = NULL /\ NoBev.fd = NULL
    BY DEF NoBev
  <2>2. \A b \in Bev : FilterOf(heap)[b] = NULL /\ FdOf(heap)[b] = NULL
    BY <1>5, <2>1 DEF FilterOf, FdOf
  <2>3. heap.filters = {} /\ heap.open = {} /\ fds = {}
    BY <1>1
  <2> QED
    BY <2>2, <2>3 DEF Held, Accounts
<1> QED
  BY <1>1, <1>3, <1>8, <1>9 DEF IInv

\* What a step does to the sockets: nothing, or one or two connections without a socket
\* get fresh ones, one lets go of its own, or two hand theirs over with all that goes
\* with them.
Unmoved == \A c \in Conn : heap'.conn[c].base = heap.conn[c].base
Others(S) == \A c \in Conn \ S : heap'.conn[c] = heap.conn[c]
Gets(c, b) == heap.conn[c].base = NULL /\ ~heap.bev[b].live /\ heap'.conn[c].base = b
GetsOne(c, b) == Gets(c, b) /\ Others({c})
GetTwo(c, d, b, e) == c # d /\ b # e /\ Gets(c, b) /\ Gets(d, e) /\ Others({c, d})
LetsGo(c) == heap'.conn[c].base = NULL /\ Others({c})
HandsOver(d, s) ==
  d # s /\ heap'.conn[d] = heap.conn[s] /\ heap'.conn[s].base = NULL /\ Others({d, s})
Trades(a, b) ==
  heap'.conn[a] = heap.conn[b] /\ heap'.conn[b] = heap.conn[a] /\ Others({a, b})

Turn ==
  \/ Unmoved
  \/ \E c \in Conn, b \in Bev : GetsOne(c, b)
  \/ \E c, d \in Conn, b, e \in Bev : GetTwo(c, d, b, e)
  \/ \E c \in Conn : LetsGo(c)
  \/ \E d, s \in Conn : HandsOver(d, s) \/ Trades(d, s)

LEMMA IInvFacts ==
  ASSUME IInv
  PROVE  /\ Good(heap) /\ Held(heap, fds) /\ fds \in SUBSET Fd /\ cfgs \subseteq Cfg
         /\ heap \in HeapRec /\ heap.open \subseteq Fd
BY DEF IInv, Good, HInv, HeapRec

\* Most calls hand over no descriptor of the program.
LEMMA KeepsIInv ==
  ASSUME IInv, Good(heap'), HeldKept(heap', heap), heap'.bad => connectFailed',
         fds' = fds, cfgs' = cfgs, connectFailed' \in BOOLEAN
  PROVE  IInv'
BY IInvFacts DEF IInv, HeldKept

LEMMA ConstructStepIInv ==
  ASSUME IInv, ~heap.bad, ConstructStep
  PROVE  IInv' /\ Turn
<1>1. Good(heap) /\ Held(heap, fds) /\ fds \in SUBSET Fd /\ heap \in HeapRec /\ heap.open \subseteq Fd
      /\ connectFailed \in BOOLEAN
  BY IInvFacts DEF IInv
<1>2. ASSUME NEW c \in Conn, Construct(c) PROVE IInv' /\ Turn
  <2>1. /\ Good(heap') /\ heap'.bad = heap.bad /\ heap'.conn[c].base = heap.conn[c].base
        /\ \A d \in Conn : d # c => heap'.conn[d] = heap.conn[d]
        /\ HeldKept(heap', heap)
    BY <1>1, <1>2, ConstructGood DEF Construct, NewConn, Alive
  <2>2. fds' = fds /\ cfgs' = cfgs /\ connectFailed' = connectFailed
    BY <1>2 DEF Construct
  <2>3. IInv'
    BY <1>1, <2>1, <2>2, KeepsIInv
  <2> QED
    BY <2>1, <2>3 DEF Turn, Unmoved
<1>3. ASSUME NEW c \in Conn, NEW b \in Bev, NEW f \in Fd, ConstructFromFd(c, b, f)
      PROVE  IInv' /\ Turn
  <2> DEFINE r == SocketCtor(heap, c, b, f)
  <2>1. /\ ~heap.conn[c].alive /\ ~heap.bev[b].live /\ heap' = r
        /\ f \in fds /\ fds' = fds \ {f} /\ cfgs' = cfgs /\ connectFailed' = connectFailed
    BY <1>3 DEF ConstructFromFd, NewConn, Alive, FreshBev
  <2>2. /\ Good(r) /\ r.bad = heap.bad /\ r.conn[c].base = b /\ heap.conn[c].base = NULL
        /\ \A d \in Conn : d # c => r.conn[d] = heap.conn[d]
        /\ \A v \in SUBSET Fd : Held(heap, v) /\ f \notin heap.open \ v => Held(r, v \ {f})
    BY <1>1, <2>1, SocketConnGood
  <2> HIDE DEF r
  <2>3. Held(heap', fds')
    BY <1>1, <2>1, <2>2
  <2>4. GetsOne(c, b)
    BY <2>1, <2>2 DEF GetsOne, Gets, Others
  <2> QED
    BY <1>1, <2>1, <2>2, <2>3, <2>4 DEF IInv, Turn
<1>4. ASSUME NEW c \in Conn, NEW b \in Bev, NEW f \in Fd, NEW hd \in OrNull(Hdl),
             ConstructAndConnect(c, b, f, hd) \/ ConstructAndFailToConnect(c, b, f, hd)
      PROVE  IInv' /\ Turn
  <2> DEFINE s == SocketCtor(heap, c, b, f)
             r == [s EXCEPT !.conn[c].handler = hd]
  <2>1. ~heap.conn[c].alive /\ ~heap.bev[b].live /\ f \notin heap.open
    BY <1>4 DEF ConstructAndConnect, ConstructAndFailToConnect, NewConn, Alive, FreshBev, FreshFd
  <2>2. /\ Good(s) /\ s.bad = heap.bad /\ s.conn[c].alive /\ s.conn[c].top = b
        /\ s.conn[c].base = b /\ heap.conn[c].base = NULL
        /\ \A d \in Conn : d # c => s.conn[d] = heap.conn[d]
        /\ \A v \in SUBSET Fd : Held(heap, v) /\ f \notin heap.open \ v => Held(s, v \ {f})
    BY <1>1, <2>1, SocketConnGood
  <2> HIDE DEF s
  <2>3. /\ Good(r) /\ r.bad = s.bad /\ r.conn[c].top = b /\ r.conn[c].alive /\ r.conn[c].base = b
        /\ \A d \in Conn : d # c => r.conn[d] = s.conn[d]
        /\ HeldKept(r, s)
    <3>1. /\ Good(r) /\ r.bad = s.bad /\ r.conn[c].top = s.conn[c].top
          /\ r.conn[c].base = s.conn[c].base
          /\ \A d \in Conn : d # c => r.conn[d] = s.conn[d]
          /\ HeldKept(r, s)
      BY <2>2, HandlerGood
    <3> HIDE DEF r
    <3>2. r.conn[c].alive
      BY <2>2, <3>1, NullNotBev, RecTypes, Distinct DEF Good, HInv, Clean, CleanAt
    <3> QED
      BY <2>2, <3>1, <3>2
  <2>4. Held(r, fds)
    <3>1. fds \ {f} = fds
      BY <1>1, <2>1 DEF Held
    <3>2. Held(s, fds)
      BY <1>1, <2>1, <2>2, <3>1
    <3> QED
      BY <1>1, <2>3, <3>2 DEF HeldKept
  <2>5. CASE ConstructAndConnect(c, b, f, hd)
    <3>1. heap' = r /\ fds' = fds /\ cfgs' = cfgs /\ connectFailed' = connectFailed
      BY <2>5 DEF ConstructAndConnect, s
    <3> HIDE DEF r
    <3>2. GetsOne(c, b)
      BY <2>1, <2>2, <2>3, <3>1 DEF GetsOne, Gets, Others
    <3> QED
      BY <1>1, <2>2, <2>3, <2>4, <3>1, <3>2 DEF IInv, Turn
  <2>6. CASE ConstructAndFailToConnect(c, b, f, hd)
    <3>1. /\ heap' = Destroy(BufferEventFree(r, r.conn[c].top), c)
          /\ fds' = fds /\ cfgs' = cfgs /\ connectFailed' = TRUE
      BY <2>6 DEF ConstructAndFailToConnect, s
    <3> HIDE DEF r
    <3>2. /\ Good(heap') /\ heap'.conn[c] = Unborn /\ HeldKept(heap', r)
          /\ \A d \in Conn : d # c => heap'.conn[d] = r.conn[d]
      BY <2>3, <3>1, NullNotBev, ConnectFailsGood
    <3>3. Held(heap', fds')
      BY <1>1, <2>4, <3>1, <3>2 DEF HeldKept
    <3>4. LetsGo(c)
      BY <2>2, <2>3, <3>2, RecTypes DEF LetsGo, Others
    <3> QED
      BY <1>1, <3>1, <3>2, <3>3, <3>4 DEF IInv, Turn
  <2> QED
    BY <1>4, <2>5, <2>6
<1>5. ASSUME NEW p \in Conn, NEW q \in Conn, NEW b1 \in Bev, NEW b2 \in Bev,
             NEW f \in Fd, NEW g \in Fd, CreatePair(p, q, b1, b2, f, g)
      PROVE  IInv' /\ Turn
  <2> DEFINE o == heap.open \cup {f, g}
             h == [heap EXCEPT !.open = o]
  <2>1. /\ p # q /\ ~heap.conn[p].alive /\ ~heap.conn[q].alive
        /\ b1 # b2 /\ ~heap.bev[b1].live /\ ~heap.bev[b2].live
        /\ f # g /\ {f, g} \cap heap.open = {}
        /\ heap' = BuiltPair(h, p, q, b1, b2, f, g)
        /\ fds' = fds /\ cfgs' = cfgs /\ connectFailed' = connectFailed
    BY <1>5 DEF CreatePair, NewConn, Alive, FreshBev, FreshFd
  <2>2. Held(h, fds \cup {f, g})
    BY <1>1, <2>1, HeldOpen
  <2>3. o \in SUBSET Fd
    BY <1>1
  <2> HIDE DEF o
  <2>4. Good(h) /\ h.bad = heap.bad /\ h.conn = heap.conn /\ h.bev = heap.bev
    BY <1>1, <2>3, RestKeeps DEF Good, HInv, HeapRec
  <2> HIDE DEF h
  <2>5. /\ Good(heap') /\ heap'.bad = h.bad
        /\ heap'.conn[p] = SocketConn(b1) /\ heap'.conn[q] = SocketConn(b2)
        /\ \A c \in Conn : c # p /\ c # q => heap'.conn[c] = h.conn[c]
        /\ \A v \in SUBSET Fd : Held(h, v) /\ f \in v /\ g \in v => Held(heap', (v \ {f}) \ {g})
    BY <2>1, <2>4, PairGood
  <2>6. Held(heap', fds')
    <3>1. ((fds \cup {f, g}) \ {f}) \ {g} = fds /\ fds \cup {f, g} \in SUBSET Fd
      BY <1>1, <2>1 DEF Held
    <3> QED
      BY <2>1, <2>2, <2>5, <3>1
  <2>7. GetTwo(p, q, b1, b2)
    <3>1. SocketConn(b1).base = b1 /\ SocketConn(b2).base = b2
      BY DEF SocketConn, Empty, Unborn
    <3>2. heap.conn[p].base = NULL /\ heap.conn[q].base = NULL
      BY <1>1, <2>1, Distinct, RecTypes DEF Good, HInv, Clean, CleanAt
    <3> QED
      BY <2>1, <2>4, <2>5, <3>1, <3>2 DEF GetTwo, Gets, Others
  <2> QED
    BY <1>1, <2>1, <2>4, <2>5, <2>6, <2>7 DEF IInv, Turn
<1>6. ASSUME NEW b \in Bev, NEW f \in Fd, NEW g \in Fd, CreatePairThrows(b, f, g)
      PROVE  IInv' /\ Turn
  <2> DEFINE o == heap.open \cup {f, g}
             h == [heap EXCEPT !.open = o]
             q == Destroy(SocketCtor(h, Tmp1, b, f), Tmp1)
             v == fds \cup {f, g}
  <2>1. /\ ~heap.bev[b].live /\ f # g /\ {f, g} \cap heap.open = {}
        /\ \/ heap' = CloseSocket(CloseSocket(h, g), f)
           \/ heap' = CloseSocket(q, g)
        /\ fds' = fds /\ cfgs' = cfgs /\ connectFailed' = connectFailed
    BY <1>6 DEF CreatePairThrows, FreshBev, FreshFd
  <2>2. Held(h, v)
    BY <1>1, <2>1, HeldOpen
  <2>3. o \in SUBSET Fd
    BY <1>1
  <2>4. /\ v \in SUBSET Fd /\ f \in v /\ g \in v /\ g \in v \ {f} /\ f \in v \ {g}
        /\ (v \ {f}) \ {g} = fds /\ (v \ {g}) \ {f} = fds
    BY <1>1, <2>1 DEF Held
  <2> HIDE DEF o, v
  <2>5. Good(h) /\ h.bad = heap.bad /\ h.bev = heap.bev /\ h.conn = heap.conn
    BY <1>1, <2>3, RestKeeps DEF Good, HInv, HeapRec
  <2> HIDE DEF h
  <2>6. /\ Good(q) /\ q.bad = h.bad /\ \A c \in Conn : q.conn[c] = h.conn[c]
        /\ Held(q, v \ {f})
    BY <2>1, <2>2, <2>4, <2>5, PairThrowsGood
  <2> HIDE DEF q
  <2>7. /\ Good(heap') /\ heap'.bad = heap.bad
        /\ \A c \in Conn : heap'.conn[c] = heap.conn[c]
        /\ Held(heap', fds)
    <3>1. CASE heap' = CloseSocket(CloseSocket(h, g), f)
      <4> DEFINE k == CloseSocket(h, g)
      <4>1. Good(k) /\ k.bad = h.bad /\ k.conn = h.conn
        BY <2>5, CloseSocketGood
      <4>2. Held(k, v \ {g})
        BY <2>2, <2>4, <2>5, HeldClose DEF Good, HInv
      <4> HIDE DEF k
      <4>3. /\ Good(CloseSocket(k, f)) /\ CloseSocket(k, f).bad = k.bad
            /\ CloseSocket(k, f).conn = k.conn
        BY <4>1, CloseSocketGood
      <4>4. Held(CloseSocket(k, f), (v \ {g}) \ {f})
        BY <2>4, <4>1, <4>2, HeldClose DEF Good, HInv
      <4> QED
        BY <2>4, <2>5, <3>1, <4>1, <4>3, <4>4 DEF k
    <3>2. CASE heap' = CloseSocket(q, g)
      <4>1. /\ Good(CloseSocket(q, g)) /\ CloseSocket(q, g).bad = q.bad
            /\ CloseSocket(q, g).conn = q.conn
        BY <2>6, CloseSocketGood
      <4>2. Held(CloseSocket(q, g), (v \ {f}) \ {g})
        BY <2>4, <2>6, HeldClose DEF Good, HInv
      <4> QED
        BY <2>4, <2>5, <2>6, <3>2, <4>1, <4>2
    <3> QED
      BY <2>1, <3>1, <3>2
  <2> QED
    BY <1>1, <2>1, <2>7 DEF IInv, Turn, Unmoved
<1> QED
  BY <1>2, <1>3, <1>4, <1>5, <1>6 DEF ConstructStep

LEMMA HandOverStepIInv ==
  ASSUME IInv, ~heap.bad, HandOverStep
  PROVE  IInv' /\ Turn
<1>1. Good(heap) /\ connectFailed \in BOOLEAN
  BY DEF IInv
<1>2. fds' = fds /\ cfgs' = cfgs /\ connectFailed' = connectFailed
  BY DEF HandOverStep, Destruct, Close, MoveConstruct, MoveAssign, Swap
<1>3. ASSUME Good(heap'), heap'.bad = heap.bad, HeldKept(heap', heap)
      PROVE  IInv'
  BY <1>1, <1>2, <1>3, KeepsIInv
<1>4. ASSUME NEW c \in Conn, Destruct(c) PROVE IInv' /\ Turn
  <2>1. /\ Good(heap') /\ heap'.bad = heap.bad /\ heap'.conn[c] = Unborn
        /\ \A d \in Conn : d # c => heap'.conn[d] = heap.conn[d]
        /\ HeldKept(heap', heap)
    BY <1>1, <1>4, DestructGood DEF Destruct
  <2>2. LetsGo(c)
    BY <2>1, RecTypes DEF LetsGo, Others
  <2> QED
    BY <1>3, <2>1, <2>2 DEF Turn
<1>5. ASSUME NEW c \in Conn, Close(c) PROVE IInv' /\ Turn
  <2>1. /\ Good(heap') /\ heap'.bad = heap.bad /\ heap'.conn[c] = Empty
        /\ \A d \in Conn : d # c => heap'.conn[d] = heap.conn[d]
        /\ HeldKept(heap', heap)
    BY <1>1, <1>5, CloseGood DEF Close, UsedConn, Alive
  <2>2. LetsGo(c)
    BY <2>1, RecTypes DEF LetsGo, Others
  <2> QED
    BY <1>3, <2>1, <2>2 DEF Turn
<1>6. ASSUME NEW d \in Conn, NEW s \in Conn, MoveConstruct(d, s) PROVE IInv' /\ Turn
  <2>1. /\ Good(heap') /\ heap'.bad = heap.bad /\ HeldKept(heap', heap)
        /\ heap'.conn[d] = heap.conn[s] /\ heap'.conn[s] = Empty
        /\ \A c \in Conn : c # d /\ c # s => heap'.conn[c] = heap.conn[c]
    BY <1>1, <1>6, MoveConstructGood DEF MoveConstruct, NewConn, UsedConn, Alive
  <2>2. d # s
    BY <1>6 DEF MoveConstruct, NewConn, UsedConn
  <2>3. HandsOver(d, s)
    BY <2>1, <2>2, RecTypes DEF HandsOver, Others
  <2> QED
    BY <1>3, <2>1, <2>3 DEF Turn
<1>7. ASSUME NEW d \in Conn, NEW s \in Conn, MoveAssign(d, s) PROVE IInv' /\ Turn
  <2>1. /\ Good(heap') /\ heap'.bad = heap.bad /\ HeldKept(heap', heap)
        /\ d = s => heap' = heap
        /\ d # s => /\ heap'.conn[d] = heap.conn[s] /\ heap'.conn[s] = Empty
                    /\ \A c \in Conn : c # d /\ c # s => heap'.conn[c] = heap.conn[c]
    BY <1>1, <1>7, AssignGood DEF MoveAssign, UsedConn, Alive
  <2>2. d = s => Unmoved
    BY <2>1 DEF Unmoved
  <2>3. d # s => HandsOver(d, s)
    BY <2>1, RecTypes DEF HandsOver, Others
  <2> QED
    BY <1>3, <2>1, <2>2, <2>3 DEF Turn
<1>8. ASSUME NEW a \in Conn, NEW b \in Conn, Swap(a, b) PROVE IInv' /\ Turn
  <2>1. /\ Good(heap') /\ heap'.bad = heap.bad /\ HeldKept(heap', heap)
        /\ heap'.conn[a] = heap.conn[b] /\ heap'.conn[b] = heap.conn[a]
        /\ \A c \in Conn : c # a /\ c # b => heap'.conn[c] = heap.conn[c]
    BY <1>1, <1>8, SwapGood DEF Swap, UsedConn, Alive
  <2>2. Trades(a, b)
    BY <2>1 DEF Trades, Others
  <2> QED
    BY <1>3, <2>1, <2>2 DEF Turn
<1> QED
  BY <1>4, <1>5, <1>6, <1>7, <1>8 DEF HandOverStep

LEMMA ConfigureStepIInv ==
  ASSUME IInv, ~heap.bad, ConfigureStep
  PROVE  IInv' /\ Turn
<1>1. Good(heap) /\ cfgs \subseteq Cfg /\ connectFailed \in BOOLEAN
  BY DEF IInv
<1>2. fds' = fds /\ cfgs' = cfgs /\ connectFailed' = connectFailed
  BY DEF ConfigureStep, AppendFilter, AppendFilterThrows, SetRateLimit, ResetRateLimit, SetEventHandler, SetExtraData
<1>3. ASSUME NEW c \in Conn, Good(heap'), heap'.bad = heap.bad, HeldKept(heap', heap),
             heap'.conn[c].base = heap.conn[c].base,
             \A d \in Conn : d # c => heap'.conn[d] = heap.conn[d]
      PROVE  IInv' /\ Turn
  <2>1. IInv'
    BY <1>1, <1>2, <1>3, KeepsIInv
  <2> QED
    BY <1>3, <2>1 DEF Turn, Unmoved
<1>4. ASSUME NEW c \in Conn, NEW b \in Bev, NEW flt \in Filter, AppendFilter(c, b, flt)
      PROVE  IInv' /\ Turn
  BY <1>1, <1>3, <1>4, FilterGood DEF AppendFilter, FreshBev
<1>5. ASSUME NEW c \in Conn, NEW k \in Cfg, SetRateLimit(c, k) PROVE IInv' /\ Turn
  BY <1>1, <1>3, <1>5, RateLimitGood DEF SetRateLimit, UsedConn, Alive, OrNull
<1>6. ASSUME NEW c \in Conn, ResetRateLimit(c) PROVE IInv' /\ Turn
  BY <1>1, <1>3, <1>6, RateLimitGood DEF ResetRateLimit, UsedConn, Alive, OrNull
<1>7. ASSUME NEW c \in Conn, NEW hd \in Hdl, SetEventHandler(c, hd) PROVE IInv' /\ Turn
  <2>1. heap.conn[c].alive /\ heap' = [heap EXCEPT !.conn[c].handler = hd] /\ hd \in OrNull(Hdl)
    BY <1>7 DEF SetEventHandler, UsedConn, Alive, OrNull
  <2>2. /\ Good(heap') /\ heap'.bad = heap.bad /\ heap'.conn[c].base = heap.conn[c].base
        /\ \A d \in Conn : d # c => heap'.conn[d] = heap.conn[d]
        /\ HeldKept(heap', heap)
    BY <1>1, <2>1, HandlerGood
  <2> QED
    BY <1>3, <2>2
<1>8. ASSUME NEW c \in Conn, NEW e \in OrNull(Extra), SetExtraData(c, e) PROVE IInv' /\ Turn
  <2>1. heap.conn[c].alive /\ heap' = [heap EXCEPT !.conn[c].extra = e]
    BY <1>8 DEF SetExtraData, UsedConn, Alive
  <2>2. /\ Good(heap') /\ heap'.bad = heap.bad /\ heap'.conn[c].base = heap.conn[c].base
        /\ \A d \in Conn : d # c => heap'.conn[d] = heap.conn[d]
        /\ HeldKept(heap', heap)
    BY <1>1, <2>1, ExtraGood
  <2> QED
    BY <1>3, <2>2
<1>9. ASSUME NEW c \in Conn, NEW flt \in Filter, AppendFilterThrows(c, flt) PROVE IInv' /\ Turn
  <2>1. heap \in HeapRec /\ heap.filters \in SUBSET Filter /\ flt \notin heap.filters
    BY <1>1, <1>9, IInvFacts DEF AppendFilterThrows, HeapRec
  <2>2. heap' = heap
    <3>1. (heap.filters \cup {flt}) \ {flt} = heap.filters
      BY <2>1
    <3>2. heap' = [heap EXCEPT !.filters = (heap.filters \cup {flt}) \ {flt}]
      BY <1>9, <2>1 DEF AppendFilterThrows, HeapRec
    <3> QED
      BY <2>1, <3>1, <3>2 DEF HeapRec
  <2> QED
    BY <1>2, <2>2 DEF IInv, Turn, Unmoved
<1> QED
  BY <1>4, <1>5, <1>6, <1>7, <1>8, <1>9 DEF ConfigureStep

LEMMA ProgramStepIInv ==
  ASSUME IInv, ~heap.bad, ProgramStep
  PROVE  IInv' /\ Turn
<1>1. Good(heap) /\ Held(heap, fds) /\ fds \in SUBSET Fd /\ heap \in HeapRec /\ heap.open \subseteq Fd
      /\ connectFailed \in BOOLEAN /\ cfgs \subseteq Cfg
  BY IInvFacts DEF IInv
<1>2. ASSUME NEW f \in Fd, TakeFd(f) PROVE IInv' /\ Turn
  <2> DEFINE o == heap.open \cup {f}
  <2>1. /\ o \in SUBSET Fd /\ heap' = [heap EXCEPT !.open = o] /\ {f} \cap heap.open = {}
        /\ fds' = fds \cup {f} /\ cfgs' = cfgs /\ connectFailed' = connectFailed
    BY <1>1, <1>2 DEF TakeFd, FreshFd
  <2>2. Held(heap', fds')
    BY <1>1, <2>1, HeldOpen
  <2> HIDE DEF o
  <2>3. Good(heap') /\ heap'.bad = heap.bad /\ heap'.conn = heap.conn
    BY <1>1, <2>1, RestKeeps DEF HeapRec
  <2> QED
    BY <1>1, <2>1, <2>2, <2>3 DEF IInv, Turn, Unmoved
<1>3. ASSUME NEW f \in Fd, FileDescriptorClose(f) PROVE IInv' /\ Turn
  <2>1. /\ heap' = CloseSocket(heap, f) /\ f \in fds /\ fds' = fds \ {f}
        /\ cfgs' = cfgs /\ connectFailed' = connectFailed
    BY <1>3 DEF FileDescriptorClose
  <2>2. Held(heap', fds')
    BY <1>1, <2>1, HeldClose
  <2>3. Good(heap') /\ heap'.bad = heap.bad /\ heap'.conn = heap.conn
    BY <1>1, <2>1, CloseSocketGood
  <2> QED
    BY <1>1, <2>1, <2>2, <2>3 DEF IInv, Turn, Unmoved
<1>4. ASSUME NEW k \in Cfg, CreateCfg(k) \/ ReleaseCfg(k) PROVE IInv' /\ Turn
  BY <1>4 DEF IInv, CreateCfg, ReleaseCfg, Turn, Unmoved
<1> QED
  BY <1>2, <1>3, <1>4 DEF ProgramStep

LEMMA NextIInv ==
  ASSUME IInv, Next
  PROVE  IInv' /\ Turn
BY ConstructStepIInv, HandOverStepIInv, ConfigureStepIInv, ProgramStepIInv DEF Next

LEMMA SpecIInv == Spec => []IInv
<1>1. IInv /\ [Next]_vars => IInv'
  <2> SUFFICES ASSUME IInv, [Next]_vars PROVE IInv'
    OBVIOUS
  <2>1. CASE Next
    BY <2>1, NextIInv
  <2>2. CASE UNCHANGED vars
    BY <2>2 DEF vars, IInv
  <2> QED
    BY <2>1, <2>2
<1> QED
  BY InitIInv, <1>1, PTL DEF Spec

------------------------------------------------------------------------------
(* What follows from it.                                                     *)

LEMMA IInvTypeOK == IInv => TypeOK
<1> SUFFICES ASSUME IInv PROVE TypeOK
  OBVIOUS
<1>1. heap \in HeapRec /\ Clean(heap)
  BY DEF IInv, Good, HInv
<1>2. /\ heap.conn \in [Obj -> ConnRec] /\ heap.bev \in [Bev -> BevRec]
      /\ heap.filters \subseteq Filter /\ heap.open \subseteq Fd /\ heap.bad \in BOOLEAN
  BY <1>1 DEF HeapRec
<1>3. \A c \in Obj : c \in {Tmp1, Tmp2} \/ ~Alive(heap, c) => heap.conn[c] = Unborn
  BY <1>1 DEF IInv, Good, Clean, CleanAt, Alive
<1> QED
  BY <1>2, <1>3 DEF TypeOK, IInv

LEMMA IInvCallbacks == IInv => CallbacksReachOwner
BY DEF IInv, Good, HInv, Chained, ChainedAt, CallbacksReachOwner

LEMMA IInvOneOwner == IInv => OneOwner
<1> SUFFICES ASSUME IInv PROVE OneOwner
  OBVIOUS
<1>1. HInv(heap) /\ heap \in HeapRec
  BY DEF IInv, Good, HInv
<1>2. \A c \in Obj : Owned(c) = Own(heap, c) /\ Owned(c) \subseteq Bev
  BY <1>1, OwnType DEF Owned, Own
<1>3. \A c \in Obj : \A b \in Owned(c) : heap.bev[b].live
  BY <1>1, <1>2 DEF HInv, Chained, ChainedAt, Own
<1>4. \A b \in Bev : heap.bev[b].live => \E c \in Obj : b \in Owned(c)
  BY <1>1, <1>2 DEF HInv, Covered
<1>5. LiveBev = UNION {Owned(c) : c \in Obj}
  BY <1>2, <1>3, <1>4 DEF LiveBev
<1>6. \A c, d \in Obj : c # d => Owned(c) \cap Owned(d) = {}
  BY <1>1, <1>2 DEF HInv, Disjoint
<1>7. \A c \in Obj : IF heap.conn[c].top = NULL THEN heap.conn[c].base = NULL
                     ELSE /\ heap.conn[c].base \in Owned(c)
                          /\ heap.bev[heap.conn[c].base].below = {}
  BY <1>1, <1>2 DEF HInv, Clean, CleanAt, Chained, ChainedAt
<1> QED
  BY <1>5, <1>6, <1>7 DEF OneOwner

LEMMA IInvRateLimit == IInv => RateLimitCfgAlive
<1> SUFFICES ASSUME IInv, NEW b \in LiveBev, heap.bev[b].cfg # NULL
             PROVE  CfgAlive(heap.bev[b].cfg)
  BY DEF RateLimitCfgAlive
<1>1. HInv(heap) /\ b \in Bev /\ heap.bev[b].live
  BY DEF IInv, Good, LiveBev
<1>2. PICK c \in Obj : b \in Own(heap, c)
  BY <1>1 DEF HInv, Covered
<1>3. heap.conn[c].top # NULL
  BY <1>2 DEF Own
<1>4. heap.bev[b].cfg = heap.conn[c].bucket
  BY <1>1, <1>2, <1>3 DEF HInv, Chained, ChainedAt
<1> QED
  BY <1>4 DEF CfgAlive

\* Every variable keeps its type, and outside the library's own functions no
\* temporary connection and no storage of a destroyed one holds anything.
THEOREM TypeCorrect == Spec => []TypeOK
BY SpecIInv, IInvTypeOK, PTL

\* Through any sequence of moves, swaps, closes and filters, the callbacks on
\* top of a connection's chain carry the address of that connection.
THEOREM CallbacksCorrect == Spec => []CallbacksReachOwner
BY SpecIInv, IInvCallbacks, PTL

\* The live bufferevents are partitioned among the connections, each chain
\* ending in the socket its owner calls m_base_bev.
THEOREM OwnershipCorrect == Spec => []OneOwner
BY SpecIInv, IInvOneOwner, PTL

\* An installed rate limit is kept alive by the connection it limits.
THEOREM RateLimitCorrect == Spec => []RateLimitCfgAlive
BY SpecIInv, IInvRateLimit, PTL

\* A bufferevent is freed twice only after a failed connect().
THEOREM DoubleFreeConfined == Spec => []DoubleFreeOnlyOnConnect
<1>1. IInv => DoubleFreeOnlyOnConnect
  BY DEF IInv, DoubleFreeOnlyOnConnect
<1> QED
  BY SpecIInv, <1>1, PTL

------------------------------------------------------------------------------
(* Filters and descriptors, the data that travels, and HandleOwnership.       *)

LEMMA IInvHeldOnce == IInv => HeldOnce
<1> SUFFICES ASSUME IInv PROVE HeldOnce
  OBVIOUS
<1> DEFINE owned == {heap.bev[b].fd : b \in LiveBev} \ {NULL}
           kept == {heap.bev[b].filter : b \in LiveBev} \ {NULL}
<1>1. Held(heap, fds) /\ fds \subseteq Fd
  BY DEF IInv
<1>2. NoBev.filter = NULL /\ NoBev.fd = NULL
  BY DEF NoBev
<1>3. \A b \in Bev : b \notin LiveBev => heap.bev[b].filter = NULL /\ heap.bev[b].fd = NULL
  BY <1>2 DEF IInv, Good, HInv, Covered, LiveBev
<1>4. LiveBev \subseteq Bev
  BY DEF LiveBev
<1>5. \A b \in Bev : FilterOf(heap)[b] = heap.bev[b].filter /\ FdOf(heap)[b] = heap.bev[b].fd
  BY DEF FilterOf, FdOf
<1>6. heap.filters = kept
  <2>1. heap.filters = {FilterOf(heap)[b] : b \in Bev} \ {NULL}
    BY <1>1 DEF Held, Accounts
  <2> QED
    BY <1>3, <1>4, <1>5, <2>1
<1>7. heap.open \ fds = owned
  <2>1. heap.open \ fds = {FdOf(heap)[b] : b \in Bev} \ {NULL}
    BY <1>1 DEF Held, Accounts
  <2> QED
    BY <1>3, <1>4, <1>5, <2>1
<1>8. heap.open = fds \cup owned /\ fds \cap owned = {}
  BY <1>1, <1>7 DEF Held
<1>9. ASSUME NEW b \in LiveBev, NEW e \in LiveBev, b # e
      PROVE  /\ heap.bev[b].filter # NULL => heap.bev[b].filter # heap.bev[e].filter
             /\ heap.bev[b].fd # NULL => heap.bev[b].fd # heap.bev[e].fd
  BY <1>1, <1>4, <1>5, <1>9 DEF Held, Accounts
<1> QED
  BY <1>6, <1>8, <1>9 DEF HeldOnce

\* Different connections have different sockets, all of them live.
LEMMA BasesDiffer ==
  ASSUME IInv
  PROVE  /\ \A c \in Conn : heap.conn[c].base = NULL <=> heap.conn[c].top = NULL
         /\ \A c \in Conn : heap.conn[c].base # NULL =>
              heap.conn[c].base \in Bev /\ heap.bev[heap.conn[c].base].live
         /\ \A c, d \in Conn : c # d /\ heap.conn[c].base # NULL =>
              heap.conn[d].base # heap.conn[c].base
<1>1. HInv(heap) /\ heap \in HeapRec
  BY IInvFacts DEF Good
<1>2. ASSUME NEW c \in Conn
      PROVE  /\ heap.conn[c].top = NULL => heap.conn[c].base = NULL
             /\ heap.conn[c].top # NULL => /\ heap.conn[c].base \in Own(heap, c)
                                           /\ heap.conn[c].base \in Bev
                                           /\ heap.bev[heap.conn[c].base].live
  <2>1. c \in Obj
    BY Distinct
  <2>2. Own(heap, c) \subseteq Bev
    BY <1>1, <2>1, OwnType
  <2> QED
    BY <1>1, <2>1, <2>2 DEF HInv, Clean, CleanAt, Chained, ChainedAt
<1>3. \A c \in Conn : heap.conn[c].base = NULL <=> heap.conn[c].top = NULL
  BY <1>2, NullNotBev
<1>4. ASSUME NEW c \in Conn, NEW d \in Conn, c # d, heap.conn[c].base # NULL
      PROVE  heap.conn[d].base # heap.conn[c].base
  <2>1. Own(heap, c) \cap Own(heap, d) = {}
    BY <1>1, <1>4, Distinct DEF HInv, Disjoint
  <2> QED
    BY <1>2, <1>3, <1>4, <2>1
<1> QED
  BY <1>2, <1>3, <1>4

\* A socket that has changed hands was handed over or traded, with all five members.
LEMMA TurnCarries ==
  ASSUME IInv, Turn, NEW c \in Conn, NEW d \in Conn, c # d,
         heap.conn[c].base # NULL, heap'.conn[d].base = heap.conn[c].base
  PROVE  heap'.conn[d] = heap.conn[c]
<1>1. \A x \in Conn : heap.conn[x].base = heap.conn[c].base => x = c
  BY BasesDiffer
<1>2. heap'.conn[d].base # heap.conn[d].base /\ heap'.conn[d] # heap.conn[d]
  BY <1>1
<1>3. ~Unmoved
  BY <1>2 DEF Unmoved
<1>4. \A x \in Conn, b \in Bev : ~GetsOne(x, b)
  BY <1>2, BasesDiffer DEF GetsOne, Gets, Others
<1>5. \A x, y \in Conn, b, e \in Bev : ~GetTwo(x, y, b, e)
  BY <1>2, BasesDiffer DEF GetTwo, Gets, Others
<1>6. \A x \in Conn : ~LetsGo(x)
  BY <1>2 DEF LetsGo, Others
<1>7. ASSUME NEW x \in Conn, NEW y \in Conn, HandsOver(x, y)
      PROVE  heap'.conn[d] = heap.conn[c]
  <2>1. d = x
    BY <1>2, <1>7 DEF HandsOver, Others
  <2>2. heap'.conn[d] = heap.conn[y]
    BY <1>7, <2>1 DEF HandsOver
  <2> QED
    BY <1>1, <2>2
<1>8. ASSUME NEW x \in Conn, NEW y \in Conn, Trades(x, y)
      PROVE  heap'.conn[d] = heap.conn[c]
  <2>1. PICK z \in Conn : heap'.conn[d] = heap.conn[z]
    BY <1>2, <1>8 DEF Trades, Others
  <2> QED
    BY <1>1, <2>1
<1> QED
  BY <1>3, <1>4, <1>5, <1>6, <1>7, <1>8 DEF Turn

\* In every state an event is reported to the connection that holds the socket.
LEMMA SinkIsHolder ==
  ASSUME NEW h, HInv(h), NEW c \in Conn
  PROVE  (IF h.conn[c].top = NULL THEN NULL ELSE h.bev[h.conn[c].top].ctx)
           = IF h.conn[c].base = NULL THEN NULL ELSE c
<1>1. c \in Obj /\ h \in HeapRec
  BY Distinct DEF HInv
<1>2. h.conn[c].base = NULL <=> h.conn[c].top = NULL
  BY <1>1, OwnType, NullNotBev DEF HInv, Clean, CleanAt, Chained, ChainedAt
<1> QED
  BY <1>1, <1>2 DEF HInv, Chained, ChainedAt

LEMMA InitAbs == Init => Abs!Init
<1> SUFFICES ASSUME Init PROVE Abs!Init
  OBVIOUS
<1>1. \A c \in Conn : heap.conn[c].base = NULL /\ heap.conn[c].top = NULL
  BY RecTypes, Distinct DEF Init
<1> QED
  BY <1>1 DEF Abs!Init

LEMMA StepAbs == IInv /\ IInv' /\ [Next]_vars => [Abs!Next]_(Abs!vars)
<1> SUFFICES ASSUME IInv, IInv', [Next]_vars PROVE [Abs!Next]_(Abs!vars)
  OBVIOUS
<1> DEFINE Holds == [c \in Conn |-> heap.conn[c].base]
<1>1. Abs!Reported
  BY SinkIsHolder DEF IInv, Good, Abs!Reported
<1>2. ASSUME Unmoved PROVE UNCHANGED Abs!vars
  <2>1. Holds' = Holds
    BY <1>2 DEF Unmoved
  <2>2. \A c \in Conn :
          (IF heap'.conn[c].top = NULL THEN NULL ELSE heap'.bev[heap'.conn[c].top].ctx)
            = IF heap.conn[c].top = NULL THEN NULL ELSE heap.bev[heap.conn[c].top].ctx
    BY <1>2, SinkIsHolder DEF Unmoved, IInv, Good
  <2> QED
    BY <2>1, <2>2 DEF Abs!vars
<1>3. \A c \in Conn, b \in Bev : Gets(c, b) => Holds[c] = NULL /\ b \notin Abs!Held
  <2>1. \A c, d \in Conn, b \in Bev : Gets(c, b) => heap.conn[d].base # b
    BY BasesDiffer, NullNotBev DEF Gets
  <2> QED
    BY <2>1 DEF Gets, Abs!Held
<1>4. ASSUME NEW c \in Conn, NEW b \in Bev, GetsOne(c, b) PROVE Abs!Acquire(c, b)
  <2>1. \A x \in Conn : heap'.conn[x].base = IF x = c THEN b ELSE heap.conn[x].base
    BY <1>4 DEF GetsOne, Gets, Others
  <2>2. Holds' = [Holds EXCEPT ![c] = b]
    BY <2>1
  <2> QED
    BY <1>1, <1>3, <1>4, <2>2 DEF GetsOne, Abs!Acquire
<1>5. ASSUME NEW c \in Conn, NEW d \in Conn, NEW b \in Bev, NEW e \in Bev, GetTwo(c, d, b, e)
      PROVE  Abs!AcquirePair(c, d, b, e)
  <2>1. c # d /\ \A x \in Conn : heap'.conn[x].base = IF x = c THEN b
                                                      ELSE IF x = d THEN e ELSE heap.conn[x].base
    BY <1>5 DEF GetTwo, Gets, Others
  <2>2. Holds' = [Holds EXCEPT ![c] = b, ![d] = e]
    BY <2>1
  <2> QED
    BY <1>1, <1>3, <1>5, <2>2 DEF GetTwo, Abs!AcquirePair
<1>6. ASSUME NEW c \in Conn, LetsGo(c) PROVE Abs!Release(c)
  <2>1. \A x \in Conn : heap'.conn[x].base = IF x = c THEN NULL ELSE heap.conn[x].base
    BY <1>6 DEF LetsGo, Others
  <2>2. Holds' = [Holds EXCEPT ![c] = NULL]
    BY <2>1
  <2> QED
    BY <1>1, <2>2 DEF Abs!Release
<1>7. ASSUME NEW d \in Conn, NEW s \in Conn, HandsOver(d, s) PROVE Abs!Transfer(d, s)
  <2>1. d # s /\ \A x \in Conn : heap'.conn[x].base = IF x = d THEN heap.conn[s].base
                                                      ELSE IF x = s THEN NULL ELSE heap.conn[x].base
    BY <1>7 DEF HandsOver, Others
  <2>2. Holds' = [Holds EXCEPT ![d] = Holds[s], ![s] = NULL]
    BY <2>1
  <2> QED
    BY <1>1, <2>1, <2>2 DEF Abs!Transfer
<1>8. ASSUME NEW a \in Conn, NEW b \in Conn, Trades(a, b) PROVE Abs!Exchange(a, b)
  <2>1. \A x \in Conn : heap'.conn[x].base = IF x = a THEN heap.conn[b].base
                                             ELSE IF x = b THEN heap.conn[a].base ELSE heap.conn[x].base
    BY <1>8 DEF Trades, Others
  <2>2. Holds' = [Holds EXCEPT ![a] = Holds[b], ![b] = Holds[a]]
    BY <2>1
  <2> QED
    BY <1>1, <2>2 DEF Abs!Exchange
<1>9. Next => Turn
  BY NextIInv
<1>10. UNCHANGED vars => Unmoved
  BY DEF vars, Unmoved
<1> QED
  BY <1>2, <1>4, <1>5, <1>6, <1>7, <1>8, <1>9, <1>10 DEF Turn, Abs!Next

\* Every filter handler and every open descriptor has one owner: no constructor, close,
\* failing append_filter or throwing path of create_pair leaks or shares either.
THEOREM HeldByOne == Spec => []HeldOnce
BY SpecIInv, IInvHeldOnce, PTL

\* Whoever receives a socket receives the filters above it, its rate limit, its handler
\* and its extra data in the same step.
THEOREM PayloadGoesAlong == Spec => PayloadTravels
<1>1. IInv /\ [Next]_vars =>
        [\A c, d \in Conn :
           c # d /\ heap.conn[c].base # NULL /\ heap'.conn[d].base = heap.conn[c].base
             => /\ heap'.conn[d].top = heap.conn[c].top
                /\ heap'.conn[d].bucket = heap.conn[c].bucket
                /\ heap'.conn[d].handler = heap.conn[c].handler
                /\ heap'.conn[d].extra = heap.conn[c].extra]_vars
  BY NextIInv, TurnCarries
<1> QED
  BY <1>1, SpecIInv, PTL DEF Spec, PayloadTravels

\* tcp_connection implements the ownership every wrapper promises: each of its calls,
\* temporaries, filters and failures included, takes, hands over, trades or lets go of
\* sockets as HandleOwnership allows, and reports events to the holder.
THEOREM OwnershipImplemented == Spec => ImplementsOwnership
BY SpecIInv, InitAbs, StepAbs, PTL DEF Spec, ImplementsOwnership, Abs!Spec

------------------------------------------------------------------------------
(* What HandleOwnership promises, and the sockets of connections inherit.     *)

\* The state of HandleOwnership, and its steps, in these terms.
Sockets == [c \in Conn |-> heap.conn[c].base]
Sinks == [c \in Conn |-> IF heap.conn[c].top = NULL THEN NULL ELSE heap.bev[heap.conn[c].top].ctx]

Reports == Sinks' = [c \in Conn |-> IF Sockets'[c] = NULL THEN NULL ELSE c]

Unheld(b) == \A c \in Conn : Sockets[c] # b

Passes ==
  \/ \E c \in Conn, b \in Bev :
       Sockets[c] = NULL /\ Unheld(b) /\ Sockets' = [Sockets EXCEPT ![c] = b]
  \/ \E c, d \in Conn, b, e \in Bev :
       /\ c # d /\ Sockets[c] = NULL /\ Sockets[d] = NULL /\ b # e /\ Unheld(b) /\ Unheld(e)
       /\ Sockets' = [Sockets EXCEPT ![c] = b, ![d] = e]
  \/ \E c \in Conn : Sockets' = [Sockets EXCEPT ![c] = NULL]
  \/ \E c, d \in Conn : c # d /\ Sockets' = [Sockets EXCEPT ![c] = Sockets[d], ![d] = NULL]
  \/ \E c, d \in Conn : Sockets' = [Sockets EXCEPT ![c] = Sockets[d], ![d] = Sockets[c]]

LEMMA AbsInitIs ==
  Abs!Init => Sockets = [c \in Conn |-> NULL] /\ Sinks = [c \in Conn |-> NULL]
BY DEF Abs!Init, Sockets, Sinks

LEMMA AbsStepIs ==
  [Abs!Next]_(Abs!vars) => (Reports /\ Passes) \/ UNCHANGED <<Sockets, Sinks>>
<1> SUFFICES ASSUME [Abs!Next]_(Abs!vars)
             PROVE  (Reports /\ Passes) \/ UNCHANGED <<Sockets, Sinks>>
  OBVIOUS
<1>1. ASSUME Abs!Reported PROVE Reports
  BY <1>1 DEF Abs!Reported, Reports, Sockets, Sinks
<1>2. \A b \in Bev : b \notin Abs!Held => Unheld(b)
  <2>1. \A c \in Conn, b \in Bev : heap.conn[c].base = b => b \in Abs!Held
    BY NullNotBev DEF Abs!Held
  <2> QED
    BY <2>1 DEF Unheld, Sockets
<1>3. ASSUME NEW c \in Conn, NEW b \in Bev, Abs!Acquire(c, b) PROVE Reports /\ Passes
  <2>1. Sockets[c] = NULL /\ Sockets' = [Sockets EXCEPT ![c] = b]
    BY <1>3 DEF Abs!Acquire, Sockets
  <2> QED
    BY <1>1, <1>2, <1>3, <2>1 DEF Abs!Acquire, Passes
<1>4. ASSUME NEW c \in Conn, NEW d \in Conn, NEW b \in Bev, NEW e \in Bev,
             Abs!AcquirePair(c, d, b, e)
      PROVE  Reports /\ Passes
  <2>1. /\ c # d /\ b # e /\ Sockets[c] = NULL /\ Sockets[d] = NULL
        /\ Sockets' = [Sockets EXCEPT ![c] = b, ![d] = e]
    BY <1>4 DEF Abs!AcquirePair, Sockets
  <2> QED
    BY <1>1, <1>2, <1>4, <2>1 DEF Abs!AcquirePair, Passes
<1>5. ASSUME NEW c \in Conn, Abs!Release(c) PROVE Reports /\ Passes
  <2>1. Sockets' = [Sockets EXCEPT ![c] = NULL]
    BY <1>5 DEF Abs!Release, Sockets
  <2> QED
    BY <1>1, <1>5, <2>1 DEF Abs!Release, Passes
<1>6. ASSUME NEW c \in Conn, NEW d \in Conn, Abs!Transfer(c, d) PROVE Reports /\ Passes
  <2>1. c # d /\ Sockets' = [Sockets EXCEPT ![c] = Sockets[d], ![d] = NULL]
    BY <1>6 DEF Abs!Transfer, Sockets
  <2> QED
    BY <1>1, <1>6, <2>1 DEF Abs!Transfer, Passes
<1>7. ASSUME NEW c \in Conn, NEW d \in Conn, Abs!Exchange(c, d) PROVE Reports /\ Passes
  <2>1. Sockets' = [Sockets EXCEPT ![c] = Sockets[d], ![d] = Sockets[c]]
    BY <1>7 DEF Abs!Exchange, Sockets
  <2> QED
    BY <1>1, <1>7, <2>1 DEF Abs!Exchange, Passes
<1>8. CASE UNCHANGED Abs!vars
  BY <1>8 DEF Abs!vars, Sockets, Sinks
<1> QED
  BY <1>3, <1>4, <1>5, <1>6, <1>7, <1>8 DEF Abs!Next

LEMMA AbsTypesIs ==
  Abs!TypeOK <=> Sockets \in [Conn -> Bev \cup {NULL}] /\ Sinks \in [Conn -> Conn \cup {NULL}]
BY DEF Abs!TypeOK, Sockets, Sinks

LEMMA AbsExclusiveIs ==
  Abs!ExclusiveHolder <=> \A c, d \in Conn : Sockets[c] # NULL /\ Sockets[c] = Sockets[d] => c = d
BY DEF Abs!ExclusiveHolder, Sockets

LEMMA AbsReportedIs ==
  Abs!ReportedToHolder <=> \A c \in Conn : Sinks[c] = IF Sockets[c] = NULL THEN NULL ELSE c
BY DEF Abs!ReportedToHolder, Sockets, Sinks

\* The types that the next proof needs.
LEMMA OwnershipTypes == Abs!Spec => []Abs!TypeOK
<1> DEFINE Types == Sockets \in [Conn -> Bev \cup {NULL}] /\ Sinks \in [Conn -> Conn \cup {NULL}]
<1>1. Abs!Init => Types
  BY AbsInitIs
<1>2. Types /\ [Abs!Next]_(Abs!vars) => Types'
  <2> SUFFICES ASSUME Types, [Abs!Next]_(Abs!vars) PROVE Types'
    OBVIOUS
  <2>1. CASE Reports /\ Passes
    BY <2>1 DEF Reports, Passes
  <2> QED
    BY <2>1, AbsStepIs
<1> QED
  BY <1>1, <1>2, AbsTypesIs, PTL DEF Abs!Spec

\* In HandleOwnership a socket has at most one holder: acquiring takes only what nobody
\* holds, and a hand-over empties the hand it comes from.
THEOREM OwnershipExclusive == Abs!Spec => []Abs!ExclusiveHolder
<1> DEFINE One == \A c, d \in Conn : Sockets[c] # NULL /\ Sockets[c] = Sockets[d] => c = d
<1>1. Abs!Init => One
  BY AbsInitIs
<1>2. Abs!TypeOK /\ One /\ [Abs!Next]_(Abs!vars) => One'
  <2> SUFFICES ASSUME Sockets \in [Conn -> Bev \cup {NULL}], One, [Abs!Next]_(Abs!vars)
               PROVE  One'
    BY AbsTypesIs
  <2>1. CASE Passes
    BY <2>1 DEF Passes, Unheld
  <2> QED
    BY <2>1, AbsStepIs
<1> QED
  BY <1>1, <1>2, OwnershipTypes, AbsExclusiveIs, PTL DEF Abs!Spec

\* Each step of HandleOwnership says so itself; what it means for the code is below.
LEMMA OwnershipReported == Abs!Spec => []Abs!ReportedToHolder
<1> DEFINE Told == \A c \in Conn : Sinks[c] = IF Sockets[c] = NULL THEN NULL ELSE c
<1>1. Abs!Init => Told
  BY AbsInitIs
<1>2. Told /\ [Abs!Next]_(Abs!vars) => Told'
  BY AbsStepIs DEF Reports
<1> QED
  BY <1>1, <1>2, AbsReportedIs, PTL DEF Abs!Spec

\* No two connections hold the same socket, and its events reach the one that does.
THEOREM SocketsExclusive == Spec => [](Abs!ExclusiveHolder /\ Abs!ReportedToHolder)
BY OwnershipImplemented, OwnershipExclusive, OwnershipReported, PTL DEF ImplementsOwnership

==============================================================================
