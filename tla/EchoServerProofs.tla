-------------------------- MODULE EchoServerProofs --------------------------
(***************************************************************************)
(* Proofs about EchoServer, for any number of acceptors, listeners,        *)
(* connections and descriptors: each accepted descriptor has one owner, the*)
(* set stays sorted and complete, and tcp_acceptor implements              *)
(* HandleOwnership.                                                        *)
(***************************************************************************)
EXTENDS EchoServer, FiniteSetTheorems, SequenceTheorems, TLAPS

OrNull(S) == S \cup {NULL}
AccRec == [alive: BOOLEAN, listener: OrNull(Listener), handler: BOOLEAN, extra: BOOLEAN]
Context == Obj \cup {"free", "dying"}
State == [obj: [Obj -> AccRec], lis: [Listener -> Context]]

\* Storage without an acceptor holds nothing.
CleanAt(s, a) == ~s.obj[a].alive => s.obj[a] = Unborn

\* An acceptor and its listener know each other.
LinkedAt(s, a) == s.obj[a].listener # NULL => s.lis[s.obj[a].listener] = a
ReportsAt(s, l) == s.lis[l] \in Obj => s.obj[s.lis[l]].listener = l

AInv(s) ==
  /\ s \in State
  /\ \A a \in Obj : CleanAt(s, a) /\ LinkedAt(s, a)
  /\ \A l \in Listener : ReportsAt(s, l)

------------------------------------------------------------------------------
(* What each operator leaves of the acceptors. *)

LEMMA NullApart ==
  /\ NULL \notin Obj /\ NULL \notin Listener /\ NULL \notin Fd /\ Tmp \in Obj /\ Tmp \notin Acc
  /\ "free" \notin Obj /\ "dying" \notin Obj
BY AcceptorAssumption DEF Obj

LEMMA UnbornType ==
  Unborn \in AccRec /\ ~Unborn.alive /\ Unborn.listener = NULL
BY DEF Unborn, AccRec, OrNull

LEMMA StateTypes ==
  ASSUME NEW s \in State
  PROVE  /\ s.obj \in [Obj -> AccRec] /\ s.lis \in [Listener -> Context]
         /\ s = [obj |-> s.obj, lis |-> s.lis]
         /\ \A a \in Obj : /\ s.obj[a] \in AccRec
                           /\ s.obj[a].alive \in BOOLEAN
                           /\ s.obj[a].listener \in OrNull(Listener)
BY DEF State, AccRec

\* A state whose acceptors or whose contexts alone are replaced.
LEMMA WithObj ==
  ASSUME NEW s \in State, NEW g \in [Obj -> AccRec]
  PROVE  LET r == [s EXCEPT !.obj = g] IN r \in State /\ r.obj = g /\ r.lis = s.lis
BY DEF State

LEMMA WithLis ==
  ASSUME NEW s \in State, NEW g \in [Listener -> Context]
  PROVE  LET r == [s EXCEPT !.lis = g] IN r \in State /\ r.obj = s.obj /\ r.lis = g
BY DEF State

LEMMA ResetFields ==
  ASSUME NEW s \in State, NEW a \in Obj
  PROVE  LET r == ResetCallbacks(s, a) IN
         /\ r \in State /\ r.obj = s.obj
         /\ \A l \in Listener : r.lis[l] = IF l = s.obj[a].listener THEN a ELSE s.lis[l]
<1> DEFINE k == s.obj[a].listener
           g == [s.lis EXCEPT ![k] = a]
<1>1. k \in OrNull(Listener)
  BY StateTypes
<1>2. CASE k = NULL
  BY <1>2, NullApart DEF ResetCallbacks
<1>3. CASE k # NULL
  <2>1. k \in Listener
    BY <1>1, <1>3 DEF OrNull
  <2>2. ResetCallbacks(s, a) = [s EXCEPT !.lis = g]
    BY <1>3 DEF ResetCallbacks, State
  <2> HIDE DEF k
  <2>3. g \in [Listener -> Context] /\ \A l \in Listener : g[l] = IF l = k THEN a ELSE s.lis[l]
    BY <2>1, StateTypes DEF Context
  <2> HIDE DEF g
  <2>4. LET r == [s EXCEPT !.lis = g] IN r \in State /\ r.obj = s.obj /\ r.lis = g
    BY <2>3, WithLis
  <2> QED
    BY <2>2, <2>3, <2>4 DEF k
<1> QED
  BY <1>2, <1>3

LEMMA FreeFields ==
  ASSUME NEW s \in State, NEW k \in OrNull(Listener)
  PROVE  LET r == FreeListener(s, k) IN
         /\ r \in State /\ r.obj = s.obj
         /\ \A l \in Listener : IF l = k THEN r.lis[l] \notin Obj ELSE r.lis[l] = s.lis[l]
<1>1. CASE k = NULL
  BY <1>1, NullApart DEF FreeListener
<1>2. CASE k # NULL
  <2> DEFINE end == IF frame.listener = k THEN "dying" ELSE "free"
             g == [s.lis EXCEPT ![k] = end]
  <2>1. k \in Listener /\ end \in Context /\ end \notin Obj
    BY <1>2, NullApart DEF OrNull, Context
  <2>2. FreeListener(s, k) = [s EXCEPT !.lis = g]
    BY <1>2 DEF FreeListener, State
  <2> HIDE DEF end
  <2>3. g \in [Listener -> Context] /\ \A l \in Listener : g[l] = IF l = k THEN end ELSE s.lis[l]
    BY <2>1, StateTypes
  <2> HIDE DEF g
  <2>4. LET r == [s EXCEPT !.lis = g] IN r \in State /\ r.obj = s.obj /\ r.lis = g
    BY <2>3, WithLis
  <2> QED
    BY <2>1, <2>2, <2>3, <2>4
<1> QED
  BY <1>1, <1>2

\* Two acceptors never share a listener.
LEMMA OneAcceptor ==
  ASSUME NEW s, AInv(s), NEW a \in Obj, NEW b \in Obj,
         s.obj[a].listener # NULL, s.obj[a].listener = s.obj[b].listener
  PROVE  a = b
BY DEF AInv, LinkedAt

\* An acceptor whose extra data changes, or that has nothing else.
WithExtra(x, e) == [x EXCEPT !.extra = e]
Husk(e) == [Unborn EXCEPT !.alive = TRUE, !.extra = e]

LEMMA RecParts ==
  ASSUME NEW x \in AccRec, NEW e \in BOOLEAN
  PROVE  /\ WithExtra(x, e) \in AccRec
         /\ WithExtra(x, e).alive = x.alive /\ WithExtra(x, e).listener = x.listener
         /\ Husk(e) \in AccRec /\ Husk(e).alive /\ Husk(e).listener = NULL
         /\ x.extra \in BOOLEAN
BY DEF AccRec, Unborn, OrNull, WithExtra, Husk

LEMMA MoveCtorFields ==
  ASSUME NEW s, AInv(s), NEW d \in Obj, NEW r \in Obj, d # r, ~s.obj[d].alive, s.obj[r].alive
  PROVE  LET n == MoveCtor(s, d, r) IN
         /\ AInv(n) /\ n.obj[d].alive /\ n.obj[r].alive
         /\ \A a \in Obj : /\ n.obj[a].listener = IF a = d THEN s.obj[r].listener
                                                  ELSE IF a = r THEN NULL ELSE s.obj[a].listener
                           /\ a \notin {d, r} => n.obj[a] = s.obj[a]
<1> DEFINE k == s.obj[r].listener
           x == WithExtra(s.obj[r], FALSE)
           y == Husk(s.obj[r].extra)
           g == [s.obj EXCEPT ![d] = x, ![r] = y]
           m == Moved(s, d, r)
           n == ResetCallbacks(m, d)
<1>1. s \in State /\ k \in OrNull(Listener) /\ s.obj[d] = Unborn
  BY StateTypes DEF AInv, CleanAt
<1>2. /\ x \in AccRec /\ x.alive /\ x.listener = k
      /\ y \in AccRec /\ y.alive /\ y.listener = NULL
  <2>1. s.obj[r] \in AccRec /\ s.obj[r].extra \in BOOLEAN
    BY <1>1, StateTypes, RecParts
  <2> QED
    BY <2>1, RecParts
<1>3. m = [s EXCEPT !.obj = g]
  BY <1>1 DEF Moved, State, WithExtra, Husk
<1>4. n = MoveCtor(s, d, r)
  BY DEF MoveCtor
<1> HIDE DEF x, y, k
<1>5. g \in [Obj -> AccRec] /\ \A a \in Obj : g[a] = IF a = d THEN x ELSE IF a = r THEN y ELSE s.obj[a]
  BY <1>1, <1>2, StateTypes
<1> HIDE DEF g
<1>6. m \in State /\ m.obj = g /\ m.lis = s.lis
  BY <1>1, <1>3, <1>5, WithObj
<1> HIDE DEF m
<1>7. /\ n \in State /\ n.obj = g
      /\ \A l \in Listener : n.lis[l] = IF l = k THEN d ELSE s.lis[l]
  BY <1>2, <1>5, <1>6, ResetFields
<1> HIDE DEF n
<1>8. \A a \in Obj : CleanAt(n, a) /\ LinkedAt(n, a)
  <2> TAKE a \in Obj
  <2>1. CASE a = d
    BY <2>1, <1>1, <1>2, <1>5, <1>7 DEF CleanAt, LinkedAt, OrNull
  <2>2. CASE a = r
    BY <2>2, <1>2, <1>5, <1>7 DEF CleanAt, LinkedAt
  <2>3. CASE a # d /\ a # r
    <3>1. s.obj[a].listener # NULL => s.obj[a].listener # k /\ s.obj[a].listener \in Listener
      BY <2>3, <1>1, OneAcceptor, StateTypes DEF k, OrNull
    <3> QED
      BY <2>3, <3>1, <1>5, <1>7 DEF AInv, CleanAt, LinkedAt
  <2> QED
    BY <2>1, <2>2, <2>3
<1>9. \A l \in Listener : ReportsAt(n, l)
  <2> TAKE l \in Listener
  <2>1. CASE l = k
    BY <2>1, <1>2, <1>5, <1>7 DEF ReportsAt
  <2>2. CASE l # k
    <3>1. s.lis[l] \in Obj => s.lis[l] # d /\ s.lis[l] # r
      BY <2>2, <1>1, UnbornType, NullApart DEF AInv, ReportsAt, k
    <3> QED
      BY <2>2, <3>1, <1>5, <1>7 DEF AInv, ReportsAt
  <2> QED
    BY <2>1, <2>2
<1> QED
  BY <1>2, <1>4, <1>5, <1>7, <1>8, <1>9 DEF AInv, k

LEMMA SwapFields ==
  ASSUME NEW s, AInv(s), NEW a \in Obj, NEW b \in Obj, s.obj[a].alive, s.obj[b].alive
  PROVE  LET n == SwapObj(s, a, b) IN
         /\ AInv(n) /\ n.obj[a].alive /\ n.obj[b].alive
         /\ \A c \in Obj : /\ n.obj[c].listener = IF c = a THEN s.obj[b].listener
                                                  ELSE IF c = b THEN s.obj[a].listener
                                                  ELSE s.obj[c].listener
                           /\ c \notin {a, b} => n.obj[c] = s.obj[c]
<1>1. CASE a = b
  BY <1>1 DEF SwapObj
<1>2. CASE a # b
  <2> DEFINE i == s.obj[a].listener
             k == s.obj[b].listener
             x == WithExtra(s.obj[b], s.obj[a].extra)
             y == WithExtra(s.obj[a], s.obj[b].extra)
             g == [s.obj EXCEPT ![a] = x, ![b] = y]
             m == Exchanged(s, a, b)
             o == ResetCallbacks(m, a)
             n == ResetCallbacks(o, b)
  <2>1. s \in State /\ i \in OrNull(Listener) /\ k \in OrNull(Listener)
    BY StateTypes DEF AInv
  <2>2. /\ x \in AccRec /\ x.alive /\ x.listener = k
        /\ y \in AccRec /\ y.alive /\ y.listener = i
    <3>1. /\ s.obj[a] \in AccRec /\ s.obj[b] \in AccRec
          /\ s.obj[a].extra \in BOOLEAN /\ s.obj[b].extra \in BOOLEAN
      BY <2>1, StateTypes, RecParts
    <3> QED
      BY <3>1, RecParts
  <2>3. m = [s EXCEPT !.obj = g]
    BY <1>2, <2>1 DEF Exchanged, State, WithExtra
  <2>4. n = SwapObj(s, a, b)
    BY <1>2 DEF SwapObj
  <2>5. i # NULL => i # k
    BY <1>2, OneAcceptor
  <2> HIDE DEF x, y, i, k
  <2>6. g \in [Obj -> AccRec] /\ \A c \in Obj : g[c] = IF c = a THEN x ELSE IF c = b THEN y ELSE s.obj[c]
    BY <1>2, <2>1, <2>2, StateTypes
  <2> HIDE DEF g
  <2>7. m \in State /\ m.obj = g /\ m.lis = s.lis
    BY <2>1, <2>3, <2>6, WithObj
  <2> HIDE DEF m
  <2>8. /\ o \in State /\ o.obj = g
        /\ \A l \in Listener : o.lis[l] = IF l = k THEN a ELSE s.lis[l]
    BY <2>2, <2>6, <2>7, ResetFields
  <2> HIDE DEF o
  <2>9. /\ n \in State /\ n.obj = g
        /\ \A l \in Listener : n.lis[l] = IF l = i THEN b ELSE o.lis[l]
    BY <1>2, <2>2, <2>6, <2>8, ResetFields
  <2> HIDE DEF n
  <2>10. \A c \in Obj : CleanAt(n, c) /\ LinkedAt(n, c)
    <3> TAKE c \in Obj
    <3>1. CASE c = a
      BY <3>1, <2>1, <2>2, <2>5, <2>6, <2>8, <2>9 DEF CleanAt, LinkedAt, OrNull
    <3>2. CASE c = b
      BY <3>2, <1>2, <2>1, <2>2, <2>6, <2>9 DEF CleanAt, LinkedAt, OrNull
    <3>3. CASE c # a /\ c # b
      <4>1. s.obj[c].listener # NULL =>
              s.obj[c].listener # i /\ s.obj[c].listener # k /\ s.obj[c].listener \in Listener
        BY <3>3, <2>1, OneAcceptor, StateTypes DEF i, k, OrNull
      <4> QED
        BY <3>3, <4>1, <2>6, <2>8, <2>9 DEF AInv, CleanAt, LinkedAt
    <3> QED
      BY <3>1, <3>2, <3>3
  <2>11. \A l \in Listener : ReportsAt(n, l)
    <3> TAKE l \in Listener
    <3>1. CASE l = i
      BY <3>1, <1>2, <2>2, <2>6, <2>9 DEF ReportsAt
    <3>2. CASE l # i /\ l = k
      BY <3>2, <2>2, <2>6, <2>8, <2>9 DEF ReportsAt
    <3>3. CASE l # i /\ l # k
      <4>1. s.lis[l] \in Obj => s.lis[l] # a /\ s.lis[l] # b
        BY <3>3 DEF AInv, ReportsAt, i, k
      <4> QED
        BY <3>3, <4>1, <2>6, <2>8, <2>9 DEF AInv, ReportsAt
    <3> QED
      BY <3>1, <3>2, <3>3
  <2> QED
    BY <1>2, <2>2, <2>4, <2>6, <2>9, <2>10, <2>11 DEF AInv, i, k
<1> QED
  BY <1>1, <1>2

LEMMA DestroyFields ==
  ASSUME NEW s, AInv(s), NEW a \in Obj
  PROVE  LET n == Destroy(s, a) IN
         AInv(n) /\ \A c \in Obj : n.obj[c] = IF c = a THEN Unborn ELSE s.obj[c]
<1> DEFINE k == s.obj[a].listener
           m == FreeListener(s, k)
           n == [m EXCEPT !.obj[a] = Unborn]
<1>1. s \in State /\ k \in OrNull(Listener)
  BY StateTypes DEF AInv
<1>2. n = Destroy(s, a)
  BY DEF Destroy
<1> HIDE DEF k
<1>3. /\ m \in State /\ m.obj = s.obj
      /\ \A l \in Listener : IF l = k THEN m.lis[l] \notin Obj ELSE m.lis[l] = s.lis[l]
  BY <1>1, FreeFields
<1> HIDE DEF m
<1> DEFINE g == [s.obj EXCEPT ![a] = Unborn]
<1>4. n = [m EXCEPT !.obj = g]
  BY <1>3 DEF State
<1>5. g \in [Obj -> AccRec] /\ \A c \in Obj : g[c] = IF c = a THEN Unborn ELSE s.obj[c]
  BY <1>1, StateTypes, UnbornType
<1> HIDE DEF g, n
<1>6. n \in State /\ n.obj = g /\ n.lis = m.lis
  BY <1>3, <1>4, <1>5, WithObj
<1>7. \A c \in Obj : CleanAt(n, c) /\ LinkedAt(n, c)
  <2> TAKE c \in Obj
  <2>1. CASE c = a
    BY <2>1, <1>5, <1>6, UnbornType DEF CleanAt, LinkedAt
  <2>2. CASE c # a
    <3>1. s.obj[c].listener # NULL => s.obj[c].listener # k /\ s.obj[c].listener \in Listener
      BY <2>2, <1>1, OneAcceptor, StateTypes DEF k, OrNull
    <3> QED
      BY <2>2, <3>1, <1>3, <1>5, <1>6 DEF AInv, CleanAt, LinkedAt
  <2> QED
    BY <2>1, <2>2
<1>8. \A l \in Listener : ReportsAt(n, l)
  <2> TAKE l \in Listener
  <2>1. CASE l = k
    BY <2>1, <1>3, <1>6 DEF ReportsAt
  <2>2. CASE l # k
    <3>1. s.lis[l] \in Obj => s.lis[l] # a
      BY <2>2 DEF AInv, ReportsAt, k
    <3> QED
      BY <2>2, <3>1, <1>3, <1>5, <1>6 DEF AInv, ReportsAt
  <2> QED
    BY <2>1, <2>2
<1> QED
  BY <1>2, <1>5, <1>6, <1>7, <1>8 DEF AInv

\* operator=, whose temporary takes what the target held with it.
LEMMA AssignFields ==
  ASSUME NEW s, AInv(s), NEW d \in Acc, NEW r \in Acc, d # r,
         s.obj[Tmp] = Unborn, s.obj[d].alive, s.obj[r].alive
  PROVE  LET n == Destroy(SwapObj(MoveCtor(s, Tmp, r), d, Tmp), Tmp) IN
         /\ AInv(n) /\ n.obj[Tmp] = Unborn
         /\ \A a \in Acc : n.obj[a].listener = IF a = d THEN s.obj[r].listener
                                               ELSE IF a = r THEN NULL ELSE s.obj[a].listener
<1> DEFINE m == MoveCtor(s, Tmp, r)
           w == SwapObj(m, d, Tmp)
           n == Destroy(w, Tmp)
<1>1. /\ d \in Obj /\ r \in Obj /\ Tmp \in Obj /\ d # Tmp /\ r # Tmp
      /\ \A a \in Acc : a \in Obj /\ a # Tmp
  BY NullApart DEF Obj
<1>2. /\ AInv(m) /\ m.obj[Tmp].alive /\ m.obj[r].alive
      /\ \A a \in Obj : /\ m.obj[a].listener = IF a = Tmp THEN s.obj[r].listener
                                               ELSE IF a = r THEN NULL ELSE s.obj[a].listener
                        /\ a \notin {Tmp, r} => m.obj[a] = s.obj[a]
  BY <1>1, UnbornType, MoveCtorFields
<1> HIDE DEF m
<1>3. m.obj[d].alive
  BY <1>1, <1>2
<1>4. /\ AInv(w)
      /\ \A a \in Obj : w.obj[a].listener = IF a = d THEN m.obj[Tmp].listener
                                            ELSE IF a = Tmp THEN m.obj[d].listener
                                            ELSE m.obj[a].listener
  BY <1>1, <1>2, <1>3, SwapFields
<1> HIDE DEF w
<1>5. AInv(n) /\ \A a \in Obj : n.obj[a] = IF a = Tmp THEN Unborn ELSE w.obj[a]
  BY <1>1, <1>4, DestroyFields
<1> HIDE DEF n
<1>6. \A a \in Acc : n.obj[a].listener = IF a = d THEN s.obj[r].listener
                                         ELSE IF a = r THEN NULL ELSE s.obj[a].listener
  BY <1>1, <1>2, <1>4, <1>5
<1> QED
  BY <1>1, <1>5, <1>6 DEF n, w, m

\* close().
LEMMA CloseFields ==
  ASSUME NEW s, AInv(s), NEW a \in Acc, s.obj[Tmp] = Unborn, s.obj[a].alive
  PROVE  LET n == Destroy(MoveCtor(s, Tmp, a), Tmp) IN
         /\ AInv(n) /\ n.obj[Tmp] = Unborn
         /\ \A c \in Acc : n.obj[c].listener = IF c = a THEN NULL ELSE s.obj[c].listener
<1> DEFINE m == MoveCtor(s, Tmp, a)
           n == Destroy(m, Tmp)
<1>1. /\ a \in Obj /\ Tmp \in Obj /\ a # Tmp
      /\ \A c \in Acc : c \in Obj /\ c # Tmp
  BY NullApart DEF Obj
<1>2. /\ AInv(m)
      /\ \A c \in Obj : m.obj[c].listener = IF c = Tmp THEN s.obj[a].listener
                                            ELSE IF c = a THEN NULL ELSE s.obj[c].listener
  BY <1>1, UnbornType, MoveCtorFields
<1> HIDE DEF m
<1>3. AInv(n) /\ \A c \in Obj : n.obj[c] = IF c = Tmp THEN Unborn ELSE m.obj[c]
  BY <1>1, <1>2, DestroyFields
<1> HIDE DEF n
<1>4. \A c \in Acc : n.obj[c].listener = IF c = a THEN NULL ELSE s.obj[c].listener
  BY <1>1, <1>2, <1>3
<1> QED
  BY <1>1, <1>3, <1>4 DEF n, m

\* An acceptor is alive and keeps the listener that its storage had.
LEMMA SameListener ==
  ASSUME NEW s, AInv(s), NEW a \in Obj, NEW x \in AccRec,
         x.alive, x.listener = s.obj[a].listener
  PROVE  LET n == [s EXCEPT !.obj[a] = x] IN
         AInv(n) /\ n.lis = s.lis /\ \A c \in Obj : n.obj[c] = IF c = a THEN x ELSE s.obj[c]
<1> DEFINE g == [s.obj EXCEPT ![a] = x]
           n == [s EXCEPT !.obj = g]
<1>1. s \in State
  BY DEF AInv
<1>2. n = [s EXCEPT !.obj[a] = x]
  BY <1>1 DEF State
<1>3. g \in [Obj -> AccRec] /\ \A c \in Obj : g[c] = IF c = a THEN x ELSE s.obj[c]
  BY <1>1, StateTypes
<1> HIDE DEF g
<1>4. n \in State /\ n.obj = g /\ n.lis = s.lis
  BY <1>1, <1>3, WithObj
<1> HIDE DEF n
<1>5. \A c \in Obj : CleanAt(n, c) /\ LinkedAt(n, c)
  <2> TAKE c \in Obj
  <2>1. CleanAt(s, c) /\ LinkedAt(s, c)
    BY DEF AInv
  <2>2. CASE c = a
    BY <2>1, <2>2, <1>3, <1>4 DEF CleanAt, LinkedAt
  <2>3. CASE c # a
    BY <2>1, <2>3, <1>3, <1>4 DEF CleanAt, LinkedAt
  <2> QED
    BY <2>2, <2>3
<1>6. \A l \in Listener : ReportsAt(n, l)
  BY <1>3, <1>4 DEF AInv, ReportsAt
<1> QED
  BY <1>2, <1>3, <1>4, <1>5, <1>6 DEF AInv

\* bind().
LEMMA BindFields ==
  ASSUME NEW s, AInv(s), NEW a \in Obj, NEW l \in Listener,
         s.obj[a].alive, s.obj[a].listener = NULL, s.lis[l] = "free"
  PROVE  LET n == Bind(s, a, l) IN
         AInv(n) /\ \A c \in Obj : /\ n.obj[c].listener = IF c = a THEN l ELSE s.obj[c].listener
                                   /\ c # a => n.obj[c] = s.obj[c]
<1> DEFINE x == [s.obj[a] EXCEPT !.listener = l]
           g == [s.obj EXCEPT ![a] = x]
           m == [s EXCEPT !.obj = g]
           n == ResetCallbacks(m, a)
<1>1. s \in State /\ s.obj[a] \in AccRec
  BY StateTypes DEF AInv
<1>2. x \in AccRec /\ x.alive = s.obj[a].alive /\ x.listener = l
  BY <1>1 DEF AccRec, OrNull
<1>3. n = Bind(s, a, l)
  BY <1>1 DEF Bind, State
<1> HIDE DEF x
<1>4. g \in [Obj -> AccRec] /\ \A c \in Obj : g[c] = IF c = a THEN x ELSE s.obj[c]
  BY <1>1, <1>2, StateTypes
<1> HIDE DEF g
<1>5. m \in State /\ m.obj = g /\ m.lis = s.lis
  BY <1>1, <1>4, WithObj
<1> HIDE DEF m
<1>6. /\ n \in State /\ n.obj = g
      /\ \A k \in Listener : n.lis[k] = IF k = l THEN a ELSE s.lis[k]
  BY <1>2, <1>4, <1>5, ResetFields
<1> HIDE DEF n
<1>7. \A c \in Obj : CleanAt(n, c) /\ LinkedAt(n, c)
  <2> TAKE c \in Obj
  <2>1. CleanAt(s, c) /\ LinkedAt(s, c)
    BY DEF AInv
  <2>2. CASE c = a
    BY <2>1, <2>2, <1>2, <1>4, <1>6 DEF CleanAt, LinkedAt
  <2>3. CASE c # a
    <3>1. s.obj[c].listener # NULL => s.obj[c].listener # l /\ s.obj[c].listener \in Listener
      BY <2>1, <1>1, StateTypes, NullApart DEF LinkedAt, OrNull
    <3> QED
      BY <2>1, <2>3, <3>1, <1>4, <1>6 DEF CleanAt, LinkedAt
  <2> QED
    BY <2>2, <2>3
<1>8. \A k \in Listener : ReportsAt(n, k)
  <2> TAKE k \in Listener
  <2>1. CASE k = l
    BY <2>1, <1>2, <1>4, <1>6 DEF ReportsAt
  <2>2. CASE k # l
    <3>1. s.lis[k] \in Obj => s.lis[k] # a
      BY NullApart DEF AInv, ReportsAt
    <3> QED
      BY <2>2, <3>1, <1>4, <1>6 DEF AInv, ReportsAt
  <2> QED
    BY <2>1, <2>2
<1> QED
  BY <1>2, <1>3, <1>4, <1>6, <1>7, <1>8 DEF AInv

------------------------------------------------------------------------------
(* The steps of the acceptors. *)

\* Outside their own functions the temporary is gone.
Acceptors == AInv(Now) /\ obj[Tmp] = Unborn

LEMMA Becomes ==
  ASSUME NEW s \in State, Become(s)
  PROVE  Now' = s /\ obj' = s.obj /\ lis' = s.lis
BY StateTypes DEF Become, Now

LEMMA AcceptorFacts ==
  ASSUME Acceptors
  PROVE  /\ AInv(Now) /\ Now \in State /\ Now.obj = obj /\ Now.lis = lis
         /\ Acc \subseteq Obj /\ \A a \in Acc : a # Tmp
         /\ \A a \in Acc : ~obj[a].alive => obj[a] = Unborn
BY NullApart DEF Acceptors, AInv, Now, Obj, CleanAt

LEMMA ConstructStep ==
  ASSUME Acceptors, NEW a \in Acc, NEW l \in Listener, NEW h \in BOOLEAN, Construct(a, l, h)
  PROVE  /\ Acceptors'
         /\ \A c \in Acc : obj'[c].listener = IF c = a THEN l ELSE obj[c].listener
<1> DEFINE x == [Unborn EXCEPT !.alive = TRUE, !.handler = h]
           m == [Now EXCEPT !.obj[a] = x]
           n == Bind(m, a, l)
<1>1. a \in Obj /\ obj[a] = Unborn /\ a # Tmp /\ lis[l] = "free"
  BY AcceptorFacts DEF Construct, Fresh
<1>2. x \in AccRec /\ x.alive /\ x.listener = NULL
  BY DEF AccRec, Unborn, OrNull
<1>3. Become(n)
  BY DEF Construct
<1> HIDE DEF x
<1>4. AInv(m) /\ m.lis = lis /\ \A c \in Obj : m.obj[c] = IF c = a THEN x ELSE obj[c]
  BY <1>1, <1>2, AcceptorFacts, UnbornType, SameListener
<1> HIDE DEF m
<1>5. AInv(n) /\ \A c \in Obj : /\ n.obj[c].listener = IF c = a THEN l ELSE m.obj[c].listener
                                /\ c # a => n.obj[c] = m.obj[c]
  BY <1>1, <1>2, <1>4, BindFields
<1> HIDE DEF n
<1>6. Now' = n /\ obj' = n.obj
  BY <1>3, <1>5, Becomes DEF AInv
<1>7. obj'[Tmp] = Unborn
  BY <1>1, <1>4, <1>5, <1>6, NullApart DEF Acceptors
<1> QED
  BY <1>4, <1>5, <1>6, <1>7, AcceptorFacts DEF Acceptors

LEMMA ConfigureStep ==
  ASSUME Acceptors, NEW a \in Acc, SetEventHandler(a) \/ SetExtraData(a)
  PROVE  Acceptors' /\ \A c \in Acc : obj'[c].listener = obj[c].listener
<1>1. a \in Obj /\ obj[a] \in AccRec /\ obj[a].alive /\ a # Tmp
  BY AcceptorFacts, StateTypes DEF SetEventHandler, SetExtraData, Used
<1>2. PICK x \in AccRec : /\ x.alive /\ x.listener = obj[a].listener
                          /\ Become([Now EXCEPT !.obj[a] = x])
  <2>1. CASE SetEventHandler(a)
    <3> DEFINE x == [obj[a] EXCEPT !.handler = TRUE]
    <3>1. x \in AccRec /\ x.alive = obj[a].alive /\ x.listener = obj[a].listener
      BY <1>1 DEF AccRec
    <3>2. Become([Now EXCEPT !.obj[a] = x])
      BY <2>1 DEF SetEventHandler, Now
    <3> QED
      BY <1>1, <3>1, <3>2
  <2>2. CASE SetExtraData(a)
    <3> DEFINE x == [obj[a] EXCEPT !.extra = TRUE]
    <3>1. x \in AccRec /\ x.alive = obj[a].alive /\ x.listener = obj[a].listener
      BY <1>1 DEF AccRec
    <3>2. Become([Now EXCEPT !.obj[a] = x])
      BY <2>2 DEF SetExtraData, Now
    <3> QED
      BY <1>1, <3>1, <3>2
  <2> QED
    BY <2>1, <2>2
<1> DEFINE n == [Now EXCEPT !.obj[a] = x]
<1>3. AInv(n) /\ \A c \in Obj : n.obj[c] = IF c = a THEN x ELSE obj[c]
  BY <1>1, <1>2, AcceptorFacts, SameListener
<1>4. Now' = n /\ obj' = n.obj
  BY <1>2, <1>3, Becomes DEF AInv
<1> HIDE DEF n
<1>5. obj'[Tmp] = Unborn
  BY <1>1, <1>3, <1>4, NullApart DEF Acceptors
<1> QED
  BY <1>2, <1>3, <1>4, <1>5, AcceptorFacts DEF Acceptors

LEMMA MoveStep ==
  ASSUME Acceptors, NEW d \in Acc, NEW r \in Acc, MoveConstruct(d, r) \/ MoveAssign(d, r)
  PROVE  /\ Acceptors'
         /\ \/ d = r /\ obj' = obj /\ lis' = lis
            \/ d # r /\ \A c \in Acc : obj'[c].listener = IF c = d THEN obj[r].listener
                                                          ELSE IF c = r THEN NULL
                                                          ELSE obj[c].listener
<1>1. d \in Obj /\ r \in Obj /\ d # Tmp /\ r # Tmp
  BY AcceptorFacts
<1>2. CASE MoveConstruct(d, r)
  <2> DEFINE n == MoveCtor(Now, d, r)
  <2>1. ~obj[d].alive /\ obj[r].alive /\ d # r /\ Become(n)
    BY <1>2 DEF MoveConstruct, Fresh, Used
  <2>2. /\ AInv(n)
        /\ \A c \in Obj : /\ n.obj[c].listener = IF c = d THEN obj[r].listener
                                                 ELSE IF c = r THEN NULL ELSE obj[c].listener
                          /\ c \notin {d, r} => n.obj[c] = obj[c]
    BY <1>1, <2>1, AcceptorFacts, MoveCtorFields
  <2> HIDE DEF n
  <2>3. Now' = n /\ obj' = n.obj
    BY <2>1, <2>2, Becomes DEF AInv
  <2>4. obj'[Tmp] = Unborn
    BY <1>1, <2>2, <2>3, NullApart DEF Acceptors
  <2> QED
    BY <2>1, <2>2, <2>3, <2>4, AcceptorFacts DEF Acceptors
<1>3. CASE MoveAssign(d, r) /\ d = r
  <2>1. Become(Now)
    BY <1>3 DEF MoveAssign
  <2> QED
    BY <1>3, <2>1, AcceptorFacts, Becomes DEF Acceptors
<1>4. CASE MoveAssign(d, r) /\ d # r
  <2> DEFINE n == Destroy(SwapObj(MoveCtor(Now, Tmp, r), d, Tmp), Tmp)
  <2>1. obj[d].alive /\ obj[r].alive /\ Become(n)
    BY <1>4 DEF MoveAssign, Used
  <2>2. /\ AInv(n) /\ n.obj[Tmp] = Unborn
        /\ \A c \in Acc : n.obj[c].listener = IF c = d THEN obj[r].listener
                                              ELSE IF c = r THEN NULL ELSE obj[c].listener
    BY <1>4, <2>1, AcceptorFacts, AssignFields DEF Acceptors
  <2> HIDE DEF n
  <2>3. Now' = n /\ obj' = n.obj
    BY <2>1, <2>2, Becomes DEF AInv
  <2> QED
    BY <1>4, <2>2, <2>3 DEF Acceptors
<1> QED
  BY <1>2, <1>3, <1>4

LEMMA SwapStep ==
  ASSUME Acceptors, NEW a \in Acc, NEW b \in Acc, Swap(a, b)
  PROVE  /\ Acceptors'
         /\ \A c \in Acc : obj'[c].listener = IF c = a THEN obj[b].listener
                                              ELSE IF c = b THEN obj[a].listener
                                              ELSE obj[c].listener
<1> DEFINE n == SwapObj(Now, a, b)
<1>1. a \in Obj /\ b \in Obj /\ a # Tmp /\ b # Tmp /\ obj[a].alive /\ obj[b].alive /\ Become(n)
  BY AcceptorFacts DEF Swap, Used
<1>2. /\ AInv(n)
      /\ \A c \in Obj : /\ n.obj[c].listener = IF c = a THEN obj[b].listener
                                               ELSE IF c = b THEN obj[a].listener
                                               ELSE obj[c].listener
                        /\ c \notin {a, b} => n.obj[c] = obj[c]
  BY <1>1, AcceptorFacts, SwapFields
<1> HIDE DEF n
<1>3. Now' = n /\ obj' = n.obj
  BY <1>1, <1>2, Becomes DEF AInv
<1>4. obj'[Tmp] = Unborn
  BY <1>1, <1>2, <1>3, NullApart DEF Acceptors
<1> QED
  BY <1>2, <1>3, <1>4, AcceptorFacts DEF Acceptors

LEMMA EndStep ==
  ASSUME Acceptors, NEW a \in Acc, Close(a) \/ Destruct(a)
  PROVE  /\ Acceptors'
         /\ \A c \in Acc : obj'[c].listener = IF c = a THEN NULL ELSE obj[c].listener
<1>1. a \in Obj /\ obj[a].alive /\ a # Tmp
  BY AcceptorFacts DEF Close, Destruct, Used
<1>2. CASE Close(a)
  <2> DEFINE n == Destroy(MoveCtor(Now, Tmp, a), Tmp)
  <2>1. Become(n)
    BY <1>2 DEF Close
  <2>2. /\ AInv(n) /\ n.obj[Tmp] = Unborn
        /\ \A c \in Acc : n.obj[c].listener = IF c = a THEN NULL ELSE obj[c].listener
    BY <1>1, AcceptorFacts, CloseFields DEF Acceptors
  <2> HIDE DEF n
  <2>3. Now' = n /\ obj' = n.obj
    BY <2>1, <2>2, Becomes DEF AInv
  <2> QED
    BY <2>2, <2>3 DEF Acceptors
<1>3. CASE Destruct(a)
  <2> DEFINE n == Destroy(Now, a)
  <2>1. Become(n)
    BY <1>3 DEF Destruct
  <2>2. AInv(n) /\ \A c \in Obj : n.obj[c] = IF c = a THEN Unborn ELSE obj[c]
    BY <1>1, AcceptorFacts, DestroyFields
  <2> HIDE DEF n
  <2>3. Now' = n /\ obj' = n.obj
    BY <2>1, <2>2, Becomes DEF AInv
  <2> QED
    BY <1>1, <2>2, <2>3, AcceptorFacts, UnbornType, NullApart DEF Acceptors
<1> QED
  BY <1>2, <1>3

\* The end of a call of handle_accept frees the dying listeners.
LEMMA FinishStep ==
  ASSUME Acceptors, FinishAccept
  PROVE  Acceptors' /\ obj' = obj
<1>1. obj' = obj /\ lis' \in [Listener -> Context]
      /\ \A l \in Listener : lis[l] \in Obj \/ lis'[l] \in Obj => lis'[l] = lis[l]
  BY AcceptorFacts, StateTypes, NullApart DEF FinishAccept, Context
<1>2. Now' \in State /\ Now'.obj = obj /\ Now'.lis = lis'
  BY <1>1, AcceptorFacts, StateTypes DEF Now, State
<1>3. \A a \in Obj : CleanAt(Now', a) /\ LinkedAt(Now', a)
  <2> TAKE a \in Obj
  <2>1. obj[a].listener # NULL => obj[a].listener \in Listener
    BY AcceptorFacts, StateTypes DEF OrNull
  <2> QED
    BY <2>1, <1>1, <1>2, AcceptorFacts DEF AInv, CleanAt, LinkedAt
<1>4. \A l \in Listener : ReportsAt(Now', l)
  BY <1>1, <1>2, AcceptorFacts DEF AInv, ReportsAt
<1> QED
  BY <1>1, <1>2, <1>3, <1>4 DEF Acceptors, AInv

------------------------------------------------------------------------------
(* The set of connections. *)

\* What is closed downwards in an interval is an initial interval.
LEMMA DownClosed ==
  ASSUME NEW L \in Nat, NEW S \in SUBSET (1..L), \A m \in S : 1..m \subseteq S
  PROVE  Cardinality(S) \in Nat /\ S = 1..Cardinality(S)
<1> DEFINE k == Cardinality(S)
<1>1. IsFiniteSet(S) /\ k \in Nat
  <2>1. L \in Int /\ 1 \in Int
    OBVIOUS
  <2>2. IsFiniteSet(1..L)
    BY <2>1, FS_Interval
  <2>3. IsFiniteSet(S)
    BY <2>2, FS_Subset
  <2> QED
    BY <2>3, FS_CardinalityType
<1>2. S \subseteq 1..k
  <2> SUFFICES ASSUME NEW m \in S PROVE m <= k
    BY <1>1
  <2>1. m \in Nat /\ 1..m \in SUBSET S
    OBVIOUS
  <2>2. Cardinality(1..m) <= k
    BY <1>1, <2>1, FS_Subset
  <2>3. Cardinality(1..m) = m
    BY <2>1, FS_Interval
  <2> QED
    BY <2>2, <2>3
<1>3. IsFiniteSet(1..k) /\ Cardinality(1..k) = k
  BY <1>1, FS_Interval
<1>4. S = 1..k
  BY <1>2, <1>3, FS_Subset
<1> QED
  BY <1>1, <1>4

LEMMA InsertProps ==
  ASSUME NEW S, NEW q \in Seq(S), NEW n \in 1..Len(q) + 1, NEW e \in S
  PROVE  LET r == InsertAt(q, n, e) IN
         /\ r \in Seq(S) /\ Len(r) = Len(q) + 1
         /\ \A i \in 1..Len(q) + 1 : r[i] = IF i < n THEN q[i] ELSE IF i = n THEN e ELSE q[i - 1]
         /\ ToSet(r) = ToSet(q) \cup {e}
<1> DEFINE a == SubSeq(q, 1, n - 1)
           b == SubSeq(q, n, Len(q))
           t == a \o <<e>>
           r == t \o b
<1>1. Len(q) \in Nat /\ \A i \in 1..Len(q) : q[i] \in S
  BY LenProperties, ElementOfSeq
<1>2. /\ a \in Seq(S) /\ Len(a) = n - 1
      /\ \A i \in 1..n - 1 : a[i] = q[i]
  BY <1>1, SubSeqProperties
<1>3. /\ b \in Seq(S) /\ Len(b) = Len(q) - n + 1
      /\ \A i \in 1..Len(q) - n + 1 : b[i] = q[n + i - 1]
  BY <1>1, SubSeqProperties
<1> HIDE DEF a, b
<1>4. <<e>> \in Seq(S) /\ Len(<<e>>) = 1 /\ <<e>>[1] = e
  OBVIOUS
<1>5. /\ t \in Seq(S) /\ Len(t) = n
      /\ \A i \in 1..n : t[i] = IF i < n THEN q[i] ELSE e
  BY <1>2, <1>4, ConcatProperties
<1> HIDE DEF t
<1>6. /\ r \in Seq(S) /\ Len(r) = Len(q) + 1
      /\ \A i \in 1..Len(q) + 1 : r[i] = IF i <= n THEN t[i] ELSE b[i - n]
  <2>1. /\ r \in Seq(S) /\ Len(r) = Len(t) + Len(b)
        /\ \A i \in 1..Len(t) + Len(b) : r[i] = IF i <= Len(t) THEN t[i] ELSE b[i - Len(t)]
    BY <1>3, <1>5, ConcatProperties
  <2>2. Len(t) + Len(b) = Len(q) + 1
    BY <1>1, <1>3, <1>5
  <2> QED
    BY <1>5, <2>1, <2>2
<1> HIDE DEF r
<1>7. \A i \in 1..Len(q) + 1 : r[i] = IF i < n THEN q[i] ELSE IF i = n THEN e ELSE q[i - 1]
  <2> TAKE i \in 1..Len(q) + 1
  <2>1. CASE i <= n
    <3>1. i \in 1..n
      BY <2>1, <1>1
    <3> QED
      BY <2>1, <3>1, <1>1, <1>5, <1>6
  <2>2. CASE i > n
    <3>1. i - n \in 1..Len(q) - n + 1 /\ n + (i - n) - 1 = i - 1
      BY <2>2, <1>1
    <3>2. b[i - n] = q[i - 1]
      BY <3>1, <1>3
    <3> QED
      BY <2>2, <3>2, <1>1, <1>6
  <2> QED
    BY <2>1, <2>2, <1>1
<1>8. ToSet(r) = ToSet(q) \cup {e}
  <2>1. DOMAIN r = 1..Len(q) + 1 /\ DOMAIN q = 1..Len(q)
    BY <1>6, LenProperties
  <2>2. \A x \in ToSet(r) : x \in ToSet(q) \cup {e}
    BY <1>1, <1>7, <2>1 DEF ToSet
  <2>3. \A x \in ToSet(q) : x \in ToSet(r)
    <3> SUFFICES ASSUME NEW i \in 1..Len(q) PROVE q[i] \in ToSet(r)
      BY <2>1 DEF ToSet
    <3>1. i < n => r[i] = q[i] /\ i \in DOMAIN r
      BY <1>1, <1>7, <2>1
    <3>2. ~(i < n) => r[i + 1] = q[i] /\ i + 1 \in DOMAIN r
      BY <1>1, <1>7, <2>1
    <3> QED
      BY <3>1, <3>2 DEF ToSet
  <2>4. e \in ToSet(r)
    BY <1>7, <2>1 DEF ToSet
  <2> QED
    BY <2>2, <2>3, <2>4
<1> QED
  BY <1>6, <1>7, <1>8 DEF InsertAt, r, t, a, b

LEMMA CutProps ==
  ASSUME NEW S, NEW q \in Seq(S), NEW n \in 1..Len(q)
  PROVE  LET r == SubSeq(q, 1, n - 1) \o SubSeq(q, n + 1, Len(q)) IN
         /\ r \in Seq(S) /\ Len(r) = Len(q) - 1
         /\ \A i \in 1..Len(q) - 1 : r[i] = IF i < n THEN q[i] ELSE q[i + 1]
<1> DEFINE a == SubSeq(q, 1, n - 1)
           b == SubSeq(q, n + 1, Len(q))
<1>1. Len(q) \in Nat /\ \A i \in 1..Len(q) : q[i] \in S
  BY LenProperties, ElementOfSeq
<1>2. /\ a \in Seq(S) /\ Len(a) = n - 1
      /\ \A i \in 1..n - 1 : a[i] = q[i]
  BY <1>1, SubSeqProperties
<1>3. /\ b \in Seq(S) /\ Len(b) = Len(q) - n
      /\ \A i \in 1..Len(q) - n : b[i] = q[n + i]
  <2>1. n + 1 \in Int /\ Len(q) \in Int /\ \A i \in n + 1..Len(q) : q[i] \in S
    BY <1>1
  <2>2. /\ b \in Seq(S) /\ Len(b) = IF n + 1 <= Len(q) THEN Len(q) - (n + 1) + 1 ELSE 0
        /\ \A i \in 1..Len(q) - (n + 1) + 1 : b[i] = q[n + 1 + i - 1]
    BY <2>1, SubSeqProperties
  <2> QED
    BY <1>1, <2>2
<1> HIDE DEF a, b
<1>4. /\ a \o b \in Seq(S) /\ Len(a \o b) = Len(q) - 1
      /\ \A i \in 1..Len(q) - 1 : (a \o b)[i] = IF i <= n - 1 THEN a[i] ELSE b[i - (n - 1)]
  BY <1>1, <1>2, <1>3, ConcatProperties
<1>5. \A i \in 1..Len(q) - 1 : (a \o b)[i] = IF i < n THEN q[i] ELSE q[i + 1]
  <2> TAKE i \in 1..Len(q) - 1
  <2>1. CASE i < n
    <3>1. i \in 1..n - 1 /\ i <= n - 1
      BY <2>1, <1>1
    <3> QED
      BY <2>1, <3>1, <1>2, <1>4
  <2>2. CASE ~(i < n)
    <3>1. i - (n - 1) \in 1..Len(q) - n /\ n + (i - (n - 1)) = i + 1 /\ ~(i <= n - 1)
      BY <2>2, <1>1
    <3>2. b[i - (n - 1)] = q[i + 1]
      BY <3>1, <1>3
    <3> QED
      BY <2>2, <3>1, <3>2, <1>4
  <2> QED
    BY <2>1, <2>2
<1> QED
  BY <1>4, <1>5 DEF a, b

SetTypes ==
  /\ nodes \in Seq(Conn) /\ fd \in [Conn -> Fd \cup {-1}]
  /\ closing \in SUBSET Fd /\ open \in SUBSET Fd
  /\ running \subseteq ToSet(nodes)
  /\ frame.fd \in Fd \/ frame = NoFrame

IInv == Acceptors /\ SetTypes /\ AcceptedOwnedOnce /\ Sorted /\ AcceptedKept

LEMMA SetFacts ==
  ASSUME SetTypes
  PROVE  /\ Len(nodes) \in Nat /\ DOMAIN nodes = 1..Len(nodes)
         /\ \A n \in 1..Len(nodes) : nodes[n] \in Conn /\ fd[nodes[n]] \in Int
         /\ \A c \in Conn : fd[c] \in Int /\ (Live(c) => fd[c] \in Fd)
         /\ \A f \in Fd : f \in Int /\ f # -1 /\ f # NULL
<1>1. /\ nodes \in Seq(Conn) /\ fd \in [Conn -> Fd \cup {-1}]
  BY DEF SetTypes
<1>2. Len(nodes) \in Nat /\ DOMAIN nodes = 1..Len(nodes)
  BY <1>1, LenProperties
<1>3. \A f \in Fd : f \in Int /\ f # -1 /\ f # NULL
  BY NumberAssumption, NullApart
<1>4. \A c \in Conn : fd[c] \in Int /\ (Live(c) => fd[c] \in Fd)
  BY <1>1, <1>3 DEF Live
<1>5. \A n \in 1..Len(nodes) : nodes[n] \in Conn
  BY <1>1, ElementOfSeq
<1> QED
  BY <1>2, <1>3, <1>4, <1>5

\* In a sorted tree the search finds the place of a key.
LEMMA SearchFinds ==
  ASSUME SetTypes, Sorted, NEW key \in Int
  PROVE  /\ LowerBound(key) \in 1..Len(nodes) + 1
         /\ \A n \in 1..Len(nodes) : n < LowerBound(key) <=> fd[nodes[n]] < key
         /\ UpperBound(key) \in 1..Len(nodes) + 1
         /\ \A n \in 1..Len(nodes) : n < UpperBound(key) <=> fd[nodes[n]] <= key
<1> DEFINE L == Len(nodes)
           S == {n \in DOMAIN nodes : fd[nodes[n]] < key}
           T == {n \in DOMAIN nodes : fd[nodes[n]] <= key}
<1>1. L \in Nat /\ DOMAIN nodes = 1..L /\ \A n \in 1..L : fd[nodes[n]] \in Int
  BY SetFacts
<1>2. \A m, n \in 1..L : m < n => fd[nodes[m]] < fd[nodes[n]]
  BY <1>1 DEF Sorted, Less
<1>3. S \in SUBSET (1..L) /\ \A m \in S : 1..m \subseteq S
  BY <1>1, <1>2
<1>4. T \in SUBSET (1..L) /\ \A m \in T : 1..m \subseteq T
  BY <1>1, <1>2
<1>5. Cardinality(S) \in Nat /\ S = 1..Cardinality(S)
  BY <1>1, <1>3, DownClosed
<1>6. Cardinality(T) \in Nat /\ T = 1..Cardinality(T)
  BY <1>1, <1>4, DownClosed
<1>7. \A n \in 1..L : (n \in S <=> fd[nodes[n]] < key) /\ (n \in T <=> fd[nodes[n]] <= key)
  BY <1>1
<1>8. LowerBound(key) = Cardinality(S) + 1 /\ UpperBound(key) = Cardinality(T) + 1
  BY DEF LowerBound, UpperBound
<1> HIDE DEF S, T
<1>9. Cardinality(S) <= L /\ Cardinality(T) <= L
  <2>1. Cardinality(S) # 0 => Cardinality(S) \in S
    BY <1>5
  <2>2. Cardinality(T) # 0 => Cardinality(T) \in T
    BY <1>6
  <2> QED
    BY <1>1, <1>3, <1>4, <1>5, <1>6, <2>1, <2>2
<1>10. \A n \in 1..L : (n < LowerBound(key) <=> n \in S) /\ (n < UpperBound(key) <=> n \in T)
  <2> TAKE n \in 1..L
  <2>1. n \in S <=> n <= Cardinality(S)
    BY <1>1, <1>5
  <2>2. n \in T <=> n <= Cardinality(T)
    BY <1>1, <1>6
  <2> QED
    BY <1>1, <1>5, <1>6, <1>8, <2>1, <2>2
<1> QED
  BY <1>1, <1>5, <1>6, <1>7, <1>8, <1>9, <1>10

\* A connection whose descriptor is new goes into the set, at its place.
LEMMA EmplaceStep ==
  ASSUME SetTypes, Sorted, AcceptedKept, NEW c \in Conn, NEW f \in Fd, Emplace(c, f),
         \A d \in Conn : fd[d] # f
  PROVE  /\ nodes' \in Seq(Conn) /\ ToSet(nodes') = ToSet(nodes) \cup {c}
         /\ fd' = [fd EXCEPT ![c] = f] /\ Sorted' /\ AcceptedKept'
         /\ closing' = closing /\ running' = running
<1> DEFINE p == LowerBound(f)
<1>1. f \in Int /\ f # -1 /\ Len(nodes) \in Nat
  BY SetFacts
<1>2. \A d \in ToSet(nodes) : d \in Conn
  BY SetFacts DEF ToSet
<1>3. /\ p \in 1..Len(nodes) + 1
      /\ \A n \in 1..Len(nodes) : n < p <=> fd[nodes[n]] < f
  BY <1>1, SearchFinds
<1>4. /\ fd' = [fd EXCEPT ![c] = f] /\ nodes' = InsertAt(nodes, p, c)
      /\ lost' = lost /\ closing' = closing /\ running' = running /\ ~Live(c)
  BY <1>2 DEF Emplace
<1> HIDE DEF p
<1>5. /\ nodes' \in Seq(Conn) /\ Len(nodes') = Len(nodes) + 1
      /\ \A i \in 1..Len(nodes) + 1 :
           nodes'[i] = IF i < p THEN nodes[i] ELSE IF i = p THEN c ELSE nodes[i - 1]
      /\ ToSet(nodes') = ToSet(nodes) \cup {c}
  <2> DEFINE r == InsertAt(nodes, p, c)
  <2>1. nodes \in Seq(Conn) /\ nodes' = r
    BY <1>4 DEF SetTypes
  <2>2. /\ r \in Seq(Conn) /\ Len(r) = Len(nodes) + 1
        /\ \A i \in 1..Len(nodes) + 1 :
             r[i] = IF i < p THEN nodes[i] ELSE IF i = p THEN c ELSE nodes[i - 1]
        /\ ToSet(r) = ToSet(nodes) \cup {c}
    <3>1. nodes \in Seq(Conn) /\ p \in 1..Len(nodes) + 1 /\ c \in Conn
      BY <2>1, <1>3
    <3> QED
      BY ONLY <3>1, InsertProps
  <2> HIDE DEF r
  <2> QED
    BY <2>1, <2>2
<1>6. \A i \in 1..Len(nodes) : nodes[i] # c
  BY <1>4, SetFacts DEF AcceptedKept, ToSet
<1>7. /\ fd'[c] = f
      /\ \A i \in 1..Len(nodes) : fd'[nodes[i]] = fd[nodes[i]] /\ fd[nodes[i]] \in Int /\ fd[nodes[i]] # f
  BY <1>4, <1>6, SetFacts DEF SetTypes
<1>8. Sorted'
  <2> SUFFICES ASSUME NEW m \in 1..Len(nodes) + 1, NEW n \in 1..Len(nodes) + 1, m < n
               PROVE  fd'[nodes'[m]] < fd'[nodes'[n]]
    BY <1>5, LenProperties DEF Sorted, Less
  <2>1. \A i, j \in 1..Len(nodes) : i < j => fd[nodes[i]] < fd[nodes[j]]
    BY SetFacts DEF Sorted, Less
  <2>2. CASE n < p
    BY <2>2, <2>1, <1>1, <1>3, <1>5, <1>7
  <2>3. CASE n = p
    <3>1. m \in 1..Len(nodes) /\ m < p
      BY <2>3, <1>1, <1>3
    <3> QED
      BY <2>3, <3>1, <1>3, <1>5, <1>7
  <2>4. CASE n > p
    <3>1. n - 1 \in 1..Len(nodes) /\ ~(n - 1 < p) /\ nodes'[n] = nodes[n - 1]
      BY <2>4, <1>1, <1>3, <1>5
    <3>2. fd'[nodes'[n]] = fd[nodes[n - 1]] /\ f < fd[nodes[n - 1]]
      BY <3>1, <1>1, <1>3, <1>7
    <3>3. CASE m < p
      <4>1. m \in 1..Len(nodes) /\ m < n - 1 /\ nodes'[m] = nodes[m]
        BY <3>3, <2>4, <1>1, <1>3, <1>5
      <4> QED
        BY <4>1, <3>1, <3>2, <2>1, <1>7
    <3>4. CASE m = p
      BY <3>4, <3>2, <1>5, <1>7
    <3>5. CASE m > p
      <4>1. m - 1 \in 1..Len(nodes) /\ m - 1 < n - 1 /\ nodes'[m] = nodes[m - 1]
        <5>1. ~(m < p) /\ m # p /\ m - 1 \in 1..Len(nodes) /\ m - 1 < n - 1
          BY <3>5, <1>1, <1>3
        <5> QED
          BY <5>1, <1>5
      <4> QED
        BY <4>1, <3>1, <3>2, <2>1, <1>7
    <3> QED
      BY <3>3, <3>4, <3>5, <1>3
  <2> QED
    BY <2>2, <2>3, <2>4, <1>3
<1>9. AcceptedKept'
  BY <1>1, <1>4, <1>5 DEF AcceptedKept, Live, SetTypes
<1> QED
  BY <1>4, <1>5, <1>8, <1>9

\* erase() takes the connection out of the set and nothing else.
LEMMA EraseStep ==
  ASSUME SetTypes, Sorted, AcceptedKept, NEW c \in ToSet(nodes),
         Erase(LowerBound(fd[c]), UpperBound(fd[c])), lost' = lost
  PROVE  /\ nodes' \in Seq(Conn) /\ c \in Conn /\ Live(c)
         /\ fd' = [fd EXCEPT ![c] = -1] /\ Sorted' /\ AcceptedKept'
         /\ closing' = closing \cup {fd[c]}
<1>1. PICK p \in 1..Len(nodes) : nodes[p] = c
  BY SetFacts DEF ToSet
<1>2. /\ Len(nodes) \in Nat /\ c \in Conn /\ fd[c] \in Int
      /\ \A n \in 1..Len(nodes) : fd[nodes[n]] \in Int
  BY <1>1, SetFacts
<1>3. \A m, n \in 1..Len(nodes) : m < n => fd[nodes[m]] < fd[nodes[n]]
  BY SetFacts DEF Sorted, Less
<1>4. LowerBound(fd[c]) = p /\ UpperBound(fd[c]) = p + 1
  <2> DEFINE lb == LowerBound(fd[c])
             ub == UpperBound(fd[c])
  <2>1. /\ lb \in 1..Len(nodes) + 1 /\ ub \in 1..Len(nodes) + 1
        /\ \A n \in 1..Len(nodes) : n < lb <=> fd[nodes[n]] < fd[c]
        /\ \A n \in 1..Len(nodes) : n < ub <=> fd[nodes[n]] <= fd[c]
    BY <1>2, SearchFinds
  <2> HIDE DEF lb, ub
  <2>2. ~(p < lb) /\ p < ub
    BY <1>1, <1>2, <2>1
  <2>3. ~(lb < p)
    BY <1>1, <1>2, <1>3, <2>1
  <2>4. ~(p + 1 < ub)
    <3> SUFFICES ASSUME p + 1 < ub PROVE FALSE
      OBVIOUS
    <3>1. p + 1 \in 1..Len(nodes) /\ p < p + 1
      BY <1>2, <2>1
    <3>2. fd[nodes[p + 1]] <= fd[c] /\ fd[c] < fd[nodes[p + 1]]
      BY <3>1, <2>1, <1>1, <1>3
    <3> QED
      BY <3>1, <3>2, <1>2
  <2> QED
    BY <1>2, <2>1, <2>2, <2>3, <2>4 DEF lb, ub
<1>5. Between(p, p + 1) = {c}
  <2>1. p..p + 1 - 1 = {p}
    BY <1>2
  <2> QED
    BY <1>1, <2>1 DEF Between
<1>6. /\ nodes' = SubSeq(nodes, 1, p - 1) \o SubSeq(nodes, p + 1, Len(nodes))
      /\ fd' = [fd EXCEPT ![c] = -1] /\ closing' = closing \cup {fd[c]}
  BY <1>2, <1>4, <1>5 DEF Erase, SetTypes
<1>7. /\ nodes' \in Seq(Conn) /\ Len(nodes') = Len(nodes) - 1
      /\ \A i \in 1..Len(nodes) - 1 : nodes'[i] = IF i < p THEN nodes[i] ELSE nodes[i + 1]
  BY <1>6, CutProps DEF SetTypes
<1>8. DOMAIN nodes' = 1..Len(nodes) - 1
  BY <1>7, LenProperties
<1>9. \A i \in 1..Len(nodes) : i # p => nodes[i] # c
  <2> TAKE i \in 1..Len(nodes)
  <2>1. i < p => fd[nodes[i]] < fd[nodes[p]]
    BY <1>3
  <2>2. p < i => fd[nodes[p]] < fd[nodes[i]]
    BY <1>3
  <2> QED
    BY <2>1, <2>2, <1>1, <1>2
<1>10. ToSet(nodes') = ToSet(nodes) \ {c}
  <2>1. \A x \in ToSet(nodes') : x \in ToSet(nodes) \ {c}
    <3> SUFFICES ASSUME NEW i \in 1..Len(nodes) - 1 PROVE nodes'[i] \in ToSet(nodes) \ {c}
      BY <1>8 DEF ToSet
    <3>1. i \in 1..Len(nodes) /\ i + 1 \in 1..Len(nodes) /\ (i < p => i # p) /\ (~(i < p) => i + 1 # p)
      BY <1>2
    <3> QED
      BY <3>1, <1>7, <1>9, SetFacts DEF ToSet
  <2>2. \A x \in ToSet(nodes) \ {c} : x \in ToSet(nodes')
    <3> SUFFICES ASSUME NEW i \in 1..Len(nodes), nodes[i] # c PROVE nodes[i] \in ToSet(nodes')
      BY SetFacts DEF ToSet
    <3>1. CASE i < p
      <4>1. i \in 1..Len(nodes) - 1
        BY <3>1, <1>2
      <4> QED
        BY <3>1, <4>1, <1>7, <1>8 DEF ToSet
    <3>2. CASE i > p
      <4>1. i - 1 \in 1..Len(nodes) - 1 /\ ~(i - 1 < p) /\ (i - 1) + 1 = i
        BY <3>2, <1>2
      <4>2. nodes'[i - 1] = nodes[i]
        BY <4>1, <1>7
      <4> QED
        BY <4>1, <4>2, <1>8 DEF ToSet
    <3> QED
      BY <3>1, <3>2, <1>1, <1>2
  <2> QED
    BY <2>1, <2>2
<1>11. Sorted'
  <2> SUFFICES ASSUME NEW m \in 1..Len(nodes) - 1, NEW n \in 1..Len(nodes) - 1, m < n
               PROVE  fd'[nodes'[m]] < fd'[nodes'[n]]
    BY <1>8 DEF Sorted, Less
  <2>1. PICK i \in 1..Len(nodes), j \in 1..Len(nodes) :
          i < j /\ nodes'[m] = nodes[i] /\ nodes'[n] = nodes[j] /\ i # p /\ j # p
    <3>1. CASE n < p
      <4>1. /\ m \in 1..Len(nodes) /\ n \in 1..Len(nodes) /\ m < p /\ m # p /\ n # p
            /\ nodes'[m] = nodes[m] /\ nodes'[n] = nodes[n]
        BY <3>1, <1>2, <1>7
      <4> QED
        BY <4>1
    <3>2. CASE m < p /\ ~(n < p)
      <4>1. /\ m \in 1..Len(nodes) /\ n + 1 \in 1..Len(nodes) /\ m < n + 1 /\ m # p /\ n + 1 # p
            /\ nodes'[m] = nodes[m] /\ nodes'[n] = nodes[n + 1]
        BY <3>2, <1>2, <1>7
      <4> QED
        BY <4>1
    <3>3. CASE ~(m < p)
      <4>1. /\ m + 1 \in 1..Len(nodes) /\ n + 1 \in 1..Len(nodes) /\ m + 1 < n + 1
            /\ m + 1 # p /\ n + 1 # p
            /\ nodes'[m] = nodes[m + 1] /\ nodes'[n] = nodes[n + 1]
        BY <3>3, <1>2, <1>7
      <4> QED
        BY <4>1
    <3> QED
      BY <3>1, <3>2, <3>3
  <2>2. fd'[nodes[i]] = fd[nodes[i]] /\ fd'[nodes[j]] = fd[nodes[j]]
    BY <2>1, <1>6, <1>9, SetFacts DEF SetTypes
  <2> QED
    BY <2>1, <2>2, <1>3
<1>12. AcceptedKept'
  BY <1>2, <1>6, <1>10 DEF AcceptedKept, Live, SetTypes
<1> QED
  BY <1>2, <1>6, <1>7, <1>11, <1>12 DEF AcceptedKept

------------------------------------------------------------------------------
(* The invariant is inductive. *)

\* Outside a handler nobody guards a descriptor, inside it one is guarded.
LEMMA FrameFacts ==
  ASSUME SetTypes
  PROVE  /\ NoFrame.fd = NULL
         /\ InHandler <=> frame.fd \in Fd
         /\ ~InHandler => frame.fd = NULL
BY NullApart DEF SetTypes, InHandler, NoFrame

LEMMA InitIInv == Init => IInv
<1> SUFFICES ASSUME Init PROVE IInv
  OBVIOUS
<1>1. Now \in State /\ Now.obj = obj /\ Now.lis = lis
  BY UnbornType DEF Init, AcceptorInit, Now, State, Context
<1>2. (\A a \in Obj : obj[a] = Unborn) /\ \A l \in Listener : lis[l] = "free"
  BY DEF Init, AcceptorInit
<1>3. Acceptors
  BY <1>1, <1>2, UnbornType, NullApart DEF Acceptors, AInv, CleanAt, LinkedAt, ReportsAt
<1>4. SetTypes
  BY EmptySeq DEF SetTypes, Init, AcceptorInit, SetInit
<1>5. /\ nodes = <<>> /\ \A c \in Conn : ~Live(c)
      /\ fd = [c \in Conn |-> -1] /\ frame.fd = NULL
  BY DEF Init, SetInit, AcceptorInit, Live, NoFrame
<1>6. AcceptedOwnedOnce
  BY <1>5, NumberAssumption DEF AcceptedOwnedOnce, Init, AcceptorInit, SetInit
<1>7. Sorted
  BY <1>5 DEF Sorted
<1>8. AcceptedKept
  BY <1>5 DEF AcceptedKept, ToSet, Init, SetInit
<1> QED
  BY <1>3, <1>4, <1>6, <1>7, <1>8 DEF IInv

\* The server's descriptors do not change while the program uses its acceptors.
LEMMA UseAcceptorsIInv ==
  ASSUME IInv, UseAcceptors, UNCHANGED setVars
  PROVE  IInv'
<1>1. Acceptors'
  BY ConstructStep, ConfigureStep, MoveStep, SwapStep, EndStep DEF IInv, UseAcceptors
<1>2. UNCHANGED <<frame, open, bad>>
  BY DEF UseAcceptors, Construct, SetEventHandler, SetExtraData, Close, Destruct,
         MoveConstruct, MoveAssign, Swap, Become
<1> QED
  BY <1>1, <1>2 DEF IInv, setVars, SetTypes, AcceptedOwnedOnce, Sorted, AcceptedKept, Live, Less

LEMMA LoopAcceptsIInv ==
  ASSUME IInv, NEW l \in Listener, NEW f \in Fd, HandleAccept(l, f), UNCHANGED setVars
  PROVE  IInv'
<1>1. Acceptors'
  BY DEF IInv, Acceptors, Now, HandleAccept
<1>2. /\ f \notin open /\ frame.fd = NULL /\ UNCHANGED <<obj, lis, bad>>
  BY FrameFacts DEF IInv, HandleAccept
<1>3. CASE UNCHANGED <<frame, open>>
  BY <1>1, <1>2, <1>3 DEF IInv, setVars, SetTypes, AcceptedOwnedOnce, Sorted, AcceptedKept, Live, Less
<1>4. CASE frame' = [fd |-> f, listener |-> l] /\ open' = open \cup {f}
  <2>1. frame'.fd = f /\ f # NULL /\ f # -1
    BY <1>4, SetFacts DEF IInv
  <2>2. AcceptedOwnedOnce'
    BY <1>2, <1>4, <2>1, SetFacts DEF IInv, AcceptedOwnedOnce, setVars, Live
  <2>3. SetTypes'
    BY <1>4, <2>1 DEF IInv, SetTypes, setVars
  <2> QED
    BY <1>1, <2>2, <2>3 DEF IInv, setVars, Sorted, AcceptedKept, Live, Less
<1> QED
  BY <1>3, <1>4 DEF HandleAccept

LEMMA AcceptReturnsIInv ==
  ASSUME IInv, AcceptReturns
  PROVE  IInv'
<1>1. frame.fd \in Fd /\ frame' = NoFrame /\ frame'.fd = NULL /\ Acceptors'
  BY FinishStep, FrameFacts DEF IInv, AcceptReturns, HandlerTakes, HandlerRefuses, FinishAccept
<1>2. frame.fd # NULL /\ frame.fd # -1 /\ frame.fd \in open
  BY <1>1, SetFacts DEF IInv, AcceptedOwnedOnce
<1>3. ASSUME HandlerTakes, NEW c \in Conn, Emplace(c, frame.fd)
      PROVE  IInv'
  <2>1. UNCHANGED <<open, bad>> /\ ~Live(c)
    BY <1>3 DEF HandlerTakes, Emplace
  <2>2. \A d \in Conn : fd[d] # frame.fd
    BY DEF IInv, AcceptedOwnedOnce
  <2>3. /\ nodes' \in Seq(Conn) /\ ToSet(nodes') = ToSet(nodes) \cup {c}
        /\ fd' = [fd EXCEPT ![c] = frame.fd] /\ Sorted' /\ AcceptedKept'
        /\ closing' = closing /\ running' = running
    BY <1>1, <1>3, <2>2, EmplaceStep DEF IInv
  <2>4. SetTypes'
    BY <1>1, <2>1, <2>3 DEF IInv, SetTypes
  <2>5. \A d \in Conn : fd'[d] = IF d = c THEN frame.fd ELSE fd[d]
    BY <2>3 DEF IInv, SetTypes
  <2>6. \A d \in Conn : fd'[d] # -1 <=> d = c \/ Live(d)
    BY <1>2, <2>5 DEF Live
  <2>7. {fd'[d] : d \in {e \in Conn : fd'[e] # -1}}
          = {fd[d] : d \in {e \in Conn : Live(e)}} \cup {frame.fd}
    BY <2>1, <2>5, <2>6
  <2>8. AcceptedOwnedOnce'
    <3>1. open' = ({frame'.fd} \ {NULL}) \cup {fd'[d] : d \in {e \in Conn : fd'[e] # -1}} \cup closing'
      BY <1>1, <1>2, <2>1, <2>3, <2>7 DEF IInv, AcceptedOwnedOnce
    <3>2. \A d \in Conn : fd'[d] \notin closing' \cup {frame'.fd}
      BY <1>1, <1>2, <2>3, <2>5, SetFacts, NumberAssumption DEF IInv, AcceptedOwnedOnce, Live
    <3>3. \A d, e \in Conn : fd'[d] # -1 /\ fd'[d] = fd'[e] => d = e
      BY <2>2, <2>5, <2>6 DEF IInv, AcceptedOwnedOnce, Live
    <3>4. frame'.fd \notin closing' /\ ~bad'
      BY <1>1, <2>1, <2>3, NullApart DEF IInv, AcceptedOwnedOnce, SetTypes
    <3> QED
      BY <3>1, <3>2, <3>3, <3>4 DEF AcceptedOwnedOnce, Live
  <2> QED
    BY <1>1, <2>3, <2>4, <2>8 DEF IInv
<1>4. CASE HandlerRefuses /\ UNCHANGED setVars
  <2>1. open' = open \ {frame.fd} /\ ~bad'
    BY <1>2, <1>4 DEF HandlerRefuses, CloseFd
  <2>2. SetTypes'
    BY <1>1, <1>4, <2>1 DEF IInv, SetTypes, setVars
  <2>3. \A c \in Conn : fd[c] # frame.fd /\ (~Live(c) => fd[c] = -1) /\ fd[c] # NULL
    BY NumberAssumption, SetFacts DEF IInv, AcceptedOwnedOnce, Live
  <2>4. frame.fd \notin closing /\ NULL \notin closing
    BY NullApart DEF IInv, AcceptedOwnedOnce, SetTypes
  <2>5. AcceptedOwnedOnce'
    BY <1>1, <1>2, <1>4, <2>1, <2>3, <2>4 DEF IInv, AcceptedOwnedOnce, setVars, Live
  <2> QED
    BY <1>1, <1>4, <2>2, <2>5 DEF IInv, setVars, Sorted, AcceptedKept, Live, Less
<1> QED
  BY <1>3, <1>4 DEF AcceptReturns

LEMMA HandlerReturnsIInv ==
  ASSUME IInv, HandlerReturns
  PROVE  IInv'
<1>1. Acceptors' /\ UNCHANGED <<frame, open, bad>>
  BY DEF IInv, HandlerReturns, acceptorVars, Acceptors, Now
<1>2. CASE Return
  BY <1>1, <1>2 DEF IInv, Return, SetTypes, AcceptedOwnedOnce, Sorted, AcceptedKept, Live, Less
<1>3. ASSUME NEW c \in Conn, HandleEnd(c) PROVE IInv'
  <2>1. c \in ToSet(nodes) /\ running' = {}
    BY <1>3 DEF IInv, SetTypes, HandleEnd
  <2>2. /\ nodes' \in Seq(Conn) /\ Live(c)
        /\ fd' = [fd EXCEPT ![c] = -1] /\ Sorted' /\ AcceptedKept'
        /\ closing' = closing \cup {fd[c]}
    BY <1>3, <2>1, EraseStep DEF IInv, HandleEnd
  <2>3. fd[c] \in Fd /\ fd[c] # frame.fd
    BY <2>2, SetFacts DEF IInv, AcceptedOwnedOnce
  <2>4. SetTypes'
    BY <1>1, <2>1, <2>2, <2>3 DEF IInv, SetTypes
  <2>5. \A d \in Conn : fd'[d] = IF d = c THEN -1 ELSE fd[d]
    BY <2>2 DEF IInv, SetTypes
  <2>6. {fd[d] : d \in {e \in Conn : Live(e)}}
          = {fd'[d] : d \in {e \in Conn : fd'[e] # -1}} \cup {fd[c]}
    BY <2>2, <2>5 DEF Live
  <2>7. AcceptedOwnedOnce'
    <3>1. open' = ({frame'.fd} \ {NULL}) \cup {fd'[d] : d \in {e \in Conn : fd'[e] # -1}} \cup closing'
      BY <1>1, <2>2, <2>6 DEF IInv, AcceptedOwnedOnce
    <3>2. -1 \notin closing' /\ frame'.fd # -1
      BY <1>1, <2>2, <2>3, SetFacts, FrameFacts, NumberAssumption DEF IInv, SetTypes
    <3>3. \A d \in Conn : fd'[d] \notin closing' \cup {frame'.fd}
      <4> TAKE d \in Conn
      <4>1. CASE d = c
        BY <4>1, <2>5, <3>2
      <4>2. CASE d # c
        BY <4>2, <1>1, <2>2, <2>5 DEF IInv, AcceptedOwnedOnce
      <4> QED
        BY <4>1, <4>2
    <3>4. \A d, e \in Conn : fd'[d] # -1 /\ fd'[d] = fd'[e] => d = e
      BY <2>5 DEF IInv, AcceptedOwnedOnce, Live
    <3>5. frame'.fd \notin closing' /\ ~bad'
      BY <1>1, <2>2, <2>3 DEF IInv, AcceptedOwnedOnce
    <3> QED
      BY <3>1, <3>3, <3>4, <3>5 DEF AcceptedOwnedOnce, Live
  <2> QED
    BY <1>1, <2>2, <2>4, <2>7 DEF IInv
<1> QED
  BY <1>2, <1>3 DEF HandlerReturns

LEMMA LoopFreesIInv ==
  ASSUME IInv, LoopFrees
  PROVE  IInv'
<1>1. /\ UNCHANGED <<obj, lis, frame, nodes, fd, running, lost>>
      /\ closing' = {} /\ open' = open \ closing /\ frame.fd = NULL
  BY FrameFacts DEF IInv, LoopFrees, FinishFree, InLoop
<1>2. ~bad'
  BY DEF IInv, AcceptedOwnedOnce, LoopFrees
<1>3. AcceptedOwnedOnce'
  BY <1>1, <1>2 DEF IInv, AcceptedOwnedOnce, Live
<1> QED
  BY <1>1, <1>3 DEF IInv, Acceptors, Now, SetTypes, Sorted, AcceptedKept, Live, Less

LEMMA StepIInv == IInv /\ [Next]_vars => IInv'
<1> SUFFICES ASSUME IInv, [Next]_vars PROVE IInv'
  OBVIOUS
<1>1. CASE UseAcceptors /\ UNCHANGED setVars
  BY <1>1, UseAcceptorsIInv
<1>2. CASE LoopAccepts
  BY <1>2, LoopAcceptsIInv DEF LoopAccepts
<1>3. CASE AcceptReturns
  BY <1>3, AcceptReturnsIInv
<1>4. CASE LoopReports
  BY <1>4 DEF LoopReports, Event, acceptorVars, IInv, Acceptors, Now, SetTypes,
              AcceptedOwnedOnce, Sorted, AcceptedKept, Live, Less
<1>5. CASE HandlerReturns
  BY <1>5, HandlerReturnsIInv
<1>6. CASE LoopFrees
  BY <1>6, LoopFreesIInv
<1>7. CASE UNCHANGED vars
  BY <1>7 DEF vars, acceptorVars, setVars, IInv, Acceptors, Now, SetTypes,
              AcceptedOwnedOnce, Sorted, AcceptedKept, Live, Less
<1> QED
  BY <1>1, <1>2, <1>3, <1>4, <1>5, <1>6, <1>7 DEF Next

LEMMA SpecIInv == Spec => []IInv
BY InitIInv, StepIInv, PTL DEF Spec

\* Each open descriptor has exactly one owner on its way from accept to close, and
\* none is closed twice.
THEOREM DescriptorsOwnedOnce == Spec => []AcceptedOwnedOnce
<1>1. IInv => AcceptedOwnedOnce
  BY DEF IInv
<1> QED
  BY SpecIInv, <1>1, PTL

\* The set of connections stays sorted, although its keys are read from live objects.
THEOREM SetSorted == Spec => []Sorted
<1>1. IInv => Sorted
  BY DEF IInv
<1> QED
  BY SpecIInv, <1>1, PTL

\* emplace() turns no connection away, and the set holds exactly those with a
\* descriptor.
THEOREM ConnectionsKept == Spec => []AcceptedKept
<1>1. IInv => AcceptedKept
  BY DEF IInv
<1> QED
  BY SpecIInv, <1>1, PTL

------------------------------------------------------------------------------
(* The acceptors implement HandleOwnership. *)

\* A listener is reported to the acceptor that holds it.
LEMMA SinkIsHolder ==
  ASSUME NEW s, AInv(s), NEW a \in Acc
  PROVE  (IF s.obj[a].listener = NULL THEN NULL ELSE s.lis[s.obj[a].listener])
           = IF s.obj[a].listener = NULL THEN NULL ELSE a
BY DEF AInv, LinkedAt, Obj

LEMMA AlwaysReported ==
  ASSUME Acceptors' PROVE Abs!Reported
<1>1. AInv(Now') /\ Now'.obj = obj' /\ Now'.lis = lis'
  BY DEF Acceptors, Now
<1>2. \A a \in Acc : (IF obj'[a].listener = NULL THEN NULL ELSE lis'[obj'[a].listener])
                       = IF obj'[a].listener = NULL THEN NULL ELSE a
  BY <1>1, SinkIsHolder
<1> QED
  BY <1>2 DEF Abs!Reported

LEMMA InitAbs == Init => Abs!Init
BY UnbornType DEF Init, AcceptorInit, Abs!Init, Obj

LEMMA StepAbs == IInv /\ IInv' /\ [Next]_vars => [Abs!Next]_(Abs!vars)
<1> SUFFICES ASSUME IInv, IInv', [Next]_vars PROVE [Abs!Next]_(Abs!vars)
  OBVIOUS
<1> DEFINE Holds == [a \in Acc |-> obj[a].listener]
<1>1. Acceptors /\ Acceptors' /\ Abs!Reported
  BY AlwaysReported DEF IInv
<1>2. ASSUME \A a \in Acc : obj'[a].listener = obj[a].listener
      PROVE  UNCHANGED Abs!vars
  <2>1. Holds' = Holds
    BY <1>2
  <2>2. AInv(Now) /\ Now.obj = obj /\ Now.lis = lis
    BY <1>1, AcceptorFacts
  <2>3. AInv(Now') /\ Now'.obj = obj' /\ Now'.lis = lis'
    BY <1>1 DEF Acceptors, Now
  <2>4. \A a \in Acc : (IF obj'[a].listener = NULL THEN NULL ELSE lis'[obj'[a].listener])
                         = IF obj[a].listener = NULL THEN NULL ELSE lis[obj[a].listener]
    BY <1>2, <2>2, <2>3, SinkIsHolder
  <2> QED
    BY <2>1, <2>4 DEF Abs!vars
<1>3. ASSUME NEW a \in Acc, NEW l \in Listener, NEW h \in BOOLEAN, Construct(a, l, h)
      PROVE  Abs!Acquire(a, l)
  <2>1. Holds' = [Holds EXCEPT ![a] = l]
    <3>1. \A c \in Acc : obj'[c].listener = IF c = a THEN l ELSE obj[c].listener
      BY <1>1, <1>3, ConstructStep
    <3> QED
      BY <3>1
  <2>2. obj[a] = Unborn /\ lis[l] = "free"
    BY <1>1, <1>3, AcceptorFacts DEF Construct, Fresh
  <2>3. \A c \in Acc : obj[c].listener # l
    BY <1>1, <2>2, AcceptorFacts, NullApart DEF AInv, LinkedAt
  <2>4. Holds[a] = NULL /\ l \notin Abs!Held
    BY <2>2, <2>3, UnbornType DEF Abs!Held
  <2> QED
    BY <1>1, <2>1, <2>4 DEF Abs!Acquire
<1>4. ASSUME NEW a \in Acc, SetEventHandler(a) \/ SetExtraData(a) PROVE UNCHANGED Abs!vars
  BY <1>1, <1>2, <1>4, ConfigureStep
<1>5. ASSUME NEW a \in Acc, Close(a) \/ Destruct(a) PROVE Abs!Release(a)
  <2>1. \A c \in Acc : obj'[c].listener = IF c = a THEN NULL ELSE obj[c].listener
    BY <1>1, <1>5, EndStep
  <2>2. Holds' = [Holds EXCEPT ![a] = NULL]
    BY <2>1
  <2> QED
    BY <1>1, <2>2 DEF Abs!Release
<1>6. ASSUME NEW d \in Acc, NEW r \in Acc, MoveConstruct(d, r) \/ MoveAssign(d, r)
      PROVE  UNCHANGED Abs!vars \/ Abs!Transfer(d, r)
  <2>1. CASE d = r /\ obj' = obj
    BY <1>2, <2>1
  <2>2. CASE d # r /\ \A c \in Acc : obj'[c].listener = IF c = d THEN obj[r].listener
                                                        ELSE IF c = r THEN NULL ELSE obj[c].listener
    <3>1. Holds' = [Holds EXCEPT ![d] = Holds[r], ![r] = NULL]
      BY <2>2
    <3> QED
      BY <1>1, <2>2, <3>1 DEF Abs!Transfer
  <2> QED
    BY <1>1, <1>6, <2>1, <2>2, MoveStep
<1>7. ASSUME NEW a \in Acc, NEW b \in Acc, Swap(a, b) PROVE Abs!Exchange(a, b)
  <2>1. \A c \in Acc : obj'[c].listener = IF c = a THEN obj[b].listener
                                          ELSE IF c = b THEN obj[a].listener ELSE obj[c].listener
    BY <1>1, <1>7, SwapStep
  <2>2. Holds' = [Holds EXCEPT ![a] = Holds[b], ![b] = Holds[a]]
    BY <2>1
  <2> QED
    BY <1>1, <2>2 DEF Abs!Exchange
<1>8. CASE LoopAccepts \/ LoopReports \/ HandlerReturns \/ LoopFrees \/ UNCHANGED vars
  <2>1. obj' = obj
    BY <1>8 DEF LoopAccepts, HandleAccept, LoopReports, HandlerReturns, LoopFrees, vars, acceptorVars
  <2> QED
    BY <1>2, <2>1
<1>9. CASE AcceptReturns
  <2>1. obj' = obj
    BY <1>9 DEF AcceptReturns, HandlerTakes, HandlerRefuses, FinishAccept
  <2> QED
    BY <1>2, <2>1
<1> QED
  BY <1>3, <1>4, <1>5, <1>6, <1>7, <1>8, <1>9 DEF Next, UseAcceptors, Abs!Next

\* tcp_acceptor implements the ownership every wrapper promises, whatever its accept
\* handler does with it.
THEOREM OwnershipImplemented == Spec => ImplementsOwnership
BY SpecIInv, InitAbs, StepAbs, PTL DEF Spec, ImplementsOwnership, Abs!Spec

\* No two acceptors share a listener, and an accepted descriptor is reported to the one
\* that has it.
THEOREM ListenersExclusive == Spec => [](Abs!ExclusiveHolder /\ Abs!ReportedToHolder)
<1>1. Acceptors => AInv(Now) /\ Now.obj = obj /\ Now.lis = lis
  BY DEF Acceptors, Now
<1>2. IInv => Abs!ExclusiveHolder
  <2> SUFFICES ASSUME Acceptors, NEW a \in Acc, NEW b \in Acc,
                      obj[a].listener # NULL, obj[a].listener = obj[b].listener
               PROVE  a = b
    BY DEF Abs!ExclusiveHolder, IInv
  <2> QED
    BY <1>1 DEF AInv, LinkedAt, Obj
<1>3. IInv => Abs!ReportedToHolder
  <2> SUFFICES ASSUME Acceptors PROVE Abs!ReportedToHolder
    BY DEF IInv
  <2>1. \A a \in Acc : (IF obj[a].listener = NULL THEN NULL ELSE lis[obj[a].listener])
                         = IF obj[a].listener = NULL THEN NULL ELSE a
    BY <1>1, SinkIsHolder
  <2> QED
    BY <2>1 DEF Abs!ReportedToHolder
<1> QED
  BY <1>2, <1>3, SpecIInv, PTL

=============================================================================
