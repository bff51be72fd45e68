-------------------------- MODULE EventHandleProofs --------------------------
(***************************************************************************)
(* Proofs about EventHandle, for any number of handles, impls and handlers:*)
(* no event reaches freed memory, handlers travel with their events, and   *)
(* timer, trigger and signal implement HandleOwnership.                    *)
(***************************************************************************)
EXTENDS EventHandle, TLAPS

ObjRec == [alive: BOOLEAN, impl: OrNull(Impl), handler: OrNull(Hdl)]
ImplRec == [live: BOOLEAN, handle: OrNull(Obj), event: {"none", "idle", "pending"}]
HeapRec == [obj: [Obj -> ObjRec], impl: [Impl -> ImplRec]]

\* Storage without a handle holds nothing.
CleanAt(h, o) == ~h.obj[o].alive => h.obj[o] = Unborn

\* A handle and its impl point at each other.
LinkedAt(h, o) ==
  h.obj[o].impl # NULL => h.impl[h.obj[o].impl].live /\ h.impl[h.obj[o].impl].handle = o

\* A live impl has a handle; the others have been deleted with their event.
CoveredAt(h, i) ==
  IF h.impl[i].live THEN \E o \in Obj : h.obj[o].impl = i ELSE h.impl[i] = NoImpl

HInv(h) ==
  /\ h \in HeapRec
  /\ \A o \in Obj : CleanAt(h, o) /\ LinkedAt(h, o)
  /\ \A i \in Impl : CoveredAt(h, i)

\* The handler of a handle that has an impl is the one intended for its event.
Travels(h, f) == \A o \in Obj : h.obj[o].impl # NULL => h.obj[o].handler = f[h.obj[o].impl]

IInv ==
  /\ HInv(heap) /\ heap.obj[Tmp] = Unborn
  /\ intended \in [Impl -> OrNull(Hdl)] /\ Travels(heap, intended)
  /\ bad = FALSE

------------------------------------------------------------------------------
(* What each operator leaves in the heap. *)

LEMMA NullApart == NULL \notin Obj /\ NULL \notin Impl /\ NULL \notin Hdl /\ Tmp \in Obj /\ Tmp \notin Handle
BY HandleAssumption DEF Obj

LEMMA RecTypes ==
  /\ Unborn \in ObjRec /\ NoImpl \in ImplRec /\ NewImpl \in ImplRec
  /\ ~Unborn.alive /\ Unborn.impl = NULL /\ Unborn.handler = NULL
  /\ ~NoImpl.live /\ NoImpl.event = "none" /\ NewImpl.live /\ NewImpl.event = "idle"
BY DEF Unborn, NoImpl, NewImpl, ObjRec, ImplRec, OrNull

LEMMA HeapTypes ==
  ASSUME NEW h \in HeapRec
  PROVE  /\ h.obj \in [Obj -> ObjRec] /\ h.impl \in [Impl -> ImplRec]
         /\ \A o \in Obj : /\ h.obj[o] \in ObjRec
                           /\ h.obj[o].alive \in BOOLEAN
                           /\ h.obj[o].impl \in OrNull(Impl)
                           /\ h.obj[o].handler \in OrNull(Hdl)
         /\ \A i \in Impl : /\ h.impl[i] \in ImplRec
                            /\ h.impl[i].live \in BOOLEAN
BY DEF HeapRec, ObjRec, ImplRec

LEMMA ImplWithHandle ==
  ASSUME NEW r \in ImplRec, NEW o \in Obj
  PROVE  LET s == [r EXCEPT !.handle = o]
         IN  s \in ImplRec /\ s.handle = o /\ s.live = r.live /\ s.event = r.event
BY DEF ImplRec, OrNull

\* Impl k differs from impl j at most in its handle, which is o.
Retold(k, j, o) == k \in ImplRec /\ k.live = j.live /\ k.event = j.event /\ k.handle = o

LEMMA SetHandleFields ==
  ASSUME NEW h \in HeapRec, NEW i \in OrNull(Impl), NEW o \in Obj
  PROVE  LET r == SetHandle(h, i, o) IN
         /\ r \in HeapRec /\ r.obj = h.obj
         /\ \A j \in Impl : IF j = i THEN Retold(r.impl[j], h.impl[j], o)
                                      ELSE r.impl[j] = h.impl[j]
<1>1. CASE i = NULL
  BY <1>1, NullApart DEF SetHandle
<1>2. CASE i # NULL
  <2> DEFINE rec == [h.impl[i] EXCEPT !.handle = o]
             g == [h.impl EXCEPT ![i] = rec]
  <2>1. i \in Impl /\ h.impl \in [Impl -> ImplRec] /\ h.impl[i] \in ImplRec
    BY <1>2, HeapTypes DEF OrNull
  <2>2. rec \in ImplRec /\ Retold(rec, h.impl[i], o)
    BY <2>1, ImplWithHandle DEF Retold
  <2>3. SetHandle(h, i, o) = [h EXCEPT !.impl = g]
    BY <1>2 DEF SetHandle, HeapRec
  <2> HIDE DEF rec
  <2>4. g \in [Impl -> ImplRec] /\ \A j \in Impl : g[j] = IF j = i THEN rec ELSE h.impl[j]
    BY <2>1, <2>2
  <2> HIDE DEF g
  <2> QED
    BY <2>2, <2>3, <2>4 DEF HeapRec
<1> QED
  BY <1>1, <1>2

\* A wrapper without an impl.
Vacant == [alive |-> TRUE, impl |-> NULL, handler |-> NULL]

LEMMA VacantType == Vacant \in ObjRec /\ Vacant.alive /\ Vacant.impl = NULL /\ Vacant.handler = NULL
BY DEF Vacant, ObjRec, OrNull

LEMMA ObjShape ==
  ASSUME NEW r \in ObjRec, r.alive
  PROVE  /\ r = [alive |-> TRUE, impl |-> r.impl, handler |-> r.handler]
         /\ [r EXCEPT !.impl = NULL, !.handler = NULL] = Vacant
<1>1. ASSUME NEW z \in ObjRec
      PROVE  z = [alive |-> z.alive, impl |-> z.impl, handler |-> z.handler]
  BY DEF ObjRec
<1>2. r.alive = TRUE
  BY DEF ObjRec
<1>3. [r EXCEPT !.impl = NULL, !.handler = NULL] = Vacant
  <2> DEFINE z == [r EXCEPT !.impl = NULL, !.handler = NULL]
  <2>1. z \in ObjRec /\ z.alive = r.alive /\ z.impl = NULL /\ z.handler = NULL
    BY DEF ObjRec, OrNull
  <2> HIDE DEF z
  <2>2. z = Vacant
    BY <1>1, <1>2, <2>1 DEF Vacant
  <2> QED
    BY <2>2 DEF z
<1> QED
  BY <1>1, <1>2, <1>3

\* Two handles never share an impl.
LEMMA OneHandle ==
  ASSUME NEW h, HInv(h), NEW o \in Obj, NEW p \in Obj,
         h.obj[o].impl # NULL, h.obj[o].impl = h.obj[p].impl
  PROVE  o = p
BY DEF HInv, LinkedAt

LEMMA MoveCtorFields ==
  ASSUME NEW h \in HeapRec, HInv(h), NEW d \in Obj, NEW s \in Obj, d # s,
         h.obj[d] = Unborn, h.obj[s].alive
  PROVE  LET r == MoveCtor(h, d, s) IN
         /\ HInv(r)
         /\ \A o \in Obj : r.obj[o] = IF o = d THEN h.obj[s]
                                      ELSE IF o = s THEN Vacant ELSE h.obj[o]
<1> DEFINE i == h.obj[s].impl
           m == [h EXCEPT !.obj[d] = [alive |-> TRUE, impl |-> h.obj[s].impl, handler |-> h.obj[s].handler],
                          !.obj[s] = [@ EXCEPT !.impl = NULL, !.handler = NULL]]
           r == SetHandle(m, i, d)
<1>1. /\ h.obj[s] = [alive |-> TRUE, impl |-> i, handler |-> h.obj[s].handler]
      /\ [h.obj[s] EXCEPT !.impl = NULL, !.handler = NULL] = Vacant
      /\ i \in OrNull(Impl)
  BY HeapTypes, ObjShape
<1> DEFINE g == [h.obj EXCEPT ![d] = h.obj[s], ![s] = Vacant]
<1>2. m = [h EXCEPT !.obj = g]
  BY <1>1 DEF HeapRec
<1>3. g \in [Obj -> ObjRec] /\ \A o \in Obj : g[o] = IF o = d THEN h.obj[s] ELSE IF o = s THEN Vacant ELSE h.obj[o]
  BY HeapTypes, VacantType
<1> HIDE DEF g, i
<1>4. m \in HeapRec /\ m.obj = g /\ m.impl = h.impl
  BY <1>2, <1>3 DEF HeapRec
<1> HIDE DEF m
<1>5. /\ r \in HeapRec /\ r.obj = g
      /\ \A j \in Impl : IF j = i THEN Retold(r.impl[j], h.impl[j], d) ELSE r.impl[j] = h.impl[j]
  BY <1>1, <1>4, SetHandleFields
<1>6. \A j \in Impl : /\ r.impl[j].live = h.impl[j].live
                      /\ j = i => r.impl[j].handle = d
                      /\ j # i => r.impl[j] = h.impl[j]
  BY <1>5 DEF Retold
<1> HIDE DEF r
<1>7. \A o \in Obj : CleanAt(r, o) /\ LinkedAt(r, o)
  <2> TAKE o \in Obj
  <2>1. CASE o = d
    BY <2>1, <1>1, <1>3, <1>5, <1>6, HeapTypes, RecTypes DEF HInv, CleanAt, LinkedAt, OrNull, i
  <2>2. CASE o = s
    BY <2>2, <1>3, <1>5, VacantType DEF CleanAt, LinkedAt
  <2>3. CASE o # d /\ o # s
    <3>1. r.obj[o] = h.obj[o]
      BY <2>3, <1>3, <1>5
    <3>2. h.obj[o].impl # NULL => h.obj[o].impl # i /\ h.obj[o].impl \in Impl
      BY <2>3, OneHandle, HeapTypes DEF i, OrNull
    <3> QED
      BY <3>1, <3>2, <1>6 DEF HInv, CleanAt, LinkedAt
  <2> QED
    BY <2>1, <2>2, <2>3
<1>8. \A j \in Impl : CoveredAt(r, j)
  <2> TAKE j \in Impl
  <2>1. CASE h.impl[j].live
    <3>1. PICK o \in Obj : h.obj[o].impl = j
      BY <2>1 DEF HInv, CoveredAt
    <3>2. o # d /\ (o # s => r.obj[o].impl = j) /\ (o = s => r.obj[d].impl = j)
      BY <3>1, <1>3, <1>5, RecTypes, NullApart
    <3> QED
      BY <2>1, <3>2, <1>6 DEF CoveredAt
  <2>2. CASE ~h.impl[j].live
    BY <2>2, <1>6, NullApart DEF HInv, CoveredAt, LinkedAt, i
  <2> QED
    BY <2>1, <2>2
<1>9. r = MoveCtor(h, d, s)
  BY DEF MoveCtor, r, m, i
<1> QED
  BY <1>3, <1>5, <1>7, <1>8, <1>9 DEF HInv

LEMMA SwapFields ==
  ASSUME NEW h \in HeapRec, HInv(h), NEW a \in Obj, NEW b \in Obj, h.obj[a].alive, h.obj[b].alive
  PROVE  LET r == SwapObj(h, a, b) IN
         /\ HInv(r)
         /\ \A o \in Obj : r.obj[o] = IF o = a THEN h.obj[b]
                                      ELSE IF o = b THEN h.obj[a] ELSE h.obj[o]
<1>1. CASE a = b
  BY <1>1 DEF SwapObj
<1>2. CASE a # b
  <2> DEFINE i == h.obj[a].impl
             k == h.obj[b].impl
             g == [h.obj EXCEPT ![a] = h.obj[b], ![b] = h.obj[a]]
             m == SwapMembers(h, a, b)
             n == SetHandle(m, m.obj[a].impl, a)
             r == SetHandle(n, n.obj[b].impl, b)
  <2>1. /\ [h.obj[a] EXCEPT !.impl = k, !.handler = h.obj[b].handler] = h.obj[b]
        /\ [h.obj[b] EXCEPT !.impl = i, !.handler = h.obj[a].handler] = h.obj[a]
        /\ i \in OrNull(Impl) /\ k \in OrNull(Impl)
    <3>1. h.obj[a] \in ObjRec /\ h.obj[b] \in ObjRec
      BY HeapTypes
    <3> QED
      BY <3>1 DEF ObjRec
  <2>2. m = [h EXCEPT !.obj = g]
    BY <1>2, <2>1 DEF SwapMembers, HeapRec
  <2>3. g \in [Obj -> ObjRec] /\ \A o \in Obj : g[o] = IF o = a THEN h.obj[b] ELSE IF o = b THEN h.obj[a] ELSE h.obj[o]
    BY HeapTypes
  <2> HIDE DEF g
  <2>4. m \in HeapRec /\ m.obj = g /\ m.impl = h.impl
    BY <2>2, <2>3 DEF HeapRec
  <2> HIDE DEF m
  <2>5. m.obj[a].impl = k /\ m.obj[b].impl = i
    BY <1>2, <2>3, <2>4
  <2> HIDE DEF i, k
  <2>6. /\ n \in HeapRec /\ n.obj = g
        /\ \A j \in Impl : IF j = k THEN Retold(n.impl[j], h.impl[j], a) ELSE n.impl[j] = h.impl[j]
    <3>1. n = SetHandle(m, k, a)
      BY <2>5
    <3> HIDE DEF n
    <3> QED
      BY <3>1, <2>1, <2>4, SetHandleFields
  <2> HIDE DEF n
  <2>7. /\ r \in HeapRec /\ r.obj = g
        /\ \A j \in Impl : IF j = i THEN Retold(r.impl[j], n.impl[j], b) ELSE r.impl[j] = n.impl[j]
    <3>1. r = SetHandle(n, i, b)
      BY <2>4, <2>5, <2>6
    <3> HIDE DEF r
    <3> QED
      BY <3>1, <2>1, <2>6, SetHandleFields
  <2> HIDE DEF r
  <2>8. i # NULL => i # k
    BY <1>2, OneHandle DEF i, k
  <2>9. \A j \in Impl : /\ r.impl[j].live = h.impl[j].live
                        /\ j = i => r.impl[j].handle = b
                        /\ j = k => r.impl[j].handle = a
                        /\ j # i /\ j # k => r.impl[j] = h.impl[j]
    <3> TAKE j \in Impl
    <3>1. j = i => j # k
      BY <2>8, NullApart
    <3>2. n.impl[j].live = h.impl[j].live /\ (j = k => n.impl[j].handle = a) /\ (j # k => n.impl[j] = h.impl[j])
      BY <2>6 DEF Retold
    <3>3. r.impl[j].live = n.impl[j].live /\ (j = i => r.impl[j].handle = b) /\ (j # i => r.impl[j] = n.impl[j])
      BY <2>7 DEF Retold
    <3> QED
      BY <3>1, <3>2, <3>3
  <2>10. \A o \in Obj : CleanAt(r, o) /\ LinkedAt(r, o)
    <3> TAKE o \in Obj
    <3>1. CASE o = a
      <4>1. r.obj[o] = h.obj[b] /\ r.obj[o].impl = k /\ r.obj[o].alive
        BY <3>1, <2>3, <2>7 DEF k
      <4>2. k # NULL => k \in Impl /\ h.impl[k].live
        BY <2>1 DEF HInv, LinkedAt, OrNull, k
      <4> QED
        BY <3>1, <4>1, <4>2, <2>9 DEF CleanAt, LinkedAt
    <3>2. CASE o = b
      <4>1. r.obj[o] = h.obj[a] /\ r.obj[o].impl = i /\ r.obj[o].alive
        BY <3>2, <1>2, <2>3, <2>7 DEF i
      <4>2. i # NULL => i \in Impl /\ h.impl[i].live
        BY <2>1 DEF HInv, LinkedAt, OrNull, i
      <4> QED
        BY <3>2, <4>1, <4>2, <2>9 DEF CleanAt, LinkedAt
    <3>3. CASE o # a /\ o # b
      <4>1. r.obj[o] = h.obj[o]
        BY <3>3, <2>3, <2>7
      <4>2. h.obj[o].impl # NULL => h.obj[o].impl # i /\ h.obj[o].impl # k /\ h.obj[o].impl \in Impl
        BY <3>3, OneHandle, HeapTypes DEF OrNull, i, k
      <4> QED
        BY <4>1, <4>2, <2>9 DEF HInv, CleanAt, LinkedAt
    <3> QED
      BY <3>1, <3>2, <3>3
  <2>11. \A j \in Impl : CoveredAt(r, j)
    <3> TAKE j \in Impl
    <3>1. CASE h.impl[j].live
      <4>1. PICK o \in Obj : h.obj[o].impl = j
        BY <3>1 DEF HInv, CoveredAt
      <4>2. \E p \in Obj : r.obj[p].impl = j
        BY <4>1, <1>2, <2>3, <2>7
      <4> QED
        BY <3>1, <4>2, <2>9 DEF CoveredAt
    <3>2. CASE ~h.impl[j].live
      <4>1. j # i /\ j # k
        BY <3>2, NullApart DEF HInv, LinkedAt, i, k
      <4> QED
        BY <3>2, <4>1, <2>9 DEF HInv, CoveredAt
    <3> QED
      BY <3>1, <3>2
  <2>12. r = SwapObj(h, a, b)
    <3>1. n.obj = m.obj
      BY <2>4, <2>6
    <3> QED
      BY <1>2, <3>1 DEF SwapObj, r, n, m
  <2> QED
    BY <2>3, <2>7, <2>10, <2>11, <2>12 DEF HInv
<1> QED
  BY <1>1, <1>2

LEMMA DestroyFields ==
  ASSUME NEW h \in HeapRec, HInv(h), NEW o \in Obj
  PROVE  LET r == Destroy(h, o) IN
         /\ HInv(r)
         /\ \A p \in Obj : r.obj[p] = IF p = o THEN Unborn ELSE h.obj[p]
<1> DEFINE i == h.obj[o].impl
           e == IF i = NULL THEN h ELSE DeleteImpl(h, i)
           r == [e EXCEPT !.obj[o] = Unborn]
<1>1. /\ e \in HeapRec /\ e.obj = h.obj
      /\ \A j \in Impl : e.impl[j] = IF j = i THEN NoImpl ELSE h.impl[j]
  <2>1. CASE i = NULL
    BY <2>1, NullApart
  <2>2. CASE i # NULL
    <3> DEFINE g == [h.impl EXCEPT ![i] = NoImpl]
    <3>1. i \in Impl /\ h.impl \in [Impl -> ImplRec]
      BY <2>2, HeapTypes DEF OrNull
    <3>2. g \in [Impl -> ImplRec] /\ \A j \in Impl : g[j] = IF j = i THEN NoImpl ELSE h.impl[j]
      BY <3>1, RecTypes
    <3>3. e = [h EXCEPT !.impl = g]
      BY <2>2 DEF DeleteImpl, HeapRec
    <3> HIDE DEF g, i, e
    <3> QED
      BY <3>2, <3>3 DEF HeapRec
  <2> QED
    BY <2>1, <2>2
<1> HIDE DEF e
<1>2. /\ r \in HeapRec /\ r.impl = e.impl
      /\ \A p \in Obj : r.obj[p] = IF p = o THEN Unborn ELSE h.obj[p]
  <2> DEFINE g == [h.obj EXCEPT ![o] = Unborn]
  <2>1. g \in [Obj -> ObjRec] /\ \A p \in Obj : g[p] = IF p = o THEN Unborn ELSE h.obj[p]
    BY HeapTypes, RecTypes
  <2>2. r = [e EXCEPT !.obj = g]
    BY <1>1 DEF HeapRec
  <2> HIDE DEF g, r
  <2> QED
    BY <1>1, <2>1, <2>2 DEF HeapRec
<1>3. r = Destroy(h, o)
  BY DEF Destroy, e
<1> HIDE DEF r
<1>4. \A p \in Obj : CleanAt(r, p) /\ LinkedAt(r, p)
  <2> TAKE p \in Obj
  <2>1. CASE p = o
    BY <2>1, <1>2, RecTypes DEF CleanAt, LinkedAt
  <2>2. CASE p # o
    <3>1. h.obj[p].impl # NULL => h.obj[p].impl # i /\ h.obj[p].impl \in Impl
      BY <2>2, OneHandle, HeapTypes DEF OrNull
    <3> HIDE DEF i
    <3> QED
      BY <2>2, <3>1, <1>1, <1>2 DEF HInv, CleanAt, LinkedAt
  <2> QED
    BY <2>1, <2>2
<1>5. \A j \in Impl : CoveredAt(r, j)
  <2> TAKE j \in Impl
  <2>1. CASE j = i
    BY <2>1, <1>1, <1>2, RecTypes DEF CoveredAt
  <2>2. CASE j # i /\ h.impl[j].live
    <3>1. PICK p \in Obj : h.obj[p].impl = j
      BY <2>2 DEF HInv, CoveredAt
    <3> QED
      BY <2>2, <3>1, <1>1, <1>2 DEF CoveredAt
  <2>3. CASE j # i /\ ~h.impl[j].live
    BY <2>3, <1>1, <1>2 DEF HInv, CoveredAt
  <2> QED
    BY <2>1, <2>2, <2>3
<1> QED
  BY <1>2, <1>3, <1>4, <1>5 DEF HInv

LEMMA CtorFields ==
  ASSUME NEW h \in HeapRec, HInv(h), NEW o \in Obj, NEW i \in Impl, NEW hd \in OrNull(Hdl),
         h.obj[o] = Unborn, h.impl[i] = NoImpl
  PROVE  LET r == Ctor(h, o, i, hd) IN
         /\ HInv(r)
         /\ \A p \in Obj : r.obj[p] = IF p = o THEN [alive |-> TRUE, impl |-> i, handler |-> hd]
                                      ELSE h.obj[p]
<1> DEFINE new == [alive |-> TRUE, impl |-> i, handler |-> hd]
           f == [h.impl EXCEPT ![i] = NewImpl]
           g == [h.obj EXCEPT ![o] = new]
           m == [h EXCEPT !.impl = f, !.obj = g]
           r == SetHandle(m, i, o)
<1>1. new \in ObjRec /\ new.alive /\ new.impl = i
  BY DEF ObjRec, OrNull
<1>2. r = Ctor(h, o, i, hd)
  BY DEF Ctor, HeapRec
<1> HIDE DEF new
<1>3. g \in [Obj -> ObjRec] /\ \A p \in Obj : g[p] = IF p = o THEN new ELSE h.obj[p]
  BY <1>1, HeapTypes
<1>4. f \in [Impl -> ImplRec] /\ \A j \in Impl : f[j] = IF j = i THEN NewImpl ELSE h.impl[j]
  BY HeapTypes, RecTypes
<1> HIDE DEF f, g
<1>5. m \in HeapRec /\ m.obj = g /\ m.impl = f
  BY <1>3, <1>4 DEF HeapRec
<1> HIDE DEF m
<1>6. /\ r \in HeapRec /\ r.obj = g
      /\ \A j \in Impl : IF j = i THEN Retold(r.impl[j], NewImpl, o) ELSE r.impl[j] = h.impl[j]
  <2>1. i \in OrNull(Impl)
    BY DEF OrNull
  <2> QED
    BY <2>1, <1>4, <1>5, SetHandleFields
<1> HIDE DEF r
<1>7. r.impl[i].live /\ r.impl[i].handle = o /\ \A j \in Impl : j # i => r.impl[j] = h.impl[j]
  BY <1>6, RecTypes DEF Retold
<1>8. \A p \in Obj : CleanAt(r, p) /\ LinkedAt(r, p)
  <2> TAKE p \in Obj
  <2>1. CASE p = o
    BY <2>1, <1>1, <1>3, <1>6, <1>7 DEF CleanAt, LinkedAt
  <2>2. CASE p # o
    <3>1. h.obj[p].impl # NULL => h.obj[p].impl # i /\ h.obj[p].impl \in Impl
      BY HeapTypes, RecTypes DEF HInv, LinkedAt, OrNull
    <3> QED
      BY <2>2, <3>1, <1>3, <1>6, <1>7 DEF HInv, CleanAt, LinkedAt
  <2> QED
    BY <2>1, <2>2
<1>9. \A j \in Impl : CoveredAt(r, j)
  <2> TAKE j \in Impl
  <2>1. CASE j = i
    BY <2>1, <1>1, <1>3, <1>6, <1>7 DEF CoveredAt
  <2>2. CASE j # i /\ h.impl[j].live
    <3>1. PICK p \in Obj : h.obj[p].impl = j
      BY <2>2 DEF HInv, CoveredAt
    <3>2. p # o
      BY <3>1, RecTypes, NullApart
    <3> QED
      BY <2>2, <3>1, <3>2, <1>3, <1>6, <1>7 DEF CoveredAt
  <2>3. CASE j # i /\ ~h.impl[j].live
    BY <2>3, <1>7 DEF HInv, CoveredAt
  <2> QED
    BY <2>1, <2>2, <2>3
<1> QED
  BY <1>2, <1>3, <1>6, <1>8, <1>9 DEF HInv, new

LEMMA SetHandlerFields ==
  ASSUME NEW h \in HeapRec, HInv(h), NEW o \in Obj, NEW hd \in Hdl, h.obj[o].alive
  PROVE  LET r == [h EXCEPT !.obj[o].handler = hd] IN
         /\ HInv(r)
         /\ \A p \in Obj : /\ r.obj[p].impl = h.obj[p].impl
                           /\ r.obj[p].handler = IF p = o THEN hd ELSE h.obj[p].handler
                           /\ p # o => r.obj[p] = h.obj[p]
<1> DEFINE new == [h.obj[o] EXCEPT !.handler = hd]
           g == [h.obj EXCEPT ![o] = new]
           r == [h EXCEPT !.obj = g]
<1>1. /\ new \in ObjRec /\ new.alive = h.obj[o].alive
      /\ new.impl = h.obj[o].impl /\ new.handler = hd
  <2>1. h.obj[o] \in ObjRec
    BY HeapTypes
  <2> QED
    BY <2>1 DEF ObjRec, OrNull
<1>2. r = [h EXCEPT !.obj[o].handler = hd]
  BY DEF HeapRec
<1> HIDE DEF new
<1>3. g \in [Obj -> ObjRec] /\ \A p \in Obj : g[p] = IF p = o THEN new ELSE h.obj[p]
  BY <1>1, HeapTypes
<1> HIDE DEF g
<1>4. r \in HeapRec /\ r.obj = g /\ r.impl = h.impl
  BY <1>3 DEF HeapRec
<1> HIDE DEF r
<1>5. \A p \in Obj : /\ r.obj[p].impl = h.obj[p].impl
                     /\ r.obj[p].handler = IF p = o THEN hd ELSE h.obj[p].handler
                     /\ p # o => r.obj[p] = h.obj[p]
  BY <1>1, <1>3, <1>4
<1>6. \A p \in Obj : CleanAt(r, p) /\ LinkedAt(r, p)
  <2> TAKE p \in Obj
  <2>1. CleanAt(h, p) /\ LinkedAt(h, p)
    BY DEF HInv
  <2>2. CASE p = o
    BY <2>1, <2>2, <1>1, <1>3, <1>4 DEF CleanAt, LinkedAt
  <2>3. CASE p # o
    BY <2>1, <2>3, <1>4, <1>5 DEF CleanAt, LinkedAt
  <2> QED
    BY <2>2, <2>3
<1>7. \A j \in Impl : CoveredAt(r, j)
  BY <1>4, <1>5 DEF HInv, CoveredAt
<1> QED
  BY <1>2, <1>4, <1>5, <1>6, <1>7 DEF HInv

LEMMA EventFields ==
  ASSUME NEW h \in HeapRec, HInv(h), NEW i \in Impl, NEW e \in {"idle", "pending"},
         h.impl[i].live
  PROVE  LET r == [h EXCEPT !.impl[i].event = e] IN HInv(r) /\ r.obj = h.obj
<1> DEFINE new == [h.impl[i] EXCEPT !.event = e]
           g == [h.impl EXCEPT ![i] = new]
           r == [h EXCEPT !.impl = g]
<1>1. new \in ImplRec /\ new.live = h.impl[i].live /\ new.handle = h.impl[i].handle
  <2>1. h.impl[i] \in ImplRec
    BY HeapTypes
  <2> QED
    BY <2>1 DEF ImplRec
<1>2. r = [h EXCEPT !.impl[i].event = e]
  BY DEF HeapRec
<1> HIDE DEF new
<1>3. g \in [Impl -> ImplRec] /\ \A j \in Impl : g[j] = IF j = i THEN new ELSE h.impl[j]
  BY <1>1, HeapTypes
<1> HIDE DEF g
<1>4. r \in HeapRec /\ r.impl = g /\ r.obj = h.obj
  BY <1>3 DEF HeapRec
<1> HIDE DEF r
<1>5. \A j \in Impl : /\ r.impl[j].live = h.impl[j].live
                      /\ r.impl[j].handle = h.impl[j].handle
                      /\ ~h.impl[j].live => r.impl[j] = h.impl[j]
  BY <1>1, <1>3, <1>4
<1>6. \A p \in Obj : CleanAt(r, p) /\ LinkedAt(r, p)
  <2> TAKE p \in Obj
  <2>1. h.obj[p].impl # NULL => h.obj[p].impl \in Impl
    BY HeapTypes DEF OrNull
  <2> QED
    BY <2>1, <1>4, <1>5 DEF HInv, CleanAt, LinkedAt
<1>7. \A j \in Impl : CoveredAt(r, j)
  BY <1>4, <1>5 DEF HInv, CoveredAt
<1> QED
  BY <1>2, <1>4, <1>6, <1>7 DEF HInv

\* operator=: what the target held dies with the temporary.
LEMMA AssignFields ==
  ASSUME NEW h \in HeapRec, HInv(h), NEW d \in Handle, NEW s \in Handle, d # s,
         h.obj[Tmp] = Unborn, h.obj[d].alive, h.obj[s].alive
  PROVE  LET r == Assign(h, d, s) IN
         /\ HInv(r)
         /\ \A p \in Obj : r.obj[p] = IF p = d THEN h.obj[s] ELSE IF p = s THEN Vacant ELSE h.obj[p]
<1> DEFINE m == MoveCtor(h, Tmp, s)
           w == SwapObj(m, d, Tmp)
           r == Destroy(w, Tmp)
<1>1. d \in Obj /\ s \in Obj /\ Tmp \in Obj /\ d # Tmp /\ s # Tmp
  BY NullApart DEF Obj
<1>2. /\ HInv(m)
      /\ \A p \in Obj : m.obj[p] = IF p = Tmp THEN h.obj[s] ELSE IF p = s THEN Vacant ELSE h.obj[p]
  BY <1>1, MoveCtorFields
<1>3. r = Assign(h, d, s)
  BY DEF Assign
<1> HIDE DEF m
<1>4. m \in HeapRec /\ m.obj[d].alive /\ m.obj[Tmp].alive
  BY <1>1, <1>2 DEF HInv
<1>5. /\ HInv(w)
      /\ \A p \in Obj : w.obj[p] = IF p = d THEN m.obj[Tmp] ELSE IF p = Tmp THEN m.obj[d] ELSE m.obj[p]
  BY <1>1, <1>2, <1>4, SwapFields
<1> HIDE DEF w
<1>6. HInv(r) /\ \A p \in Obj : r.obj[p] = IF p = Tmp THEN Unborn ELSE w.obj[p]
  BY <1>1, <1>5, DestroyFields DEF HInv
<1> HIDE DEF r
<1> QED
  BY <1>1, <1>2, <1>3, <1>5, <1>6

\* close(): the handle stays, empty.
LEMMA CloseFields ==
  ASSUME NEW h \in HeapRec, HInv(h), NEW o \in Handle, h.obj[Tmp] = Unborn, h.obj[o].alive
  PROVE  LET r == CloseObj(h, o) IN
         /\ HInv(r)
         /\ \A p \in Obj : r.obj[p] = IF p = o THEN Vacant ELSE h.obj[p]
<1> DEFINE m == MoveCtor(h, Tmp, o)
           r == Destroy(m, Tmp)
<1>1. o \in Obj /\ Tmp \in Obj /\ o # Tmp
  BY NullApart DEF Obj
<1>2. /\ HInv(m)
      /\ \A p \in Obj : m.obj[p] = IF p = Tmp THEN h.obj[o] ELSE IF p = o THEN Vacant ELSE h.obj[p]
  BY <1>1, MoveCtorFields
<1>3. r = CloseObj(h, o)
  BY DEF CloseObj
<1> HIDE DEF m
<1>4. HInv(r) /\ \A p \in Obj : r.obj[p] = IF p = Tmp THEN Unborn ELSE m.obj[p]
  BY <1>1, <1>2, DestroyFields DEF HInv
<1> HIDE DEF r
<1> QED
  BY <1>1, <1>2, <1>3, <1>4

------------------------------------------------------------------------------
(* The invariant is inductive. *)

\* A rearrangement that only moves the contents of handles keeps each handler with
\* its event.
LEMMA Borrowed ==
  ASSUME NEW h, NEW r, NEW f, Travels(h, f),
         \A p \in Obj : r.obj[p] \in {Vacant, Unborn} \/ \E q \in Obj : r.obj[p] = h.obj[q]
  PROVE  Travels(r, f)
BY VacantType, RecTypes DEF Travels

LEMMA IInvFacts ==
  ASSUME IInv
  PROVE  /\ heap \in HeapRec /\ HInv(heap) /\ Handle \subseteq Obj
         /\ \A o \in Handle : Fresh(o) => heap.obj[o] = Unborn
         /\ \A o \in Handle : o # Tmp
BY NullApart DEF IInv, HInv, CleanAt, Fresh, Obj

LEMMA InitIInv == Init => IInv
<1> SUFFICES ASSUME Init PROVE IInv
  OBVIOUS
<1>1. /\ heap.obj = [o \in Obj |-> Unborn] /\ heap.impl = [i \in Impl |-> NoImpl]
      /\ heap \in HeapRec
  BY RecTypes DEF Init, HeapRec
<1>2. \A o \in Obj : CleanAt(heap, o) /\ LinkedAt(heap, o)
  BY <1>1, RecTypes DEF CleanAt, LinkedAt
<1>3. \A i \in Impl : CoveredAt(heap, i)
  BY <1>1, RecTypes DEF CoveredAt
<1>4. Travels(heap, intended)
  BY <1>1, RecTypes DEF Travels
<1>5. heap.obj[Tmp] = Unborn
  BY <1>1, NullApart
<1>6. intended \in [Impl -> OrNull(Hdl)] /\ bad = FALSE
  BY DEF Init, OrNull
<1> QED
  BY <1>1, <1>2, <1>3, <1>4, <1>5, <1>6 DEF IInv, HInv

LEMMA ConstructIInv ==
  ASSUME IInv, NEW o \in Handle, NEW i \in Impl, NEW hd \in OrNull(Hdl), Construct(o, i, hd)
  PROVE  IInv'
<1>1. /\ HInv(heap')
      /\ \A p \in Obj : heap'.obj[p] = IF p = o THEN [alive |-> TRUE, impl |-> i, handler |-> hd]
                                       ELSE heap.obj[p]
  BY IInvFacts, CtorFields DEF Construct
<1>2. \A p \in Obj : heap.obj[p].impl # i
  BY RecTypes, NullApart DEF IInv, HInv, LinkedAt, Construct
<1>3. Travels(heap', intended')
  BY <1>1, <1>2, NullApart, HeapTypes, IInvFacts DEF IInv, Travels, Construct, OrNull
<1>4. heap'.obj[Tmp] = Unborn
  BY <1>1, NullApart, IInvFacts DEF IInv
<1> QED
  BY <1>1, <1>3, <1>4 DEF IInv, Construct

LEMMA SetEventHandlerIInv ==
  ASSUME IInv, NEW o \in Handle, NEW hd \in Hdl, SetEventHandler(o, hd)
  PROVE  IInv'
<1>1. /\ HInv(heap')
      /\ \A p \in Obj : /\ heap'.obj[p].impl = heap.obj[p].impl
                        /\ heap'.obj[p].handler = IF p = o THEN hd ELSE heap.obj[p].handler
                        /\ p # o => heap'.obj[p] = heap.obj[p]
  BY IInvFacts, SetHandlerFields DEF SetEventHandler, Used
<1>2. Travels(heap', intended')
  <2> SUFFICES ASSUME NEW p \in Obj, heap'.obj[p].impl # NULL
               PROVE  heap'.obj[p].handler = intended'[heap'.obj[p].impl]
    BY DEF Travels
  <2>1. heap.obj[p].impl # NULL /\ heap.obj[p].impl \in Impl
    BY <1>1, IInvFacts, HeapTypes DEF OrNull
  <2>2. heap.obj[p].impl = heap.obj[o].impl <=> p = o
    BY <2>1, IInvFacts, OneHandle
  <2> QED
    BY <1>1, <2>1, <2>2 DEF IInv, Travels, SetEventHandler
<1>3. heap'.obj[Tmp] = Unborn
  BY <1>1, NullApart, IInvFacts DEF IInv
<1>4. intended' \in [Impl -> OrNull(Hdl)]
  BY DEF IInv, SetEventHandler, OrNull
<1> QED
  BY <1>1, <1>2, <1>3, <1>4 DEF IInv, SetEventHandler

\* A live impl is known to the handle it knows.
LEMMA LiveImpl ==
  ASSUME IInv, NEW i \in Impl, heap.impl[i].live
  PROVE  /\ heap.impl[i].handle \in Handle
         /\ heap.obj[heap.impl[i].handle].alive /\ heap.obj[heap.impl[i].handle].impl = i
<1>1. PICK o \in Obj : heap.obj[o].impl = i
  BY DEF IInv, HInv, CoveredAt
<1>2. heap.impl[i].handle = o
  BY <1>1, NullApart DEF IInv, HInv, LinkedAt
<1>3. heap.obj[o].alive /\ o # Tmp
  BY <1>1, NullApart, RecTypes DEF IInv, HInv, CleanAt
<1> QED
  BY <1>1, <1>2, <1>3 DEF Obj

LEMMA ActiveIInv ==
  ASSUME IInv, NEW o \in Handle, Active(o)
  PROVE  IInv'
<1> DEFINE i == heap.obj[o].impl
<1>1. o \in Obj /\ i \in Impl /\ heap.impl[i].live
  BY IInvFacts, HeapTypes DEF Active, OrNull, HInv, LinkedAt
<1>2. HInv(heap') /\ heap'.obj = heap.obj
  BY <1>1, IInvFacts, EventFields DEF Active
<1> QED
  BY <1>2 DEF IInv, Active, Travels

LEMMA FireIInv ==
  ASSUME IInv, NEW i \in Impl, Fire(i)
  PROVE  IInv'
<1>1. heap.impl[i].live
  BY RecTypes DEF IInv, HInv, CoveredAt, Fire
<1>2. HInv(heap') /\ heap'.obj = heap.obj
  BY <1>1, IInvFacts, EventFields DEF Fire
<1>3. bad' = FALSE
  BY <1>1, LiveImpl DEF Fire
<1> QED
  BY <1>2, <1>3 DEF IInv, Fire, Travels

LEMMA MoveConstructIInv ==
  ASSUME IInv, NEW d \in Handle, NEW s \in Handle, MoveConstruct(d, s)
  PROVE  /\ IInv' /\ d # s
         /\ \A p \in Obj : heap'.obj[p] = IF p = d THEN heap.obj[s]
                                          ELSE IF p = s THEN Vacant ELSE heap.obj[p]
<1>1. d # s
  BY DEF MoveConstruct, Fresh, Used
<1>2. /\ HInv(heap')
      /\ \A p \in Obj : heap'.obj[p] = IF p = d THEN heap.obj[s]
                                       ELSE IF p = s THEN Vacant ELSE heap.obj[p]
  BY <1>1, IInvFacts, MoveCtorFields DEF MoveConstruct, Used, Rearrange
<1>3. Travels(heap', intended)
  <2>1. \A p \in Obj : heap'.obj[p] \in {Vacant, Unborn} \/ \E q \in Obj : heap'.obj[p] = heap.obj[q]
    BY <1>2, IInvFacts
  <2> QED
    BY <2>1, Borrowed DEF IInv
<1>4. heap'.obj[Tmp] = Unborn
  BY <1>2, NullApart, IInvFacts DEF IInv
<1> QED
  BY <1>1, <1>2, <1>3, <1>4 DEF IInv, MoveConstruct, Rearrange

LEMMA MoveAssignIInv ==
  ASSUME IInv, NEW d \in Handle, NEW s \in Handle, MoveAssign(d, s)
  PROVE  /\ IInv'
         /\ IF d = s THEN heap' = heap
            ELSE \A p \in Obj : heap'.obj[p] = IF p = d THEN heap.obj[s]
                                               ELSE IF p = s THEN Vacant ELSE heap.obj[p]
<1>1. CASE d = s
  BY <1>1 DEF MoveAssign, Rearrange, Assign, IInv
<1>2. CASE d # s
  <2>1. /\ HInv(heap')
        /\ \A p \in Obj : heap'.obj[p] = IF p = d THEN heap.obj[s]
                                         ELSE IF p = s THEN Vacant ELSE heap.obj[p]
    <3>1. /\ heap \in HeapRec /\ HInv(heap) /\ heap.obj[Tmp] = Unborn
          /\ heap.obj[d].alive /\ heap.obj[s].alive /\ heap' = Assign(heap, d, s)
      BY IInvFacts DEF IInv, MoveAssign, Used, Rearrange
    <3> QED
      BY <1>2, <3>1, AssignFields
  <2>2. Travels(heap', intended)
    <3>1. \A p \in Obj : heap'.obj[p] \in {Vacant, Unborn} \/ \E q \in Obj : heap'.obj[p] = heap.obj[q]
      BY <2>1, IInvFacts
    <3> QED
      BY <3>1, Borrowed DEF IInv
  <2>3. heap'.obj[Tmp] = Unborn
    BY <2>1, NullApart, IInvFacts DEF IInv
  <2> QED
    BY <1>2, <2>1, <2>2, <2>3 DEF IInv, MoveAssign, Rearrange
<1> QED
  BY <1>1, <1>2

LEMMA SwapIInv ==
  ASSUME IInv, NEW a \in Handle, NEW b \in Handle, Swap(a, b)
  PROVE  /\ IInv'
         /\ \A p \in Obj : heap'.obj[p] = IF p = a THEN heap.obj[b]
                                          ELSE IF p = b THEN heap.obj[a] ELSE heap.obj[p]
<1>1. /\ HInv(heap')
      /\ \A p \in Obj : heap'.obj[p] = IF p = a THEN heap.obj[b]
                                       ELSE IF p = b THEN heap.obj[a] ELSE heap.obj[p]
  BY IInvFacts, SwapFields DEF Swap, Used, Rearrange
<1>2. Travels(heap', intended)
  <2>1. \A p \in Obj : heap'.obj[p] \in {Vacant, Unborn} \/ \E q \in Obj : heap'.obj[p] = heap.obj[q]
    BY <1>1, IInvFacts
  <2> QED
    BY <2>1, Borrowed DEF IInv
<1>3. heap'.obj[Tmp] = Unborn
  BY <1>1, NullApart, IInvFacts DEF IInv
<1> QED
  BY <1>1, <1>2, <1>3 DEF IInv, Swap, Rearrange

\* Close and Destruct: the handle lets go of its event.
LEMMA LetGoIInv ==
  ASSUME IInv, NEW o \in Handle, Close(o) \/ Destruct(o)
  PROVE  /\ IInv'
         /\ \A p \in Obj : p # o => heap'.obj[p] = heap.obj[p]
         /\ heap'.obj[o].impl = NULL
<1>1. PICK left \in {Vacant, Unborn} :
        HInv(heap') /\ \A p \in Obj : heap'.obj[p] = IF p = o THEN left ELSE heap.obj[p]
  <2>1. CASE Close(o)
    <3>1. /\ heap \in HeapRec /\ HInv(heap) /\ heap.obj[Tmp] = Unborn
          /\ heap.obj[o].alive /\ heap' = CloseObj(heap, o)
      BY <2>1, IInvFacts DEF IInv, Close, Used, Rearrange
    <3> QED
      BY <3>1, CloseFields
  <2>2. CASE Destruct(o)
    <3>1. heap \in HeapRec /\ HInv(heap) /\ o \in Obj /\ heap' = Destroy(heap, o)
      BY <2>2, IInvFacts DEF Destruct, Rearrange
    <3> QED
      BY <3>1, DestroyFields
  <2> QED
    BY <2>1, <2>2
<1>2. Travels(heap', intended)
  <2>1. \A p \in Obj : heap'.obj[p] \in {Vacant, Unborn} \/ \E q \in Obj : heap'.obj[p] = heap.obj[q]
    BY <1>1, IInvFacts
  <2> QED
    BY <2>1, Borrowed DEF IInv
<1>3. heap'.obj[Tmp] = Unborn
  BY <1>1, NullApart, IInvFacts DEF IInv
<1>4. IInv'
  BY <1>1, <1>2, <1>3 DEF IInv, Close, Destruct, Rearrange
<1> QED
  BY <1>1, <1>4, VacantType, RecTypes, IInvFacts

LEMMA StepIInv == IInv /\ [Next]_vars => IInv'
<1> SUFFICES ASSUME IInv, [Next]_vars PROVE IInv'
  OBVIOUS
<1>1. ASSUME NEW o \in Handle, NEW i \in Impl, NEW hd \in OrNull(Hdl), Construct(o, i, hd)
      PROVE  IInv'
  BY <1>1, ConstructIInv
<1>2. ASSUME NEW o \in Handle, NEW hd \in Hdl, SetEventHandler(o, hd) PROVE IInv'
  BY <1>2, SetEventHandlerIInv
<1>3. ASSUME NEW o \in Handle, Active(o) PROVE IInv'
  BY <1>3, ActiveIInv
<1>4. ASSUME NEW o \in Handle, Close(o) \/ Destruct(o) PROVE IInv'
  BY <1>4, LetGoIInv
<1>5. ASSUME NEW d \in Handle, NEW s \in Handle, MoveConstruct(d, s) PROVE IInv'
  BY <1>5, MoveConstructIInv
<1>6. ASSUME NEW d \in Handle, NEW s \in Handle, MoveAssign(d, s) PROVE IInv'
  BY <1>6, MoveAssignIInv
<1>7. ASSUME NEW d \in Handle, NEW s \in Handle, Swap(d, s) PROVE IInv'
  BY <1>7, SwapIInv
<1>8. ASSUME NEW i \in Impl, Fire(i) PROVE IInv'
  BY <1>8, FireIInv
<1>9. CASE UNCHANGED vars
  BY <1>9 DEF vars, IInv
<1> QED
  BY <1>1, <1>2, <1>3, <1>4, <1>5, <1>6, <1>7, <1>8, <1>9 DEF Next

LEMMA SpecIInv == Spec => []IInv
BY InitIInv, StepIInv, PTL DEF Spec

------------------------------------------------------------------------------
(* What follows from it. *)

\* Through any sequence of moves, swaps, closes and destructions, an event that
\* fires finds its impl and its handle alive, and every live impl has a handle.
THEOREM NothingDangles == Spec => []NoDangling
<1>1. IInv => NoDangling
  <2> SUFFICES ASSUME IInv PROVE NoDangling
    OBVIOUS
  <2>1. ~bad
    BY DEF IInv
  <2>2. \A i \in Impl : heap.impl[i].live => \E o \in Handle : heap.obj[o].impl = i
    BY LiveImpl
  <2> QED
    BY <2>1, <2>2 DEF NoDangling
<1> QED
  BY SpecIInv, <1>1, PTL

\* The handler an event will call is the one last set for that event.
THEOREM HandlersTravel == Spec => []HandlerTravels
<1>1. IInv => HandlerTravels
  BY DEF IInv, Travels, HandlerTravels
<1> QED
  BY SpecIInv, <1>1, PTL

------------------------------------------------------------------------------
(* EventHandle implements HandleOwnership. *)

\* In every state of the implementation an event is reported to its holder.
LEMMA SinkIsHolder ==
  ASSUME NEW h, HInv(h), NEW o \in Handle
  PROVE  (IF h.obj[o].impl = NULL THEN NULL ELSE h.impl[h.obj[o].impl].handle)
           = IF h.obj[o].impl = NULL THEN NULL ELSE o
BY DEF HInv, LinkedAt, Obj

LEMMA AlwaysReported ==
  ASSUME IInv' PROVE Abs!Reported
BY SinkIsHolder DEF IInv, Abs!Reported

LEMMA InitAbs == Init => Abs!Init
BY NullApart, RecTypes DEF Init, Abs!Init, Obj

LEMMA StepAbs == IInv /\ IInv' /\ [Next]_vars => [Abs!Next]_(Abs!vars)
<1> SUFFICES ASSUME IInv, IInv', [Next]_vars PROVE [Abs!Next]_(Abs!vars)
  OBVIOUS
<1> DEFINE Holds == [o \in Handle |-> heap.obj[o].impl]
<1>1. Abs!Reported
  BY AlwaysReported
<1>2. \A o \in Handle : o \in Obj /\ o # Tmp
  BY IInvFacts
<1>3. ASSUME \A o \in Handle : heap'.obj[o].impl = heap.obj[o].impl
      PROVE  UNCHANGED Abs!vars
  <2>1. Holds' = Holds
    BY <1>3
  <2>2. \A o \in Handle :
          (IF heap'.obj[o].impl = NULL THEN NULL ELSE heap'.impl[heap'.obj[o].impl].handle)
            = IF heap.obj[o].impl = NULL THEN NULL ELSE heap.impl[heap.obj[o].impl].handle
    BY <1>3, SinkIsHolder DEF IInv
  <2> QED
    BY <2>1, <2>2 DEF Abs!vars
<1>4. ASSUME NEW o \in Handle, NEW i \in Impl, NEW hd \in OrNull(Hdl), Construct(o, i, hd)
      PROVE  Abs!Acquire(o, i)
  <2>1. \A p \in Obj : heap'.obj[p] = IF p = o THEN [alive |-> TRUE, impl |-> i, handler |-> hd]
                                      ELSE heap.obj[p]
    BY <1>4, IInvFacts, CtorFields DEF Construct
  <2>2. Holds' = [Holds EXCEPT ![o] = i]
    <3>1. \A p \in Handle : heap'.obj[p].impl = IF p = o THEN i ELSE heap.obj[p].impl
      BY <1>2, <2>1
    <3> QED
      BY <3>1
  <2>3. heap.obj[o].impl = NULL /\ \A p \in Obj : heap.obj[p].impl # i
    <3>1. heap.obj[o] = Unborn /\ heap.impl[i] = NoImpl
      BY <1>4, IInvFacts DEF Construct
    <3>2. \A p \in Obj : heap.obj[p].impl # i
      BY <3>1, RecTypes, NullApart DEF IInv, HInv, LinkedAt
    <3> QED
      BY <3>1, <3>2, RecTypes
  <2>4. Holds[o] = NULL /\ i \notin Abs!Held
    BY <1>2, <2>3 DEF Abs!Held
  <2> QED
    BY <1>1, <2>2, <2>4 DEF Abs!Acquire
<1>5. ASSUME NEW o \in Handle, NEW hd \in Hdl, SetEventHandler(o, hd)
      PROVE  UNCHANGED Abs!vars
  <2>1. \A p \in Obj : heap'.obj[p].impl = heap.obj[p].impl
    BY <1>5, IInvFacts, SetHandlerFields DEF SetEventHandler, Used
  <2> QED
    BY <1>2, <1>3, <2>1
<1>6. ASSUME NEW o \in Handle, Active(o) PROVE UNCHANGED Abs!vars
  <2>1. heap'.obj = heap.obj
    BY <1>6, IInvFacts DEF Active, HeapRec
  <2> QED
    BY <1>3, <2>1
<1>7. ASSUME NEW i \in Impl, Fire(i) PROVE UNCHANGED Abs!vars
  <2>1. heap'.obj = heap.obj
    BY <1>7, IInvFacts DEF Fire, HeapRec
  <2> QED
    BY <1>3, <2>1
<1>8. ASSUME NEW o \in Handle, Close(o) \/ Destruct(o) PROVE Abs!Release(o)
  <2>1. Holds' = [Holds EXCEPT ![o] = NULL]
    BY <1>2, <1>8, LetGoIInv
  <2> QED
    BY <1>1, <2>1 DEF Abs!Release
<1>9. ASSUME NEW d \in Handle, NEW s \in Handle, d # s,
             \A p \in Obj : heap'.obj[p] = IF p = d THEN heap.obj[s]
                                           ELSE IF p = s THEN Vacant ELSE heap.obj[p]
      PROVE  Abs!Transfer(d, s)
  <2>1. Holds' = [Holds EXCEPT ![d] = Holds[s], ![s] = NULL]
    <3>1. \A p \in Handle : heap'.obj[p].impl = IF p = d THEN heap.obj[s].impl
                                                ELSE IF p = s THEN NULL ELSE heap.obj[p].impl
      BY <1>2, <1>9, VacantType
    <3> QED
      BY <1>9, <3>1
  <2> QED
    BY <1>1, <1>9, <2>1 DEF Abs!Transfer
<1>10. ASSUME NEW d \in Handle, NEW s \in Handle, MoveConstruct(d, s) PROVE Abs!Transfer(d, s)
  BY <1>9, <1>10, MoveConstructIInv
<1>11. ASSUME NEW d \in Handle, NEW s \in Handle, MoveAssign(d, s)
       PROVE  UNCHANGED Abs!vars \/ Abs!Transfer(d, s)
  BY <1>3, <1>9, <1>11, MoveAssignIInv
<1>12. ASSUME NEW a \in Handle, NEW b \in Handle, Swap(a, b) PROVE Abs!Exchange(a, b)
  <2>1. Holds' = [Holds EXCEPT ![a] = Holds[b], ![b] = Holds[a]]
    <3>1. \A p \in Obj : heap'.obj[p] = IF p = a THEN heap.obj[b]
                                        ELSE IF p = b THEN heap.obj[a] ELSE heap.obj[p]
      BY <1>12, SwapIInv
    <3>2. \A p \in Handle : heap'.obj[p].impl = IF p = a THEN heap.obj[b].impl
                                                ELSE IF p = b THEN heap.obj[a].impl ELSE heap.obj[p].impl
      BY <1>2, <3>1
    <3> QED
      BY <3>2
  <2> QED
    BY <1>1, <2>1 DEF Abs!Exchange
<1>13. CASE UNCHANGED vars
  BY <1>13, <1>3 DEF vars
<1> QED
  BY <1>4, <1>5, <1>6, <1>7, <1>8, <1>10, <1>11, <1>12, <1>13 DEF Next, Abs!Next

\* timer, trigger and signal implement the ownership every wrapper promises: each of
\* their steps hands over, gives up or takes what HandleOwnership says, or nothing.
THEOREM OwnershipImplemented == Spec => ImplementsOwnership
BY SpecIInv, InitAbs, StepAbs, PTL DEF Spec, ImplementsOwnership, Abs!Spec

\* No two timers, triggers or signals share an impl, so no destructor frees that of another
\* one, and its event reaches the one that has it.
THEOREM ImplsExclusive == Spec => [](Abs!ExclusiveHolder /\ Abs!ReportedToHolder)
<1>1. IInv => Abs!ExclusiveHolder
  <2> SUFFICES ASSUME IInv, NEW o \in Handle, NEW p \in Handle,
                      heap.obj[o].impl # NULL, heap.obj[o].impl = heap.obj[p].impl
               PROVE  o = p
    BY DEF Abs!ExclusiveHolder
  <2> QED
    BY DEF IInv, HInv, LinkedAt, Obj
<1>2. IInv => Abs!ReportedToHolder
  BY SinkIsHolder DEF IInv, Abs!ReportedToHolder
<1> QED
  BY <1>1, <1>2, SpecIInv, PTL

=============================================================================
