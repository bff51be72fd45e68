------------------------------- MODULE Buffer -------------------------------
(***************************************************************************)
(* ranger::event::buffer (core/buffer.cpp): objects that own an evbuffer   *)
(* or only look at one, told apart by m_flag, and the bytes that travel    *)
(* between the evbuffers.                                                  *)
(*                                                                         *)
(* tcp_connection::read_buffer() and the filters hand out views of the     *)
(* buffers of a bufferevent; the copy constructor, which exists for SWIG,  *)
(* makes a view of whatever it copies.  A view may outlive what it looks   *)
(* at: the program must not use it then, but its destructor still runs.    *)
(***************************************************************************)
EXTENDS Naturals, Sequences, SequencesExt, FiniteSets, FiniteSetsExt

CONSTANTS
  Buf,       \* the buffers the program declares
  Ev,        \* addresses of evbuffers the buffers create
  ConnEv,    \* the input evbuffer of a connection
  MaxByte,   \* bound on the number of bytes
  Newline,   \* the bytes that end a line
  NULL

AllEv == Ev \cup {ConnEv}

ASSUME BufferAssumption ==
  /\ ConnEv \notin Ev /\ NULL \notin AllEv
  /\ MaxByte \in Nat /\ Newline \subseteq 1 .. MaxByte

VARIABLES
  alive,   \* the objects that are constructed
  m_buf,   \* the evbuffer of each object
  m_flag,  \* the object owns its evbuffer
  live,    \* the evbuffers that exist
  data,    \* their contents; byte n of the program is the number n
  made,    \* number of bytes so far
  gone,    \* the bytes that were handed to the program or dropped
  bad      \* an evbuffer was freed twice, or that of the connection

objs == <<alive, m_buf, m_flag>>
bytes == <<data, made, gone>>
vars == <<objs, live, bytes, bad>>

Init ==
  /\ alive = {} /\ m_buf = [b \in Buf |-> NULL] /\ m_flag = [b \in Buf |-> FALSE]
  /\ live = {ConnEv}
  /\ data = [e \in AllEv |-> <<>>] /\ made = 0 /\ gone = {}
  /\ bad = FALSE

Fresh(b) == b \in Buf \ alive
Used(b) == b \in Buf \cap alive
Usable(b) == Used(b) /\ m_buf[b] \in live

------------------------------------------------------------------------------
(* Construction, moves and destruction.  p and f are values of m_buf and     *)
(* m_flag.                                                                   *)

\* ~buffer: what an object of pointer e and flag f takes with it.
Free(e, f) ==
  IF e # NULL /\ f
  THEN /\ bad' = (bad \/ e \notin live \/ e = ConnEv)
       /\ live' = live \ {e}
       /\ data' = [data EXCEPT ![e] = <<>>]
       /\ gone' = gone \cup ToSet(data[e])
  ELSE UNCHANGED <<bad, live, data, gone>>

Default(b, e) ==
  /\ Fresh(b) /\ e \in Ev \ live
  /\ alive' = alive \cup {b}
  /\ m_buf' = [m_buf EXCEPT ![b] = e] /\ m_flag' = [m_flag EXCEPT ![b] = TRUE]
  /\ live' = live \cup {e}
  /\ UNCHANGED <<bytes, bad>>

\* tcp_connection::read_buffer()
View(b) ==
  /\ Fresh(b) /\ ConnEv \in live
  /\ alive' = alive \cup {b}
  /\ m_buf' = [m_buf EXCEPT ![b] = ConnEv] /\ m_flag' = [m_flag EXCEPT ![b] = FALSE]
  /\ UNCHANGED <<live, bytes, bad>>

\* Mutation: the copy takes the flag with the pointer.
CopiedFlag(c) == m_flag[c]

\* The flag of a copy of c.
CopyFlag(c) == FALSE

CopyConstruct(b, c) ==
  /\ Fresh(b) /\ Used(c)
  /\ alive' = alive \cup {b}
  /\ m_buf' = [m_buf EXCEPT ![b] = m_buf[c]] /\ m_flag' = [m_flag EXCEPT ![b] = CopyFlag(c)]
  /\ UNCHANGED <<live, bytes, bad>>

MoveConstruct(b, r) ==
  /\ Fresh(b) /\ Used(r)
  /\ alive' = alive \cup {b}
  /\ m_buf' = [m_buf EXCEPT ![b] = m_buf[r], ![r] = NULL]
  /\ m_flag' = [m_flag EXCEPT ![b] = m_flag[r]]
  /\ UNCHANGED <<live, bytes, bad>>

Swap(b, c) ==
  /\ Used(b) /\ Used(c)
  /\ m_buf' = [m_buf EXCEPT ![b] = m_buf[c], ![c] = m_buf[b]]
  /\ m_flag' = [m_flag EXCEPT ![b] = m_flag[c], ![c] = m_flag[b]]
  /\ UNCHANGED <<alive, live, bytes, bad>>

\* Mutation: b's evbuffer is overwritten, as a defaulted operator= would.
MoveAssignForgets(b, r) ==
  /\ Used(b) /\ Used(r) /\ b # r
  /\ m_buf' = [m_buf EXCEPT ![b] = m_buf[r], ![r] = NULL]
  /\ m_flag' = [m_flag EXCEPT ![b] = m_flag[r]]
  /\ UNCHANGED <<alive, live, bytes, bad>>

\* The temporary takes r's pointer, is swapped with b and dies with b's.
MoveAssign(b, r) ==
  /\ Used(b) /\ Used(r) /\ b # r
  /\ m_buf' = [m_buf EXCEPT ![b] = m_buf[r], ![r] = NULL]
  /\ m_flag' = [m_flag EXCEPT ![b] = m_flag[r]]
  /\ Free(m_buf[b], m_flag[b])
  /\ UNCHANGED <<alive, made>>

Destruct(b) ==
  /\ Used(b)
  /\ alive' = alive \ {b}
  /\ m_buf' = [m_buf EXCEPT ![b] = NULL] /\ m_flag' = [m_flag EXCEPT ![b] = FALSE]
  /\ Free(m_buf[b], m_flag[b])
  /\ UNCHANGED made

------------------------------------------------------------------------------
(* The data. *)

holders == <<alive, m_buf, m_flag, live, bad>>

\* evbuffer_add, by append() or by the connection that reads its socket.
Add(e) ==
  /\ made < MaxByte /\ made' = made + 1
  /\ data' = [data EXCEPT ![e] = Append(@, made + 1)]
  /\ UNCHANGED <<holders, gone>>

AppendBytes(b) == Usable(b) /\ Add(m_buf[b])

\* printf() and vprintf(), of a text that is not empty.
Printf(b) == Usable(b) /\ Add(m_buf[b])

Arrive == ConnEv \in live /\ Add(ConnEv)

\* The first n bytes of d go to the end of e; within one evbuffer nothing moves.
Transfer(e, d, n) ==
  data' = IF e = d THEN data
          ELSE [data EXCEPT ![e] = @ \o SubSeq(data[d], 1, n),
                            ![d] = SubSeq(@, n + 1, Len(@))]

\* Mutation: evbuffer_prepend_buffer in the place of evbuffer_add_buffer.
AppendBufferInFront(b, src) ==
  /\ Usable(b) /\ Usable(src) /\ m_buf[b] # m_buf[src]
  /\ data' = [data EXCEPT ![m_buf[b]] = data[m_buf[src]] \o @, ![m_buf[src]] = <<>>]
  /\ UNCHANGED <<holders, made, gone>>

AppendBuffer(b, src) ==
  /\ Usable(b) /\ Usable(src)
  /\ Transfer(m_buf[b], m_buf[src], Len(data[m_buf[src]]))
  /\ UNCHANGED <<holders, made, gone>>

RemoveToBuffer(b, dst, n) ==
  /\ Usable(b) /\ Usable(dst) /\ n \in 1 .. Len(data[m_buf[b]])
  /\ Transfer(m_buf[dst], m_buf[b], n)
  /\ UNCHANGED <<holders, made, gone>>

\* The first n bytes leave the evbuffers for good.
Take(e, n) ==
  /\ data' = [data EXCEPT ![e] = SubSeq(@, n + 1, Len(@))]
  /\ gone' = gone \cup ToSet(SubSeq(data[e], 1, n))
  /\ UNCHANGED <<holders, made>>

\* remove(void*, len) and drain(len) take less when there is less.
RemoveBytes(b, n) == Usable(b) /\ Take(m_buf[b], Min({n, Len(data[m_buf[b]])}))

\* readln() takes a line and its end, or nothing when no line is complete.
Readln(b) ==
  /\ Usable(b)
  /\ LET s == data[m_buf[b]]
         ends == {n \in DOMAIN s : s[n] \in Newline}
     IN Take(m_buf[b], IF ends = {} THEN 0 ELSE Min(ends))

\* The connection is closed under its views.
CloseConnection ==
  /\ ConnEv \in live
  /\ live' = live \ {ConnEv}
  /\ data' = [data EXCEPT ![ConnEv] = <<>>] /\ gone' = gone \cup ToSet(data[ConnEv])
  /\ UNCHANGED <<objs, made, bad>>

Next ==
  \/ \E b \in Buf : \/ \E e \in Ev : Default(b, e)
                    \/ View(b) \/ Destruct(b) \/ AppendBytes(b) \/ Printf(b) \/ Readln(b)
                    \/ \E n \in 1 .. MaxByte : RemoveBytes(b, n)
  \/ \E b, c \in Buf : \/ CopyConstruct(b, c) \/ MoveConstruct(b, c)
                       \/ Swap(b, c) \/ MoveAssign(b, c) \/ AppendBuffer(b, c)
                       \/ \E n \in 1 .. MaxByte : RemoveToBuffer(b, c, n)
  \/ Arrive \/ CloseConnection

Spec == Init /\ [][Next]_vars

------------------------------------------------------------------------------
(* Properties. *)

Owners(e) == {b \in alive : m_buf[b] = e /\ m_flag[b]}

\* Every evbuffer a buffer created has exactly one owner among any number of moved,
\* swapped and copied objects, and is freed by that owner and by no other: copies
\* and views never free, and nothing leaks.
OwnedOnce == \A e \in Ev : Cardinality(Owners(e)) = IF e \in live THEN 1 ELSE 0

\* No evbuffer is freed twice and no object frees the evbuffer of a connection, not
\* even a view that has been swapped, moved, or left behind by the connection.
FreedRightly == ~bad

\* Every byte is in exactly one place: in one evbuffer, once, or gone.
OnePlace ==
  /\ \A e \in AllEv : IsInjective(data[e])
  /\ \A e, d \in AllEv : e # d => ToSet(data[e]) \cap ToSet(data[d]) = {}
  /\ UNION {ToSet(data[e]) : e \in AllEv} = 1 .. made \ gone

\* Byte x is in s, before y.
Ahead(s, x, y) == \E i, j \in DOMAIN s : i < j /\ s[i] = x /\ s[j] = y

\* A byte leaves an evbuffer after those ahead of it have left, arrives behind those
\* that are there, and those that move together stay in order.
NoOvertaking ==
  \A e, d \in AllEv :
    /\ \A x, y \in ToSet(data[d]) :
         Ahead(data[d], x, y) =>
           /\ d = e /\ x \in ToSet(data'[e]) => y \in ToSet(data'[e])
           /\ {x, y} \subseteq ToSet(data'[e]) => Ahead(data'[e], x, y)
    /\ \A x \in ToSet(data[e]) \cap ToSet(data'[e]), y \in ToSet(data'[e]) \ ToSet(data[e]) :
         Ahead(data'[e], x, y)

\* An evbuffer is a queue: no byte is lost, doubled, or overtaken by another one, however
\* buffers and views of the same evbuffer are appended to one another and read.
BytesInOrder == []OnePlace /\ [][NoOvertaking]_vars

=============================================================================
