------------------------ MODULE ConcurrentEchoServer ------------------------
(***************************************************************************)
(* sample/concurrent_echo_server.cpp: one thread accepts connections and   *)
(* hands each descriptor, as the bytes of an int, to one of N worker       *)
(* threads through a socket pair; the worker makes a tcp_connection of it  *)
(* and keeps that in a std::set ordered by descriptor number.              *)
(*                                                                         *)
(* A socket is a byte stream: what the acceptor appends may arrive in any  *)
(* pieces.  An int is modelled as two parts, so that a piece can end       *)
(* inside one.                                                             *)
(***************************************************************************)
EXTENDS Naturals, Sequences, SequencesExt

CONSTANTS
  Fd,        \* descriptor numbers the kernel can give to accepted sockets
  N,         \* number of workers
  IdxSize,   \* size_t has IdxSize values
  MayBreak   \* workers whose socket pair may fail

Worker == 0 .. N - 1

\* With no worker, % m_workers.size() divides by zero.
ASSUME WorkerAssumption == N \in Nat \ {0} /\ IdxSize \in Nat \ {0} /\ MayBreak \subseteq Worker

VARIABLES
  m_worker_idx,
  open,     \* accepted descriptors that are open in this process
  given,    \* the worker each descriptor was last given to
  ext,      \* workers whose m_external_conn is open
  int,      \* workers whose m_internal_conn is open
  out,      \* write buffer of each m_external_conn
  wire,     \* what the kernel holds of each socket pair
  in,       \* read buffer of each m_internal_conn
  conns     \* m_conn_set of each worker

vars == <<m_worker_idx, open, given, ext, int, out, wire, in, conns>>

\* The bytes take_fd appends for descriptor f.
Bytes(f) == <<<<f, 1>>, <<f, 2>>>>

Init ==
  /\ m_worker_idx = 0
  /\ open = {}
  /\ given = [f \in Fd |-> 0]
  /\ ext = Worker /\ int = Worker
  /\ out = [w \in Worker |-> <<>>]
  /\ wire = [w \in Worker |-> <<>>]
  /\ in = [w \in Worker |-> <<>>]
  /\ conns = [w \in Worker |-> {}]

------------------------------------------------------------------------------
(* The acceptor's thread.                                                    *)

\* Mutation: the result of take_fd is ignored, and the guard dismissed.
AcceptUnguarded(f) ==
  LET w == m_worker_idx % N
  IN  /\ f \in Fd \ open
      /\ m_worker_idx' = (m_worker_idx + 1) % IdxSize
      /\ out' = IF w \in ext THEN [out EXCEPT ![w] = @ \o Bytes(f)] ELSE out
      /\ open' = open \cup {f}
      /\ given' = [given EXCEPT ![f] = w]
      /\ UNCHANGED <<ext, int, wire, in, conns>>

\* handle_accept and fd_dispatcher's handler: the next worker in turn gets the
\* descriptor.  The append fails when its connection is closed; then take_fd
\* returns false and the acceptor's guard closes the descriptor again.
Accept(f) ==
  LET w == m_worker_idx % N
  IN  /\ f \in Fd \ open
      /\ m_worker_idx' = (m_worker_idx + 1) % IdxSize
      /\ \/ /\ w \in ext
            /\ out' = [out EXCEPT ![w] = @ \o Bytes(f)]
            /\ open' = open \cup {f}
            /\ given' = [given EXCEPT ![f] = w]
         \/ w \notin ext /\ UNCHANGED <<out, open, given>>
      /\ UNCHANGED <<ext, int, wire, in, conns>>

\* The event loop writes any part of the buffer to the socket.
Flush(w) ==
  /\ w \in ext \cap int
  /\ \E k \in 1 .. Len(out[w]) :
       /\ wire' = [wire EXCEPT ![w] = @ \o SubSeq(out[w], 1, k)]
       /\ out' = [out EXCEPT ![w] = SubSeq(@, k + 1, Len(@))]
  /\ UNCHANGED <<m_worker_idx, open, given, ext, int, in, conns>>

\* Mutation: the handler does not handle the end of file.
CloseExternalOnError(w) ==
  /\ w \in ext \cap int \cap MayBreak
  /\ ext' = ext \ {w}
  /\ out' = [out EXCEPT ![w] = <<>>]
  /\ UNCHANGED <<m_worker_idx, open, given, int, wire, in, conns>>

\* m_external_conn.close() in its handler: at once on an error, or at the end of
\* file when the worker's side is closed.  What was not written is dropped.
CloseExternal(w) ==
  /\ w \in ext /\ (w \in MayBreak \/ w \notin int)
  /\ ext' = ext \ {w}
  /\ out' = [out EXCEPT ![w] = <<>>]
  /\ UNCHANGED <<m_worker_idx, open, given, int, wire, in, conns>>

------------------------------------------------------------------------------
(* A worker's thread.                                                        *)

\* Mutation: the loop takes what there is, be it less than a descriptor.
RemainderEager(s) == <<>>

\* The descriptors the loop of the read handler takes out of buffer s, and what
\* it leaves in it.
WholeFds(s) == {s[2 * i][1] : i \in 1 .. Len(s) \div 2}
Remainder(s) == SubSeq(s, 2 * (Len(s) \div 2) + 1, Len(s))

\* Mutation: one descriptor per read event.
HandleReadOne(w) ==
  /\ w \in int
  /\ \E k \in 1 .. Len(wire[w]) :
       LET buf   == in[w] \o SubSeq(wire[w], 1, k)
           taken == IF Len(buf) < 2 THEN {} ELSE {buf[2][1]}
       IN  /\ in' = [in EXCEPT ![w] = IF Len(buf) < 2 THEN buf ELSE SubSeq(buf, 3, Len(buf))]
           /\ wire' = [wire EXCEPT ![w] = SubSeq(@, k + 1, Len(@))]
           /\ conns' = [conns EXCEPT ![w] = @ \cup taken]
           /\ open' = open \ (taken \cap conns[w])
  /\ UNCHANGED <<m_worker_idx, given, ext, int, out>>

\* take_fd makes a connection of each and puts it in the set.  A number the set
\* holds already would be refused by emplace, and its socket closed.
HandleRead(w) ==
  /\ w \in int
  /\ \E k \in 1 .. Len(wire[w]) :
       LET buf   == in[w] \o SubSeq(wire[w], 1, k)
           taken == WholeFds(buf)
       IN  /\ in' = [in EXCEPT ![w] = Remainder(buf)]
           /\ wire' = [wire EXCEPT ![w] = SubSeq(@, k + 1, Len(@))]
           /\ conns' = [conns EXCEPT ![w] = @ \cup taken]
           /\ open' = open \ (taken \cap conns[w])
  /\ UNCHANGED <<m_worker_idx, given, ext, int, out>>

\* conn.close() in the handler of m_internal_conn: on an error, or at the end of
\* file, after everything that was written has been read.
CloseInternal(w) ==
  /\ w \in int /\ (w \in MayBreak \/ (w \notin ext /\ wire[w] = <<>>))
  /\ int' = int \ {w}
  /\ wire' = [wire EXCEPT ![w] = <<>>]
  /\ in' = [in EXCEPT ![w] = <<>>]
  /\ UNCHANGED <<m_worker_idx, open, given, ext, out, conns>>

\* Mutation: the descriptor is closed before the connection leaves the set.
HandleEndKeepsEntry(w, f) ==
  /\ f \in conns[w] /\ f \in open
  /\ open' = open \ {f}
  /\ UNCHANGED <<m_worker_idx, given, ext, int, out, wire, in, conns>>

\* handle_timeout, handle_error, handle_eof of a client's connection: erasing it
\* from the set destroys it, which closes the descriptor.
HandleEnd(w, f) ==
  /\ f \in conns[w]
  /\ conns' = [conns EXCEPT ![w] = @ \ {f}]
  /\ open' = open \ {f}
  /\ UNCHANGED <<m_worker_idx, given, ext, int, out, wire, in>>

Next ==
  \/ \E f \in Fd : Accept(f)
  \/ \E w \in Worker : \/ Flush(w) \/ HandleRead(w)
                       \/ CloseExternal(w) \/ CloseInternal(w)
                       \/ \E f \in Fd : HandleEnd(w, f)

\* Every thread runs its event loop, which serves every event that stays pending.
Fairness ==
  \A w \in Worker : /\ WF_vars(Flush(w)) /\ WF_vars(HandleRead(w))
                    /\ WF_vars(w \notin int /\ CloseExternal(w))
                    /\ WF_vars(w \notin ext /\ wire[w] = <<>> /\ CloseInternal(w))

Spec == Init /\ [][Next]_vars /\ Fairness

------------------------------------------------------------------------------
(* Properties.                                                               *)

\* The bytes on their way to worker w.
Stream(w) == in[w] \o wire[w] \o out[w]

\* The descriptors worker w will still get if its channel holds: those whose last
\* byte has not been read.
Coming(w) == {f \in Fd : <<f, 2>> \in ToSet(Stream(w))}

Broken(w) == w \notin ext \/ w \notin int

\* However the stream is cut into pieces, and wherever the channel breaks, the
\* loop never makes a descriptor of the parts of two.
NoTornFd ==
  \A w \in Worker : \A i \in 1 .. Len(in[w] \o wire[w]) :
    LET s == in[w] \o wire[w]
    IN  s[i][2] = 2 - (i % 2) /\ (i % 2 = 0 => s[i - 1][1] = s[i][1])

\* A descriptor is with the worker it was given to and nowhere else, on its way
\* or in the set: so emplace always inserts, although the kernel reuses numbers
\* as soon as a worker has closed them, and no handler works on a closed number.
OneServer ==
  \A w \in Worker : /\ Coming(w) \cap conns[w] = {}
                    /\ conns[w] \subseteq open
                    /\ \A f \in Coming(w) \cup conns[w] : given[f] = w

\* A descriptor on its way arrives, or is dropped with its channel; none waits in
\* a buffer for an event that does not come.
HandOffCompletes ==
  \A f \in Fd, w \in Worker : (f \in Coming(w)) ~> (f \notin Coming(w))

\* A worker whose channel broke on either side gets no more descriptors.
BreakIsNoticed ==
  \A w \in Worker : Broken(w) ~> (w \notin ext /\ w \notin int)

\* The server implements the hand-over of descriptors; in particular a healthy
\* channel never loses one: refused, it is closed; accepted, it arrives.
Abs == INSTANCE FdHandOff
  WITH place <- [f \in Fd |-> LET w == given[f] IN
                   CASE f \notin open       -> <<"closed">>
                     [] f \in conns[w]      -> <<"served", w>>
                     [] f \in Coming(w)     -> <<"transit", w>>
                     [] OTHER               -> <<"lost">>],
       broken <- {w \in Worker : Broken(w)}

ImplementsHandOff == Abs!Spec

==============================================================================
