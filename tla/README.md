# Verification of ranger_event

`ranger_event` is a thin C++11 layer over libevent: movable objects that own
libevent's bufferevents, listeners, timers, buffers and the event loop, a Lua
binding made with SWIG, and a set of sample programs. The layer is short, but what
it must get right is hard to test: raw pointers that libevent keeps to movable
objects, callbacks that destroy what called them, deferred callbacks, descriptors
the kernel reuses, and a server that hands descriptors from thread to thread.

This directory holds TLA+ modules that model the library and its samples, TLC
configurations that check them on small instances, and proofs checked by TLAPS.
`PROJECT.json` maps every definition to the lines it stands for and lists the runs,
the mutated definitions that break each property, the hazards, the findings and the
theorems.

    tlc -workers 2 -config MCTcp.cfg MCTcp      # one run
    tlapm TcpConnectionProofs.tla               # one module of proofs

## The system

| component | state | operations | what makes it correct |
|---|---|---|---|
| `tcp_connection` (`core/tcp_connection.cpp`, `.hpp`) | top and base bufferevent of a chain of filters, token bucket, handler, extra data; in libevent: callback context, filter handler, configuration, descriptor | four constructors, `create_pair`, move, swap, `close`, `append_filter`, rate limits, handlers, the libevent callbacks | bufferevents, filters, configurations and descriptors are owned exactly once through any sequence of calls; callbacks always reach the present owner |
| `tcp_acceptor` | listener, handler; the descriptor in the hands of `handle_accept` | bind, move, swap, `close`, accept callback with its guard | the listener reports to its present owner, also when a handler moves or closes the acceptor; each accepted descriptor is owned and closed once |
| `timer`, `trigger`, `signal` | handle, impl with a back pointer, libevent event, handler | construct, move, swap, `close`, `active`, the callbacks | a firing event follows no dangling pointer and calls the handler set for it |
| `dispatcher` | libevent's event base: active queue, flags, pending one-shot exits | `run`, `run_once`, `kill`, `exit` | `kill` and `exit` end the run they should, promptly; no event is lost or doubled |
| `buffer` | evbuffer pointer, ownership flag, bytes | construct, view, copy, move, swap, append, remove, readln | each evbuffer is freed by its one owner; bytes are moved, never copied, lost or overtaken |
| durations (`timer_impl.hpp`, `dispatcher.cpp`, `token_bucket_cfg.cpp`, `set_timeouts`) | | two truncating casts and a test for zero | a duration keeps its length, and only a negligible one becomes "none" |
| echo server | acceptor, set of connections ordered by descriptor | accept, echo, erase at end of file or on error | complete ordered echo; each accepted descriptor has one owner from accept to close; the set stays sorted and keeps exactly the live connections |
| concurrent echo server | per worker: two ends of a socket pair, a set of connections; round-robin index | accept, hand over, take, serve, notice a broken channel | a descriptor reaches exactly one worker and is closed once |
| connection pair | counter, two connections sharing a handler | ping-pong, close both from inside a handler | the closure that closes both survives its own `close()` |
| filter server, in C++ and in Lua | chain of `size_filter` and `transform_filter` | filter up, filter down, erase at end of file or on error | whole blocks, each byte transformed once per direction, nothing truncated but an unfinished block unless the client resets the connection |
| clients: `simple_client`, `rate_limit`, in C++ and in Lua | one connection, token bucket | connect, send a request, print what comes, close on an error (C++ only) | everything a peer sent is printed, in order; the client does not hang on a dead connection; errors are reported as they happened |
| Lua binding and Lua echo server | userdata, registry references, `conn_table` | handlers, collector | the table holds exactly the live connections; the collector ends no connection that is served |

How they interact:

* libevent calls back through a raw `void*`: the address of a `tcp_connection` or a
  `tcp_acceptor`, or of an impl that points back to its handle. Every move must
  change it.
* Handlers are `std::function` members of the object that calls them. A handler that
  closes, moves or destroys its own object destroys or moves the closure it runs in.
  In the Lua binding the closure holds the reference to the Lua function.
* Connections are created with `BEV_OPT_DEFER_CALLBACKS`: what happens to a socket
  is collected and reported later, together, and a filter is one such level more.
* Ownership of a descriptor passes by convention: `handle_accept` closes it unless
  the handler returned true, and the constructor of `tcp_connection` that takes a
  descriptor has then made itself the owner.
* Threads meet in two places only: the channels of the concurrent echo server, and
  the event base, on which other threads may call `kill()`, `exit()` and the `active()` of a
  source.

The hard behaviours are therefore sequences of legal calls, steps that fail half
way, reuse of descriptor numbers, callbacks that change what they run in, data and
end of file that arrive together, and the race of `kill()` with the loop. The list
with its lines is under `hazards` in `PROJECT.json`.

## The modules

`HandleOwnership`, `FdHandOff` and `ByteStream` are abstract specifications. The rest
translates code. An operator of the module has the name of the function it translates where
TLA+ allows it.

| module | stands for | correspondence |
|---|---|---|
| `HandleOwnership` | what every movable wrapper promises | a holder for each resource, events go to the present holder |
| `TcpConnection` | `tcp_connection` | The objects and what libevent holds for them are one record `heap`. A member function is an operator from heap to heap, so `close()`, `operator=` and `create_pair` are compositions of the operators of the functions they call, temporaries and destructors included. Each public call is one action. |
| `TcpAcceptor` | `tcp_acceptor` and `handle_accept` | `HandleAccept` begins the callback; while it runs the handler may move, swap, re-program or close any acceptor (`UseAcceptors`); `HandlerTakes` and `HandlerRefuses` are its outcomes. A listener freed inside its own callback is "dying" until the callback returns, which is what libevent's reference count does. Actions for `EchoServer` to compose, without a specification of its own. |
| `EventHandle` | the handle/impl pairs of `timer`, `trigger`, `signal` | as `TcpConnection`; `Fire` is the callback, in which the handler may rearrange all handles |
| `EventLoop` | `dispatcher`, `active()`, the callbacks and the three event samples | the loop of libevent in five places (`out`, `top`, `poll`, `process`, and `closure` between the calls for signals that were caught together); `Kill`, `CallExit` and `Catch` may happen between any two steps; `ActiveAgain` is `active()` on a source that is started already, between two runs or while the loop waits |
| `Buffer` | `buffer` and the copy constructor for SWIG | pointers and flags per object; contents as sequences of distinct bytes, so that loss, duplication and overtaking are visible |
| `Durations` | the duration arithmetic | the two casts and the test for zero as operators on nanoseconds; `EventLoop` applies them to the periods of its timers |
| `FdHandOff` | what a server that hands over descriptors promises | the place of each descriptor |
| `ByteStream` | what the one who reads a stream is promised | what was sent, as the reader shall see it, and what has been read |
| `ConcurrentEchoServer` | the concurrent echo server | byte streams as sequences of halves of an `int`; `Flush` moves any prefix |
| `PeerConnection` | one connection of the echo server, or the connection of a client, and its peer | kernel buffers, bufferevent buffers, token bucket, pending deferred callbacks, the phases of a deferred call. `program`, chosen in `Init`, says which of the programs handles the callbacks and whether it calls `set_rate_limit`. |
| `ConnectionSet` | `std::set<tcp_connection>` of the servers | the tree as a sequence of connections; keys are read from the live objects, as the comparison does. Actions for `EchoServer` to compose. |
| `EchoServer` | the echo server as a whole | `TcpAcceptor` and `ConnectionSet` in one thread: only the loop begins a handler (`InLoop`), the accept handler turns the guarded descriptor into an element of the set, and the loop closes the descriptors of freed bufferevents, whose numbers the kernel may then accept again |
| `FilterServer` | both filter servers | one buffer per level, deferred callbacks per level; the end of the file and errors climb as the data does; the variable `lua`, chosen in `Init`, says which of the two programs runs |
| `ConnectionPair` | the connection pair sample | the wrapping counter, whose turn it is, who closed |
| `LuaEcho` | the Lua echo server above the binding | one action per Lua statement of the handlers that matters to the collector, which may run between any two, and the return to the C++ closure; `used` records what was done with an object or a closure that was gone |
| `TcpConnectionProofs`, `EventHandleProofs`, `EchoServerProofs`, `ConcurrentEchoServerProofs`, `PeerConnectionProofs`, `FilterServerProofs`, `BufferProofs`, `EventLoopProofs` | | proofs, each about the module it is named after; `EventLoopProofs` also about `Durations`, `PeerConnectionProofs` about `ConnectionPair` and `FilterServerProofs` about `LuaEcho`, for which the definitions of those two have names of their own (`PairSpec`, `LuaSpec`) |

`TcpConnection`, `EventHandle` and `EchoServer`, for its acceptors, each implement
`HandleOwnership` (property `ImplementsOwnership`); `ConcurrentEchoServer` implements
`FdHandOff` (`ImplementsHandOff`); `PeerConnection` and `FilterServer` implement
`ByteStream` (`ImplementsStream`). In the mappings, a connection holds its base bufferevent and
an acceptor its listener; a descriptor that is open but neither served nor on its
way is "lost". The stream of an echo server or a client is what the peer has sent, read by
the peer or printed by the client; that of a filter server is what the client has sent,
every byte transformed twice. A connection that ends early is a reader who reads no more:
liveness says when the rest arrives.

Definitions marked as mutations stand beside the definition they would replace. No
specification uses them: each is a plausible mistake in the code, and the run of the
property named in `PROJECT.json` fails when it takes the place of the original.

## The runs

| run | instance | what it shows |
|---|---|---|
| `tcp` | 3 connections, 3 bufferevents, 2 filter handlers, 2 descriptors, 1 configuration; symmetric | Ownership and callbacks of `tcp_connection` under every sequence of calls, and the refinement. Three connections give a move between two while a third stands by; three bufferevents give a chain of two filters or two sockets and a filter; with two descriptors `create_pair` can fail for want of one. Nothing is counted, so no depth bound is needed. |
| `tcp_connect_fails` | 1 connection | The finding below. |
| `echo_server` | 3 acceptors, 2 listeners, 4 connections, 3 descriptors; symmetric | Moves and closes of acceptors inside and outside handlers; a number is accepted again as soon as its last owner is gone, while other connections live below and above it in the set. |
| `event_handle` | 3 handles, 3 impls, 2 handlers; symmetric | Pointers between handle, impl and event; two handlers are enough to confuse them. |
| `event_loop` | 2 timers, one of 1 s and one of −400 ns, which truncates to zero, 1 trigger, 1 signal, 1 `exit` in flight, counters to 1, bursts of 2 signals | All sources meet in one queue. A count of one makes a handler activate its source from inside its callback, which is the case that differs; the second of two signals finds the event added again or left alone. A timer that is due, or in the queue of a run that was cut short, is activated again and must not tick twice. |
| `buffer` | 3 objects, 2 evbuffers and that of a connection, 3 bytes | Owner, view and copy at once; three bytes let a transfer split. Each byte is in one place, and none overtakes another on the way out of an evbuffer or into one. |
| `server` | 2 workers, 3 descriptors, `size_t` of 4 values, the channel of worker 1 may break | The index wraps; one worker breaks while the other must not notice. Three descriptors let two share a channel while a third is reused. |
| `peer` | 3 bytes, read timeout set for the server; bucket of 2 bytes, 1 per tick; all programs | Each of the buffers on the way can hold something while others do, and the third byte has to wait for the bucket. The stream is complete, in order, and heard of its end last; the refinement of `ByteStream`. |
| `peer_error_report` | 1 byte | The second finding below. |
| `filter` | blocks of 2, 4 bytes, over the letters whose images the two programs do and do not transform again; both programs | Two blocks and every remainder; what the client reads also when the server erases the connection with echoes under way, or the client resets it at any moment: then both a failing read and a failing write may report it, and the error may climb behind data or meet the end of the file. The refinement of `ByteStream` is proved and not part of the run. |
| `pair` | `size_t` of 128 values | Every initial counter, wrapped ones included. |
| `lua` | 3 connections, 2 numbers | A number is reused before the collector has run. |

Deadlock is checked where the system can always go on. It is switched off where the
real one stops: `tcp` and `tcp_connect_fails` after a double free, which ends the
program; `pair`, `peer` and `filter` after the connection is closed;
`server`, where descriptors may be used up by a broken channel. Symmetry is used
only in runs without liveness.

Bounds, all of them constants: the sets above, `MaxBytes` (bytes a peer sends),
`Rate` and `Burst` (the token bucket; the samples' 10 and 50 bytes against a stream of
any length), `MaxCaught` (signals caught before the loop looks),
`MaxByte` (bytes the buffers see), `MaxTick` (ticks of a program), `Exit` (exits in flight), `IdxSize` and `Half` (width of `size_t`).
`MaxCalls` in `EventLoop` counts calls of a handler up to one more than any should
get.

### Fairness

* `ConnectionPair`, `PeerConnection`, `FilterServer`: weak fairness of what the loop
  and the network do. A thread in `run()` serves every event that stays pending, and
  a deferred callback is queued until it is served; libevent refills a token bucket
  with a timer. Nothing obliges the peer to answer a connect, send, shut down or reset.
* `ConcurrentEchoServer`: weak fairness of flushing and reading, and of each side's
  noticing that the other has closed. There is none for accepting, for the end of a
  client, or for a channel to break.
* `EventLoop`: weak fairness of the steps of the thread in `run()`, and of the
  expiry of timers and exits. No signal need arrive and nobody need call `kill()`
  or `exit()`.
* The other modules state no fairness and claim no liveness.

`ExitReturns` holds because the programs of the repository count down. A trigger
that activates itself for ever keeps the active queue from running empty, and the
loop then does not look at the timeout of a delayed `exit()`; `kill()` still ends it
(`KillReturns`), since the flag is tested between any two handlers.

### What the code does otherwise than it says

`NoDoubleFree` (run `tcp_connect_fails`): when `bufferevent_socket_connect` fails,
`tcp_connection::connect` frees `m_top_bev`, leaves the pointer set and throws. It is
called in the body of a constructor that delegated to another one, so the object is
already complete and its destructor frees the bufferevent again. The exception
announces an error a caller can handle. `DoubleFreeOnlyOnConnect` says, and is
proved, that there is no other way to free a bufferevent twice. After the double free
the model takes no further step.

`ErrorReported` (run `peer_error_report`): the error handlers of the samples print
`error[" << conn.error_code() << "]: "` as the error of the connection, one statement
after `conn.remote_endpoint()`. On a connection that was refused or reset, its
`getpeername` fails with `ENOTCONN`. That overwrites the `errno` which libevent has set
for the callback and which `error_code()` returns, and the `sockaddr_in` that
`remote_endpoint()` turns into an endpoint has not been written.

## The proofs

Each theorem holds for every value of the constants that meets the module's
assumptions: that `NULL` and the temporaries are no declared objects, and what is
said below.

* **`TcpConnectionProofs`**: `TypeCorrect`, `CallbacksCorrect`,
  `OwnershipCorrect`, `RateLimitCorrect`, `DoubleFreeConfined`, `HeldByOne`,
  `PayloadGoesAlong` and `OwnershipImplemented`. None of
  these is inductive alone: `close()` is only safe for a chain that nobody else
  shares, and moving the base pointer is only right if it lies at the bottom of the
  chain. The inductive invariant `IInv` says of the heap (`HInv`) that it is typed,
  that storage without an object and objects without a chain hold nothing (`Clean`),
  that each chain is live, closed downwards, ends in exactly the base socket, calls
  its owner, and has a rate limit at the socket only, that of its owner (`Chained`),
  that chains are disjoint (`Disjoint`) and that each live bufferevent is in one
  (`Covered`); that the filter handlers and the open descriptors are those that the
  bufferevents and the program hold, no two of them the same (`Held`); and that
  nothing was freed twice before a `connect()` failed. Since
  the calls are compositions, so is the proof: one lemma per heap operator says what
  it leaves in the heap and that it preserves `HInv`, temporaries included, and one
  lemma per action puts these together. These also say what the call did as seen from
  outside, `Turn`: nothing moved, one or two connections got new sockets, one let go,
  one handed over all its members or two traded them. `PayloadTravels` and the
  refinement need no more than that. `OwnershipExclusive` is about `HandleOwnership`
  itself, for the holders and resources that the refinement names: no resource ever has
  two holders. `SocketsExclusive` is what `tcp_connection` so inherits, with the
  address that the socket reports to.
* **`EventHandleProofs`**: `NothingDangles`, `HandlersTravel`, `OwnershipImplemented`,
  `ImplsExclusive`.
  `NoDangling` speaks of events that may fire, but a move makes a dangling pointer long
  before one does. The invariant says of every handle and impl that they point at each
  other (`LinkedAt`), that an impl without a handle is deleted with its event
  (`CoveredAt`), and that a handle holds the handler intended for its impl (`Travels`).
* **`EchoServerProofs`**: `DescriptorsOwnedOnce`, `SetSorted`, `ConnectionsKept`,
  `OwnershipImplemented` and `ListenersExclusive`, assuming that descriptors are natural
  numbers. The three
  invariants are inductive only together and with those of the acceptors (`Acceptors`):
  a descriptor that is accepted is new to the set because each open one has an owner
  already, the search finds the place of a key because the set is sorted, and it stays
  sorted because `erase` takes out the one connection whose key has just been lost.
  Lemmas state what the search, insertion and erasure do to any sorted sequence.
* **`ConcurrentEchoServerProofs`**, assuming at least one worker: `FdsAreWhole`,
  `ServedByOne`, `HandOffImplemented`. What the acceptor has written for a worker that
  the worker has not taken is one stream, however it is spread over the buffers; lemmas say that
  flushing leaves it as it is, reading cuts whole descriptors off its front, and
  closing an end leaves what the other end has. The invariant says that the stream of a worker whose
  end is open begins with a whole descriptor, ends with one as long as the acceptor can
  add to it, and brings no descriptor twice (`Channel`); and that what is on its way is
  open, without which the kernel could give the number to the acceptor again and
  `OneServer` would not last.
* **`BufferProofs`**: `OneOwnerEach`, `NothingFreedTwice`, `BytesKeepOrder`. That each
  evbuffer has one owner does not say that nobody owns the evbuffer of a connection,
  nor that an owner is constructed; the invariant does (`OwnersAlive`, `OneOwner`,
  `NoOrphan`). `BytesInOrder` has two parts. That each byte is in one place
  (`OnePlace`) follows from `Spread`, a statement about the contents of
  all evbuffers alone, which lemmas on sequences show to survive `add`, `drain`,
  `remove` and a transfer between any two evbuffers, or an evbuffer and itself. That no
  step lets a byte overtake another (`NoOvertaking`) is shown for the same operations,
  from the fact that a byte occurs only once in a row: what leaves an evbuffer was its
  front, and what joins another stands behind all that was there, in the order it had.
* **`EventLoopProofs`**: `KillStops`, `TicksAreExact`, and, without assumptions,
  `SplitExact` and `ZeroOnlyIfNegligible`: the seconds and microseconds of a duration of
  whole nanoseconds have its sign and its length to the microsecond, and only a duration
  of less than one microsecond, or a negative one, is taken for "none". `KillStops` rests
  on `Stops`: the flag that `kill()` leaves takes the loop from any handler to its top
  and out, so at most one handler was begun late. `TicksExact` is about the
  moment a run returns; its invariant says of every moment before that each source is
  never called, or counting down with calls and ticks in step, or done, or was called
  in a burst (`Ticking`), that each event is in the queue once and only while it is active
  (`Queued`), and what a signal still owes (`Owed`). Which timers are never called is
  where `ZeroOnlyIfNegligible` is used. The set of events is assumed finite, since the
  loop puts those that expired into a sequence.
* **`PeerConnectionProofs`**: `TypesKept`, `StreamKept`, `EofIsLast` and
  `StreamImplemented`, for a stream of any length, any token bucket, with a timeout and
  without. `TypesKept` includes that the bucket is never overdrawn, which needs the
  amount a read may take to be cut at its tokens. `StreamInOrder` is inductive once it is
  written with the buffers on the way (`EchoInv`, `PrintInv`): a step that moves bytes
  between buffers leaves their concatenation as it is, and one that cuts the stream short
  leaves a prefix. That the end comes last is `EofInv`: data in the input has a
  deferred read to announce it, a deferred call serves the read before the event, and an
  end of file is only found behind the last byte, after which nothing is read.
  The module also proves `ClosureSafe` of `ConnectionPair`, assuming that `size_t` has an even
  number of values. The invariant `Parity` relates counter and direction: the message
  is on its way to the second connection exactly when an even number of echoes is
  left. The counter starts even because it is doubled, even if the product wraps, so
  it is used up at the second connection, whose `close()` of the first one destroys
  a closure that is not running.
* **`FilterServerProofs`**, for any alphabet, any size of a block above zero, streams of
  any length and both programs: `EchoIsTransformed`, `OnlyRestIsLost` and
  `StreamImplemented`. `Pipe` says what the client will have read when every buffer of the
  chain has emptied itself, each byte transformed as often as it has still to pass a
  filter; `Flow` says that this is what it shall read. Lemmas about any sequences
  say how a byte that enters (`PipeGrows`), one that is transformed (`PipeTransforms`) and
  one that is echoed (`PipeEchoes`) change it; they rest on the transformation of a
  concatenation being that of its parts (`LiftConcat`). `OnlyRestLost` follows from two
  invariants of the deferred callbacks: data that could be passed on has a read due
  (`Announced`), and the end of the file is due at a level only when reading has stopped and those below
  it have no data to pass on (`EofClimbs`). While the client has not reset the connection
  and the server has not erased it (`Unbroken`), `Pipe` is all that was sent; afterwards
  what has arrived stays the beginning of it.
  `StreamPromises` is about `ByteStream` itself, for the stream that the refinement names:
  its reader has the beginning of what was sent, and keeps it.
  The module also proves `TableIsSound`, `CollectorSpares` and `OnlyCloseIsLate` of
  `LuaEcho`. That an entry of the table is live is not enough: the invariant adds that each live connection
  is kept by its own entry, or by the handler that is about to make or has just
  dropped it (`Kept`), and what a handler may rely on at each statement (`Running`).

Only model-checked: everything with fairness (`Ends`, `HandOffCompletes`, `BreakIsNoticed`,
`KillReturns`, `ExitReturns`, `DeadIsClosed`, `StreamArrives`, `BlocksArrive`), since liveness is
out of the prover's reach. The theorems about specifications that state fairness do not use
it: they hold with it and without. The two properties that are violated are about what the
code says of itself and are not proved, nor could they be.

## Assumptions, and what is left out

* libevent and the kernel are modelled from the way the code uses them, at the
  granularity of their callbacks: a bufferevent's free unsets its callbacks; closing
  a socket of a bufferevent with `BEV_OPT_CLOSE_ON_FREE` frees its number, at once or
  when the running callback has returned; a socket delivers a prefix of what was
  written.
* Calls are atomic except where a handler runs inside them. Handles are used on the
  thread of their loop, as in every program of the repository; nothing in them is
  locked. Other threads call `kill()` and `exit()` at any moment, and `active()` only
  while the loop waits or is left: calls of `active()` for one source by the handler of
  another are left out, no program makes them.
* Handlers do not throw. Allocation fails only where the code tests for it.
* In `ConnectionPair` the message of a few bytes crosses the socket pair whole.
* At least one worker (`WorkerAssumption`) and a block size above zero
  (`FilterAssumption`): the programs do not check their arguments and divide by zero
  otherwise.
* A dispatcher outlives what is made with it.
* A duration is a whole number of nanoseconds; the durations in floating point that
  the samples and the Lua binding make are taken at the nearest one.
* A signal does not arrive while its event is idle: its disposition is then the
  default one, which ends the process.
* A client's host name resolves. Its request is one element of the stream.

Not modelled: endpoints and other conversions by the C library, the byte counters a
program may adjust by hand (`decrement_read_limit` and the like, which no program
calls), TCP options and their sample, calls on buffers without an evbuffer, those a
closed connection returns from `read_buffer()` and `write_buffer()` included, the
`bufferevent_enable` in `reset_callbacks()` (no program disables what it enables), the
timeouts of a filter server (it sets none, so its `handle_timeout` is never called), the
Lua stack and coroutines. The closure that the binding makes for an acceptor reads its
reference after the Lua function has returned (`tcp_acceptor.i:45`), which a function that
closed its acceptor would have destroyed; none in the repository does, and `LuaEcho`
models the closures of connections. The build files have no behaviour.

`extra` of `TcpAcceptor` follows the code in that a move or a swap leaves it behind. No
property is about it, since no program of the repository reads it.

## The plan

Done, in this order, the most important behaviour first:

1. `HandleOwnership`, `TcpConnection`, their refinement and proofs.
2. `ConnectionPair` with its proof; `FdHandOff` and `ConcurrentEchoServer`.
3. `EventLoop`, `EventHandle`, `TcpAcceptor`.
4. `FilterServer`, `Buffer`, `Durations` with its proof, `ConnectionSet`, `LuaEcho`.
5. `EchoServer`, the composition of `TcpAcceptor` and `ConnectionSet`, with descriptors
   from accept to close.
6. `PeerConnection`: the connection of the echo server and of the clients, rate limits
   and error reports included.
7. Bursts of signals in `EventLoop`; the closures of the binding in `LuaEcho`.
8. The proofs of the wrappers and of what they own: `TcpConnection`, `EventHandle`,
   `EchoServer` with its acceptors, each with its refinement, and `Buffer`.
9. The proofs of `LuaEcho`, `EventLoop` and `ConcurrentEchoServer` with its refinement.
10. `ByteStream`, and the proofs of `PeerConnection` and `FilterServer` with their refinements.

Next, models, as far as a program of the repository comes to need them: the counters of
rate limits, calls on buffers that were moved from, results left on the Lua stack, the
life of the dispatcher against that of its users.
