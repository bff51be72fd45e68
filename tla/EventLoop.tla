------------------------------ MODULE EventLoop ------------------------------
(***************************************************************************)
(* ranger::event::dispatcher (core/dispatcher.cpp) running the event       *)
(* sources of the samples timer_event, trigger_event and signal_event: one *)
(* thread is in run() or run_once(), others call kill() and exit().        *)
(*                                                                         *)
(* kill() is event_base_loopbreak, a flag that entering the loop clears;   *)
(* exit() is event_base_loopexit, a one-shot timeout that stays armed until*)
(* some run serves it.  A timer or a signal is an event that is added, a   *)
(* trigger is put straight into the queue of active events, which the loop *)
(* empties before it looks at anything else.                               *)
(***************************************************************************)
EXTENDS Durations, Sequences, SequencesExt, FiniteSets

CONSTANTS
  Timer, Trigger, Signal,  \* the event sources
  Period,                  \* the duration each timer is given
  Exit,                    \* one-shot timeouts of exit(): a bound on those in flight
  MaxTick,                 \* the greatest value of a tick_cnt
  MaxCaught                \* bound on the signals caught before the loop looks

Source == Timer \cup Trigger \cup Signal
Event == Source \cup Exit

ASSUME SourceAssumption ==
  /\ Timer \cap Trigger = {} /\ Timer \cap Signal = {} /\ Trigger \cap Signal = {}
  /\ Exit \cap Source = {} /\ IsFiniteSet(Event)
  /\ Period \in [Timer -> Int] /\ MaxTick \in Nat /\ MaxCaught \in Nat \ {0}

VARIABLES
  event,    \* each event is "idle", "added", "expired" or "active"
  queue,    \* the active events, in the order in which they will be served
  loop,     \* where the thread of run() is in event_base_loop
  mode,     \* the flags it passed to event_base_loop
  ret,      \* what the last run returned
  gotterm, broke,  \* the base's flags of loopexit and loopbreak
  woken,    \* a byte is in the notification pipe of the base
  ncalls,   \* calls a signal event owes its handler: signals that were caught
  tick_cnt, \* ticks each program has left
  asked,    \* history: ticks it was started with
  calls,    \* history: calls of its handler
  killed,   \* history: kill() was called in this run
  late,     \* history: handlers called since
  burst     \* history: signals that arrived several times before the loop looked

program == <<tick_cnt, asked, calls>>
signals == <<ncalls, burst>>
flags == <<gotterm, broke, woken, killed, late>>
vars == <<event, queue, loop, mode, ret, gotterm, broke, woken, signals, program, killed, late>>

\* More calls than any handler should get are counted as this many.
MaxCalls == MaxTick + 2

In(state) == {e \in Event : event[e] = state}

------------------------------------------------------------------------------
(* active() of the three sources.  An event that is active already is not    *)
(* queued again.                                                             *)

\* What timer::active makes of the duration.
Timeout(s) == Split(Period[s])

\* The call adds an event: active_impl of a timer does nothing when its duration
\* truncates to zero or is negative.
Adds(s) == s \in Signal \/ (s \in Timer /\ Given(Timeout(s)))

\* The state of the event after active().
Activated(s) ==
  IF s \in Trigger THEN "active" ELSE IF Adds(s) THEN "added" ELSE "idle"

\* Each program calls active() once, before run().  The counter of one that is never
\* called does not matter.
Init ==
  /\ event = [e \in Event |-> IF e \in Source THEN Activated(e) ELSE "idle"]
  /\ queue \in SetToSeqs(Trigger)
  /\ loop = "out" /\ mode = "dispatch" /\ ret = "none"
  /\ gotterm = FALSE /\ broke = FALSE /\ woken = FALSE
  /\ tick_cnt \in {n \in [Source -> 0 .. MaxTick] : \A s \in Source : Activated(s) = "idle" => n[s] = 0}
  /\ asked = tick_cnt
  /\ calls = [s \in Source |-> 0]
  /\ killed = FALSE /\ late = 0
  /\ ncalls = [s \in Signal |-> 0] /\ burst = {}

------------------------------------------------------------------------------
(* The thread that runs the loop.                                            *)

\* run(), run_once() and run_once(false): event_base_loop forgets the flags.
Enter ==
  /\ loop = "out"
  /\ loop' = "top" /\ ret' = "none"
  /\ mode' \in {"dispatch", "once", "nonblock"}
  /\ gotterm' = FALSE /\ broke' = FALSE /\ killed' = FALSE /\ late' = 0
  /\ UNCHANGED <<event, queue, woken, signals, program>>

\* 0, "stopped", or 1, "no events"; the flags of the call go with it.
Leave(r) == loop' = "out" /\ ret' = r /\ mode' = "dispatch"
GoTo(l) == loop' = l /\ UNCHANGED <<ret, mode>>

Stopping == gotterm \/ broke

HaveEvents == In("added") \cup In("expired") \cup In("active") # {}

\* The head of the loop.
Top ==
  /\ loop = "top"
  /\ \/ Stopping /\ Leave("stopped")
     \/ ~Stopping /\ ~HaveEvents /\ Leave("no events")
     \/ ~Stopping /\ HaveEvents /\ GoTo("poll")
  /\ UNCHANGED <<event, queue, flags, signals, program>>

\* Waits unless an event is active or expired, or the base was woken; makes what
\* has expired active, in any order.
Poll ==
  /\ loop = "poll"
  /\ queue # <<>> \/ In("expired") # {} \/ woken \/ mode = "nonblock"
  /\ \E order \in SetToSeqs(In("expired")) : queue' = queue \o order
  /\ event' = [e \in Event |-> IF event[e] = "expired" THEN "active" ELSE event[e]]
  /\ woken' = FALSE
  /\ CASE queue' # <<>>                         -> GoTo("process")
       [] queue' = <<>> /\ mode = "nonblock"    -> Leave("stopped")
       [] queue' = <<>> /\ mode # "nonblock"    -> GoTo("top")
  /\ UNCHANGED <<gotterm, broke, killed, late, signals, program>>

\* After each call the loop looks at the flag of loopbreak; the one of loopexit
\* has to wait until the queue is empty.
AfterServing ==
  CASE broke                                            -> GoTo("top")
    [] ~broke /\ queue' # <<>>                          -> GoTo("process")
    [] ~broke /\ queue' = <<>> /\ mode = "dispatch"     -> GoTo("top")
    [] ~broke /\ queue' = <<>> /\ mode # "dispatch"     -> Leave("stopped")

\* Mutation: the counter is tested but not counted down.
CountDownNot(s) == tick_cnt[s] > 0 /\ UNCHANGED tick_cnt

\* tick_cnt-- > 0 is true.
CountDown(s) ==
  tick_cnt[s] > 0 /\ tick_cnt' = [tick_cnt EXCEPT ![s] = @ - 1]

\* tick_cnt-- > 0 is false; a size_t wraps.  (The int of timer_event goes negative,
\* which nobody sees: its handler is not called again.)  The Lua samples test first
\* and leave a counter of zero alone.
CountOut(s) ==
  /\ tick_cnt[s] = 0
  /\ \E left \in {0, MaxTick} : tick_cnt' = [tick_cnt EXCEPT ![s] = left]

\* handle_expire, handle_touch or handle_signal call the handler of the program.
Called(s) ==
  /\ calls' = [calls EXCEPT ![s] = IF @ = MaxCalls THEN @ ELSE @ + 1]
  /\ late' = IF killed THEN late + 1 ELSE late
  /\ ncalls' = [t \in Signal |-> IF t # s THEN ncalls[t] ELSE IF broke THEN 0 ELSE ncalls[t] - 1]
  /\ burst' = burst \cup {t \in Signal : t = s /\ ncalls[t] > 1}
  /\ IF \E t \in Signal : t = s /\ ncalls'[t] > 0 THEN GoTo("closure") ELSE AfterServing
  /\ UNCHANGED <<gotterm, broke, woken, killed, asked>>

\* The event is out of the queue and no longer added when its handler runs.
Serve ==
  LET s == Head(queue)
  IN  /\ loop = "process" /\ s \in Source
      /\ \/ /\ CountDown(s)
            /\ event' = [event EXCEPT ![s] = Activated(s)]
            /\ queue' = Tail(queue) \o (IF s \in Trigger THEN <<s>> ELSE <<>>)
         \/ /\ CountOut(s)
            /\ event' = [event EXCEPT ![s] = "idle"]
            /\ queue' = Tail(queue)
      /\ Called(s)

\* event_signal_closure calls the handler for the next signal, whatever the event
\* has become in the meantime.
ServeAgain ==
  /\ loop = "closure" /\ UNCHANGED queue
  /\ \E s \in Signal :
       /\ ncalls[s] > 0 /\ event[s] \notin {"expired", "active"}
       /\ \/ CountDown(s) /\ event' = [event EXCEPT ![s] = Activated(s)]
          \/ CountOut(s) /\ UNCHANGED event
       /\ Called(s)

\* event_loopexit_cb.
ServeExit ==
  LET x == Head(queue)
  IN  /\ loop = "process" /\ x \in Exit
      /\ event' = [event EXCEPT ![x] = "idle"]
      /\ queue' = Tail(queue)
      /\ gotterm' = TRUE
      /\ AfterServing
      /\ UNCHANGED <<broke, woken, killed, late, signals, program>>

------------------------------------------------------------------------------
(* Time, signals and other threads.                                          *)

\* A timeout is over.
Expire(e) ==
  /\ event[e] = "added"
  /\ event' = [event EXCEPT ![e] = "expired"]
  /\ UNCHANGED <<queue, loop, mode, ret, flags, signals, program>>

\* A signal is caught while its event is added, and counted until the loop polls.  One
\* that arrives between that and the end of the calls is as good as one that arrives
\* later; one that arrives when the event is idle ends the process.
Catch(s) ==
  /\ event[s] \in {"added", "expired"} /\ loop # "closure" /\ ncalls[s] < MaxCaught
  /\ event' = [event EXCEPT ![s] = "expired"]
  /\ ncalls' = [ncalls EXCEPT ![s] = @ + 1]
  /\ UNCHANGED <<queue, loop, mode, ret, flags, burst, program>>

\* Mutation: without evthread_use_pthreads the base cannot be woken.
KillWithoutWaking ==
  /\ broke' = TRUE
  /\ killed' = (loop # "out")
  /\ UNCHANGED <<event, queue, loop, mode, ret, gotterm, woken, late, signals, program>>

\* Mutation: kill() is a loopexit without delay.
KillByExit ==
  /\ \E x \in In("idle") \cap Exit : event' = [event EXCEPT ![x] = "added"]
  /\ killed' = (loop # "out")
  /\ woken' = (loop # "out")
  /\ UNCHANGED <<queue, loop, mode, ret, gotterm, broke, late, signals, program>>

\* Before run() it has no effect: Enter clears the flag.
Kill ==
  /\ broke' = TRUE
  /\ killed' = (loop # "out")
  /\ woken' = (loop # "out")
  /\ UNCHANGED <<event, queue, loop, mode, ret, gotterm, late, signals, program>>

\* exit(delay): a zero delay is a timeout too, one that is over at once.
CallExit ==
  /\ \E x \in In("idle") \cap Exit : event' = [event EXCEPT ![x] = "added"]
  /\ woken' = (loop # "out")
  /\ UNCHANGED <<queue, loop, mode, ret, gotterm, broke, killed, late, signals, program>>

\* Mutation: a timer that is active already stays in the queue.
ActiveAgainInQueue(s) ==
  /\ loop \in {"out", "poll"} /\ event[s] # "idle"
  /\ event' = [event EXCEPT ![s] = IF s \in Timer THEN "added" ELSE @]
  /\ woken' \in {woken, woken \/ loop = "poll"}
  /\ UNCHANGED <<queue, loop, mode, ret, gotterm, broke, killed, late, signals, program>>

\* active() on a source that is started, between two runs or by another thread while
\* the loop waits.  A timer starts over, one that is due already is taken back; an
\* active trigger and an added signal stay as they are.
ActiveAgain(s) ==
  /\ loop \in {"out", "poll"} /\ event[s] # "idle"
  /\ event' = [event EXCEPT ![s] = IF s \in Timer THEN "added" ELSE @]
  /\ IF s \in Timer /\ event[s] = "active"
     THEN \E i \in DOMAIN queue : queue[i] = s /\ queue' = RemoveAt(queue, i)
     ELSE UNCHANGED queue
  /\ woken' \in {woken, woken \/ loop = "poll"}
  /\ UNCHANGED <<loop, mode, ret, gotterm, broke, killed, late, signals, program>>

Next ==
  \/ Enter \/ Top \/ Poll \/ Serve \/ ServeAgain \/ ServeExit \/ Kill \/ CallExit
  \/ \E e \in Timer \cup Exit : Expire(e)
  \/ \E s \in Signal : Catch(s)
  \/ \E s \in Source : ActiveAgain(s)

\* The thread in run() is scheduled and time passes.  Nobody has to send a signal.
Fairness ==
  /\ WF_vars(Top) /\ WF_vars(Poll) /\ WF_vars(Serve)
  /\ WF_vars(ServeAgain) /\ WF_vars(ServeExit)
  /\ \A e \in Timer \cup Exit : WF_vars(Expire(e))

Spec == Init /\ [][Next]_vars /\ Fairness

------------------------------------------------------------------------------
(* Properties.                                                               *)

\* Once kill() was called in a run, that run calls at most the handler that is
\* next, however many events are active or keep activating each other.
KillIsPrompt == late <= 1

\* A run in which kill() was called returns, also when it waits for events that
\* never come.
KillReturns == (killed /\ loop # "out") ~> (loop = "out")

\* exit() is not lost: called before the run or during it, it ends the run,
\* provided the triggers stop activating themselves (here, their counters end).
ExitReturns == (gotterm \/ (\E x \in Exit : event[x] # "idle")) /\ loop # "out" ~> loop = "out"

\* Whatever runs kill() and exit() cut short before, when a run returns because
\* there are no more events every program has ticked exactly as often as it was
\* asked to.  Only a timer whose period is less than a microsecond never ticks, and
\* a signal that arrived several times before the loop looked may have ticked more:
\* the calls that are left when its counter is used up start it again.
TicksExact ==
  ret = "no events" =>
    \A s \in Source :
      IF s \in Timer /\ Period[s] < Microsecond THEN calls[s] = 0
      ELSE calls[s] = asked[s] + 1 \/ (s \in burst /\ calls[s] > asked[s])

=============================================================================
