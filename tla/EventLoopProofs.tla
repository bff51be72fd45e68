-------------------------- MODULE EventLoopProofs --------------------------
(***************************************************************************)
(* What two truncating casts and a test for zero do to every duration, and *)
(* what the loop of a dispatcher does to any number of timers, triggers and*)
(* signals, whatever their periods and counters.                           *)
(***************************************************************************)
EXTENDS EventLoop, FiniteSetTheorems, SequenceTheorems, TLAPS

\* A cast gives the quotient whose product is nearest to d on the side of zero.
LEMMA CastSecond ==
  ASSUME NEW d \in Int
  PROVE  /\ Cast(d, Second) \in Int
         /\ d >= 0 => /\ 0 <= Cast(d, Second)
                      /\ Cast(d, Second) * Second <= d
                      /\ d < Cast(d, Second) * Second + Second
         /\ d < 0  => /\ Cast(d, Second) <= 0
                      /\ d <= Cast(d, Second) * Second
                      /\ Cast(d, Second) * Second - Second < d
BY SMT DEF Cast, Second

LEMMA CastMicrosecond ==
  ASSUME NEW d \in Int
  PROVE  /\ Cast(d, Microsecond) \in Int
         /\ d >= 0 => /\ 0 <= Cast(d, Microsecond)
                      /\ Cast(d, Microsecond) * Microsecond <= d
                      /\ d < Cast(d, Microsecond) * Microsecond + Microsecond
         /\ d < 0  => /\ Cast(d, Microsecond) <= 0
                      /\ d <= Cast(d, Microsecond) * Microsecond
                      /\ Cast(d, Microsecond) * Microsecond - Microsecond < d
BY SMT DEF Cast, Microsecond

------------------------------------------------------------------------------

\* The length of a timeval.
Length(t) == t.sec * Second + t.usec * Microsecond

\* Timeval t stands for duration d: it is not longer than d in magnitude, is short of
\* it by less than a microsecond, and its microseconds have the sign of the whole
\* and are less than a second.
StandsFor(t, d) ==
  /\ t.sec \in Int /\ t.usec \in Int
  /\ d >= 0 => /\ 0 <= t.sec /\ 0 <= t.usec /\ t.usec * Microsecond < Second
               /\ Length(t) <= d /\ d < Length(t) + Microsecond
  /\ d < 0  => /\ t.sec <= 0 /\ t.usec <= 0 /\ -Second < t.usec * Microsecond
               /\ d <= Length(t) /\ Length(t) - Microsecond < d

\* What timer_impl::active, dispatcher::exit, token_bucket_cfg::create and
\* set_timeouts give to libevent is what they were asked for, for every duration.
THEOREM SplitExact ==
  ASSUME NEW d \in Int
  PROVE  StandsFor(Split(d), d)
<1> DEFINE sec == Cast(d, Second)
           rest == d - sec * Second
           usec == Cast(rest, Microsecond)
<1>1. Split(d).sec = sec /\ Split(d).usec = usec
  BY DEF Split
<1>2. Length(Split(d)) = sec * Second + usec * Microsecond
  BY <1>1 DEF Length
<1>3. /\ sec \in Int
      /\ d >= 0 => 0 <= sec /\ sec * Second <= d /\ d < sec * Second + Second
      /\ d < 0 => sec <= 0 /\ d <= sec * Second /\ sec * Second - Second < d
  BY CastSecond
<1> HIDE DEF sec
<1>4. /\ rest \in Int /\ rest = d - sec * Second
      /\ d >= 0 => 0 <= rest /\ rest < Second
      /\ d < 0 => rest <= 0 /\ -Second < rest
  BY <1>3, SMT DEF Second
<1> HIDE DEF rest
<1>5. /\ usec \in Int
      /\ rest >= 0 => 0 <= usec /\ usec * Microsecond <= rest /\ rest < usec * Microsecond + Microsecond
      /\ rest < 0 => usec <= 0 /\ rest <= usec * Microsecond /\ usec * Microsecond - Microsecond < rest
  BY <1>4, CastMicrosecond
<1> HIDE DEF usec
<1>6. CASE d >= 0
  <2>1. rest >= 0
    BY <1>4, <1>6
  <2>2. 0 <= sec /\ 0 <= usec
    BY <1>3, <1>5, <1>6, <2>1
  <2>3. /\ usec * Microsecond < Second
        /\ sec * Second + usec * Microsecond <= d
        /\ d < sec * Second + usec * Microsecond + Microsecond
    BY <1>3, <1>4, <1>5, <1>6, <2>1, SMT DEF Second, Microsecond
  <2> QED
    BY <1>1, <1>2, <1>3, <1>4, <1>5, <1>6, <2>2, <2>3, SMT DEF StandsFor, Second, Microsecond
<1>7. CASE d < 0
  <2>1. rest <= 0
    BY <1>4, <1>7
  <2>2. sec <= 0 /\ usec <= 0
    BY <1>3, <1>4, <1>5, <1>7, <2>1, SMT DEF Second, Microsecond
  <2>3. /\ -Second < usec * Microsecond
        /\ d <= sec * Second + usec * Microsecond
        /\ sec * Second + usec * Microsecond - Microsecond < d
    BY <1>3, <1>4, <1>5, <1>7, <2>1, SMT DEF Second, Microsecond
  <2> QED
    BY <1>1, <1>2, <1>3, <1>4, <1>5, <1>7, <2>2, <2>3, SMT DEF StandsFor, Second, Microsecond
<1> QED
  BY <1>6, <1>7

\* The special meaning of zero (a timer that is not added, an exit at once, no
\* timeout) is taken by durations of less than a microsecond and by negative ones,
\* and by no other: none is lost because it is a whole number of seconds or less
\* than one.
THEOREM ZeroOnlyIfNegligible ==
  ASSUME NEW d \in Int
  PROVE  Given(Split(d)) <=> d >= Microsecond
<1> DEFINE t == Split(d)
<1>1. /\ t.sec \in Int /\ t.usec \in Int
      /\ d >= 0 => t.sec >= 0 /\ t.usec >= 0 /\ Length(t) <= d /\ d < Length(t) + Microsecond
      /\ d < 0 => t.sec <= 0 /\ t.usec <= 0
  BY SplitExact, SMT DEF StandsFor, Second, Microsecond
<1>2. Length(t) = t.sec * Second + t.usec * Microsecond
  BY DEF Length
<1>3. Given(t) <=> t.sec > 0 \/ t.usec > 0
  BY DEF Given
<1> HIDE DEF t
<1>4. Given(t) <=> d >= Microsecond
  BY <1>1, <1>2, <1>3, SMT DEF Second, Microsecond
<1> QED
  BY <1>4 DEF t

------------------------------------------------------------------------------
(* kill(). *)

\* After kill() at most the handler that is next is called: the flag it leaves takes
\* the loop from any handler to its top, and from there out.
Stops ==
  /\ killed => broke
  /\ late \in {0, 1}
  /\ late = 1 => loop = "out" \/ (broke /\ loop = "top")

LEMMA ServingEnds ==
  ASSUME AfterServing
  PROVE  /\ loop' \in {"top", "process", "out"} /\ ret' \in {ret, "stopped"}
         /\ broke => loop' = "top"
<1>1. \/ broke /\ GoTo("top")
      \/ ~broke /\ queue' # <<>> /\ GoTo("process")
      \/ ~broke /\ queue' = <<>> /\ mode = "dispatch" /\ GoTo("top")
      \/ ~broke /\ queue' = <<>> /\ mode # "dispatch" /\ Leave("stopped")
  BY DEF AfterServing
<1> QED
  BY <1>1 DEF GoTo, Leave

\* What a call of a handler does beside its program.
LEMMA CalledFlags ==
  ASSUME NEW s, Called(s)
  PROVE  /\ gotterm' = gotterm /\ broke' = broke /\ killed' = killed /\ asked' = asked
         /\ late' = IF killed THEN late + 1 ELSE late
         /\ loop' \in {"top", "process", "out", "closure"} /\ ret' \in {ret, "stopped"}
         /\ broke => loop' = "top"
<1>1. CASE \E t \in Signal : t = s /\ ncalls'[t] > 0
  <2>1. PICK t \in Signal : t = s /\ ncalls'[t] > 0
    BY <1>1
  <2>2. broke => ncalls'[t] = 0
    BY <2>1 DEF Called
  <2> QED
    BY <1>1, <2>1, <2>2 DEF Called, GoTo
<1>2. CASE ~(\E t \in Signal : t = s /\ ncalls'[t] > 0)
  BY <1>2, ServingEnds DEF Called
<1> QED
  BY <1>1, <1>2

LEMMA InitStops == Init => Stops
BY DEF Init, Stops

LEMMA NextStops == Stops /\ [Next]_vars => Stops'
<1> SUFFICES ASSUME Stops, [Next]_vars PROVE Stops'
  OBVIOUS
<1>1. CASE Enter
  BY <1>1 DEF Enter, Stops
<1>2. CASE Top
  BY <1>2 DEF Top, Stops, Leave, GoTo, Stopping, flags
<1>3. CASE Poll
  BY <1>3 DEF Poll, Stops
<1>4. CASE Serve \/ ServeAgain
  <2>1. PICK s : Called(s)
    BY <1>4 DEF Serve, ServeAgain
  <2>2. loop \in {"process", "closure"}
    BY <1>4 DEF Serve, ServeAgain
  <2> QED
    BY <2>1, <2>2, CalledFlags DEF Stops
<1>5. CASE ServeExit
  BY <1>5 DEF ServeExit, Stops
<1>6. CASE Kill
  BY <1>6 DEF Kill, Stops
<1>7. CASE CallExit
  BY <1>7 DEF CallExit, Stops
<1>8. ASSUME NEW e \in Timer \cup Exit, Expire(e) PROVE Stops'
  BY <1>8 DEF Expire, Stops, flags
<1>9. ASSUME NEW s \in Signal, Catch(s) PROVE Stops'
  BY <1>9 DEF Catch, Stops, flags
<1>10. CASE UNCHANGED vars
  BY <1>10 DEF vars, Stops
<1>11. ASSUME NEW s \in Source, ActiveAgain(s) PROVE Stops'
  BY <1>11 DEF ActiveAgain, Stops
<1> QED
  BY <1>1, <1>2, <1>3, <1>4, <1>5, <1>6, <1>7, <1>8, <1>9, <1>10, <1>11 DEF Next

\* kill() is prompt, whatever is active when it is called and whatever it activates.
THEOREM KillStops == Spec => []KillIsPrompt
<1>1. Stops => KillIsPrompt
  BY DEF Stops, KillIsPrompt
<1> QED
  BY InitStops, NextStops, <1>1, PTL DEF Spec

------------------------------------------------------------------------------
(* The events. *)

Line(q) == q \in Seq(Event) /\ \A i, j \in 1 .. Len(q) : q[i] = q[j] => i = j

Types ==
  /\ event \in [Event -> {"idle", "added", "expired", "active"}]
  /\ tick_cnt \in [Source -> 0 .. MaxTick] /\ asked \in [Source -> 0 .. MaxTick]
  /\ calls \in [Source -> 0 .. MaxCalls]
  /\ ncalls \in [Signal -> Nat] /\ burst \subseteq Signal

\* An event is in the queue once, and only while it is active.
Queued ==
  Line(queue) /\ \A i \in 1 .. Len(queue) : event[queue[i]] = "active"

\* A signal event that fired owes a call, and owes calls only until they are made: it
\* waits for the loop, or its handler is being called again and again.
Owed ==
  \A s \in Signal :
    /\ event[s] \in {"expired", "active"} => ncalls[s] > 0
    /\ ncalls[s] > 0 => event[s] \in {"expired", "active"} \/ s \in burst

\* A source that active() does not start stays idle and is never called.
Never(s) == Activated(s) = "idle" /\ event[s] = "idle" /\ calls[s] = 0

\* Any other one is counting down, has done its last tick and is idle for good, or is a
\* signal that came in a burst and has ticked more than it was asked to.
Counting(s) == event[s] # "idle" /\ calls[s] = asked[s] - tick_cnt[s]
Done(s) == /\ event[s] = "idle" /\ calls[s] = asked[s] + 1
           /\ s \in Signal => ncalls[s] = 0
Over(s) == s \in burst /\ calls[s] > asked[s]

Ticking == \A s \in Source : \/ Never(s)
                             \/ Activated(s) # "idle" /\ (Counting(s) \/ Done(s) \/ Over(s))

\* What a run that returns because there are no events has seen.
Empty == ret = "no events" => loop = "out" /\ \A s \in Source : event[s] = "idle"

\* The inductive invariant.  TicksExact speaks of the moment a run returns; why the
\* counts are right then is what Ticking says of every moment before.
IInv == Types /\ Queued /\ Owed /\ Ticking /\ Empty

LEMMA ActivatedValue ==
  ASSUME NEW s \in Source
  PROVE  /\ Activated(s) \in {"idle", "added", "active"}
         /\ Activated(s) = "idle" <=> s \in Timer /\ Period[s] < Microsecond
         /\ Activated(s) = "active" <=> s \in Trigger
<1>1. s \in Timer => (Given(Timeout(s)) <=> Period[s] >= Microsecond) /\ Period[s] \in Int
  BY SourceAssumption, ZeroOnlyIfNegligible DEF Timeout
<1>2. s \in Timer => (Given(Timeout(s)) <=> ~(Period[s] < Microsecond))
  BY <1>1 DEF Microsecond
<1> QED
  BY <1>2, SourceAssumption DEF Activated, Adds, Source

\* A set in some order.
LEMMA OrderOf ==
  ASSUME NEW S, S \subseteq Event, NEW q \in SetToSeqs(S)
  PROVE  Line(q) /\ \A i \in 1 .. Len(q) : q[i] \in S
<1> DEFINE n == Cardinality(S)
<1>1. n \in Nat
  BY SourceAssumption, FS_Subset, FS_CardinalityType
<1>2. q \in [1 .. n -> S] /\ \A i, j \in 1 .. n : i # j => q[i] # q[j]
  BY DEF SetToSeqs
<1> HIDE DEF n
<1>3. q \in Seq(Event) /\ Len(q) = n
  <2>1. q \in [1 .. n -> Event]
    BY <1>2
  <2>2. q \in Seq(Event)
    BY <1>1, <2>1 DEF Seq
  <2>3. DOMAIN q = 1 .. Len(q) /\ Len(q) \in Nat
    BY <2>2, LenProperties
  <2> QED
    BY <1>1, <1>2, <2>2, <2>3, LenProperties
<1> QED
  BY <1>2, <1>3 DEF Line

LEMMA LineLen ==
  ASSUME NEW q, Line(q)
  PROVE  Len(q) \in Nat /\ DOMAIN q = 1 .. Len(q) /\ \A i \in 1 .. Len(q) : q[i] \in Event
BY LenProperties, ElementOfSeq DEF Line

\* The queue takes what was not in it, and gives up its head.
LEMMA LineJoin ==
  ASSUME NEW p, NEW q, Line(p), Line(q),
         \A i \in 1 .. Len(p), j \in 1 .. Len(q) : p[i] # q[j]
  PROVE  /\ Line(p \o q)
         /\ \A i \in 1 .. Len(p \o q) : \/ \E j \in 1 .. Len(p) : (p \o q)[i] = p[j]
                                        \/ \E j \in 1 .. Len(q) : (p \o q)[i] = q[j]
<1> DEFINE r == p \o q
           k == Len(p)
           l == Len(q)
<1>1. k \in Nat /\ l \in Nat
  BY LineLen
<1>2. /\ r \in Seq(Event) /\ Len(r) = k + l
      /\ \A i \in 1 .. k + l : r[i] = IF i <= k THEN p[i] ELSE q[i - k]
  BY ConcatProperties DEF Line
<1> HIDE DEF r, k, l
<1>3. \A i \in 1 .. k + l :
        \/ i \in 1 .. k /\ r[i] = p[i]
        \/ i - k \in 1 .. l /\ r[i] = q[i - k]
  <2> TAKE i \in 1 .. k + l
  <2>1. CASE i <= k
    BY <2>1, <1>1, <1>2
  <2>2. CASE ~(i <= k)
    <3>1. i - k \in 1 .. l
      BY <2>2, <1>1
    <3> QED
      BY <2>2, <3>1, <1>2
  <2> QED
    BY <2>1, <2>2
<1>4. ASSUME NEW i \in 1 .. k + l, NEW j \in 1 .. k + l, r[i] = r[j] PROVE i = j
  <2>1. CASE i \in 1 .. k /\ r[i] = p[i] /\ j \in 1 .. k /\ r[j] = p[j]
    BY <2>1, <1>4 DEF Line, k
  <2>2. CASE i - k \in 1 .. l /\ r[i] = q[i - k] /\ j - k \in 1 .. l /\ r[j] = q[j - k]
    <3>1. i - k = j - k
      BY <2>2, <1>4 DEF Line, l
    <3> QED
      BY <1>1, <3>1
  <2>3. \A a \in 1 .. k, b \in 1 .. l : p[a] # q[b]
    BY DEF k, l
  <2> QED
    BY <1>3, <1>4, <2>1, <2>2, <2>3
<1>5. \A i \in 1 .. k + l : \/ \E j \in 1 .. k : r[i] = p[j]
                            \/ \E j \in 1 .. l : r[i] = q[j]
  BY <1>3
<1> QED
  BY <1>2, <1>4, <1>5 DEF Line, r, k, l

LEMMA LineTail ==
  ASSUME NEW q, Line(q), q # <<>>
  PROVE  /\ Head(q) = q[1] /\ 1 \in 1 .. Len(q) /\ Head(q) \in Event /\ Line(Tail(q))
         /\ \A i \in 1 .. Len(Tail(q)) : \E j \in 1 .. Len(q) : Tail(q)[i] = q[j] /\ q[j] # Head(q)
<1> DEFINE k == Len(q)
           t == Tail(q)
<1>1. /\ q \in Seq(Event) /\ k \in Nat /\ k # 0
      /\ Head(q) = q[1] /\ t \in Seq(Event) /\ Len(t) = k - 1
      /\ \A i \in 1 .. k - 1 : t[i] = q[i + 1]
  BY LineLen, HeadTailProperties, EmptySeq DEF Line
<1> HIDE DEF k, t
<1>2. \A i \in 1 .. k - 1 : i + 1 \in 1 .. k /\ i + 1 # 1
  BY <1>1
<1>3. 1 \in 1 .. k
  BY <1>1
<1>4. \A i, j \in 1 .. k : q[i] = q[j] => i = j
  BY DEF Line, k
<1>5. Line(t)
  <2> SUFFICES ASSUME NEW i \in 1 .. k - 1, NEW j \in 1 .. k - 1, t[i] = t[j] PROVE i = j
    BY <1>1 DEF Line
  <2>1. i + 1 = j + 1
    BY <1>1, <1>2, <1>4
  <2> QED
    BY <1>1, <2>1
<1>6. \A i \in 1 .. k - 1 : \E j \in 1 .. k : t[i] = q[j] /\ q[j] # q[1]
  BY <1>1, <1>2, <1>3, <1>4
<1>7. q[1] \in Event
  BY <1>3, LineLen DEF k
<1> QED
  BY <1>1, <1>3, <1>5, <1>6, <1>7 DEF k, t

\* An event that is taken out of the queue is no longer in it.
LEMMA LineWithout ==
  ASSUME NEW q, Line(q), NEW i \in 1 .. Len(q)
  PROVE  /\ Line(RemoveAt(q, i))
         /\ \A j \in 1 .. Len(RemoveAt(q, i)) :
              \E m \in 1 .. Len(q) : RemoveAt(q, i)[j] = q[m] /\ q[m] # q[i]
<1> DEFINE p == SubSeq(q, 1, i - 1)
           t == SubSeq(q, i + 1, Len(q))
<1>1. /\ Len(q) \in Nat /\ q \in Seq(Event) /\ \A m \in 1 .. Len(q) : q[m] \in Event
      /\ \A m, n \in 1 .. Len(q) : q[m] = q[n] => m = n
  BY LineLen DEF Line
<1>2. /\ p \in Seq(Event) /\ Len(p) = i - 1
      /\ \A j \in 1 .. i - 1 : p[j] = q[j]
  <2>1. 1 \in Int /\ i - 1 \in Int /\ \A m \in 1 .. i - 1 : q[m] \in Event
    BY <1>1
  <2>2. /\ p \in Seq(Event)
        /\ Len(p) = IF 1 <= i - 1 THEN i - 1 - 1 + 1 ELSE 0
        /\ \A j \in 1 .. i - 1 - 1 + 1 : p[j] = q[1 + j - 1]
    BY <2>1, SubSeqProperties
  <2> QED
    BY <1>1, <2>2
<1>3. /\ t \in Seq(Event) /\ Len(t) = Len(q) - i
      /\ \A j \in 1 .. Len(q) - i : t[j] = q[i + j]
  <2>1. i + 1 \in Int /\ Len(q) \in Int /\ \A m \in i + 1 .. Len(q) : q[m] \in Event
    BY <1>1
  <2>2. /\ t \in Seq(Event)
        /\ Len(t) = IF i + 1 <= Len(q) THEN Len(q) - (i + 1) + 1 ELSE 0
        /\ \A j \in 1 .. Len(q) - (i + 1) + 1 : t[j] = q[i + 1 + j - 1]
    BY <2>1, SubSeqProperties
  <2> QED
    BY <1>1, <2>2
<1>4. RemoveAt(q, i) = p \o t
  BY DEF RemoveAt
<1> HIDE DEF p, t
<1>5. Line(p) /\ \A j \in 1 .. Len(p) : j \in 1 .. Len(q) /\ p[j] = q[j] /\ q[j] # q[i]
  BY <1>1, <1>2 DEF Line
<1>6. /\ Line(t)
      /\ \A j \in 1 .. Len(t) : i + j \in 1 .. Len(q) /\ t[j] = q[i + j] /\ q[i + j] # q[i]
  <2>1. \A j \in 1 .. Len(t) : i + j \in 1 .. Len(q) /\ i + j # i /\ t[j] = q[i + j]
    BY <1>1, <1>3
  <2>2. \A j, k \in 1 .. Len(t) : i + j = i + k => j = k
    BY <1>1, <1>3
  <2>3. \A j, k \in 1 .. Len(t) : t[j] = t[k] => j = k
    BY <1>1, <2>1, <2>2
  <2> QED
    BY <1>1, <1>3, <2>1, <2>3 DEF Line
<1>7. \A j \in 1 .. Len(p), k \in 1 .. Len(t) : p[j] # t[k]
  <2> SUFFICES ASSUME NEW j \in 1 .. Len(p), NEW k \in 1 .. Len(t) PROVE p[j] # t[k]
    OBVIOUS
  <2>1. j # i + k
    BY <1>1, <1>2, <1>3
  <2> QED
    BY <1>1, <1>5, <1>6, <2>1
<1>8. /\ Line(p \o t)
      /\ \A j \in 1 .. Len(p \o t) : \/ \E m \in 1 .. Len(p) : (p \o t)[j] = p[m]
                                     \/ \E m \in 1 .. Len(t) : (p \o t)[j] = t[m]
  <2>1. Line(p) /\ Line(t)
    BY <1>5, <1>6
  <2> QED
    BY ONLY <2>1, <1>7, LineJoin
<1> DEFINE r == p \o t
<1>9. RemoveAt(q, i) = r
  BY <1>4
<1>10. \A j \in 1 .. Len(r) : \E m \in 1 .. Len(q) : r[j] = q[m] /\ q[m] # q[i]
  <2> SUFFICES ASSUME NEW j \in 1 .. Len(r)
               PROVE  \E m \in 1 .. Len(q) : r[j] = q[m] /\ q[m] # q[i]
    OBVIOUS
  <2>1. (\E m \in 1 .. Len(p) : r[j] = p[m]) \/ (\E m \in 1 .. Len(t) : r[j] = t[m])
    BY <1>8
  <2> HIDE DEF r
  <2>2. CASE \E m \in 1 .. Len(p) : r[j] = p[m]
    <3>1. PICK m \in 1 .. Len(p) : r[j] = p[m]
      BY <2>2
    <3>2. m \in 1 .. Len(q) /\ p[m] = q[m] /\ q[m] # q[i]
      BY <1>5
    <3> QED
      BY <3>1, <3>2
  <2>3. CASE \E m \in 1 .. Len(t) : r[j] = t[m]
    <3>1. PICK m \in 1 .. Len(t) : r[j] = t[m]
      BY <2>3
    <3>2. i + m \in 1 .. Len(q) /\ t[m] = q[i + m] /\ q[i + m] # q[i]
      BY <1>6
    <3> QED
      BY <3>1, <3>2
  <2> QED
    BY <2>1, <2>2, <2>3
<1> QED
  BY <1>8, <1>9, <1>10

LEMMA InitIInv == Init => IInv
<1> SUFFICES ASSUME Init PROVE IInv
  OBVIOUS
<1>1. \A s \in Source : Activated(s) \in {"idle", "added", "active"}
  BY ActivatedValue
<1>2. \A e \in Event : event[e] = IF e \in Source THEN Activated(e) ELSE "idle"
  BY DEF Init
<1>3. Types
  <2>1. event \in [Event -> {"idle", "added", "expired", "active"}]
    BY <1>1 DEF Init
  <2>2. 0 \in 0 .. MaxCalls
    BY SourceAssumption DEF MaxCalls
  <2>3. tick_cnt \in [Source -> 0 .. MaxTick]
    BY DEF Init
  <2> QED
    BY <2>1, <2>2, <2>3 DEF Init, Types
<1>4. Queued
  <2>1. Trigger \subseteq Event
    BY DEF Event, Source
  <2>2. Line(queue) /\ \A i \in 1 .. Len(queue) : queue[i] \in Trigger
    BY <2>1, OrderOf DEF Init
  <2>3. \A s \in Trigger : event[s] = "active"
    BY <1>2, ActivatedValue DEF Event, Source
  <2> QED
    BY <2>2, <2>3 DEF Queued
<1>5. Owed
  BY <1>2, ActivatedValue, SourceAssumption DEF Init, Owed, Event, Source
<1>6. Ticking
  <2> SUFFICES ASSUME NEW s \in Source
               PROVE  Never(s) \/ (Activated(s) # "idle" /\ Counting(s))
    BY DEF Ticking
  <2>1. event[s] = Activated(s) /\ calls[s] = 0
    BY <1>2 DEF Init, Event
  <2>2. calls[s] = asked[s] - tick_cnt[s]
    <3>1. asked[s] = tick_cnt[s] /\ tick_cnt[s] \in 0 .. MaxTick
      BY <1>3 DEF Init, Types
    <3> QED
      BY <2>1, <3>1
  <2> QED
    BY <2>1, <2>2 DEF Never, Counting
<1>7. Empty
  BY DEF Init, Empty
<1> QED
  BY <1>3, <1>4, <1>5, <1>6, <1>7 DEF IInv

------------------------------------------------------------------------------
(* The steps. *)

\* A source whose own variables do not change keeps its place in Ticking.
SameAt(s) ==
  /\ event'[s] = event[s] /\ calls'[s] = calls[s] /\ asked'[s] = asked[s]
  /\ tick_cnt'[s] = tick_cnt[s] /\ (s \in burst => s \in burst')
  /\ s \in Signal => ncalls'[s] = ncalls[s]

TickAt(s) == Never(s) \/ (Activated(s) # "idle" /\ (Counting(s) \/ Done(s) \/ Over(s)))

LEMMA SameTicks ==
  ASSUME NEW s \in Source, TickAt(s), SameAt(s)
  PROVE  TickAt(s)'
BY DEF TickAt, SameAt, Never, Counting, Done, Over, Activated, Adds, Timeout

\* A step that calls no handler and leaves the sources as they are.
LEMMA QuietIInv ==
  ASSUME IInv, UNCHANGED <<queue, signals, program>>,
         event' \in [Event -> {"idle", "added", "expired", "active"}],
         \A e \in Source : event'[e] = event[e],
         \A e \in Event : event[e] = "active" => event'[e] = "active",
         Empty'
  PROVE  IInv'
<1>1. /\ queue' = queue /\ ncalls' = ncalls /\ burst' = burst
      /\ tick_cnt' = tick_cnt /\ asked' = asked /\ calls' = calls
  BY DEF signals, program
<1>2. Types'
  BY <1>1 DEF IInv, Types
<1>3. Queued'
  BY <1>1, LineLen DEF IInv, Queued
<1>4. Owed'
  BY <1>1 DEF IInv, Owed, Source
<1>5. Ticking'
  <2> SUFFICES ASSUME NEW s \in Source PROVE TickAt(s)'
    BY DEF Ticking, TickAt
  <2>1. TickAt(s)
    BY DEF IInv, Ticking, TickAt
  <2>2. SameAt(s)
    BY <1>1 DEF SameAt
  <2> QED
    BY <2>1, <2>2, SameTicks
<1> QED
  BY <1>2, <1>3, <1>4, <1>5 DEF IInv

LEMMA TopIInv ==
  ASSUME IInv, Top
  PROVE  IInv'
<1>1. event' = event /\ UNCHANGED <<queue, signals, program>>
  BY DEF Top
<1>2. Empty'
  <2>1. CASE Stopping /\ Leave("stopped")
    BY <2>1 DEF Leave, Empty
  <2>2. CASE ~HaveEvents /\ Leave("no events")
    <3>1. \A e \in Event : event[e] \notin {"added", "expired", "active"}
      BY <2>2 DEF HaveEvents, In
    <3>2. \A e \in Source : event[e] = "idle"
      BY <3>1 DEF IInv, Types, Event
    <3> QED
      BY <1>1, <2>2, <3>2 DEF Leave, Empty
  <2>3. CASE GoTo("poll")
    BY <2>3 DEF GoTo, Empty, IInv, Top
  <2> QED
    BY <2>1, <2>2, <2>3 DEF Top
<1> QED
  BY <1>1, <1>2, QuietIInv DEF IInv, Types

LEMMA OutsideIInv ==
  ASSUME IInv, Enter \/ Kill \/ CallExit
  PROVE  IInv'
<1>1. UNCHANGED <<queue, signals, program>>
  BY DEF Enter, Kill, CallExit
<1>2. /\ event' \in [Event -> {"idle", "added", "expired", "active"}]
      /\ \A e \in Source : event'[e] = event[e]
      /\ \A e \in Event : event[e] = "active" => event'[e] = "active"
  <2>1. CASE event' = event
    BY <2>1 DEF IInv, Types
  <2>2. CASE \E x \in In("idle") \cap Exit : event' = [event EXCEPT ![x] = "added"]
    <3>1. PICK x \in Exit : event[x] = "idle" /\ event' = [event EXCEPT ![x] = "added"]
      BY <2>2 DEF In
    <3>2. x \in Event /\ x \notin Source
      BY SourceAssumption DEF Event
    <3> QED
      BY <3>1, <3>2 DEF IInv, Types, Event
  <2> QED
    BY <2>1, <2>2 DEF Enter, Kill, CallExit
<1>3. Empty'
  <2>1. ret' = "no events" => ret = "no events" /\ loop' = loop
    BY DEF Enter, Kill, CallExit
  <2> QED
    BY <1>2, <2>1 DEF IInv, Empty
<1> QED
  BY <1>1, <1>2, <1>3, QuietIInv

\* Only the state of an event that waits changes, to one that waits.
LEMMA WaitIInv ==
  ASSUME IInv, NEW e \in Event, event[e] \in {"added", "expired"},
         event' = [event EXCEPT ![e] = "expired"],
         UNCHANGED <<queue, loop, ret, burst, program>>,
         ncalls' \in [Signal -> Nat],
         \A s \in Signal : IF s = e THEN ncalls'[s] > 0 ELSE ncalls'[s] = ncalls[s]
  PROVE  IInv'
<1>1. /\ queue' = queue /\ loop' = loop /\ ret' = ret /\ burst' = burst
      /\ tick_cnt' = tick_cnt /\ asked' = asked /\ calls' = calls
  BY DEF program
<1>2. /\ event' \in [Event -> {"idle", "added", "expired", "active"}]
      /\ \A f \in Event : event'[f] = IF f = e THEN "expired" ELSE event[f]
  BY DEF IInv, Types
<1>3. Types'
  BY <1>1, <1>2 DEF IInv, Types
<1>4. Queued'
  BY <1>1, <1>2, LineLen DEF IInv, Queued
<1>5. Owed'
  BY <1>1, <1>2 DEF IInv, Owed, Event, Source
<1>6. Ticking'
  <2> SUFFICES ASSUME NEW s \in Source PROVE TickAt(s)'
    BY DEF Ticking, TickAt
  <2>1. TickAt(s) /\ s \in Event
    BY DEF IInv, Ticking, TickAt, Event
  <2>2. CASE s # e
    BY <1>1, <1>2, <2>1, <2>2, SameTicks DEF SameAt
  <2>3. CASE s = e
    <3>1. Activated(s) # "idle" /\ (Counting(s) \/ Over(s))
      BY <2>1, <2>3 DEF TickAt, Never, Done
    <3>2. Counting(s)' \/ Over(s)'
      BY <1>1, <1>2, <2>1, <2>3, <3>1 DEF Counting, Over
    <3> QED
      BY <3>1, <3>2 DEF TickAt, Activated, Adds, Timeout
  <2> QED
    BY <2>2, <2>3
<1>7. Empty'
  BY <1>1, <1>2 DEF IInv, Empty, Event
<1> QED
  BY <1>3, <1>4, <1>5, <1>6, <1>7 DEF IInv

LEMMA ExpireIInv ==
  ASSUME IInv, NEW e \in Timer \cup Exit, Expire(e)
  PROVE  IInv'
<1>1. e \in Event
  BY DEF Event, Source
<1>2. e \notin Signal
  BY SourceAssumption DEF Source
<1> QED
  BY <1>1, <1>2, WaitIInv DEF Expire, signals, IInv, Types

LEMMA CatchIInv ==
  ASSUME IInv, NEW e \in Signal, Catch(e)
  PROVE  IInv'
<1>1. e \in Event
  BY DEF Event, Source
<1>2. /\ ncalls' \in [Signal -> Nat]
      /\ \A s \in Signal : IF s = e THEN ncalls'[s] > 0 ELSE ncalls'[s] = ncalls[s]
  <2>1. ncalls[e] \in Nat
    BY DEF IInv, Types
  <2> QED
    BY <2>1 DEF Catch, IInv, Types
<1> QED
  BY <1>1, <1>2, WaitIInv DEF Catch

LEMMA ActiveAgainIInv ==
  ASSUME IInv, NEW e \in Source, ActiveAgain(e)
  PROVE  IInv'
<1>1. /\ event[e] # "idle" /\ loop' = loop /\ ret' = ret /\ ncalls' = ncalls /\ burst' = burst
      /\ tick_cnt' = tick_cnt /\ asked' = asked /\ calls' = calls
      /\ event' = [event EXCEPT ![e] = IF e \in Timer THEN "added" ELSE event[e]]
  BY DEF ActiveAgain, signals, program
<1>2. /\ e \in Event
      /\ event' \in [Event -> {"idle", "added", "expired", "active"}]
      /\ \A f \in Event : event'[f] = IF f = e /\ e \in Timer THEN "added" ELSE event[f]
  BY <1>1 DEF IInv, Types, Event
<1>3. Types'
  BY <1>1, <1>2 DEF IInv, Types
<1>4. Queued'
  <2>1. Line(queue) /\ \A i \in 1 .. Len(queue) : queue[i] \in Event /\ event[queue[i]] = "active"
    BY LineLen DEF IInv, Queued
  <2>2. CASE e \in Timer /\ event[e] = "active"
    <3>1. PICK i \in 1 .. Len(queue) : queue[i] = e /\ queue' = RemoveAt(queue, i)
      BY <2>1, <2>2, LineLen DEF ActiveAgain
    <3>2. /\ Line(queue')
          /\ \A j \in 1 .. Len(queue') : \E m \in 1 .. Len(queue) : queue'[j] = queue[m] /\ queue[m] # e
      BY <2>1, <3>1, LineWithout
    <3> QED
      BY <1>2, <2>1, <3>2 DEF Queued
  <2>3. CASE ~(e \in Timer /\ event[e] = "active")
    <3>1. queue' = queue
      BY <2>3 DEF ActiveAgain
    <3>2. \A f \in Event : event[f] = "active" => event'[f] = "active"
      BY <1>2, <2>3
    <3> QED
      BY <2>1, <3>1, <3>2 DEF Queued
  <2> QED
    BY <2>2, <2>3
<1>5. Owed'
  BY <1>1, <1>2, SourceAssumption DEF IInv, Owed, Event, Source
<1>6. Ticking'
  <2> SUFFICES ASSUME NEW s \in Source PROVE TickAt(s)'
    BY DEF Ticking, TickAt
  <2>1. TickAt(s) /\ s \in Event
    BY DEF IInv, Ticking, TickAt, Event
  <2>2. CASE event'[s] = event[s]
    BY <1>1, <2>1, <2>2, SameTicks DEF SameAt
  <2>3. CASE s = e /\ event'[s] = "added"
    <3>1. Activated(s) # "idle" /\ (Counting(s) \/ Over(s))
      BY <1>1, <2>1, <2>3 DEF TickAt, Never, Done
    <3>2. Counting(s)' \/ Over(s)'
      BY <1>1, <2>3, <3>1 DEF Counting, Over
    <3> QED
      BY <3>1, <3>2 DEF TickAt, Activated, Adds, Timeout
  <2> QED
    BY <1>2, <2>1, <2>2, <2>3
<1>7. Empty'
  BY <1>1 DEF IInv, Empty
<1> QED
  BY <1>3, <1>4, <1>5, <1>6, <1>7 DEF IInv

LEMMA PollIInv ==
  ASSUME IInv, Poll
  PROVE  IInv'
<1>1. /\ loop = "poll" /\ ncalls' = ncalls /\ burst' = burst
      /\ tick_cnt' = tick_cnt /\ asked' = asked /\ calls' = calls
  BY DEF Poll, signals, program
<1>2. /\ event' \in [Event -> {"idle", "added", "expired", "active"}]
      /\ \A e \in Event : event'[e] = IF event[e] = "expired" THEN "active" ELSE event[e]
  BY DEF Poll, IInv, Types
<1>3. Types'
  BY <1>1, <1>2 DEF IInv, Types
<1>4. Queued'
  <2>1. PICK q \in SetToSeqs(In("expired")) : queue' = queue \o q
    BY DEF Poll
  <2>2. Line(q) /\ \A i \in 1 .. Len(q) : q[i] \in In("expired")
    <3>1. In("expired") \subseteq Event
      BY DEF In
    <3> QED
      BY <3>1, OrderOf
  <2>3. Line(queue) /\ \A i \in 1 .. Len(queue) : queue[i] \in Event /\ event[queue[i]] = "active"
    BY LineLen DEF IInv, Queued
  <2>4. \A i \in 1 .. Len(queue), j \in 1 .. Len(q) : queue[i] # q[j]
    BY <2>2, <2>3 DEF In
  <2>5. /\ Line(queue')
        /\ \A i \in 1 .. Len(queue') : \/ \E j \in 1 .. Len(queue) : queue'[i] = queue[j]
                                       \/ \E j \in 1 .. Len(q) : queue'[i] = q[j]
    <3>1. /\ Line(queue \o q)
          /\ \A i \in 1 .. Len(queue \o q) :
               \/ \E j \in 1 .. Len(queue) : (queue \o q)[i] = queue[j]
               \/ \E j \in 1 .. Len(q) : (queue \o q)[i] = q[j]
      <4>1. Line(queue) /\ Line(q)
        BY <2>2, <2>3
      <4> QED
        BY ONLY <4>1, <2>4, LineJoin
    <3> QED
      BY ONLY <2>1, <3>1
  <2>6. \A j \in 1 .. Len(queue) : event'[queue[j]] = "active"
    BY <1>2, <2>3
  <2>7. \A j \in 1 .. Len(q) : q[j] \in Event /\ event'[q[j]] = "active"
    BY <1>2, <2>2 DEF In
  <2> QED
    BY <2>5, <2>6, <2>7 DEF Queued
<1>5. Owed'
  BY <1>1, <1>2 DEF IInv, Owed, Event, Source
<1>6. Ticking'
  <2> SUFFICES ASSUME NEW s \in Source PROVE TickAt(s)'
    BY DEF Ticking, TickAt
  <2>1. TickAt(s) /\ event'[s] = IF event[s] = "expired" THEN "active" ELSE event[s]
    BY <1>2 DEF IInv, Ticking, TickAt, Event
  <2> QED
    BY <1>1, <2>1 DEF TickAt, Never, Counting, Done, Over, Activated, Adds, Timeout
<1>7. Empty'
  <2>1. ret # "no events"
    BY <1>1 DEF IInv, Empty
  <2>2. ret' \in {ret, "stopped"}
    <3>1. \/ queue' # <<>> /\ GoTo("process")
          \/ queue' = <<>> /\ mode = "nonblock" /\ Leave("stopped")
          \/ queue' = <<>> /\ mode # "nonblock" /\ GoTo("top")
      BY DEF Poll
    <3> QED
      BY <3>1 DEF GoTo, Leave
  <2> QED
    BY <2>1, <2>2 DEF Empty
<1> QED
  BY <1>3, <1>4, <1>5, <1>6, <1>7 DEF IInv

\* What a call of the handler of s does to the counts.
LEMMA CalledCounts ==
  ASSUME IInv, NEW s \in Source, Called(s), s \in Signal => ncalls[s] > 0
  PROVE  /\ calls' \in [Source -> 0 .. MaxCalls] /\ ncalls' \in [Signal -> Nat]
         /\ burst \subseteq burst' /\ burst' \subseteq Signal
         /\ \A t \in Source : t # s => calls'[t] = calls[t]
         /\ calls'[s] = IF calls[s] = MaxCalls THEN MaxCalls ELSE calls[s] + 1
         /\ \A t \in Signal : t # s => ncalls'[t] = ncalls[t]
         /\ s \in Signal /\ ncalls'[s] > 0 => s \in burst'
<1>1. MaxCalls \in Nat /\ calls[s] \in 0 .. MaxCalls
  BY SourceAssumption DEF IInv, Types, MaxCalls
<1>2. calls' = [calls EXCEPT ![s] = IF calls[s] = MaxCalls THEN calls[s] ELSE calls[s] + 1]
  BY DEF Called
<1>3. (IF calls[s] = MaxCalls THEN calls[s] ELSE calls[s] + 1) \in 0 .. MaxCalls
  BY <1>1
<1>4. /\ ncalls' = [t \in Signal |-> IF t # s THEN ncalls[t] ELSE IF broke THEN 0 ELSE ncalls[t] - 1]
      /\ burst' = burst \cup {t \in Signal : t = s /\ ncalls[t] > 1}
  BY DEF Called
<1>5. ncalls' \in [Signal -> Nat]
  <2>1. \A t \in Signal : ncalls[t] \in Nat
    BY DEF IInv, Types
  <2>2. s \in Signal => ncalls[s] - 1 \in Nat
    BY <2>1
  <2> QED
    BY <1>4, <2>1, <2>2
<1>6. s \in Signal /\ ncalls'[s] > 0 => s \in burst'
  <2>1. s \in Signal => ncalls[s] \in Nat
    BY DEF IInv, Types
  <2> QED
    BY <1>4, <2>1
<1> QED
  BY <1>2, <1>3, <1>4, <1>5, <1>6 DEF IInv, Types

\* The handler of s is called while its event is added or active, that is, before s is
\* idle for good or in a burst.
LEMMA CallIInv ==
  ASSUME IInv, NEW s \in Source, Called(s), s \in Signal => ncalls[s] > 0,
         event[s] # "idle" \/ s \in burst,
         NEW down, down = "yes" \/ down = "no", NEW left \in {0, MaxTick},
         tick_cnt' = [tick_cnt EXCEPT ![s] = IF down = "yes" THEN @ - 1 ELSE left],
         down = "yes" => tick_cnt[s] > 0 /\ event' = [event EXCEPT ![s] = Activated(s)],
         down = "no" => tick_cnt[s] = 0,
         down = "no" => \/ event' = [event EXCEPT ![s] = "idle"]
                        \/ event' = event /\ s \in burst,
         s \in Signal => event'[s] \notin {"expired", "active"},
         loop \in {"process", "closure"},
         Queued'
  PROVE  IInv'
<1>1. /\ calls' \in [Source -> 0 .. MaxCalls] /\ ncalls' \in [Signal -> Nat]
      /\ burst \subseteq burst' /\ burst' \subseteq Signal
      /\ \A t \in Source : t # s => calls'[t] = calls[t]
      /\ calls'[s] = IF calls[s] = MaxCalls THEN MaxCalls ELSE calls[s] + 1
      /\ \A t \in Signal : t # s => ncalls'[t] = ncalls[t]
      /\ s \in Signal /\ ncalls'[s] > 0 => s \in burst'
  BY CalledCounts
<1>2. /\ event' \in [Event -> {"idle", "added", "expired", "active"}]
      /\ \A e \in Event : e # s => event'[e] = event[e]
      /\ s \in Event
  BY ActivatedValue DEF IInv, Types, Event
<1>3. tick_cnt[s] \in 0 .. MaxTick /\ asked[s] \in 0 .. MaxTick /\ calls[s] \in 0 .. MaxCalls
  BY DEF IInv, Types
<1>4. /\ tick_cnt' \in [Source -> 0 .. MaxTick]
      /\ \A t \in Source : t # s => tick_cnt'[t] = tick_cnt[t]
      /\ tick_cnt'[s] = IF down = "yes" THEN tick_cnt[s] - 1 ELSE left
  <2>1. (IF down = "yes" THEN tick_cnt[s] - 1 ELSE left) \in 0 .. MaxTick
    BY <1>3, SourceAssumption
  <2> QED
    BY <2>1 DEF IInv, Types
<1>5. asked' = asked
  BY CalledFlags
<1>6. Types'
  BY <1>1, <1>2, <1>4, <1>5 DEF IInv, Types
<1>7. Owed'
  BY <1>1, <1>2 DEF IInv, Owed, Event, Source
<1>8. Ticking'
  <2> SUFFICES ASSUME NEW t \in Source PROVE TickAt(t)'
    BY DEF Ticking, TickAt
  <2>1. TickAt(t) /\ t \in Event
    BY DEF IInv, Ticking, TickAt, Event
  <2>2. CASE t # s
    BY <1>1, <1>2, <1>4, <1>5, <2>1, <2>2, SameTicks DEF SameAt
  <2>3. CASE t = s
    <3>1. Activated(s) # "idle" /\ (Counting(s) \/ Over(s))
      <4>1. s \in burst => Activated(s) # "idle"
        BY ActivatedValue, SourceAssumption DEF IInv, Types
      <4>2. s \in burst => s \in Signal /\ ncalls[s] > 0
        BY DEF IInv, Types
      <4> QED
        BY <2>1, <2>3, <4>1, <4>2 DEF TickAt, Never, Done
    <3>2. CASE Over(s)
      <4>1. calls'[s] > asked[s]
        BY <1>1, <1>3, <3>2, SourceAssumption DEF Over, MaxCalls
      <4> QED
        BY <1>1, <1>5, <2>3, <3>1, <3>2, <4>1 DEF TickAt, Over, Activated, Adds, Timeout
    <3>3. CASE Counting(s)
      <4>1. calls[s] = asked[s] - tick_cnt[s] /\ calls'[s] = calls[s] + 1
        BY <1>1, <1>3, <3>3, SourceAssumption DEF Counting, MaxCalls
      <4>2. CASE down = "yes"
        <5>1. event'[s] = Activated(s) /\ calls'[s] = asked[s] - tick_cnt'[s]
          BY <1>2, <1>3, <1>4, <4>1, <4>2 DEF IInv, Types
        <5> QED
          BY <1>5, <2>3, <3>1, <5>1 DEF TickAt, Counting, Activated, Adds, Timeout
      <4>3. CASE down = "no"
        <5>1. calls'[s] = asked[s] + 1 /\ calls'[s] > asked[s]
          BY <1>3, <4>1, <4>3
        <5>2. event'[s] = "idle" \/ s \in burst
          BY <1>2, <4>3 DEF IInv, Types
        <5>3. s \in Signal => ncalls'[s] \in Nat
          BY <1>1
        <5>4. Done(s)' \/ Over(s)'
          BY <1>1, <1>5, <5>1, <5>2, <5>3 DEF Done, Over
        <5> QED
          BY <2>3, <3>1, <5>4 DEF TickAt, Activated, Adds, Timeout
      <4> QED
        BY <4>2, <4>3
    <3> QED
      BY <3>1, <3>2, <3>3
  <2> QED
    BY <2>2, <2>3
<1>9. Empty'
  BY CalledFlags DEF IInv, Empty
<1> QED
  BY <1>6, <1>7, <1>8, <1>9 DEF IInv

\* The two ways a handler ends.
LEMMA CallDown ==
  ASSUME IInv, NEW s \in Source, Called(s), s \in Signal => ncalls[s] > 0,
         event[s] # "idle" \/ s \in burst,
         CountDown(s), event' = [event EXCEPT ![s] = Activated(s)],
         s \in Signal => event'[s] \notin {"expired", "active"},
         loop \in {"process", "closure"},
         Queued'
  PROVE  IInv'
<1> DEFINE down == "yes"
           left == 0
<1>1. tick_cnt[s] > 0 /\ tick_cnt' = [tick_cnt EXCEPT ![s] = IF down = "yes" THEN @ - 1 ELSE left]
  BY DEF CountDown
<1>2. left \in {0, MaxTick} /\ (down = "yes" \/ down = "no") /\ down # "no"
  OBVIOUS
<1> HIDE DEF down, left
<1> QED
  BY <1>1, <1>2, CallIInv

LEMMA CallOut ==
  ASSUME IInv, NEW s \in Source, Called(s), s \in Signal => ncalls[s] > 0,
         event[s] # "idle" \/ s \in burst, CountOut(s),
         \/ event' = [event EXCEPT ![s] = "idle"]
         \/ event' = event /\ s \in burst,
         s \in Signal => event'[s] \notin {"expired", "active"},
         loop \in {"process", "closure"},
         Queued'
  PROVE  IInv'
<1> DEFINE down == "no"
<1>1. PICK left \in {0, MaxTick} : tick_cnt' = [tick_cnt EXCEPT ![s] = left]
  BY DEF CountOut
<1>2. tick_cnt[s] = 0 /\ tick_cnt' = [tick_cnt EXCEPT ![s] = IF down = "yes" THEN @ - 1 ELSE left]
  BY <1>1 DEF CountOut
<1>3. (down = "yes" \/ down = "no") /\ down # "yes"
  OBVIOUS
<1> HIDE DEF down
<1> QED
  BY <1>1, <1>2, <1>3, CallIInv

\* The head of the queue is an active event; without it the rest is still in line.
LEMMA HeadActive ==
  ASSUME IInv, queue # <<>>
  PROVE  /\ Head(queue) \in Event /\ event[Head(queue)] = "active" /\ Line(Tail(queue))
         /\ \A i \in 1 .. Len(Tail(queue)) :
              /\ Tail(queue)[i] \in Event /\ Tail(queue)[i] # Head(queue)
              /\ event[Tail(queue)[i]] = "active"
<1>1. Line(queue) /\ \A i \in 1 .. Len(queue) : queue[i] \in Event /\ event[queue[i]] = "active"
  BY LineLen DEF IInv, Queued
<1> QED
  BY <1>1, LineTail

\* The loop is at an event only while the queue is not empty.
Busy == loop = "process" => queue # <<>>

\* A source in a queue of its own.
LEMMA Single ==
  ASSUME NEW s \in Event
  PROVE  Line(<<s>>) /\ Len(<<s>>) = 1 /\ <<s>>[1] = s
BY DEF Line

LEMMA ServeIInv ==
  ASSUME IInv, Busy, Serve
  PROVE  IInv'
<1> DEFINE s == Head(queue)
           rest == Tail(queue)
<1>1. /\ loop = "process" /\ s \in Source /\ Called(s)
      /\ \/ /\ CountDown(s) /\ event' = [event EXCEPT ![s] = Activated(s)]
            /\ queue' = rest \o (IF s \in Trigger THEN <<s>> ELSE <<>>)
         \/ /\ CountOut(s) /\ event' = [event EXCEPT ![s] = "idle"] /\ queue' = rest
  BY DEF Serve
<1>2. /\ event[s] = "active" /\ Line(rest) /\ s \in Event
      /\ \A i \in 1 .. Len(rest) : rest[i] \in Event /\ rest[i] # s /\ event[rest[i]] = "active"
  BY <1>1, HeadActive DEF Busy
<1> HIDE DEF s, rest
<1>3. s \in Signal => ncalls[s] > 0
  BY <1>2 DEF IInv, Owed
<1>4. Activated(s) \in {"idle", "added", "active"} /\ (Activated(s) = "active" <=> s \in Trigger)
  BY <1>1, ActivatedValue
<1>5. s \in Signal => event'[s] \notin {"expired", "active"}
  BY <1>1, <1>2, <1>4, SourceAssumption DEF IInv, Types
<1>6. CASE CountDown(s) /\ event' = [event EXCEPT ![s] = Activated(s)]
           /\ queue' = rest \o (IF s \in Trigger THEN <<s>> ELSE <<>>)
  <2>1. \A e \in Event : event'[e] = IF e = s THEN Activated(s) ELSE event[e]
    BY <1>6 DEF IInv, Types
  <2>2. CASE s \in Trigger
    <3>1. queue' = rest \o <<s>>
      BY <1>6, <2>2
    <3>2. Line(<<s>>) /\ Len(<<s>>) = 1 /\ <<s>>[1] = s
      BY <1>2, Single
    <3> DEFINE one == <<s>>
    <3>3. Line(one) /\ \A j \in 1 .. Len(one) : one[j] = s
      BY <3>2
    <3>4. queue' = rest \o one
      BY <3>1
    <3> HIDE DEF one
    <3>5. /\ Line(queue')
          /\ \A i \in 1 .. Len(queue') : \/ \E j \in 1 .. Len(rest) : queue'[i] = rest[j]
                                         \/ \E j \in 1 .. Len(one) : queue'[i] = one[j]
      BY <1>2, <3>3, <3>4, LineJoin
    <3>6. \A i \in 1 .. Len(queue') : event'[queue'[i]] = "active"
      BY <1>2, <1>4, <2>1, <2>2, <3>3, <3>5
    <3> QED
      BY <1>1, <1>2, <1>3, <1>5, <1>6, <3>5, <3>6, CallDown DEF Queued
  <2>3. CASE s \notin Trigger
    <3>1. queue' = rest
      BY <1>2, <1>6, <2>3, ConcatEmptySeq DEF Line
    <3>2. Queued'
      BY <1>2, <2>1, <3>1 DEF Queued
    <3> QED
      BY <1>1, <1>2, <1>3, <1>5, <1>6, <3>2, CallDown
  <2> QED
    BY <2>2, <2>3
<1>7. CASE CountOut(s) /\ event' = [event EXCEPT ![s] = "idle"] /\ queue' = rest
  <2>1. \A e \in Event : e # s => event'[e] = event[e]
    BY <1>7 DEF IInv, Types
  <2>2. Queued'
    BY <1>2, <1>7, <2>1 DEF Queued
  <2> QED
    BY <1>1, <1>2, <1>3, <1>5, <1>7, <2>2, CallOut
<1> QED
  BY <1>1, <1>6, <1>7

LEMMA ServeAgainIInv ==
  ASSUME IInv, ServeAgain
  PROVE  IInv'
<1>1. PICK s \in Signal :
        /\ ncalls[s] > 0 /\ event[s] \notin {"expired", "active"}
        /\ \/ CountDown(s) /\ event' = [event EXCEPT ![s] = Activated(s)]
           \/ CountOut(s) /\ UNCHANGED event
        /\ Called(s)
  BY DEF ServeAgain
<1>2. /\ loop = "closure" /\ queue' = queue /\ s \in Source /\ s \in Event /\ s \in burst
  BY <1>1 DEF ServeAgain, Source, Event, IInv, Owed
<1>3. Activated(s) \in {"idle", "added"}
  BY <1>2, ActivatedValue, SourceAssumption
<1>4. /\ event'[s] \notin {"expired", "active"}
      /\ \A e \in Event : e # s => event'[e] = event[e]
  BY <1>1, <1>2, <1>3 DEF IInv, Types
<1>5. Queued'
  BY <1>1, <1>2, <1>4, LineLen DEF IInv, Queued
<1>6. CASE CountDown(s) /\ event' = [event EXCEPT ![s] = Activated(s)]
  BY <1>1, <1>2, <1>4, <1>5, <1>6, CallDown
<1>7. CASE CountOut(s) /\ UNCHANGED event
  BY <1>1, <1>2, <1>4, <1>5, <1>7, CallOut
<1> QED
  BY <1>1, <1>6, <1>7

LEMMA ServeExitIInv ==
  ASSUME IInv, Busy, ServeExit
  PROVE  IInv'
<1> DEFINE x == Head(queue)
           rest == Tail(queue)
<1>1. /\ loop = "process" /\ x \in Exit /\ event' = [event EXCEPT ![x] = "idle"] /\ queue' = rest
      /\ ncalls' = ncalls /\ burst' = burst /\ tick_cnt' = tick_cnt /\ asked' = asked /\ calls' = calls
      /\ AfterServing
  BY DEF ServeExit, signals, program
<1>2. /\ Line(rest)
      /\ \A i \in 1 .. Len(rest) : rest[i] \in Event /\ rest[i] # x /\ event[rest[i]] = "active"
  BY <1>1, HeadActive DEF Busy
<1> HIDE DEF x, rest
<1>3. x \in Event /\ \A s \in Source : s # x
  BY <1>1, SourceAssumption DEF Event
<1>4. /\ event' \in [Event -> {"idle", "added", "expired", "active"}]
      /\ \A e \in Event : event'[e] = IF e = x THEN "idle" ELSE event[e]
  BY <1>1 DEF IInv, Types
<1>5. Types'
  BY <1>1, <1>4 DEF IInv, Types
<1>6. Queued'
  BY <1>1, <1>2, <1>4 DEF Queued
<1>7. \A s \in Source : s \in Event /\ event'[s] = event[s]
  BY <1>3, <1>4 DEF Event
<1>8. Owed'
  BY <1>1, <1>7 DEF IInv, Owed, Source
<1>9. Ticking'
  <2> SUFFICES ASSUME NEW s \in Source PROVE TickAt(s)'
    BY DEF Ticking, TickAt
  <2>1. TickAt(s) /\ SameAt(s)
    BY <1>1, <1>7 DEF IInv, Ticking, TickAt, SameAt
  <2> QED
    BY <2>1, SameTicks
<1>10. Empty'
  BY <1>1, ServingEnds DEF IInv, Empty
<1> QED
  BY <1>5, <1>6, <1>8, <1>9, <1>10 DEF IInv

LEMMA NextBusy ==
  ASSUME Busy, [Next]_vars
  PROVE  Busy'
<1>1. ASSUME AfterServing PROVE Busy'
  BY <1>1 DEF AfterServing, GoTo, Leave, Busy
<1>2. CASE Enter
  BY <1>2 DEF Enter, Busy
<1>3. CASE Top
  BY <1>3 DEF Top, Leave, GoTo, Busy
<1>4. CASE Poll
  <2>1. \/ queue' # <<>> /\ GoTo("process")
        \/ queue' = <<>> /\ mode = "nonblock" /\ Leave("stopped")
        \/ queue' = <<>> /\ mode # "nonblock" /\ GoTo("top")
    BY <1>4 DEF Poll
  <2> QED
    BY <2>1 DEF GoTo, Leave, Busy
<1>5. CASE Serve \/ ServeAgain
  <2>1. PICK s : Called(s)
    BY <1>5 DEF Serve, ServeAgain
  <2>2. AfterServing \/ GoTo("closure")
    BY <2>1 DEF Called
  <2> QED
    BY <1>1, <2>2 DEF GoTo, Busy
<1>6. CASE ServeExit
  BY <1>1, <1>6 DEF ServeExit
<1>7. CASE Kill \/ CallExit
  BY <1>7 DEF Kill, CallExit, Busy
<1>8. ASSUME NEW e \in Timer \cup Exit, Expire(e) PROVE Busy'
  BY <1>8 DEF Expire, Busy
<1>9. ASSUME NEW s \in Signal, Catch(s) PROVE Busy'
  BY <1>9 DEF Catch, Busy
<1>10. CASE UNCHANGED vars
  BY <1>10 DEF vars, Busy
<1>11. ASSUME NEW s \in Source, ActiveAgain(s) PROVE Busy'
  BY <1>11 DEF ActiveAgain, Busy
<1> QED
  BY <1>2, <1>3, <1>4, <1>5, <1>6, <1>7, <1>8, <1>9, <1>10, <1>11 DEF Next

LEMMA NextIInv == IInv /\ Busy /\ [Next]_vars => IInv' /\ Busy'
<1> SUFFICES ASSUME IInv, Busy, [Next]_vars PROVE IInv'
  BY NextBusy
<1>1. CASE Top
  BY <1>1, TopIInv
<1>2. CASE Enter \/ Kill \/ CallExit
  BY <1>2, OutsideIInv
<1>3. CASE Poll
  BY <1>3, PollIInv
<1>4. CASE Serve
  BY <1>4, ServeIInv
<1>5. CASE ServeAgain
  BY <1>5, ServeAgainIInv
<1>6. CASE ServeExit
  BY <1>6, ServeExitIInv
<1>7. ASSUME NEW e \in Timer \cup Exit, Expire(e) PROVE IInv'
  BY <1>7, ExpireIInv
<1>8. ASSUME NEW s \in Signal, Catch(s) PROVE IInv'
  BY <1>8, CatchIInv
<1>9. CASE UNCHANGED vars
  <2>1. Empty'
    BY <1>9 DEF vars, IInv, Empty
  <2> QED
    BY <1>9, <2>1, QuietIInv DEF vars, IInv, Types
<1>10. ASSUME NEW s \in Source, ActiveAgain(s) PROVE IInv'
  BY <1>10, ActiveAgainIInv
<1> QED
  BY <1>1, <1>2, <1>3, <1>4, <1>5, <1>6, <1>7, <1>8, <1>9, <1>10 DEF Next

LEMMA SpecIInv == Spec => [](IInv /\ Busy)
<1>1. Init => Busy
  BY DEF Init, Busy
<1> QED
  BY InitIInv, <1>1, NextIInv, PTL DEF Spec

\* When a run returns because there are no events, every source has ticked as often as it
\* was asked to, whatever the counters, the periods and the runs that were cut short: an
\* event is never lost between the loop, its queue and the call that adds it again.
THEOREM TicksAreExact == Spec => []TicksExact
<1>1. ASSUME IInv PROVE TicksExact
  <2> SUFFICES ASSUME ret = "no events", NEW s \in Source
               PROVE  IF s \in Timer /\ Period[s] < Microsecond THEN calls[s] = 0
                      ELSE calls[s] = asked[s] + 1 \/ (s \in burst /\ calls[s] > asked[s])
    BY DEF TicksExact
  <2>1. event[s] = "idle"
    BY <1>1 DEF IInv, Empty
  <2>2. Never(s) \/ (Activated(s) # "idle" /\ (Counting(s) \/ Done(s) \/ Over(s)))
    BY <1>1 DEF IInv, Ticking
  <2> QED
    BY <2>1, <2>2, ActivatedValue DEF Never, Counting, Done, Over
<1> QED
  BY SpecIInv, <1>1, PTL
=============================================================================
