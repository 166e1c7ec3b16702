------------------------------ MODULE EventLoop ------------------------------
(***************************************************************************)
(* The main loop, src/event/nspr_event.c, with the timers of               *)
(* src/core/nspr_timer.c and the signals of src/core/nspr_signal.c.  The   *)
(* back end is here only a call that blocks for some time and then runs    *)
(* user code; SelectEvents is about its inside.                            *)
(*                                                                         *)
(* Time is kept in differences, which is all the code ever compares.       *)
(* elapsed[t] is nspr_current_msec - timer->delta, and lag is by how much  *)
(* the clock is ahead of nspr_current_msec, the cached time.  A difference *)
(* of Ceiling stands for itself and everything longer: it is beyond every  *)
(* interval, so the code cannot tell them apart.  The clock never goes     *)
(* back.                                                                   *)
(***************************************************************************)
EXTENDS SwapTable

CONSTANTS
    Timers, NoTimer,    \* timer objects, and none of them
    Intervals,          \* the intervals user code asks for
    Ceiling,            \* a time longer than every interval
    Signums,            \* signal numbers
    SigNodes, NoSigNode \* signal objects, and a null entry of signals[]

ASSUME IntervalsAssumption ==
    /\ Ceiling \in Nat
    /\ \A d \in Intervals : d \in Nat /\ d < Ceiling
ASSUME ObjectsAssumption == NoTimer \notin Timers /\ NoSigNode \notin SigNodes
ASSUME SignumsAssumption == \A s \in Signums : s \in Nat /\ s > 0

VARIABLES
    timers,       \* timer_list[], ntimers and the index field of each timer
    interval,     \* timer->timer
    elapsed,      \* nspr_current_msec - timer->delta
    lag,          \* the clock - nspr_current_msec
    slept,        \* history: the clock - the time the timer was added
    event_loop,   \* FALSE after nspr_event_break
    timeout,      \* what find_timer gave to select()
    waited,       \* how long select() has been blocked
    advanced,     \* nspr_current_msec moved since the last find_timer
    failed,       \* ret # NSPR_OK
    pc,
    i,            \* the loop variable of nspr_event_expire_timers
    cur,          \* the timer whose handler runs
    signals,      \* signals[]
    disposition,  \* what a signal does: "default", "handler" or "ignore"
    waits,        \* the signal number each signal object was added for, or 0
    ousted,       \* history: waiting objects that an add or a delete of another
                  \* object for the same number has met
    signum,       \* nspr_event_signal_signum
    event_signal, \* nspr_event_signal
    unseen        \* history: signals caught for a registered object, not handled yet

timerVars == <<timers, interval, elapsed, lag, slept>>
loopVars == <<event_loop, timeout, waited, advanced, failed, pc, i, cur>>
signalVars == <<signals, disposition, waits, ousted, signum, event_signal, unseen>>
vars == <<timerVars, loopVars, signalVars>>

Infinite == -1 \* NSPR_TIMER_INFINITE

Active == Linked(timers)
Sum(a, b) == IF a + b > Ceiling THEN Ceiling ELSE a + b

Init ==
    /\ timers = EmptyTable(Timers)
    /\ interval = [t \in Timers |-> 0]
    /\ elapsed = [t \in Timers |-> 0]
    /\ slept = [t \in Timers |-> 0]
    /\ lag = Ceiling
    /\ event_loop = TRUE
    /\ timeout = 0
    /\ waited = 0
    /\ advanced = FALSE
    /\ failed = FALSE
    /\ pc = "start"
    /\ i = 0
    /\ cur = NoTimer
    /\ signals = [s \in Signums |-> NoSigNode]
    /\ disposition = [s \in Signums |-> "default"]
    /\ waits = [x \in SigNodes |-> 0]
    /\ ousted = {}
    /\ signum = 0
    /\ event_signal = FALSE
    /\ unseen = {}

-----------------------------------------------------------------------------
(* The clock                                                               *)

\* Differences of a registered timer after nspr_time_update.  The fields of a
\* timer that is not registered are read by nobody and stay 0 here.
Updated == [t \in Timers |-> IF t \in Active THEN Sum(elapsed[t], lag) ELSE 0]

\* nspr_time_update
TimeUpdate ==
    /\ elapsed' = Updated
    /\ lag' = 0
    /\ advanced' = (advanced \/ lag > 0)

\* One millisecond.  A blocked select() is at most one late.
Tick ==
    /\ pc # "exited"
    /\ IF pc = "select"
       THEN /\ timeout = Infinite \/ waited <= timeout
            /\ waited' = Sum(waited, 1)
       ELSE lag < Ceiling /\ UNCHANGED waited
    /\ lag' = Sum(lag, 1)
    /\ slept' = [t \in Timers |-> IF t \in Active THEN Sum(slept[t], 1) ELSE 0]
    /\ UNCHANGED <<timers, interval, elapsed, event_loop, timeout, advanced, failed,
                   pc, i, cur, signalVars>>

-----------------------------------------------------------------------------
(* User code: at start-up, in the callbacks of the back end ("events"), of  *)
(* a timer ("timer") and of a signal ("sighandler").                        *)

UserRuns == pc \in {"start", "events", "timer", "sighandler"}

\* Mutant: the timer starts at the cached time.
AddAtCachedTime(t) ==
    /\ elapsed' = [elapsed EXCEPT ![t] = 0]
    /\ UNCHANGED <<lag, advanced>>
\* nspr_time_update, then timer->delta = nspr_current_msec.
StartNow(t) ==
    /\ elapsed' = [Updated EXCEPT ![t] = 0]
    /\ lag' = 0
    /\ advanced' = (advanced \/ lag > 0)

\* timer.new, timer.set and timer.add, as in pipeline.sleep.
AddTimer(t, d) ==
    /\ UserRuns
    /\ t \notin Active
    /\ timers' = Link(timers, t)
    /\ interval' = [interval EXCEPT ![t] = d]
    /\ slept' = [slept EXCEPT ![t] = 0]
    /\ StartNow(t)
    /\ UNCHANGED <<event_loop, timeout, waited, failed, pc, i, cur, signalVars>>

\* nspr_event_del_timer
DelTimer(t) ==
    /\ UserRuns
    /\ t \in Active
    /\ timers' = Unlink(timers, t)
    /\ interval' = [interval EXCEPT ![t] = 0]
    /\ elapsed' = [elapsed EXCEPT ![t] = 0]
    /\ slept' = [slept EXCEPT ![t] = 0]
    /\ UNCHANGED <<lag, loopVars, signalVars>>

\* The other objects that wait for signal s.
Rivals(x, s) == {y \in SigNodes \ {x} : waits[y] = s}

EntryStays(x, s) == IF signals[s] = NoSigNode THEN x ELSE signals[s] \* mutant: first come
EntryTaken(x, s) == x

\* signal.new, signal.set and nspr_event_add_signal: whoever is in signals[]
\* is replaced.
AddSignal(x, s) ==
    /\ UserRuns
    /\ waits[x] = 0
    /\ waits' = [waits EXCEPT ![x] = s]
    /\ ousted' = ousted \union Rivals(x, s)
    /\ signals' = [signals EXCEPT ![s] = EntryTaken(x, s)]
    /\ disposition' = [disposition EXCEPT ![s] = "handler"]
    /\ unseen' = unseen \ {s}
    /\ UNCHANGED <<signum, event_signal, timerVars, loopVars>>

EntryKept(x) == signals \* mutant: signals[] is not cleared
EntryCleared(x) == [signals EXCEPT ![waits[x]] = NoSigNode]

\* nspr_event_del_signal: whoever is in signals[] goes.
DelSignal(x) ==
    /\ UserRuns
    /\ waits[x] # 0
    /\ disposition' = [disposition EXCEPT ![waits[x]] = "ignore"]
    /\ signals' = EntryCleared(x)
    /\ ousted' = (ousted \ {x}) \union Rivals(x, waits[x])
    /\ unseen' = unseen \ {waits[x]}
    /\ waits' = [waits EXCEPT ![x] = 0]
    /\ UNCHANGED <<signum, event_signal, timerVars, loopVars>>

\* nspr_event_break
EventBreak ==
    /\ UserRuns
    /\ event_loop' = FALSE
    /\ UNCHANGED <<timerVars, timeout, waited, advanced, failed, pc, i, cur, signalVars>>

UserNext ==
    \/ \E t \in Timers, d \in Intervals : AddTimer(t, d)
    \/ \E t \in Timers : DelTimer(t)
    \/ \E x \in SigNodes, s \in Signums : AddSignal(x, s)
    \/ \E x \in SigNodes : DelSignal(x)
    \/ EventBreak

-----------------------------------------------------------------------------
(* nspr_event_process                                                      *)

\* Mutant: the loop begins with event_loop = 1.
StartUpForgotten ==
    /\ pc = "start"
    /\ pc' = "loop"
    /\ event_loop' = TRUE
    /\ UNCHANGED <<timerVars, timeout, waited, advanced, failed, i, cur, signalVars>>
StartUpEnds ==
    /\ pc = "start"
    /\ pc' = "loop"
    /\ UNCHANGED <<timerVars, event_loop, timeout, waited, advanced, failed, i, cur,
                   signalVars>>

\* Timers whose elapsed time counts in nspr_event_find_timer.
Pending == {t \in Active : elapsed[t] < interval[t]}

\* Mutant: 0 is taken for "no timer".
IsPositiveTimeout(d) ==
    IF \A t \in Pending : elapsed[t] = 0 THEN d = Infinite
    ELSE (\E t \in Pending : elapsed[t] = d) /\ \A t \in Pending : elapsed[t] <= d
\* The longest time any of them has waited so far.
IsTimeout(d) ==
    IF Pending = {} THEN d = Infinite
    ELSE (\E t \in Pending : elapsed[t] = d) /\ \A t \in Pending : elapsed[t] <= d

FindTimer ==
    /\ pc = "loop"
    /\ event_loop
    /\ \E d \in {Infinite} \union {elapsed[t] : t \in Active} : IsTimeout(d) /\ timeout' = d
    /\ waited' = 0
    /\ advanced' = FALSE
    /\ pc' = "select"
    /\ UNCHANGED <<timerVars, event_loop, failed, i, cur, signalVars>>

LoopEnds ==
    /\ pc = "loop"
    /\ ~event_loop
    /\ pc' = "exited"
    /\ UNCHANGED <<timerVars, event_loop, timeout, waited, advanced, failed, i, cur,
                   signalVars>>

\* timeout and waited mean nothing outside select().
WaitEnds == timeout' = 0 /\ waited' = 0

\* select() returns at the end of its time, or before it with ready descriptors.
SelectTimesOut ==
    /\ pc = "select"
    /\ timeout # Infinite /\ waited >= timeout
    /\ TimeUpdate
    /\ WaitEnds
    /\ pc' = "events"
    /\ UNCHANGED <<timers, interval, slept, event_loop, failed, i, cur, signalVars>>

SelectReady ==
    /\ pc = "select"
    /\ TimeUpdate
    /\ WaitEnds
    /\ pc' = "events"
    /\ UNCHANGED <<timers, interval, slept, event_loop, failed, i, cur, signalVars>>

OnlyIfTimeMoved == IF advanced' THEN "expire" ELSE "loop" \* mutant: the signal check is in the if
\* if (delta) nspr_event_expire_timers()
AfterEvents == IF advanced' THEN "expire" ELSE "signal"

SelectFails ==
    /\ pc = "select"
    /\ TimeUpdate
    /\ WaitEnds
    /\ failed' = TRUE
    /\ i' = 0
    /\ pc' = AfterEvents
    /\ UNCHANGED <<timers, interval, slept, event_loop, cur, signalVars>>

EventsEnd ==
    /\ pc = "events"
    /\ UNCHANGED advanced
    /\ i' = 0
    /\ pc' = AfterEvents
    /\ UNCHANGED <<timerVars, event_loop, timeout, waited, failed, cur, signalVars>>

-----------------------------------------------------------------------------
(* nspr_event_expire_timers                                                *)

ExpiredExactly(t) == elapsed[t] = interval[t] \* mutant
Expired(t) == elapsed[t] > interval[t]

CallTimer ==
    /\ pc = "expire"
    /\ i < timers.count
    /\ Expired(timers.slot[i])
    /\ cur' = timers.slot[i]
    /\ pc' = "timer"
    /\ UNCHANGED <<timerVars, event_loop, timeout, waited, advanced, failed, i, signalVars>>

Restarted(t) == [elapsed EXCEPT ![t] = 0]
\* timer->delta = nspr_current_msec, though the handler may have deleted timer.
TimerReturns ==
    /\ pc = "timer"
    /\ elapsed' = Restarted(cur)
    /\ cur' = NoTimer
    /\ i' = i + 1
    /\ pc' = "expire"
    /\ UNCHANGED <<timers, interval, lag, slept, event_loop, timeout, waited, advanced,
                   failed, signalVars>>

SkipTimer ==
    /\ pc = "expire"
    /\ i < timers.count
    /\ ~Expired(timers.slot[i])
    /\ i' = i + 1
    /\ UNCHANGED <<timerVars, event_loop, timeout, waited, advanced, failed, pc, cur,
                   signalVars>>

ExpireEnds ==
    /\ pc = "expire"
    /\ i >= timers.count
    /\ i' = 0
    /\ pc' = "signal"
    /\ UNCHANGED <<timerVars, event_loop, timeout, waited, advanced, failed, cur, signalVars>>

-----------------------------------------------------------------------------
(* Signals                                                                 *)

Caught(s) == disposition[s] = "handler"

\* sighandler, anywhere but in select(): it only notes the number.  A signal
\* that is ignored leaves no trace, and one in its default state ends the
\* process.
SignalArrives(s) ==
    /\ pc \notin {"select", "exited"}
    /\ Caught(s)
    /\ signum' = s
    /\ unseen' = unseen \union {s}
    /\ UNCHANGED <<signals, disposition, waits, ousted, event_signal, timerVars, loopVars>>

\* In select() it makes the call return EINTR.
SelectInterrupted(s) ==
    /\ pc = "select"
    /\ Caught(s)
    /\ signum' = s
    /\ unseen' = unseen \union {s}
    /\ event_signal' = TRUE
    /\ TimeUpdate
    /\ WaitEnds
    /\ i' = 0
    /\ pc' = AfterEvents
    /\ UNCHANGED <<timers, interval, slept, event_loop, failed, cur, signals,
                   disposition, waits, ousted>>

\* if (ret != NSPR_OK) break, else the next turn of the loop.
NextTurn == IF failed THEN "exited" ELSE "loop"

HasHandler == event_signal /\ signals[signum] # NoSigNode

NoSignal ==
    /\ pc = "signal"
    /\ ~HasHandler
    /\ event_signal' = FALSE
    /\ pc' = NextTurn
    /\ UNCHANGED <<timerVars, event_loop, timeout, waited, advanced, failed, i, cur,
                   signals, disposition, waits, ousted, signum, unseen>>

CallSignal ==
    /\ pc = "signal"
    /\ HasHandler
    /\ unseen' = unseen \ {signum}
    /\ pc' = "sighandler"
    /\ UNCHANGED <<timerVars, event_loop, timeout, waited, advanced, failed, i, cur,
                   signals, disposition, waits, ousted, signum, event_signal>>

FlagKept == event_signal \* mutant
FlagReset == FALSE

SignalReturns ==
    /\ pc = "sighandler"
    /\ event_signal' = FlagReset
    /\ pc' = NextTurn
    /\ UNCHANGED <<timerVars, event_loop, timeout, waited, advanced, failed, i, cur,
                   signals, disposition, waits, ousted, signum, unseen>>

-----------------------------------------------------------------------------

Exited == pc = "exited" /\ UNCHANGED vars

LoopNext ==
    \/ StartUpEnds \/ FindTimer \/ LoopEnds \/ SelectTimesOut \/ EventsEnd
    \/ CallTimer \/ TimerReturns \/ SkipTimer \/ ExpireEnds
    \/ NoSignal \/ CallSignal \/ SignalReturns

Outside ==
    \/ Tick \/ SelectReady \/ SelectFails
    \/ \E s \in Signums : SignalArrives(s) \/ SelectInterrupted(s)

Next == LoopNext \/ UserNext \/ Outside \/ Exited

Spec == Init /\ [][Next]_vars

\* The loop runs on, user code returns, time passes and select() keeps its
\* time.  Descriptors and signals come or not.
FairSpec == Spec /\ WF_vars(LoopNext) /\ WF_vars(Tick)

-----------------------------------------------------------------------------
(* Properties                                                              *)

Spans == 0 .. Ceiling

TypeOK ==
    /\ TableType(timers, Timers)
    /\ interval \in [Timers -> Intervals \union {0}]
    /\ elapsed \in [Timers -> Spans]
    /\ slept \in [Timers -> Spans]
    /\ lag \in Spans
    /\ event_loop \in BOOLEAN
    /\ timeout \in Spans \union {Infinite}
    /\ waited \in Spans
    /\ advanced \in BOOLEAN
    /\ failed \in BOOLEAN
    /\ pc \in {"start", "loop", "select", "events", "expire", "timer", "signal",
              "sighandler", "exited"}
    /\ i \in Nat
    /\ cur \in Timers \union {NoTimer}
    /\ signals \in [Signums -> SigNodes \union {NoSigNode}]
    /\ disposition \in [Signums -> {"default", "handler", "ignore"}]
    /\ waits \in [SigNodes -> Signums \union {0}]
    /\ ousted \subseteq SigNodes
    /\ signum \in Signums \union {0}
    /\ event_signal \in BOOLEAN
    /\ unseen \subseteq Signums

\* The swap in nspr_event_del_timer keeps the timer table whole, also when a
\* handler deletes its own timer or others in the middle of the walk.
TimersConsistent == Consistent(timers)

\* No sleep is cut short: when a handler is called, more than the timer's
\* interval of real time has gone by since the timer was added, although the
\* code measures with a cached time that lags behind in callbacks.
NeverEarly ==
    [][pc # "timer" /\ pc' = "timer" => slept[cur'] > interval[cur']]_vars

\* The kernel, signals[] and the callers agree, whatever objects come and go:
\* a signal is caught exactly as long as some object is called for it; and an
\* object is called from its add until another for the same number is added or
\* deleted, and then never again until its own delete (nspr_signal.c:17, 24).
HeardUntilOusted ==
    /\ \A s \in Signums : Caught(s) <=> signals[s] # NoSigNode
    /\ \A s \in Signums, x \in SigNodes : signals[s] = x <=> waits[x] = s /\ x \notin ousted

\* The flag a signal raises is down before the loop waits again, however the
\* turn ended: no turn dispatches the signal of an earlier one, or another whose
\* number has come over it.
NoStaleFlag == pc \in {"start", "loop", "select", "events"} => ~event_signal

Fires(t) == pc = "timer" /\ cur = t
WalkStarts == pc = "expire" /\ i = 0

\* A timer past its interval is called at last as long as walks over the timers
\* go on, although a delete in a handler makes a walk pass over it.
OverdueFires ==
    \A t \in Timers :
        []<>WalkStarts => [](t \in Active /\ elapsed[t] > interval[t] => <>(t \notin Active \/ Fires(t)))

\* A timer does not wait for ever below its interval: the rising time-outs of
\* nspr_event_find_timer carry it on, with nothing else going on.
PendingEnds ==
    \A t \in Timers : t \in Pending ~> (t \notin Pending \/ pc = "exited")

\* A signal that has interrupted select(), or has come since, and whose number
\* stands in nspr_event_signal_signum until the turn looks at it.
Announced(s) == event_signal /\ pc # "sighandler" /\ signum = s /\ s \in unseen

\* What interrupts select() is heard in the same turn, through whatever the
\* handlers of timers do before: it reaches its object, unless a later signal
\* overwrites the number or the object goes.
InterruptIsHeard ==
    \A s \in Signums : Announced(s) ~> (s \notin unseen \/ signum # s)

\* event.exit in any callback, in the middle of a turn whose other handlers still
\* run and add and delete timers, ends the loop.
ExitEnds == ~event_loop ~> pc = "exited"

\* tests/work.lua and work/tasks/tests.lua: a timer that was added fires.
TimersFire ==
    \A t \in Timers : t \in Active ~> (t \notin Active \/ Fires(t) \/ pc = "exited")

\* work/tasks/foreman.lua: SIGINT ends the program.  The loop does not go to
\* sleep on a signal it has caught for a registered object.
NoSignalLeftBehind == pc = "select" => unseen = {}
=============================================================================
