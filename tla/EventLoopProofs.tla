-------------------------- MODULE EventLoopProofs --------------------------
(***************************************************************************)
(* The safety properties of EventLoop hold for any number of timers and    *)
(* signals, any intervals and any clock.                                   *)
(*                                                                         *)
(* The inductive invariant has four parts: the types with the timer table, *)
(* the times of the registered timers, the signal table, and the flags     *)
(* that announce a signal.                                                 *)
(***************************************************************************)
EXTENDS EventLoop, SwapTableProofs, FiniteSetTheorems

-----------------------------------------------------------------------------
(* Types and the timer table                                               *)

\* The local pointer of the walk over the timers is set while a handler runs.
CurIsTimer == pc = "timer" => cur \in Timers

TimerInv == TypeOK /\ TimersConsistent /\ CurIsTimer

LEMMA TimerInit == Init => TimerInv
<1> SUFFICES ASSUME Init PROVE TimerInv
  OBVIOUS
<1>1. TableType(timers, Timers) /\ Consistent(timers)
  BY EmptyLemma DEF Init
<1>2. 0 \in Spans /\ Ceiling \in Spans /\ 0 \in Nat
  BY IntervalsAssumption DEF Spans
<1>3. TypeOK
  BY <1>1, <1>2 DEF Init, TypeOK
<1> QED BY <1>1, <1>3 DEF TimerInv, TimersConsistent, CurIsTimer, Init

\* Differences stay differences.
LEMMA SumLemma ==
    ASSUME NEW a \in Spans, NEW b \in Spans
    PROVE  Sum(a, b) \in Spans /\ a <= Sum(a, b)
BY IntervalsAssumption DEF Sum, Spans

LEMMA UpdatedLemma ==
    ASSUME TypeOK
    PROVE  Updated \in [Timers -> Spans]
<1>1. /\ \A t \in Timers : elapsed[t] \in Spans
      /\ lag \in Spans /\ 0 \in Spans
  BY IntervalsAssumption DEF TypeOK, Spans
<1>2. \A t \in Timers : Sum(elapsed[t], lag) \in Spans
  BY <1>1, SumLemma
<1> QED BY <1>1, <1>2 DEF Updated

\* What nspr_time_update keeps.
LEMMA TimeUpdateLemma ==
    ASSUME TypeOK, TimeUpdate
    PROVE  elapsed' \in [Timers -> Spans] /\ lag' \in Spans /\ advanced' \in BOOLEAN
BY UpdatedLemma, IntervalsAssumption DEF TimeUpdate, TypeOK, Spans

\* The entry the walk looks at is a registered timer.
LEMMA EntryIsActive ==
    ASSUME TimerInv, i < timers.count
    PROVE  timers.slot[i] \in Timers /\ timers.slot[i] \in Active
<1>1. TableType(timers, Timers) /\ Consistent(timers) /\ i \in 0 .. timers.count - 1
  BY DEF TimerInv, TypeOK, TimersConsistent, TableType
<1> QED BY <1>1, SlotLemma DEF Active

\* What an add and a delete do to the table.
LEMMA AddTable ==
    ASSUME TimerInv, NEW t \in Timers, NEW d \in Intervals, AddTimer(t, d)
    PROVE  /\ TableType(timers', Timers) /\ Consistent(timers')
           /\ Active' = Active \union {t}
           /\ t \notin Active
BY LinkLemma DEF TimerInv, TypeOK, TimersConsistent, AddTimer, Active

LEMMA DelTable ==
    ASSUME TimerInv, NEW t \in Timers, DelTimer(t)
    PROVE  /\ TableType(timers', Timers) /\ Consistent(timers')
           /\ Active' = Active \ {t}
<1>1. /\ TableType(timers, Timers) /\ Consistent(timers) /\ t \in Linked(timers)
      /\ timers' = Unlink(timers, t)
  BY DEF TimerInv, TypeOK, TimersConsistent, DelTimer, Active
<1> QED BY <1>1, UnlinkLemma DEF Active

\* Every step keeps the types and the timer table.
LEMMA TimerStep == TimerInv /\ [Next]_vars => TimerInv'
<1> SUFFICES ASSUME TimerInv, [Next]_vars PROVE TimerInv'
  OBVIOUS
<1> USE DEF timerVars, loopVars, signalVars
<1>0. TypeOK /\ TimersConsistent /\ CurIsTimer /\ Ceiling \in Nat /\ 0 \in Spans
  BY IntervalsAssumption DEF TimerInv, Spans
<1>t. ASSUME UNCHANGED timers
      PROVE  TableType(timers', Timers) /\ TimersConsistent'
  BY <1>0, <1>t DEF TypeOK, TimersConsistent
<1>1. ASSUME NEW t \in Timers, NEW d \in Intervals, AddTimer(t, d) PROVE TimerInv'
  <2>1. elapsed' \in [Timers -> Spans] /\ lag' \in Spans /\ advanced' \in BOOLEAN
    BY <1>0, <1>1, UpdatedLemma DEF AddTimer, StartNow, TypeOK
  <2>2. TypeOK'
    BY <1>0, <1>1, <2>1, AddTable DEF AddTimer, TypeOK
  <2> QED BY <1>0, <1>1, <2>2, AddTable DEF TimerInv, TimersConsistent, CurIsTimer, AddTimer
<1>2. ASSUME NEW t \in Timers, DelTimer(t) PROVE TimerInv'
  <2>0. /\ interval' \in [Timers -> Intervals \union {0}]
        /\ elapsed' \in [Timers -> Spans] /\ slept' \in [Timers -> Spans]
    BY <1>0, <1>2 DEF DelTimer, TypeOK
  <2>1. TypeOK'
    <3>1. TableType(timers', Timers)  BY <1>2, DelTable
    <3> QED BY <1>0, <1>2, <2>0, <3>1 DEF DelTimer, TypeOK
  <2> QED BY <1>0, <1>2, <2>1, DelTable DEF TimerInv, TimersConsistent, CurIsTimer, DelTimer
<1>3. ASSUME NEW x \in SigNodes, NEW s \in Signums, AddSignal(x, s) PROVE TimerInv'
  <2>1. TypeOK'
    BY <1>0, <1>3, <1>t DEF AddSignal, EntryTaken, Rivals, TypeOK
  <2> QED BY <1>0, <1>3, <1>t, <2>1 DEF TimerInv, CurIsTimer, AddSignal
<1>4. ASSUME NEW x \in SigNodes, DelSignal(x) PROVE TimerInv'
  <2>1. TypeOK'
    BY <1>0, <1>4, <1>t DEF DelSignal, EntryCleared, Rivals, TypeOK
  <2> QED BY <1>0, <1>4, <1>t, <2>1 DEF TimerInv, CurIsTimer, DelSignal
<1>5. CASE EventBreak
  BY <1>0, <1>5, <1>t DEF EventBreak, TimerInv, TypeOK, CurIsTimer
<1>6. CASE StartUpEnds
  BY <1>0, <1>6, <1>t DEF StartUpEnds, TimerInv, TypeOK, CurIsTimer
<1>7. CASE FindTimer
  <2>1. timeout' \in Spans \union {Infinite}
    <3>1. \A t \in Active : elapsed[t] \in Spans
      BY <1>0 DEF TypeOK, TableType, Active, Linked
    <3> QED BY <1>7, <3>1 DEF FindTimer
  <2>2. TypeOK'
    BY <1>0, <1>7, <1>t, <2>1 DEF FindTimer, TypeOK
  <2> QED BY <1>0, <1>7, <1>t, <2>2 DEF FindTimer, TimerInv, CurIsTimer
<1>8. CASE LoopEnds
  BY <1>0, <1>8, <1>t DEF LoopEnds, TimerInv, TypeOK, CurIsTimer
<1>9. CASE SelectTimesOut
  <2>1. TypeOK'
    BY <1>0, <1>9, <1>t, TimeUpdateLemma DEF SelectTimesOut, WaitEnds, TypeOK
  <2> QED BY <1>0, <1>9, <1>t, <2>1 DEF SelectTimesOut, TimerInv, CurIsTimer
<1>10. CASE SelectReady
  <2>1. TypeOK'
    BY <1>0, <1>10, <1>t, TimeUpdateLemma DEF SelectReady, WaitEnds, TypeOK
  <2> QED BY <1>0, <1>10, <1>t, <2>1 DEF SelectReady, TimerInv, CurIsTimer
<1>11. CASE SelectFails
  <2>1. TypeOK'
    BY <1>0, <1>11, <1>t, TimeUpdateLemma DEF SelectFails, WaitEnds, AfterEvents, TypeOK
  <2> QED BY <1>0, <1>11, <1>t, <2>1 DEF SelectFails, AfterEvents, TimerInv, CurIsTimer
<1>12. CASE EventsEnd
  BY <1>0, <1>12, <1>t DEF EventsEnd, AfterEvents, TimerInv, TypeOK, CurIsTimer
<1>13. CASE CallTimer
  <2>1. timers.slot[i] \in Timers
    BY <1>13, EntryIsActive DEF CallTimer
  <2> QED BY <1>0, <1>13, <1>t, <2>1 DEF CallTimer, TimerInv, TypeOK, CurIsTimer
<1>14. CASE TimerReturns
  BY <1>0, <1>14, <1>t DEF TimerReturns, Restarted, TimerInv, TypeOK, CurIsTimer
<1>15. CASE SkipTimer
  BY <1>0, <1>15, <1>t DEF SkipTimer, TimerInv, TypeOK, CurIsTimer
<1>16. CASE ExpireEnds
  BY <1>0, <1>16, <1>t DEF ExpireEnds, TimerInv, TypeOK, CurIsTimer
<1>17. CASE NoSignal
  BY <1>0, <1>17, <1>t DEF NoSignal, NextTurn, TimerInv, TypeOK, CurIsTimer
<1>18. CASE CallSignal
  BY <1>0, <1>18, <1>t DEF CallSignal, TimerInv, TypeOK, CurIsTimer
<1>19. CASE SignalReturns
  BY <1>0, <1>19, <1>t DEF SignalReturns, FlagReset, NextTurn, TimerInv, TypeOK, CurIsTimer
<1>20. CASE Tick
  <2>1. /\ 1 \in Spans \/ Ceiling = 0
        /\ \A a \in Spans : Sum(a, 1) \in Spans
    BY <1>0 DEF Spans, Sum
  <2>2. lag' \in Spans /\ waited' \in Spans /\ slept' \in [Timers -> Spans]
    BY <1>0, <1>20, <2>1 DEF Tick, TypeOK
  <2>3. TypeOK'
    BY <1>0, <1>20, <1>t, <2>2 DEF Tick, TypeOK
  <2> QED BY <1>0, <1>20, <1>t, <2>3 DEF Tick, TimerInv, CurIsTimer
<1>21. ASSUME NEW s \in Signums, SignalArrives(s) PROVE TimerInv'
  BY <1>0, <1>21, <1>t DEF SignalArrives, TimerInv, TypeOK, CurIsTimer
<1>22. ASSUME NEW s \in Signums, SelectInterrupted(s) PROVE TimerInv'
  <2>1. TypeOK'
    BY <1>0, <1>22, <1>t, TimeUpdateLemma DEF SelectInterrupted, WaitEnds, AfterEvents, TypeOK
  <2> QED BY <1>0, <1>22, <1>t, <2>1 DEF SelectInterrupted, AfterEvents, TimerInv, CurIsTimer
<1>23. CASE UNCHANGED vars
  BY <1>0, <1>23, <1>t DEF TimerInv, TypeOK, CurIsTimer, vars
<1> QED
  BY <1>1, <1>2, <1>3, <1>4, <1>5, <1>6, <1>7, <1>8, <1>9, <1>10, <1>11, <1>12, <1>13,
     <1>14, <1>15, <1>16, <1>17, <1>18, <1>19, <1>20, <1>21, <1>22, <1>23
  DEF Next, LoopNext, UserNext, Outside, Exited

-----------------------------------------------------------------------------
(* The times of the registered timers                                      *)

\* The cached time and what it lags behind make up the real time since the
\* timer was added, or since its last call.
TimesInv == \A t \in Active : Sum(elapsed[t], lag) <= slept[t]

LEMMA TimesInit == Init => TimesInv
BY EmptyLemma DEF Init, TimesInv, Active

\* A step that moves neither the table nor the clock.
LEMMA TimesKept == TimesInv /\ UNCHANGED timerVars => TimesInv'
BY DEF TimesInv, timerVars, Active

\* nspr_time_update moves the lag into the elapsed times.
LEMMA TimesUpdated ==
    ASSUME TimerInv, TimesInv, TimeUpdate, UNCHANGED <<timers, slept>>
    PROVE  TimesInv'
<1> SUFFICES ASSUME NEW t \in Active PROVE Sum(elapsed'[t], lag') <= slept[t]
  BY DEF TimesInv, Active
<1>1. /\ t \in Timers /\ elapsed[t] \in Spans /\ lag \in Spans /\ slept[t] \in Spans
      /\ Sum(elapsed[t], lag) <= slept[t]
  BY DEF TimerInv, TypeOK, TableType, Active, Linked, TimesInv
<1>2. elapsed'[t] = Sum(elapsed[t], lag) /\ lag' = 0
  BY <1>1 DEF TimeUpdate, Updated
<1>3. \A a \in Spans : Sum(a, 0) = a
  BY IntervalsAssumption DEF Sum, Spans
<1> QED BY <1>1, <1>2, <1>3, SumLemma

LEMMA TimesStep == TimerInv /\ TimesInv /\ [Next]_vars => TimesInv'
<1> SUFFICES ASSUME TimerInv, TimesInv, [Next]_vars PROVE TimesInv'
  OBVIOUS
<1> USE DEF loopVars, signalVars
<1>0. /\ TypeOK /\ Active \subseteq Timers /\ Ceiling \in Nat
      /\ \A t \in Active : /\ elapsed[t] \in Spans /\ slept[t] \in Spans
                           /\ Sum(elapsed[t], lag) <= slept[t]
      /\ lag \in Spans
  BY IntervalsAssumption DEF TimerInv, TimesInv, TypeOK, TableType, Active, Linked
<1>1. ASSUME NEW t \in Timers, NEW d \in Intervals, AddTimer(t, d) PROVE TimesInv'
  <2>1. Active' = Active \union {t} /\ t \notin Active
    BY <1>1, AddTable
  <2>2. \A s \in Active : s # t /\ elapsed'[s] = Sum(elapsed[s], lag) /\ slept'[s] = slept[s]
    BY <1>0, <1>1, <2>1 DEF AddTimer, StartNow, Updated, TypeOK
  <2>3. elapsed'[t] = 0 /\ slept'[t] = 0 /\ lag' = 0
    BY <1>0, <1>1 DEF AddTimer, StartNow, Updated, TypeOK
  <2>4. \A a \in Spans : Sum(a, 0) = a
    BY <1>0 DEF Sum, Spans
  <2>5. \A s \in Active : Sum(elapsed'[s], lag') <= slept'[s]
    BY <1>0, <2>2, <2>3, <2>4, SumLemma
  <2>6. Sum(elapsed'[t], lag') <= slept'[t]
    BY <1>0, <2>3 DEF Sum
  <2> QED BY <2>1, <2>5, <2>6 DEF TimesInv
<1>2. ASSUME NEW t \in Timers, DelTimer(t) PROVE TimesInv'
  <2>1. Active' = Active \ {t}
    BY <1>2, DelTable
  <2>2. \A s \in Active \ {t} : elapsed'[s] = elapsed[s] /\ slept'[s] = slept[s]
    BY <1>0, <1>2 DEF DelTimer, TypeOK
  <2>3. lag' = lag
    BY <1>2 DEF DelTimer
  <2> QED BY <1>0, <2>1, <2>2, <2>3 DEF TimesInv
<1>3. CASE Tick
  <2>1. UNCHANGED <<timers, elapsed>> /\ lag' = Sum(lag, 1)
    BY <1>3 DEF Tick
  <2>2. \A t \in Active : slept'[t] = Sum(slept[t], 1)
    BY <1>0, <1>3 DEF Tick
  <2>3. \A a, b, c \in Spans : Sum(a, b) <= c => Sum(a, Sum(b, 1)) <= Sum(c, 1)
    BY <1>0 DEF Sum, Spans
  <2>4. \A t \in Active : Sum(elapsed[t], Sum(lag, 1)) <= Sum(slept[t], 1)
    BY <1>0, <2>3
  <2> QED BY <2>1, <2>2, <2>4 DEF TimesInv, Active
<1>4. CASE TimerReturns
  <2>1. UNCHANGED <<timers, slept, lag>> /\ elapsed' = [elapsed EXCEPT ![cur] = 0]
    BY <1>4 DEF TimerReturns, Restarted
  <2>2. \A t \in Active : elapsed'[t] = elapsed[t] \/ elapsed'[t] = 0
    BY <1>0, <2>1 DEF TypeOK
  <2>3. \A a \in Spans : Sum(0, lag) <= Sum(a, lag) /\ Sum(0, lag) \in Spans /\ Sum(a, lag) \in Spans
    BY <1>0 DEF Sum, Spans
  <2>4. \A t \in Active : Sum(elapsed'[t], lag) <= slept[t]
    BY <1>0, <2>2, <2>3 DEF Spans
  <2> QED BY <2>1, <2>4 DEF TimesInv, Active
<1>5. ASSUME SelectTimesOut \/ SelectReady \/ SelectFails PROVE TimesInv'
  BY <1>5, TimesUpdated DEF SelectTimesOut, SelectReady, SelectFails
<1>6. ASSUME NEW s \in Signums, SelectInterrupted(s) PROVE TimesInv'
  BY <1>6, TimesUpdated DEF SelectInterrupted
<1>7. ASSUME UNCHANGED timerVars PROVE TimesInv'
  BY <1>7, TimesKept
<1>8. ASSUME NEW x \in SigNodes, \/ \E s \in Signums : AddSignal(x, s)
                                 \/ DelSignal(x)
      PROVE TimesInv'
  BY <1>7, <1>8 DEF AddSignal, DelSignal
<1>9. ASSUME NEW s \in Signums, SignalArrives(s) PROVE TimesInv'
  BY <1>7, <1>9 DEF SignalArrives
<1>10. ASSUME \/ EventBreak \/ StartUpEnds \/ FindTimer \/ LoopEnds \/ EventsEnd
              \/ CallTimer \/ SkipTimer \/ ExpireEnds
              \/ NoSignal \/ CallSignal \/ SignalReturns \/ UNCHANGED vars
       PROVE TimesInv'
  BY <1>7, <1>10
  DEF EventBreak, StartUpEnds, FindTimer, LoopEnds, EventsEnd, CallTimer, SkipTimer,
      ExpireEnds, NoSignal, CallSignal, SignalReturns, vars
<1> QED
  BY <1>1, <1>2, <1>3, <1>4, <1>5, <1>6, <1>8, <1>9, <1>10
  DEF Next, LoopNext, UserNext, Outside, Exited

-----------------------------------------------------------------------------
(* Signals                                                                 *)

\* Only objects that wait are ousted.
OustedWait == \A x \in ousted : waits[x] # 0

FlagsInv == HeardUntilOusted /\ OustedWait /\ NoStaleFlag

LEMMA FlagsInit == Init => FlagsInv
<1> SUFFICES ASSUME Init PROVE FlagsInv
  OBVIOUS
<1>1. \A s \in Signums, x \in SigNodes : s # 0 /\ x # NoSigNode
  BY SignumsAssumption, ObjectsAssumption
<1> QED BY <1>1 DEF Init, FlagsInv, HeardUntilOusted, OustedWait, NoStaleFlag, Caught

LEMMA AddIsHeard ==
    ASSUME TypeOK, HeardUntilOusted, OustedWait,
           NEW x \in SigNodes, NEW s \in Signums, AddSignal(x, s)
    PROVE  HeardUntilOusted' /\ OustedWait'
<1>0. /\ s # 0 /\ waits[x] = 0 /\ x # NoSigNode /\ x \notin ousted
      /\ \A r \in Signums : r # 0
  BY SignumsAssumption, ObjectsAssumption DEF AddSignal, OustedWait
<1>1. /\ signals'[s] = x /\ \A r \in Signums \ {s} : signals'[r] = signals[r]
      /\ waits'[x] = s /\ \A y \in SigNodes \ {x} : waits'[y] = waits[y]
      /\ disposition'[s] = "handler"
      /\ \A r \in Signums \ {s} : disposition'[r] = disposition[r]
  BY DEF AddSignal, EntryTaken, TypeOK
<1>2. x \notin ousted' /\ \A y \in SigNodes \ {x} : y \in ousted' <=> y \in ousted \/ waits[y] = s
  BY <1>0 DEF AddSignal, Rivals
<1>3. \A r \in Signums : disposition'[r] = "handler" <=> signals'[r] # NoSigNode
  BY <1>0, <1>1 DEF HeardUntilOusted, Caught
<1>4. \A r \in Signums, y \in SigNodes : signals[r] = y <=> waits[y] = r /\ y \notin ousted
  BY DEF HeardUntilOusted
<1>5. \A r \in Signums : signals'[r] = x <=> waits'[x] = r /\ x \notin ousted'
  <2>1. \A r \in Signums : signals[r] # x  BY <1>0, <1>4
  <2> QED BY <1>1, <1>2, <2>1
<1>6. \A r \in Signums, y \in SigNodes \ {x} : signals'[r] = y <=> waits'[y] = r /\ y \notin ousted'
  BY <1>1, <1>2, <1>4
<1>7. OustedWait'
  <2>1. \A y \in ousted' : y # x /\ (y \in ousted \/ (y \in SigNodes /\ waits[y] = s))
    BY <1>2 DEF AddSignal, Rivals
  <2>2. \A y \in ousted' : waits[y] # 0 /\ y \in SigNodes \ {x}
    BY <1>0, <2>1 DEF OustedWait, TypeOK
  <2> QED BY <1>1, <2>2 DEF OustedWait
<1> QED BY <1>3, <1>5, <1>6, <1>7 DEF HeardUntilOusted, Caught

LEMMA DelIsHeard ==
    ASSUME TypeOK, HeardUntilOusted, OustedWait, NEW x \in SigNodes, DelSignal(x)
    PROVE  HeardUntilOusted' /\ OustedWait'
<1> DEFINE s == waits[x]
<1>0. /\ s \in Signums /\ s # 0
      /\ \A r \in Signums : r # 0
      /\ \A y \in SigNodes : y # NoSigNode
  BY SignumsAssumption, ObjectsAssumption DEF DelSignal, TypeOK
<1>1. /\ signals'[s] = NoSigNode /\ \A r \in Signums \ {s} : signals'[r] = signals[r]
      /\ waits'[x] = 0 /\ \A y \in SigNodes \ {x} : waits'[y] = waits[y]
      /\ disposition'[s] = "ignore"
      /\ \A r \in Signums \ {s} : disposition'[r] = disposition[r]
  BY <1>0 DEF DelSignal, EntryCleared, TypeOK
<1>2. x \notin ousted' /\ \A y \in SigNodes \ {x} : y \in ousted' <=> y \in ousted \/ waits[y] = s
  BY DEF DelSignal, Rivals
<1> HIDE DEF s
<1>3. \A r \in Signums : disposition'[r] = "handler" <=> signals'[r] # NoSigNode
  BY <1>0, <1>1 DEF HeardUntilOusted, Caught
<1>4. \A r \in Signums, y \in SigNodes : signals[r] = y <=> waits[y] = r /\ y \notin ousted
  BY DEF HeardUntilOusted
<1>5. \A r \in Signums : signals'[r] = x <=> waits'[x] = r /\ x \notin ousted'
  <2>1. \A r \in Signums \ {s} : signals[r] # x  BY <1>4 DEF s
  <2> QED BY <1>0, <1>1, <2>1
<1>6. \A r \in Signums, y \in SigNodes \ {x} : signals'[r] = y <=> waits'[y] = r /\ y \notin ousted'
  BY <1>0, <1>1, <1>2, <1>4
<1>7. OustedWait'
  <2>1. \A y \in ousted' : y # x /\ (y \in ousted \/ (y \in SigNodes /\ waits[y] = s))
    BY <1>2 DEF DelSignal, Rivals, s
  <2>2. \A y \in ousted' : waits[y] # 0 /\ y \in SigNodes \ {x}
    BY <1>0, <2>1 DEF OustedWait, TypeOK
  <2> QED BY <1>1, <2>2 DEF OustedWait
<1> QED BY <1>3, <1>5, <1>6, <1>7 DEF HeardUntilOusted, Caught

LEMMA FlagsStep == TimerInv /\ FlagsInv /\ [Next]_vars => FlagsInv'
<1> SUFFICES ASSUME TimerInv, FlagsInv, [Next]_vars PROVE FlagsInv'
  OBVIOUS
<1> USE DEF timerVars, loopVars
<1>0. TypeOK /\ HeardUntilOusted /\ OustedWait /\ NoStaleFlag
  BY DEF TimerInv, FlagsInv
<1>s. ASSUME UNCHANGED <<signals, disposition, waits, ousted>>
      PROVE  HeardUntilOusted' /\ OustedWait'
  BY <1>0, <1>s DEF HeardUntilOusted, OustedWait, Caught
<1>1. ASSUME NEW x \in SigNodes, NEW s \in Signums, AddSignal(x, s) PROVE FlagsInv'
  <2>1. HeardUntilOusted' /\ OustedWait'  BY <1>0, <1>1, AddIsHeard
  <2> QED BY <1>0, <1>1, <2>1 DEF AddSignal, FlagsInv, NoStaleFlag
<1>2. ASSUME NEW x \in SigNodes, DelSignal(x) PROVE FlagsInv'
  <2>1. HeardUntilOusted' /\ OustedWait'  BY <1>0, <1>2, DelIsHeard
  <2> QED BY <1>0, <1>2, <2>1 DEF DelSignal, FlagsInv, NoStaleFlag
<1>3. ASSUME NEW t \in Timers, \/ \E d \in Intervals : AddTimer(t, d)
                               \/ DelTimer(t)
      PROVE FlagsInv'
  BY <1>0, <1>3, <1>s
  DEF AddTimer, DelTimer, signalVars, FlagsInv, NoStaleFlag
<1>4. ASSUME NEW s \in Signums, SignalArrives(s) PROVE FlagsInv'
  BY <1>0, <1>4, <1>s DEF SignalArrives, FlagsInv, NoStaleFlag
<1>5. ASSUME NEW s \in Signums, SelectInterrupted(s) PROVE FlagsInv'
  BY <1>0, <1>5, <1>s DEF SelectInterrupted, AfterEvents, FlagsInv, NoStaleFlag
<1>6. ASSUME EventBreak \/ StartUpEnds \/ LoopEnds PROVE FlagsInv'
  BY <1>0, <1>6, <1>s
  DEF EventBreak, UserRuns, StartUpEnds, LoopEnds, signalVars, FlagsInv, NoStaleFlag
<1>7. CASE FindTimer
  BY <1>0, <1>7, <1>s DEF FindTimer, signalVars, FlagsInv, NoStaleFlag
<1>8. ASSUME SelectTimesOut \/ SelectReady \/ SelectFails \/ EventsEnd PROVE FlagsInv'
  BY <1>0, <1>8, <1>s
  DEF SelectTimesOut, SelectReady, SelectFails, EventsEnd, AfterEvents, signalVars,
      FlagsInv, NoStaleFlag
<1>9. ASSUME CallTimer \/ TimerReturns \/ SkipTimer \/ ExpireEnds PROVE FlagsInv'
  BY <1>0, <1>9, <1>s
  DEF CallTimer, TimerReturns, SkipTimer, ExpireEnds, signalVars, FlagsInv, NoStaleFlag
<1>10. ASSUME NoSignal \/ CallSignal \/ SignalReturns PROVE FlagsInv'
  BY <1>0, <1>10, <1>s
  DEF NoSignal, CallSignal, SignalReturns, FlagReset, NextTurn, FlagsInv, NoStaleFlag
<1>11. ASSUME Tick \/ UNCHANGED vars PROVE FlagsInv'
  BY <1>0, <1>11, <1>s DEF Tick, vars, signalVars, FlagsInv, NoStaleFlag
<1> QED
  BY <1>1, <1>2, <1>3, <1>4, <1>5, <1>6, <1>7, <1>8, <1>9, <1>10, <1>11
  DEF Next, LoopNext, UserNext, Outside, Exited

-----------------------------------------------------------------------------
(* The theorems                                                            *)

IInv == TimerInv /\ TimesInv /\ FlagsInv

\* The invariant all the safety properties of the loop follow from.
THEOREM LoopInvariance == Spec => []IInv
<1>1. Init => IInv
  BY TimerInit, TimesInit, FlagsInit DEF IInv
<1>2. IInv /\ [Next]_vars => IInv'
  BY TimerStep, TimesStep, FlagsStep DEF IInv
<1> QED BY <1>1, <1>2, PTL DEF Spec

\* Every variable of the loop keeps its type, and the differences of times stay
\* within their bound.
THEOREM LoopTypeCorrect == Spec => []TypeOK
<1>1. IInv => TypeOK
  BY DEF IInv, TimerInv
<1> QED BY <1>1, LoopInvariance, PTL

\* timer_list stays whole whatever handlers add and delete during the walk in
\* nspr_event_expire_timers.
THEOREM TimersStayWhole == Spec => []TimersConsistent
<1>1. IInv => TimersConsistent
  BY DEF IInv, TimerInv
<1> QED BY <1>1, LoopInvariance, PTL

\* An object is called for its signal, and the signal caught for it, from its add until
\* another for the same number is added or deleted, however many there are.
THEOREM HeardWhileAlone == Spec => []HeardUntilOusted
<1>1. IInv => HeardUntilOusted
  BY DEF IInv, FlagsInv
<1> QED BY <1>1, LoopInvariance, PTL

\* A turn leaves no flag of a signal to the next one.
THEOREM FlagsGoDown == Spec => []NoStaleFlag
<1>1. IInv => NoStaleFlag
  BY DEF IInv, FlagsInv
<1> QED BY <1>1, LoopInvariance, PTL

\* No handler is called before its timer's interval of real time is over,
\* although nspr_timer.c measures with a cached time.
THEOREM NoTimerEarly == Spec => NeverEarly
<1> DEFINE Late == pc # "timer" /\ pc' = "timer" => slept[cur'] > interval[cur']
<1>1. IInv /\ [Next]_vars => [Late]_vars
  <2> SUFFICES ASSUME IInv, [Next]_vars, pc # "timer", pc' = "timer"
               PROVE  slept[cur'] > interval[cur']
    OBVIOUS
  <2>1. CallTimer
    BY DEF Next, LoopNext, UserNext, Outside, Exited, vars, loopVars, timerVars, signalVars,
       StartUpEnds, FindTimer, LoopEnds, SelectTimesOut, EventsEnd, TimerReturns, SkipTimer,
       ExpireEnds, NoSignal, CallSignal, SignalReturns, NextTurn, AfterEvents, AddTimer,
       DelTimer, AddSignal, DelSignal, EventBreak, Tick, SelectReady, SelectFails,
       SignalArrives, SelectInterrupted
  <2>2. cur' \in Timers /\ cur' \in Active /\ elapsed[cur'] > interval[cur']
    BY <2>1, EntryIsActive DEF CallTimer, Expired, IInv
  <2>3. /\ elapsed[cur'] \in Spans /\ lag \in Spans /\ slept[cur'] \in Spans
        /\ interval[cur'] \in Nat /\ Sum(elapsed[cur'], lag) <= slept[cur']
    BY <2>2, IntervalsAssumption DEF IInv, TimerInv, TypeOK, TimesInv
  <2>4. elapsed[cur'] <= Sum(elapsed[cur'], lag) /\ Sum(elapsed[cur'], lag) \in Spans
    BY <2>3, SumLemma
  <2> QED BY <2>2, <2>3, <2>4 DEF Spans
<1> QED BY <1>1, LoopInvariance, PTL DEF Spec, NeverEarly

-----------------------------------------------------------------------------
(* What ExitEnds and OverdueFires need of the code besides fairness.    *)

\* Each timer is in the list once, so the list is no longer than they are many.
LEMMA ListIsShort ==
    ASSUME TimerInv, IsFiniteSet(Timers)
    PROVE  Cardinality(Timers) \in Nat /\ timers.count <= Cardinality(Timers)
<1> DEFINE places == 0 .. timers.count - 1
<1>1. /\ timers.count \in Nat /\ timers.slot \in [places -> Timers]
      /\ \A k \in places : timers.index[timers.slot[k]] = k
  BY DEF TimerInv, TypeOK, TimersConsistent, TableType, Consistent
<1>2. timers.slot \in Injection(places, Timers)
  BY <1>1 DEF Injection, IsInjective
<1>3. Cardinality(places) = timers.count
  <2>1. Cardinality(places) = IF 0 > timers.count - 1 THEN 0 ELSE timers.count - 1 - 0 + 1
    <3>1. 0 \in Int /\ timers.count - 1 \in Int  BY <1>1
    <3> QED BY <3>1, FS_Interval
  <2> QED BY <1>1, <2>1
<1>4. Cardinality(places) <= Cardinality(Timers)
  BY <1>2, FS_Injection
<1> QED BY <1>3, <1>4, FS_CardinalityType

\* The walk over the timers does not leave the list as it may be.
WalkInv ==
    /\ pc \in {"expire", "timer"} => i <= Cardinality(Timers)
    /\ pc = "timer" => i < Cardinality(Timers)

LEMMA WalkStep ==
    ASSUME IsFiniteSet(Timers), TimerInv, WalkInv, [Next]_vars
    PROVE  WalkInv'
<1> USE DEF timerVars, loopVars, signalVars
<1>0. /\ Cardinality(Timers) \in Nat /\ timers.count <= Cardinality(Timers)
      /\ i \in Nat /\ timers.count \in Nat
  BY ListIsShort DEF TimerInv, TypeOK, TableType
<1>k. ASSUME UNCHANGED <<pc, i>> PROVE WalkInv'
  BY <1>k DEF WalkInv
<1>1. UserNext => WalkInv'
  BY <1>k DEF UserNext, AddTimer, DelTimer, AddSignal, DelSignal, EventBreak
<1>2. CASE EventsEnd \/ SelectFails \/ SelectTimesOut \/ SelectReady
           \/ \E s \in Signums : SelectInterrupted(s)
  BY <1>0, <1>2
  DEF EventsEnd, SelectFails, SelectTimesOut, SelectReady, SelectInterrupted, AfterEvents, WalkInv
<1>3. CASE CallTimer \/ TimerReturns \/ SkipTimer \/ ExpireEnds
  BY <1>0, <1>3 DEF CallTimer, TimerReturns, SkipTimer, ExpireEnds, WalkInv
<1>4. CASE StartUpEnds \/ FindTimer \/ LoopEnds \/ NoSignal \/ CallSignal \/ SignalReturns
  BY <1>4
  DEF StartUpEnds, FindTimer, LoopEnds, NoSignal, CallSignal, SignalReturns, NextTurn, WalkInv
<1>5. CASE Tick \/ (\E s \in Signums : SignalArrives(s)) \/ UNCHANGED vars
  BY <1>k, <1>5 DEF Tick, SignalArrives, vars
<1> QED BY <1>1, <1>2, <1>3, <1>4, <1>5 DEF Next, LoopNext, Outside, Exited

\* The steps of its own that a turn of the loop has before it: two for each timer there
\* may be, and the fixed ones.
TurnLeft ==
    LET ahead == Cardinality(Timers) - i
    IN  CASE pc = "select"     -> 2 * Cardinality(Timers) + 6
          [] pc = "events"     -> 2 * Cardinality(Timers) + 5
          [] pc = "expire"     -> 2 * ahead + 4
          [] pc = "timer"      -> 2 * ahead + 3
          [] pc = "signal"     -> 3
          [] pc = "sighandler" -> 2
          [] pc = "loop"       -> 1
          [] OTHER             -> 0

LEMMA TurnLeftIsNat ==
    ASSUME IsFiniteSet(Timers), TimerInv, WalkInv
    PROVE  TurnLeft \in Nat
<1>1. Cardinality(Timers) \in Nat /\ i \in Nat
  BY FS_CardinalityType DEF TimerInv, TypeOK
<1> QED BY <1>1 DEF WalkInv, TurnLeft

\* A step of the loop leaves the turn fewer steps, or begins the next one by waiting;
\* what callbacks, the clock and signals do meanwhile gives it none.
TurnGoesOn ==
    pc \in {"loop", "events", "expire", "timer", "signal", "sighandler"} =>
        IF LoopNext THEN TurnLeft' < TurnLeft \/ FindTimer ELSE TurnLeft' = TurnLeft

LEMMA TurnStep ==
    ASSUME IsFiniteSet(Timers), TimerInv, WalkInv, Next
    PROVE  TurnGoesOn
<1> USE DEF timerVars, loopVars, signalVars
<1> SUFFICES ASSUME pc \in {"loop", "events", "expire", "timer", "signal", "sighandler"}
             PROVE  IF LoopNext THEN TurnLeft' < TurnLeft \/ FindTimer
                                ELSE TurnLeft' = TurnLeft
  BY DEF TurnGoesOn
<1>0. Cardinality(Timers) \in Nat /\ i \in Nat
  BY FS_CardinalityType DEF TimerInv, TypeOK
<1>1. UserNext \/ Outside \/ Exited => UNCHANGED <<pc, i>>
  BY DEF UserNext, AddTimer, DelTimer, AddSignal, DelSignal, EventBreak, Outside, Tick,
         SelectReady, SelectFails, SignalArrives, SelectInterrupted, Exited, vars
<1>2. UNCHANGED <<pc, i>> => TurnLeft' = TurnLeft
  BY DEF TurnLeft
<1>3. ASSUME LoopNext PROVE TurnLeft' < TurnLeft \/ FindTimer
  <2>1. ~ StartUpEnds /\ ~ SelectTimesOut  BY DEF StartUpEnds, SelectTimesOut
  <2>2. LoopEnds => TurnLeft' < TurnLeft  BY DEF LoopEnds, TurnLeft
  <2>3. EventsEnd => TurnLeft' < TurnLeft
    BY <1>0 DEF EventsEnd, AfterEvents, TurnLeft
  <2>4. CallTimer => TurnLeft' < TurnLeft  BY <1>0 DEF CallTimer, TurnLeft
  <2>5. TimerReturns => TurnLeft' < TurnLeft  BY <1>0 DEF TimerReturns, TurnLeft
  <2>6. SkipTimer => TurnLeft' < TurnLeft  BY <1>0 DEF SkipTimer, TurnLeft
  <2>7. ExpireEnds => TurnLeft' < TurnLeft
    <3>1. pc = "expire" => 2 * (Cardinality(Timers) - i) + 4 > 3  BY <1>0 DEF WalkInv
    <3> QED BY <3>1 DEF ExpireEnds, TurnLeft
  <2>8. NoSignal \/ SignalReturns => TurnLeft' < TurnLeft
    BY DEF NoSignal, SignalReturns, NextTurn, TurnLeft
  <2>9. CallSignal => TurnLeft' < TurnLeft  BY DEF CallSignal, TurnLeft
  <2> QED BY <1>3, <2>1, <2>2, <2>3, <2>4, <2>5, <2>6, <2>7, <2>8, <2>9 DEF LoopNext
<1> QED BY <1>1, <1>2, <1>3 DEF Next

\* A turn of the loop comes to its end, or to its next wait, within two steps for each
\* timer and a handful of others, whatever the handlers add to the list and delete from
\* it while nspr_event_expire_timers walks over it.
THEOREM TurnsAreShort ==
    IsFiniteSet(Timers) => (Spec => [](TurnLeft \in Nat) /\ [][TurnGoesOn]_vars)
<1> SUFFICES ASSUME IsFiniteSet(Timers)
             PROVE  Spec => [](TurnLeft \in Nat) /\ [][TurnGoesOn]_vars
  OBVIOUS
<1>1. Init => WalkInv
  BY DEF Init, WalkInv
<1>2. IInv /\ WalkInv /\ [Next]_vars => WalkInv'
  BY WalkStep DEF IInv
<1>3. IInv /\ WalkInv => TurnLeft \in Nat
  BY TurnLeftIsNat DEF IInv
<1>4. IInv /\ WalkInv /\ [Next]_vars => [TurnGoesOn]_vars
  BY TurnStep DEF IInv
<1> QED BY <1>1, <1>2, <1>3, <1>4, LoopInvariance, PTL DEF Spec

-----------------------------------------------------------------------------
(* How a walk may pass over a timer                                         *)

\* The walk has still to come to the timer.
Ahead(t) ==
    \/ pc = "expire" /\ timers.index[t] >= i
    \/ pc = "timer" /\ timers.index[t] > i

\* A timer in the list never moves backwards; overdue, it stays so until its handler
\* runs; and a walk that passes over it has seen it move forwards.
OverdueWaits ==
    \A t \in Active : t \in Active' =>
        /\ timers'.index[t] <= timers.index[t]
        /\ Expired(t) => Expired(t)' \/ Fires(t)
        /\ Expired(t) /\ Ahead(t) => Ahead(t)' \/ Fires(t)' \/ timers'.index[t] < timers.index[t]

LEMMA ListMoves ==
    ASSUME TimerInv, Next, NEW t \in Active, t \in Active'
    PROVE  timers'.index[t] <= timers.index[t]
<1> USE DEF timerVars, loopVars, signalVars
<1>0. /\ TableType(timers, Timers) /\ Consistent(timers) /\ t \in Timers
      /\ DOMAIN timers.index = Timers /\ timers.index[t] \in Int
  BY DEF TimerInv, TypeOK, TimersConsistent, TableType, Active, Linked, Unlinked, Unset
<1>k. ASSUME timers'.index[t] = timers.index[t] PROVE timers'.index[t] <= timers.index[t]
  BY <1>0, <1>k
<1>1. CASE UNCHANGED timers  BY <1>1, <1>k
<1>2. ASSUME NEW x \in Timers, NEW d \in Intervals, AddTimer(x, d)
      PROVE  timers'.index[t] <= timers.index[t]
  BY <1>0, <1>2, <1>k DEF AddTimer, Link
<1>3. ASSUME NEW x \in Timers, DelTimer(x) PROVE timers'.index[t] <= timers.index[t]
  <2>1. x \in Linked(timers) /\ timers' = Unlink(timers, x) /\ t # x
    BY <1>3, DelTable DEF DelTimer, Active
  <2>2. CASE t # LastItem(timers)
    BY <1>0, <1>k, <2>1, <2>2 DEF Unlink
  <2>3. CASE t = LastItem(timers)
    <3>1. timers'.index[t] = timers.index[x]  BY <1>0, <2>1, <2>3 DEF Unlink
    <3>2. timers.index[x] \in Nat /\ timers.index[x] < timers.count /\ timers.count \in Nat
      BY <1>0, <2>1 DEF TableType, Consistent, Linked, Unlinked, Unset
    <3>3. timers.count - 1 \in 0 .. timers.count - 1  BY <3>2
    <3>4. timers.index[t] = timers.count - 1  BY <1>0, <2>3, <3>3 DEF Consistent, LastItem
    <3> QED BY <3>1, <3>2, <3>4
  <2> QED BY <2>2, <2>3
<1> QED
  BY <1>1, <1>2, <1>3
  DEF Next, LoopNext, UserNext, Outside, Exited, vars, StartUpEnds, FindTimer, LoopEnds,
      SelectTimesOut, EventsEnd, CallTimer, TimerReturns, SkipTimer, ExpireEnds, NoSignal,
      CallSignal, SignalReturns, AddSignal, DelSignal, EventBreak, Tick, SelectReady,
      SelectFails, SignalArrives, SelectInterrupted

LEMMA OverdueStays ==
    ASSUME TimerInv, Next, NEW t \in Active, t \in Active', Expired(t)
    PROVE  Expired(t)' \/ Fires(t)
<1> USE DEF timerVars, loopVars, signalVars
<1>0. /\ t \in Timers /\ elapsed \in [Timers -> Spans] /\ lag \in Spans
      /\ interval \in [Timers -> Intervals \union {0}] /\ interval[t] \in Nat
      /\ elapsed[t] \in Nat /\ elapsed[t] \in Spans /\ elapsed[t] > interval[t]
  BY IntervalsAssumption DEF TimerInv, TypeOK, TableType, Active, Linked, Expired, Spans
<1>k. ASSUME interval'[t] = interval[t], elapsed'[t] = elapsed[t] PROVE Expired(t)'
  BY <1>0, <1>k DEF Expired
<1>u. ASSUME interval'[t] = interval[t], elapsed'[t] = Sum(elapsed[t], lag) PROVE Expired(t)'
  <2>1. Sum(elapsed[t], lag) \in Nat /\ elapsed[t] <= Sum(elapsed[t], lag)
    BY <1>0, SumLemma DEF Spans
  <2> QED BY <1>0, <1>u, <2>1 DEF Expired
<1>1. ASSUME NEW x \in Timers, NEW d \in Intervals, AddTimer(x, d) PROVE Expired(t)'
  <2>1. t # x  BY <1>1 DEF AddTimer
  <2>2. interval'[t] = interval[t] /\ elapsed'[t] = Sum(elapsed[t], lag)
    BY <1>0, <1>1, <2>1 DEF AddTimer, StartNow, Updated
  <2> QED BY <1>u, <2>2
<1>2. ASSUME NEW x \in Timers, DelTimer(x) PROVE Expired(t)'
  <2>1. t # x  BY <1>2, DelTable
  <2> QED BY <1>0, <1>2, <1>k, <2>1 DEF DelTimer
<1>3. CASE TimerReturns
  <2>1. pc = "timer" /\ interval' = interval /\ elapsed' = [elapsed EXCEPT ![cur] = 0]
    BY <1>3 DEF TimerReturns, Restarted
  <2> QED BY <1>0, <1>k, <2>1 DEF Fires
<1>4. ASSUME TimeUpdate, interval' = interval PROVE Expired(t)'
  BY <1>0, <1>4, <1>u DEF TimeUpdate, Updated
<1>5. CASE SelectTimesOut \/ SelectReady \/ SelectFails \/ \E s \in Signums : SelectInterrupted(s)
  BY <1>4, <1>5 DEF SelectTimesOut, SelectReady, SelectFails, SelectInterrupted
<1>6. CASE UNCHANGED <<interval, elapsed>>  BY <1>6, <1>k
<1> QED
  BY <1>1, <1>2, <1>3, <1>5, <1>6
  DEF Next, LoopNext, UserNext, Outside, Exited, vars, StartUpEnds, FindTimer, LoopEnds,
      EventsEnd, CallTimer, SkipTimer, ExpireEnds, NoSignal, CallSignal, SignalReturns,
      AddSignal, DelSignal, EventBreak, Tick, SignalArrives

LEMMA WalkComes ==
    ASSUME TimerInv, Next, NEW t \in Active, t \in Active', Expired(t), Ahead(t)
    PROVE  Ahead(t)' \/ Fires(t)' \/ timers'.index[t] < timers.index[t]
<1> USE DEF timerVars, loopVars, signalVars
<1>0. /\ Consistent(timers) /\ timers.count \in Nat /\ i \in Nat
      /\ timers.index[t] \in Int /\ t \in Linked(timers)
  BY DEF TimerInv, TypeOK, TimersConsistent, TableType, Active, Linked, Unlinked, Unset
<1>1. timers.index[t] < timers.count /\ timers.slot[timers.index[t]] = t
  BY <1>0 DEF Consistent
<1>2. CASE UserNext
  <2>1. UNCHANGED <<pc, i>>
    BY <1>2 DEF UserNext, AddTimer, DelTimer, AddSignal, DelSignal, EventBreak
  <2>2. timers'.index[t] <= timers.index[t] /\ timers'.index[t] \in Int
    <3>1. TableType(timers', Timers) /\ t \in Timers
      BY <1>2, TimerStep DEF Next, TimerInv, TypeOK, TableType, Active, Linked
    <3> QED BY <3>1, ListMoves DEF TableType, Unlinked, Unset
  <2>3. timers'.index[t] = timers.index[t] \/ timers'.index[t] < timers.index[t]
    BY <1>0, <2>2
  <2> QED BY <2>1, <2>3 DEF Ahead
<1>3. CASE CallTimer
  <2>1. /\ pc = "expire" /\ pc' = "timer" /\ cur' = timers.slot[i]
        /\ UNCHANGED <<timers, i>> /\ timers.index[t] >= i
    BY <1>3 DEF CallTimer, Ahead
  <2>2. CASE timers.index[t] = i  BY <1>1, <2>1, <2>2 DEF Fires
  <2>3. CASE timers.index[t] > i  BY <2>1, <2>3 DEF Ahead
  <2> QED BY <1>0, <2>1, <2>2, <2>3
<1>4. CASE TimerReturns \/ SkipTimer
  <2>1. pc' = "expire" /\ i' = i + 1 /\ UNCHANGED timers
    BY <1>4 DEF TimerReturns, SkipTimer
  <2>2. timers.index[t] > i
    BY <1>0, <1>1, <1>4 DEF TimerReturns, SkipTimer, Ahead
  <2>3. timers.index[t] >= i + 1  BY <1>0, <2>2
  <2> QED BY <2>1, <2>3 DEF Ahead
<1>5. ~ ExpireEnds
  BY <1>0, <1>1 DEF ExpireEnds, Ahead
<1>6. CASE Tick \/ (\E s \in Signums : SignalArrives(s)) \/ UNCHANGED vars
  BY <1>6 DEF Tick, SignalArrives, vars, Ahead
<1>7. ~ (\/ StartUpEnds \/ FindTimer \/ LoopEnds \/ SelectTimesOut \/ EventsEnd
         \/ NoSignal \/ CallSignal \/ SignalReturns \/ SelectReady \/ SelectFails
         \/ \E s \in Signums : SelectInterrupted(s))
  BY DEF Ahead, StartUpEnds, FindTimer, LoopEnds, SelectTimesOut, EventsEnd, NoSignal,
         CallSignal, SignalReturns, SelectReady, SelectFails, SelectInterrupted
<1> QED BY <1>2, <1>3, <1>4, <1>5, <1>6, <1>7 DEF Next, LoopNext, Outside, Exited

\* An overdue timer is missed by a walk only when a delete in a handler carries it over
\* the walk's position; this brings it nearer the front of timer_list for good, so it is
\* missed no more often than it has places before it, and keeps its turn meanwhile.
THEOREM OverdueKeepsItsTurn == Spec => [][OverdueWaits]_vars
<1>1. IInv /\ [Next]_vars => [OverdueWaits]_vars
  <2> SUFFICES ASSUME IInv, Next PROVE OverdueWaits
    OBVIOUS
  <2>1. TimerInv  BY DEF IInv
  <2> QED BY <2>1, ListMoves, OverdueStays, WalkComes DEF OverdueWaits
<1> QED BY <1>1, LoopInvariance, PTL DEF Spec

-----------------------------------------------------------------------------
(* What PendingEnds needs of the code besides fairness.                     *)

\* While select() blocks, its time-out is that of the eldest pending timer, and the
\* clock has moved on by what it has waited.
SleepInv ==
    pc = "select" =>
        /\ waited <= lag
        /\ \A t \in Pending : timeout # Infinite /\ elapsed[t] <= timeout

LEMMA SleepStep == TimerInv /\ SleepInv /\ [Next]_vars => SleepInv'
<1> SUFFICES ASSUME TimerInv, SleepInv, [Next]_vars, pc' = "select"
             PROVE  /\ waited' <= lag'
                    /\ \A t \in Pending' : timeout' # Infinite /\ elapsed'[t] <= timeout'
  BY DEF SleepInv
<1> USE DEF timerVars, loopVars, signalVars
<1>0. /\ lag \in Spans /\ waited \in Spans /\ Ceiling \in Nat
      /\ Active \subseteq Timers /\ elapsed \in [Timers -> Spans]
  BY IntervalsAssumption DEF TimerInv, TypeOK, TableType, Active, Linked
<1>1. CASE FindTimer
  <2>1. waited' <= lag'
    BY <1>0, <1>1 DEF FindTimer, Spans
  <2>2. Pending' = Pending /\ elapsed' = elapsed
    BY <1>1 DEF FindTimer, Pending, Active
  <2>3. IsTimeout(timeout')
    BY <1>1 DEF FindTimer
  <2>4. ASSUME NEW t \in Pending PROVE timeout' # Infinite /\ elapsed[t] <= timeout'
    <3>1. PICK s \in Pending : elapsed[s] = timeout'
      BY <2>3, <2>4 DEF IsTimeout
    <3>2. elapsed[s] \in Spans
      BY <1>0 DEF Pending
    <3> QED BY <2>3, <2>4, <3>1, <3>2, <1>0 DEF IsTimeout, Infinite, Spans
  <2> QED BY <2>1, <2>2, <2>4
<1>2. CASE Tick
  <2>1. /\ pc = "select" /\ waited' = Sum(waited, 1) /\ lag' = Sum(lag, 1)
        /\ UNCHANGED <<timers, interval, elapsed, timeout>>
    BY <1>2 DEF Tick
  <2>2. waited' <= lag'
    <3>1. waited <= lag  BY <2>1 DEF SleepInv
    <3> QED BY <1>0, <2>1, <3>1 DEF Sum, Spans
  <2> QED BY <2>1, <2>2 DEF SleepInv, Pending, Active
<1>3. CASE UNCHANGED vars
  BY <1>3 DEF vars, SleepInv, Pending, Active
<1>4. ~ UserNext
  BY DEF UserNext, UserRuns, AddTimer, DelTimer, AddSignal, DelSignal, EventBreak
<1>5. ~ (\E s \in Signums : SignalArrives(s) \/ SelectInterrupted(s))
      /\ ~ SelectReady /\ ~ SelectFails
  BY DEF SignalArrives, SelectInterrupted, SelectReady, SelectFails, AfterEvents
<1>6. LoopNext => FindTimer
  BY DEF LoopNext, StartUpEnds, LoopEnds, SelectTimesOut, EventsEnd, AfterEvents, CallTimer,
         TimerReturns, SkipTimer, ExpireEnds, NoSignal, CallSignal, SignalReturns, NextTurn
<1> QED BY <1>1, <1>2, <1>3, <1>4, <1>5, <1>6 DEF Next, Outside, Exited

\* A timer that is pending when a sleep has run its time is at least twice as old after
\* it as before.
SleepDoubles ==
    SelectTimesOut => \A t \in Pending : elapsed'[t] >= Sum(elapsed[t], elapsed[t])

\* The time-out of nspr_event_find_timer is how long the eldest pending timer has waited
\* already, so the sleeps of one timer double: from its first millisecond on, and with
\* nothing else going on, they carry it to its interval in as many sleeps as the interval
\* has binary digits.
THEOREM SleepsDouble == Spec => [][SleepDoubles]_vars
<1>1. Init => SleepInv
  BY DEF Init, SleepInv
<1>2. IInv /\ SleepInv /\ [Next]_vars => SleepInv'
  BY SleepStep DEF IInv
<1>3. IInv /\ SleepInv /\ [Next]_vars => [SleepDoubles]_vars
  <2> SUFFICES ASSUME IInv, SleepInv, SelectTimesOut, NEW t \in Pending
               PROVE  elapsed'[t] >= Sum(elapsed[t], elapsed[t])
    BY DEF SleepDoubles
  <2>1. /\ lag \in Spans /\ waited \in Spans /\ Ceiling \in Nat
        /\ t \in Active /\ t \in Timers /\ elapsed[t] \in Spans
    BY IntervalsAssumption
    DEF IInv, TimerInv, TypeOK, TableType, Pending, Active, Linked
  <2>2. elapsed'[t] = Sum(elapsed[t], lag)
    BY <2>1 DEF SelectTimesOut, TimeUpdate, Updated
  <2>3. /\ waited <= lag /\ elapsed[t] <= timeout /\ waited >= timeout
        /\ timeout \in Spans
    BY DEF SelectTimesOut, SleepInv, IInv, TimerInv, TypeOK
  <2>4. elapsed[t] <= lag
    BY <2>1, <2>3 DEF Spans
  <2> QED BY <2>1, <2>2, <2>4 DEF Sum, Spans
<1> QED BY <1>1, <1>2, <1>3, LoopInvariance, PTL DEF Spec
=============================================================================
