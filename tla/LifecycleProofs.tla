--------------------------- MODULE LifecycleProofs ---------------------------
(***************************************************************************)
(* An inductive invariant of Lifecycle, and what follows from it for any   *)
(* tasks and any command line.                                             *)
(***************************************************************************)
EXTENDS Lifecycle, FiniteSetTheorems, TLAPS

Places == {"log", "options", "init", "script", "standard_input", "loop", "exit_functions",
           "exit", "ended"}

TypeOK ==
    /\ pc \in Places
    /\ next \in Nat \ {0}
    /\ armed \subseteq StopSignals
    /\ exit_funs \in Seq(Tasks) /\ ran \in Seq(Tasks)
    /\ broken \in Nat

\* Where main stands says which modules are initialised and exited, and what they
\* have set.
FirstModules(n) == SubSeq(Modules, 1, n)
ModulesInv ==
    /\ pc # "log" => log
    /\ pc \in {"log", "options"} => next = 1 /\ inited = <<>>
    /\ pc = "init" =>
         /\ next \in 1 .. 4 /\ inited = FirstModules(next - 1)
         /\ next > 2 => process /\ table
         /\ next > 3 => lua
    /\ pc \in {"script", "standard_input"} =>
         next = 3 /\ inited = FirstModules(2) /\ process /\ table /\ lua
    /\ pc \in {"loop", "exit_functions"} => inited = Modules /\ process /\ table /\ lua
    /\ pc = "loop" => next = 1
    /\ pc = "exit" =>
         next \in 1 .. 4 /\ inited = Modules /\ exited = FirstModules(next - 1)
    /\ pc = "ended" => exited = IF status = 0 THEN inited ELSE <<>>
    /\ pc # "ended" => status = 0
    /\ pc \notin {"exit", "ended"} => exited = <<>>

\* The foreman waits for every stop signal but those that were cut short, and the
\* one that runs the exit functions now.
ForemanInv ==
    /\ pc \in {"log", "options"} => armed = {}
    /\ pc = "init" /\ next < 4 => armed = {}
    /\ pc = "script" => options.file
    /\ pc = "standard_input" => ~options.file
    /\ pc = "init" /\ next > 3 /\ options.file => armed = StopSignals
    /\ pc \notin {"loop", "exit_functions", "exit", "ended"} => broken = 0
    /\ pc = "loop" /\ event_loop /\ options.file => Cardinality(armed) + broken = 2
    /\ pc = "exit_functions" /\ options.file => Cardinality(armed) + broken = 1

\* The last n that ran are the first n exit functions.
RanLast(n) ==
    /\ n <= Len(ran) /\ n <= Len(exit_funs)
    /\ \A k \in 1 .. n : ran[Len(ran) - n + k] = exit_funs[k]
ExitInv ==
    /\ pc \in {"log", "options", "init", "script", "standard_input"} => ran = <<>>
    /\ pc \notin {"loop", "exit", "ended"} => event_loop
    /\ pc = "exit_functions" => RanLast(next - 1)
    /\ pc = "exit_functions" /\ broken = 0 => Len(ran) = next - 1
    /\ event_loop /\ broken = 0 /\ pc # "exit_functions" => ran = <<>>
    /\ ~event_loop => RanLast(Len(exit_funs)) /\ (broken = 0 => Len(ran) = Len(exit_funs))

IInv == TypeOK /\ ModulesInv /\ ForemanInv /\ ExitInv

-----------------------------------------------------------------------------
(* The order of the modules, signals and exit functions                    *)

LEMMA ModulesAre ==
    /\ Modules[1] = "log" /\ Modules[2] = "event" /\ Modules[3] = "luapi" /\ Len(Modules) = 3
    /\ FirstModules(0) = <<>> /\ FirstModules(3) = Modules
    /\ \A n \in 0 .. 2 : FirstModules(n + 1) = Append(FirstModules(n), Modules[n + 1])
<1>1. /\ Modules[1] = "log" /\ Modules[2] = "event" /\ Modules[3] = "luapi" /\ Len(Modules) = 3
      /\ Modules \in Seq({"log", "event", "luapi"})
  BY DEF Modules
<1>2. FirstModules(0) = <<>> /\ FirstModules(3) = Modules
  BY <1>1 DEF FirstModules
<1>3. ASSUME NEW n \in 0 .. 2
      PROVE  FirstModules(n + 1) = Append(FirstModules(n), Modules[n + 1])
  <2> HIDE DEF Modules
  <2> QED BY <1>1 DEF FirstModules
<1> QED BY <1>1, <1>2, <1>3

LEMMA SignalsAre ==
    /\ IsFiniteSet(StopSignals) /\ Cardinality(StopSignals) = 2 /\ Cardinality({}) = 0
    /\ \A a \in SUBSET StopSignals : \A s \in a : Cardinality(a \ {s}) = Cardinality(a) - 1
    /\ \A a \in SUBSET StopSignals : Cardinality(a) \in Nat
<1>0. Cardinality({}) = 0
  BY FS_EmptySet
<1>1. IsFiniteSet({2}) /\ Cardinality({2}) = 1
  BY FS_Singleton
<1>2. IsFiniteSet({2} \union {3}) /\ Cardinality({2} \union {3}) = 2
  BY <1>1, FS_AddElement
<1>3. IsFiniteSet(StopSignals) /\ Cardinality(StopSignals) = 2
  <2>1. StopSignals = {2} \union {3}
    BY DEF StopSignals
  <2> QED BY <1>2, <2>1
<1>4. ASSUME NEW a \in SUBSET StopSignals
      PROVE  IsFiniteSet(a) /\ Cardinality(a) \in Nat
  BY <1>3, FS_Subset, FS_CardinalityType
<1>5. ASSUME NEW a \in SUBSET StopSignals, NEW s \in a
      PROVE  Cardinality(a \ {s}) = Cardinality(a) - 1
  BY <1>4, FS_RemoveElement
<1> QED BY <1>0, <1>3, <1>4, <1>5

LEMMA SuffixByPlaces ==
    ASSUME NEW S, NEW s \in Seq(S), NEW t \in Seq(S), Len(s) <= Len(t),
           \A k \in 1 .. Len(s) : t[Len(t) - Len(s) + k] = s[k]
    PROVE  IsSuffix(s, t)
<1>1. /\ Reverse(s) \in Seq(S) /\ Len(Reverse(s)) = Len(s)
      /\ \A k \in 1 .. Len(s) : Reverse(s)[k] = s[(Len(s) - k) + 1]
  BY DEF Reverse
<1>2. /\ Reverse(t) \in Seq(S) /\ Len(Reverse(t)) = Len(t)
      /\ \A k \in 1 .. Len(t) : Reverse(t)[k] = t[(Len(t) - k) + 1]
  BY DEF Reverse
<1>3. ASSUME NEW k \in 1 .. Len(s) PROVE Reverse(s)[k] = Reverse(t)[k]
  <2> DEFINE j == (Len(s) - k) + 1
  <2>1. j \in 1 .. Len(s) /\ Len(t) - Len(s) + j = (Len(t) - k) + 1 /\ k \in 1 .. Len(t)
    OBVIOUS
  <2>2. t[Len(t) - Len(s) + j] = s[j]
    BY <2>1
  <2> QED BY <1>1, <1>2, <2>1, <2>2
<1>4. SubSeq(Reverse(s), 1, Len(s)) = SubSeq(Reverse(t), 1, Len(s))
  BY <1>1, <1>2, <1>3
<1> QED BY <1>1, <1>2, <1>4 DEF IsSuffix, IsPrefix

LEMMA PrefixByPlaces ==
    ASSUME NEW S, NEW s \in Seq(S), NEW t \in Seq(S), Len(s) <= Len(t),
           \A k \in 1 .. Len(s) : s[k] = t[k]
    PROVE  IsPrefix(s, t)
<1>1. SubSeq(s, 1, Len(s)) = SubSeq(t, 1, Len(s))
  OBVIOUS
<1> QED BY <1>1 DEF IsPrefix

-----------------------------------------------------------------------------
(* The invariant is inductive                                              *)

LEMMA InitIInv == Init => IInv
<1> SUFFICES ASSUME Init PROVE IInv
  OBVIOUS
<1>1. /\ pc = "log" /\ next = 1 /\ status = 0 /\ inited = <<>> /\ exited = <<>> /\ armed = {}
      /\ exit_funs = <<>> /\ ran = <<>> /\ broken = 0 /\ event_loop = TRUE
  BY DEF Init
<1>2. TypeOK
  BY <1>1 DEF TypeOK, Places
<1>3. ModulesInv /\ ForemanInv /\ ExitInv
  BY <1>1 DEF ModulesInv, ForemanInv, ExitInv
<1> QED BY <1>2, <1>3 DEF IInv

LEMMA TypeStep == TypeOK /\ [Next]_vars => TypeOK'
<1> SUFFICES ASSUME TypeOK, [Next]_vars PROVE TypeOK'
  OBVIOUS
<1> USE DEF TypeOK, Places
<1>1. CASE LogInit \/ GetOptions
  BY <1>1 DEF LogInit, GetOptions, luaProgram
<1>2. CASE InitLog \/ InitEvent
  BY <1>2 DEF InitLog, InitEvent, Initialised, luaProgram
<1>3. CASE InitLua \/ InitsEnd
  BY <1>3 DEF InitLua, InitsEnd, luaProgram
<1>4. CASE RunExitFunction
  BY <1>4 DEF RunExitFunction
<1>5. CASE ExitFunctionFails \/ ExitFunctionsEnd
  BY <1>5 DEF ExitFunctionFails, ExitFunctionsEnd, luaProgram
<1>6. CASE LoopEnds \/ ModuleExits \/ ExitsEnd
  BY <1>6 DEF LoopEnds, ModuleExits, ExitsEnd, luaProgram
<1>7. ASSUME NEW s \in StopSignals, Arm(s) \/ StopSignal(s) PROVE TypeOK'
  BY <1>7 DEF Arm, StopSignal, SignalTaken
<1>8. ASSUME NEW t \in Tasks, LoadTask(t) PROVE TypeOK'
  BY <1>8 DEF LoadTask
<1>9. CASE ScriptFails \/ ScriptEnds
  BY <1>9 DEF ScriptFails, ScriptEnds, Initialised, luaProgram
<1>10. CASE UNCHANGED vars
  BY <1>10 DEF vars, luaProgram
<1> QED BY <1>1, <1>2, <1>3, <1>4, <1>5, <1>6, <1>7, <1>8, <1>9, <1>10
        DEF Next, MainNext, Ended

LEMMA ModulesStep == TypeOK /\ ModulesInv /\ [Next]_vars => ModulesInv'
<1> SUFFICES ASSUME TypeOK, ModulesInv, [Next]_vars PROVE ModulesInv'
  OBVIOUS
<1> USE DEF ModulesInv
<1>1. CASE LogInit \/ GetOptions
  BY <1>1, ModulesAre DEF LogInit, GetOptions, cProgram, history
<1>2. CASE InitLog
  BY <1>2, ModulesAre DEF InitLog, Initialising, Initialised
<1>3. CASE InitEvent
  <2>1. next = 2 /\ pc = "init"
    BY <1>3, ModulesAre DEF InitEvent, Initialising
  <2>2. FirstModules(2) = Append(FirstModules(1), "event")
    BY ModulesAre
  <2> QED BY <1>3, <2>1, <2>2 DEF InitEvent, Initialised
<1>4. CASE InitLua
  BY <1>4, ModulesAre DEF InitLua, Initialising, history
<1>5. CASE InitsEnd
  BY <1>5, ModulesAre DEF InitsEnd, cProgram, history
<1>6. CASE RunExitFunction \/ ExitFunctionFails \/ ExitFunctionsEnd
  BY <1>6 DEF RunExitFunction, ExitFunctionFails, ExitFunctionsEnd, cProgram, history
<1>7. CASE LoopEnds
  BY <1>7, ModulesAre DEF LoopEnds, cProgram, history
<1>8. CASE ModuleExits
  <2>1. /\ pc = "exit" /\ next <= 3 /\ exited' = Append(exited, Modules[next])
        /\ next' = next + 1 /\ UNCHANGED <<pc, status, log, inited>>
    BY <1>8, ModulesAre DEF ModuleExits, FirstModule
  <2>2. next - 1 \in 0 .. 2 /\ (next - 1) + 1 = next
    BY <2>1
  <2>3. FirstModules(next) = Append(FirstModules(next - 1), Modules[next])
    BY <2>2, ModulesAre
  <2> QED BY <2>1, <2>2, <2>3
<1>9. CASE ExitsEnd
  BY <1>9, ModulesAre DEF ExitsEnd, FirstModule, cProgram, history
<1>10. ASSUME NEW s \in StopSignals, Arm(s) \/ StopSignal(s) PROVE ModulesInv'
  BY <1>10 DEF Arm, StopSignal, cProgram, history
<1>11. ASSUME NEW t \in Tasks, LoadTask(t) PROVE ModulesInv'
  BY <1>11 DEF LoadTask, cProgram, history
<1>12. CASE ScriptFails
  BY <1>12 DEF ScriptFails, cProgram, history
<1>13. CASE ScriptEnds
  BY <1>13, ModulesAre DEF ScriptEnds, Initialised, cProgram
<1>14. CASE UNCHANGED vars
  BY <1>14 DEF vars, cProgram, history
<1> QED BY <1>1, <1>2, <1>3, <1>4, <1>5, <1>6, <1>7, <1>8, <1>9, <1>10, <1>11, <1>12, <1>13,
           <1>14
        DEF Next, MainNext, Ended

LEMMA ForemanStep == TypeOK /\ ModulesInv /\ ForemanInv /\ [Next]_vars => ForemanInv'
<1> SUFFICES ASSUME TypeOK, ModulesInv, ForemanInv, [Next]_vars PROVE ForemanInv'
  OBVIOUS
<1> USE DEF ForemanInv
<1>1. CASE LogInit \/ GetOptions
  BY <1>1 DEF LogInit, GetOptions, luaProgram, ModulesInv
<1>2. CASE InitLog \/ InitEvent
  BY <1>2, ModulesAre DEF InitLog, InitEvent, Initialising, Initialised, luaProgram, ModulesInv
<1>3. CASE InitLua
  BY <1>3, ModulesAre DEF InitLua, Initialising, luaProgram
<1>4. CASE InitsEnd
  BY <1>4, ModulesAre, SignalsAre DEF InitsEnd, luaProgram
<1>5. CASE RunExitFunction
  BY <1>5 DEF RunExitFunction
<1>6. CASE ExitFunctionFails \/ ExitFunctionsEnd
  BY <1>6, SignalsAre DEF ExitFunctionFails, ExitFunctionsEnd, LoopBroken, luaProgram, TypeOK
<1>7. CASE LoopEnds \/ ModuleExits \/ ExitsEnd
  BY <1>7 DEF LoopEnds, ModuleExits, ExitsEnd, luaProgram
<1>8. ASSUME NEW s \in StopSignals, Arm(s) PROVE ForemanInv'
  BY <1>8 DEF Arm
<1>9. ASSUME NEW s \in StopSignals, StopSignal(s) PROVE ForemanInv'
  BY <1>9, SignalsAre DEF StopSignal, SignalTaken, TypeOK
<1>10. ASSUME NEW t \in Tasks, LoadTask(t) PROVE ForemanInv'
  BY <1>10 DEF LoadTask
<1>11. CASE ScriptFails \/ ScriptEnds
  BY <1>11 DEF ScriptFails, ScriptEnds, Initialised, luaProgram, ModulesInv
<1>12. CASE UNCHANGED vars
  BY <1>12 DEF vars, luaProgram
<1> QED BY <1>1, <1>2, <1>3, <1>4, <1>5, <1>6, <1>7, <1>8, <1>9, <1>10, <1>11, <1>12
        DEF Next, MainNext, Ended

LEMMA ExitStep == TypeOK /\ ExitInv /\ [Next]_vars => ExitInv'
<1> SUFFICES ASSUME TypeOK, ExitInv, [Next]_vars PROVE ExitInv'
  OBVIOUS
<1> USE DEF ExitInv, RanLast
<1>1. CASE LogInit \/ GetOptions \/ InitsEnd
  BY <1>1 DEF LogInit, GetOptions, InitsEnd, luaProgram
<1>2. CASE InitLog \/ InitEvent \/ InitLua
  BY <1>2 DEF InitLog, InitEvent, InitLua, Initialising, Initialised, luaProgram
<1>3. CASE RunExitFunction
  <2>1. /\ Len(ran') = Len(ran) + 1 /\ ran'[Len(ran) + 1] = exit_funs[next]
        /\ \A k \in 1 .. Len(ran) : ran'[k] = ran[k]
        /\ next <= Len(exit_funs) /\ next' = next + 1
        /\ UNCHANGED <<pc, exit_funs, broken, event_loop>> /\ pc = "exit_functions"
    BY <1>3 DEF RunExitFunction, TypeOK
  <2>2. next \in Nat \ {0} /\ Len(ran) \in Nat /\ Len(exit_funs) \in Nat
    BY DEF TypeOK
  <2>3. ASSUME NEW k \in 1 .. next PROVE ran'[Len(ran') - next + k] = exit_funs[k]
    <3>1. CASE k = next
      BY <2>1, <2>2, <3>1
    <3>2. CASE k # next
      <4>1. k \in 1 .. next - 1 /\ Len(ran) - (next - 1) + k \in 1 .. Len(ran)
        BY <2>1, <2>2, <3>2
      <4>2. ran[Len(ran) - (next - 1) + k] = exit_funs[k]
        BY <2>1, <4>1
      <4>3. Len(ran') - next + k = Len(ran) - (next - 1) + k
        BY <2>1, <2>2
      <4> QED BY <2>1, <4>1, <4>2, <4>3
    <3> QED BY <3>1, <3>2
  <2>4. RanLast(next - 1)'
    BY <2>1, <2>2, <2>3
  <2> QED BY <2>1, <2>2, <2>4
<1>4. CASE ExitFunctionFails
  BY <1>4 DEF ExitFunctionFails, TypeOK
<1>5. CASE ExitFunctionsEnd
  <2>1. next = Len(exit_funs) + 1
    BY <1>5 DEF ExitFunctionsEnd, TypeOK
  <2> QED BY <1>5, <2>1 DEF ExitFunctionsEnd, LoopBroken, luaProgram, TypeOK
<1>6. CASE LoopEnds \/ ModuleExits \/ ExitsEnd
  BY <1>6 DEF LoopEnds, ModuleExits, ExitsEnd, luaProgram
<1>7. ASSUME NEW s \in StopSignals, Arm(s) \/ StopSignal(s) PROVE ExitInv'
  BY <1>7 DEF Arm, StopSignal, StillGoing, TypeOK
<1>8. ASSUME NEW t \in Tasks, LoadTask(t) PROVE ExitInv'
  BY <1>8 DEF LoadTask
<1>9. CASE ScriptFails \/ ScriptEnds
  BY <1>9 DEF ScriptFails, ScriptEnds, Initialised, luaProgram
<1>10. CASE UNCHANGED vars
  BY <1>10 DEF vars, luaProgram
<1> QED BY <1>1, <1>2, <1>3, <1>4, <1>5, <1>6, <1>7, <1>8, <1>9, <1>10
        DEF Next, MainNext, Ended

\* The inductive invariant, from which the theorems follow: where main stands says
\* which modules are initialised and exited, whom the foreman waits for and which
\* exit functions have run.
THEOREM Inductive == Spec => []IInv
<1>1. Init => IInv
  BY InitIInv
<1>2. IInv /\ [Next]_vars => IInv'
  BY TypeStep, ModulesStep, ForemanStep, ExitStep DEF IInv
<1> QED BY <1>1, <1>2, PTL DEF Spec

-----------------------------------------------------------------------------

\* NothingTooEarly: the script, the exit functions and main's loop find the node
\* table, the error log and the Lua state, whatever arguments main was given.
THEOREM ModulesFirst == Spec => []NothingTooEarly
<1>1. IInv => NothingTooEarly
  BY DEF IInv, ModulesInv, NothingTooEarly, UserCode
<1> QED BY <1>1, Inductive, PTL

\* ExitsMatchInits: whoever leaves by the loop runs the exits of the modules whose
\* inits have run, in the same order; after a failed init no exit runs.
THEOREM ExitsFollowInits == Spec => []ExitsMatchInits
<1>1. IInv => ExitsMatchInits
  BY DEF IInv, ModulesInv, ExitsMatchInits
<1> QED BY <1>1, Inductive, PTL

\* StaysStoppable: while the loop goes on, each of SIGINT and SIGQUIT has its
\* coroutine in the foreman, unless an exit function raised an error in it.
THEOREM ForemanWaits == Spec => []StaysStoppable
<1>1. IInv => StaysStoppable
  BY SignalsAre DEF IInv, ForemanInv, StaysStoppable
<1> QED BY <1>1, Inductive, PTL

\* ExitFunctionsRun: when pipeline.exit breaks the loop the functions of all tasks
\* have run in the order of their insertion, and without an error none ran twice.
THEOREM AllExitFunctions == Spec => []ExitFunctionsRun
<1>1. IInv => ExitFunctionsRun
  <2> SUFFICES ASSUME IInv PROVE ExitFunctionsRun
    OBVIOUS
  <2>0. /\ exit_funs \in Seq(Tasks) /\ ran \in Seq(Tasks) /\ next \in Nat \ {0} /\ ExitInv
        /\ Len(ran) \in Nat /\ Len(exit_funs) \in Nat
    BY DEF IInv, TypeOK
  <2>1. ASSUME ~event_loop PROVE IsSuffix(exit_funs, ran)
    BY <2>0, <2>1, SuffixByPlaces DEF ExitInv, RanLast
  <2>2. ASSUME broken = 0 PROVE IsPrefix(ran, exit_funs)
    <3>1. PICK n \in Nat : RanLast(n) /\ Len(ran) = n
      <4>1. CASE pc = "exit_functions"
        BY <2>0, <2>2, <4>1 DEF ExitInv
      <4>2. CASE event_loop /\ pc # "exit_functions"
        BY <2>0, <2>2, <4>2 DEF ExitInv, RanLast
      <4>3. CASE ~event_loop
        BY <2>0, <2>2, <4>3 DEF ExitInv
      <4> QED BY <4>1, <4>2, <4>3
    <3>2. \A k \in 1 .. Len(ran) : ran[k] = exit_funs[k]
      BY <2>0, <3>1 DEF RanLast
    <3> QED BY <2>0, <3>1, <3>2, PrefixByPlaces DEF RanLast
  <2> QED BY <2>1, <2>2 DEF ExitFunctionsRun
<1> QED BY <1>1, Inductive, PTL

-----------------------------------------------------------------------------
(* What StopSignalEnds needs of the code besides fairness.                  *)

\* The process is on its way out, and the steps it has before it.
Ending == pc \in {"exit_functions", "exit", "ended"} \/ (pc = "loop" /\ ~event_loop)
StepsToTheEnd ==
    CASE pc = "exit_functions" -> Len(exit_funs) + 7 - next
      [] pc = "loop"           -> 5
      [] pc = "exit"           -> 5 - next
      [] OTHER                 -> 0

\* Only a Lua error in an exit function turns back.
OneStepNearer ==
    Ending => broken' > broken \/ (Ending' /\ StepsToTheEnd' < StepsToTheEnd)

LEMMA StepsToTheEndAreNat == IInv /\ Ending => StepsToTheEnd \in Nat
<1> SUFFICES ASSUME IInv, Ending PROVE StepsToTheEnd \in Nat
  OBVIOUS
<1>1. next \in Nat \ {0} /\ Len(exit_funs) \in Nat
  BY DEF IInv, TypeOK
<1>2. pc = "exit_functions" => next - 1 <= Len(exit_funs)
  BY DEF IInv, ExitInv, RanLast
<1>3. pc = "exit" => next \in 1 .. 4
  BY DEF IInv, ModulesInv
<1> QED BY <1>1, <1>2, <1>3 DEF StepsToTheEnd

LEMMA EndComesNearer == ASSUME IInv, Next, vars' # vars PROVE OneStepNearer
<1> SUFFICES ASSUME Ending
             PROVE  broken' > broken \/ (Ending' /\ StepsToTheEnd' < StepsToTheEnd)
  BY DEF OneStepNearer
<1>0. /\ next \in Nat \ {0} /\ Len(exit_funs) \in Nat /\ broken \in Nat /\ Len(Modules) = 3
      /\ pc = "exit_functions" => event_loop
      /\ pc = "exit" => next \in 1 .. 4
  BY ModulesAre DEF IInv, TypeOK, ModulesInv, ExitInv
<1>1. CASE RunExitFunction
  BY <1>0, <1>1 DEF RunExitFunction, Ending, StepsToTheEnd
<1>2. CASE ExitFunctionFails
  BY <1>0, <1>2 DEF ExitFunctionFails
<1>3. CASE ExitFunctionsEnd
  <2>1. pc = "exit_functions" /\ pc' = "loop" /\ ~event_loop'
    BY <1>3 DEF ExitFunctionsEnd, LoopBroken
  <2>2. Len(exit_funs) + 7 - next > 5
    <3>1. next - 1 <= Len(exit_funs)
      BY <2>1 DEF IInv, ExitInv, RanLast
    <3> QED BY <1>0, <3>1
  <2> QED BY <2>1, <2>2 DEF Ending, StepsToTheEnd
<1>4. CASE LoopEnds
  <2>1. pc = "loop" /\ pc' = "exit" /\ next' = 1
    BY <1>4 DEF LoopEnds, IInv, ModulesInv
  <2> QED BY <2>1 DEF Ending, StepsToTheEnd
<1>5. CASE ModuleExits
  <2>1. pc = "exit" /\ pc' = "exit" /\ next' = next + 1
    BY <1>5 DEF ModuleExits
  <2> QED BY <1>0, <2>1 DEF Ending, StepsToTheEnd
<1>6. CASE ExitsEnd
  <2>1. pc = "exit" /\ pc' = "ended"
    BY <1>6 DEF ExitsEnd
  <2> QED BY <1>0, <2>1 DEF Ending, StepsToTheEnd
<1>7. ~ (\E s \in StopSignals : Arm(s) \/ StopSignal(s)) /\ ~ (\E t \in Tasks : LoadTask(t))
  BY DEF Ending, Arm, StopSignal, LoadTask
<1>8. ~ (LogInit \/ GetOptions \/ InitLog \/ InitEvent \/ InitLua \/ InitsEnd
         \/ ScriptFails \/ ScriptEnds \/ Ended)
  BY DEF Ending, LogInit, GetOptions, Initialising, InitLog, InitEvent, InitLua, InitsEnd,
         ScriptFails, ScriptEnds, Ended
<1> QED BY <1>1, <1>2, <1>3, <1>4, <1>5, <1>6, <1>7, <1>8 DEF Next, MainNext

\* From the stop signal on there is no way but out: each step of the process is one of
\* the exit functions, of the end of the loop or of the modules' exits, of which there
\* are so many, unless an exit function raises an error.
THEOREM TheEndIsNear == Spec => [](Ending => StepsToTheEnd \in Nat) /\ [][OneStepNearer]_vars
<1>1. IInv => (Ending => StepsToTheEnd \in Nat)
  BY StepsToTheEndAreNat
<1>2. IInv /\ [Next]_vars => [OneStepNearer]_vars
  BY EndComesNearer
<1> QED BY <1>1, <1>2, Inductive, PTL DEF Spec
=============================================================================
