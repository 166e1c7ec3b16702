------------------------------ MODULE Lifecycle ------------------------------
(***************************************************************************)
(* From the command line to the end of the process: main in nspider.c, the *)
(* modules it initialises and exits in the order that configure writes     *)
(* down, the Lua program that runs inside the last init (work/main.lua,    *)
(* work/tasks/foreman.lua and the tasks it loads), and the two ways out of *)
(* the loop: a SIGINT or SIGQUIT, which runs the exit functions of the     *)
(* tasks before event.exit, or a select() that fails.                      *)
(*                                                                         *)
(* A signal that reaches the foreman is one step here; EventLoop has what  *)
(* may happen to it before.                                                *)
(***************************************************************************)
EXTENDS Integers, SequencesExt

CONSTANTS
    Tasks,    \* the tasks under work/tasks; each inserts an exit function
    MaxArgs,  \* bound: arguments on the command line
    MayFail   \* what may fail: "script", "task", "select", "exit_function"

ASSUME MaxArgsAssumption == MaxArgs \in Nat
ASSUME MayFailAssumption == MayFail \subseteq {"script", "task", "select", "exit_function"}

StopSignals == {2, 3} \* SIGINT, SIGQUIT

\* An argument: the options it holds, and how it goes on after them.  A "word"
\* has no dash, "conf" ends in -c, in "file" a name follows the c, "unknown"
\* has another letter.
Arg == [flags : SUBSET {"h", "v"}, last : {"end", "word", "conf", "file", "unknown"}]
Argvs == UNION {[1 .. n -> Arg] : n \in 0 .. MaxArgs}

LuaBeforeEvent == <<"log", "luapi", "event">> \* mutant: order of the modules
Modules == <<"log", "event", "luapi">>

VARIABLES
    argv,        \* the arguments
    options,     \* what nspr_get_options made of them
    pc,          \* where main, or the Lua program, stands
    next,        \* the loop variable of nspr_modules_init and nspr_modules_exit
    status,      \* what main returns
    log,         \* nspr_log_error is set
    process,     \* nspr_nspider_process is set
    table,       \* event_node_fds is allocated
    lua,         \* L is open
    inited,      \* history: the modules whose init answered NSPR_OK, in order
    exited,      \* history: the modules whose exit ran, in order
    armed,       \* signals a foreman coroutine waits for
    exit_funs,   \* the functions of the tasks, in the order of their insertion
    ran,         \* history: the exit functions that ran, in order
    broken,      \* history: how often a Lua error cut them short
    event_loop

cProgram == <<log, process, table, lua>>
history == <<inited, exited>>
luaProgram == <<armed, exit_funs, ran, broken>>
vars == <<argv, options, pc, next, status, cProgram, history, luaProgram, event_loop>>

NoOptions == [ok |-> TRUE, wants |-> FALSE, file |-> FALSE, help |-> FALSE, version |-> FALSE]

Init ==
    /\ argv \in Argvs
    /\ options = NoOptions
    /\ pc = "log"
    /\ next = 1
    /\ status = 0
    /\ log = FALSE /\ process = FALSE /\ table = FALSE /\ lua = FALSE
    /\ inited = <<>> /\ exited = <<>>
    /\ armed = {}
    /\ exit_funs = <<>> /\ ran = <<>>
    /\ broken = 0
    /\ event_loop = TRUE

-----------------------------------------------------------------------------
(* main, up to the modules                                                 *)

\* nspr_log_init
LogInit ==
    /\ pc = "log"
    /\ log' = TRUE
    /\ pc' = "options"
    /\ UNCHANGED <<argv, options, next, status, process, table, lua, history, luaProgram,
                   event_loop>>

\* One argument of nspr_get_options.  The one after a lonely -c is the file,
\* whatever it looks like.
ReadArg(o, arg) ==
    IF ~o.ok THEN o
    ELSE IF o.wants THEN [o EXCEPT !.wants = FALSE, !.file = TRUE]
    ELSE IF arg.last = "word" THEN [o EXCEPT !.ok = FALSE]
    ELSE [ok |-> arg.last # "unknown",
          wants |-> arg.last = "conf",
          file |-> o.file \/ arg.last = "file",
          help |-> o.help \/ "h" \in arg.flags,
          version |-> o.version \/ "v" \in arg.flags]

\* nspr_get_options, and what main does with the answer.
GetOptions ==
    /\ pc = "options"
    /\ options' = FoldLeft(ReadArg, NoOptions, argv)
    /\ LET run == options'.ok /\ ~options'.wants /\ ~options'.help /\ ~options'.version
       IN  IF run THEN pc' = "init" /\ UNCHANGED status ELSE pc' = "ended" /\ status' = 1
    /\ UNCHANGED <<argv, next, cProgram, history, luaProgram, event_loop>>

-----------------------------------------------------------------------------
(* nspr_modules_init                                                       *)

Initialising(m) == pc = "init" /\ next <= Len(Modules) /\ Modules[next] = m

Initialised(m) ==
    /\ inited' = Append(inited, m)
    /\ next' = next + 1
    /\ pc' = "init"
    /\ UNCHANGED exited

\* nspr_log_init again
InitLog ==
    /\ Initialising("log")
    /\ log' = TRUE
    /\ Initialised("log")
    /\ UNCHANGED <<argv, options, status, process, table, lua, luaProgram, event_loop>>

\* nspr_event_init and nspr_select_init, whose malloc is taken to succeed.
InitEvent ==
    /\ Initialising("event")
    /\ process' = TRUE
    /\ table' = TRUE
    /\ Initialised("event")
    /\ UNCHANGED <<argv, options, status, log, lua, luaProgram, event_loop>>

\* nspr_luapi_init, up to the call of the script.  Without -c the script is
\* what comes on standard input.
InitLua ==
    /\ Initialising("luapi")
    /\ lua' = TRUE
    /\ pc' = IF options.file THEN "script" ELSE "standard_input"
    /\ UNCHANGED <<argv, options, next, status, log, process, table, history, luaProgram,
                   event_loop>>

InitsEnd ==
    /\ pc = "init" /\ next > Len(Modules)
    /\ next' = 1
    /\ pc' = "loop"
    /\ UNCHANGED <<argv, options, status, cProgram, history, luaProgram, event_loop>>

-----------------------------------------------------------------------------
(* The script: work/main.lua, foreman.lua, the tasks                       *)

UserCode == {"script", "standard_input", "exit_functions"}

\* pipeline.coroutine(exit_SIGINT), then the same for SIGQUIT.
Arm(s) ==
    /\ pc = "script"
    /\ s \notin armed
    /\ \A r \in StopSignals : r < s => r \in armed
    /\ armed' = armed \union {s}
    /\ UNCHANGED <<argv, options, pc, next, status, cProgram, history, exit_funs, ran,
                   broken, event_loop>>

\* load_tasks: a task inserts its function and opens what it wants.
LoadTask(t) ==
    /\ pc = "script"
    /\ armed = StopSignals
    /\ t \notin Range(exit_funs)
    /\ exit_funs' = Append(exit_funs, t)
    /\ UNCHANGED <<argv, options, pc, next, status, cProgram, history, armed, ran,
                   broken, event_loop>>

\* luaL_loadfile or lua_pcall answers an error: the init of the last module
\* fails, and main returns without a word to the others.
ScriptFails ==
    /\ \/ pc \in {"script", "standard_input"} /\ armed = {} /\ "script" \in MayFail
       \/ pc = "script" /\ armed = StopSignals /\ Range(exit_funs) # Tasks /\ "task" \in MayFail
    /\ pc' = "ended"
    /\ status' = 1
    /\ UNCHANGED <<argv, options, next, cProgram, history, luaProgram, event_loop>>

\* The script of standard input is taken to wait for nothing.
ScriptEnds ==
    /\ \/ pc = "script" /\ armed = StopSignals /\ Range(exit_funs) = Tasks
       \/ pc = "standard_input"
    /\ Initialised("luapi")
    /\ UNCHANGED <<argv, options, status, cProgram, luaProgram, event_loop>>

-----------------------------------------------------------------------------
(* The loop                                                                *)

SignalTaken(s) == armed \ {s}

BrokenFirst == FALSE \* mutant: event.exit before the exit functions
StillGoing == event_loop

\* signal.del in pipeline.signal, and pipeline.exit begins.
StopSignal(s) ==
    /\ pc = "loop" /\ event_loop
    /\ s \in armed
    /\ armed' = SignalTaken(s)
    /\ event_loop' = StillGoing
    /\ pc' = "exit_functions"
    /\ next' = 1
    /\ UNCHANGED <<argv, options, status, cProgram, history, exit_funs, ran, broken>>

RunExitFunction ==
    /\ pc = "exit_functions"
    /\ next <= Len(exit_funs)
    /\ ran' = Append(ran, exit_funs[next])
    /\ next' = next + 1
    /\ UNCHANGED <<argv, options, pc, status, cProgram, history, armed, exit_funs, broken,
                   event_loop>>

\* A Lua error ends the coroutine, and with it pipeline.exit.
ExitFunctionFails ==
    /\ pc = "exit_functions"
    /\ "exit_function" \in MayFail
    /\ next <= Len(exit_funs)
    /\ broken' = broken + 1
    /\ pc' = "loop"
    /\ next' = 1
    /\ UNCHANGED <<argv, options, status, cProgram, history, armed, exit_funs, ran, event_loop>>

LoopKept == event_loop \* mutant: event.exit forgotten
LoopBroken == FALSE

\* event.exit, and the coroutine ends.
ExitFunctionsEnd ==
    /\ pc = "exit_functions"
    /\ next > Len(exit_funs)
    /\ event_loop' = LoopBroken
    /\ pc' = "loop"
    /\ next' = 1
    /\ UNCHANGED <<argv, options, status, cProgram, history, luaProgram>>

\* while (event_loop), or break after a select() that failed.
LoopEnds ==
    /\ pc = "loop"
    /\ ~event_loop \/ "select" \in MayFail
    /\ pc' = "exit"
    /\ UNCHANGED <<argv, options, next, status, cProgram, history, luaProgram, event_loop>>

-----------------------------------------------------------------------------
(* nspr_modules_exit                                                       *)

SecondModule == 2 \* mutant: off by one
FirstModule == 1

\* nspr_log_exit, nspr_event_exit, nspr_luapi_exit
ModuleExits ==
    /\ pc = "exit"
    /\ next + FirstModule - 1 <= Len(Modules)
    /\ LET m == Modules[next + FirstModule - 1]
       IN  /\ table' = (table /\ m # "event")
           /\ lua' = (lua /\ m # "luapi")
           /\ exited' = Append(exited, m)
    /\ next' = next + 1
    /\ UNCHANGED <<argv, options, pc, status, log, process, inited, luaProgram, event_loop>>

ExitsEnd ==
    /\ pc = "exit"
    /\ next + FirstModule - 1 > Len(Modules)
    /\ pc' = "ended"
    /\ UNCHANGED <<argv, options, next, status, cProgram, history, luaProgram, event_loop>>

Ended == pc = "ended" /\ UNCHANGED vars

-----------------------------------------------------------------------------

MainNext ==
    \/ LogInit \/ GetOptions \/ InitLog \/ InitEvent \/ InitLua \/ InitsEnd
    \/ RunExitFunction \/ ExitFunctionFails \/ ExitFunctionsEnd
    \/ (LoopEnds /\ ~event_loop) \/ ModuleExits \/ ExitsEnd

Next ==
    \/ MainNext
    \/ \E s \in StopSignals : Arm(s) \/ StopSignal(s)
    \/ \E t \in Tasks : LoadTask(t)
    \/ ScriptFails \/ ScriptEnds
    \/ LoopEnds \/ Ended

Spec == Init /\ [][Next]_vars

\* The C code and the exit functions run on.
FairSpec == Spec /\ WF_vars(MainNext)

-----------------------------------------------------------------------------
(* Properties                                                              *)

\* User code finds what its calls go to: the node table of the back end, the
\* error log, an open Lua state; and main calls a loop somebody has set.  All
\* of it hangs on the order configure writes the modules in.
NothingTooEarly ==
    /\ pc \in UserCode \union {"loop"} => table /\ log /\ lua
    /\ pc \in {"options", "ended"} => log
    /\ pc = "loop" => process

\* Whoever leaves by the loop exits every module that was initialised, once and
\* in the same order; a failed init ends the process without any exit.
ExitsMatchInits ==
    pc = "ended" => exited = IF status = 0 THEN inited ELSE <<>>

\* A stop signal is taken by nobody without effect: while the loop goes on, the
\* foreman waits for both, but for those whose exit functions raised an error.
StaysStoppable ==
    pc = "loop" /\ event_loop /\ options.file =>
        Cardinality(armed) + broken = Cardinality(StopSignals)

\* When event.exit is reached every exit function has run, in order, in one go;
\* and none runs twice unless a signal before was cut short.
ExitFunctionsRun ==
    /\ ~event_loop => IsSuffix(exit_funs, ran)
    /\ broken = 0 => IsPrefix(ran, exit_funs)

\* A stop signal ends the process, exit functions permitting.
StopSignalEnds ==
    \A b \in 0 .. Cardinality(StopSignals) :
        pc = "exit_functions" /\ broken = b ~> pc = "ended" \/ broken > b
=============================================================================
