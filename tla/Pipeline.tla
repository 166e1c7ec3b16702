------------------------------ MODULE Pipeline ------------------------------
(***************************************************************************)
(* The coroutine scheduler, src/work/schedulers/pipeline.lua, on top of    *)
(* the event loop.  A coroutine calls read, write, connect, sleep, signal  *)
(* or popen; the call registers a node, a timer or a signal under an id    *)
(* and yields; a hook of the loop looks the id up in the table "events"    *)
(* and resumes the coroutine it finds there, which takes its registration  *)
(* back.  Ids and descriptor numbers are used again.                       *)
(*                                                                         *)
(* The programs are those of work/tasks: any coroutine, in any order,      *)
(* makes calls on ids of its own, closes a descriptor before it completes  *)
(* the id, does not use an id it has closed, and waits for a signal no     *)
(* other waits for.  It may end at any point, with a Lua error or without, *)
(* and leave its ids and descriptors behind.                               *)
(*                                                                         *)
(* Between two yields there is one thread and no callback, so an action    *)
(* runs from the resumption of a call to its end.  The table of nodes and  *)
(* the walk over it are those of nspr_select.c; the sets of descriptors    *)
(* are left to SelectEvents, which shows that they hold what the nodes     *)
(* wait for as long as this module keeps OneWaiterEach.                    *)
(***************************************************************************)
EXTENDS SwapTable, FiniteSets

CONSTANTS
    Coroutines, NoCo, \* coroutine objects, and none of them
    Ids, NoId,        \* the ids eventid_new draws from, and none of them
    Fds,              \* descriptor numbers the process may open; 0 is not one
    Signums,          \* signal numbers
    Uses,             \* the calls the programs make
    MayFail           \* BOOLEAN: listen and connect may fail, names may be unknown

NoFd == -1

ASSUME FdsAssumption == \A f \in Fds : f \in Nat /\ f > 0
ASSUME NamesAssumption == NoCo \notin Coroutines /\ NoId \notin Ids
ASSUME MayFailAssumption == MayFail \in BOOLEAN

\* An id has the node in its table, a coroutine the local node of its popen.
IdNode(id) == <<"id", id>>
PipeNode(c) == <<"pipe", c>>
Nodes == {IdNode(id) : id \in Ids} \union {PipeNode(c) : c \in Coroutines}

VARIABLES
    table,    \* event_node_fds[] and the index field of each node
    node,     \* the fields fd, event_type and eventid of each node
    work,     \* what select() reported: descriptors to read and to write
    i,        \* the loop variable of nspr_select_process_events
    phase,    \* where nspr_event_process stands
    due,      \* the coroutines whose timers this turn finds expired
    timers,   \* the id in the registered timer of each coroutine, or NoId
    signals,  \* the coroutine whose object is in signals[], or NoCo
    events,   \* pipeline.lua's events: id -> the coroutine and descriptor
    eventids, \* the ids whose entry in eventids is true
    wait,     \* what each coroutine is doing
    current,  \* the coroutine that runs, or NoCo
    shut,     \* ids whose descriptor their coroutine has closed
    asked,    \* history: nodes select() was asked about, and not added again since
    open,     \* the process's open descriptors
    input     \* those that a read or an accept would not block on

backEnd == <<table, node, work, i, asked>>
loop == <<phase, due, timers, signals>>
tables == <<events, eventids, shut>>
kernel == <<open, input>>
vars == <<backEnd, loop, tables, kernel, wait, current>>

\* What a coroutine does: nothing any more ("ended"), its own Lua code ("idle"),
\* or a call it yields in; the id and, for connect, the new id of that call.
Doing(op, id, new) == [op |-> op, id |-> id, new |-> new]
Ended == Doing("ended", NoId, NoId)
Idle == Doing("idle", NoId, NoId)
NodeOps == {"read", "write", "connect", "popen", "resolve"}
ReadOps == {"read", "popen", "resolve"}

NoWork == [read |-> {}, write |-> {}]
Registered == Linked(table)
Listening(id) == id \in DOMAIN events /\ events[id].co = NoCo

\* The node a coroutine waits on.
WaitNode(c) ==
    IF wait[c].op \in {"popen", "resolve"} THEN PipeNode(c)
    ELSE IF wait[c].op = "connect" THEN IdNode(wait[c].new) ELSE IdNode(wait[c].id)

\* The fields of a node object that does not exist: not yet, or not any more.
NoFields == [fd |-> NoFd, type |-> "read", id |-> NoId]

Init ==
    /\ table = EmptyTable(Nodes)
    /\ node = [w \in Nodes |-> NoFields]
    /\ work = NoWork
    /\ i = 0
    /\ phase = "start"
    /\ due = {}
    /\ timers = [c \in Coroutines |-> NoId]
    /\ signals = [s \in Signums |-> NoCo]
    /\ events = [id \in {} |-> NoId]
    /\ eventids = {}
    /\ wait = [c \in Coroutines |-> Ended]
    /\ current = NoCo
    /\ shut = {}
    /\ asked = {}
    /\ open = {}
    /\ input = {}

-----------------------------------------------------------------------------
(* Pieces of the calls                                                     *)

\* eventid_new takes an id that is not in use, whichever math.random finds.
AnyId == Ids \* mutant: the entry of eventids is not looked at
FreeIds == Ids \ eventids

\* The kernel gives the lowest number that is free.
Lowest(used) == {f \in Fds \ used : \A g \in Fds \ used : f <= g}

\* coroutine.create: a coroutine object nothing refers to.
NewCoroutine(c) ==
    wait[c].op = "ended" /\ \A id \in DOMAIN events : events[id].co # c

WithId(id, c, f) ==
    [x \in DOMAIN events \union {id} |-> IF x = id THEN [co |-> c, fd |-> f] ELSE events[x]]

\* event.new, event.init and event.add.
AddTo(tb, w, f, type, id) ==
    /\ table' = Link(tb, w)
    /\ node' = [node EXCEPT ![w] = [fd |-> f, type |-> type, id |-> id]]
    /\ asked' = asked \ {w}

\* Nothing refers to the node object any more.
Forget(tb, w) ==
    /\ table' = Fresh(tb, w)
    /\ node' = [node EXCEPT ![w] = NoFields]

\* The callback into Lua returns to whoever made it.
CallbackReturns == i' = IF phase = "walk" THEN i + 1 ELSE i

Yields(c, doing) ==
    /\ wait' = [wait EXCEPT ![c] = doing]
    /\ current' = NoCo
    /\ CallbackReturns

\* The coroutine goes on with its own code.
GoesOn(c) ==
    /\ wait' = [wait EXCEPT ![c] = Idle]
    /\ UNCHANGED <<current, i>>

InLua(c) == current = c /\ wait[c].op = "idle"
OwnIds(c) == {id \in DOMAIN events : events[id].co = c}
Usable(c) == {id \in OwnIds(c) \ shut : events[id].fd # NoFd}

-----------------------------------------------------------------------------
(* Start-up: main.lua loads the tasks                                      *)

StartUp == phase = "start" /\ current = NoCo

\* pipeline.coroutine
Coroutine(c, id) ==
    /\ StartUp
    /\ NewCoroutine(c)
    /\ id \in FreeIds
    /\ eventids' = eventids \union {id}
    /\ events' = WithId(id, c, NoFd)
    /\ wait' = [wait EXCEPT ![c] = Idle]
    /\ current' = c
    /\ UNCHANGED <<backEnd, loop, shut, kernel>>

\* pipeline.listen
Listen(id, f) ==
    /\ StartUp
    /\ id \in FreeIds
    /\ f \in Lowest(open)
    /\ eventids' = eventids \union {id}
    /\ events' = WithId(id, NoCo, f)
    /\ AddTo(Fresh(table, IdNode(id)), IdNode(id), f, "read", id)
    /\ open' = open \union {f}
    /\ UNCHANGED <<work, i, loop, shut, input, wait, current>>

\* The address is unknown, or the socket cannot be had: the id stays taken.
ListenFails(id) ==
    /\ MayFail
    /\ StartUp
    /\ id \in FreeIds
    /\ eventids' = eventids \union {id}
    /\ UNCHANGED <<backEnd, loop, events, shut, kernel, wait, current>>

-----------------------------------------------------------------------------
(* The calls, up to their yield                                            *)

\* pipeline.read and pipeline.write
ReadOrWrite(c, id, type) ==
    /\ InLua(c)
    /\ id \in Usable(c)
    /\ AddTo(table, IdNode(id), events[id].fd, type, id)
    /\ Yields(c, Doing(type, id, NoId))
    /\ UNCHANGED <<work, loop, tables, kernel>>

\* popen, for pipeline.popen ("popen") and for gethostbyname ("resolve").
OpenPipe(c, id, f, doing) ==
    /\ f \in Lowest(open)
    /\ open' = open \union {f}
    /\ AddTo(Fresh(table, PipeNode(c)), PipeNode(c), f, "read", id)
    /\ Yields(c, doing)
    /\ UNCHANGED <<work, loop, input>>

Popen(c, id, f) ==
    /\ InLua(c)
    /\ id \in OwnIds(c)
    /\ OpenPipe(c, id, f, Doing("popen", id, NoId))
    /\ UNCHANGED tables

\* The second half of pipeline.connect: a socket, its table and its node.
Dials(c, id, new, f, used, tb) ==
    /\ f \in Lowest(used)
    /\ open' = used \union {f}
    /\ events' = WithId(new, events[id].co, f)
    /\ table' = Link(Fresh(Fresh(tb, PipeNode(c)), IdNode(new)), IdNode(new))
    /\ node' = [node EXCEPT ![PipeNode(c)] = NoFields,
                            ![IdNode(new)] = [fd |-> f, type |-> "write", id |-> new]]
    /\ asked' = asked \ {IdNode(new)}
    /\ Yields(c, Doing("connect", id, new))

\* Or connect returns nil: no address, no socket, or a socket that cannot
\* connect and that nspr_create_ipv4_tcp_connect leaves open.
DialFails(c, used) ==
    /\ MayFail
    /\ \/ open' = used
       \/ \E f \in Lowest(used) : open' = used \union {f}
    /\ GoesOn(c)

\* pipeline.connect with an address that needs no look-up.
Connect(c, id, new) ==
    /\ InLua(c)
    /\ id \in OwnIds(c)
    /\ new \in FreeIds
    /\ eventids' = eventids \union {new}
    /\ \/ \E f \in Fds : Dials(c, id, new, f, open, table)
       \/ DialFails(c, open) /\ UNCHANGED <<events, table, node, asked>>
    /\ UNCHANGED <<work, loop, shut, input>>

\* pipeline.connect with a name: ping runs first.
ConnectByName(c, id, new, f) ==
    /\ InLua(c)
    /\ id \in OwnIds(c)
    /\ new \in FreeIds
    /\ eventids' = eventids \union {new}
    /\ OpenPipe(c, id, f, Doing("resolve", id, new))
    /\ UNCHANGED <<events, shut>>

\* pipeline.sleep
Sleep(c, id) ==
    /\ InLua(c)
    /\ id \in OwnIds(c)
    /\ timers' = [timers EXCEPT ![c] = id]
    /\ Yields(c, Doing("sleep", id, NoId))
    /\ UNCHANGED <<table, node, work, asked, phase, due, signals, tables, kernel>>

\* pipeline.signal
Signal(c, id, s) ==
    /\ InLua(c)
    /\ id \in OwnIds(c)
    /\ signals[s] = NoCo
    /\ signals' = [signals EXCEPT ![s] = c]
    /\ Yields(c, Doing("signal", id, NoId))
    /\ UNCHANGED <<table, node, work, asked, phase, due, timers, tables, kernel>>

-----------------------------------------------------------------------------
(* Calls that do not yield                                                 *)

\* pipeline.close
Close(c, id) ==
    /\ InLua(c)
    /\ id \in Usable(c)
    /\ open' = open \ {events[id].fd}
    /\ input' = input \ {events[id].fd}
    /\ shut' = shut \union {id}
    /\ UNCHANGED <<backEnd, loop, events, eventids, wait, current>>

NotFreed(id) == eventids \* mutant: complete forgets eventid_free
Freed(id) == eventids \ {id}

\* pipeline.complete
Complete(c, id) ==
    /\ InLua(c)
    /\ id \in OwnIds(c) \ Usable(c)
    /\ events' = [x \in DOMAIN events \ {id} |-> events[x]]
    /\ eventids' = Freed(id)
    /\ shut' = shut \ {id}
    /\ Forget(table, IdNode(id))
    /\ UNCHANGED <<work, asked, i, loop, kernel, wait, current>>

\* The function returns or raises an error, which coroutine.resume keeps to itself.
Ends(c) ==
    /\ InLua(c)
    /\ Yields(c, Ended)
    /\ UNCHANGED <<table, node, work, asked, loop, tables, kernel>>

-----------------------------------------------------------------------------
(* The calls, once they are resumed                                        *)

Resumed(c, ops) == current = c /\ wait[c].op \in ops

NotTakenBack(c) == table \* mutant: event.del forgotten
TakenBack(c) == Unlink(table, WaitNode(c))

WaitFd(c) == node[WaitNode(c)].fd

\* event.del, then file.read up to the first short read.  The descriptors are
\* blocking ones (accept, popen), or file.read tries again on EAGAIN (connect):
\* with nothing to read the process stops here, and no other action but Arrives
\* is possible.
ReadDone(c) ==
    /\ Resumed(c, {"read"})
    /\ WaitFd(c) \in input
    /\ table' = TakenBack(c)
    /\ input' = input \ {WaitFd(c)}
    /\ GoesOn(c)
    /\ UNCHANGED <<node, work, asked, loop, tables, open>>

\* event.del, file.write (a short write is not noticed); or the end of connect.
WriteOrConnectDone(c) ==
    /\ Resumed(c, {"write", "connect"})
    /\ table' = TakenBack(c)
    /\ GoesOn(c)
    /\ UNCHANGED <<node, work, asked, loop, tables, kernel>>

\* event.del, file.read, file.pclose
PopenDone(c) ==
    /\ Resumed(c, {"popen"})
    /\ WaitFd(c) \in input
    /\ Forget(TakenBack(c), WaitNode(c))
    /\ open' = open \ {WaitFd(c)}
    /\ input' = input \ {WaitFd(c)}
    /\ GoesOn(c)
    /\ UNCHANGED <<work, asked, loop, tables>>

\* The same for ping, and the second half of connect.
ResolveDone(c) ==
    /\ Resumed(c, {"resolve"})
    /\ WaitFd(c) \in input
    /\ input' = input \ {WaitFd(c)}
    /\ LET used == open \ {WaitFd(c)}
       IN  \/ \E f \in Fds : Dials(c, wait[c].id, wait[c].new, f, used, TakenBack(c))
           \/ /\ DialFails(c, used)
              /\ Forget(TakenBack(c), PipeNode(c))
              /\ UNCHANGED <<events, asked>>
    /\ UNCHANGED <<work, loop, eventids, shut>>

TimerKept(c) == timers \* mutant: timer.del forgotten
TimerGone(c) == [timers EXCEPT ![c] = NoId]

SleepDone(c) ==
    /\ Resumed(c, {"sleep"})
    /\ timers' = TimerGone(c)
    /\ GoesOn(c)
    /\ UNCHANGED <<table, node, work, asked, phase, due, signals, tables, kernel>>

SignalDone(c) ==
    /\ Resumed(c, {"signal"})
    /\ signals' = [s \in Signums |-> IF signals[s] = c THEN NoCo ELSE signals[s]]
    /\ GoesOn(c)
    /\ UNCHANGED <<table, node, work, asked, phase, due, timers, tables, kernel>>

-----------------------------------------------------------------------------
(* The loop and the hooks                                                  *)

\* What select() reports: whatever can be read, and any of what may be written.
Turn ==
    /\ current = NoCo
    /\ phase \in {"start", "signals", "done"}
    /\ LET Fd(type) == {node[w].fd : w \in {x \in Registered : node[x].type = type}}
       IN  \E writable \in SUBSET Fd("write") :
             work' = [read |-> Fd("read") \intersect input, write |-> writable]
    /\ i' = 0
    /\ phase' = "walk"
    /\ asked' = Registered
    /\ UNCHANGED <<table, node, due, timers, signals, tables, kernel, wait, current>>

LastLeftOut == table.count - 1 \* mutant: off by one
WalkBound == table.count

Walking == phase = "walk" /\ current = NoCo /\ i < WalkBound
At == table.slot[i]
Hit == node[At].fd \in work[node[At].type]

\* coroutine.resume(events[id].co): an error when the id has no table or its
\* table no coroutine, and no effect on a coroutine that has ended.
Resumes(id) ==
    IF id \in DOMAIN events /\ ~Listening(id) /\ wait[events[id].co] # Ended
    THEN current' = events[id].co /\ UNCHANGED i
    ELSE UNCHANGED current /\ CallbackReturns

\* pipeline.oread and pipeline.owrite, but for listeners.
CallNode ==
    /\ Walking /\ Hit
    /\ ~Listening(node[At].id)
    /\ Resumes(node[At].id)
    /\ UNCHANGED <<table, node, work, asked, loop, tables, kernel, wait>>

SkipNode ==
    /\ Walking /\ ~Hit
    /\ i' = i + 1
    /\ UNCHANGED <<table, node, work, asked, loop, tables, kernel, wait, current>>

\* Mutant: the new table gets the listener's descriptor.
ListenerFd(f) == node[At].fd
AcceptedFd(f) == f

\* pipeline.oread of a listener: the new coroutine runs at once.
Accept(c, id, f) ==
    /\ Walking /\ Hit
    /\ Listening(node[At].id)
    /\ node[At].fd \in input
    /\ f \in Lowest(open)
    /\ NewCoroutine(c)
    /\ id \in FreeIds
    /\ open' = open \union {f}
    /\ input' = input \ {node[At].fd}
    /\ eventids' = eventids \union {id}
    /\ table' = Fresh(table, IdNode(id))
    /\ node' = [node EXCEPT ![IdNode(id)] = [fd |-> AcceptedFd(f), type |-> "read", id |-> id]]
    /\ events' = WithId(id, c, AcceptedFd(f))
    /\ wait' = [wait EXCEPT ![c] = Idle]
    /\ current' = c
    /\ UNCHANGED <<work, asked, i, loop, shut>>

\* accept answers -1 when no descriptor is left; the peer waits on.  Bound: the
\* same when every one of Coroutines is in use.
CannotAccept == Fds \subseteq open \/ \A c \in Coroutines : ~NewCoroutine(c)
AcceptFails ==
    /\ Walking /\ Hit
    /\ Listening(node[At].id)
    /\ node[At].fd \in input
    /\ CannotAccept
    /\ i' = i + 1
    /\ UNCHANGED <<table, node, work, asked, loop, tables, kernel, wait, current>>

\* if (delta) nspr_event_expire_timers(): any of the timers may have run out.  None
\* that pipeline.sleep adds in a handler does in this walk: the clock it starts at
\* moves on with another such add only, and before that add the handler's timer.del
\* has moved the newest timer, the last of the list, to where the walk has been.
WalkEnds ==
    /\ phase = "walk" /\ current = NoCo /\ i >= WalkBound
    /\ phase' = "timers"
    /\ work' = NoWork
    /\ asked' = {}
    /\ i' = 0
    /\ due' \in SUBSET {c \in Coroutines : timers[c] # NoId}
    /\ UNCHANGED <<table, node, timers, signals, tables, kernel, wait, current>>

\* pipeline.otimer
CallTimer(c) ==
    /\ phase = "timers" /\ current = NoCo
    /\ c \in due
    /\ due' = due \ {c}
    /\ Resumes(timers[c])
    /\ UNCHANGED <<table, node, work, asked, phase, timers, signals, tables, kernel, wait>>

TimersEnd ==
    /\ phase = "timers" /\ current = NoCo
    /\ due = {}
    /\ phase' = "signals"
    /\ UNCHANGED <<backEnd, due, timers, signals, tables, kernel, wait, current>>

\* pipeline.osignal, for one signal a turn at most.
CallSignal(s) ==
    /\ phase = "signals" /\ current = NoCo
    /\ signals[s] # NoCo
    /\ phase' = "done"
    /\ Resumes(wait[signals[s]].id)
    /\ UNCHANGED <<table, node, work, asked, due, timers, signals, tables, kernel, wait>>

\* eventid_new draws for ever when every id is taken.
Draws ==
    \/ StartUp
    \/ \E c \in Coroutines : InLua(c) /\ OwnIds(c) # {}
    \/ Walking /\ Hit /\ Listening(node[At].id) /\ ~CannotAccept
EventidSpins ==
    /\ FreeIds = {}
    /\ Draws
    /\ phase' = "spinning"
    /\ UNCHANGED <<backEnd, due, timers, signals, tables, kernel, wait, current>>
Spinning == phase = "spinning" /\ UNCHANGED vars

\* Data, the end of a stream or a connection to accept.
Arrives(f) ==
    /\ f \in open \ input
    /\ input' = input \union {f}
    /\ UNCHANGED <<backEnd, loop, tables, open, wait, current>>

-----------------------------------------------------------------------------

CallNext(c) ==
    \/ \E id \in OwnIds(c) :
         \/ \E type \in {"read", "write"} \intersect Uses : ReadOrWrite(c, id, type)
         \/ "popen" \in Uses /\ \E f \in Fds : Popen(c, id, f)
         \/ "connect" \in Uses /\ \E new \in FreeIds : Connect(c, id, new)
         \/ "resolve" \in Uses /\ \E new \in FreeIds, f \in Fds : ConnectByName(c, id, new, f)
         \/ "sleep" \in Uses /\ Sleep(c, id)
         \/ "signal" \in Uses /\ \E s \in Signums : Signal(c, id, s)
         \/ Close(c, id) \/ Complete(c, id)
    \/ Ends(c)

ResumedNext(c) ==
    \/ ReadDone(c) \/ WriteOrConnectDone(c) \/ PopenDone(c) \/ ResolveDone(c)
    \/ SleepDone(c) \/ SignalDone(c)

StartNext ==
    \E id \in FreeIds :
        \/ \E c \in Coroutines : Coroutine(c, id)
        \/ \E f \in Fds : Listen(id, f)
        \/ ListenFails(id)

LoopNext ==
    \/ Turn \/ CallNode \/ SkipNode \/ AcceptFails \/ WalkEnds \/ TimersEnd
    \/ \E c \in Coroutines, id \in FreeIds, f \in Fds : Accept(c, id, f)
    \/ \E c \in Coroutines : CallTimer(c)
    \/ \E s \in Signums : CallSignal(s)

Next ==
    \/ StartNext \/ LoopNext
    \/ \E c \in Coroutines : CallNext(c) \/ ResumedNext(c)
    \/ EventidSpins \/ Spinning
    \/ \E f \in Fds : Arrives(f)

Spec == Init /\ [][Next]_vars

\* The loop turns, and a resumed call that can go on does.  Whether a coroutine
\* ever yields again, and whether anything arrives, is left open.
FairSpec ==
    /\ Spec
    /\ WF_vars(LoopNext)
    /\ WF_vars(\E c \in Coroutines : ResumedNext(c))

-----------------------------------------------------------------------------
(* Properties                                                              *)

\* A hook finds, under the id it is given, the coroutine that waits for exactly
\* this node, timer or signal: ids that are freed and drawn again, and the two
\* ids of a coroutine that connects, never wake the wrong one, or one that waits
\* for something else.
WakesItsWaiter ==
    /\ \A w \in Registered : ~Listening(node[w].id) =>
         /\ node[w].id \in DOMAIN events
         /\ LET c == events[node[w].id].co
            IN  wait[c].op \in NodeOps /\ WaitNode(c) = w
    /\ \A c \in Coroutines : timers[c] # NoId =>
         wait[c].op = "sleep" /\ timers[c] \in OwnIds(c)
    /\ \A s \in Signums : signals[s] # NoCo =>
         wait[signals[s]].op = "signal" /\ wait[signals[s]].id \in OwnIds(signals[s])

\* Nobody waits for an event that is not registered any more: no other call
\* takes the registration of a suspended coroutine away.
NobodyForgotten ==
    \A c \in Coroutines :
        /\ wait[c].op \in NodeOps => WaitNode(c) \in Registered
        /\ wait[c].op = "sleep" => timers[c] # NoId
        /\ wait[c].op = "signal" => \E s \in Signums : signals[s] = c

\* What SelectEvents takes for granted of its callers (Exclusive there): every
\* registered node holds an open descriptor, and no two hold the same one.
OneWaiterEach ==
    \A w \in Registered :
        /\ node[w].fd \in open
        /\ \A m \in Registered \ {w} : node[m].fd # node[w].fd

Owned == {id \in DOMAIN events \ shut : events[id].fd # NoFd}
Pipes == {c \in Coroutines : wait[c].op \in {"popen", "resolve"}}

\* Ids share no descriptor, with each other or with a popen, although numbers
\* are used again: a coroutine cannot read from, or close, what is another's, and
\* what it holds is neither free to be drawn nor free to be opened.
OneOwnerEach ==
    /\ DOMAIN events \subseteq eventids
    /\ \A a \in Owned : events[a].fd \in open
    /\ \A a \in Owned : \A b \in Owned \ {a} : events[a].fd # events[b].fd
    /\ \A c \in Pipes : \A a \in Owned : WaitFd(c) # events[a].fd

\* Ids that are taken without a table, or a connect under way that will give
\* them one, and open descriptors that no id and no popen knows of.
LostIds ==
    eventids \ (DOMAIN events \union
                {wait[c].new : c \in {d \in Coroutines : wait[d].op = "resolve"}})
LostFds == open \ ({events[id].fd : id \in Owned} \union {WaitFd(c) : c \in Pipes})

TakesAnId == ~ (eventids' \subseteq eventids)
ListenFailed == StartUp /\ TakesAnId /\ events' = events
ConnectFailed(c) == current = c /\ current' = c /\ (TakesAnId \/ wait[c].op = "resolve")

\* Ids and descriptors come back through complete and close, and from every call
\* that is cut short, whatever else goes on: only a listen or a connect that
\* fails loses its id, and connect its descriptor.
LossOnlyByFailure ==
    [][\/ LostIds' \subseteq LostIds /\ LostFds' \subseteq LostFds
       \/ ListenFailed
       \/ \E c \in Coroutines : ConnectFailed(c)]_vars

\* The process does not stop in read(): a coroutine is resumed from a read when
\* there is something to read.
NeverBlocks ==
    \A c \in Coroutines : Resumed(c, ReadOps) => WaitFd(c) \in input

\* Only a node that was added during the walk, after select() returned, can do
\* that: what select() said of the others stays true until they are called,
\* whatever the coroutines called before them read, close, open and accept.
OnlyLateNodesBlock ==
    \A c \in Coroutines :
        Resumed(c, ReadOps) /\ WaitNode(c) \in asked => WaitFd(c) \in input

\* As long as the running coroutine always yields in the end, one that waits to
\* read and whose descriptor has input is resumed, whatever the others do.
ReadersServed ==
    \A c \in Coroutines :
        []<>(current = NoCo) /\ [](phase # "spinning") =>
            [](wait[c].op \in ReadOps /\ WaitFd(c) \in input => <>(current = c))
=============================================================================
