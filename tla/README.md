# nspider in TLA+

nspider is a small network program in C with Lua on top: one thread, one
`select()` loop, timers and signals, and a scheduler that runs every connection
as a coroutine. These modules model its core, TLC checks them on small
instances, and TLAPS proves for every instance what the runs check of the event
back end, the loop, the scheduler, start-up, the calls that make and close
descriptors, `file.read`, `file.write` and the parsers of the filters, but for
liveness; of that it proves the measures that leave only fairness to TLC.

Paths below are those of the repository with `src/` in front, as everywhere in
`PROJECT.json`.

## 1. Inventory

| Component | State it keeps | Operations | Where |
|---|---|---|---|
| Start-up | option flags, module list | parse options, init and exit of every module, call the loop | `src/src/core/nspider.c` |
| Event loop | `event_loop` | `nspr_event_process`, `nspr_event_break` | `src/src/event/nspr_event.c` |
| Select back end | `event_node_fds[]`, `nevents`, `max_fd`, master and work descriptor sets, `index` in each node | add, del, process_events, repair_fd_sets, exit | `src/src/event/modules/nspr_select.c` |
| Timers | `timer_list[]`, `ntimers`, cached time, `timer`, `delta`, `index` in each timer | add, del, find, expire, time_update | `src/src/core/nspr_timer.c` |
| Signals | `signals[]`, `nspr_event_signal`, `nspr_event_signal_signum`, dispositions | handler, add, del, process | `src/src/core/nspr_signal.c` |
| Lua bindings | the Lua state | five callbacks into Lua, event/inet/file/timer/signal functions | `src/src/luapi/luapi.c` |
| Sockets | none of its own, the kernel's descriptors | listen, accept, connect, getifaceinfo, names | `src/src/core/nspr_inet.c` |
| Files | none of its own, descriptors and children | read, write, close, popen, pclose | `src/src/core/nspr_file.c` |
| Memory, log, list | none | one-line wrappers | `src/src/core/nspr_{mem,log,list}.c` |
| Coroutine scheduler | `events`, `eventids`, `address_map`, `exit_funs`, the coroutines | listen, read, write, connect, sleep, signal, popen, close, complete, exit, five hooks | `src/work/schedulers/pipeline.lua` |
| Tasks | the local variables of coroutines | the programs | `src/work/main.lua`, `src/work/tasks/*.lua` |
| Filters, modules | none | parse and build HTTP, URLs, JSON, HTML; read `/proc` | `src/work/filters`, `src/work/modules` |
| Build, prototypes, Lua | - | - | `src/configure`, `src/tests`, `src/lua` |

### How they interact

`main` initialises the modules. The Lua module's init runs `work/main.lua`,
which loads the tasks: user code runs for the first time, before the loop, and
registers nodes, timers and signals. Then `nspr_event_process` turns:

    find_timer -> process_events(select, walk, callbacks) -> expire_timers -> signal_process

Each callback goes through `luapi.c` to a global Lua function, from there to a
hook of `pipeline.lua`, and from there into a coroutine, which runs until it
yields: by then it may have added and deleted nodes, timers and signals and
opened and closed descriptors. So all shared state changes under the feet of
whatever loop made the callback. A Lua error ends the callback only (`pcall`
swallows it).

### What is hard

There is one thread; the concurrency is re-entrance, signals and the kernel.

* **Deletes in the middle of a walk.** Both tables (nodes and timers) are
  arrays with a count; a delete moves the last entry into the hole, also when a
  loop stands in the middle of the array.
* **Stale readiness.** The walk tests the descriptor sets `select()` wrote, and
  callbacks change tables, descriptors and bits in between.
* **Bad descriptors.** A close under a registered node makes `select()` fail
  with EBADF; the repair then drops what `getsockopt` refuses.
* **Cached time.** Timers compare with a time that was read in
  `process_events` or by the last `add_timer`, and time-outs are computed from
  the time waited so far, not the time left.
* **Signals** arrive anywhere; only `select()`'s EINTR raises the flag.
* **Exit** in any callback, in the middle of a turn.
* **Streams.** A message comes in pieces; `file.read` returns what is there, and
  the parsers see any beginning of a message. `file.write` takes what `write()`
  takes and looks no further.
* **Half-made sockets.** A call of `inet.*` is up to five system calls, any of which
  may fail, and peers connect and leave between two of them.

`PROJECT.json` lists these hazards one by one, at their lines, with the
properties about them.

### What makes each component correct

* Select back end: the table and the index fields agree; `max_fd` bounds every
  node; the sets hold exactly the waiters' bits; a walk calls a registration
  once at most and never passes over one for good; a repair ends.
* Timers: the table is whole; no timer early; every overdue timer fires; every
  pending timer stops being pending.
* Signals: an object is called until another for the same number comes or goes; no
  stale dispatch; what interrupts `select()` is heard; none left behind.
* Loop: `event.exit` ends it, wherever in a turn it is called.
* Scheduler: an id belongs to one coroutine, a coroutine is resumed by the event
  it waits for, ids and descriptors come back.
* Start-up: exit runs for what init set up.
* Sockets and files: Lua gets a descriptor that is finished and nobody else's, or
  an error and no trace; a call comes back.
* `file.read`: every byte once and in order, an empty answer at the end only.
* `file.write`: bytes in order, and if some are missing they are the end of a message.
* Filters: a message that was created is parsed to what it was created from, and where
  it is not, what comes back instead.

## 2. Modules

| Module | What it is |
|---|---|
| `SwapTable` | operators for the two "array, count, index field" tables |
| `EventWatch` | abstract specification: what a back end promises |
| `SelectEvents` | `nspr_select.c` with user code in its callbacks |
| `EventLoop` | `nspr_event.c`, `nspr_timer.c`, `nspr_signal.c` |
| `Pipeline` | `pipeline.lua` on the node table and the walk of the back end |
| `Lifecycle` | `nspider.c`, the order of modules, `main.lua`, `foreman.lua` |
| `DescriptorCalls` | abstract specification: what the calls that make and close descriptors promise |
| `Descriptors` | `nspr_inet.c`, `nspr_file.c` and their bindings, system call by system call |
| `FileRead` | a peer at one end of a connection, `file.read` of `luapi.c` at the other |
| `FileWrite` | `file.write` at one end of a connection, the `file.read` of `FileRead` at the other |
| `Filters` | `http.lua` and `url.lua` as operators on sequences of tokens |
| `HttpExchange` | both: messages of `http.create` over a connection, parsed after every read |
| `MCSelectEvents`, `MCEventLoop`, `MCPipeline`, `MCHttpExchange` | model values and symmetry, the messages |
| `MCLoop` | the bound of the run `Loop` on what is registered at a time |
| `SwapTableProofs` | lemmas: what add and delete do to a consistent table |
| `SelectEventsProofs` | inductive invariant and theorems about `SelectEvents`, which implements `EventWatch` |
| `EventLoopProofs` | inductive invariant and theorems about `EventLoop` |
| `PipelineProofs` | inductive invariant and theorems about `Pipeline` |
| `LifecycleProofs` | inductive invariant and theorems about `Lifecycle` |
| `HttpExchangeProofs` | inductive invariant and theorems about `FileRead`; lemmas about sequences and `Filters`, theorems about `HttpExchange` |
| `FileWriteProofs` | inductive invariant and theorems about `FileWrite`, whose reader's end implements `FileRead` |
| `DescriptorsProofs` | inductive invariant and theorems about `Descriptors`, which implements `DescriptorCalls` |

How they compose: `SelectEvents`, `EventLoop` and `Pipeline` extend `SwapTable`;
`SelectEvents` instantiates `EventWatch` and `Descriptors` instantiates
`DescriptorCalls`, each under its refinement mapping; `FileWrite` instantiates
`FileRead` as its reader, and `HttpExchange` extends `FileRead` and `Filters`. The
other seams are assumptions on one side that are checked on the other:

| Module | takes for granted | shown in |
|---|---|---|
| `SelectEvents`, `Exclusive` | callers keep one open descriptor per registered node | `Pipeline!OneWaiterEach` |
| `Pipeline` | `select()`'s sets hold what registered nodes wait for | `SelectEvents!WaitersHaveBits`, `BitsHaveWaiters` |
| `EventLoop` | `process_events` runs user code and comes back | `SelectEvents!RepairsEnd`, the walk in `SelectEvents` |
| `Pipeline` | `file.read` takes all that has come | `FileRead!EveryByteOnce` |
| `Pipeline` | listen, connect, accept, popen and close are one step each; a connect that fails may keep a descriptor (`DialFails`) | `Descriptors!ImplementsCalls` |
| `FileRead`, `HttpExchange` | the peer sends its bytes in order and none is lost | `FileWrite!ImplementsRead`, for a blocking descriptor without signals |
| `Descriptors` | accept is called for a reported listener, a descriptor is given back once | `Pipeline!WakesItsWaiter`, `OneOwnerEach` |
| `Lifecycle` | a stop signal reaches the foreman, or not | `EventLoop!HeardUntilOusted`, `InterruptIsHeard`, and `LoopSignalLost` for their limits |

### SwapTable

The record `[slot, count, index]` is `event_node_fds`, `nevents` and the
`index` fields (or `timer_list`, `ntimers`, `index`). `Link` is the end of
`nspr_select_add` and `nspr_event_add_timer`, `Unlink` the end of the two
deletes, `Fresh` a new object with an index field nobody has set. The entries the
C arrays still hold at and above `count` are read by no code and are left out.

### SelectEvents

| Variable | Code |
|---|---|
| `events` | `event_node_fds[]`, `nevents`, `node->index` |
| `fd`, `event_type` | the fields of the node |
| `master`, `work` | the four `fd_set`s |
| `max_fd` | `max_fd` |
| `kernel` | what each descriptor number is at the moment |
| `pc`, `i`, `phase`, `cur` | where `process_events` or the repair stands, its locals |
| `mark` | history: a node's part in the current walk |

`SelectReturns`, `SelectInterrupted`, `SelectFails` and `SelectBadFd` are the
four ways out of `select()`, each with the loop before it that computes
`max_fd`. `CallNode`, `CallbackReturns`, `SkipNode` and `WalkEnds` are the walk,
cut at the calls into Lua, because user code runs there: `EventNew`, `CloseFd`,
`EventAdd`, `EventAddRefused` and `EventDel` are enabled in every callback and
between walks (start-up, timers, signals). `RepairKeeps`, `RepairDrops`,
`ErrorReturns` and `RepairEnds` are the repair, with its two tests per node.
`select()` may report any subset of what it was asked about, nothing included.

`Exclusive` chooses the callers. TRUE is the discipline of `pipeline.lua`: a node
is added with an open descriptor no other registered node holds and descriptors
are closed only after their node is deleted. FALSE lets user code do everything
the API allows on nodes that exist, except to add a registered node again.

`EventWatch` knows no array, sets or walk: watchers register a pair of descriptor
and type, a poll reports pairs somebody watches, and a watcher runs while it is
registered, for a reported pair, one at a time and once per poll.

### EventLoop

The back end is here a call that blocks (`Tick` lets time pass), ends in one of
four ways and runs user code. Time is kept in differences (`elapsed`, `lag`,
`slept`, `waited`), cut at `Ceiling`, a length beyond every interval: the code
compares differences only, so nothing is lost. `FindTimer`, `SelectTimesOut`,
`SelectReady`, `SelectFails`, `SelectInterrupted`, `EventsEnd`, the walk over the
timers (`CallTimer`, `TimerReturns`, `SkipTimer`, `ExpireEnds`), `NoSignal`,
`CallSignal` and `SignalReturns` follow the body of `nspr_event_process` line by
line. `SignalArrives` is `sighandler` outside `select()`.

`signals[]` has one entry per number: an add replaces who is in it, a delete empties it
and ignores the signal, whoever made it. The history variable `ousted` holds the
objects this has happened to. They still wait (`waits`) and are never called again, until
their own delete, which takes the entry of yet another with it.

### Pipeline

| Variable | Code |
|---|---|
| `table`, `node` | the node table, and `fd`, type and event id of each node |
| `work`, `i`, `phase`, `due` | where the turn of the loop stands |
| `timers`, `signals` | the id in each registered timer; `signals[]` |
| `events`, `eventids` | the tables of `pipeline.lua` |
| `wait`, `current` | what each coroutine is doing; which one runs |
| `shut` | ids whose descriptor their coroutine has closed |
| `open`, `input` | the kernel: open descriptors, those a read would not block on |
| `asked` | history: nodes `select()` was asked about |

Lua coroutines switch at `yield` only, so an action runs from one resumption to
the next yield of the same call: `ReadOrWrite`, `Popen`, `Connect`,
`ConnectByName`, `Sleep` and `Signal` are the calls up to the yield, `ReadDone`,
`WriteOrConnectDone`, `PopenDone`, `ResolveDone`, `SleepDone` and `SignalDone` the
rest of them. `CallNode`, `Accept`, `CallTimer` and `CallSignal` are the five
hooks with the C loops that call them. `Listen` and `Coroutine` are start-up.
`Close`, `Complete` and `Ends` are what a coroutine does without waiting.

The programs are those of `work/tasks`: any number of coroutines that make the
calls in any order on ids of their own, close a descriptor before they complete
its id, use no id they have closed, and do not wait for a signal another waits
for. A coroutine may end anywhere, with a Lua error or without, and leave behind
what it holds. `file.read` is one step that takes all there is (its loop is in
`FileRead`); with nothing to read the process is inside `read()`, where only `Arrives` helps. Descriptor
numbers and ids are used again, the lowest free number as the kernel does, any
free id as `math.random` does.

`WalkEnds` settles which timers the walk over the timers will find expired (`due`).
`EventLoop`, where handlers may do anything, has timers that a handler adds and the
same walk calls; under the scheduler there are none. A timer starts at the cached
clock, which only another add moves on, and a handler resumes a coroutine that sleeps:
its `timer.del` comes before any add of its own and moves the newest timer, the
last of the list, to the place the walk stands at, so that it is passed over.

### Lifecycle

`argv` is folded by `ReadArg` into what `nspr_get_options` makes of it; `Modules` is
the order `configure` writes; the Lua program runs inside the last init
(`Arm`, `LoadTask`, `ScriptEnds`); `StopSignal` to `ExitFunctionsEnd` is the
foreman's coroutine; `ModuleExits` the way out. `MayFail` names what may fail.

### Descriptors, DescriptorCalls

| Variable | Code |
|---|---|
| `sock`, `nonblocking` | the kernel: what each number stands for, which sockets `ioctl(FIONBIO)` was called on |
| `waiting`, `children` | connections that wait at a listener; pipes whose command runs |
| `held` | the numbers Lua was given and has not given back |
| `call` | the C function that runs, the system call it comes to, its local `sock_fd` or `fp` |

`Listen`, `SetSockOptOrBind`, `ListenReturns` and `ListenErr` are
`nspr_create_ipv4_tcp_listen` with its label `err`; `Connect`, `Ioctl` and
`ConnectReturns` are `nspr_create_ipv4_tcp_connect`; `Accept` and `AcceptReturns`,
`GetIfaceInfo`, `IfaceIoctl` and `IfaceFailed`, `Write` and `WriteReturns`, `Close`,
`Popen` and `PopenReturns`, `Pclose` and `PcloseReturns` the other calls. Between any
two steps peers connect, answer a dial or leave, and children exit. Lua makes one
call at a time, in any order, on numbers it holds.

Two ends are the process's own: `fileno(NULL)` after a failed `popen`, and SIGPIPE on
a write to a peer that has left. Both are the state `Killed`. On Linux a connection
that waits at a listener stays until it is accepted, also when its peer has
gone; so an accept after a report does not wait, although the listener is a
blocking one.

`DescriptorCalls` knows no system call: a call gives one number that nobody has,
takes one back, or changes nothing; connect may also leave one behind. The mapping
takes for `mislaid` what is open and known neither to Lua nor to the running call.

### FileWrite

| Variable | Code |
|---|---|
| `stream`, `unsent`, `ends` | what the writer has to say, what it has not yet, where it has cut it into messages |
| `blocking`, `signals` | the descriptor came from accept; the process catches a signal |
| `rest`, `writer` | what the running `write()` has not handed over; where the writer stands |
| `reader`, `socket`, the rest | the other end and what is on its way; the variables of `FileRead` |

`HandsOver` is a blocking `write()`, `Cut` one on a descriptor of connect, which is
non-blocking: it takes what fits and `file.write` drops the rest. `Interrupted` is a
signal in the middle of a blocking one, `WriteFails` a reader that has left. Bytes are
their places in the stream, so that a byte lost, doubled or swapped shows.

### FileRead, Filters, HttpExchange

| Variable | Code |
|---|---|
| `stream`, `unsent`, `socket`, `peer` | what the peer has to say, what it has not sent, what the kernel holds, what the peer did |
| `pc`, `buffer`, `rlen` | the call of `file.read`, its `luaL_Buffer` and local |
| `got`, `lost` | history: what the calls returned, bytes a failed read cut off |

`ReadSome`, `ReadEnd`, `ReadNothing` and `ReadFails` are the four answers of
`read()`: some bytes, 0, EAGAIN (or a blocking `read()` that does not come back)
and -1. Its -1 is added to the size of the buffer and compared as a `size_t`: with
something in the buffer a byte is lost; with nothing in it the size is the
largest there is, the next `luaL_prepbuffsize` raises an error, and the coroutine
ends (`Ended`), which `coroutine.resume` keeps from the rest of the program.

A string is a sequence of tokens: words, and the marks the patterns of the
filters look for. `Fields` and `Parameters` give the matches of the two `gmatch`
patterns, `Filled` the table a loop over them fills, in which a later match
replaces an earlier one of the same name. A token is never cut: no pattern finds
a mark before it is whole.

## 3. Runs

| Run | Instance | What it shows |
|---|---|---|
| `SelectExclusive` | 3 nodes, 3 descriptors, discipline | table, bits and walk are right in every interleaving of callbacks |
| `SelectShared` | 2 nodes, descriptors -1, 0, 1, pipes, no discipline | `max_fd`, no bit without a waiter, no starvation, repairs end, `EventWatch` implemented |
| `Loop` | 2 timers, 2 signal objects, 2 signal numbers, 2 objects registered at a time | timer table, no early timer; who is called for a signal when objects share a number, no stale flag; overdue timers fire, pending ones end, what interrupts `select()` is heard, `event.exit` ends the loop |
| `LoopTimersFire` | 1 timer | violated: a timer is stranded at its interval |
| `LoopSignalLost` | 1 signal | violated: `select()` is entered with a signal undelivered |
| `PipelineSafety` | 2 coroutines, 3 ids, 2 descriptors; every call; listen, look-ups and connect may fail | who resumes whom, nobody is forgotten, ids and descriptors that are used again, what is lost and when |
| `PipelineLive` | 2 coroutines, 3 ids, 3 descriptors; read, sleep | a reader with input is resumed |
| `PipelineBlocks` | 2 coroutines that read | violated: a stale report stops the process in `read()` |
| `Lifecycle` | 2 arguments, 2 tasks, everything may fail | order of init and exit, exit functions, stop signals |
| `HttpExchange` | 78 messages of up to 18 tokens, a first read of 2 | bytes arrive once and in order; what the parsers give back of what was created |
| `Descriptors` | 3 descriptors, 2 waiting connections | nothing half-made reaches Lua, `DescriptorCalls` implemented, calls come back |
| `FileWrite` | 6 bytes, 3 on their way, a first read of 2 | only ends of messages are missing; without signals and on a blocking descriptor nothing is; writes end |

**Bounds.** Three nodes are what the swap needs: one that is deleted, one that
is moved, one that is passed over. With two, a shared descriptor, a stale
`max_fd` and a repair that meets a node twice all occur. Two descriptors give a
larger and a smaller one, for `max_fd`; -1 the refused one. `Capacity` is the
number of nodes, so it cuts nothing in these runs. In
`Loop`, `Intervals` holds 2 and `Ceiling` is one above it, so that "below", "equal" and
"above" all occur while the other timer is pending or late, and the time-outs of a chain
rise. Two signal objects and two numbers let objects share a number, oust each other
and change to the other number, and a second signal overwrites the number of the
first. `MaxRegistered` (2, `WithinBound` of `MCLoop`) is how many timers and signal
objects are registered at a time: two timers, a timer and a signal object, or two signal
objects. The theorems of `EventLoopProofs` have no such bound. A blocked `select()`
returns at most one unit after its time-out, enough to step over equality or to hit it.

In `Pipeline`, `Coroutines`, `Ids` and `Fds` are bounds. When descriptors or
coroutine objects are used up `accept` fails (`AcceptFails`; for descriptors that
is what the code does); when ids are used up `eventid_new` draws for ever
(`EventidSpins`), the state the code would reach with all its numbers taken.
Two coroutines are the waiter and the one that disturbs it; three ids let one be
freed and drawn again while a listener and a second coroutine hold the others.
`PipelineSafety` gives both every call (`Uses`) on two descriptors, so that a number
is soon used again; `PipelineLive` has a third, so that both coroutines read while
the listener takes new connections.

In `Lifecycle`, two arguments show an option that takes the next argument.

In `HttpExchange`, `MaxLength` (18) holds requests with a parameter and a field or a
body. A first read of two tokens gives buffers of 2, 4 and 8, so messages end
within, at and behind each. The values are those the patterns could stumble
over: the mark `: ` in a value, `=` in a parameter, `HTTP/1.1` in a field and in a
body, a blank line in a body, a field `Content-Length` and a parameter `cmd` of the
caller's own.

In `Descriptors`, three numbers are a listener, what it accepts or what is dialled
beside it, and one that is left behind or is popen's second. `FileWrite` has a stream
twice as long as the kernel's buffer, which is larger than the reader's first one: a
message can fit, fill the buffer, or be cut behind its first byte.

**Fairness.** `SelectEvents!Fairness` says that the loop's own code runs on and
that a callback returns, as it does when coroutines yield or end; it says nothing
of the kernel or of user code. `NoStarvation` and `RepairsEnd` state as their
hypothesis what they need of those. `EventLoop!FairSpec` says the same of the
loop, and that time passes; descriptors and signals may never come. `BoundedSpec` of
`MCLoop` has the same fairness, whose steps register nothing.
`Pipeline!FairSpec` lets the loop turn and a resumed call go on when it can;
that the running coroutine yields in the end is the hypothesis of
`ReadersServed`, as is that ids do not run out. `Lifecycle!FairSpec` says that
`main` and the exit functions run on. `Descriptors!FairSpec` and `FileWrite!FairSpec` say
that a call runs on while it can; that children exit, and that the reader reads or
leaves, are the hypotheses of `CallsReturn` and `WritesEnd`. Deadlock is checked in
every run; `Exited`, `Spinning`, `IsKilled` and `Ended` are the states where the process, or in
`FileRead` its coroutine, ends or turns on the spot.

### Findings

* `LoopTimersFire`: `elapsed < interval` is pending (`nspr_timer.c:49`), `>`
  is expired (`nspr_timer.c:32`), and `=` is neither: an otherwise idle process
  then waits without limit.
* `LoopSignalLost`: a signal outside `select()` is noted and not dispatched until
  another one interrupts `select()`.
* `PipelineBlocks`: a coroutine that reads twice while the walk still stands
  before its node's new place is called again on the first report, and
  `file.read` stops the whole process. `OnlyLateNodesBlock` (run `PipelineSafety`)
  says that this is the only way it happens.

`ParsesWhatWasCreated` says that a request of version 1.1 comes back from `http.parse`
exactly as `http.create` was given it (`Given`), with the `Content-Length` that
`http.create` adds. It names four gaps (`Answer` and the exception before it); no document
promises that there are none, so they are not findings:

* the version is always 1.1 (`http.lua:49`): a message of version 1.0 comes back as one
  of 1.1 (`AsVersion11`);
* a status comes back with the space before it (`http.lua:74`, `WithSpace`), so that no
  response comes back as it was given;
* a response without a field is a Lua error (`http.lua:73` compares nil);
* in a message of version 1.0 the text `HTTP/1.1` in a field or the body is taken for its
  version (`http.lua:24`); of such a message, once that text has come, the property
  says nothing.

`LossOnlyByFailure` says what is lost, and when: only a call of listen or connect
that fails loses an id (a connect keeps the one it has drawn, `pipeline.lua:177`), and
only a connect that fails on the C side a descriptor (`nspr_inet.c:79`).
`ImplementsCalls` says the same of the C code alone: every error path but that one
closes what the call has opened.

Nothing asks how a dial has ended: `nspr_get_connect_status` has no caller, and
`pipeline.connect` comes back when the descriptor is writable, which a refused one is
too. In `Descriptors` Lua may hold and write to a `refused` socket; its first write is
lost without a word.

## 4. Theorems

Checked by TLAPS for any values of the constants that satisfy the named
assumptions (`FdsAssumption`, `NodesAssumption`, `CapacityAssumption`,
`KindsAssumption` for `SelectEvents`; `IntervalsAssumption`, `ObjectsAssumption`, `SignumsAssumption` for
`EventLoop`; `FdsAssumption`, `NamesAssumption` for `Pipeline`; none for `Lifecycle`;
`StreamsAssumption`, `SizeAssumption`, `ResetAssumption` for `FileRead`;
`LengthAssumption`, `CapacityAssumption`, `BufferAssumption` for `FileWrite`;
`WellFormedAssumption` for `HttpExchange`; `FdsAssumption`, `MaxWaitingAssumption` for
`Descriptors`). Each theorem about a specification rests on an inductive invariant
`IInv` of its module, which TLC checked on the instance of the module's run before it
was proved.

`WellFormedAssumption` says what a program may give `http.create` and `url.create`. It
is what the patterns of the parsers need, because neither function escapes anything: the
name of a field is of characters that `[%w-]+` matches (`http.lua:40`) and a value holds
no line end; keys and values of parameters hold no separator of a url, no `HTTP/1.x`,
which `http.parse` looks for in the whole message, and a `=` at the end of a value only,
since a key is all up to the last `=`. Nothing is empty, and a length is written in
digits.

| Theorem | States |
|---|---|
| `TypeCorrect` | `Spec => []TypeOK` |
| `TableStaysWhole` | `Spec => []TableConsistent` |
| `MaxFdStaysUp` | `Spec => []MaxFdCovers` |
| `NoBitOutlives` | `Spec => []BitsHaveWaiters` |
| `SetsMatchWaiters` | `Spec => []WaitersHaveBits` |
| `WalkIsFair` | `CalledBehind`, `PassedOverOnlyIfMoved` |
| `PositionsShrink` | `Spec => PositionNeverGrows` |
| `KeepsPromise` | `Spec => ImplementsPromise`: `SelectEvents` implements `EventWatch` |
| `LoopsAreShort` | `StepsLeft`, a number, falls with each step of the walk and the repair |
| `MovesCostAPlace` | a node that a walk passes over has been moved forwards |
| `OneRepairIsEnough` | when user code does nothing from the beginning of a repair, no other follows |
| `LoopTypeCorrect` | `EventLoop`: `Spec => []TypeOK` |
| `TimersStayWhole` | `Spec => []TimersConsistent` |
| `NoTimerEarly` | `Spec => NeverEarly` |
| `HeardWhileAlone` | `Spec => []HeardUntilOusted` |
| `FlagsGoDown` | `Spec => []NoStaleFlag` |
| `TurnsAreShort` | for a finite set of timers, `TurnLeft` falls with each step of a turn until the loop waits again |
| `OverdueKeepsItsTurn` | an overdue timer stays so until it fires, never moves backwards in the list, and moves forwards when a walk passes over it |
| `SleepsDouble` | a sleep that runs its time at least doubles what a pending timer has waited |
| `TypesHold` | `Pipeline`: `Spec => []TypeOK` |
| `RightOneWoken` | `Spec => []WakesItsWaiter` |
| `NoneForgotten` | `Spec => []NobodyForgotten` |
| `WaitersApart` | `Spec => []OneWaiterEach` |
| `DescriptorsOwned` | `Spec => []OneOwnerEach` |
| `AskedNodesReady` | `Spec => []OnlyLateNodesBlock` |
| `OnlyFailuresLose` | `Spec => LossOnlyByFailure` |
| `ModulesFirst` | `Lifecycle`: `Spec => []NothingTooEarly` |
| `ExitsFollowInits` | `Spec => []ExitsMatchInits` |
| `ForemanWaits` | `Spec => []StaysStoppable` |
| `AllExitFunctions` | `Spec => []ExitFunctionsRun` |
| `TheEndIsNear` | `StepsToTheEnd` falls with each step after a stop signal, unless an exit function raises an error |
| `BytesArriveOnce` | `FileRead`: `Spec => []EveryByteOnce` |
| `EmptyAtEnd` | `Spec => EmptyMeansEnd` |
| `WaitsOnlyWhenFull` | `Spec => []WaitsAtBoundary` |
| `ParsesEveryMessage` | `HttpExchange`: `Spec => []ParsesWhatWasCreated` |
| `CutsDoNotMatter` | if the head of a message is parsed as it should be, so is every beginning of the message |
| `EveryHeadParses` | `http.parse` of the head of what `http.create` makes gives `Answer`: its method, url and fields as they were given, the version as 1.1 and the status with a space |
| `UrlReadBack` | `url.parse` of what `url.create` makes gives back the parameters |
| `TailsMissing` | `FileWrite`: `Spec => []OnlyTailsMissing` |
| `PeerIsReliable` | `Spec => ImplementsRead`: the reader's end implements `FileRead` while write() blocks, no signal is caught and the reader is there |
| `EndToEnd` | under the same condition what has arrived and what is to come make up the stream |
| `WritesAdvance` | each step of a write() leaves it less, and only a full kernel keeps it from one |
| `DescriptorTypes` | `Descriptors`: `Spec => []TypeOK` |
| `NothingHalfMade` | `Spec => []HandsOutReady` |
| `CallsImplemented` | `Spec => ImplementsCalls`: `Descriptors` implements `DescriptorCalls` |
| `CallsAreShort` | a call makes five system calls at most, and accept finds a connection |

**SelectEvents.** `TableConsistent` is inductive: `SwapTableProofs` shows that
`Link` and `Unlink` keep it, for a delete at any place. The rest is not inductive
by itself, and `IInv` adds what the code keeps without saying so:

* `TableInv`: types, a consistent table, and where `i` and `cur` may stand;
* `BitsInv`: a set bit has a waiter with that descriptor and kind, `max_fd` is -1
  or an upper bound, every registered node passed `Accepted`, and under the
  discipline two registered nodes hold different descriptors and every one has
  its bit (two waiters on one descriptor would share a bit, and the first delete
  would switch the other off);
* `WalkInv`: a node `called` stands before `i`, or at `i` while its callback runs;
  a node `waiting` before `i` was not hit. A swap moves only the last entry, so it
  can only move a node towards the front: that is what keeps both true.

Each layer is proved with one step per action. `KeepsPromise` needs of it that a
bit has a waiter (a poll reports only what is watched), that `called` stands
behind the walk (nobody runs twice) and that only registered nodes are `called`
(a node added again starts anew).

**EventLoop.** `IInv` is `TimerInv` (types, the table, the local pointer), `TimesInv`
and `FlagsInv`. `TimesInv` is what `NeverEarly` hangs on: for every registered timer,
the elapsed time by the cached clock plus what that clock lags behind is at most
the real time since the add. It holds because `nspr_event_add_timer` reads the
clock first. `FlagsInv` is `HeardUntilOusted`, `NoStaleFlag` and that only waiting objects
are `ousted`. It needs that signal numbers are positive, so that an object that waits
for nothing is in no entry of `signals[]`. `HeardWhileAlone` goes by `AddIsHeard` and
`DelIsHeard`: both touch one entry, and the objects they oust are those that were
added for its number.

**Pipeline.** None of the invariants is inductive by itself: that a hook finds the
right coroutine depends on who owns the id, that on which ids may be freed, that on
what is registered under them. `IInv` says all of it at once:

* `RunInv`, `IdsInv`: only the running coroutine is in code of its own; an id with a
  table is taken, and one that listens has a descriptor;
* `WaitInv`, `NewInv`: a suspended coroutine owns the id of its call, and the node,
  timer or signal the call waits for is registered under it; a connect by name has a
  second id that is taken, has no table, and is nobody else's;
* `LinkInv`: nothing else is registered, but for the nodes of listeners. With
  `WaitInv` this makes registrations and waiting coroutines match one to one, which
  is `WakesItsWaiter` and `NobodyForgotten`;
* `FdsInv`: the descriptors of ids and of popens are open and all different, so the
  lowest free number is nobody's. It gives `OneOwnerEach` and, because a node's
  descriptor is that of its id or pipe, `OneWaiterEach`;
* `ReportInv`: while the walk stands anywhere, a bit of `work` for a node that
  `select()` was asked about is still true for the coroutine that waits there. No
  other coroutine can take the input away, because none has the descriptor.

`OnlyFailuresLose` compares what is known before and after a step: an id is known when
it has a table or is the second id of a connect, a descriptor when an id or a popen has
it. Each action other than a failing listen or connect is shown to forget nothing that
it does not give back.

**Lifecycle.** `ModulesInv` says for every place of `main` which prefix of `Modules` has
been initialised, which has been exited, and what they have set. `ForemanInv` counts:
the foreman's coroutines that wait, those an error has ended, and the one that runs
the exit functions are two together. `ExitInv` says that the last functions that ran
are the first of `exit_funs`, as many as the run has come to (`RanLast`); without an
error they are all that ran.

**FileRead.** `IInv` adds the types and that no read cuts off twice (`FailsOnce`), so that
the bytes of `lost` are at most one. The proof regroups concatenations, for
which `Join` hides `\o` from the provers. `WaitsAtBoundary` needs `SizesInv`: the next
read asks for as much as the call has and the first size more, so that a full one
leaves twice as much and one first size. `AllOnes` says "one less than a power of two"
by the chain down to 0, since the provers know no exponents.

**HttpExchange.** The state matters little here: what has been read is a beginning of
one of `Streams` (by `IInv`), so all is said about sequences. Three things:

* *Cuts do not matter.* The blank line is at the first place there is one and the head
  is what stands before it, so a longer beginning cannot change the answer but for the
  body (`HeadDecides`), and a shorter one has no blank line (`NothingBeforeTheHead`).
  The version is looked for behind the head too: it is settled once the head holds
  it, unless the text `HTTP/1.1` comes later in a message of version 1.0, the exception
  `ParsesWhatWasCreated` makes.
* *The matches are the lines.* A text made of parts that each end with their only
  separator has the stretches between separators where the parts are
  (`StretchesOfLines`), and in each of them the mark stands behind the name
  (`PairAt`). Therefore `Fields` and `Parameters` find the pairs that were written and
  nothing else, whatever order `pairs()` gave.
* *The last match of a name wins.* `Filled` is the table that each name maps to its
  last match, which for a text written from a table is the table.

The parts are put together by `FlattenSeq`, a recursive function of SequencesExt. That
it puts them one behind the other (`Flattened`) goes by the least number for which
it would not, which `LeastExists` takes from the order of the natural numbers in
`WellFoundedInduction`.

**FileWrite.** `WriterInv` says where the stream stands: `rest` and `unsent` are the runs of
bytes that begin after `Handed` and after `Said`. `ArrivedInv` adds to
`OnlyTailsMissing` that, while the reader is there, nothing arrives before it was
handed over and the next byte follows the last one that arrived or begins a
message. A byte run that is appended there keeps beginnings and middles complete
(`RunArrives`), and calls of the reader only move bytes within what has arrived
(`ReadKeepsArrived`). For `PeerIsReliable`, `HandsOver` is `Send` of the peer, `Close` its
`Leave`, a new message a stutter; a short write or an interrupted one contradicts
`Reliable`.

**Descriptors.** That Lua holds no half-made socket is not inductive: a step could
close, or hand out, a descriptor that was somebody else's all the time. `CallInv` says
whose the running call's descriptor is: one that listen, connect and getifaceinfo
have made themselves and Lua does not hold, or one that Lua does hold (accept,
write); `DialsAside` says that a socket that dials is a non-blocking one and
`NothingBare` that what Lua holds is open and finished. With these every step maps to
`Gives`, `TakesBack`, `Mislays` or `ChangesNothing` of `DescriptorCalls`; the only
step that maps to `Mislays` is the failing branch of `ConnectReturns`.

**The safety half of liveness.** TLAPS 1.4.5 has no rule for fairness, but what the
liveness properties need besides fairness are invariants and action properties, and
these are theorems. What they leave to fairness, and so to TLC, is that the program's own
steps do not stop:

* `NoStarvation`: every walk ends (`LoopsAreShort`, from `RoomInv`: neither loop leaves
  the array), a walk calls every reported node but those a delete moved (`WalkIsFair`),
  and such a move brings a node nearer the front (`MovesCostAPlace`) for good
  (`PositionsShrink`).
* `RepairsEnd`: a repair ends (`LoopsAreShort`), and it leaves nothing for another one
  (`OneRepairIsEnough`). Its invariant `RepairInv` says that the bits of all nodes the
  repair has passed are those of sockets; that every bit belongs to some node is
  `BitsHaveWaiters`, so behind the last node no bad bit is left.
* `OverdueFires`: the same for timers (`OverdueKeepsItsTurn`, `TurnsAreShort`). The list
  holds each timer once, so it is no longer than the timers are many (`ListIsShort`,
  by the cardinality of an injection's domain); that there are finitely many is the
  hypothesis of `TurnsAreShort`.
* `ExitEnds` and `InterruptIsHeard`: a turn ends (`TurnsAreShort`); before the loop waits
  again it looks at `event_loop`, and at the end of the turn at the signal.
* `PendingEnds`: `SleepsDouble`, from `SleepInv`: while `select()` blocks the clock has
  moved on by what it has waited, and the time-out is the longest of any pending timer.
* `CallsReturn`: `CallsAreShort`. The only calls that can wait are accept, which finds a
  connection, and pclose, which the hypothesis of `CallsReturn` is about.
* `StopSignalEnds`: `TheEndIsNear`. `WritesEnd`: `WritesAdvance`.

**Only model-checked.** The ten liveness properties themselves (`NoStarvation`,
`RepairsEnd`, `OverdueFires`, `PendingEnds`, `ExitEnds`, `InterruptIsHeard`,
`ReadersServed`, `StopSignalEnds`, `CallsReturn`, `WritesEnd`): that from such a measure and fairness the end is reached is
an induction over steps that this prover has no rule for. For `ReadersServed`, which
goes through all of `Pipeline`, no measure is stated. All other properties of the
passing runs are theorems.

## 5. Not modelled

* Undefined behaviour beyond array bounds (128 nodes, 128 timers, `FD_SETSIZE`),
  a failed `malloc` at start-up (`nspr_event.c:41`), a delete of a node that was never
  added: C gives them no meaning, and no caller in the repository deletes before it
  adds.
* A clock that steps back.
* Adding a registered node a second time.
* A `read()` or `accept()` that a signal interrupts: `signal()` has the C library
  start it again, so nothing shows.
* Garbage collection of node, timer and signal objects. `WakesItsWaiter` says that Lua
  still reaches every registered object, through `events` or on the stack of a
  coroutine `events` reaches; the one at risk is the timer whose handler has run
  (`nspr_timer.c:34`).
* The Lua stack, on which failing hooks leave a message each (`luapi.c:121`):
  `WakesItsWaiter` again says that the hooks do not fail.
* `getpeername`, `getsockname` and `nspr_get_connect_status`, which change no state; the
  last has no caller.
* Programs that share an id or a signal between coroutines, or complete an id
  that still waits.
* Patterns beyond their tokens (the `.` of `HTTP/1.1` matches any character);
  messages no `http.create` makes, and what it makes of fields and parameters that
  `WellFormedAssumption` leaves out.
* The filters `json` (third-party) and `html`, `/proc` readers, build files,
  prototypes, Lua itself. They keep no state of the process.

## 6. Plan

Done: the modules of section 2 and their runs; the proofs of all safety properties of
the passing runs, and the refinements of `EventWatch`, `DescriptorCalls` and `FileRead`.
What could follow:

1. A measure for `ReadersServed`: how far a coroutine whose input has come is from its
   turn, through the walk of `Pipeline` and the hooks of the others before it.
