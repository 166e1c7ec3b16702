---------------------------- MODULE SelectEvents ----------------------------
(***************************************************************************)
(* The event back end, src/event/modules/nspr_select.c: nodes that wait    *)
(* for a descriptor to become readable or writable, the descriptor sets    *)
(* handed to select(), and the walk over the node table that runs the      *)
(* callbacks.                                                              *)
(*                                                                         *)
(* The process has one thread.  What makes it hard is re-entrance: every   *)
(* callback runs user code (through luapi.c) that may add and delete       *)
(* nodes, close descriptors and open new ones with the same numbers while  *)
(* the walk stands at position i.  User code runs when pc is "user"        *)
(* (outside process_events: start-up, timers, signals), "callback" (in a   *)
(* read or write callback), "error" (in the error callback of a repair)    *)
(* or "leaving" (timers and signals after the last process_events).        *)
(***************************************************************************)
EXTENDS SwapTable

CONSTANTS
    Nodes,      \* event nodes (nspr_event_node_fd_t objects)
    NoNode,     \* a null node pointer
    Fds,        \* descriptor numbers; -1 may be one of them
    FdKinds,    \* what opening a descriptor may give: "socket", "pipe"
    AddTypes,   \* the event types user code passes to event.add
    Capacity,   \* bound: nodes registered at the same time
    Exclusive   \* BOOLEAN: see MayAdd and MayClose

Kinds == {"read", "write"}

ASSUME FdsAssumption == \A f \in Fds : f \in Int /\ f >= -1
ASSUME NodesAssumption == NoNode \notin Nodes
ASSUME CapacityAssumption == Capacity \in Nat
ASSUME KindsAssumption ==
    /\ FdKinds \subseteq {"socket", "pipe"}
    /\ AddTypes \subseteq Kinds \union {"error"}
    /\ Exclusive \in BOOLEAN

VARIABLES
    events,     \* event_node_fds[], nevents and the index field of each node
    fd,         \* node->fd
    event_type, \* node->event_type
    master,     \* master_read_fd_set and master_write_fd_set
    work,       \* work_read_fd_set and work_write_fd_set, while a walk reads them
    max_fd,     \* -1: to be computed again
    kernel,     \* what each descriptor number is: "closed", "socket" or "pipe"
    pc,
    i,          \* the loop variable of process_events and of the repair
    phase,      \* which of the two tests of a repair step comes next
    cur,        \* the local node_fd, while a callback runs on it
    mark        \* history: each node's part in this walk (see Marks)

vars == <<events, fd, event_type, master, work, max_fd, kernel, pc, i, phase,
          cur, mark>>

\* The variables of process_events itself.
walk == <<work, pc, i, phase, cur>>

\* "waiting": registered when select() returned and not moved since;
\* "moved": registered then, but put in the place of a deleted node since;
\* "called": its callback was made; "new": registered since, or not at all.
Marks == {"new", "waiting", "moved", "called"}

NoBits == [kind \in Kinds |-> {}]
Descriptors == {f \in Fds : f >= 0}
Waiters == Linked(events)
IsOpen(f) == f \in Descriptors /\ kernel[f] # "closed"

Init ==
    /\ events = EmptyTable(Nodes)
    /\ fd \in [Nodes -> {-1}]
    /\ event_type = [n \in Nodes |-> "read"]
    /\ master = NoBits
    /\ work = NoBits
    /\ max_fd = -1
    /\ kernel = [f \in Descriptors |-> "closed"]
    /\ pc = "user"
    /\ i = 0
    /\ phase = "read"
    /\ cur = NoNode
    /\ mark = [n \in Nodes |-> "new"]

-----------------------------------------------------------------------------
(* What user code may do.                                                  *)

UserRuns == pc \in {"user", "callback", "error", "leaving"}

\* The discipline of pipeline.lua, when Exclusive is TRUE: a node is added
\* when it holds an open descriptor that no other registered node holds, and
\* a descriptor is closed when no registered node holds it.  Otherwise a
\* descriptor may be closed under a node that waits for it, as pipeline.close
\* does when the coroutine that calls it is not the one that waits.
MayAdd(n) ==
    Exclusive => IsOpen(fd[n]) /\ \A m \in Waiters : fd[m] # fd[n]
MayCloseFirst(f) == f \in Descriptors \* mutant: closed before its node is deleted
MayClose(f) ==
    Exclusive => \A m \in Waiters : fd[m] # f

\* A descriptor comes from accept, connect, listen or popen, and event.new and
\* event.init put it in a new node.  -1 is the failure of those calls.  The
\* event type event.init stores is left out: event.add stores its own before
\* anything reads it.
EventNew(n, f) ==
    /\ UserRuns
    /\ n \notin Waiters
    /\ IF f \in Descriptors
       THEN /\ kernel[f] = "closed"
            /\ \E k \in FdKinds : kernel' = [kernel EXCEPT ![f] = k]
       ELSE UNCHANGED kernel
    /\ fd' = [fd EXCEPT ![n] = f]
    /\ events' = Fresh(events, n)
    /\ UNCHANGED <<event_type, master, max_fd, walk, mark>>

CloseFd(f) ==
    /\ UserRuns
    /\ kernel[f] # "closed"
    /\ MayClose(f)
    /\ kernel' = [kernel EXCEPT ![f] = "closed"]
    /\ UNCHANGED <<events, fd, event_type, master, max_fd, walk, mark>>

\* The checks of nspr_select_add.
AnyFdAccepted(n, type) == type \in Kinds \* mutant: the descriptor is not checked
Accepted(n, type) == fd[n] >= 0 /\ type \in Kinds

\* A valid max_fd is raised to the new descriptor.
RaisedNever(f) == max_fd \* mutant
Raised(f) == IF max_fd # -1 /\ max_fd < f THEN f ELSE max_fd

\* nspr_select_add on a node that waits for a valid descriptor.
EventAdd(n, type) ==
    /\ UserRuns
    /\ n \notin Waiters
    /\ MayAdd(n)
    /\ Accepted(n, type)
    /\ events.count < Capacity
    /\ event_type' = [event_type EXCEPT ![n] = type]
    /\ master' = [master EXCEPT ![type] = @ \union {fd[n]}]
    /\ max_fd' = Raised(fd[n])
    /\ events' = Link(events, n)
    /\ UNCHANGED <<fd, kernel, walk, mark>>

\* nspr_select_add answers NSPR_EBADF or NSPR_EUNDEF; luapi.c drops the answer.
EventAddRefused(n, type) ==
    /\ UserRuns
    /\ n \notin Waiters
    /\ ~Accepted(n, type)
    /\ event_type' = [event_type EXCEPT ![n] = type]
    /\ UNCHANGED <<events, fd, master, max_fd, kernel, walk, mark>>

\* The sets without the deleted node's bit.
OnlyReadCleared(n) == [master EXCEPT !["read"] = @ \ {fd[n]}] \* mutant
BitCleared(n) == [master EXCEPT ![event_type[n]] = @ \ {fd[n]}]

\* nspr_select_del.  A node that was never added has no index to read.
EventDel(n) ==
    /\ UserRuns
    /\ n \in Waiters
    /\ master' = BitCleared(n)
    /\ max_fd' = IF max_fd = fd[n] THEN -1 ELSE max_fd
    /\ events' = Unlink(events, n)
    /\ mark' = [m \in Nodes |->
                  IF m = n THEN "new"
                  ELSE IF m = LastItem(events) /\ mark[m] = "waiting"
                       THEN "moved" ELSE mark[m]]
    /\ UNCHANGED <<fd, event_type, kernel, walk>>

UserNext ==
    \/ \E n \in Nodes, f \in Fds : EventNew(n, f)
    \/ \E f \in Descriptors : CloseFd(f)
    \/ \E n \in Nodes, type \in AddTypes : EventAdd(n, type) \/ EventAddRefused(n, type)
    \/ \E n \in Nodes : EventDel(n)

-----------------------------------------------------------------------------
(* nspr_select_process_events                                              *)

\* The value of max_fd once its loop has run.
IsMaxFd(m) ==
    IF max_fd # -1 THEN m = max_fd
    ELSE /\ m \in {-1} \union {fd[n] : n \in Waiters}
         /\ \A n \in Waiters : fd[n] <= m

\* select(max_fd + 1, ...) looks at the descriptors up to max_fd.
Examined(m, kind) == {f \in master[kind] : f <= m}
SetsAreBad(m) == \E kind \in Kinds : \E f \in Examined(m, kind) : ~IsOpen(f)

\* The loop over the table: where it starts and where it goes next.
SecondEntry == 1      \* mutant: off by one
FirstEntry == 0
EntryAfterNext == i + 2 \* mutant: i++ twice
NextEntry == i + 1

\* select() reports any part of what it was asked about, nothing when the
\* timer ran out.
SelectReturns ==
    /\ pc = "user"
    /\ \E m \in Fds \union {-1} :
         /\ IsMaxFd(m)
         /\ ~SetsAreBad(m)
         /\ max_fd' = m
         /\ \E r \in SUBSET Examined(m, "read"), w \in SUBSET Examined(m, "write") :
              work' = [kind \in Kinds |-> IF kind = "read" THEN r ELSE w]
    /\ pc' = "dispatch"
    /\ i' = FirstEntry
    /\ mark' = [n \in Nodes |-> IF n \in Waiters THEN "waiting" ELSE "new"]
    /\ UNCHANGED <<events, fd, event_type, master, kernel, phase, cur>>

\* EINTR: back to nspr_event_process, which runs the signal's handler.
SelectInterrupted ==
    /\ pc = "user"
    /\ \E m \in Fds \union {-1} : IsMaxFd(m) /\ ~SetsAreBad(m) /\ max_fd' = m
    /\ UNCHANGED <<events, fd, event_type, master, kernel, walk, mark>>

\* Any other error (ENOMEM, EINVAL): NSPR_ERROR ends nspr_event_process, after
\* it has run timers and signals once more.
SelectFails ==
    /\ pc = "user"
    /\ \E m \in Fds \union {-1} : IsMaxFd(m) /\ ~SetsAreBad(m) /\ max_fd' = m
    /\ pc' = "leaving"
    /\ UNCHANGED <<events, fd, event_type, master, kernel, work, i, phase, cur, mark>>

\* EBADF: select() was asked about a descriptor that is closed.
SelectBadFd ==
    /\ pc = "user"
    /\ \E m \in Fds \union {-1} : IsMaxFd(m) /\ SetsAreBad(m) /\ max_fd' = m
    /\ pc' = "repair"
    /\ i' = 0
    /\ phase' = "read"
    /\ UNCHANGED <<events, fd, event_type, master, kernel, work, cur, mark>>

\* Mutant: the node's type is not looked at.
HitInAnySet(n) == \E kind \in Kinds : fd[n] \in work[kind]

\* FD_ISSET(node_fd->fd, &work_..._fd_set), in the set of the node's type.
Hit(n) == event_type[n] \in Kinds /\ fd[n] \in work[event_type[n]]

CallNode ==
    /\ pc = "dispatch"
    /\ i < events.count
    /\ Hit(events.slot[i])
    /\ pc' = "callback"
    /\ cur' = events.slot[i]
    /\ mark' = [mark EXCEPT ![events.slot[i]] = "called"]
    /\ UNCHANGED <<events, fd, event_type, master, max_fd, kernel, work, i, phase>>

CallbackReturns ==
    /\ pc = "callback"
    /\ pc' = "dispatch"
    /\ cur' = NoNode
    /\ i' = NextEntry
    /\ UNCHANGED <<events, fd, event_type, master, max_fd, kernel, work, phase, mark>>

SkipNode ==
    /\ pc = "dispatch"
    /\ i < events.count
    /\ ~Hit(events.slot[i])
    /\ i' = NextEntry
    /\ UNCHANGED <<events, fd, event_type, master, max_fd, kernel, work, pc, phase,
                   cur, mark>>

\* The next walk starts from new work sets, so what is left of this one is
\* forgotten here.
WalkEnds ==
    /\ pc = "dispatch"
    /\ i >= events.count
    /\ pc' = "user"
    /\ work' = NoBits
    /\ i' = 0
    /\ mark' = [n \in Nodes |-> "new"]
    /\ UNCHANGED <<events, fd, event_type, master, max_fd, kernel, phase, cur>>

-----------------------------------------------------------------------------
(* nspr_select_repair_fd_sets                                              *)

\* getsockopt(SO_TYPE) succeeds on open sockets only: a pipe gives ENOTSOCK.
IsSocket(f) == f \in Descriptors /\ kernel[f] = "socket"

\* The node the current test is about; the second test of a step uses the
\* pointer read before the first one, whatever the error callback did.
Tested == IF phase = "read" THEN events.slot[i] ELSE cur

\* To the second test, or to the next node.
Advance(n) ==
    IF phase = "read"
    THEN phase' = "write" /\ cur' = n /\ UNCHANGED i
    ELSE phase' = "read" /\ cur' = NoNode /\ i' = NextEntry

RepairKeeps ==
    /\ pc = "repair"
    /\ phase = "read" => i < events.count
    /\ fd[Tested] \in master[phase] => IsSocket(fd[Tested])
    /\ Advance(Tested)
    /\ UNCHANGED <<events, fd, event_type, master, work, max_fd, kernel, pc, mark>>

RepairedNot == master \* mutant: FD_CLR forgotten
Repaired == [master EXCEPT ![phase] = @ \ {fd[Tested]}]

RepairDrops ==
    /\ pc = "repair"
    /\ phase = "read" => i < events.count
    /\ fd[Tested] \in master[phase] /\ ~IsSocket(fd[Tested])
    /\ master' = Repaired
    /\ pc' = "error"
    /\ cur' = Tested
    /\ UNCHANGED <<events, fd, event_type, work, max_fd, kernel, i, phase, mark>>

ErrorReturns ==
    /\ pc = "error"
    /\ pc' = "repair"
    /\ Advance(cur)
    /\ UNCHANGED <<events, fd, event_type, master, work, max_fd, kernel, mark>>

RepairEnds ==
    /\ pc = "repair"
    /\ phase = "read" /\ i >= events.count
    /\ max_fd' = -1
    /\ pc' = "user"
    /\ i' = 0
    /\ UNCHANGED <<events, fd, event_type, master, work, kernel, phase, cur, mark>>

-----------------------------------------------------------------------------

\* nspr_select_exit, after nspr_event_break or a failed select().
SelectExit ==
    /\ pc \in {"user", "leaving"}
    /\ pc' = "exited"
    /\ master' = NoBits
    /\ UNCHANGED <<events, fd, event_type, work, max_fd, kernel, i, phase, cur, mark>>

Exited == pc = "exited" /\ UNCHANGED vars

LoopNext ==
    \/ SelectReturns \/ SelectInterrupted \/ SelectFails \/ SelectBadFd
    \/ CallNode \/ CallbackReturns \/ SkipNode \/ WalkEnds
    \/ RepairKeeps \/ RepairDrops \/ ErrorReturns \/ RepairEnds
    \/ SelectExit

Next == UserNext \/ LoopNext \/ Exited

Spec == Init /\ [][Next]_vars

\* The loop's own code runs on, and a callback returns: the coroutine it
\* resumes yields or ends.  Nothing is assumed of the kernel or of user code.
Fairness ==
    /\ WF_vars(CallNode \/ SkipNode \/ WalkEnds)
    /\ WF_vars(CallbackReturns)
    /\ WF_vars(RepairKeeps \/ RepairDrops \/ RepairEnds)
    /\ WF_vars(ErrorReturns)

FairSpec == Spec /\ Fairness

-----------------------------------------------------------------------------
(* Properties                                                              *)

TypeOK ==
    /\ TableType(events, Nodes)
    /\ fd \in [Nodes -> Fds \union {-1}]
    /\ event_type \in [Nodes -> Kinds \union {"error"}]
    /\ master \in [Kinds -> SUBSET Descriptors]
    /\ work \in [Kinds -> SUBSET Descriptors]
    /\ max_fd \in Fds \union {-1}
    /\ kernel \in [Descriptors -> {"closed", "socket", "pipe"}]
    /\ pc \in {"user", "dispatch", "callback", "repair", "error", "leaving", "exited"}
    /\ i \in Nat
    /\ phase \in Kinds
    /\ cur \in Nodes \union {NoNode}
    /\ mark \in [Nodes -> Marks]

\* The swap in nspr_select_del keeps the table whole in any order of adds and
\* deletes, also in the middle of a walk: entries and index fields agree, so
\* no node is lost, listed twice or deleted in place of another.
TableConsistent == Consistent(events)

\* select() is never asked about too few descriptors: a valid max_fd bounds
\* every registered node, however nodes came and went (nspr_select.c:52, 83, 111).
MaxFdCovers == max_fd # -1 => \A n \in Waiters : fd[n] <= max_fd

\* A bit in a master set belongs to a registered node: select() never reports,
\* and never fails on, a descriptor nobody waits for.
BitsHaveWaiters ==
    \A kind \in Kinds : \A f \in master[kind] :
        \E n \in Waiters : fd[n] = f /\ event_type[n] = kind

\* While descriptors have one waiter each, every waiter has its bit: deletes
\* and adds of other nodes never switch a registered node off.
WaitersHaveBits ==
    Exclusive /\ pc # "exited" =>
        \A n \in Waiters : fd[n] \in master[event_type[n]]

\* A registration gets one callback in a walk at most: the node called stands
\* behind the walk, and no swap brings it in front again.
CalledBehind ==
    \A n \in Waiters : mark[n] = "called" =>
        events.index[n] < i \/ (pc = "callback" /\ events.index[n] = i)

\* A walk passes over a node that select() reported only if a delete put that
\* node into the place of another since select() returned.
PassedOverOnlyIfMoved ==
    pc \in {"dispatch", "callback"} =>
        \A n \in Waiters : mark[n] = "waiting" /\ events.index[n] < i => ~Hit(n)

\* While a node stays registered it never moves towards the end of the table:
\* it can be passed over, by a swap that carries it behind the walk, only as
\* often as it has places to lose.
PositionNeverGrows ==
    [][\A n \in Waiters : events'.index[n] >= 0 => events'.index[n] <= events.index[n]]_vars

Reported(n) == pc = "dispatch" /\ mark[n] = "waiting" /\ Hit(n)
Called(n) == pc = "callback" /\ cur = n

\* No starvation: a node that stays registered from some time on and that
\* select() reports again and again is called again and again, although any
\* number of walks pass over it.
NoStarvation ==
    \A n \in Nodes :
        ([]<>Reported(n) /\ <>[](n \in Waiters)) => []<>Called(n)

\* A repair repairs: once user code leaves nodes and descriptors alone, the
\* loop is not sent back into nspr_select_repair_fd_sets for ever.
RepairsEnd == <>[][~UserNext]_vars => <>[](pc \notin {"repair", "error"})

-----------------------------------------------------------------------------
(* What the back end promises (EventWatch), in terms of its variables.     *)

Pair(n) == <<fd[n], event_type[n]>>
WatchedPairs == [n \in Waiters |-> Pair(n)]
ReadyPairs ==
    {<<f, "read">> : f \in work["read"]} \union {<<f, "write">> : f \in work["write"]}
RunningNode == IF pc = "callback" THEN cur ELSE NoNode
ServedNodes == {n \in Waiters : mark[n] = "called"}

Promise == INSTANCE EventWatch WITH
    Watchers <- Nodes, Pairs <- Descriptors \X Kinds, None <- NoNode,
    watch <- WatchedPairs, ready <- ReadyPairs, running <- RunningNode,
    served <- ServedNodes

\* Every step of the table, the bit sets and the walk is a step of the promise
\* or changes nothing that the promise is about.
ImplementsPromise == Promise!Spec
=============================================================================
