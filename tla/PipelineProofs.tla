--------------------------- MODULE PipelineProofs ---------------------------
(***************************************************************************)
(* An inductive invariant of Pipeline, and what follows from it for any    *)
(* coroutines, ids, descriptors and signals.                               *)
(***************************************************************************)
EXTENDS Pipeline, SwapTableProofs

Ops == {"ended", "idle", "read", "write", "connect", "popen", "resolve", "sleep", "signal"}
Suspended == Ops \ {"ended", "idle"}
PipeOps == {"popen", "resolve"}

Phases == {"start", "walk", "timers", "signals", "done", "spinning"}

Fields == [fd : Fds \union {NoFd}, type : {"read", "write"}, id : Ids \union {NoId}]
Doings == [op : Ops, id : Ids \union {NoId}, new : Ids \union {NoId}]

TypeOK ==
    /\ TableType(table, Nodes) /\ Consistent(table)
    /\ node \in [Nodes -> Fields]
    /\ i \in Nat
    /\ phase \in Phases
    /\ due \subseteq Coroutines
    /\ timers \in [Coroutines -> Ids \union {NoId}]
    /\ signals \in [Signums -> Coroutines \union {NoCo}]
    /\ DOMAIN events \subseteq Ids
    /\ \A id \in DOMAIN events :
         events[id] \in [co : Coroutines \union {NoCo}, fd : Fds \union {NoFd}]
    /\ eventids \subseteq Ids
    /\ wait \in [Coroutines -> Doings]
    /\ current \in Coroutines \union {NoCo}
    /\ open \subseteq Fds
    /\ input \subseteq open

\* Only the coroutine that runs is in its own code, and it has not ended.
RunInv ==
    /\ \A c \in Coroutines : wait[c].op = "idle" => current = c
    /\ current \in Coroutines => wait[current].op # "ended"

\* What has a table is taken and, if it listens, has a descriptor.
IdsInv ==
    /\ shut \subseteq DOMAIN events
    /\ DOMAIN events \subseteq eventids
    /\ \A id \in DOMAIN events : Listening(id) => id \in Owned

\* The id under which the node of a coroutine is registered.
WaitId(c) == IF wait[c].op = "connect" THEN wait[c].new ELSE wait[c].id
WaitType(c) == IF wait[c].op \in ReadOps THEN "read" ELSE "write"

\* A coroutine that is suspended owns the ids of its call, and has registered
\* what the call waits for.
WaitOK(c) ==
    /\ wait[c].op \in Suspended => wait[c].id \in OwnIds(c)
    /\ wait[c].op \in NodeOps =>
         /\ WaitNode(c) \in Registered
         /\ node[WaitNode(c)].id = WaitId(c)
         /\ node[WaitNode(c)].type = WaitType(c)
    /\ wait[c].op \in NodeOps \ PipeOps =>
         WaitId(c) \in Usable(c) /\ WaitFd(c) = events[WaitId(c)].fd
    /\ wait[c].op = "resolve" => wait[c].new \in eventids \ DOMAIN events
    /\ wait[c].op = "sleep" => timers[c] = wait[c].id
    /\ wait[c].op = "signal" => \E s \in Signums : signals[s] = c
WaitInv == \A c \in Coroutines : WaitOK(c)

NewInv ==
    \A c, d \in Coroutines :
        wait[c].op = "resolve" /\ wait[d].op = "resolve" /\ wait[c].new = wait[d].new => c = d

\* Nothing else is registered, but for the listeners.
Listens(w) ==
    /\ Listening(node[w].id)
    /\ w = IdNode(node[w].id)
    /\ node[w].fd = events[node[w].id].fd
WaitedFor(w) == \E c \in Coroutines : wait[c].op \in NodeOps /\ WaitNode(c) = w
LinkInv ==
    /\ \A w \in Registered : Listens(w) \/ WaitedFor(w)
    /\ \A c \in Coroutines : timers[c] # NoId => wait[c].op = "sleep"
    /\ \A s \in Signums : signals[s] # NoCo => wait[signals[s]].op = "signal"

\* Descriptors are open, and those of two owners differ.
FdsInv ==
    /\ \A a \in Owned : events[a].fd \in open
    /\ \A a, b \in Owned : events[a].fd = events[b].fd => a = b
    /\ \A c \in Pipes : WaitFd(c) \in open
    /\ \A c \in Pipes : \A a \in Owned : WaitFd(c) # events[a].fd
    /\ \A c, d \in Pipes : WaitFd(c) = WaitFd(d) => c = d

\* What select() reported of a node that it was asked about is true until the
\* coroutine takes it, and only such a report resumes a coroutine that reads.
ReportOK(c) ==
    wait[c].op \in ReadOps =>
        /\ current = c => WaitFd(c) \in work.read
        /\ WaitNode(c) \in asked /\ WaitFd(c) \in work.read => WaitFd(c) \in input
ReportInv == \A c \in Coroutines : ReportOK(c)

IInv ==
    /\ TypeOK /\ RunInv /\ IdsInv /\ WaitInv /\ NewInv /\ LinkInv /\ FdsInv /\ ReportInv

-----------------------------------------------------------------------------
(* What the invariant says at once                                         *)

\* The nodes of two ids, of two coroutines and of an id and a coroutine differ.
LEMMA NodesDiffer ==
    /\ \A a, b \in Ids : IdNode(a) = IdNode(b) => a = b
    /\ \A c, d \in Coroutines : PipeNode(c) = PipeNode(d) => c = d
    /\ \A a \in Ids, c \in Coroutines : IdNode(a) # PipeNode(c)
    /\ \A a \in Ids : IdNode(a) \in Nodes
    /\ \A c \in Coroutines : PipeNode(c) \in Nodes
BY DEF IdNode, PipeNode, Nodes

LEMMA NobodyIsNobody == NoCo \notin Coroutines /\ NoId \notin Ids /\ NoFd \notin Fds
BY NamesAssumption, FdsAssumption DEF NoFd

\* The node a coroutine waits on is the one of its id, or its pipe.
LEMMA WaitNodeIs ==
    ASSUME NEW c \in Coroutines
    PROVE  /\ wait[c].op \in PipeOps => WaitNode(c) = PipeNode(c)
           /\ wait[c].op \in NodeOps \ PipeOps => WaitNode(c) = IdNode(WaitId(c))
BY DEF WaitNode, WaitId, PipeOps, NodeOps

\* The node of an id is registered by a listener or by the owner of the id.
LEMMA NodeOfId ==
    ASSUME IInv, NEW id \in Ids, IdNode(id) \in Registered
    PROVE  /\ id \in Owned
           /\ node[IdNode(id)].id = id
           /\ node[IdNode(id)].fd = events[id].fd
           /\ ~Listening(id) =>
                \E c \in Coroutines : /\ wait[c].op \in NodeOps \ PipeOps
                                      /\ events[id].co = c
                                      /\ WaitNode(c) = IdNode(id)
<1> DEFINE w == IdNode(id)
<1>0. TypeOK /\ IdsInv /\ WaitInv /\ LinkInv
  BY DEF IInv
<1>1. CASE Listens(w)
  <2>1. /\ Listening(node[w].id) /\ w = IdNode(node[w].id) /\ node[w].id \in DOMAIN events
        /\ node[w].fd = events[node[w].id].fd
    BY <1>1 DEF Listens, Listening
  <2>2. node[w].id = id
    BY <1>0, <2>1, NodesDiffer DEF TypeOK
  <2> QED BY <1>0, <2>1, <2>2 DEF IdsInv
<1>2. CASE WaitedFor(w)
  <2>1. PICK c \in Coroutines : wait[c].op \in NodeOps /\ WaitNode(c) = w
    BY <1>2 DEF WaitedFor
  <2>2. wait[c].op \notin PipeOps
    BY <2>1, WaitNodeIs, NodesDiffer
  <2>3. /\ w = IdNode(WaitId(c)) /\ WaitId(c) \in Usable(c) /\ node[w].id = WaitId(c)
        /\ node[w].fd = events[WaitId(c)].fd
    BY <1>0, <2>1, <2>2, WaitNodeIs DEF WaitInv, WaitOK, WaitFd
  <2>4. WaitId(c) \in Ids
    BY <1>0, <2>3 DEF Usable, OwnIds, TypeOK
  <2>5. WaitId(c) = id
    BY <2>3, <2>4, NodesDiffer
  <2> QED BY <2>1, <2>2, <2>3, <2>5 DEF Usable, OwnIds, Owned
<1> QED BY <1>0, <1>1, <1>2 DEF LinkInv

\* A pipe is registered by its own coroutine.
LEMMA NodeOfPipe ==
    ASSUME IInv, NEW c \in Coroutines, PipeNode(c) \in Registered
    PROVE  wait[c].op \in PipeOps
<1> DEFINE w == PipeNode(c)
<1>0. TypeOK /\ WaitInv /\ LinkInv
  BY DEF IInv
<1>1. ~Listens(w)
  BY <1>0, NodesDiffer DEF Listens, Listening, TypeOK
<1>2. PICK d \in Coroutines : wait[d].op \in NodeOps /\ WaitNode(d) = w
  BY <1>0, <1>1 DEF LinkInv, WaitedFor
<1>3. CASE wait[d].op \in PipeOps
  BY <1>2, <1>3, WaitNodeIs, NodesDiffer
<1>4. CASE wait[d].op \notin PipeOps
  <2>1. WaitId(d) \in Ids
    BY <1>0, <1>2, <1>4 DEF WaitInv, WaitOK, Usable, OwnIds, TypeOK
  <2> QED BY <1>2, <1>4, <2>1, WaitNodeIs, NodesDiffer
<1> QED BY <1>3, <1>4

\* What a coroutine that waits for no node owns is registered by nobody.
LEMMA OwnNodesFree ==
    ASSUME IInv, NEW c \in Coroutines, wait[c].op \notin NodeOps
    PROVE  /\ \A id \in OwnIds(c) : id \in Ids /\ IdNode(id) \notin Registered
           /\ PipeNode(c) \notin Registered
<1>1. ASSUME NEW id \in OwnIds(c) PROVE id \in Ids /\ IdNode(id) \notin Registered
  <2>1. id \in Ids /\ id \in DOMAIN events /\ events[id].co = c
    BY DEF IInv, TypeOK, OwnIds
  <2>2. ~Listening(id)
    BY <2>1, NobodyIsNobody DEF Listening
  <2> QED BY <2>1, <2>2, NodeOfId
<1> QED BY <1>1, NodeOfPipe DEF PipeOps, NodeOps

\* Nor is the node of an id that has no table.
LEMMA NewNodesFree ==
    ASSUME IInv, NEW id \in Ids \ DOMAIN events
    PROVE  IdNode(id) \notin Registered
BY NodeOfId DEF Owned

\* The waiting nodes of two coroutines differ.
LEMMA WaitNodesDiffer ==
    ASSUME IInv, NEW c \in Coroutines, NEW d \in Coroutines,
           wait[c].op \in NodeOps, wait[d].op \in NodeOps, WaitNode(c) = WaitNode(d)
    PROVE  c = d
<1>0. WaitOK(c) /\ WaitOK(d) /\ TypeOK
  BY DEF IInv, WaitInv
<1>1. CASE wait[c].op \in PipeOps
  <2>1. PipeNode(c) = WaitNode(c) /\ WaitNode(d) \in Registered
    BY <1>0, <1>1, WaitNodeIs DEF WaitOK
  <2>2. CASE wait[d].op \in PipeOps
    BY <2>1, <2>2, WaitNodeIs, NodesDiffer
  <2>3. CASE wait[d].op \notin PipeOps
    BY <1>0, <2>1, <2>3, WaitNodeIs, NodesDiffer DEF WaitOK, Usable, OwnIds, TypeOK
  <2> QED BY <2>2, <2>3
<1>2. CASE wait[c].op \notin PipeOps
  <2>1. /\ WaitNode(c) = IdNode(WaitId(c)) /\ WaitId(c) \in Ids
        /\ WaitId(c) \in DOMAIN events /\ events[WaitId(c)].co = c
    BY <1>0, <1>2, WaitNodeIs DEF WaitOK, Usable, OwnIds, TypeOK
  <2>2. wait[d].op \notin PipeOps
    BY <2>1, WaitNodeIs, NodesDiffer
  <2>3. /\ WaitNode(d) = IdNode(WaitId(d)) /\ WaitId(d) \in Ids
        /\ events[WaitId(d)].co = d
    BY <1>0, <2>2, WaitNodeIs DEF WaitOK, Usable, OwnIds, TypeOK
  <2> QED BY <2>1, <2>3, NodesDiffer
<1> QED BY <1>1, <1>2

\* The descriptor of a registered node belongs to its id or to its pipe.
LEMMA NodeFd ==
    ASSUME IInv, NEW w \in Registered
    PROVE  /\ w \in Nodes
           /\ \/ \E id \in Owned : w = IdNode(id) /\ node[w].fd = events[id].fd
              \/ \E c \in Pipes : w = PipeNode(c) /\ node[w].fd = WaitFd(c)
<1>0. TypeOK /\ WaitInv
  BY DEF IInv
<1>1. w \in Nodes
  BY <1>0 DEF TypeOK, TableType, Registered, Linked
<1>2. ASSUME NEW id \in Ids, w = IdNode(id)
      PROVE  \E a \in Owned : w = IdNode(a) /\ node[w].fd = events[a].fd
  BY <1>2, NodeOfId
<1>3. ASSUME NEW c \in Coroutines, w = PipeNode(c)
      PROVE  \E d \in Pipes : w = PipeNode(d) /\ node[w].fd = WaitFd(d)
  BY <1>3, NodeOfPipe, WaitNodeIs DEF Pipes, PipeOps, WaitFd
<1>4. (\E id \in Ids : w = IdNode(id)) \/ (\E c \in Coroutines : w = PipeNode(c))
  BY <1>1 DEF Nodes
<1> QED BY <1>1, <1>2, <1>3, <1>4

\* The properties, from the invariant.
LEMMA NodesApart == IInv => OneWaiterEach
<1> SUFFICES ASSUME IInv, NEW w \in Registered
             PROVE  /\ node[w].fd \in open
                    /\ \A m \in Registered \ {w} : node[m].fd # node[w].fd
  BY DEF OneWaiterEach
<1>0. FdsInv
  BY DEF IInv
<1>1. node[w].fd \in open
  BY <1>0, NodeFd DEF FdsInv
<1>2. ASSUME NEW m \in Registered, node[m].fd = node[w].fd PROVE m = w
  <2>1. CASE \E id \in Owned : w = IdNode(id) /\ node[w].fd = events[id].fd
    BY <1>0, <1>2, <2>1, NodeFd DEF FdsInv
  <2>2. CASE \E c \in Pipes : w = PipeNode(c) /\ node[w].fd = WaitFd(c)
    BY <1>0, <1>2, <2>2, NodeFd DEF FdsInv
  <2> QED BY <2>1, <2>2, NodeFd
<1> QED BY <1>1, <1>2

LEMMA OwnersApart == IInv => OneOwnerEach
BY DEF IInv, IdsInv, FdsInv, OneOwnerEach

LEMMA RegistrationsThere == IInv => NobodyForgotten
<1> SUFFICES ASSUME IInv, NEW c \in Coroutines
             PROVE  /\ wait[c].op \in NodeOps => WaitNode(c) \in Registered
                    /\ wait[c].op = "sleep" => timers[c] # NoId
                    /\ wait[c].op = "signal" => \E s \in Signums : signals[s] = c
  BY DEF NobodyForgotten
<1>1. WaitOK(c) /\ TypeOK
  BY DEF IInv, WaitInv
<1> QED BY <1>1, NobodyIsNobody DEF WaitOK, Suspended, Ops, OwnIds, TypeOK

LEMMA HooksFindWaiters == IInv => WakesItsWaiter
<1> SUFFICES ASSUME IInv PROVE WakesItsWaiter
  OBVIOUS
<1>0. TypeOK /\ WaitInv /\ LinkInv
  BY DEF IInv
<1>1. ASSUME NEW w \in Registered, ~Listening(node[w].id)
      PROVE  /\ node[w].id \in DOMAIN events
             /\ wait[events[node[w].id].co].op \in NodeOps
             /\ WaitNode(events[node[w].id].co) = w
  <2>1. PICK c \in Coroutines : wait[c].op \in NodeOps /\ WaitNode(c) = w
    BY <1>0, <1>1 DEF LinkInv, Listens, WaitedFor
  <2>2. node[w].id = WaitId(c) /\ WaitId(c) \in OwnIds(c)
    BY <1>0, <2>1 DEF WaitInv, WaitOK, Suspended, Ops, NodeOps, PipeOps, WaitId, Usable
  <2> QED BY <2>1, <2>2 DEF OwnIds
<1>2. ASSUME NEW c \in Coroutines, timers[c] # NoId
      PROVE  wait[c].op = "sleep" /\ timers[c] \in OwnIds(c)
  BY <1>0, <1>2 DEF LinkInv, WaitInv, WaitOK, Suspended, Ops
<1>3. ASSUME NEW s \in Signums, signals[s] # NoCo
      PROVE  wait[signals[s]].op = "signal" /\ wait[signals[s]].id \in OwnIds(signals[s])
  BY <1>0, <1>3 DEF LinkInv, WaitInv, WaitOK, Suspended, Ops, TypeOK
<1> QED BY <1>1, <1>2, <1>3 DEF WakesItsWaiter

LEMMA OldNodesHaveInput == IInv => OnlyLateNodesBlock
BY DEF IInv, ReportInv, ReportOK, OnlyLateNodesBlock, Resumed

-----------------------------------------------------------------------------
(* What a step leaves alone                                                *)

LEMMA InitHolds == Init => IInv
<1> SUFFICES ASSUME Init PROVE IInv
  OBVIOUS
<1>1. TableType(table, Nodes) /\ Consistent(table) /\ Registered = {}
  BY EmptyLemma DEF Init, Registered
<1>2. /\ wait = [c \in Coroutines |-> Ended] /\ current = NoCo
      /\ DOMAIN events = {} /\ timers = [c \in Coroutines |-> NoId]
      /\ signals = [s \in Signums |-> NoCo] /\ shut = {}
  BY DEF Init
<1>3. \A c \in Coroutines : wait[c].op = "ended"
  BY <1>2 DEF Ended, Doing
<1>4. TypeOK
  BY <1>1, <1>2 DEF Init, TypeOK, NoFields, Fields, Ended, Doing, Doings, Ops, Phases
<1>5. RunInv /\ WaitInv /\ NewInv /\ ReportInv
  BY <1>2, <1>3, NobodyIsNobody
     DEF RunInv, WaitInv, WaitOK, NewInv, ReportInv, ReportOK, Suspended, NodeOps, ReadOps,
         PipeOps
<1>6. IdsInv /\ FdsInv
  BY <1>2, <1>3 DEF IdsInv, FdsInv, Owned, Pipes
<1>7. LinkInv
  BY <1>1, <1>2 DEF LinkInv
<1> QED BY <1>4, <1>5, <1>6, <1>7 DEF IInv

\* A coroutine that a step does not touch, nor its ids, its node, its timer and
\* its signal.
Untouched(c) ==
    /\ wait'[c] = wait[c]
    /\ \A id \in OwnIds(c) :
         id \in DOMAIN events' /\ events'[id] = events[id] /\ (id \in shut' => id \in shut)
    /\ wait[c].op \in NodeOps =>
         WaitNode(c) \in Registered' /\ node'[WaitNode(c)] = node[WaitNode(c)]
    /\ wait[c].op = "resolve" => wait[c].new \in eventids' \ DOMAIN events'
    /\ timers'[c] = timers[c]
    /\ \A s \in Signums : signals[s] = c => signals'[s] = c

LEMMA WaitNodeStays ==
    ASSUME NEW c, wait'[c] = wait[c]
    PROVE  WaitNode(c)' = WaitNode(c) /\ WaitId(c)' = WaitId(c) /\ WaitType(c)' = WaitType(c)
BY DEF WaitNode, WaitId, WaitType

LEMMA UntouchedKeeps ==
    ASSUME NEW c \in Coroutines, WaitOK(c), Untouched(c)
    PROVE  /\ WaitOK(c)'
           /\ WaitNode(c)' = WaitNode(c)
           /\ wait[c].op \in NodeOps => WaitFd(c)' = WaitFd(c)
<1>1. WaitNode(c)' = WaitNode(c) /\ WaitId(c)' = WaitId(c) /\ WaitType(c)' = WaitType(c)
  BY WaitNodeStays DEF Untouched
<1>2. wait[c].op \in NodeOps => WaitFd(c)' = WaitFd(c)
  BY <1>1 DEF Untouched, WaitFd
<1>3. \A id \in OwnIds(c) : id \in OwnIds(c)'
  BY DEF Untouched, OwnIds
<1>4. \A id \in Usable(c) : id \in Usable(c)' /\ events'[id] = events[id]
  BY DEF Untouched, OwnIds, Usable
<1>5. PipeOps \subseteq NodeOps
  BY DEF PipeOps, NodeOps
<1>6. wait'[c] = wait[c]
  BY DEF Untouched
<1>7. wait'[c].op \in Suspended => wait'[c].id \in OwnIds(c)'
  BY <1>3, <1>6 DEF WaitOK
<1>8. wait'[c].op \in NodeOps =>
         /\ WaitNode(c)' \in Registered'
         /\ node'[WaitNode(c)'].id = WaitId(c)'
         /\ node'[WaitNode(c)'].type = WaitType(c)'
  BY <1>1, <1>6 DEF WaitOK, Untouched
<1>9. wait'[c].op \in NodeOps \ PipeOps =>
         WaitId(c)' \in Usable(c)' /\ WaitFd(c)' = events'[WaitId(c)'].fd
  BY <1>1, <1>2, <1>4, <1>6 DEF WaitOK
<1> QED BY <1>1, <1>2, <1>6, <1>7, <1>8, <1>9 DEF WaitOK, Untouched

\* What select() said of such a coroutine stays true unless its input is taken.
LEMMA ReportStays ==
    ASSUME NEW c \in Coroutines, WaitOK(c), ReportOK(c), Untouched(c),
           work' = work, asked' \subseteq asked, current' = c => current = c,
           wait[c].op \in ReadOps /\ WaitFd(c) \in input => WaitFd(c) \in input'
    PROVE  ReportOK(c)'
<1>1. ReadOps \subseteq NodeOps
  BY DEF ReadOps, NodeOps
<1>2. wait'[c] = wait[c] /\ WaitNode(c)' = WaitNode(c)
  BY UntouchedKeeps DEF Untouched
<1>3. wait[c].op \in ReadOps => WaitFd(c)' = WaitFd(c)
  BY <1>1, UntouchedKeeps
<1> QED BY <1>2, <1>3 DEF ReportOK

\* Registrations that stay are those of untouched coroutines and of listeners.
LEMMA LinksStay ==
    ASSUME IInv, NEW w \in Registered, node'[w] = node[w],
           \A c \in Coroutines : wait[c].op \in NodeOps /\ WaitNode(c) = w => wait'[c] = wait[c],
           \A id \in DOMAIN events :
               Listening(id) => id \in DOMAIN events' /\ events'[id] = events[id]
    PROVE  Listens(w)' \/ WaitedFor(w)'
<1>1. CASE Listens(w)
  BY <1>1 DEF Listens, Listening
<1>2. CASE WaitedFor(w)
  <2>1. PICK c \in Coroutines : wait[c].op \in NodeOps /\ WaitNode(c) = w
    BY <1>2 DEF WaitedFor
  <2>2. wait'[c] = wait[c]
    BY <2>1
  <2> QED BY <2>1, <2>2, WaitNodeStays DEF WaitedFor
<1> QED BY <1>1, <1>2 DEF IInv, LinkInv

\* Owners and pipes that are given up leave the others as they are.
LEMMA FdsShrink ==
    ASSUME FdsInv, Owned' \subseteq Owned, Pipes' \subseteq Pipes,
           \A a \in Owned' : events'[a].fd = events[a].fd /\ events[a].fd \in open',
           \A c \in Pipes' : WaitFd(c)' = WaitFd(c) /\ WaitFd(c) \in open'
    PROVE  FdsInv'
BY DEF FdsInv

\* A descriptor nobody has becomes that of an id, or of a pipe.
LEMMA FdsGrowId ==
    ASSUME FdsInv, NEW used \in SUBSET Fds, NEW f \in Fds \ used, NEW id,
           open' = used \union {f}, Owned' \subseteq Owned \union {id}, Pipes' \subseteq Pipes,
           events'[id].fd = f,
           \A a \in Owned' \ {id} : events'[a].fd = events[a].fd /\ events[a].fd \in used,
           \A c \in Pipes' : WaitFd(c)' = WaitFd(c) /\ WaitFd(c) \in used
    PROVE  FdsInv'
<1>1. \A a \in Owned' \ {id} : a \in Owned
  OBVIOUS
<1>2. \A a \in Owned' : events'[a].fd \in open'
  OBVIOUS
<1>3. \A a, b \in Owned' : events'[a].fd = events'[b].fd => a = b
  BY <1>1 DEF FdsInv
<1>4. \A c \in Pipes' : WaitFd(c)' \in open'
  OBVIOUS
<1>5. \A c \in Pipes' : \A a \in Owned' : WaitFd(c)' # events'[a].fd
  BY <1>1 DEF FdsInv
<1>6. \A c, d \in Pipes' : WaitFd(c)' = WaitFd(d)' => c = d
  BY DEF FdsInv
<1> QED BY <1>2, <1>3, <1>4, <1>5, <1>6 DEF FdsInv

LEMMA FdsGrowPipe ==
    ASSUME FdsInv, NEW f \in Fds \ open, NEW p \in Coroutines, open' = open \union {f},
           Owned' \subseteq Owned, Pipes' \subseteq Pipes \union {p},
           WaitFd(p)' = f,
           \A a \in Owned' : events'[a].fd = events[a].fd,
           \A c \in Pipes' \ {p} : WaitFd(c)' = WaitFd(c)
    PROVE  FdsInv'
<1>1. \A c \in Pipes' \ {p} : c \in Pipes
  OBVIOUS
<1>2. \A a \in Owned' : events'[a].fd \in open'
  BY DEF FdsInv
<1>3. \A a, b \in Owned' : events'[a].fd = events'[b].fd => a = b
  BY DEF FdsInv
<1>4. \A c \in Pipes' : WaitFd(c)' \in open'
  BY <1>1 DEF FdsInv
<1>5. \A c \in Pipes' : \A a \in Owned' : WaitFd(c)' # events'[a].fd
  BY <1>1 DEF FdsInv
<1>6. \A c, d \in Pipes' : WaitFd(c)' = WaitFd(d)' => c = d
  BY <1>1 DEF FdsInv
<1> QED BY <1>2, <1>3, <1>4, <1>5, <1>6 DEF FdsInv

\* A step of one coroutine c, up to its next yield or to its own code: it comes to
\* do something else, and what is not its own stays.
Acts(c, doing) ==
    /\ doing.op \in Ops
    /\ wait' = [wait EXCEPT ![c] = doing]
    /\ current \in {c, NoCo}
    /\ \/ doing.op = "idle" /\ current' = c
       \/ doing.op # "idle" /\ current' = NoCo
    /\ \A d \in Coroutines \ {c} : Untouched(d)
    /\ doing.op = "resolve" =>
         \A d \in Coroutines \ {c} : wait[d].op = "resolve" => wait[d].new # doing.new
    /\ work' = work /\ asked' \subseteq asked
    /\ \A d \in Coroutines \ {c} :
         wait[d].op \in ReadOps /\ WaitFd(d) \in input => WaitFd(d) \in input'
    /\ \A w \in Registered' :
         \/ Listens(w)'
         \/ doing.op \in NodeOps /\ WaitNode(c)' = w
         \/ /\ w \in Registered /\ node'[w] = node[w]
            /\ ~(wait[c].op \in NodeOps /\ WaitNode(c) = w)
    /\ \A id \in DOMAIN events :
         Listening(id) => id \in DOMAIN events' /\ events'[id] = events[id]
    /\ timers'[c] # NoId => doing.op = "sleep"
    /\ \A s \in Signums :
         \/ signals'[s] = NoCo
         \/ signals'[s] = c /\ doing.op = "signal"
         \/ signals'[s] = signals[s] /\ signals[s] # c

LEMMA ActorKeeps ==
    ASSUME IInv, NEW c \in Coroutines, NEW doing, Acts(c, doing), WaitOK(c)', ReportOK(c)'
    PROVE  RunInv' /\ WaitInv' /\ NewInv' /\ LinkInv' /\ ReportInv'
<1>0. TypeOK /\ RunInv /\ WaitInv /\ NewInv /\ LinkInv /\ ReportInv
  BY DEF IInv
<1>1. wait'[c] = doing /\ \A d \in Coroutines \ {c} : wait'[d] = wait[d]
  BY <1>0 DEF TypeOK, Acts
<1>2. RunInv'
  <2>1. ASSUME NEW d \in Coroutines, wait'[d].op = "idle" PROVE current' = d
    BY <1>0, <1>1, <2>1, NobodyIsNobody DEF RunInv, Acts
  <2> QED BY <1>1, <2>1, NobodyIsNobody DEF RunInv, Acts
<1>3. WaitInv'
  BY <1>0, UntouchedKeeps DEF WaitInv, Acts
<1>4. NewInv'
  BY <1>0, <1>1 DEF NewInv, Acts
<1>5. ReportInv'
  <2>1. ASSUME NEW d \in Coroutines \ {c} PROVE ReportOK(d)'
    <3>1. current' # d
      BY NobodyIsNobody DEF Acts
    <3> QED BY <1>0, <3>1, ReportStays DEF WaitInv, ReportInv, Acts
  <2> QED BY <2>1 DEF ReportInv
<1>6. LinkInv'
  <2>1. ASSUME NEW w \in Registered' PROVE Listens(w)' \/ WaitedFor(w)'
    <3>1. CASE doing.op \in NodeOps /\ WaitNode(c)' = w
      BY <1>1, <3>1 DEF WaitedFor
    <3>2. CASE /\ w \in Registered /\ node'[w] = node[w]
               /\ ~(wait[c].op \in NodeOps /\ WaitNode(c) = w)
      <4>1. \A d \in Coroutines : wait[d].op \in NodeOps /\ WaitNode(d) = w => wait'[d] = wait[d]
        BY <1>1, <3>2
      <4> QED BY <3>2, <4>1, LinksStay DEF Acts
    <3> QED BY <3>1, <3>2 DEF Acts
  <2>2. ASSUME NEW d \in Coroutines, timers'[d] # NoId PROVE wait'[d].op = "sleep"
    BY <1>0, <1>1, <2>2 DEF LinkInv, Untouched, Acts
  <2>3. ASSUME NEW s \in Signums, signals'[s] # NoCo PROVE wait'[signals'[s]].op = "signal"
    <3>1. CASE signals'[s] = c /\ doing.op = "signal"
      BY <1>1, <3>1
    <3>2. CASE signals'[s] = signals[s] /\ signals[s] # c
      BY <1>0, <1>1, <2>3, <3>2 DEF LinkInv, TypeOK
    <3> QED BY <2>3, <3>1, <3>2 DEF Acts
  <2> QED BY <2>1, <2>2, <2>3 DEF LinkInv
<1> QED BY <1>2, <1>3, <1>4, <1>5, <1>6

\* The pipes of the others.
LEMMA OtherPipes ==
    ASSUME IInv, NEW c, \A d \in Coroutines \ {c} : Untouched(d)
    PROVE  \A d \in Coroutines \ {c} :
               /\ d \in Pipes' <=> d \in Pipes
               /\ d \in Pipes => WaitFd(d)' = WaitFd(d)
<1> SUFFICES ASSUME NEW d \in Coroutines \ {c}
             PROVE  /\ d \in Pipes' <=> d \in Pipes
                    /\ d \in Pipes => WaitFd(d)' = WaitFd(d)
  OBVIOUS
<1>1. wait'[d] = wait[d] /\ WaitOK(d)
  BY DEF Untouched, IInv, WaitInv
<1>2. d \in Pipes' <=> d \in Pipes
  BY <1>1 DEF Pipes
<1>3. d \in Pipes => wait[d].op \in NodeOps
  BY DEF Pipes, NodeOps
<1> QED BY <1>1, <1>2, <1>3, UntouchedKeeps

\* A step of the loop, or of the kernel, that registers and opens nothing.
LEMMA QuietKeeps ==
    ASSUME IInv, UNCHANGED <<table, node, timers, signals, events, shut, wait, open>>,
           eventids \subseteq eventids', eventids' \subseteq Ids, input' \subseteq open,
           i' \in Nat, phase' \in Phases, due' \subseteq Coroutines,
           \/ current' = current
           \/ current = NoCo /\ current' \in Coroutines /\ wait[current'].op \in Suspended,
           ReportInv'
    PROVE  IInv'
<1>0. TypeOK /\ RunInv /\ IdsInv /\ WaitInv /\ NewInv /\ LinkInv /\ FdsInv
  BY DEF IInv
<1>1. Registered' = Registered
  BY DEF Registered
<1>2. TypeOK'
  BY <1>0 DEF TypeOK
<1>3. RunInv'
  BY <1>0, NobodyIsNobody DEF RunInv, Suspended
<1>4. IdsInv'
  BY <1>0 DEF IdsInv, Listening, Owned
<1>5. \A c \in Coroutines : Untouched(c)
  <2>1. \A c \in Coroutines : wait[c].op \in NodeOps => WaitNode(c) \in Registered
    BY <1>0 DEF WaitInv, WaitOK
  <2>2. \A c \in Coroutines : wait[c].op = "resolve" => wait[c].new \in eventids \ DOMAIN events
    BY <1>0 DEF WaitInv, WaitOK
  <2> QED BY <1>1, <2>1, <2>2 DEF Untouched, OwnIds
<1>6. WaitInv'
  BY <1>0, <1>5, UntouchedKeeps DEF WaitInv
<1>7. NewInv'
  BY <1>0 DEF NewInv
<1>8. LinkInv'
  <2>1. \A w \in Registered : Listens(w)' \/ WaitedFor(w)'
    BY LinksStay
  <2> QED BY <1>0, <1>1, <2>1 DEF LinkInv
<1>9. FdsInv'
  <2>1. Owned' = Owned /\ Pipes' = Pipes
    BY DEF Owned, Pipes
  <2>2. \A c \in Pipes : WaitFd(c)' = WaitFd(c)
    BY WaitNodeStays DEF WaitFd
  <2>3. \A a \in Owned : events[a].fd \in open
    BY <1>0 DEF FdsInv
  <2>4. \A c \in Pipes : WaitFd(c) \in open
    BY <1>0 DEF FdsInv
  <2> QED BY <1>0, <2>1, <2>2, <2>3, <2>4, FdsShrink
<1> QED BY <1>2, <1>3, <1>4, <1>6, <1>7, <1>8, <1>9 DEF IInv

-----------------------------------------------------------------------------
(* The loop                                                                *)

\* The report of select() keeps: nodes stay, the input at most grows, and only a
\* coroutine whose node was hit is resumed from a read.
LEMMA QuietReport ==
    ASSUME IInv, UNCHANGED <<node, wait, work, asked>>, input \subseteq input',
           \/ current' = current
           \/ current = NoCo /\ (wait[current'].op \in ReadOps => WaitFd(current') \in work.read)
    PROVE  ReportInv'
<1> SUFFICES ASSUME NEW c \in Coroutines PROVE ReportOK(c)'
  BY DEF ReportInv
<1>1. ReportOK(c)
  BY DEF IInv, ReportInv
<1>2. WaitNode(c)' = WaitNode(c) /\ WaitFd(c)' = WaitFd(c)
  BY WaitNodeStays DEF WaitFd
<1> QED BY <1>1, <1>2 DEF ReportOK

\* A hook that is given an id of a suspended coroutine resumes that one.
LEMMA ResumesOwner ==
    ASSUME IInv, NEW c \in Coroutines, NEW id \in OwnIds(c), wait[c].op \in Suspended,
           Resumes(id)
    PROVE  current' = c /\ i' = i
BY NobodyIsNobody DEF Resumes, OwnIds, Listening, Ended, Doing, Suspended

LEMMA PositionStays == ASSUME IInv, CallbackReturns PROVE i' \in Nat
BY DEF IInv, TypeOK, CallbackReturns

LEMMA TurnKeeps == IInv /\ Turn => IInv'
<1> SUFFICES ASSUME IInv, Turn PROVE IInv'
  OBVIOUS
<1>0. TypeOK /\ WaitInv
  BY DEF IInv
<1>1. /\ UNCHANGED <<table, node, due, timers, signals, tables, kernel, wait, current>>
      /\ i' = 0 /\ phase' = "walk" /\ current = NoCo
  BY DEF Turn
<1>2. work'.read = {node[w].fd : w \in {x \in Registered : node[x].type = "read"}} \intersect input
  BY DEF Turn
<1>3. ReportInv'
  <2> SUFFICES ASSUME NEW c \in Coroutines PROVE ReportOK(c)'
    BY DEF ReportInv
  <2>1. WaitFd(c)' = WaitFd(c)
    BY <1>1, WaitNodeStays DEF WaitFd
  <2> QED BY <1>1, <1>2, <2>1, NobodyIsNobody DEF ReportOK, kernel
<1> QED BY <1>0, <1>1, <1>3, QuietKeeps DEF TypeOK, Phases, tables, kernel

LEMMA SkipKeeps == IInv /\ (SkipNode \/ AcceptFails) => IInv'
<1> SUFFICES ASSUME IInv, SkipNode \/ AcceptFails PROVE IInv'
  OBVIOUS
<1>1. /\ UNCHANGED <<table, node, work, asked, loop, tables, kernel, wait, current>>
      /\ i' = i + 1
  BY DEF SkipNode, AcceptFails
<1>2. ReportInv'
  BY <1>1, QuietReport DEF kernel
<1> QED BY <1>1, <1>2, QuietKeeps DEF IInv, TypeOK, loop, tables, kernel

LEMMA CallNodeKeeps == IInv /\ CallNode => IInv'
<1> SUFFICES ASSUME IInv, CallNode PROVE IInv'
  OBVIOUS
<1>0. TypeOK /\ WaitInv /\ LinkInv
  BY DEF IInv
<1>1. /\ UNCHANGED <<table, node, work, asked, loop, tables, kernel, wait>>
      /\ current = NoCo /\ i < table.count /\ Hit /\ ~Listening(node[At].id)
      /\ Resumes(node[At].id)
  BY DEF CallNode, Walking, WalkBound
<1>2. At \in Registered
  <2>1. i \in 0 .. table.count - 1
    BY <1>0, <1>1 DEF TypeOK, TableType
  <2> QED BY <1>0, <2>1, SlotLemma DEF TypeOK, At, Registered
<1>3. PICK c \in Coroutines : wait[c].op \in NodeOps /\ WaitNode(c) = At
  BY <1>0, <1>1, <1>2 DEF LinkInv, Listens, WaitedFor
<1>4. WaitOK(c) /\ wait[c].op \in Suspended
  BY <1>0, <1>3 DEF WaitInv, Suspended, Ops, NodeOps
<1>5. node[At].id \in OwnIds(c)
  BY <1>3, <1>4 DEF WaitOK, WaitId, Usable, PipeOps
<1>6. current' = c /\ i' = i
  BY <1>1, <1>4, <1>5, ResumesOwner
<1>7. wait[c].op \in ReadOps => WaitFd(c) \in work.read
  BY <1>1, <1>3, <1>4 DEF WaitOK, WaitType, WaitFd, Hit
<1>8. ReportInv'
  BY <1>1, <1>6, <1>7, QuietReport DEF kernel
<1> QED BY <1>0, <1>1, <1>4, <1>6, <1>8, QuietKeeps DEF TypeOK, loop, tables, kernel

LEMMA WalkEndKeeps == IInv /\ WalkEnds => IInv'
<1> SUFFICES ASSUME IInv, WalkEnds PROVE IInv'
  OBVIOUS
<1>1. /\ UNCHANGED <<table, node, timers, signals, tables, kernel, wait, current>>
      /\ current = NoCo /\ phase' = "timers" /\ asked' = {} /\ i' = 0 /\ due' \subseteq Coroutines
  BY DEF WalkEnds
<1>2. ReportInv'
  BY <1>1, NobodyIsNobody DEF ReportInv, ReportOK
<1> QED BY <1>1, <1>2, QuietKeeps DEF IInv, TypeOK, Phases, tables, kernel

LEMMA CallTimerKeeps == ASSUME NEW c \in Coroutines PROVE IInv /\ CallTimer(c) => IInv'
<1> SUFFICES ASSUME IInv, CallTimer(c) PROVE IInv'
  OBVIOUS
<1>0. TypeOK /\ WaitInv /\ LinkInv
  BY DEF IInv
<1>1. /\ UNCHANGED <<table, node, work, asked, phase, timers, signals, tables, kernel, wait>>
      /\ current = NoCo /\ due' = due \ {c} /\ Resumes(timers[c])
  BY DEF CallTimer
<1>2. CASE timers[c] = NoId
  <2>1. current' = current /\ i' \in Nat
    BY <1>0, <1>1, <1>2, PositionStays, NobodyIsNobody DEF Resumes, TypeOK
  <2>2. ReportInv'
    BY <1>1, <2>1, QuietReport DEF kernel
  <2> QED BY <1>0, <1>1, <2>1, <2>2, QuietKeeps DEF TypeOK, tables, kernel
<1>3. CASE timers[c] # NoId
  <2>1. wait[c].op = "sleep" /\ timers[c] \in OwnIds(c)
    BY <1>0, <1>3 DEF LinkInv, WaitInv, WaitOK, Suspended, Ops
  <2>2. current' = c /\ i' = i
    BY <1>1, <2>1, ResumesOwner DEF Suspended, Ops
  <2>3. ReportInv'
    BY <1>1, <2>1, <2>2, QuietReport DEF kernel, ReadOps
  <2> QED BY <1>0, <1>1, <2>1, <2>2, <2>3, QuietKeeps DEF TypeOK, Suspended, Ops, tables, kernel
<1> QED BY <1>2, <1>3

LEMMA TimersEndKeeps == IInv /\ TimersEnd => IInv'
<1> SUFFICES ASSUME IInv, TimersEnd PROVE IInv'
  OBVIOUS
<1>1. UNCHANGED <<backEnd, due, timers, signals, tables, kernel, wait, current>> /\ phase' = "signals"
  BY DEF TimersEnd
<1>2. ReportInv'
  BY <1>1, QuietReport DEF backEnd, kernel
<1> QED BY <1>1, <1>2, QuietKeeps DEF IInv, TypeOK, Phases, backEnd, tables, kernel

LEMMA CallSignalKeeps == ASSUME NEW s \in Signums PROVE IInv /\ CallSignal(s) => IInv'
<1> SUFFICES ASSUME IInv, CallSignal(s) PROVE IInv'
  OBVIOUS
<1> DEFINE c == signals[s]
<1>0. TypeOK /\ WaitInv /\ LinkInv
  BY DEF IInv
<1>1. /\ UNCHANGED <<table, node, work, asked, due, timers, signals, tables, kernel, wait>>
      /\ current = NoCo /\ c # NoCo /\ phase' = "done" /\ Resumes(wait[c].id)
  BY DEF CallSignal
<1>2. c \in Coroutines /\ wait[c].op = "signal" /\ wait[c].id \in OwnIds(c)
  BY <1>0, <1>1 DEF TypeOK, LinkInv, WaitInv, WaitOK, Suspended, Ops
<1>3. current' = c /\ i' = i
  BY <1>1, <1>2, ResumesOwner DEF Suspended, Ops
<1>4. ReportInv'
  BY <1>1, <1>2, <1>3, QuietReport DEF kernel, ReadOps
<1> QED BY <1>0, <1>1, <1>2, <1>3, <1>4, QuietKeeps
        DEF TypeOK, Phases, Suspended, Ops, tables, kernel

LEMMA SpinKeeps == IInv /\ (EventidSpins \/ UNCHANGED vars) => IInv'
<1> SUFFICES ASSUME IInv, EventidSpins \/ UNCHANGED vars PROVE IInv'
  OBVIOUS
<1>1. /\ UNCHANGED <<backEnd, due, timers, signals, tables, kernel, wait, current>>
      /\ phase' \in {phase, "spinning"}
  BY DEF EventidSpins, vars, loop
<1>2. ReportInv'
  BY <1>1, QuietReport DEF backEnd, kernel
<1> QED BY <1>1, <1>2, QuietKeeps DEF IInv, TypeOK, Phases, backEnd, tables, kernel

LEMMA ArrivalKeeps == ASSUME NEW f \in Fds PROVE IInv /\ Arrives(f) => IInv'
<1> SUFFICES ASSUME IInv, Arrives(f) PROVE IInv'
  OBVIOUS
<1>1. /\ UNCHANGED <<backEnd, loop, tables, open, wait, current>>
      /\ f \in open /\ input' = input \union {f}
  BY DEF Arrives
<1>2. ReportInv'
  BY <1>1, QuietReport DEF backEnd
<1> QED BY <1>1, <1>2, QuietKeeps DEF IInv, TypeOK, backEnd, loop, tables

LEMMA ListenFailsKeeps == ASSUME NEW id \in FreeIds PROVE IInv /\ ListenFails(id) => IInv'
<1> SUFFICES ASSUME IInv, ListenFails(id) PROVE IInv'
  OBVIOUS
<1>1. /\ UNCHANGED <<backEnd, loop, events, shut, kernel, wait, current>>
      /\ eventids' = eventids \union {id} /\ id \in Ids
  BY DEF ListenFails, FreeIds
<1>2. ReportInv'
  BY <1>1, QuietReport DEF backEnd, kernel
<1> QED BY <1>1, <1>2, QuietKeeps DEF IInv, TypeOK, backEnd, loop, kernel

-----------------------------------------------------------------------------
(* Calls, up to their yield                                                *)

LEMMA Running ==
    ASSUME IInv, NEW c \in Coroutines, InLua(c)
    PROVE  /\ current = c /\ wait[c].op = "idle"
           /\ wait[c].op \notin NodeOps /\ c \notin Pipes
           /\ timers[c] = NoId /\ \A s \in Signums : signals[s] # c
           /\ \A id \in OwnIds(c) : /\ id \in Ids /\ id \in DOMAIN events
                                    /\ events[id] \in [co : {c}, fd : Fds \union {NoFd}]
<1>1. current = c /\ wait[c].op = "idle"
  BY DEF InLua
<1>2. wait[c].op \notin NodeOps /\ c \notin Pipes
  BY <1>1 DEF NodeOps, Pipes
<1>3. timers[c] = NoId /\ \A s \in Signums : signals[s] # c
  BY <1>1, NobodyIsNobody DEF IInv, LinkInv
<1>4. ASSUME NEW id \in OwnIds(c)
      PROVE  /\ id \in Ids /\ id \in DOMAIN events
             /\ events[id] \in [co : {c}, fd : Fds \union {NoFd}]
  BY DEF IInv, TypeOK, OwnIds
<1> QED BY <1>1, <1>2, <1>3, <1>4

\* Nothing moves in the table of nodes, and no id changes hands.
LEMMA UntouchedInLua ==
    ASSUME IInv, NEW d \in Coroutines, wait'[d] = wait[d], timers'[d] = timers[d],
           UNCHANGED <<events, shut>>, eventids \subseteq eventids',
           wait[d].op \in NodeOps =>
               WaitNode(d) \in Registered' /\ node'[WaitNode(d)] = node[WaitNode(d)],
           \A s \in Signums : signals[s] = d => signals'[s] = d
    PROVE  Untouched(d)
<1>1. WaitOK(d)
  BY DEF IInv, WaitInv
<1> QED BY <1>1 DEF Untouched, OwnIds, WaitOK

LEMMA YieldType ==
    ASSUME IInv, NEW c \in Coroutines, NEW doing \in Doings, doing.op # "idle",
           Yields(c, doing)
    PROVE  /\ wait' \in [Coroutines -> Doings]
           /\ wait' = [wait EXCEPT ![c] = doing] /\ wait'[c] = doing
           /\ \A d \in Coroutines \ {c} : wait'[d] = wait[d]
           /\ current' = NoCo /\ current' # c
           /\ i' \in Nat
BY PositionStays, NobodyIsNobody DEF IInv, TypeOK, Yields

\* A node is registered, and nothing else changes about nodes.
Registers(w, f, type, id) ==
    /\ TableType(table', Nodes) /\ Consistent(table')
    /\ Registered' = Registered \union {w}
    /\ node' \in [Nodes -> Fields]
    /\ node'[w] = [fd |-> f, type |-> type, id |-> id]
    /\ \A m \in Nodes \ {w} : node'[m] = node[m]
    /\ asked' \subseteq asked /\ w \notin asked'

LEMMA AddRegisters ==
    ASSUME IInv, NEW w \in Nodes, w \notin Registered, NEW tb,
           tb = table \/ tb = Fresh(table, w),
           NEW f \in Fds \union {NoFd}, NEW type \in {"read", "write"}, NEW id \in Ids,
           AddTo(tb, w, f, type, id)
    PROVE  Registers(w, f, type, id)
<1>0. TypeOK
  BY DEF IInv
<1>1. /\ TableType(tb, Nodes) /\ Consistent(tb) /\ Linked(tb) = Registered
  BY <1>0, FreshLemma DEF TypeOK, Registered
<1>2. /\ TableType(table', Nodes) /\ Consistent(table') /\ Registered' = Registered \union {w}
  BY <1>1, LinkLemma DEF AddTo, Registered
<1>3. node' = [node EXCEPT ![w] = [fd |-> f, type |-> type, id |-> id]]
  BY DEF AddTo
<1>4. [fd |-> f, type |-> type, id |-> id] \in Fields
  BY DEF Fields
<1> QED BY <1>0, <1>2, <1>3, <1>4 DEF TypeOK, AddTo, Registers

\* The node another coroutine waits on is none that was not registered.
LEMMA WaitNodeIsNode ==
    ASSUME IInv, NEW d \in Coroutines, wait[d].op \in NodeOps
    PROVE  WaitNode(d) \in Registered /\ WaitNode(d) \in Nodes
BY DEF IInv, TypeOK, TableType, WaitInv, WaitOK, Registered, Linked

LEMMA ReadOrWriteKeeps ==
    ASSUME NEW c \in Coroutines, NEW id \in OwnIds(c), NEW type \in {"read", "write"}
    PROVE  IInv /\ ReadOrWrite(c, id, type) => IInv'
<1> SUFFICES ASSUME IInv, ReadOrWrite(c, id, type) PROVE IInv'
  OBVIOUS
<1> DEFINE w == IdNode(id)
           doing == Doing(type, id, NoId)
<1>0. TypeOK /\ IdsInv /\ FdsInv
  BY DEF IInv
<1>1. /\ InLua(c) /\ id \in Usable(c) /\ AddTo(table, w, events[id].fd, type, id)
      /\ Yields(c, doing) /\ UNCHANGED <<work, loop, tables, kernel>>
  BY DEF ReadOrWrite
<1>2. /\ current = c /\ wait[c].op \notin NodeOps /\ c \notin Pipes
      /\ timers[c] = NoId /\ \A s \in Signums : signals[s] # c
  BY <1>1, Running
<1>3. id \in Ids /\ events[id].fd \in Fds \union {NoFd}
  BY <1>1, Running
<1>4. w \in Nodes /\ w \notin Registered
  BY <1>2, <1>3, OwnNodesFree, NodesDiffer
<1>5. Registers(w, events[id].fd, type, id)
  BY <1>1, <1>3, <1>4, AddRegisters
<1>6. doing \in Doings /\ doing.op = type /\ doing.id = id
  BY <1>3 DEF Doing, Doings, Ops
<1>7. /\ wait' \in [Coroutines -> Doings]
      /\ wait' = [wait EXCEPT ![c] = doing] /\ wait'[c] = doing
      /\ \A d \in Coroutines \ {c} : wait'[d] = wait[d]
      /\ current' = NoCo /\ current' # c /\ i' \in Nat
  BY <1>1, <1>6, YieldType
<1>8. TypeOK'
  BY <1>0, <1>1, <1>5, <1>7 DEF TypeOK, Registers, loop, tables, kernel
<1>9. ASSUME NEW d \in Coroutines \ {c} PROVE Untouched(d)
  <2>1. wait[d].op \in NodeOps =>
          WaitNode(d) \in Registered' /\ node'[WaitNode(d)] = node[WaitNode(d)]
    BY <1>4, <1>5, WaitNodeIsNode DEF Registers
  <2> QED BY <1>1, <1>7, <2>1, UntouchedInLua DEF loop, tables
<1>10. WaitNode(c)' = w /\ WaitId(c)' = id
  BY <1>6, <1>7 DEF WaitNode, WaitId
<1>11. WaitOK(c)'
  <2>1. id \in Usable(c)' /\ id \in OwnIds(c)' /\ events' = events
    BY <1>1 DEF tables, Usable, OwnIds
  <2> QED BY <1>5, <1>6, <1>7, <1>10, <2>1
          DEF WaitOK, WaitType, WaitFd, ReadOps, PipeOps, Registers
<1>12. ReportOK(c)'
  BY <1>5, <1>7, <1>10 DEF ReportOK, Registers
<1>13. IdsInv' /\ Owned' = Owned
  BY <1>0, <1>1 DEF IdsInv, Listening, Owned, tables
<1>14. FdsInv'
  <2>1. c \notin Pipes'
    BY <1>6, <1>7 DEF Pipes
  <2>2. \A d \in Pipes' : d \in Pipes /\ WaitFd(d)' = WaitFd(d)
    BY <1>9, <2>1, OtherPipes DEF Pipes
  <2>3. UNCHANGED <<events, open>>
    BY <1>1 DEF tables, kernel
  <2>4. \A a \in Owned' : events'[a].fd = events[a].fd /\ events[a].fd \in open'
    BY <1>0, <1>13, <2>3 DEF FdsInv
  <2>5. \A d \in Pipes' : WaitFd(d)' = WaitFd(d) /\ WaitFd(d) \in open'
    BY <1>0, <2>2, <2>3 DEF FdsInv
  <2> QED BY <1>0, <1>13, <2>2, <2>4, <2>5, FdsShrink
<1>15. RunInv' /\ WaitInv' /\ NewInv' /\ LinkInv' /\ ReportInv'
  <2>1. UNCHANGED <<work, events, input, timers, signals>>
    BY <1>1 DEF loop, tables, kernel
  <2>2. ASSUME NEW m \in Registered'
        PROVE  \/ doing.op \in NodeOps /\ WaitNode(c)' = m
               \/ m \in Registered /\ node'[m] = node[m]
    BY <1>4, <1>5, <1>6, <1>10, NodeFd DEF NodeOps, Registers
  <2>3. asked' \subseteq asked
    BY <1>5 DEF Registers
  <2>4. Acts(c, doing)
    BY <1>2, <1>6, <1>7, <1>9, <2>1, <2>2, <2>3 DEF Acts, Ops, NodeOps
  <2> QED BY <1>11, <1>12, <2>4, ActorKeeps
<1> QED BY <1>8, <1>13, <1>14, <1>15 DEF IInv

\* popen, for pipeline.popen and for a look-up.
LEMMA OpenPipeKeeps ==
    ASSUME IInv, NEW c \in Coroutines, NEW id \in OwnIds(c), NEW f \in Fds,
           NEW doing \in Doings, InLua(c), OpenPipe(c, id, f, doing),
           doing.op \in PipeOps, doing.id = id,
           UNCHANGED <<events, shut>>, eventids \subseteq eventids', eventids' \subseteq Ids,
           doing.op = "resolve" => doing.new \in eventids' \ eventids
    PROVE  IInv'
<1> DEFINE w == PipeNode(c)
<1>0. TypeOK /\ IdsInv /\ FdsInv /\ WaitInv
  BY DEF IInv
<1>1. /\ f \in Fds \ open /\ open' = open \union {f}
      /\ AddTo(Fresh(table, w), w, f, "read", id)
      /\ Yields(c, doing) /\ UNCHANGED <<work, loop, input>>
  BY DEF OpenPipe, Lowest
<1>2. /\ current = c /\ wait[c].op \notin NodeOps /\ c \notin Pipes
      /\ timers[c] = NoId /\ \A s \in Signums : signals[s] # c
  BY Running
<1>3. id \in Ids /\ id \in DOMAIN events
  BY Running
<1>4. w \in Nodes /\ w \notin Registered
  BY <1>2, OwnNodesFree, NodesDiffer
<1>5. Registers(w, f, "read", id)
  BY <1>1, <1>3, <1>4, AddRegisters
<1>6. doing.op # "idle" /\ doing.op \in Ops /\ doing.op \in NodeOps /\ doing.op \in ReadOps
  BY DEF PipeOps, Ops, NodeOps, ReadOps
<1>7. /\ wait' \in [Coroutines -> Doings]
      /\ wait' = [wait EXCEPT ![c] = doing] /\ wait'[c] = doing
      /\ \A d \in Coroutines \ {c} : wait'[d] = wait[d]
      /\ current' = NoCo /\ current' # c /\ i' \in Nat
  BY <1>1, <1>6, YieldType
<1>8. TypeOK'
  BY <1>0, <1>1, <1>5, <1>7 DEF TypeOK, Registers, loop
<1>9. ASSUME NEW d \in Coroutines \ {c} PROVE Untouched(d)
  <2>1. wait[d].op \in NodeOps =>
          WaitNode(d) \in Registered' /\ node'[WaitNode(d)] = node[WaitNode(d)]
    BY <1>4, <1>5, WaitNodeIsNode DEF Registers
  <2> QED BY <1>1, <1>7, <2>1, UntouchedInLua DEF loop
<1>10. WaitNode(c)' = w /\ WaitId(c)' = id /\ WaitFd(c)' = f
  BY <1>5, <1>7 DEF WaitNode, WaitId, WaitFd, PipeOps, Registers
<1>11. WaitOK(c)'
  <2>1. id \in OwnIds(c)'
    BY DEF OwnIds
  <2>2. doing.op = "resolve" => doing.new \in eventids' \ DOMAIN events'
    BY <1>0 DEF IdsInv
  <2> QED BY <1>5, <1>6, <1>7, <1>10, <2>1, <2>2 DEF WaitOK, WaitType, PipeOps, Registers
<1>12. ReportOK(c)'
  BY <1>5, <1>7, <1>10 DEF ReportOK, Registers
<1>13. IdsInv' /\ Owned' = Owned
  BY <1>0 DEF IdsInv, Listening, Owned
<1>14. FdsInv'
  <2>1. \A d \in Pipes' \ {c} : d \in Pipes /\ WaitFd(d)' = WaitFd(d)
    BY <1>9, OtherPipes DEF Pipes
  <2> QED BY <1>0, <1>1, <1>10, <1>13, <2>1, FdsGrowPipe
<1>15. RunInv' /\ WaitInv' /\ NewInv' /\ LinkInv' /\ ReportInv'
  <2>1. UNCHANGED <<work, events, input, timers, signals>>
    BY <1>1 DEF loop
  <2>2. ASSUME NEW m \in Registered'
        PROVE  \/ doing.op \in NodeOps /\ WaitNode(c)' = m
               \/ m \in Registered /\ node'[m] = node[m]
    BY <1>4, <1>5, <1>6, <1>10, NodeFd DEF Registers
  <2>3. asked' \subseteq asked
    BY <1>5 DEF Registers
  <2>4. doing.op = "resolve" =>
          \A d \in Coroutines \ {c} : wait[d].op = "resolve" => wait[d].new # doing.new
    BY <1>0 DEF WaitInv, WaitOK
  <2>5. Acts(c, doing)
    BY <1>2, <1>6, <1>7, <1>9, <2>1, <2>2, <2>3, <2>4 DEF Acts
  <2> QED BY <1>11, <1>12, <2>5, ActorKeeps
<1> QED BY <1>8, <1>13, <1>14, <1>15 DEF IInv

LEMMA PopenKeeps ==
    ASSUME NEW c \in Coroutines, NEW id \in OwnIds(c), NEW f \in Fds
    PROVE  IInv /\ Popen(c, id, f) => IInv'
<1> SUFFICES ASSUME IInv, Popen(c, id, f) PROVE IInv'
  OBVIOUS
<1> DEFINE doing == Doing("popen", id, NoId)
<1>1. InLua(c) /\ OpenPipe(c, id, f, doing) /\ UNCHANGED tables
  BY DEF Popen
<1>2. doing \in Doings /\ doing.op = "popen" /\ doing.id = id
  BY <1>1, Running DEF Doing, Doings, Ops
<1> QED BY <1>1, <1>2, OpenPipeKeeps DEF tables, PipeOps, IInv, TypeOK

LEMMA ConnectByNameKeeps ==
    ASSUME NEW c \in Coroutines, NEW id \in OwnIds(c), NEW new \in FreeIds, NEW f \in Fds
    PROVE  IInv /\ ConnectByName(c, id, new, f) => IInv'
<1> SUFFICES ASSUME IInv, ConnectByName(c, id, new, f) PROVE IInv'
  OBVIOUS
<1> DEFINE doing == Doing("resolve", id, new)
<1>1. /\ InLua(c) /\ OpenPipe(c, id, f, doing)
      /\ eventids' = eventids \union {new} /\ UNCHANGED <<events, shut>>
  BY DEF ConnectByName
<1>2. new \in Ids \ eventids
  BY DEF FreeIds
<1>3. /\ doing \in Doings /\ doing.op = "resolve" /\ doing.id = id /\ doing.new = new
  BY <1>1, <1>2, Running DEF Doing, Doings, Ops
<1> QED BY <1>1, <1>2, <1>3, OpenPipeKeeps DEF PipeOps, IInv, TypeOK

\* The pipe of a coroutine is nobody else's node.
LEMMA PipeIsOwn ==
    ASSUME IInv, NEW c \in Coroutines, NEW d \in Coroutines, wait[d].op \in NodeOps,
           WaitNode(d) = PipeNode(c)
    PROVE  d = c
<1>1. CASE wait[d].op \in PipeOps
  BY <1>1, WaitNodeIs, NodesDiffer
<1>2. CASE wait[d].op \notin PipeOps
  <2>1. WaitId(d) \in Ids
    BY <1>2 DEF IInv, TypeOK, WaitInv, WaitOK, Usable, OwnIds
  <2> QED BY <1>2, <2>1, WaitNodeIs, NodesDiffer
<1> QED BY <1>1, <1>2

LEMMA WithIdIs ==
    ASSUME NEW id, NEW c, NEW f, events' = WithId(id, c, f)
    PROVE  /\ DOMAIN events' = DOMAIN events \union {id}
           /\ events'[id] = [co |-> c, fd |-> f]
           /\ \A x \in DOMAIN events \ {id} : events'[x] = events[x]
BY DEF WithId

\* An id nobody has used gets a table, for a coroutine or a listener.
LEMMA NewIdKeeps ==
    ASSUME IInv, NEW id \in Ids \ DOMAIN events, NEW c \in Coroutines \union {NoCo},
           NEW f \in Fds \union {NoFd}, events' = WithId(id, c, f), shut' = shut,
           c = NoCo => f \in Fds,
           eventids \subseteq eventids', eventids' \subseteq Ids, id \in eventids'
    PROVE  /\ DOMAIN events' \subseteq Ids
           /\ \A x \in DOMAIN events' :
                events'[x] \in [co : Coroutines \union {NoCo}, fd : Fds \union {NoFd}]
           /\ IdsInv'
           /\ Owned' = IF f = NoFd THEN Owned ELSE Owned \union {id}
           /\ \A d \in Coroutines \ {c} : OwnIds(d)' = OwnIds(d)
           /\ \A x \in DOMAIN events : x # id /\ events'[x] = events[x]
<1>0. TypeOK /\ IdsInv
  BY DEF IInv
<1>1. /\ DOMAIN events' = DOMAIN events \union {id}
      /\ events'[id] = [co |-> c, fd |-> f]
      /\ \A x \in DOMAIN events \ {id} : events'[x] = events[x]
  BY WithIdIs
<1>2. \A x \in DOMAIN events : x # id /\ events'[x] = events[x]
  BY <1>1
<1>3. DOMAIN events' \subseteq Ids
  BY <1>0, <1>1 DEF TypeOK
<1>4. \A x \in DOMAIN events' :
        events'[x] \in [co : Coroutines \union {NoCo}, fd : Fds \union {NoFd}]
  BY <1>0, <1>1, <1>2 DEF TypeOK
<1>5. id \notin shut
  BY <1>0 DEF IdsInv
<1>6. Owned' = IF f = NoFd THEN Owned ELSE Owned \union {id}
  BY <1>1, <1>2, <1>5 DEF Owned
<1>7. IdsInv'
  <2>1. ASSUME NEW x \in DOMAIN events', Listening(x)' PROVE x \in Owned'
    <3>1. CASE x = id
      BY <1>1, <1>6, <2>1, <3>1, NobodyIsNobody DEF Listening
    <3>2. CASE x # id
      BY <1>0, <1>1, <1>6, <2>1, <3>2 DEF Listening, IdsInv
    <3> QED BY <3>1, <3>2
  <2> QED BY <1>0, <1>1, <2>1 DEF IdsInv
<1>8. \A d \in Coroutines \ {c} : OwnIds(d)' = OwnIds(d)
  BY <1>1, <1>2 DEF OwnIds
<1> QED BY <1>2, <1>3, <1>4, <1>6, <1>7, <1>8

\* The second half of connect, with or without a look-up before it.  tb is the
\* table without the coroutine's pipe, used are the descriptors without it.
LEMMA DialsKeeps ==
    ASSUME IInv, NEW c \in Coroutines, NEW id \in OwnIds(c), NEW new \in Ids \ DOMAIN events,
           NEW f \in Fds, NEW used \in SUBSET Fds, NEW tb,
           current = c, wait[c].op \in {"idle", "resolve"},
           Dials(c, id, new, f, used, tb),
           TableType(tb, Nodes), Consistent(tb), Linked(tb) = Registered \ {PipeNode(c)},
           eventids \subseteq eventids', eventids' \subseteq Ids, new \in eventids',
           \A d \in Coroutines \ {c} : wait[d].op = "resolve" => wait[d].new # new,
           \A a \in Owned : events[a].fd \in used,
           \A d \in Pipes \ {c} : WaitFd(d) \in used,
           UNCHANGED <<work, loop, shut>>, input' \subseteq used,
           \A d \in Coroutines \ {c} :
               wait[d].op \in ReadOps /\ WaitFd(d) \in input => WaitFd(d) \in input'
    PROVE  IInv'
<1> DEFINE w == IdNode(new)
           p == PipeNode(c)
           doing == Doing("connect", id, new)
<1>0. TypeOK /\ IdsInv /\ FdsInv /\ WaitInv /\ LinkInv
  BY DEF IInv
<1>1. events[id].co = c /\ id \in DOMAIN events /\ id \in Ids
  BY <1>0 DEF OwnIds, TypeOK
<1>2. /\ f \in Fds \ used /\ open' = used \union {f}
      /\ events' = WithId(new, c, f)
      /\ table' = Link(Fresh(Fresh(tb, p), w), w)
      /\ node' = [node EXCEPT ![p] = NoFields,
                              ![w] = [fd |-> f, type |-> "write", id |-> new]]
      /\ asked' = asked \ {w} /\ Yields(c, doing)
  BY <1>1 DEF Dials, Lowest
<1>3. w \in Nodes /\ p \in Nodes /\ w # p /\ w \notin Registered
  BY NodesDiffer, NewNodesFree
<1>4. /\ TableType(table', Nodes) /\ Consistent(table')
      /\ Registered' = (Registered \ {p}) \union {w}
  <2> DEFINE t1 == Fresh(tb, p)
             t2 == Fresh(t1, w)
  <2>1. TableType(t1, Nodes) /\ Consistent(t1) /\ Linked(t1) = Linked(tb)
    BY <1>3, FreshLemma
  <2>2. w \notin Linked(t1)
    BY <1>3, <2>1
  <2> HIDE DEF t1
  <2>3. TableType(t2, Nodes) /\ Consistent(t2) /\ Linked(t2) = Linked(t1)
    BY <1>3, <2>1, <2>2, FreshLemma
  <2>4. w \notin Linked(t2) /\ table' = Link(t2, w)
    BY <1>2, <2>2, <2>3 DEF t1
  <2> HIDE DEF t2
  <2> QED BY <1>3, <2>1, <2>3, <2>4, LinkLemma DEF Registered
<1>5. /\ node' \in [Nodes -> Fields]
      /\ node'[w] = [fd |-> f, type |-> "write", id |-> new]
      /\ \A m \in Nodes \ {p, w} : node'[m] = node[m]
  <2>1. NoFields \in Fields /\ [fd |-> f, type |-> "write", id |-> new] \in Fields
    BY DEF NoFields, Fields
  <2> QED BY <1>0, <1>2, <1>3, <2>1 DEF TypeOK
<1>6. doing \in Doings /\ doing.op = "connect" /\ doing.id = id /\ doing.new = new
  BY <1>1 DEF Doing, Doings, Ops
<1>7. /\ wait' \in [Coroutines -> Doings]
      /\ wait' = [wait EXCEPT ![c] = doing] /\ wait'[c] = doing
      /\ \A d \in Coroutines \ {c} : wait'[d] = wait[d]
      /\ current' = NoCo /\ current' # c /\ i' \in Nat
  BY <1>2, <1>6, YieldType
<1>8. /\ DOMAIN events' \subseteq Ids
      /\ \A x \in DOMAIN events' :
           events'[x] \in [co : Coroutines \union {NoCo}, fd : Fds \union {NoFd}]
      /\ IdsInv'
      /\ Owned' = Owned \union {new}
      /\ \A d \in Coroutines \ {c} : OwnIds(d)' = OwnIds(d)
      /\ \A x \in DOMAIN events : x # new /\ events'[x] = events[x]
  BY <1>2, NobodyIsNobody, NewIdKeeps
<1>9. /\ DOMAIN events' = DOMAIN events \union {new}
      /\ events'[new] = [co |-> c, fd |-> f]
  BY <1>2, WithIdIs
<1>10. TypeOK'
  <2>1. open' \subseteq Fds /\ input' \subseteq open'
    BY <1>2
  <2> QED BY <1>0, <1>4, <1>5, <1>7, <1>8, <2>1 DEF TypeOK, loop
<1>11. ASSUME NEW d \in Coroutines \ {c} PROVE Untouched(d)
  <2>1. wait[d].op \in NodeOps =>
          WaitNode(d) \in Registered' /\ node'[WaitNode(d)] = node[WaitNode(d)]
    BY <1>3, <1>4, <1>5, WaitNodeIsNode, PipeIsOwn
  <2>2. wait[d].op = "resolve" => wait[d].new \in eventids' \ DOMAIN events'
    BY <1>0, <1>9 DEF WaitInv, WaitOK
  <2>3. \A x \in OwnIds(d) :
          x \in DOMAIN events' /\ events'[x] = events[x] /\ (x \in shut' => x \in shut)
    BY <1>8, <1>9 DEF OwnIds
  <2> QED BY <1>7, <2>1, <2>2, <2>3 DEF Untouched, loop
<1>12. WaitNode(c)' = w /\ WaitId(c)' = new /\ WaitFd(c)' = f
  BY <1>5, <1>6, <1>7 DEF WaitNode, WaitId, WaitFd
<1>13. WaitOK(c)'
  <2>1. new \notin shut'
    BY <1>0 DEF IdsInv
  <2>2. id \in OwnIds(c)' /\ new \in OwnIds(c)'
    BY <1>1, <1>8, <1>9 DEF OwnIds
  <2>3. new \in Usable(c)'
    BY <1>9, <2>1, <2>2, NobodyIsNobody DEF Usable
  <2> QED BY <1>4, <1>5, <1>6, <1>7, <1>9, <1>12, <2>2, <2>3 DEF WaitOK, WaitType, ReadOps
<1>14. ReportOK(c)'
  BY <1>6, <1>7 DEF ReportOK, ReadOps
<1>15. FdsInv'
  <2>1. c \notin Pipes'
    BY <1>6, <1>7 DEF Pipes
  <2>2. \A d \in Pipes' : d \in Pipes \ {c} /\ WaitFd(d)' = WaitFd(d) /\ WaitFd(d) \in used
    BY <1>11, <2>1, OtherPipes DEF Pipes
  <2>3. \A a \in Owned' \ {new} : events'[a].fd = events[a].fd /\ events[a].fd \in used
    BY <1>8 DEF Owned
  <2> QED BY <1>0, <1>2, <1>8, <1>9, <2>2, <2>3, FdsGrowId
<1>16. RunInv' /\ WaitInv' /\ NewInv' /\ LinkInv' /\ ReportInv'
  <2>1. ASSUME NEW m \in Registered'
        PROVE  \/ doing.op \in NodeOps /\ WaitNode(c)' = m
               \/ /\ m \in Registered /\ node'[m] = node[m]
                  /\ ~(wait[c].op \in NodeOps /\ WaitNode(c) = m)
    <3>1. CASE m = w
      BY <1>6, <1>12, <3>1 DEF NodeOps
    <3>2. CASE m # w
      <4>1. m \in Registered /\ m # p /\ m \in Nodes
        BY <1>4, <3>2, NodeFd
      <4>2. wait[c].op \in NodeOps => WaitNode(c) = p
        BY WaitNodeIs DEF NodeOps, PipeOps
      <4> QED BY <1>5, <3>2, <4>1, <4>2
    <3> QED BY <3>1, <3>2
  <2>2. timers[c] = NoId /\ \A s \in Signums : signals[s] # c
    BY <1>0, NobodyIsNobody DEF LinkInv
  <2>3. \A x \in DOMAIN events : x \in DOMAIN events' /\ events'[x] = events[x]
    BY <1>8, <1>9
  <2>4. UNCHANGED <<work, timers, signals>> /\ asked' \subseteq asked
    BY <1>2 DEF loop
  <2>5. Acts(c, doing)
    BY <1>6, <1>7, <1>11, <2>1, <2>2, <2>3, <2>4 DEF Acts, Ops
  <2> QED BY <1>13, <1>14, <2>5, ActorKeeps
<1> QED BY <1>8, <1>10, <1>15, <1>16 DEF IInv

-----------------------------------------------------------------------------
(* Calls, once they are resumed                                            *)

OwnNode(c) == IF wait[c].op \in NodeOps THEN {WaitNode(c)} ELSE {}

\* A call of c ends and c goes on: what it had registered is taken back, and what
\* is not its own stays.
Returns(c) ==
    /\ current = c /\ GoesOn(c)
    /\ TableType(table', Nodes) /\ Consistent(table')
    /\ Registered' = Registered \ OwnNode(c)
    /\ node' \in [Nodes -> Fields]
    /\ \A m \in Registered' : node'[m] = node[m]
    /\ asked' \subseteq asked
    /\ UNCHANGED <<work, phase, due, events, shut>>
    /\ eventids \subseteq eventids' /\ eventids' \subseteq Ids
    /\ timers' \in [Coroutines -> Ids \union {NoId}] /\ timers'[c] = NoId
    /\ \A d \in Coroutines \ {c} : timers'[d] = timers[d]
    /\ signals' \in [Signums -> Coroutines \union {NoCo}]
    /\ \A s \in Signums : signals'[s] = IF signals[s] = c THEN NoCo ELSE signals[s]
    /\ open' \subseteq Fds /\ input' \subseteq open'
    /\ \A a \in Owned : events[a].fd \in open'
    /\ \A d \in Pipes \ {c} : WaitFd(d) \in open'
    /\ \A d \in Coroutines \ {c} :
         wait[d].op \in ReadOps /\ WaitFd(d) \in input => WaitFd(d) \in input'

LEMMA ReturnsKeeps == ASSUME IInv, NEW c \in Coroutines, Returns(c) PROVE IInv'
<1>0. TypeOK /\ IdsInv /\ FdsInv /\ WaitInv /\ LinkInv
  BY DEF IInv
<1>1. /\ UNCHANGED <<work, phase, due, events, shut, i>> /\ asked' \subseteq asked
      /\ current = c /\ current' = c /\ wait' = [wait EXCEPT ![c] = Idle]
  BY DEF Returns, GoesOn
<1>2. Idle \in Doings /\ Idle.op = "idle"
  BY DEF Idle, Doing, Doings, Ops
<1>3. /\ wait' \in [Coroutines -> Doings] /\ wait'[c] = Idle
      /\ \A d \in Coroutines \ {c} : wait'[d] = wait[d]
  BY <1>0, <1>1, <1>2 DEF TypeOK
<1>4. TypeOK'
  BY <1>0, <1>1, <1>3 DEF TypeOK, Returns
<1>5. ASSUME NEW d \in Coroutines \ {c} PROVE Untouched(d)
  <2>1. ASSUME wait[d].op \in NodeOps
        PROVE  WaitNode(d) \in Registered' /\ node'[WaitNode(d)] = node[WaitNode(d)]
    <3>1. WaitNode(d) \in Registered
      BY <2>1, WaitNodeIsNode
    <3>2. WaitNode(d) \notin OwnNode(c)
      BY <2>1, WaitNodesDiffer DEF OwnNode
    <3> QED BY <3>1, <3>2 DEF Returns
  <2>2. timers'[d] = timers[d] /\ \A s \in Signums : signals[s] = d => signals'[s] = d
    BY DEF Returns
  <2>3. eventids \subseteq eventids'
    BY DEF Returns
  <2> QED BY <1>1, <1>3, <2>1, <2>2, <2>3, UntouchedInLua
<1>6. WaitOK(c)' /\ ReportOK(c)'
  BY <1>2, <1>3 DEF WaitOK, ReportOK, Suspended, NodeOps, PipeOps, ReadOps
<1>7. IdsInv' /\ Owned' = Owned
  BY <1>0, <1>1 DEF IdsInv, Listening, Owned, Returns
<1>8. FdsInv'
  <2>1. c \notin Pipes'
    BY <1>2, <1>3 DEF Pipes
  <2>2. \A d \in Pipes' : d \in Pipes \ {c} /\ WaitFd(d)' = WaitFd(d)
    BY <1>5, <2>1, OtherPipes DEF Pipes
  <2>3. \A a \in Owned' : events'[a].fd = events[a].fd /\ events[a].fd \in open'
    BY <1>1, <1>7 DEF Returns
  <2>4. \A d \in Pipes' : WaitFd(d)' = WaitFd(d) /\ WaitFd(d) \in open'
    BY <2>2 DEF Returns
  <2> QED BY <1>0, <1>7, <2>2, <2>3, <2>4, FdsShrink
<1>9. RunInv' /\ WaitInv' /\ NewInv' /\ LinkInv' /\ ReportInv'
  <2>1. ASSUME NEW m \in Registered'
        PROVE  /\ m \in Registered /\ node'[m] = node[m]
               /\ ~(wait[c].op \in NodeOps /\ WaitNode(c) = m)
    BY DEF Returns, OwnNode
  <2>2. /\ timers'[c] = NoId
        /\ \A s \in Signums : signals'[s] = IF signals[s] = c THEN NoCo ELSE signals[s]
    BY DEF Returns
  <2>3. \A d \in Coroutines \ {c} :
          wait[d].op \in ReadOps /\ WaitFd(d) \in input => WaitFd(d) \in input'
    BY DEF Returns
  <2>4. Acts(c, Idle)
    BY <1>1, <1>2, <1>5, <2>1, <2>2, <2>3 DEF Acts, Ops
  <2> QED BY <1>6, <2>4, ActorKeeps
<1> QED BY <1>4, <1>7, <1>8, <1>9 DEF IInv

\* A resumed call: what it waited for was its own.
LEMMA ResumedCall ==
    ASSUME IInv, NEW c \in Coroutines, current = c
    PROVE  /\ wait[c].op # "sleep" => timers[c] = NoId
           /\ wait[c].op # "signal" => \A s \in Signums : signals[s] # c
           /\ wait[c].op \in NodeOps =>
                /\ WaitNode(c) \in Nodes /\ WaitNode(c) \in Registered
                /\ TableType(TakenBack(c), Nodes) /\ Consistent(TakenBack(c))
                /\ Linked(TakenBack(c)) = Registered \ {WaitNode(c)}
<1>0. TypeOK /\ LinkInv
  BY DEF IInv
<1>1. wait[c].op # "sleep" => timers[c] = NoId
  BY <1>0 DEF LinkInv
<1>2. wait[c].op # "signal" => \A s \in Signums : signals[s] # c
  BY <1>0, NobodyIsNobody DEF LinkInv
<1>3. ASSUME wait[c].op \in NodeOps
      PROVE  /\ WaitNode(c) \in Nodes /\ WaitNode(c) \in Registered
             /\ TableType(TakenBack(c), Nodes) /\ Consistent(TakenBack(c))
             /\ Linked(TakenBack(c)) = Registered \ {WaitNode(c)}
  BY <1>0, <1>3, WaitNodeIsNode, UnlinkLemma DEF TypeOK, TakenBack, Registered
<1> QED BY <1>1, <1>2, <1>3

\* Descriptors of two waiting coroutines differ, and those of pipes from those of ids.
LEMMA WaitFdsDiffer ==
    ASSUME IInv, NEW c \in Coroutines, NEW d \in Coroutines \ {c},
           wait[c].op \in NodeOps, wait[d].op \in NodeOps
    PROVE  WaitFd(c) # WaitFd(d)
<1>1. WaitNode(c) # WaitNode(d) /\ WaitNode(c) \in Registered /\ WaitNode(d) \in Registered
  BY WaitNodesDiffer, WaitNodeIsNode
<1> QED BY <1>1, NodesApart DEF OneWaiterEach, WaitFd

LEMMA ReadDoneKeeps == ASSUME NEW c \in Coroutines PROVE IInv /\ ReadDone(c) => IInv'
<1> SUFFICES ASSUME IInv, ReadDone(c) PROVE IInv'
  OBVIOUS
<1>0. TypeOK /\ FdsInv
  BY DEF IInv
<1>1. /\ current = c /\ wait[c].op = "read" /\ table' = TakenBack(c)
      /\ input' = input \ {WaitFd(c)} /\ GoesOn(c)
      /\ UNCHANGED <<node, work, asked, loop, tables, open>>
  BY DEF ReadDone, Resumed
<1>2. wait[c].op \in NodeOps /\ OwnNode(c) = {WaitNode(c)}
  BY <1>1 DEF NodeOps, OwnNode
<1>3. \A d \in Coroutines \ {c} :
        wait[d].op \in ReadOps /\ WaitFd(d) \in input => WaitFd(d) \in input'
  BY <1>1, <1>2, WaitFdsDiffer DEF ReadOps, NodeOps
<1>4. /\ timers[c] = NoId /\ \A s \in Signums : signals[s] # c
      /\ TableType(table', Nodes) /\ Consistent(table')
      /\ Registered' = Registered \ OwnNode(c)
  BY <1>1, <1>2, ResumedCall DEF Registered
<1> QED BY <1>0, <1>1, <1>3, <1>4, ReturnsKeeps DEF Returns, TypeOK, FdsInv, loop, tables

LEMMA WriteOrConnectDoneKeeps ==
    ASSUME NEW c \in Coroutines PROVE IInv /\ WriteOrConnectDone(c) => IInv'
<1> SUFFICES ASSUME IInv, WriteOrConnectDone(c) PROVE IInv'
  OBVIOUS
<1>0. TypeOK /\ FdsInv
  BY DEF IInv
<1>1. /\ current = c /\ wait[c].op \in {"write", "connect"} /\ table' = TakenBack(c)
      /\ GoesOn(c) /\ UNCHANGED <<node, work, asked, loop, tables, kernel>>
  BY DEF WriteOrConnectDone, Resumed
<1>2. wait[c].op \in NodeOps /\ OwnNode(c) = {WaitNode(c)}
  BY <1>1 DEF NodeOps, OwnNode
<1>4. /\ timers[c] = NoId /\ \A s \in Signums : signals[s] # c
      /\ TableType(table', Nodes) /\ Consistent(table')
      /\ Registered' = Registered \ OwnNode(c)
  BY <1>1, <1>2, ResumedCall DEF Registered
<1> QED BY <1>0, <1>1, <1>4, ReturnsKeeps DEF Returns, TypeOK, FdsInv, loop, tables, kernel

LEMMA SleepDoneKeeps == ASSUME NEW c \in Coroutines PROVE IInv /\ SleepDone(c) => IInv'
<1> SUFFICES ASSUME IInv, SleepDone(c) PROVE IInv'
  OBVIOUS
<1>0. TypeOK /\ FdsInv
  BY DEF IInv
<1>1. /\ current = c /\ wait[c].op = "sleep" /\ timers' = [timers EXCEPT ![c] = NoId]
      /\ GoesOn(c)
      /\ UNCHANGED <<table, node, work, asked, phase, due, signals, tables, kernel>>
  BY DEF SleepDone, Resumed, TimerGone
<1>2. OwnNode(c) = {} /\ Registered' = Registered
  BY <1>1 DEF NodeOps, OwnNode, Registered
<1>3. \A s \in Signums : signals[s] # c
  BY <1>1, ResumedCall
<1>4. /\ timers' \in [Coroutines -> Ids \union {NoId}] /\ timers'[c] = NoId
      /\ \A d \in Coroutines \ {c} : timers'[d] = timers[d]
  BY <1>0, <1>1 DEF TypeOK
<1> QED BY <1>0, <1>1, <1>2, <1>3, <1>4, ReturnsKeeps DEF Returns, TypeOK, FdsInv, tables, kernel

LEMMA SignalDoneKeeps == ASSUME NEW c \in Coroutines PROVE IInv /\ SignalDone(c) => IInv'
<1> SUFFICES ASSUME IInv, SignalDone(c) PROVE IInv'
  OBVIOUS
<1>0. TypeOK /\ FdsInv
  BY DEF IInv
<1>1. /\ current = c /\ wait[c].op = "signal" /\ GoesOn(c)
      /\ signals' = [s \in Signums |-> IF signals[s] = c THEN NoCo ELSE signals[s]]
      /\ UNCHANGED <<table, node, work, asked, phase, due, timers, tables, kernel>>
  BY DEF SignalDone, Resumed
<1>2. OwnNode(c) = {} /\ Registered' = Registered
  BY <1>1 DEF NodeOps, OwnNode, Registered
<1>3. timers[c] = NoId
  BY <1>1, ResumedCall
<1>4. /\ signals' \in [Signums -> Coroutines \union {NoCo}]
      /\ \A s \in Signums : signals'[s] = IF signals[s] = c THEN NoCo ELSE signals[s]
  BY <1>0, <1>1 DEF TypeOK
<1> QED BY <1>0, <1>1, <1>2, <1>3, <1>4, ReturnsKeeps DEF Returns, TypeOK, FdsInv, tables, kernel

\* A pipe is closed: it was the descriptor of no id and of no other pipe.
LEMMA PipeFdIsOwn ==
    ASSUME IInv, NEW c \in Pipes
    PROVE  /\ wait[c].op \in NodeOps /\ OwnNode(c) = {WaitNode(c)} /\ WaitNode(c) = PipeNode(c)
           /\ \A a \in Owned : events[a].fd \in open \ {WaitFd(c)}
           /\ \A d \in Pipes \ {c} : WaitFd(d) \in open \ {WaitFd(c)}
           /\ \A d \in Coroutines \ {c} :
                wait[d].op \in ReadOps /\ WaitFd(d) \in input => WaitFd(d) \in input \ {WaitFd(c)}
<1>0. FdsInv /\ c \in Coroutines /\ wait[c].op \in PipeOps
  BY DEF IInv, Pipes, PipeOps
<1>1. wait[c].op \in NodeOps /\ OwnNode(c) = {WaitNode(c)} /\ WaitNode(c) = PipeNode(c)
  BY <1>0, WaitNodeIs DEF NodeOps, PipeOps, OwnNode
<1>2. \A d \in Coroutines \ {c} :
        wait[d].op \in ReadOps /\ WaitFd(d) \in input => WaitFd(d) \in input \ {WaitFd(c)}
  BY <1>0, <1>1, WaitFdsDiffer DEF ReadOps, NodeOps
<1> QED BY <1>0, <1>1, <1>2 DEF FdsInv

\* The table and the node when the pipe of a coroutine is forgotten.
LEMMA PipeForgotten ==
    ASSUME IInv, NEW c \in Pipes, current = c, Forget(TakenBack(c), PipeNode(c))
    PROVE  /\ TableType(table', Nodes) /\ Consistent(table')
           /\ Registered' = Registered \ OwnNode(c)
           /\ node' \in [Nodes -> Fields] /\ \A m \in Registered' : node'[m] = node[m]
<1> DEFINE p == PipeNode(c)
<1>0. /\ TypeOK /\ c \in Coroutines /\ wait[c].op \in NodeOps /\ WaitNode(c) = p
      /\ OwnNode(c) = {p}
  BY PipeFdIsOwn DEF IInv, Pipes
<1>1. /\ p \in Nodes /\ TableType(TakenBack(c), Nodes) /\ Consistent(TakenBack(c))
      /\ Linked(TakenBack(c)) = Registered \ {p}
  BY <1>0, ResumedCall
<1>2. /\ TableType(table', Nodes) /\ Consistent(table') /\ Registered' = Registered \ {p}
  BY <1>1, FreshLemma DEF Forget, Registered
<1>3. NoFields \in Fields /\ node' = [node EXCEPT ![p] = NoFields]
  BY DEF NoFields, Fields, Forget
<1>4. Registered' \subseteq Nodes
  BY <1>0, <1>2 DEF TypeOK, TableType, Registered, Linked
<1> QED BY <1>0, <1>2, <1>3, <1>4 DEF TypeOK

LEMMA PopenDoneKeeps == ASSUME NEW c \in Coroutines PROVE IInv /\ PopenDone(c) => IInv'
<1> SUFFICES ASSUME IInv, PopenDone(c) PROVE IInv'
  OBVIOUS
<1>0. TypeOK
  BY DEF IInv
<1>1. /\ current = c /\ wait[c].op = "popen" /\ c \in Pipes
      /\ Forget(TakenBack(c), WaitNode(c))
      /\ open' = open \ {WaitFd(c)} /\ input' = input \ {WaitFd(c)} /\ GoesOn(c)
      /\ UNCHANGED <<work, asked, loop, tables>>
  BY DEF PopenDone, Resumed, Pipes
<1>2. timers[c] = NoId /\ \A s \in Signums : signals[s] # c
  BY <1>1, ResumedCall
<1>3. Forget(TakenBack(c), PipeNode(c))
  BY <1>1, PipeFdIsOwn
<1>4. /\ TableType(table', Nodes) /\ Consistent(table')
      /\ Registered' = Registered \ OwnNode(c)
      /\ node' \in [Nodes -> Fields] /\ \A m \in Registered' : node'[m] = node[m]
  BY <1>1, <1>3, PipeForgotten
<1> QED BY <1>0, <1>1, <1>2, <1>4, PipeFdIsOwn, ReturnsKeeps DEF Returns, TypeOK, loop, tables

\* A name that is not known, or a socket that cannot connect.
LEMMA ResolveFailsKeeps ==
    ASSUME NEW c \in Coroutines, IInv, Resumed(c, {"resolve"}),
           input' = input \ {WaitFd(c)}, DialFails(c, open \ {WaitFd(c)}),
           Forget(TakenBack(c), PipeNode(c)),
           UNCHANGED <<events, asked, work, loop, eventids, shut>>
    PROVE  IInv'
<1>0. TypeOK
  BY DEF IInv
<1>1. /\ current = c /\ wait[c].op = "resolve" /\ c \in Pipes /\ GoesOn(c)
      /\ UNCHANGED <<events, asked, work, loop, eventids, shut>>
  BY DEF Resumed, Pipes, DialFails
<1>2. timers[c] = NoId /\ \A s \in Signums : signals[s] # c
  BY <1>1, ResumedCall
<1>3. /\ TableType(table', Nodes) /\ Consistent(table')
      /\ Registered' = Registered \ OwnNode(c)
      /\ node' \in [Nodes -> Fields] /\ \A m \in Registered' : node'[m] = node[m]
  BY <1>1, PipeForgotten
<1>4. /\ open \ {WaitFd(c)} \subseteq open' /\ open' \subseteq Fds /\ input' \subseteq open'
  BY <1>0 DEF TypeOK, DialFails, Lowest
<1> QED BY <1>0, <1>1, <1>2, <1>3, <1>4, PipeFdIsOwn, ReturnsKeeps DEF Returns, TypeOK, loop

LEMMA ResolveDoneKeeps == ASSUME NEW c \in Coroutines PROVE IInv /\ ResolveDone(c) => IInv'
<1> SUFFICES ASSUME IInv, ResolveDone(c) PROVE IInv'
  OBVIOUS
<1> DEFINE used == open \ {WaitFd(c)}
           id == wait[c].id
           new == wait[c].new
<1>0. TypeOK /\ WaitInv /\ NewInv
  BY DEF IInv
<1>1. /\ current = c /\ wait[c].op = "resolve" /\ c \in Pipes
      /\ input' = input \ {WaitFd(c)} /\ UNCHANGED <<work, loop, eventids, shut>>
  BY DEF ResolveDone, Resumed, Pipes
<1>2. CASE \E f \in Fds : Dials(c, id, new, f, used, TakenBack(c))
  <2>1. PICK f \in Fds : Dials(c, id, new, f, used, TakenBack(c))
    BY <1>2
  <2>2. id \in OwnIds(c) /\ new \in eventids \ DOMAIN events
    BY <1>0, <1>1 DEF WaitInv, WaitOK, Suspended, Ops
  <2>3. used \in SUBSET Fds /\ new \in Ids \ DOMAIN events /\ input' \subseteq used
    BY <1>0, <1>1, <2>2 DEF TypeOK
  <2>4. \A d \in Coroutines \ {c} : wait[d].op = "resolve" => wait[d].new # new
    BY <1>0, <1>1 DEF NewInv
  <2>5. /\ WaitNode(c) = PipeNode(c)
        /\ \A a \in Owned : events[a].fd \in used
        /\ \A d \in Pipes \ {c} : WaitFd(d) \in used
        /\ \A d \in Coroutines \ {c} :
             wait[d].op \in ReadOps /\ WaitFd(d) \in input => WaitFd(d) \in input'
    BY <1>1, PipeFdIsOwn
  <2>6. /\ TableType(TakenBack(c), Nodes) /\ Consistent(TakenBack(c))
        /\ Linked(TakenBack(c)) = Registered \ {PipeNode(c)}
    BY <1>1, <2>5, ResumedCall DEF NodeOps
  <2>7. eventids \subseteq eventids' /\ eventids' \subseteq Ids /\ new \in eventids'
    BY <1>0, <1>1, <2>2 DEF TypeOK
  <2>8. wait[c].op \in {"idle", "resolve"}
    BY <1>1
  <2> HIDE DEF used, id, new
  <2> QED BY <1>1, <2>1, <2>2, <2>3, <2>4, <2>5, <2>6, <2>7, <2>8, DialsKeeps
<1>3. CASE /\ DialFails(c, used) /\ Forget(TakenBack(c), PipeNode(c))
           /\ UNCHANGED <<events, asked>>
  BY <1>1, <1>3, ResolveFailsKeeps DEF Resumed
<1> QED BY <1>2, <1>3 DEF ResolveDone

LEMMA ConnectKeeps ==
    ASSUME NEW c \in Coroutines, NEW id \in OwnIds(c), NEW new \in FreeIds
    PROVE  IInv /\ Connect(c, id, new) => IInv'
<1> SUFFICES ASSUME IInv, Connect(c, id, new) PROVE IInv'
  OBVIOUS
<1>0. TypeOK /\ IdsInv /\ FdsInv /\ WaitInv
  BY DEF IInv
<1>1. /\ InLua(c) /\ new \in Ids \ eventids /\ eventids' = eventids \union {new}
      /\ UNCHANGED <<work, loop, shut, input>>
  BY DEF Connect, FreeIds
<1>2. /\ current = c /\ wait[c].op = "idle" /\ wait[c].op \notin NodeOps
      /\ timers[c] = NoId /\ \A s \in Signums : signals[s] # c
  BY <1>1, Running
<1>3. eventids \subseteq eventids' /\ eventids' \subseteq Ids /\ new \in eventids'
  BY <1>0, <1>1 DEF TypeOK
<1>4. CASE \E f \in Fds : Dials(c, id, new, f, open, table)
  <2>1. PICK f \in Fds : Dials(c, id, new, f, open, table)
    BY <1>4
  <2>2. Linked(table) = Registered \ {PipeNode(c)}
    BY <1>2, OwnNodesFree DEF Registered
  <2>3. \A d \in Coroutines \ {c} : wait[d].op = "resolve" => wait[d].new # new
    BY <1>0, <1>1 DEF WaitInv, WaitOK
  <2>4. new \in Ids \ DOMAIN events
    BY <1>0, <1>1 DEF IdsInv
  <2>5. /\ open \in SUBSET Fds /\ input' \subseteq open
        /\ TableType(table, Nodes) /\ Consistent(table)
    BY <1>0, <1>1 DEF TypeOK
  <2>6. \A a \in Owned : events[a].fd \in open
    BY <1>0 DEF FdsInv
  <2>7. \A d \in Pipes \ {c} : WaitFd(d) \in open
    BY <1>0 DEF FdsInv
  <2> QED BY <1>1, <1>2, <1>3, <2>1, <2>2, <2>3, <2>4, <2>5, <2>6, <2>7, DialsKeeps
<1>5. CASE DialFails(c, open) /\ UNCHANGED <<events, table, node, asked>>
  <2>1. OwnNode(c) = {} /\ Registered' = Registered
    BY <1>2, <1>5 DEF OwnNode, Registered
  <2>2. open \subseteq open' /\ open' \subseteq Fds /\ GoesOn(c)
    BY <1>0, <1>5 DEF TypeOK, DialFails, Lowest
  <2> QED BY <1>0, <1>1, <1>2, <1>3, <1>5, <2>1, <2>2, ReturnsKeeps
          DEF Returns, TypeOK, FdsInv, loop
<1> QED BY <1>4, <1>5 DEF Connect

\* A yield that registers no node: sleep, signal or the end.
LEMMA PauseKeeps ==
    ASSUME IInv, NEW c \in Coroutines, NEW doing \in Doings, InLua(c), Yields(c, doing),
           doing.op \in {"ended", "sleep", "signal"},
           UNCHANGED <<table, node, work, asked, phase, due, tables, kernel>>,
           timers' \in [Coroutines -> Ids \union {NoId}],
           timers'[c] # NoId => doing.op = "sleep",
           \A d \in Coroutines \ {c} : timers'[d] = timers[d],
           signals' \in [Signums -> Coroutines \union {NoCo}],
           \A s \in Signums : \/ signals'[s] = signals[s]
                              \/ signals[s] = NoCo /\ signals'[s] = c /\ doing.op = "signal",
           WaitOK(c)'
    PROVE  IInv'
<1>0. TypeOK /\ IdsInv /\ FdsInv
  BY DEF IInv
<1>1. /\ current = c /\ wait[c].op \notin NodeOps /\ c \notin Pipes
      /\ \A s \in Signums : signals[s] # c
  BY Running
<1>2. /\ wait' \in [Coroutines -> Doings]
      /\ wait' = [wait EXCEPT ![c] = doing] /\ wait'[c] = doing
      /\ \A d \in Coroutines \ {c} : wait'[d] = wait[d]
      /\ current' = NoCo /\ current' # c /\ i' \in Nat
  BY YieldType
<1>3. Registered' = Registered /\ UNCHANGED <<events, shut, eventids, open, input>>
  BY DEF Registered, tables, kernel
<1>4. TypeOK'
  BY <1>0, <1>2, <1>3 DEF TypeOK
<1>5. ASSUME NEW d \in Coroutines \ {c} PROVE Untouched(d)
  <2>1. \A s \in Signums : signals[s] = d => signals'[s] = d
    BY NobodyIsNobody
  <2>2. wait[d].op \in NodeOps =>
          WaitNode(d) \in Registered' /\ node'[WaitNode(d)] = node[WaitNode(d)]
    BY <1>3, WaitNodeIsNode
  <2> QED BY <1>2, <1>3, <2>1, <2>2, UntouchedInLua
<1>6. ReportOK(c)' /\ doing.op \notin NodeOps /\ c \notin Pipes'
  BY <1>2 DEF ReportOK, ReadOps, NodeOps, Pipes
<1>7. IdsInv' /\ Owned' = Owned
  BY <1>0, <1>3 DEF IdsInv, Listening, Owned
<1>8. FdsInv'
  <2>1. \A d \in Pipes' : d \in Pipes /\ WaitFd(d)' = WaitFd(d)
    BY <1>5, <1>6, OtherPipes DEF Pipes
  <2>2. \A a \in Owned' : events'[a].fd = events[a].fd /\ events[a].fd \in open'
    BY <1>0, <1>3, <1>7 DEF FdsInv
  <2>3. \A d \in Pipes' : WaitFd(d)' = WaitFd(d) /\ WaitFd(d) \in open'
    BY <1>0, <1>3, <2>1 DEF FdsInv
  <2> QED BY <1>0, <1>7, <2>1, <2>2, <2>3, FdsShrink
<1>9. RunInv' /\ WaitInv' /\ NewInv' /\ LinkInv' /\ ReportInv'
  <2>1. Acts(c, doing)
    BY <1>1, <1>2, <1>3, <1>5, <1>6 DEF Acts, Ops
  <2> QED BY <1>6, <2>1, ActorKeeps
<1> QED BY <1>4, <1>7, <1>8, <1>9 DEF IInv

LEMMA EndsKeeps == ASSUME NEW c \in Coroutines PROVE IInv /\ Ends(c) => IInv'
<1> SUFFICES ASSUME IInv, Ends(c) PROVE IInv'
  OBVIOUS
<1>0. TypeOK
  BY DEF IInv
<1>1. /\ InLua(c) /\ Yields(c, Ended)
      /\ UNCHANGED <<table, node, work, asked, loop, tables, kernel>>
  BY DEF Ends
<1>2. Ended \in Doings /\ Ended.op = "ended"
  BY DEF Ended, Doing, Doings, Ops
<1>3. wait'[c] = Ended
  BY <1>1, <1>2, YieldType
<1>4. WaitOK(c)'
  BY <1>2, <1>3 DEF WaitOK, Suspended, NodeOps, PipeOps
<1>5. timers[c] = NoId
  BY <1>1, Running
<1> QED BY <1>0, <1>1, <1>2, <1>4, <1>5, PauseKeeps DEF TypeOK, loop

LEMMA SleepKeeps ==
    ASSUME NEW c \in Coroutines, NEW id \in OwnIds(c) PROVE IInv /\ Sleep(c, id) => IInv'
<1> SUFFICES ASSUME IInv, Sleep(c, id) PROVE IInv'
  OBVIOUS
<1> DEFINE doing == Doing("sleep", id, NoId)
<1>0. TypeOK
  BY DEF IInv
<1>1. /\ InLua(c) /\ Yields(c, doing) /\ timers' = [timers EXCEPT ![c] = id]
      /\ UNCHANGED <<table, node, work, asked, phase, due, signals, tables, kernel>>
  BY DEF Sleep
<1>2. id \in Ids
  BY <1>1, Running
<1>3. doing \in Doings /\ doing.op = "sleep" /\ doing.id = id
  BY <1>2 DEF Doing, Doings, Ops
<1>4. wait'[c] = doing
  BY <1>1, <1>3, YieldType
<1>5. /\ timers' \in [Coroutines -> Ids \union {NoId}] /\ timers'[c] = id
      /\ \A d \in Coroutines \ {c} : timers'[d] = timers[d]
  BY <1>0, <1>1, <1>2 DEF TypeOK
<1>6. WaitOK(c)'
  <2>1. id \in OwnIds(c)'
    BY <1>1 DEF OwnIds, tables
  <2> QED BY <1>3, <1>4, <1>5, <2>1 DEF WaitOK, Suspended, NodeOps, PipeOps
<1> QED BY <1>0, <1>1, <1>3, <1>5, <1>6, PauseKeeps DEF TypeOK

LEMMA SignalKeeps ==
    ASSUME NEW c \in Coroutines, NEW id \in OwnIds(c), NEW s \in Signums
    PROVE  IInv /\ Signal(c, id, s) => IInv'
<1> SUFFICES ASSUME IInv, Signal(c, id, s) PROVE IInv'
  OBVIOUS
<1> DEFINE doing == Doing("signal", id, NoId)
<1>0. TypeOK
  BY DEF IInv
<1>1. /\ InLua(c) /\ Yields(c, doing) /\ signals[s] = NoCo
      /\ signals' = [signals EXCEPT ![s] = c]
      /\ UNCHANGED <<table, node, work, asked, phase, due, timers, tables, kernel>>
  BY DEF Signal
<1>2. id \in Ids /\ timers[c] = NoId
  BY <1>1, Running
<1>3. doing \in Doings /\ doing.op = "signal" /\ doing.id = id
  BY <1>2 DEF Doing, Doings, Ops
<1>4. wait'[c] = doing
  BY <1>1, <1>3, YieldType
<1>5. /\ signals' \in [Signums -> Coroutines \union {NoCo}] /\ signals'[s] = c
      /\ \A t \in Signums \ {s} : signals'[t] = signals[t]
  BY <1>0, <1>1 DEF TypeOK
<1>6. WaitOK(c)'
  <2>1. id \in OwnIds(c)'
    BY <1>1 DEF OwnIds, tables
  <2> QED BY <1>3, <1>4, <1>5, <2>1 DEF WaitOK, Suspended, NodeOps, PipeOps
<1> QED BY <1>0, <1>1, <1>2, <1>3, <1>5, <1>6, PauseKeeps DEF TypeOK

-----------------------------------------------------------------------------
(* Calls that do not yield                                                 *)

\* A coroutine in its own code gives up an id, or its descriptor: what it does not
\* own stays as it is.
GivesUp(c, id) ==
    /\ Registered' = Registered /\ \A m \in Registered : node'[m] = node[m]
    /\ UNCHANGED <<work, asked, timers, signals, wait, current>>
    /\ \A x \in DOMAIN events \ {id} :
         x \in DOMAIN events' /\ events'[x] = events[x] /\ (x \in shut' => x \in shut)
    /\ \A d \in Coroutines \ {c} :
         wait[d].op = "resolve" => wait[d].new \in eventids' \ DOMAIN events'
    /\ \A d \in Coroutines \ {c} :
         wait[d].op \in ReadOps /\ WaitFd(d) \in input => WaitFd(d) \in input'

LEMMA GivesUpKeeps ==
    ASSUME IInv, NEW c \in Coroutines, NEW id \in OwnIds(c), InLua(c), GivesUp(c, id)
    PROVE  /\ RunInv' /\ WaitInv' /\ NewInv' /\ LinkInv' /\ ReportInv'
           /\ \A d \in Pipes' : d \in Pipes /\ WaitFd(d)' = WaitFd(d)
<1>0. TypeOK
  BY DEF IInv
<1>1. /\ current = c /\ wait[c].op = "idle" /\ wait[c].op \notin NodeOps /\ c \notin Pipes
      /\ timers[c] = NoId /\ \A s \in Signums : signals[s] # c
      /\ events[id].co = c
  BY Running DEF OwnIds
<1>2. /\ wait' = wait /\ wait' = [wait EXCEPT ![c] = wait[c]] /\ current' = c
      /\ UNCHANGED <<work, asked, timers, signals>>
  BY <1>0, <1>1 DEF GivesUp, TypeOK
<1>3. ASSUME NEW d \in Coroutines \ {c} PROVE Untouched(d)
  <2>1. \A x \in OwnIds(d) :
          x \in DOMAIN events' /\ events'[x] = events[x] /\ (x \in shut' => x \in shut)
    BY <1>1 DEF OwnIds, GivesUp
  <2>2. wait[d].op \in NodeOps =>
          WaitNode(d) \in Registered' /\ node'[WaitNode(d)] = node[WaitNode(d)]
    BY WaitNodeIsNode DEF GivesUp
  <2>3. wait[d].op = "resolve" => wait[d].new \in eventids' \ DOMAIN events'
    BY DEF GivesUp
  <2> QED BY <1>2, <2>1, <2>2, <2>3 DEF Untouched
<1>4. WaitOK(c)' /\ ReportOK(c)'
  BY <1>1, <1>2 DEF WaitOK, ReportOK, Suspended, NodeOps, PipeOps, ReadOps
<1>5. \A x \in DOMAIN events : Listening(x) => x \in DOMAIN events' /\ events'[x] = events[x]
  BY <1>1, NobodyIsNobody DEF GivesUp, Listening
<1>6. \A m \in Registered' : m \in Registered /\ node'[m] = node[m]
  BY DEF GivesUp
<1>7. \A d \in Coroutines \ {c} :
        wait[d].op \in ReadOps /\ WaitFd(d) \in input => WaitFd(d) \in input'
  BY DEF GivesUp
<1>8. Acts(c, wait[c])
  BY <1>1, <1>2, <1>3, <1>5, <1>6, <1>7 DEF Acts, Ops
<1>9. \A d \in Pipes' : d \in Pipes /\ WaitFd(d)' = WaitFd(d)
  BY <1>1, <1>2, <1>3, OtherPipes DEF Pipes
<1> QED BY <1>4, <1>8, <1>9, ActorKeeps

\* The descriptor of an id is none that somebody else waits on.
LEMMA OwnFdIsOwn ==
    ASSUME IInv, NEW c \in Coroutines, NEW id \in Usable(c), NEW d \in Coroutines \ {c},
           wait[d].op \in NodeOps
    PROVE  WaitFd(d) # events[id].fd
<1>0. FdsInv /\ WaitOK(d)
  BY DEF IInv, WaitInv
<1>1. id \in Owned /\ events[id].co = c
  BY DEF Usable, OwnIds, Owned
<1>2. CASE wait[d].op \in PipeOps
  BY <1>0, <1>1, <1>2 DEF FdsInv, Pipes, PipeOps
<1>3. CASE wait[d].op \notin PipeOps
  <2>1. WaitId(d) \in Owned /\ events[WaitId(d)].co = d /\ WaitFd(d) = events[WaitId(d)].fd
    BY <1>0, <1>3 DEF WaitOK, Usable, OwnIds, Owned
  <2> QED BY <1>0, <1>1, <2>1 DEF FdsInv
<1> QED BY <1>2, <1>3

LEMMA CloseKeeps ==
    ASSUME NEW c \in Coroutines, NEW id \in OwnIds(c) PROVE IInv /\ Close(c, id) => IInv'
<1> SUFFICES ASSUME IInv, Close(c, id) PROVE IInv'
  OBVIOUS
<1> DEFINE f == events[id].fd
<1>0. TypeOK /\ IdsInv /\ FdsInv /\ WaitInv
  BY DEF IInv
<1>1. /\ InLua(c) /\ id \in Usable(c) /\ open' = open \ {f} /\ input' = input \ {f}
      /\ shut' = shut \union {id}
      /\ UNCHANGED <<backEnd, loop, events, eventids, wait, current>>
  BY DEF Close
<1>2. id \in Owned /\ id \in DOMAIN events /\ events[id].co = c /\ c # NoCo
  BY <1>1, NobodyIsNobody DEF Usable, OwnIds, Owned
<1>3. GivesUp(c, id)
  <2>1. \A d \in Coroutines \ {c} :
          wait[d].op = "resolve" => wait[d].new \in eventids' \ DOMAIN events'
    BY <1>0, <1>1 DEF WaitInv, WaitOK
  <2>2. \A d \in Coroutines \ {c} :
          wait[d].op \in ReadOps /\ WaitFd(d) \in input => WaitFd(d) \in input'
    BY <1>1, OwnFdIsOwn DEF ReadOps, NodeOps
  <2> QED BY <1>1, <2>1, <2>2 DEF GivesUp, backEnd, loop, Registered
<1>4. /\ RunInv' /\ WaitInv' /\ NewInv' /\ LinkInv' /\ ReportInv'
      /\ \A d \in Pipes' : d \in Pipes /\ WaitFd(d)' = WaitFd(d)
  BY <1>1, <1>3, GivesUpKeeps
<1>5. TypeOK'
  BY <1>0, <1>1 DEF TypeOK, backEnd, loop
<1>6. Owned' = Owned \ {id} /\ events' = events
  BY <1>1 DEF Owned
<1>7. IdsInv'
  <2>1. \A x \in DOMAIN events' : Listening(x)' => x # id /\ Listening(x)
    BY <1>2, <1>6 DEF Listening
  <2> QED BY <1>0, <1>1, <1>2, <1>6, <2>1 DEF IdsInv
<1>8. FdsInv'
  <2>1. \A a \in Owned' : events'[a].fd = events[a].fd /\ events[a].fd \in open'
    BY <1>0, <1>1, <1>2, <1>6 DEF FdsInv
  <2>2. \A d \in Pipes' : WaitFd(d)' = WaitFd(d) /\ WaitFd(d) \in open'
    BY <1>0, <1>1, <1>2, <1>4 DEF FdsInv
  <2> QED BY <1>0, <1>4, <1>6, <2>1, <2>2, FdsShrink
<1> QED BY <1>4, <1>5, <1>7, <1>8 DEF IInv

LEMMA CompleteKeeps ==
    ASSUME NEW c \in Coroutines, NEW id \in OwnIds(c) PROVE IInv /\ Complete(c, id) => IInv'
<1> SUFFICES ASSUME IInv, Complete(c, id) PROVE IInv'
  OBVIOUS
<1> DEFINE w == IdNode(id)
<1>0. TypeOK /\ IdsInv /\ FdsInv /\ WaitInv
  BY DEF IInv
<1>1. /\ InLua(c) /\ id \notin Usable(c)
      /\ events' = [x \in DOMAIN events \ {id} |-> events[x]]
      /\ eventids' = eventids \ {id} /\ shut' = shut \ {id}
      /\ Forget(table, w)
      /\ UNCHANGED <<work, asked, i, loop, kernel, wait, current>>
  BY DEF Complete, Freed
<1>2. id \in DOMAIN events /\ id \in Ids
  BY <1>1, Running
<1>3. w \in Nodes /\ w \notin Registered
  BY <1>1, <1>2, OwnNodesFree, NodesDiffer, Running
<1>4. /\ TableType(table', Nodes) /\ Consistent(table') /\ Registered' = Registered
  BY <1>0, <1>1, <1>3, FreshLemma DEF TypeOK, Forget, Registered
<1>5. /\ node' \in [Nodes -> Fields] /\ \A m \in Registered : node'[m] = node[m]
  <2>1. NoFields \in Fields /\ node' = [node EXCEPT ![w] = NoFields]
    BY <1>1 DEF NoFields, Fields, Forget
  <2> QED BY <1>0, <1>3, <2>1, NodeFd DEF TypeOK
<1>6. GivesUp(c, id)
  <2>1. \A d \in Coroutines \ {c} :
          wait[d].op = "resolve" => wait[d].new \in eventids' \ DOMAIN events'
    BY <1>0, <1>1, <1>2 DEF WaitInv, WaitOK
  <2> QED BY <1>1, <1>4, <1>5, <2>1 DEF GivesUp, loop, kernel
<1>7. /\ RunInv' /\ WaitInv' /\ NewInv' /\ LinkInv' /\ ReportInv'
      /\ \A d \in Pipes' : d \in Pipes /\ WaitFd(d)' = WaitFd(d)
  BY <1>1, <1>6, GivesUpKeeps
<1>8. TypeOK'
  BY <1>0, <1>1, <1>4, <1>5 DEF TypeOK, loop, kernel
<1>9. Owned' = Owned /\ \A a \in Owned : events'[a] = events[a]
  BY <1>1 DEF Owned, Usable
<1>10. IdsInv'
  BY <1>0, <1>1, <1>9 DEF IdsInv, Listening
<1>11. FdsInv'
  <2>1. \A a \in Owned' : events'[a].fd = events[a].fd /\ events[a].fd \in open'
    BY <1>0, <1>1, <1>9 DEF FdsInv, kernel
  <2>2. \A d \in Pipes' : WaitFd(d)' = WaitFd(d) /\ WaitFd(d) \in open'
    BY <1>0, <1>1, <1>7 DEF FdsInv, kernel
  <2> QED BY <1>0, <1>7, <1>9, <2>1, <2>2, FdsShrink
<1> QED BY <1>7, <1>8, <1>10, <1>11 DEF IInv

-----------------------------------------------------------------------------
(* New coroutines and listeners                                            *)

\* A coroutine that runs for the first time, with an id nobody has used.
Starts(c, id, f) ==
    /\ current = NoCo /\ NewCoroutine(c)
    /\ wait' = [wait EXCEPT ![c] = Idle] /\ current' = c
    /\ events' = WithId(id, c, f)
    /\ Registered' = Registered /\ \A m \in Registered : node'[m] = node[m]
    /\ UNCHANGED <<work, asked, timers, signals, shut>>
    /\ eventids \subseteq eventids' /\ eventids' \subseteq Ids /\ id \in eventids'
    /\ \A d \in Coroutines \ {c} :
         wait[d].op \in ReadOps /\ WaitFd(d) \in input => WaitFd(d) \in input'

LEMMA StartsKeeps ==
    ASSUME IInv, NEW c \in Coroutines, NEW id \in FreeIds, NEW f \in Fds \union {NoFd},
           Starts(c, id, f)
    PROVE  /\ RunInv' /\ WaitInv' /\ NewInv' /\ LinkInv' /\ ReportInv' /\ IdsInv'
           /\ DOMAIN events' \subseteq Ids
           /\ \A x \in DOMAIN events' :
                events'[x] \in [co : Coroutines \union {NoCo}, fd : Fds \union {NoFd}]
           /\ wait' \in [Coroutines -> Doings] /\ current' = c
           /\ events'[id].fd = f /\ \A x \in DOMAIN events : x # id /\ events'[x] = events[x]
           /\ Owned' = IF f = NoFd THEN Owned ELSE Owned \union {id}
           /\ \A d \in Pipes' : d \in Pipes /\ WaitFd(d)' = WaitFd(d)
<1>0. TypeOK /\ WaitInv /\ LinkInv /\ IdsInv
  BY DEF IInv
<1>1. id \in Ids \ DOMAIN events /\ id \notin eventids
  BY <1>0 DEF FreeIds, IdsInv
<1>2. /\ DOMAIN events' \subseteq Ids
      /\ \A x \in DOMAIN events' :
           events'[x] \in [co : Coroutines \union {NoCo}, fd : Fds \union {NoFd}]
      /\ IdsInv'
      /\ Owned' = IF f = NoFd THEN Owned ELSE Owned \union {id}
      /\ \A d \in Coroutines \ {c} : OwnIds(d)' = OwnIds(d)
      /\ \A x \in DOMAIN events : x # id /\ events'[x] = events[x]
  BY <1>1, NobodyIsNobody, NewIdKeeps DEF Starts
<1>3. DOMAIN events' = DOMAIN events \union {id} /\ events'[id] = [co |-> c, fd |-> f]
  <2>1. events' = WithId(id, c, f)
    BY DEF Starts
  <2> QED BY <2>1 DEF WithId
<1>4. /\ Idle \in Doings /\ Idle.op = "idle"
      /\ wait[c].op = "ended" /\ wait[c].op \notin NodeOps /\ c \notin Pipes
      /\ timers[c] = NoId /\ \A s \in Signums : signals[s] # c
  <2>1. Idle \in Doings /\ Idle.op = "idle"
    BY DEF Idle, Doing, Doings, Ops
  <2>2. wait[c].op = "ended" /\ wait[c].op \notin NodeOps /\ c \notin Pipes
    BY DEF Starts, NewCoroutine, NodeOps, Pipes
  <2>3. timers[c] = NoId /\ \A s \in Signums : signals[s] # c
    BY <1>0, <2>2, NobodyIsNobody DEF LinkInv
  <2> QED BY <2>1, <2>2, <2>3
<1>5. /\ wait' \in [Coroutines -> Doings] /\ wait'[c] = Idle
      /\ \A d \in Coroutines \ {c} : wait'[d] = wait[d]
      /\ wait' = [wait EXCEPT ![c] = Idle] /\ current = NoCo /\ current' = c
      /\ UNCHANGED <<work, asked, timers, signals, shut>>
  BY <1>0, <1>4 DEF TypeOK, Starts
<1>6. ASSUME NEW d \in Coroutines \ {c} PROVE Untouched(d)
  <2>1. wait[d].op \in NodeOps =>
          WaitNode(d) \in Registered' /\ node'[WaitNode(d)] = node[WaitNode(d)]
    BY WaitNodeIsNode DEF Starts
  <2>2. wait[d].op = "resolve" => wait[d].new \in eventids' \ DOMAIN events'
    BY <1>0, <1>1, <1>3 DEF WaitInv, WaitOK, Starts
  <2>3. \A x \in OwnIds(d) :
          x \in DOMAIN events' /\ events'[x] = events[x] /\ (x \in shut' => x \in shut)
    BY <1>2, <1>3, <1>5 DEF OwnIds
  <2> QED BY <1>5, <2>1, <2>2, <2>3 DEF Untouched
<1>7. WaitOK(c)' /\ ReportOK(c)' /\ c \notin Pipes'
  BY <1>4, <1>5 DEF WaitOK, ReportOK, Suspended, NodeOps, PipeOps, ReadOps, Pipes
<1>8. \A d \in Pipes' : d \in Pipes /\ WaitFd(d)' = WaitFd(d)
  BY <1>6, <1>7, OtherPipes DEF Pipes
<1>9. RunInv' /\ WaitInv' /\ NewInv' /\ LinkInv' /\ ReportInv'
  <2>1. \A m \in Registered' : m \in Registered /\ node'[m] = node[m]
    BY DEF Starts
  <2>2. \A x \in DOMAIN events : x \in DOMAIN events' /\ events'[x] = events[x]
    BY <1>2, <1>3
  <2>3. \A d \in Coroutines \ {c} :
          wait[d].op \in ReadOps /\ WaitFd(d) \in input => WaitFd(d) \in input'
    BY DEF Starts
  <2>4. Acts(c, Idle)
    BY <1>4, <1>5, <1>6, <2>1, <2>2, <2>3 DEF Acts, Ops
  <2> QED BY <1>7, <2>4, ActorKeeps
<1> QED BY <1>2, <1>3, <1>5, <1>8, <1>9

LEMMA CoroutineKeeps ==
    ASSUME NEW id \in FreeIds, NEW c \in Coroutines PROVE IInv /\ Coroutine(c, id) => IInv'
<1> SUFFICES ASSUME IInv, Coroutine(c, id) PROVE IInv'
  OBVIOUS
<1>0. TypeOK /\ FdsInv
  BY DEF IInv
<1>1. Starts(c, id, NoFd) /\ UNCHANGED <<backEnd, loop, kernel>>
  BY <1>0 DEF Coroutine, StartUp, Starts, FreeIds, TypeOK, backEnd, loop, kernel, Registered
<1>2. /\ RunInv' /\ WaitInv' /\ NewInv' /\ LinkInv' /\ ReportInv' /\ IdsInv'
      /\ DOMAIN events' \subseteq Ids
      /\ \A x \in DOMAIN events' :
           events'[x] \in [co : Coroutines \union {NoCo}, fd : Fds \union {NoFd}]
      /\ wait' \in [Coroutines -> Doings] /\ current' = c
      /\ \A x \in DOMAIN events : x # id /\ events'[x] = events[x]
      /\ Owned' = Owned
      /\ \A d \in Pipes' : d \in Pipes /\ WaitFd(d)' = WaitFd(d)
  BY <1>1, StartsKeeps
<1>3. TypeOK'
  BY <1>0, <1>1, <1>2 DEF TypeOK, Starts, backEnd, loop, kernel
<1>4. FdsInv'
  <2>1. \A a \in Owned' : events'[a].fd = events[a].fd /\ events[a].fd \in open'
    BY <1>0, <1>1, <1>2 DEF FdsInv, Owned, kernel
  <2>2. \A d \in Pipes' : WaitFd(d)' = WaitFd(d) /\ WaitFd(d) \in open'
    BY <1>0, <1>1, <1>2 DEF FdsInv, kernel
  <2> QED BY <1>0, <1>2, <2>1, <2>2, FdsShrink
<1> QED BY <1>2, <1>3, <1>4 DEF IInv

\* The node of a listener is nobody's who waits.
LEMMA ListenerIsNoWaiter ==
    ASSUME IInv, NEW w \in Registered, Listening(node[w].id),
           NEW d \in Coroutines, wait[d].op \in NodeOps
    PROVE  WaitFd(d) # node[w].fd
<1>1. WaitNode(d) \in Registered /\ node[WaitNode(d)].id = WaitId(d)
  BY DEF IInv, WaitInv, WaitOK
<1>2. WaitId(d) \in OwnIds(d)
  BY DEF IInv, WaitInv, WaitOK, WaitId, Usable, Suspended, Ops, NodeOps, PipeOps
<1>3. WaitNode(d) # w
  BY <1>1, <1>2, NobodyIsNobody DEF OwnIds, Listening
<1> QED BY <1>1, <1>3, NodesApart DEF OneWaiterEach, WaitFd

LEMMA AcceptKeeps ==
    ASSUME NEW c \in Coroutines, NEW id \in FreeIds, NEW f \in Fds
    PROVE  IInv /\ Accept(c, id, f) => IInv'
<1> SUFFICES ASSUME IInv, Accept(c, id, f) PROVE IInv'
  OBVIOUS
<1> DEFINE w == IdNode(id)
<1>0. TypeOK /\ FdsInv /\ IdsInv
  BY DEF IInv
<1>1. /\ current = NoCo /\ i < table.count /\ Listening(node[At].id)
      /\ f \in Fds \ open /\ NewCoroutine(c) /\ open' = open \union {f}
      /\ input' = input \ {node[At].fd} /\ eventids' = eventids \union {id}
      /\ table' = Fresh(table, w)
      /\ node' = [node EXCEPT ![w] = [fd |-> f, type |-> "read", id |-> id]]
      /\ events' = WithId(id, c, f) /\ wait' = [wait EXCEPT ![c] = Idle] /\ current' = c
      /\ UNCHANGED <<work, asked, i, loop, shut>>
  BY DEF Accept, Walking, WalkBound, Lowest, AcceptedFd
<1>2. At \in Registered
  <2>1. i \in 0 .. table.count - 1
    BY <1>0, <1>1 DEF TypeOK, TableType
  <2> QED BY <1>0, <2>1, SlotLemma DEF TypeOK, At, Registered
<1>3. id \in Ids \ DOMAIN events /\ w \in Nodes /\ w \notin Registered
  BY <1>0, NewNodesFree, NodesDiffer DEF FreeIds, IdsInv
<1>4. /\ TableType(table', Nodes) /\ Consistent(table') /\ Registered' = Registered
  BY <1>0, <1>1, <1>3, FreshLemma DEF TypeOK, Registered
<1>5. /\ node' \in [Nodes -> Fields] /\ \A m \in Registered : node'[m] = node[m]
  <2>1. [fd |-> f, type |-> "read", id |-> id] \in Fields
    BY <1>3 DEF Fields
  <2> QED BY <1>0, <1>1, <1>3, <2>1, NodeFd DEF TypeOK
<1>6. Starts(c, id, f)
  <2>1. \A d \in Coroutines \ {c} :
          wait[d].op \in ReadOps /\ WaitFd(d) \in input => WaitFd(d) \in input'
    BY <1>1, <1>2, ListenerIsNoWaiter DEF ReadOps, NodeOps
  <2>2. eventids \subseteq eventids' /\ eventids' \subseteq Ids /\ id \in eventids'
    BY <1>0, <1>1, <1>3 DEF TypeOK
  <2> QED BY <1>1, <1>4, <1>5, <2>1, <2>2 DEF Starts, loop
<1>7. /\ RunInv' /\ WaitInv' /\ NewInv' /\ LinkInv' /\ ReportInv' /\ IdsInv'
      /\ DOMAIN events' \subseteq Ids
      /\ \A x \in DOMAIN events' :
           events'[x] \in [co : Coroutines \union {NoCo}, fd : Fds \union {NoFd}]
      /\ wait' \in [Coroutines -> Doings] /\ current' = c
      /\ events'[id].fd = f /\ \A x \in DOMAIN events : x # id /\ events'[x] = events[x]
      /\ Owned' = Owned \union {id}
      /\ \A d \in Pipes' : d \in Pipes /\ WaitFd(d)' = WaitFd(d)
  BY <1>6, StartsKeeps, NobodyIsNobody
<1>8. TypeOK'
  BY <1>0, <1>1, <1>4, <1>5, <1>6, <1>7 DEF TypeOK, Starts, loop
<1>9. FdsInv'
  <2>1. \A a \in Owned' \ {id} : events'[a].fd = events[a].fd /\ events[a].fd \in open
    BY <1>0, <1>7 DEF FdsInv, Owned
  <2>2. \A d \in Pipes' : WaitFd(d)' = WaitFd(d) /\ WaitFd(d) \in open
    BY <1>0, <1>7 DEF FdsInv
  <2>3. Owned' \subseteq Owned \union {id} /\ Pipes' \subseteq Pipes /\ open \in SUBSET Fds
    BY <1>0, <1>7 DEF TypeOK
  <2> QED BY <1>0, <1>1, <1>7, <2>1, <2>2, <2>3, FdsGrowId
<1> QED BY <1>7, <1>8, <1>9 DEF IInv

LEMMA ListenKeeps ==
    ASSUME NEW id \in FreeIds, NEW f \in Fds PROVE IInv /\ Listen(id, f) => IInv'
<1> SUFFICES ASSUME IInv, Listen(id, f) PROVE IInv'
  OBVIOUS
<1> DEFINE w == IdNode(id)
<1>0. TypeOK /\ RunInv /\ IdsInv /\ WaitInv /\ NewInv /\ LinkInv /\ FdsInv /\ ReportInv
  BY DEF IInv
<1>1. /\ f \in Fds \ open /\ open' = open \union {f}
      /\ eventids' = eventids \union {id} /\ events' = WithId(id, NoCo, f)
      /\ AddTo(Fresh(table, w), w, f, "read", id)
      /\ UNCHANGED <<work, i, loop, shut, input, wait, current>>
  BY DEF Listen, Lowest
<1>2. id \in Ids \ DOMAIN events /\ id \notin eventids /\ w \in Nodes /\ w \notin Registered
  BY <1>0, NewNodesFree, NodesDiffer DEF FreeIds, IdsInv
<1>3. Registers(w, f, "read", id)
  BY <1>1, <1>2, AddRegisters
<1>4. eventids \subseteq eventids' /\ eventids' \subseteq Ids /\ id \in eventids'
  BY <1>0, <1>1, <1>2 DEF TypeOK
<1>5. /\ DOMAIN events' \subseteq Ids
      /\ \A x \in DOMAIN events' :
           events'[x] \in [co : Coroutines \union {NoCo}, fd : Fds \union {NoFd}]
      /\ IdsInv'
      /\ Owned' = Owned \union {id}
      /\ \A d \in Coroutines \ {NoCo} : OwnIds(d)' = OwnIds(d)
      /\ \A x \in DOMAIN events : x # id /\ events'[x] = events[x]
  BY <1>1, <1>2, <1>4, NobodyIsNobody, NewIdKeeps
<1>6. DOMAIN events' = DOMAIN events \union {id} /\ events'[id] = [co |-> NoCo, fd |-> f]
  <2>1. events' = WithId(id, NoCo, f)
    BY <1>1
  <2> QED BY <2>1 DEF WithId
<1>7. TypeOK'
  <2>1. open' \subseteq Fds /\ input' \subseteq open'
    BY <1>0, <1>1 DEF TypeOK
  <2> QED BY <1>0, <1>1, <1>3, <1>4, <1>5, <2>1 DEF TypeOK, Registers, loop
<1>8. ASSUME NEW d \in Coroutines PROVE Untouched(d)
  <2>1. wait[d].op \in NodeOps =>
          WaitNode(d) \in Registered' /\ node'[WaitNode(d)] = node[WaitNode(d)]
    BY <1>2, <1>3, WaitNodeIsNode DEF Registers
  <2>2. wait[d].op = "resolve" => wait[d].new \in eventids' \ DOMAIN events'
    BY <1>0, <1>1, <1>2, <1>6 DEF WaitInv, WaitOK
  <2>3. \A x \in OwnIds(d) :
          x \in DOMAIN events' /\ events'[x] = events[x] /\ (x \in shut' => x \in shut)
    BY <1>1, <1>5, <1>6 DEF OwnIds
  <2> QED BY <1>1, <2>1, <2>2, <2>3 DEF Untouched, loop
<1>9. RunInv' /\ NewInv' /\ WaitInv'
  BY <1>0, <1>1, <1>8, UntouchedKeeps DEF RunInv, NewInv, WaitInv
<1>10. ReportInv'
  <2>1. \A d \in Coroutines : ReportOK(d) /\ WaitOK(d)
    BY <1>0 DEF WaitInv, ReportInv
  <2>2. asked' \subseteq asked
    BY <1>3 DEF Registers
  <2> QED BY <1>1, <1>8, <2>1, <2>2, ReportStays DEF ReportInv
<1>11. LinkInv'
  <2>1. ASSUME NEW m \in Registered' PROVE Listens(m)' \/ WaitedFor(m)'
    <3>1. CASE m = w
      BY <1>3, <1>6, <3>1 DEF Listens, Listening, Registers
    <3>2. CASE m # w
      <4>1. m \in Registered /\ node'[m] = node[m]
        BY <1>3, <3>2, NodeFd DEF Registers
      <4>2. \A x \in DOMAIN events : x \in DOMAIN events' /\ events'[x] = events[x]
        BY <1>5, <1>6
      <4> QED BY <1>1, <4>1, <4>2, LinksStay
    <3> QED BY <3>1, <3>2
  <2> QED BY <1>0, <1>1, <2>1 DEF LinkInv, loop
<1>12. FdsInv'
  <2>1. \A a \in Owned' \ {id} : events'[a].fd = events[a].fd /\ events[a].fd \in open
    BY <1>0, <1>5 DEF FdsInv, Owned
  <2>2. Pipes' = Pipes /\ \A d \in Pipes : wait[d].op \in NodeOps /\ d \in Coroutines
    BY <1>1 DEF Pipes, NodeOps
  <2>3. \A d \in Pipes' : WaitFd(d)' = WaitFd(d) /\ WaitFd(d) \in open
    BY <1>0, <1>8, <2>2, UntouchedKeeps DEF FdsInv, WaitInv
  <2>4. open \in SUBSET Fds /\ events'[id].fd = f
    BY <1>0, <1>6 DEF TypeOK
  <2> QED BY <1>0, <1>1, <1>5, <2>1, <2>2, <2>3, <2>4, FdsGrowId
<1> QED BY <1>5, <1>7, <1>9, <1>10, <1>11, <1>12 DEF IInv

-----------------------------------------------------------------------------
(* Every step                                                              *)

LEMMA NextKeeps == IInv /\ [Next]_vars => IInv'
<1> SUFFICES ASSUME IInv, [Next]_vars PROVE IInv'
  OBVIOUS
<1>1. CASE StartNext
  BY <1>1, CoroutineKeeps, ListenKeeps, ListenFailsKeeps DEF StartNext
<1>2. CASE LoopNext
  <2>1. CASE Turn
    BY <2>1, TurnKeeps
  <2>2. CASE CallNode
    BY <2>2, CallNodeKeeps
  <2>3. CASE SkipNode \/ AcceptFails
    BY <2>3, SkipKeeps
  <2>4. CASE WalkEnds
    BY <2>4, WalkEndKeeps
  <2>5. CASE TimersEnd
    BY <2>5, TimersEndKeeps
  <2>6. CASE \E c \in Coroutines, id \in FreeIds, f \in Fds : Accept(c, id, f)
    BY <2>6, AcceptKeeps
  <2>7. CASE \E c \in Coroutines : CallTimer(c)
    BY <2>7, CallTimerKeeps
  <2>8. CASE \E s \in Signums : CallSignal(s)
    BY <2>8, CallSignalKeeps
  <2> QED BY <1>2, <2>1, <2>2, <2>3, <2>4, <2>5, <2>6, <2>7, <2>8 DEF LoopNext
<1>3. ASSUME NEW c \in Coroutines, CallNext(c) PROVE IInv'
  <2>1. CASE Ends(c)
    BY <2>1, EndsKeeps
  <2>2. ASSUME NEW id \in OwnIds(c), NEW type \in {"read", "write"}, ReadOrWrite(c, id, type)
        PROVE  IInv'
    BY <2>2, ReadOrWriteKeeps
  <2>3. ASSUME NEW id \in OwnIds(c), NEW f \in Fds, Popen(c, id, f) PROVE IInv'
    BY <2>3, PopenKeeps
  <2>4. ASSUME NEW id \in OwnIds(c), NEW new \in FreeIds, Connect(c, id, new) PROVE IInv'
    BY <2>4, ConnectKeeps
  <2>5. ASSUME NEW id \in OwnIds(c), NEW new \in FreeIds, NEW f \in Fds,
               ConnectByName(c, id, new, f)
        PROVE  IInv'
    BY <2>5, ConnectByNameKeeps
  <2>6. ASSUME NEW id \in OwnIds(c), Sleep(c, id) PROVE IInv'
    BY <2>6, SleepKeeps
  <2>7. ASSUME NEW id \in OwnIds(c), NEW s \in Signums, Signal(c, id, s) PROVE IInv'
    BY <2>7, SignalKeeps
  <2>8. ASSUME NEW id \in OwnIds(c), Close(c, id) PROVE IInv'
    BY <2>8, CloseKeeps
  <2>9. ASSUME NEW id \in OwnIds(c), Complete(c, id) PROVE IInv'
    BY <2>9, CompleteKeeps
  <2> QED BY <1>3, <2>1, <2>2, <2>3, <2>4, <2>5, <2>6, <2>7, <2>8, <2>9 DEF CallNext
<1>4. ASSUME NEW c \in Coroutines, ResumedNext(c) PROVE IInv'
  BY <1>4, ReadDoneKeeps, WriteOrConnectDoneKeeps, PopenDoneKeeps, ResolveDoneKeeps,
     SleepDoneKeeps, SignalDoneKeeps DEF ResumedNext
<1>5. CASE EventidSpins \/ Spinning \/ UNCHANGED vars
  BY <1>5, SpinKeeps DEF Spinning
<1>6. CASE \E f \in Fds : Arrives(f)
  BY <1>6, ArrivalKeeps
<1> QED BY <1>1, <1>2, <1>3, <1>4, <1>5, <1>6 DEF Next

\* The inductive invariant, from which the theorems follow: at any moment a
\* suspended coroutine owns the ids of its call and has registered what the call
\* waits for, only it and the listeners have anything registered, and descriptors
\* of different owners differ.
THEOREM Inductive == Spec => []IInv
<1>1. Init => IInv
  BY InitHolds
<1>2. IInv /\ [Next]_vars => IInv'
  BY NextKeeps
<1> QED BY <1>1, <1>2, PTL DEF Spec

\* pipeline.lua's tables, the nodes, timers and signals keep their types, whatever
\* the tasks do, and the array of nodes stays without gaps.
THEOREM TypesHold == Spec => []TypeOK
<1>1. IInv => TypeOK
  BY DEF IInv
<1> QED BY <1>1, Inductive, PTL

\* WakesItsWaiter: the hooks oread, owrite, otimer and osignal find, under the id
\* they are given, the coroutine that waits for exactly that node, timer or signal.
THEOREM RightOneWoken == Spec => []WakesItsWaiter
<1>1. IInv => WakesItsWaiter
  BY HooksFindWaiters
<1> QED BY <1>1, Inductive, PTL

\* NobodyForgotten: no call of another coroutine takes the registration of a
\* suspended one away.
THEOREM NoneForgotten == Spec => []NobodyForgotten
<1>1. IInv => NobodyForgotten
  BY RegistrationsThere
<1> QED BY <1>1, Inductive, PTL

\* OneWaiterEach: registered nodes hold open descriptors, no two the same one, as
\* the sets of nspr_select.c need.
THEOREM WaitersApart == Spec => []OneWaiterEach
<1>1. IInv => OneWaiterEach
  BY NodesApart
<1> QED BY <1>1, Inductive, PTL

\* OneOwnerEach: the entries of events share no descriptor with each other, nor
\* with a popen under way, though ids and numbers are used again.
THEOREM DescriptorsOwned == Spec => []OneOwnerEach
<1>1. IInv => OneOwnerEach
  BY OwnersApart
<1> QED BY <1>1, Inductive, PTL

\* OnlyLateNodesBlock: what select() said of a node it was asked about is still
\* true when the hook resumes the coroutine, so its read does not block.
THEOREM AskedNodesReady == Spec => []OnlyLateNodesBlock
<1>1. IInv => OnlyLateNodesBlock
  BY OldNodesHaveInput
<1> QED BY <1>1, Inductive, PTL

-----------------------------------------------------------------------------
(* Ids and descriptors come back                                           *)

KnownIds ==
    DOMAIN events \union {wait[c].new : c \in {d \in Coroutines : wait[d].op = "resolve"}}
KnownFds == {events[id].fd : id \in Owned} \union {WaitFd(c) : c \in Pipes}
NoneLost == LostIds' \subseteq LostIds /\ LostFds' \subseteq LostFds

\* What the popen or the look-up of a coroutine holds stays with it, or comes to
\* be known otherwise, or is given back.
PipeStays(c) ==
    wait[c].op \in PipeOps => wait'[c] = wait[c] /\ node'[PipeNode(c)] = node[PipeNode(c)]
PipeKnown(c) ==
    /\ wait[c].op = "resolve" => wait[c].new \in KnownIds'
    /\ wait[c].op \in PipeOps => WaitFd(c) \in KnownFds' \/ WaitFd(c) \notin open'

LEMMA StaysKnown == ASSUME NEW c \in Coroutines, PipeStays(c) PROVE PipeKnown(c)
<1>1. CASE wait[c].op \in PipeOps
  <2>1. wait'[c] = wait[c] /\ node'[PipeNode(c)] = node[PipeNode(c)]
    BY <1>1 DEF PipeStays
  <2>2. WaitFd(c)' = WaitFd(c) /\ c \in Pipes'
    BY <1>1, <2>1 DEF WaitFd, WaitNode, Pipes, PipeOps
  <2> QED BY <2>1, <2>2 DEF PipeKnown, KnownIds, KnownFds
<1>2. CASE wait[c].op \notin PipeOps
  BY <1>2 DEF PipeKnown, PipeOps
<1> QED BY <1>1, <1>2

LEMMA NothingLost ==
    ASSUME \A x \in eventids' : x \in eventids \/ x \in KnownIds',
           \A x \in DOMAIN events : x \in DOMAIN events' \/ x \notin eventids',
           \A f \in open' : f \in open \/ f \in KnownFds',
           \A a \in Owned : \/ a \in Owned' /\ events'[a].fd = events[a].fd
                            \/ events[a].fd \notin open',
           \A c \in Coroutines : PipeStays(c) \/ PipeKnown(c)
    PROVE  NoneLost
<1>1. \A c \in Coroutines : PipeKnown(c)
  BY StaysKnown
<1>2. ASSUME NEW x \in LostIds' PROVE x \in LostIds
  <2>1. x \in eventids' /\ x \notin KnownIds'
    BY DEF LostIds, KnownIds
  <2>2. x \in eventids /\ x \notin DOMAIN events
    BY <2>1 DEF KnownIds
  <2>3. \A c \in Coroutines : wait[c].op = "resolve" => wait[c].new # x
    BY <1>1, <2>1 DEF PipeKnown
  <2> QED BY <2>2, <2>3 DEF LostIds
<1>3. ASSUME NEW f \in LostFds' PROVE f \in LostFds
  <2>1. f \in open' /\ f \notin KnownFds'
    BY DEF LostFds, KnownFds
  <2>2. f \in open
    BY <2>1
  <2>3. \A a \in Owned : events[a].fd # f
    BY <2>1 DEF KnownFds
  <2>4. \A c \in Pipes : WaitFd(c) # f
    BY <1>1, <2>1 DEF PipeKnown, Pipes, PipeOps
  <2> QED BY <2>2, <2>3, <2>4 DEF LostFds
<1> QED BY <1>2, <1>3 DEF NoneLost

\* A step that neither takes nor gives up an id or a descriptor.
LEMMA NothingTaken ==
    ASSUME UNCHANGED <<events, shut, eventids, open>>, \A c \in Coroutines : PipeStays(c)
    PROVE  NoneLost
<1>1. Owned' = Owned
  BY DEF Owned
<1> QED BY <1>1, NothingLost

\* A step that takes one id for a table with a descriptor that is its own.
LEMMA NewIdKnown ==
    ASSUME IInv, NEW id \in Ids \ DOMAIN events, NEW c, NEW f \in Fds \union {NoFd},
           events' = WithId(id, c, f), shut' = shut, eventids' \subseteq eventids \union {id},
           f = NoFd => open' \subseteq open, open' \subseteq open \union {f},
           \A d \in Coroutines : PipeStays(d) \/ PipeKnown(d)
    PROVE  NoneLost
<1>1. DOMAIN events' = DOMAIN events \union {id} /\ events'[id].fd = f
  BY DEF WithId
<1>2. \A x \in DOMAIN events : x # id /\ events'[x] = events[x]
  BY DEF WithId
<1>3. \A a \in Owned : a \in Owned' /\ events'[a].fd = events[a].fd
  BY <1>1, <1>2 DEF Owned
<1>4. \A x \in eventids' : x \in eventids \/ x \in KnownIds'
  BY <1>1 DEF KnownIds
<1>5. \A g \in open' : g \in open \/ g \in KnownFds'
  <2>1. id \notin shut
    BY DEF IInv, IdsInv
  <2>2. f # NoFd => id \in Owned'
    BY <1>1, <2>1 DEF Owned
  <2> QED BY <1>1, <2>2 DEF KnownFds
<1> QED BY <1>1, <1>3, <1>4, <1>5, NothingLost

LEMMA FreeIsNew == ASSUME IInv, NEW id \in FreeIds PROVE id \in Ids \ DOMAIN events
BY DEF IInv, IdsInv, FreeIds

LEMMA StartLosesNothing ==
    ASSUME IInv, NEW id \in FreeIds
    PROVE  /\ \A c \in Coroutines : Coroutine(c, id) => NoneLost
           /\ \A f \in Fds : Listen(id, f) => NoneLost
           /\ ListenFails(id) => ListenFailed
<1>1. ASSUME NEW c \in Coroutines, Coroutine(c, id) PROVE NoneLost
  <2>1. /\ wait[c].op = "ended" /\ wait' = [wait EXCEPT ![c] = Idle]
        /\ events' = WithId(id, c, NoFd) /\ eventids' = eventids \union {id}
        /\ UNCHANGED <<node, shut, open>>
    BY <1>1 DEF Coroutine, NewCoroutine, backEnd, kernel
  <2>2. \A d \in Coroutines : PipeStays(d)
    BY <2>1 DEF PipeStays, PipeOps, IInv, TypeOK
  <2> QED BY <2>1, <2>2, FreeIsNew, NewIdKnown
<1>2. ASSUME NEW f \in Fds, Listen(id, f) PROVE NoneLost
  <2>1. /\ events' = WithId(id, NoCo, f) /\ eventids' = eventids \union {id}
        /\ node' = [node EXCEPT ![IdNode(id)] = [fd |-> f, type |-> "read", id |-> id]]
        /\ open' = open \union {f} /\ UNCHANGED <<shut, wait>>
    BY <1>2 DEF Listen, AddTo
  <2>2. \A d \in Coroutines : PipeStays(d)
    BY <2>1, NodesDiffer, FreeIsNew DEF PipeStays, IInv, TypeOK
  <2> QED BY <2>1, <2>2, FreeIsNew, NewIdKnown, NobodyIsNobody
<1>3. ListenFails(id) => ListenFailed
  BY DEF ListenFails, ListenFailed, TakesAnId, FreeIds
<1> QED BY <1>1, <1>2, <1>3

LEMMA LoopLosesNothing == ASSUME IInv, LoopNext PROVE NoneLost
<1>1. CASE \E c \in Coroutines, id \in FreeIds, f \in Fds : Accept(c, id, f)
  <2>1. PICK c \in Coroutines, id \in FreeIds, f \in Fds : Accept(c, id, f)
    BY <1>1
  <2>2. /\ wait[c].op = "ended" /\ wait' = [wait EXCEPT ![c] = Idle]
        /\ events' = WithId(id, c, f) /\ eventids' = eventids \union {id}
        /\ node' = [node EXCEPT ![IdNode(id)] = [fd |-> f, type |-> "read", id |-> id]]
        /\ open' = open \union {f} /\ shut' = shut
    BY <2>1 DEF Accept, NewCoroutine, AcceptedFd
  <2>3. \A d \in Coroutines : PipeStays(d)
    BY <2>2, NodesDiffer, FreeIsNew DEF PipeStays, PipeOps, IInv, TypeOK
  <2> QED BY <2>2, <2>3, FreeIsNew, NewIdKnown, NobodyIsNobody
<1>2. CASE UNCHANGED <<node, tables, open, wait>>
  BY <1>2, NothingTaken DEF PipeStays, tables
<1>3. CASE Turn \/ WalkEnds \/ TimersEnd
  BY <1>2, <1>3 DEF Turn, WalkEnds, TimersEnd, backEnd, kernel
<1>4. CASE CallNode \/ SkipNode \/ AcceptFails
  BY <1>2, <1>4 DEF CallNode, SkipNode, AcceptFails, kernel
<1>5. CASE \E c \in Coroutines : CallTimer(c)
  BY <1>2, <1>5 DEF CallTimer, kernel
<1>6. CASE \E s \in Signums : CallSignal(s)
  BY <1>2, <1>6 DEF CallSignal, kernel
<1> QED BY <1>1, <1>3, <1>4, <1>5, <1>6 DEF LoopNext

\* A call of a coroutine that holds no pipe before it or after it.
LEMMA PipelessStep ==
    ASSUME IInv, NEW c \in Coroutines, wait[c].op \notin PipeOps,
           \A d \in Coroutines \ {c} : wait'[d] = wait[d],
           \/ node' = node
           \/ \E id \in Ids : \E v : node' = [node EXCEPT ![IdNode(id)] = v]
    PROVE  \A d \in Coroutines : PipeStays(d)
BY NodesDiffer DEF PipeStays, IInv, TypeOK

\* The calls on an id of the coroutine: all but a connect that fails.
LEMMA CallLosesNothing ==
    ASSUME IInv, NEW c \in Coroutines, CallNext(c) PROVE NoneLost \/ ConnectFailed(c)
<1>0. TypeOK
  BY DEF IInv
<1>1. ASSUME NEW doing, doing.op \notin PipeOps, InLua(c), Yields(c, doing),
             UNCHANGED <<tables, open>>,
             \/ node' = node
             \/ \E x \in Ids : \E v : node' = [node EXCEPT ![IdNode(x)] = v]
      PROVE  NoneLost
  <2>1. wait[c].op \notin PipeOps /\ \A d \in Coroutines \ {c} : wait'[d] = wait[d]
    BY <1>0, <1>1 DEF InLua, PipeOps, Yields, TypeOK
  <2> QED BY <1>1, <2>1, PipelessStep, NothingTaken DEF tables
<1>2. CASE Ends(c)
  BY <1>1, <1>2 DEF Ends, Ended, Doing, PipeOps, kernel
<1>3. ASSUME NEW id \in OwnIds(c), NEW type \in {"read", "write"}, ReadOrWrite(c, id, type)
      PROVE  NoneLost
  <2>1. id \in Ids
    BY <1>0 DEF OwnIds, TypeOK
  <2>2. Doing(type, id, NoId).op \notin PipeOps
    BY DEF Doing, PipeOps
  <2> QED BY <1>1, <1>3, <2>1, <2>2 DEF ReadOrWrite, AddTo, kernel
<1>4. ASSUME NEW id \in OwnIds(c), Sleep(c, id) PROVE NoneLost
  BY <1>1, <1>4 DEF Sleep, Doing, PipeOps, kernel
<1>5. ASSUME NEW id \in OwnIds(c), NEW s \in Signums, Signal(c, id, s) PROVE NoneLost
  BY <1>1, <1>5 DEF Signal, Doing, PipeOps, kernel
<1>6. ASSUME NEW id, NEW f, NEW doing, doing.op \in PipeOps, InLua(c), OpenPipe(c, id, f, doing),
             UNCHANGED <<events, shut>>,
             \A x \in eventids' : x \in eventids \/ (doing.op = "resolve" /\ doing.new = x)
      PROVE  NoneLost
  <2>1. /\ open' = open \union {f} /\ wait' = [wait EXCEPT ![c] = doing]
        /\ node' = [node EXCEPT ![PipeNode(c)] = [fd |-> f, type |-> "read", id |-> id]]
    BY <1>6 DEF OpenPipe, AddTo, Yields
  <2>2. wait'[c] = doing /\ node'[PipeNode(c)].fd = f
    BY <1>0, <2>1, NodesDiffer DEF TypeOK
  <2>3. f \in KnownFds'
    BY <1>6, <2>2 DEF KnownFds, Pipes, PipeOps, WaitFd, WaitNode
  <2>4. \A d \in Coroutines : PipeStays(d)
    BY <1>0, <1>6, <2>1, NodesDiffer DEF PipeStays, InLua, PipeOps, TypeOK
  <2>5. \A x \in eventids' : x \in eventids \/ x \in KnownIds'
    BY <1>6, <2>2 DEF KnownIds
  <2>6. Owned' = Owned
    BY <1>6 DEF Owned
  <2> QED BY <1>6, <2>1, <2>3, <2>4, <2>5, <2>6, NothingLost
<1>7. ASSUME NEW id \in OwnIds(c), NEW f \in Fds, Popen(c, id, f) PROVE NoneLost
  <2> DEFINE doing == Doing("popen", id, NoId)
  <2>1. doing.op \in PipeOps
    BY DEF Doing, PipeOps
  <2>2. InLua(c) /\ OpenPipe(c, id, f, doing) /\ UNCHANGED <<events, shut>>
    BY <1>7 DEF Popen, tables
  <2>3. \A x \in eventids' : x \in eventids \/ (doing.op = "resolve" /\ doing.new = x)
    BY <1>7 DEF Popen, tables
  <2> HIDE DEF doing
  <2> QED BY <1>6, <2>1, <2>2, <2>3
<1>8. ASSUME NEW id \in OwnIds(c), NEW new \in FreeIds, NEW f \in Fds, ConnectByName(c, id, new, f)
      PROVE  NoneLost
  <2> DEFINE doing == Doing("resolve", id, new)
  <2>1. doing.op \in PipeOps /\ doing.op = "resolve" /\ doing.new = new
    BY DEF Doing, PipeOps
  <2>2. InLua(c) /\ OpenPipe(c, id, f, doing) /\ UNCHANGED <<events, shut>>
    BY <1>8 DEF ConnectByName
  <2>3. \A x \in eventids' : x \in eventids \/ (doing.op = "resolve" /\ doing.new = x)
    BY <1>8, <2>1 DEF ConnectByName
  <2> HIDE DEF doing
  <2> QED BY <1>6, <2>1, <2>2, <2>3
<1>9. ASSUME NEW id \in OwnIds(c), NEW new \in FreeIds, Connect(c, id, new)
      PROVE  NoneLost \/ ConnectFailed(c)
  <2>1. current = c /\ wait[c].op = "idle" /\ eventids' = eventids \union {new} /\ shut' = shut
    BY <1>9 DEF Connect, InLua
  <2>2. CASE DialFails(c, open)
    <3>1. new \in Ids \ eventids
      BY DEF FreeIds
    <3> QED BY <2>1, <2>2, <3>1 DEF DialFails, GoesOn, ConnectFailed, TakesAnId
  <2>3. CASE \E f \in Fds : Dials(c, id, new, f, open, table)
    <3>1. PICK f \in Fds : Dials(c, id, new, f, open, table)
      BY <2>3
    <3>2. /\ events' = WithId(new, events[id].co, f) /\ open' = open \union {f}
          /\ wait' = [wait EXCEPT ![c] = Doing("connect", id, new)]
          /\ node' = [node EXCEPT ![PipeNode(c)] = NoFields,
                                  ![IdNode(new)] = [fd |-> f, type |-> "write", id |-> new]]
      BY <3>1 DEF Dials, Yields
    <3>3. \A d \in Coroutines : PipeStays(d)
      BY <1>0, <2>1, <3>2, NodesDiffer, FreeIsNew DEF PipeStays, PipeOps, TypeOK
    <3> QED BY <2>1, <3>2, <3>3, FreeIsNew, NewIdKnown, NobodyIsNobody
  <2> QED BY <1>9, <2>2, <2>3 DEF Connect
<1>10. ASSUME NEW id \in OwnIds(c), Close(c, id) PROVE NoneLost
  <2>1. /\ open' = open \ {events[id].fd} /\ shut' = shut \union {id}
        /\ UNCHANGED <<node, events, eventids, wait>>
    BY <1>10 DEF Close, backEnd
  <2>2. Owned' = Owned \ {id}
    BY <2>1 DEF Owned
  <2>3. \A d \in Coroutines : PipeStays(d)
    BY <2>1 DEF PipeStays
  <2> QED BY <2>1, <2>2, <2>3, NothingLost
<1>11. ASSUME NEW id \in OwnIds(c), Complete(c, id) PROVE NoneLost
  <2>1. /\ id \notin Usable(c) /\ events' = [x \in DOMAIN events \ {id} |-> events[x]]
        /\ eventids' = eventids \ {id} /\ shut' = shut \ {id}
        /\ node' = [node EXCEPT ![IdNode(id)] = NoFields]
        /\ wait' = wait /\ open' = open /\ id \in Ids
    BY <1>0, <1>11 DEF Complete, Freed, Forget, kernel, OwnIds, TypeOK
  <2>2. \A a \in Owned : a \in Owned' /\ events'[a].fd = events[a].fd
    BY <2>1 DEF Owned, Usable
  <2>3. \A d \in Coroutines : PipeStays(d)
    BY <1>0, <2>1, NodesDiffer DEF PipeStays, TypeOK
  <2> QED BY <2>1, <2>2, <2>3, NothingLost
<1> QED BY <1>2, <1>3, <1>4, <1>5, <1>7, <1>8, <1>9, <1>10, <1>11 DEF CallNext

\* The ends of the calls: all but a connect that fails once its name is looked up.
LEMMA ReturnLosesNothing ==
    ASSUME IInv, NEW c \in Coroutines, ResumedNext(c) PROVE NoneLost \/ ConnectFailed(c)
<1>0. TypeOK /\ WaitInv
  BY DEF IInv
<1>1. ASSUME wait[c].op \notin PipeOps, GoesOn(c), UNCHANGED <<node, tables, open>>
      PROVE  NoneLost
  <2>1. \A d \in Coroutines \ {c} : wait'[d] = wait[d]
    BY <1>0, <1>1 DEF GoesOn, TypeOK
  <2> QED BY <1>1, <2>1, PipelessStep, NothingTaken DEF tables
<1>2. CASE ReadDone(c) \/ WriteOrConnectDone(c)
  BY <1>1, <1>2 DEF ReadDone, WriteOrConnectDone, Resumed, PipeOps, kernel
<1>3. CASE SleepDone(c) \/ SignalDone(c)
  BY <1>1, <1>3 DEF SleepDone, SignalDone, Resumed, PipeOps, kernel
<1>4. CASE PopenDone(c)
  <2>1. /\ wait[c].op = "popen" /\ wait' = [wait EXCEPT ![c] = Idle]
        /\ node' = [node EXCEPT ![PipeNode(c)] = NoFields]
        /\ open' = open \ {WaitFd(c)} /\ UNCHANGED <<events, eventids, shut>>
    BY <1>4 DEF PopenDone, Resumed, Forget, GoesOn, tables, WaitNode
  <2>2. \A d \in Coroutines \ {c} : PipeStays(d)
    BY <1>0, <2>1, NodesDiffer DEF PipeStays, TypeOK
  <2>3. PipeKnown(c)
    BY <2>1 DEF PipeKnown
  <2>4. c \in Pipes /\ Owned' = Owned
    BY <2>1 DEF Pipes, Owned
  <2>5. \A a \in Owned : events[a].fd \in open'
    BY <2>1, <2>4, PipeFdIsOwn
  <2> QED BY <2>1, <2>2, <2>3, <2>4, NothingLost
<1>5. CASE ResolveDone(c)
  <2> DEFINE new == wait[c].new
             used == open \ {WaitFd(c)}
  <2>1. current = c /\ wait[c].op = "resolve" /\ UNCHANGED <<eventids, shut>>
    BY <1>5 DEF ResolveDone, Resumed
  <2>2. CASE DialFails(c, used)
    BY <2>1, <2>2 DEF DialFails, GoesOn, ConnectFailed
  <2>3. CASE \E f \in Fds : Dials(c, wait[c].id, new, f, used, TakenBack(c))
    <3>1. PICK f \in Fds : Dials(c, wait[c].id, new, f, used, TakenBack(c))
      BY <2>3
    <3>2. /\ events' = WithId(new, events[wait[c].id].co, f) /\ open' = used \union {f}
          /\ wait' = [wait EXCEPT ![c] = Doing("connect", wait[c].id, new)]
          /\ node' = [node EXCEPT ![PipeNode(c)] = NoFields,
                                  ![IdNode(new)] = [fd |-> f, type |-> "write", id |-> new]]
      BY <3>1 DEF Dials, Yields
    <3>3. new \in Ids \ DOMAIN events
      BY <1>0, <2>1 DEF WaitInv, WaitOK, TypeOK
    <3>4. \A d \in Coroutines \ {c} : PipeStays(d)
      BY <1>0, <3>2, <3>3, NodesDiffer DEF PipeStays, TypeOK
    <3>5. PipeKnown(c)
      <4>1. DOMAIN events' = DOMAIN events \union {new} /\ events'[new].fd = f
        BY <3>2 DEF WithId
      <4>2. new \notin shut'
        BY <2>1, <3>3 DEF IInv, IdsInv
      <4>3. new \in Owned'
        BY <4>1, <4>2, NobodyIsNobody DEF Owned
      <4>4. new \in KnownIds' /\ f \in KnownFds'
        BY <4>1, <4>3 DEF KnownIds, KnownFds
      <4> QED BY <3>2, <4>4 DEF PipeKnown
    <3>6. \A d \in Coroutines : PipeStays(d) \/ PipeKnown(d)
      BY <3>4, <3>5
    <3>7. open' \subseteq open \union {f} /\ f # NoFd
      BY <3>2, NobodyIsNobody
    <3> HIDE DEF new
    <3> QED BY <2>1, <3>2, <3>3, <3>6, <3>7, NewIdKnown
  <2> QED BY <1>5, <2>2, <2>3 DEF ResolveDone
<1> QED BY <1>2, <1>3, <1>4, <1>5 DEF ResumedNext

\* LossOnlyByFailure: whatever the coroutines do, and wherever their calls are cut
\* short, only a pipeline.listen or a pipeline.connect that fails loses an id or a
\* descriptor.
THEOREM OnlyFailuresLose == Spec => LossOnlyByFailure
<1> DEFINE Loss == \/ NoneLost \/ ListenFailed \/ \E c \in Coroutines : ConnectFailed(c)
<1>1. IInv /\ [Next]_vars => [Loss]_vars
  <2> SUFFICES ASSUME IInv, Next PROVE Loss
    OBVIOUS
  <2>1. CASE StartNext
    BY <2>1, StartLosesNothing DEF StartNext
  <2>2. CASE LoopNext
    BY <2>2, LoopLosesNothing
  <2>3. CASE \E c \in Coroutines : CallNext(c) \/ ResumedNext(c)
    BY <2>3, CallLosesNothing, ReturnLosesNothing
  <2>4. CASE UNCHANGED <<node, tables, open, wait>>
    BY <2>4, NothingTaken DEF PipeStays, tables
  <2>5. CASE EventidSpins \/ Spinning
    BY <2>4, <2>5 DEF EventidSpins, Spinning, vars, backEnd, kernel
  <2>6. CASE \E f \in Fds : Arrives(f)
    BY <2>4, <2>6 DEF Arrives, backEnd
  <2> QED BY <2>1, <2>2, <2>3, <2>5, <2>6 DEF Next
<1>2. [][IInv /\ [Next]_vars]_vars => LossOnlyByFailure
  BY <1>1, PTL DEF LossOnlyByFailure, NoneLost
<1> QED BY <1>2, Inductive, PTL DEF Spec
=============================================================================
