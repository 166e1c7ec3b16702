------------------------- MODULE SelectEventsProofs -------------------------
(***************************************************************************)
(* The safety properties of SelectEvents hold for any number of nodes and  *)
(* descriptors, with and without the callers' discipline.                  *)
(*                                                                         *)
(* The inductive invariant has three layers, each proved with the help of  *)
(* the ones before it: the node table, the descriptor sets, the walk.      *)
(***************************************************************************)
EXTENDS SelectEvents, SwapTableProofs

-----------------------------------------------------------------------------
(* The node table                                                          *)

\* A registered node holds a valid descriptor and a type of a set.
WaitersAreValid ==
    \A n \in Waiters : fd[n] \in Descriptors /\ event_type[n] \in Kinds

\* The local node_fd points to a node whenever it is read.
CurIsNode ==
    /\ pc = "error" => cur \in Nodes
    /\ pc = "repair" /\ phase = "write" => cur \in Nodes

TableInv == TypeOK /\ TableConsistent /\ WaitersAreValid /\ CurIsNode

LEMMA TableInit == Init => TableInv
<1> SUFFICES ASSUME Init PROVE TableInv
  OBVIOUS
<1>1. TableType(events, Nodes) /\ Consistent(events) /\ Waiters = {}
  BY EmptyLemma DEF Init, Waiters
<1>2. TypeOK
  BY <1>1 DEF Init, TypeOK, NoBits, Descriptors, Kinds, Marks
<1>3. TableConsistent
  BY <1>1 DEF TableConsistent
<1> QED BY <1>1, <1>2, <1>3 DEF TableInv, WaitersAreValid, CurIsNode, Init

\* The entry the walk or the repair looks at is a registered node.
LEMMA EntryIsWaiter ==
    ASSUME TableInv, i < events.count
    PROVE  /\ events.slot[i] \in Nodes /\ events.slot[i] \in Waiters
           /\ events.index[events.slot[i]] = i
<1>1. TableType(events, Nodes) /\ Consistent(events) /\ i \in 0 .. events.count - 1
  BY DEF TableInv, TypeOK, TableConsistent, TableType
<1> QED BY <1>1, SlotLemma DEF Waiters

\* What an add does to the table.
LEMMA AddTable ==
    ASSUME TableInv, NEW n \in Nodes, NEW type \in AddTypes, EventAdd(n, type)
    PROVE  /\ TableType(events', Nodes) /\ TableConsistent'
           /\ Waiters' = Waiters \union {n}
           /\ n \notin Waiters
           /\ \A m \in Waiters : events'.index[m] = events.index[m]
BY LinkLemma DEF TableInv, TypeOK, TableConsistent, EventAdd, Waiters

\* What a delete does to the table.
LEMMA DelTable ==
    ASSUME TableInv, NEW n \in Nodes, EventDel(n)
    PROVE  /\ TableType(events', Nodes) /\ TableConsistent'
           /\ Waiters' = Waiters \ {n}
           /\ n \in Waiters
           /\ events'.index[n] = Unlinked
           /\ \A m \in Waiters' :
                 IF m = LastItem(events)
                 THEN events'.index[m] < events.index[m]
                 ELSE events'.index[m] = events.index[m]
<1>1. TableType(events, Nodes) /\ Consistent(events) /\ n \in Linked(events)
      /\ events' = Unlink(events, n)
  BY DEF TableInv, TypeOK, TableConsistent, EventDel, Waiters
<1> QED BY <1>1, UnlinkLemma DEF TableConsistent, Waiters

\* What a new node does to the table.
LEMMA NewTable ==
    ASSUME TableInv, NEW n \in Nodes, NEW f \in Fds, EventNew(n, f)
    PROVE  /\ TableType(events', Nodes) /\ TableConsistent'
           /\ Waiters' = Waiters
           /\ n \notin Waiters
           /\ \A m \in Waiters : events'.index[m] = events.index[m]
<1>1. TableType(events, Nodes) /\ Consistent(events) /\ n \notin Linked(events)
      /\ events' = Fresh(events, n)
  BY DEF TableInv, TypeOK, TableConsistent, EventNew, Waiters
<1> QED BY <1>1, FreshLemma DEF TableConsistent, Waiters

\* Every step keeps the table layer.
LEMMA TableStep == TableInv /\ [Next]_vars => TableInv'
<1> SUFFICES ASSUME TableInv, [Next]_vars PROVE TableInv'
  OBVIOUS
<1>0. TableType(events, Nodes) /\ TypeOK /\ TableConsistent /\ WaitersAreValid /\ CurIsNode
  BY DEF TableInv, TypeOK
<1>w. Waiters \subseteq Nodes
  BY <1>0 DEF TableType, Waiters, Linked
<1>t. ASSUME UNCHANGED <<events, fd, event_type>>
      PROVE  TableType(events', Nodes) /\ TableConsistent' /\ WaitersAreValid'
  BY <1>0, <1>t DEF TableConsistent, WaitersAreValid, Waiters
<1>1. ASSUME NEW n \in Nodes, NEW f \in Fds, EventNew(n, f) PROVE TableInv'
  <2>1. TypeOK'
    BY <1>0, <1>1, NewTable, KindsAssumption DEF EventNew, TypeOK, walk, Descriptors
  <2>2. WaitersAreValid'
    <3>1. Waiters' = Waiters /\ n \notin Waiters
      BY <1>1, NewTable
    <3>2. \A m \in Waiters : fd'[m] = fd[m] /\ event_type'[m] = event_type[m]
      BY <1>0, <1>1, <1>w, <3>1 DEF EventNew, TypeOK
    <3> QED BY <1>0, <3>1, <3>2 DEF WaitersAreValid
  <2> QED BY <1>0, <1>1, <2>1, <2>2, NewTable DEF TableInv, CurIsNode, EventNew, walk
<1>2. ASSUME NEW f \in Descriptors, CloseFd(f) PROVE TableInv'
  <2>1. TypeOK'
    BY <1>0, <1>2, <1>t DEF CloseFd, TypeOK, walk
  <2> QED BY <1>0, <1>2, <2>1, <1>t DEF TableInv, CurIsNode, CloseFd, walk
<1>3. ASSUME NEW n \in Nodes, NEW type \in AddTypes, EventAdd(n, type) PROVE TableInv'
  <2>1. fd[n] \in Descriptors /\ fd[n] \in Fds
    BY <1>0, <1>3 DEF EventAdd, Accepted, Raised, TypeOK, Descriptors
  <2>2. TypeOK'
    BY <1>0, <1>3, <2>1, AddTable DEF EventAdd, Accepted, Raised, TypeOK, walk
  <2>3. WaitersAreValid'
    <3>1. Waiters' = Waiters \union {n} /\ n \notin Waiters
      BY <1>3, AddTable
    <3>2. \A m \in Waiters : fd'[m] = fd[m] /\ event_type'[m] = event_type[m]
      BY <1>0, <1>3, <1>w, <3>1 DEF EventAdd, Accepted, Raised, TypeOK
    <3>3. fd'[n] = fd[n] /\ event_type'[n] = type /\ type \in Kinds
      BY <1>0, <1>3 DEF EventAdd, Accepted, Raised, TypeOK
    <3> QED BY <1>0, <2>1, <3>1, <3>2, <3>3 DEF WaitersAreValid
  <2> QED BY <1>0, <1>3, <2>2, <2>3, AddTable DEF TableInv, CurIsNode, EventAdd, walk
<1>4. ASSUME NEW n \in Nodes, NEW type \in AddTypes, EventAddRefused(n, type) PROVE TableInv'
  <2>1. TypeOK'
    BY <1>0, <1>4, KindsAssumption DEF EventAddRefused, TypeOK, walk
  <2>2. WaitersAreValid' /\ TableConsistent'
    BY <1>0, <1>4 DEF EventAddRefused, WaitersAreValid, TableConsistent, Waiters, TypeOK
  <2> QED BY <1>0, <1>4, <2>1, <2>2 DEF TableInv, CurIsNode, EventAddRefused, walk
<1>5. ASSUME NEW n \in Nodes, EventDel(n) PROVE TableInv'
  <2>1. event_type[n] \in Kinds
    BY <1>0, <1>5 DEF EventDel, WaitersAreValid
  <2>2. TypeOK'
    BY <1>0, <1>5, <2>1, DelTable DEF EventDel, BitCleared, TypeOK, walk, Marks
  <2>3. WaitersAreValid'
    BY <1>0, <1>5, DelTable DEF EventDel, WaitersAreValid
  <2> QED BY <1>0, <1>5, <2>2, <2>3, DelTable DEF TableInv, CurIsNode, EventDel, walk
<1>6. CASE SelectReturns
  <2>1. PICK r \in SUBSET Descriptors, w \in SUBSET Descriptors :
           work' = [kind \in Kinds |-> IF kind = "read" THEN r ELSE w]
    BY <1>0, <1>6 DEF SelectReturns, Examined, TypeOK, Kinds
  <2>2. TypeOK'
    BY <1>0, <1>6, <1>t, <2>1 DEF SelectReturns, FirstEntry, TypeOK, Marks
  <2> QED BY <1>0, <1>6, <1>t, <2>2 DEF TableInv, CurIsNode, SelectReturns
<1>7. CASE SelectInterrupted
  <2>1. TypeOK'
    BY <1>0, <1>7, <1>t DEF SelectInterrupted, TypeOK, walk
  <2> QED BY <1>0, <1>7, <1>t, <2>1 DEF TableInv, CurIsNode, SelectInterrupted, walk
<1>8. CASE SelectFails
  <2>1. TypeOK'
    BY <1>0, <1>8, <1>t DEF SelectFails, TypeOK
  <2> QED BY <1>0, <1>8, <1>t, <2>1 DEF TableInv, CurIsNode, SelectFails
<1>9. CASE SelectBadFd
  <2>1. TypeOK'
    BY <1>0, <1>9, <1>t DEF SelectBadFd, TypeOK, Kinds
  <2> QED BY <1>0, <1>9, <1>t, <2>1 DEF TableInv, CurIsNode, SelectBadFd
<1>10. CASE CallNode
  <2>1. events.slot[i] \in Nodes
    BY <1>0, <1>10, EntryIsWaiter DEF CallNode, TableInv
  <2>2. TypeOK'
    BY <1>0, <1>10, <1>t, <2>1 DEF CallNode, TypeOK, Marks
  <2> QED BY <1>0, <1>10, <1>t, <2>2 DEF TableInv, CurIsNode, CallNode
<1>11. CASE CallbackReturns
  <2>1. TypeOK'
    BY <1>0, <1>11, <1>t DEF CallbackReturns, NextEntry, TypeOK
  <2> QED BY <1>0, <1>11, <1>t, <2>1 DEF TableInv, CurIsNode, CallbackReturns
<1>12. CASE SkipNode
  <2>1. TypeOK'
    BY <1>0, <1>12, <1>t DEF SkipNode, NextEntry, TypeOK
  <2> QED BY <1>0, <1>12, <1>t, <2>1 DEF TableInv, CurIsNode, SkipNode
<1>13. CASE WalkEnds
  <2>1. TypeOK'
    BY <1>0, <1>13, <1>t DEF WalkEnds, TypeOK, NoBits, Marks
  <2> QED BY <1>0, <1>13, <1>t, <2>1 DEF TableInv, CurIsNode, WalkEnds
<1>r. pc = "repair" /\ (phase = "read" => i < events.count) => Tested \in Nodes
  BY <1>0, EntryIsWaiter DEF Tested, CurIsNode, TableInv, TypeOK, Kinds
<1>14. CASE RepairKeeps
  <2>1. Tested \in Nodes
    BY <1>14, <1>r DEF RepairKeeps
  <2>2. TypeOK'
    BY <1>0, <1>14, <1>t, <2>1 DEF RepairKeeps, Advance, NextEntry, TypeOK, Kinds
  <2> QED BY <1>0, <1>14, <1>t, <2>1, <2>2 DEF TableInv, CurIsNode, RepairKeeps, Advance
<1>15. CASE RepairDrops
  <2>1. Tested \in Nodes
    BY <1>15, <1>r DEF RepairDrops
  <2>2. TypeOK'
    BY <1>0, <1>15, <1>t, <2>1 DEF RepairDrops, Repaired, TypeOK
  <2> QED BY <1>0, <1>15, <1>t, <2>1, <2>2 DEF TableInv, CurIsNode, RepairDrops
<1>16. CASE ErrorReturns
  <2>1. cur \in Nodes
    BY <1>0, <1>16 DEF ErrorReturns, CurIsNode
  <2>2. TypeOK'
    BY <1>0, <1>16, <1>t, <2>1 DEF ErrorReturns, Advance, NextEntry, TypeOK, Kinds
  <2> QED BY <1>0, <1>16, <1>t, <2>1, <2>2 DEF TableInv, CurIsNode, ErrorReturns, Advance
<1>17. CASE RepairEnds
  <2>1. TypeOK'
    BY <1>0, <1>17, <1>t DEF RepairEnds, TypeOK
  <2> QED BY <1>0, <1>17, <1>t, <2>1 DEF TableInv, CurIsNode, RepairEnds
<1>18. CASE SelectExit
  <2>1. TypeOK'
    BY <1>0, <1>18, <1>t DEF SelectExit, TypeOK, NoBits
  <2> QED BY <1>0, <1>18, <1>t, <2>1 DEF TableInv, CurIsNode, SelectExit
<1>19. CASE UNCHANGED vars
  BY <1>0, <1>19, <1>t DEF TableInv, TypeOK, CurIsNode, vars
<1> QED
  BY <1>1, <1>2, <1>3, <1>4, <1>5, <1>6, <1>7, <1>8, <1>9, <1>10, <1>11, <1>12, <1>13,
     <1>14, <1>15, <1>16, <1>17, <1>18, <1>19
  DEF Next, UserNext, LoopNext, Exited

-----------------------------------------------------------------------------
(* The descriptor sets                                                     *)

\* Under the callers' discipline every registered node has an open descriptor
\* of its own, so that select() never fails on one and no repair happens.
DisciplineHolds ==
    Exclusive =>
        /\ pc \notin {"repair", "error"}
        /\ \A m \in Waiters : IsOpen(fd[m])
        /\ \A m, n \in Waiters : fd[m] = fd[n] => m = n

BitsInv == MaxFdCovers /\ BitsHaveWaiters /\ WaitersHaveBits /\ DisciplineHolds

LEMMA BitsInit == Init => BitsInv
<1> SUFFICES ASSUME Init PROVE BitsInv
  OBVIOUS
<1>1. Waiters = {}
  BY EmptyLemma DEF Init, Waiters
<1> QED BY <1>1 DEF Init, BitsInv, MaxFdCovers, BitsHaveWaiters, WaitersHaveBits,
                    DisciplineHolds, NoBits

\* What select() reports or fails on belongs to a registered node; and max_fd,
\* kept or computed again, covers all of them.
LEMMA MaxFdLemma ==
    ASSUME TableInv, BitsInv, NEW m \in Fds \union {-1}, IsMaxFd(m)
    PROVE  /\ \A n \in Waiters : fd[n] <= m
           /\ Exclusive => ~SetsAreBad(m)
<1>1. \A n \in Waiters : fd[n] <= m
  BY DEF IsMaxFd, BitsInv, MaxFdCovers
<1>2. ASSUME Exclusive, NEW kind \in Kinds, NEW f \in master[kind] PROVE IsOpen(f)
  <2>1. PICK n \in Waiters : fd[n] = f
    BY <1>2 DEF BitsInv, BitsHaveWaiters
  <2> QED BY <1>2, <2>1 DEF BitsInv, DisciplineHolds
<1> QED BY <1>1, <1>2 DEF SetsAreBad, Examined

\* Every step keeps the layer of the descriptor sets.
LEMMA BitsStep == TableInv /\ BitsInv /\ [Next]_vars => BitsInv'
<1> SUFFICES ASSUME TableInv, BitsInv, [Next]_vars PROVE BitsInv'
  OBVIOUS
<1>0. TypeOK /\ WaitersAreValid /\ Waiters \subseteq Nodes
  BY DEF TableInv, TypeOK, TableType, Waiters, Linked
<1>b. MaxFdCovers /\ BitsHaveWaiters /\ WaitersHaveBits /\ DisciplineHolds
  BY DEF BitsInv
<1>t. ASSUME UNCHANGED <<events, fd, event_type, master, kernel>>,
             max_fd' = max_fd \/ max_fd' = -1 \/ \A n \in Waiters : fd[n] <= max_fd',
             pc' # "exited" => pc # "exited",
             Exclusive => pc' \notin {"repair", "error"}
      PROVE  BitsInv'
  BY <1>b, <1>t DEF BitsInv, MaxFdCovers, BitsHaveWaiters, WaitersHaveBits, DisciplineHolds,
                   Waiters, IsOpen
<1>1. ASSUME NEW n \in Nodes, NEW f \in Fds, EventNew(n, f) PROVE BitsInv'
  <2>1. Waiters' = Waiters /\ n \notin Waiters
    BY <1>1, NewTable
  <2>2. \A m \in Waiters : fd'[m] = fd[m] /\ event_type'[m] = event_type[m]
    BY <1>0, <1>1, <2>1 DEF EventNew, TypeOK
  <2>3. \A m \in Waiters : IsOpen(fd[m]) => IsOpen(fd[m])'
    BY <1>0, <1>1, <2>2 DEF EventNew, TypeOK, IsOpen, WaitersAreValid
  <2>4. UNCHANGED <<master, max_fd, pc>>
    BY <1>1 DEF EventNew, walk
  <2> QED BY <1>b, <2>1, <2>2, <2>3, <2>4
      DEF BitsInv, MaxFdCovers, BitsHaveWaiters, WaitersHaveBits, DisciplineHolds
<1>2. ASSUME NEW f \in Descriptors, CloseFd(f) PROVE BitsInv'
  <2>1. UNCHANGED <<events, fd, event_type, master, max_fd, pc>>
    BY <1>2 DEF CloseFd, walk
  <2>2. Exclusive => \A m \in Waiters : IsOpen(fd[m]) => IsOpen(fd[m])'
    BY <1>0, <1>2, <2>1 DEF CloseFd, MayClose, TypeOK, IsOpen
  <2> QED BY <1>b, <2>1, <2>2
      DEF BitsInv, MaxFdCovers, BitsHaveWaiters, WaitersHaveBits, DisciplineHolds, Waiters
<1>3. ASSUME NEW n \in Nodes, NEW type \in AddTypes, EventAdd(n, type) PROVE BitsInv'
  <2>1. Waiters' = Waiters \union {n} /\ n \notin Waiters
    BY <1>3, AddTable
  <2>2. /\ UNCHANGED <<fd, kernel, pc>>
        /\ event_type'[n] = type /\ type \in Kinds /\ fd[n] \in Fds /\ fd[n] >= 0
        /\ \A m \in Waiters : event_type'[m] = event_type[m]
    BY <1>0, <1>3, <2>1 DEF EventAdd, Accepted, Raised, TypeOK, walk
  <2>3. /\ \A kind \in Kinds : master'[kind] =
               IF kind = type THEN master[kind] \union {fd[n]} ELSE master[kind]
        /\ \A m \in Waiters : event_type[m] \in Kinds
    BY <1>0, <1>3, <2>2 DEF EventAdd, Accepted, Raised, TypeOK, WaitersAreValid
  <2>4. MaxFdCovers'
    <3>1. \A m \in Waiters : fd[m] \in Int
      BY <1>0, FdsAssumption DEF WaitersAreValid, Descriptors
    <3>2. max_fd \in Int /\ fd[n] \in Int
      BY <1>0, <2>2, FdsAssumption DEF TypeOK
    <3> QED BY <1>b, <1>3, <2>1, <2>2, <3>1, <3>2 DEF EventAdd, Accepted, Raised, MaxFdCovers
  <2>5. BitsHaveWaiters'
    <3> SUFFICES ASSUME NEW kind \in Kinds, NEW f \in master'[kind]
                 PROVE  \E m \in Waiters' : fd'[m] = f /\ event_type'[m] = kind
      BY DEF BitsHaveWaiters
    <3>1. CASE f \in master[kind]
      BY <1>b, <2>1, <2>2, <3>1 DEF BitsHaveWaiters
    <3>2. CASE kind = type /\ f = fd[n]
      BY <2>1, <2>2, <3>2
    <3> QED BY <2>3, <3>1, <3>2
  <2>6. WaitersHaveBits'
    BY <1>b, <2>1, <2>2, <2>3 DEF WaitersHaveBits
  <2>7. DisciplineHolds'
    BY <1>b, <1>3, <2>1, <2>2 DEF DisciplineHolds, EventAdd, MayAdd, IsOpen
  <2> QED BY <2>4, <2>5, <2>6, <2>7 DEF BitsInv
<1>4. ASSUME NEW n \in Nodes, NEW type \in AddTypes, EventAddRefused(n, type) PROVE BitsInv'
  <2>1. UNCHANGED <<events, fd, master, max_fd, kernel, pc>>
    BY <1>4 DEF EventAddRefused, walk
  <2>2. \A m \in Waiters : event_type'[m] = event_type[m]
    BY <1>0, <1>4 DEF EventAddRefused, TypeOK
  <2> QED BY <1>b, <2>1, <2>2
      DEF BitsInv, MaxFdCovers, BitsHaveWaiters, WaitersHaveBits, DisciplineHolds, Waiters, IsOpen
<1>5. ASSUME NEW n \in Nodes, EventDel(n) PROVE BitsInv'
  <2>1. Waiters' = Waiters \ {n} /\ n \in Waiters
    BY <1>5, DelTable
  <2>2. UNCHANGED <<fd, event_type, kernel, pc>>
    BY <1>5 DEF EventDel, walk
  <2>3. \A kind \in Kinds : master'[kind] =
          IF kind = event_type[n] THEN master[kind] \ {fd[n]} ELSE master[kind]
    BY <1>0, <1>5 DEF EventDel, BitCleared, TypeOK
  <2>4. MaxFdCovers'
    BY <1>b, <1>5, <2>1, <2>2 DEF EventDel, MaxFdCovers
  <2>5. BitsHaveWaiters'
    <3> SUFFICES ASSUME NEW kind \in Kinds, NEW f \in master'[kind]
                 PROVE  \E m \in Waiters' : fd[m] = f /\ event_type[m] = kind
      BY <2>2 DEF BitsHaveWaiters
    <3>1. f \in master[kind] /\ ~(kind = event_type[n] /\ f = fd[n])
      BY <2>3
    <3>2. PICK m \in Waiters : fd[m] = f /\ event_type[m] = kind
      BY <1>b, <3>1 DEF BitsHaveWaiters
    <3> QED BY <2>1, <3>1, <3>2
  <2>6. WaitersHaveBits'
    <3> SUFFICES ASSUME Exclusive, pc # "exited", NEW m \in Waiters'
                 PROVE  fd[m] \in master'[event_type[m]]
      BY <2>2 DEF WaitersHaveBits
    <3>1. m \in Waiters /\ fd[m] # fd[n] /\ fd[m] \in master[event_type[m]]
      BY <1>b, <2>1 DEF WaitersHaveBits, DisciplineHolds
    <3> QED BY <1>0, <2>3, <3>1 DEF WaitersAreValid
  <2>7. DisciplineHolds'
    BY <1>b, <2>1, <2>2 DEF DisciplineHolds, IsOpen
  <2> QED BY <2>4, <2>5, <2>6, <2>7 DEF BitsInv
<1>6. CASE SelectReturns
  <2>1. \A n \in Waiters : fd[n] <= max_fd'
    BY <1>6, MaxFdLemma DEF SelectReturns
  <2> QED BY <1>6, <2>1, <1>t DEF SelectReturns
<1>7. CASE SelectInterrupted
  <2>1. \A n \in Waiters : fd[n] <= max_fd'
    BY <1>7, MaxFdLemma DEF SelectInterrupted
  <2> QED BY <1>7, <2>1, <1>t DEF SelectInterrupted, walk
<1>8. CASE SelectFails
  <2>1. \A n \in Waiters : fd[n] <= max_fd'
    BY <1>8, MaxFdLemma DEF SelectFails
  <2> QED BY <1>8, <2>1, <1>t DEF SelectFails
<1>9. CASE SelectBadFd
  <2>1. ~Exclusive /\ \A n \in Waiters : fd[n] <= max_fd'
    BY <1>9, MaxFdLemma DEF SelectBadFd
  <2> QED BY <1>9, <2>1, <1>t DEF SelectBadFd
<1>10. CASE CallNode \/ CallbackReturns \/ SkipNode \/ WalkEnds
  BY <1>10, <1>t DEF CallNode, CallbackReturns, SkipNode, WalkEnds
<1>11. CASE RepairKeeps \/ RepairEnds \/ ErrorReturns
  <2>1. ~Exclusive
    BY <1>b, <1>11 DEF DisciplineHolds, RepairKeeps, RepairEnds, ErrorReturns
  <2> QED BY <1>11, <2>1, <1>t DEF RepairKeeps, RepairEnds, ErrorReturns
<1>12. CASE RepairDrops
  <2>1. ~Exclusive
    BY <1>b, <1>12 DEF DisciplineHolds, RepairDrops
  <2>2. \A kind \in Kinds : master'[kind] \subseteq master[kind]
    BY <1>0, <1>12 DEF RepairDrops, Repaired, TypeOK
  <2>3. UNCHANGED <<events, fd, event_type, max_fd>>
    BY <1>12 DEF RepairDrops
  <2> QED BY <1>b, <2>1, <2>2, <2>3
      DEF BitsInv, MaxFdCovers, BitsHaveWaiters, WaitersHaveBits, DisciplineHolds, Waiters
<1>13. CASE SelectExit
  BY <1>b, <1>13 DEF SelectExit, BitsInv, MaxFdCovers, BitsHaveWaiters, WaitersHaveBits,
                     DisciplineHolds, Waiters, NoBits, IsOpen
<1>14. CASE UNCHANGED vars
  BY <1>b, <1>14, <1>t DEF vars, DisciplineHolds
<1> QED
  BY <1>1, <1>2, <1>3, <1>4, <1>5, <1>6, <1>7, <1>8, <1>9, <1>10, <1>11, <1>12, <1>13, <1>14
  DEF Next, UserNext, LoopNext, Exited

-----------------------------------------------------------------------------
(* The walk                                                                *)

\* Marks belong to registered nodes and to a walk; and while a callback runs,
\* no node that still waits for its turn stands at the walk's own position.
MarksHold ==
    /\ \A n \in Nodes \ Waiters : mark[n] = "new"
    /\ pc \notin {"dispatch", "callback"} => \A n \in Nodes : mark[n] = "new"
    /\ pc = "callback" =>
         \A n \in Waiters : mark[n] = "waiting" => events.index[n] # i

WalkInv == MarksHold /\ CalledBehind /\ PassedOverOnlyIfMoved

LEMMA WalkInit == Init => WalkInv
<1> SUFFICES ASSUME Init PROVE WalkInv
  OBVIOUS
<1>1. Waiters = {}
  BY EmptyLemma DEF Init, Waiters
<1> QED BY <1>1 DEF Init, WalkInv, MarksHold, CalledBehind, PassedOverOnlyIfMoved

\* Every step keeps the layer of the walk.
LEMMA WalkStep == TableInv /\ WalkInv /\ [Next]_vars => WalkInv'
<1> SUFFICES ASSUME TableInv, WalkInv, [Next]_vars PROVE WalkInv'
  OBVIOUS
<1>0. /\ TypeOK /\ Waiters \subseteq Nodes /\ i \in Nat
      /\ \A n \in Waiters : events.index[n] \in Nat
  <2>1. TypeOK /\ i \in Nat /\ events.index \in [Nodes -> Nat \union {Unlinked, Unset}]
    BY DEF TableInv, TypeOK, TableType
  <2>2. Waiters \subseteq Nodes /\ \A n \in Waiters : events.index[n] >= 0
    BY <2>1 DEF Waiters, Linked
  <2> QED BY <2>1, <2>2 DEF Unlinked, Unset
<1>w. MarksHold /\ CalledBehind /\ PassedOverOnlyIfMoved
  BY DEF WalkInv
<1>q. ASSUME pc' \notin {"dispatch", "callback"}, \A n \in Nodes : mark'[n] = "new",
             Waiters' \subseteq Nodes
      PROVE  WalkInv'
  BY <1>q DEF WalkInv, MarksHold, CalledBehind, PassedOverOnlyIfMoved
<1>u. ASSUME NEW n \in Nodes, n \notin Waiters,
             Waiters \subseteq Waiters', Waiters' \subseteq Waiters \union {n},
             UNCHANGED <<mark, pc, i, work>>,
             \A m \in Waiters : /\ events'.index[m] = events.index[m]
                               /\ fd'[m] = fd[m] /\ event_type'[m] = event_type[m]
      PROVE  WalkInv'
  <2>1. mark[n] = "new"
    BY <1>u, <1>w DEF MarksHold
  <2>2. \A m \in Waiters' : mark'[m] # "new" => m \in Waiters
    BY <1>u, <2>1
  <2>3. MarksHold'
    BY <1>u, <1>w, <2>1, <2>2 DEF MarksHold
  <2>4. CalledBehind'
    BY <1>u, <1>w, <2>2 DEF CalledBehind
  <2>5. PassedOverOnlyIfMoved'
    BY <1>u, <1>w, <2>2 DEF PassedOverOnlyIfMoved, Hit
  <2> QED BY <2>3, <2>4, <2>5 DEF WalkInv
<1>1. ASSUME NEW n \in Nodes, NEW f \in Fds, EventNew(n, f) PROVE WalkInv'
  <2>1. /\ Waiters' = Waiters /\ n \notin Waiters
        /\ \A m \in Waiters : events'.index[m] = events.index[m]
    BY <1>1, NewTable
  <2>2. \A m \in Waiters : fd'[m] = fd[m] /\ event_type'[m] = event_type[m]
    BY <1>0, <1>1, <2>1 DEF EventNew, TypeOK
  <2>3. UNCHANGED <<mark, pc, i, work>>
    BY <1>1 DEF EventNew, walk
  <2> QED BY <2>1, <2>2, <2>3, <1>u
<1>2. ASSUME NEW f \in Descriptors, CloseFd(f) PROVE WalkInv'
  BY <1>w, <1>2 DEF CloseFd, walk, WalkInv, MarksHold, CalledBehind, PassedOverOnlyIfMoved,
                    Hit, Waiters
<1>3. ASSUME NEW n \in Nodes, NEW type \in AddTypes, EventAdd(n, type) PROVE WalkInv'
  <2>1. /\ Waiters' = Waiters \union {n} /\ n \notin Waiters
        /\ \A m \in Waiters : events'.index[m] = events.index[m]
    BY <1>3, AddTable
  <2>2. \A m \in Waiters : fd'[m] = fd[m] /\ event_type'[m] = event_type[m]
    BY <1>0, <1>3, <2>1 DEF EventAdd, Accepted, Raised, TypeOK
  <2>3. UNCHANGED <<mark, pc, i, work>>
    BY <1>3 DEF EventAdd, Accepted, Raised, walk
  <2> QED BY <2>1, <2>2, <2>3, <1>u
<1>4. ASSUME NEW n \in Nodes, NEW type \in AddTypes, EventAddRefused(n, type) PROVE WalkInv'
  <2>1. Waiters' = Waiters /\ n \notin Waiters /\ UNCHANGED <<events, fd, mark, pc, i, work>>
    BY <1>4 DEF EventAddRefused, walk, Waiters
  <2>2. \A m \in Waiters : event_type'[m] = event_type[m]
    BY <1>0, <1>4 DEF EventAddRefused, TypeOK
  <2> QED BY <2>1, <2>2, <1>u
<1>5. ASSUME NEW n \in Nodes, EventDel(n) PROVE WalkInv'
  <2>1. /\ Waiters' = Waiters \ {n} /\ n \in Waiters
        /\ \A m \in Waiters' : IF m = LastItem(events)
                                THEN events'.index[m] < events.index[m]
                                ELSE events'.index[m] = events.index[m]
    BY <1>5, DelTable
  <2>2. /\ UNCHANGED <<fd, event_type, pc, i, work>>
        /\ \A m \in Nodes : mark'[m] = IF m = n THEN "new"
               ELSE IF m = LastItem(events) /\ mark[m] = "waiting" THEN "moved" ELSE mark[m]
    BY <1>5 DEF EventDel, walk
  <2>3. \A m \in Waiters' : /\ m \in Waiters
                            /\ mark'[m] = "called" => mark[m] = "called"
                            /\ mark'[m] = "waiting" => /\ mark[m] = "waiting"
                                                      /\ events'.index[m] = events.index[m]
    BY <1>0, <2>1, <2>2
  <2>4. \A m \in Waiters' : events'.index[m] \in Nat
    <3>1. TableType(events', Nodes)
      BY <1>5, DelTable
    <3> QED BY <3>1 DEF TableType, Waiters, Linked, Unlinked, Unset
  <2>5. MarksHold'
    BY <1>0, <1>w, <2>1, <2>2, <2>3 DEF MarksHold
  <2>6. CalledBehind'
    <3> SUFFICES ASSUME NEW m \in Waiters', mark'[m] = "called"
                 PROVE  events'.index[m] < i \/ (pc = "callback" /\ events'.index[m] = i)
      BY <2>2 DEF CalledBehind
    <3>1. events.index[m] < i \/ (pc = "callback" /\ events.index[m] = i)
      BY <1>w, <2>3 DEF CalledBehind
    <3>2. events'.index[m] <= events.index[m]
      BY <1>0, <2>1, <2>3, <2>4
    <3> QED BY <1>0, <2>3, <2>4, <3>1, <3>2
  <2>7. PassedOverOnlyIfMoved'
    BY <1>w, <2>2, <2>3 DEF PassedOverOnlyIfMoved, Hit
  <2> QED BY <2>5, <2>6, <2>7 DEF WalkInv
<1>6. CASE SelectReturns
  <2>1. /\ Waiters' = Waiters /\ pc' = "dispatch" /\ i' = 0 /\ events' = events
        /\ mark' = [n \in Nodes |-> IF n \in Waiters THEN "waiting" ELSE "new"]
    BY <1>6 DEF SelectReturns, FirstEntry, Waiters
  <2> QED BY <1>0, <2>1 DEF WalkInv, MarksHold, CalledBehind, PassedOverOnlyIfMoved
<1>7. CASE SelectInterrupted \/ SelectFails \/ SelectBadFd
  <2>1. /\ Waiters' = Waiters /\ pc = "user" /\ mark' = mark
        /\ pc' \notin {"dispatch", "callback"}
    BY <1>7 DEF SelectInterrupted, SelectFails, SelectBadFd, walk, Waiters
  <2> QED BY <1>0, <1>w, <2>1, <1>q DEF MarksHold
<1>8. CASE CallNode
  <2>1. /\ pc' = "callback" /\ Waiters' = Waiters /\ pc = "dispatch"
        /\ UNCHANGED <<events, fd, event_type, work, i>>
        /\ \A n \in Nodes : mark'[n] = IF n = events.slot[i] THEN "called" ELSE mark[n]
    BY <1>0, <1>8 DEF CallNode, Waiters, TypeOK
  <2>2. /\ events.slot[i] \in Waiters /\ events.index[events.slot[i]] = i
    BY <1>8, EntryIsWaiter DEF CallNode
  <2>3. \A n \in Waiters : events.index[n] = i => n = events.slot[i]
    BY DEF TableInv, TableConsistent, Consistent, Waiters
  <2>4. MarksHold'
    BY <1>0, <1>w, <2>1, <2>2, <2>3 DEF MarksHold
  <2>5. CalledBehind'
    BY <1>0, <1>w, <2>1, <2>2 DEF CalledBehind
  <2>6. PassedOverOnlyIfMoved'
    BY <1>0, <1>w, <2>1 DEF PassedOverOnlyIfMoved, Hit
  <2> QED BY <2>4, <2>5, <2>6 DEF WalkInv
<1>9. CASE CallbackReturns
  <2>1. /\ pc' = "dispatch" /\ Waiters' = Waiters /\ pc = "callback" /\ i' = i + 1
        /\ UNCHANGED <<events, fd, event_type, work, mark>>
    BY <1>9 DEF CallbackReturns, NextEntry, Waiters
  <2>2. MarksHold'
    BY <1>w, <2>1 DEF MarksHold
  <2>3. CalledBehind'
    BY <1>0, <1>w, <2>1 DEF CalledBehind
  <2>4. PassedOverOnlyIfMoved'
    <3> SUFFICES ASSUME NEW n \in Waiters, mark[n] = "waiting", events.index[n] < i + 1
                 PROVE  ~Hit(n)
      BY <2>1 DEF PassedOverOnlyIfMoved, Hit
    <3>1. events.index[n] < i
      BY <1>0, <1>w, <2>1 DEF MarksHold
    <3> QED BY <1>w, <2>1, <3>1 DEF PassedOverOnlyIfMoved
  <2> QED BY <2>2, <2>3, <2>4 DEF WalkInv
<1>10. CASE SkipNode
  <2>1. /\ pc' = "dispatch" /\ Waiters' = Waiters /\ pc = "dispatch" /\ i' = i + 1
        /\ UNCHANGED <<events, fd, event_type, work, mark>>
    BY <1>10 DEF SkipNode, NextEntry, Waiters
  <2>2. \A n \in Waiters : events.index[n] = i => ~Hit(n)
    BY <1>10 DEF SkipNode, TableInv, TableConsistent, Consistent, Waiters
  <2>3. MarksHold'
    BY <1>w, <2>1 DEF MarksHold
  <2>4. CalledBehind'
    BY <1>0, <1>w, <2>1 DEF CalledBehind
  <2>5. PassedOverOnlyIfMoved'
    <3> SUFFICES ASSUME NEW n \in Waiters, mark[n] = "waiting", events.index[n] < i + 1
                 PROVE  ~Hit(n)
      BY <2>1 DEF PassedOverOnlyIfMoved, Hit
    <3>1. events.index[n] < i \/ events.index[n] = i
      BY <1>0
    <3> QED BY <1>w, <2>1, <2>2, <3>1 DEF PassedOverOnlyIfMoved
  <2> QED BY <2>3, <2>4, <2>5 DEF WalkInv
<1>11. CASE WalkEnds
  BY <1>0, <1>11, <1>q DEF WalkEnds, Waiters
<1>12. CASE RepairKeeps \/ RepairDrops \/ ErrorReturns \/ RepairEnds \/ SelectExit
  <2>1. /\ Waiters' = Waiters /\ pc \notin {"dispatch", "callback"} /\ mark' = mark
        /\ pc' \notin {"dispatch", "callback"}
    BY <1>12 DEF RepairKeeps, RepairDrops, ErrorReturns, RepairEnds, SelectExit, Waiters
  <2> QED BY <1>0, <1>w, <2>1, <1>q DEF MarksHold
<1>13. CASE UNCHANGED vars
  BY <1>w, <1>13 DEF vars, WalkInv, MarksHold, CalledBehind, PassedOverOnlyIfMoved, Hit, Waiters
<1> QED
  BY <1>1, <1>2, <1>3, <1>4, <1>5, <1>6, <1>7, <1>8, <1>9, <1>10, <1>11, <1>12, <1>13
  DEF Next, UserNext, LoopNext, Exited

-----------------------------------------------------------------------------
(* The theorems                                                            *)

IInv == TableInv /\ BitsInv /\ WalkInv

\* The invariant all the safety properties follow from.
THEOREM Invariance == Spec => []IInv
<1>1. Init => IInv
  BY TableInit, BitsInit, WalkInit DEF IInv
<1>2. IInv /\ [Next]_vars => IInv'
  BY TableStep, BitsStep, WalkStep DEF IInv
<1> QED BY <1>1, <1>2, PTL DEF Spec

\* Every variable keeps its type, whatever user code does in callbacks.
THEOREM TypeCorrect == Spec => []TypeOK
<1>1. IInv => TypeOK
  BY DEF IInv, TableInv
<1> QED BY <1>1, Invariance, PTL

\* The node table of nspr_select.c stays whole: positions and index fields
\* agree after any sequence of adds and deletes, inside walks and outside.
THEOREM TableStaysWhole == Spec => []TableConsistent
<1>1. IInv => TableConsistent
  BY DEF IInv, TableInv
<1> QED BY <1>1, Invariance, PTL

\* select() is asked about every registered node: max_fd covers all of them.
THEOREM MaxFdStaysUp == Spec => []MaxFdCovers
<1>1. IInv => MaxFdCovers
  BY DEF IInv, BitsInv
<1> QED BY <1>1, Invariance, PTL

\* No bit outlives the node it was set for, whatever is closed and repaired.
THEOREM NoBitOutlives == Spec => []BitsHaveWaiters
<1>1. IInv => BitsHaveWaiters
  BY DEF IInv, BitsInv
<1> QED BY <1>1, Invariance, PTL

\* Under the callers' discipline every registered node has its bit.
THEOREM SetsMatchWaiters == Spec => []WaitersHaveBits
<1>1. IInv => WaitersHaveBits
  BY DEF IInv, BitsInv
<1> QED BY <1>1, Invariance, PTL

\* A walk calls a registration once at most, and passes over a reported node
\* only if a delete moved it since select() returned.
THEOREM WalkIsFair == Spec => [](CalledBehind /\ PassedOverOnlyIfMoved)
<1>1. IInv => CalledBehind /\ PassedOverOnlyIfMoved
  BY DEF IInv, WalkInv
<1> QED BY <1>1, Invariance, PTL

\* A registered node only ever moves towards the front of the table.
THEOREM PositionsShrink == Spec => PositionNeverGrows
<1> DEFINE Shrinks == \A n \in Waiters :
                        events'.index[n] >= 0 => events'.index[n] <= events.index[n]
<1>1. IInv /\ [Next]_vars => [Shrinks]_vars
  <2> SUFFICES ASSUME IInv, [Next]_vars PROVE Shrinks
    OBVIOUS
  <2>0. /\ TableInv /\ Waiters \subseteq Nodes
        /\ events.index \in [Nodes -> Nat \union {Unlinked, Unset}]
    BY DEF IInv, TableInv, TypeOK, TableType, Waiters, Linked
  <2>1. \A n \in Waiters : events.index[n] \in Nat
    BY <2>0 DEF Waiters, Linked, Unlinked, Unset
  <2>2. CASE UNCHANGED events
    BY <2>1, <2>2
  <2>3. ASSUME NEW n \in Nodes, NEW f \in Fds, EventNew(n, f) PROVE Shrinks
    BY <2>0, <2>1, <2>3, NewTable
  <2>4. ASSUME NEW n \in Nodes, NEW type \in AddTypes, EventAdd(n, type) PROVE Shrinks
    BY <2>0, <2>1, <2>4, AddTable
  <2>5. ASSUME NEW n \in Nodes, EventDel(n) PROVE Shrinks
    <3>1. /\ Waiters' = Waiters \ {n} /\ events'.index[n] = Unlinked
          /\ TableType(events', Nodes)
          /\ \A m \in Waiters' : IF m = LastItem(events)
                                  THEN events'.index[m] < events.index[m]
                                  ELSE events'.index[m] = events.index[m]
      BY <2>0, <2>5, DelTable
    <3>2. ASSUME NEW m \in Waiters' PROVE events'.index[m] \in Int
      BY <3>1, <3>2 DEF TableType, Waiters, Linked, Unlinked, Unset
    <3> SUFFICES ASSUME NEW m \in Waiters, events'.index[m] >= 0
                 PROVE  events'.index[m] <= events.index[m]
      OBVIOUS
    <3>3. m # n
      BY <3>1 DEF Unlinked
    <3> QED BY <2>1, <3>1, <3>2, <3>3
  <2>6. UNCHANGED vars => UNCHANGED events
    BY DEF vars
  <2> QED
    BY <2>2, <2>3, <2>4, <2>5, <2>6
    DEF Next, UserNext, LoopNext, Exited, CloseFd, EventAddRefused, SelectReturns,
        SelectInterrupted, SelectFails, SelectBadFd, CallNode, CallbackReturns, SkipNode,
        WalkEnds, RepairKeeps, RepairDrops, ErrorReturns, RepairEnds, SelectExit
<1> QED BY <1>1, Invariance, PTL DEF Spec, PositionNeverGrows

-----------------------------------------------------------------------------
(* The refinement: every step of the back end is a step of what EventWatch  *)
(* promises, or changes nothing that the promise is about.                  *)

\* The variables of the promise, in those of the back end.
promiseVars == <<WatchedPairs, ReadyPairs, RunningNode, ServedNodes>>

\* No descriptor set, no report.
LEMMA NothingReady ==
    ASSUME work = NoBits
    PROVE  ReadyPairs = {}
BY DEF NoBits, Kinds, ReadyPairs

-----------------------------------------------------------------------------
(* Steps                                                                   *)

LEMMA PromiseInit == Init => Promise!Init
<1> SUFFICES ASSUME Init PROVE Promise!Init
  OBVIOUS
<1>1. Waiters = {}
  BY EmptyLemma DEF Init, Waiters
<1>2. WatchedPairs = [w \in {} |-> <<>>]
  BY <1>1 DEF WatchedPairs
<1>3. ReadyPairs = {}
  BY NothingReady DEF Init
<1>4. RunningNode = NoNode /\ ServedNodes = {}
  BY <1>1 DEF Init, RunningNode, ServedNodes
<1> QED BY <1>2, <1>3, <1>4 DEF Promise!Init

\* What the promise says of a node's pair depends on the fields of registered
\* nodes only.
LEMMA PairsKept ==
    ASSUME Waiters' = Waiters,
           \A m \in Waiters : fd'[m] = fd[m] /\ event_type'[m] = event_type[m]
    PROVE  WatchedPairs' = WatchedPairs
BY DEF WatchedPairs, Pair

LEMMA PromiseStep == IInv /\ [Next]_vars => [Promise!Next]_promiseVars
<1> SUFFICES ASSUME IInv, [Next]_vars PROVE Promise!Next \/ UNCHANGED promiseVars
  OBVIOUS
<1>0. /\ TableInv /\ TypeOK /\ Waiters \subseteq Nodes /\ BitsHaveWaiters
      /\ MarksHold /\ CalledBehind
  BY DEF IInv, TableInv, TypeOK, TableType, Waiters, Linked, BitsInv, WalkInv
<1>k. ASSUME UNCHANGED <<events, fd, event_type, work, mark>>, RunningNode' = RunningNode
      PROVE  UNCHANGED promiseVars
  <2>1. Waiters' = Waiters
    BY <1>k DEF Waiters
  <2>2. UNCHANGED <<WatchedPairs, ReadyPairs, ServedNodes>>
    BY <1>k, <2>1, PairsKept DEF ReadyPairs, ServedNodes
  <2> QED BY <1>k, <2>2 DEF promiseVars
<1>1. ASSUME NEW n \in Nodes, NEW f \in Fds, EventNew(n, f) PROVE UNCHANGED promiseVars
  <2>1. Waiters' = Waiters /\ n \notin Waiters
    BY <1>0, <1>1, NewTable
  <2>2. \A m \in Waiters : fd'[m] = fd[m] /\ event_type'[m] = event_type[m]
    BY <1>0, <1>1, <2>1 DEF EventNew, TypeOK
  <2>3. UNCHANGED <<work, pc, cur, mark>>
    BY <1>1 DEF EventNew, walk
  <2>4. UNCHANGED <<ReadyPairs, RunningNode, ServedNodes>>
    BY <2>1, <2>3 DEF ReadyPairs, RunningNode, ServedNodes
  <2> QED BY <2>1, <2>2, <2>4, PairsKept DEF promiseVars
<1>2. ASSUME NEW f \in Descriptors, CloseFd(f) PROVE UNCHANGED promiseVars
  BY <1>2, <1>k DEF CloseFd, walk, RunningNode
<1>3. ASSUME NEW n \in Nodes, NEW type \in AddTypes, EventAdd(n, type)
      PROVE  Promise!Next
  <2>1. Waiters' = Waiters \union {n} /\ n \notin Waiters
    BY <1>0, <1>3, AddTable
  <2>2. /\ \A m \in Waiters : fd'[m] = fd[m] /\ event_type'[m] = event_type[m]
        /\ UNCHANGED <<work, pc, cur, mark>>
    BY <1>0, <1>3, <2>1 DEF EventAdd, TypeOK, walk
  <2>3. Pair(n)' = <<fd[n], type>> /\ Pair(n)' \in Descriptors \X Kinds
    BY <1>0, <1>3 DEF EventAdd, Accepted, Pair, TypeOK, Descriptors
  <2>4. UNCHANGED <<ReadyPairs, RunningNode>>
    BY <2>2 DEF ReadyPairs, RunningNode
  <2>5. ServedNodes' = ServedNodes
    BY <1>0, <2>1, <2>2 DEF ServedNodes, MarksHold
  <2>6. WatchedPairs' = [x \in Waiters \union {n} |-> IF x = n THEN Pair(n)' ELSE WatchedPairs[x]]
    BY <2>1, <2>2 DEF WatchedPairs, Pair
  <2>7. DOMAIN WatchedPairs = Waiters
    BY DEF WatchedPairs
  <2>8. Promise!Register(n, Pair(n)')
    BY <2>1, <2>4, <2>5, <2>6, <2>7 DEF Promise!Register
  <2> QED BY <2>3, <2>8 DEF Promise!Next
<1>4. ASSUME NEW n \in Nodes, NEW type \in AddTypes, EventAddRefused(n, type)
      PROVE  UNCHANGED promiseVars
  <2>1. Waiters' = Waiters /\ n \notin Waiters
    BY <1>4 DEF EventAddRefused, Waiters
  <2>2. /\ \A m \in Waiters : fd'[m] = fd[m] /\ event_type'[m] = event_type[m]
        /\ UNCHANGED <<work, pc, cur, mark>>
    BY <1>0, <1>4, <2>1 DEF EventAddRefused, TypeOK, walk
  <2>3. UNCHANGED <<ReadyPairs, RunningNode, ServedNodes>>
    BY <2>1, <2>2 DEF ReadyPairs, RunningNode, ServedNodes
  <2> QED BY <2>1, <2>2, <2>3, PairsKept DEF promiseVars
<1>5. ASSUME NEW n \in Nodes, EventDel(n) PROVE Promise!Next
  <2>1. Waiters' = Waiters \ {n} /\ n \in Waiters
    BY <1>0, <1>5, DelTable
  <2>2. UNCHANGED <<fd, event_type, work, pc, cur>>
    BY <1>5 DEF EventDel, walk
  <2>3. \A m \in Nodes : mark'[m] = "called" <=> m # n /\ mark[m] = "called"
    BY <1>5 DEF EventDel
  <2>4. UNCHANGED <<ReadyPairs, RunningNode>>
    BY <2>2 DEF ReadyPairs, RunningNode
  <2>5. ServedNodes' = ServedNodes \ {n}
    BY <1>0, <2>1, <2>3 DEF ServedNodes
  <2>6. WatchedPairs' = [x \in Waiters \ {n} |-> WatchedPairs[x]]
    BY <2>1, <2>2 DEF WatchedPairs, Pair
  <2>7. DOMAIN WatchedPairs = Waiters
    BY DEF WatchedPairs
  <2>8. Promise!Unregister(n)
    BY <2>1, <2>4, <2>5, <2>6, <2>7 DEF Promise!Unregister
  <2> QED BY <2>8 DEF Promise!Next
<1>6. CASE SelectReturns
  <2>1. UNCHANGED <<events, fd, event_type, cur>> /\ pc = "user" /\ pc' = "dispatch"
    BY <1>6 DEF SelectReturns
  <2>2. Waiters' = Waiters /\ WatchedPairs' = WatchedPairs
    BY <2>1, PairsKept DEF Waiters
  <2>3. RunningNode = NoNode /\ RunningNode' = NoNode
    BY <2>1 DEF RunningNode
  <2>4. ServedNodes' = {}
    BY <1>0, <1>6, <2>2 DEF SelectReturns, ServedNodes
  <2>5. work'["read"] \subseteq master["read"] /\ work'["write"] \subseteq master["write"]
    BY <1>6 DEF SelectReturns, Examined, Kinds
  <2>6. ASSUME NEW p \in ReadyPairs' PROVE \E w \in Waiters : WatchedPairs[w] = p
    <3>1. PICK kind \in Kinds : \E f \in master[kind] : p = <<f, kind>>
      BY <2>5 DEF ReadyPairs, Kinds
    <3> QED BY <1>0, <3>1 DEF BitsHaveWaiters, WatchedPairs, Pair
  <2>7. DOMAIN WatchedPairs = Waiters
    BY DEF WatchedPairs
  <2>8. Promise!Poll
    BY <2>2, <2>3, <2>4, <2>6, <2>7 DEF Promise!Poll
  <2> QED BY <2>8 DEF Promise!Next
<1>7. CASE CallNode
  <2> DEFINE n == events.slot[i]
  <2>1. n \in Nodes /\ n \in Waiters /\ events.index[n] = i /\ i \in Nat
    BY <1>0, <1>7, EntryIsWaiter DEF CallNode, TypeOK
  <2>2. /\ UNCHANGED <<events, fd, event_type, work>>
        /\ pc = "dispatch" /\ pc' = "callback" /\ cur' = n
        /\ mark' = [mark EXCEPT ![n] = "called"] /\ Hit(n)
    BY <1>7 DEF CallNode
  <2>3. mark[n] # "called"
    BY <1>0, <2>1, <2>2 DEF CalledBehind
  <2>4. Waiters' = Waiters /\ WatchedPairs' = WatchedPairs
    BY <2>2, PairsKept DEF Waiters
  <2>5. ReadyPairs' = ReadyPairs /\ RunningNode = NoNode /\ RunningNode' = n
    BY <2>2 DEF ReadyPairs, RunningNode
  <2>6. ServedNodes' = ServedNodes \union {n} /\ n \notin ServedNodes
    BY <1>0, <2>1, <2>2, <2>3, <2>4 DEF ServedNodes, TypeOK
  <2>7. DOMAIN WatchedPairs = Waiters /\ WatchedPairs[n] = Pair(n)
    BY <2>1 DEF WatchedPairs
  <2>8. Pair(n) \in ReadyPairs
    BY <2>2 DEF Hit, Pair, ReadyPairs, Kinds
  <2>9. Promise!Run(n)
    BY <2>1, <2>4, <2>5, <2>6, <2>7, <2>8 DEF Promise!Run
  <2> QED BY <2>1, <2>9 DEF Promise!Next
<1>8. CASE CallbackReturns
  <2>1. UNCHANGED <<events, fd, event_type, work, mark>> /\ pc = "callback" /\ pc' = "dispatch"
    BY <1>8 DEF CallbackReturns
  <2>2. UNCHANGED <<WatchedPairs, ReadyPairs, ServedNodes>>
    BY <2>1, PairsKept DEF Waiters, ReadyPairs, ServedNodes
  <2>3. RunningNode = cur /\ RunningNode' = NoNode
    BY <2>1 DEF RunningNode
  <2>4. CASE cur = NoNode
    BY <2>2, <2>3, <2>4 DEF promiseVars
  <2>5. CASE cur # NoNode
    BY <2>2, <2>3, <2>5 DEF Promise!Finish, Promise!Next
  <2> QED BY <2>4, <2>5
<1>9. CASE WalkEnds
  <2>1. /\ UNCHANGED <<events, fd, event_type>> /\ work' = NoBits
        /\ pc = "dispatch" /\ pc' = "user"
    BY <1>9 DEF WalkEnds
  <2>2. Waiters' = Waiters /\ WatchedPairs' = WatchedPairs
    BY <2>1, PairsKept DEF Waiters
  <2>3. RunningNode = NoNode /\ RunningNode' = NoNode
    BY <2>1 DEF RunningNode
  <2>4. ReadyPairs' = {}
    BY <2>1 DEF ReadyPairs, NoBits, Kinds
  <2>5. ServedNodes' = {}
    BY <1>0, <1>9, <2>2 DEF WalkEnds, ServedNodes
  <2>6. Promise!Poll
    BY <2>2, <2>3, <2>4, <2>5 DEF Promise!Poll
  <2> QED BY <2>6 DEF Promise!Next
<1>10. ASSUME \/ SelectInterrupted \/ SelectFails \/ SelectBadFd \/ SkipNode
              \/ RepairKeeps \/ RepairDrops \/ ErrorReturns \/ RepairEnds
              \/ SelectExit \/ UNCHANGED vars
       PROVE  UNCHANGED promiseVars
  BY <1>10, <1>k
  DEF SelectInterrupted, SelectFails, SelectBadFd, SkipNode, RepairKeeps, RepairDrops,
      ErrorReturns, RepairEnds, SelectExit, vars, walk, RunningNode
<1> QED
  BY <1>1, <1>2, <1>3, <1>4, <1>5, <1>6, <1>7, <1>8, <1>9, <1>10
  DEF Next, UserNext, LoopNext, Exited

-----------------------------------------------------------------------------

\* The back end keeps its promise, whatever user code does in its callbacks: a
\* node is called only while it is registered, for what select() reported, one
\* callback at a time and once per walk for a registration.
THEOREM KeepsPromise == Spec => ImplementsPromise
<1>1. IInv /\ [Next]_vars => [Promise!Next]_(Promise!vars)
  BY PromiseStep DEF promiseVars, Promise!vars
<1> QED
  BY <1>1, PromiseInit, Invariance, PTL DEF Spec, ImplementsPromise, Promise!Spec

-----------------------------------------------------------------------------
(* What NoStarvation and RepairsEnd need of the code besides fairness.      *)

\* Where the loops over the table are: the walk, and the repair.
InLoop == pc \in {"dispatch", "callback", "repair", "error"}

\* Neither of them leaves the array.
RoomInv ==
    /\ events.count <= Capacity
    /\ InLoop => i <= Capacity
    /\ pc \in {"callback", "error"} => i < Capacity
    /\ pc = "repair" /\ phase = "write" => i < Capacity

LEMMA RoomInit == Init => RoomInv
BY CapacityAssumption DEF Init, EmptyTable, RoomInv, InLoop

LEMMA RoomStep == TableInv /\ RoomInv /\ [Next]_vars => RoomInv'
<1> SUFFICES ASSUME TableInv, RoomInv, [Next]_vars PROVE RoomInv'
  OBVIOUS
<1>0. /\ events.count \in Nat /\ Capacity \in Nat /\ i \in Nat /\ phase \in {"read", "write"}
      /\ events.count <= Capacity
  BY CapacityAssumption DEF TableInv, TypeOK, TableType, RoomInv, Kinds
<1>k. ASSUME events'.count <= Capacity, UNCHANGED walk PROVE RoomInv'
  BY <1>k DEF walk, RoomInv, InLoop
<1>1. ASSUME NEW n \in Nodes, NEW f \in Fds, EventNew(n, f) PROVE RoomInv'
  <2>1. events'.count = events.count  BY <1>1 DEF EventNew, Fresh
  <2> QED BY <1>0, <1>1, <1>k, <2>1 DEF EventNew
<1>2. ASSUME NEW n \in Nodes, NEW type \in AddTypes, EventAdd(n, type) PROVE RoomInv'
  <2>1. events'.count = events.count + 1 /\ events.count < Capacity
    BY <1>2 DEF EventAdd, Link
  <2>2. events'.count <= Capacity  BY <1>0, <2>1
  <2> QED BY <1>2, <1>k, <2>2 DEF EventAdd
<1>3. ASSUME NEW n \in Nodes, EventDel(n) PROVE RoomInv'
  <2>1. events'.count = events.count - 1  BY <1>3 DEF EventDel, Unlink
  <2>2. events'.count <= Capacity  BY <1>0, <2>1
  <2> QED BY <1>3, <1>k, <2>2 DEF EventDel
<1>4. ASSUME (\E f \in Descriptors : CloseFd(f))
             \/ (\E n \in Nodes, type \in AddTypes : EventAddRefused(n, type))
      PROVE  RoomInv'
  BY <1>0, <1>4, <1>k DEF CloseFd, EventAddRefused
<1>5. CASE SelectReturns \/ SelectInterrupted \/ SelectFails \/ SelectBadFd
  BY <1>0, <1>5 DEF SelectReturns, SelectInterrupted, SelectFails, SelectBadFd, FirstEntry,
                    RoomInv, InLoop, walk
<1>6. CASE CallNode \/ CallbackReturns \/ SkipNode \/ WalkEnds
  BY <1>0, <1>6 DEF CallNode, CallbackReturns, SkipNode, WalkEnds, NextEntry, RoomInv, InLoop
<1>7. CASE RepairKeeps \/ RepairDrops
  BY <1>0, <1>7 DEF RepairKeeps, RepairDrops, Advance, NextEntry, RoomInv, InLoop
<1>8. CASE ErrorReturns \/ RepairEnds \/ SelectExit
  BY <1>0, <1>8 DEF ErrorReturns, RepairEnds, SelectExit, Advance, NextEntry, RoomInv, InLoop
<1>9. CASE UNCHANGED vars  BY <1>0, <1>9, <1>k DEF vars, walk
<1> QED
  BY <1>1, <1>2, <1>3, <1>4, <1>5, <1>6, <1>7, <1>8, <1>9 DEF Next, UserNext, LoopNext, Exited

\* The steps of its own that a loop has left at most: two for each place of the
\* array in a walk, four in a repair.
Room == Capacity - i
StepsLeft ==
    CASE pc = "dispatch" -> 2 * Room
      [] pc = "callback" -> 2 * Room - 1
      [] pc = "repair" /\ phase = "read" -> 4 * Room
      [] pc = "error" /\ phase = "read" -> 4 * Room - 1
      [] pc = "repair" /\ phase = "write" -> 4 * Room - 2
      [] pc = "error" /\ phase = "write" -> 4 * Room - 3
      [] OTHER -> 0

LEMMA StepsAreNat == TableInv /\ RoomInv => StepsLeft \in Nat
<1> SUFFICES ASSUME TableInv, RoomInv PROVE StepsLeft \in Nat
  OBVIOUS
<1>1. i \in Nat /\ Capacity \in Nat /\ phase \in {"read", "write"}
  BY CapacityAssumption DEF TableInv, TypeOK, Kinds
<1>2. InLoop => Room \in Nat  BY <1>1 DEF RoomInv, Room
<1>3. pc \in {"callback", "error"} => Room >= 1  BY <1>1 DEF RoomInv, Room
<1>4. pc = "repair" /\ phase = "write" => Room >= 1  BY <1>1 DEF RoomInv, Room
<1> HIDE DEF Room
<1> QED BY <1>1, <1>2, <1>3, <1>4 DEF StepsLeft, InLoop

\* A step of the loop leaves it, or leaves it fewer steps; user code gives it none.
StepsFewer ==
    InLoop => IF UserNext THEN StepsLeft' = StepsLeft
                          ELSE InLoop' => StepsLeft' < StepsLeft

LEMMA StepsGo == ASSUME TableInv, RoomInv, Next PROVE StepsFewer
<1> SUFFICES ASSUME InLoop
             PROVE  IF UserNext THEN StepsLeft' = StepsLeft
                                ELSE InLoop' => StepsLeft' < StepsLeft
  BY DEF StepsFewer
<1>0. i \in Nat /\ Capacity \in Nat /\ phase \in {"read", "write"} /\ StepsLeft \in Nat
  BY CapacityAssumption, StepsAreNat DEF TableInv, TypeOK, Kinds
<1>1. CASE UserNext
  <2>1. UNCHANGED walk
    BY <1>1 DEF UserNext, EventNew, CloseFd, EventAdd, EventAddRefused, EventDel
  <2>2. StepsLeft' = StepsLeft  BY <2>1 DEF walk, StepsLeft, Room
  <2> QED BY <1>1, <2>2
<1>2. ASSUME UNCHANGED i, pc' = "callback", CallNode PROVE StepsLeft' < StepsLeft
  BY <1>0, <1>2 DEF CallNode, StepsLeft, Room
<1>3. ASSUME CallbackReturns \/ SkipNode PROVE StepsLeft' < StepsLeft
  BY <1>0, <1>3 DEF CallbackReturns, SkipNode, NextEntry, StepsLeft, Room
<1>4. ASSUME RepairKeeps PROVE StepsLeft' < StepsLeft
  BY <1>0, <1>4 DEF RepairKeeps, Advance, NextEntry, StepsLeft, Room
<1>5. ASSUME RepairDrops PROVE StepsLeft' < StepsLeft
  BY <1>0, <1>5 DEF RepairDrops, StepsLeft, Room
<1>6. ASSUME ErrorReturns PROVE StepsLeft' < StepsLeft
  BY <1>0, <1>6 DEF ErrorReturns, Advance, NextEntry, StepsLeft, Room
<1>7. ASSUME LoopNext PROVE InLoop' => StepsLeft' < StepsLeft
  <2>1. ~ (SelectReturns \/ SelectInterrupted \/ SelectFails \/ SelectBadFd)
    BY DEF InLoop, SelectReturns, SelectInterrupted, SelectFails, SelectBadFd
  <2>2. WalkEnds \/ RepairEnds \/ SelectExit => ~InLoop'
    BY DEF InLoop, WalkEnds, RepairEnds, SelectExit
  <2>3. CallNode => UNCHANGED i /\ pc' = "callback"  BY DEF CallNode
  <2> QED BY <1>2, <1>3, <1>4, <1>5, <1>6, <1>7, <2>1, <2>2, <2>3 DEF LoopNext
<1>8. ~ Exited  BY DEF InLoop, Exited
<1> QED BY <1>1, <1>7, <1>8 DEF Next

\* Every walk and every repair comes to its end, whatever callbacks add to the table
\* behind it: its steps are counted by the places of the array.
THEOREM LoopsAreShort == Spec => [](StepsLeft \in Nat) /\ [][StepsFewer]_vars
<1>1. IInv /\ RoomInv /\ [Next]_vars => RoomInv'  BY RoomStep DEF IInv
<1>2. IInv /\ RoomInv => StepsLeft \in Nat  BY StepsAreNat DEF IInv
<1>3. IInv /\ RoomInv /\ [Next]_vars => [StepsFewer]_vars  BY StepsGo DEF IInv
<1> QED BY <1>1, <1>2, <1>3, RoomInit, Invariance, PTL DEF Spec

\* A node that a walk passes over because it was moved stands nearer the front.
MoveCosts ==
    \A n \in Waiters :
        mark[n] = "waiting" /\ mark'[n] = "moved" => events'.index[n] < events.index[n]

\* A walk passes over a reported node only if a delete moved the node
\* (PassedOverOnlyIfMoved).  That costs it a place, which it does not get back
\* (PositionNeverGrows): a node misses its call no more often, in all its registration,
\* than it has places before it.
THEOREM MovesCostAPlace == Spec => [][MoveCosts]_vars
<1>1. ASSUME IInv, Next, NEW n \in Waiters, mark[n] = "waiting", mark'[n] = "moved"
      PROVE  events'.index[n] < events.index[n]
  <2>0. TableInv /\ n \in Nodes
    BY <1>1 DEF IInv, TableInv, TypeOK, TableType, Waiters, Linked
  <2>1. mark' # mark  BY <1>1
  <2>2. \A m \in Nodes : [k \in Nodes |-> IF k \in Waiters THEN "waiting" ELSE "new"][m] # "moved"
    OBVIOUS
  <2>3. ~ SelectReturns /\ ~ WalkEnds  BY <1>1, <2>0, <2>2 DEF SelectReturns, WalkEnds
  <2>4. ~ CallNode  BY <1>1, <2>0 DEF CallNode, IInv, TableInv, TypeOK
  <2>5. PICK x \in Nodes : EventDel(x)
    BY <1>1, <2>1, <2>3, <2>4 DEF Next, UserNext, LoopNext, Exited, vars, EventNew, CloseFd,
          EventAdd, EventAddRefused, SelectInterrupted, SelectFails, SelectBadFd,
          CallbackReturns, SkipNode, RepairKeeps, RepairDrops, ErrorReturns, RepairEnds,
          SelectExit
  <2>6. n # x /\ n = LastItem(events)  BY <1>1, <2>0, <2>5 DEF EventDel
  <2>7. n \in Waiters'  BY <2>0, <2>5, <2>6, DelTable
  <2> QED BY <2>0, <2>5, <2>6, <2>7, DelTable
<1>2. IInv /\ [Next]_vars => [MoveCosts]_vars  BY <1>1 DEF MoveCosts
<1> QED BY <1>2, Invariance, PTL DEF Spec

-----------------------------------------------------------------------------
(* What a repair leaves behind when user code does nothing.                 *)

\* The test of a repair finds nothing wrong with the node's bit in this set.
Sound(n, kind) == fd[n] \in master[kind] => IsSocket(fd[n])

\* Where the repair has been, all bits are those of sockets; after it, all bits.
RepairInv ==
    IF pc \in {"repair", "error"}
    THEN /\ \A n \in Waiters : events.index[n] < i => Sound(n, "read") /\ Sound(n, "write")
         /\ pc = "error" \/ phase = "write" => i < events.count /\ cur = events.slot[i]
         /\ phase = "write" => Sound(cur, "read")
         /\ pc = "error" => Sound(cur, phase)
    ELSE \A kind \in Kinds : \A f \in master[kind] : IsSocket(f)

StartsRepair == pc = "repair" /\ i = 0 /\ phase = "read"
Repairing == pc \in {"repair", "error"}

LEMMA RepairStarts == TableInv /\ StartsRepair => RepairInv
<1> SUFFICES ASSUME TableInv, StartsRepair PROVE RepairInv  OBVIOUS
<1>1. TableType(events, Nodes)  BY DEF TableInv, TypeOK
<1>2. ASSUME NEW n \in Waiters PROVE ~ (events.index[n] < 0)
  <2>1. events.index[n] >= 0 /\ events.index[n] \in Int
    BY <1>1 DEF Waiters, Linked, TableType, Unlinked, Unset
  <2> QED BY <2>1
<1> QED BY <1>2 DEF StartsRepair, RepairInv

LEMMA RepairGoes ==
    ASSUME TableInv, BitsHaveWaiters, RepairInv, LoopNext
    PROVE  RepairInv' /\ (~ Repairing => ~ Repairing')
<1>0. /\ TypeOK /\ Consistent(events) /\ TableType(events, Nodes) /\ events.count \in Nat
      /\ i \in Nat /\ phase \in {"read", "write"} /\ Kinds = {"read", "write"}
      /\ master \in [Kinds -> SUBSET Descriptors] /\ WaitersAreValid
      /\ Waiters \subseteq Nodes
  BY DEF TableInv, TypeOK, TableConsistent, TableType, Kinds, Waiters, Linked
<1>1. UNCHANGED <<events, fd, event_type, kernel>>
  BY DEF LoopNext, SelectReturns, SelectInterrupted, SelectFails, SelectBadFd, CallNode,
         CallbackReturns, SkipNode, WalkEnds, RepairKeeps, RepairDrops, ErrorReturns,
         RepairEnds, SelectExit
<1>2. Waiters' = Waiters /\ \A f : IsSocket(f)' <=> IsSocket(f)  BY <1>1 DEF Waiters, IsSocket
<1>3. CASE ~ Repairing
  <2>1. \A kind \in Kinds : \A f \in master[kind] : IsSocket(f)
    BY <1>3 DEF RepairInv, Repairing
  <2>2. \A m : ~ SetsAreBad(m)
    BY <2>1 DEF SetsAreBad, Examined, IsOpen, IsSocket
  <2>3. ~ SelectBadFd  BY <2>2 DEF SelectBadFd
  <2>4. ~ Repairing' /\ (master' = master \/ master' = NoBits)
    <3>1. ~ (RepairKeeps \/ RepairDrops \/ ErrorReturns \/ RepairEnds)
      BY <1>3 DEF Repairing, RepairKeeps, RepairDrops, ErrorReturns, RepairEnds
    <3>2. SelectReturns \/ SelectInterrupted \/ SelectFails \/ SelectExit \/ CallNode
          \/ CallbackReturns \/ SkipNode \/ WalkEnds
      BY <2>3, <3>1 DEF LoopNext
    <3>3. CASE SelectReturns \/ SelectInterrupted \/ SelectFails \/ SelectExit
      BY <1>3, <3>3
         DEF Repairing, SelectReturns, SelectInterrupted, SelectFails, SelectExit, walk
    <3>4. CASE CallNode \/ CallbackReturns \/ SkipNode \/ WalkEnds
      BY <1>3, <3>4 DEF Repairing, CallNode, CallbackReturns, SkipNode, WalkEnds
    <3> QED BY <3>2, <3>3, <3>4
  <2>5. \A kind \in Kinds : \A f \in master'[kind] : IsSocket(f)'
    BY <1>2, <2>1, <2>4 DEF NoBits
  <2> QED BY <1>3, <2>4, <2>5 DEF RepairInv, Repairing
<1>4. CASE Repairing /\ phase = "read"
  <2>1. CASE RepairKeeps
    <3>1. Tested = events.slot[i] /\ i < events.count  BY <1>4, <2>1 DEF RepairKeeps, Tested
    <3>2. UNCHANGED <<master, i, pc>> /\ phase' = "write" /\ cur' = events.slot[i]
      BY <1>4, <2>1, <3>1 DEF RepairKeeps, Advance
    <3>3. pc = "repair" /\ Sound(events.slot[i], "read")
      BY <1>4, <2>1, <3>1 DEF RepairKeeps, Sound
    <3> QED BY <1>1, <1>2, <1>4, <3>1, <3>2, <3>3 DEF RepairInv, Sound, Repairing
  <2>2. CASE RepairDrops
    <3>1. Tested = events.slot[i] /\ i < events.count  BY <1>4, <2>2 DEF RepairDrops, Tested
    <3>2. /\ UNCHANGED <<i, phase>> /\ pc' = "error" /\ cur' = events.slot[i]
          /\ \A kind \in Kinds : master'[kind] \subseteq master[kind]
          /\ fd[events.slot[i]] \notin master'[phase]
      BY <1>0, <1>4, <2>2, <3>1 DEF RepairDrops, Repaired
    <3>3. pc = "repair"  BY <2>2 DEF RepairDrops
    <3> QED BY <1>0, <1>1, <1>2, <1>4, <3>1, <3>2, <3>3 DEF RepairInv, Sound, Repairing
  <2>3. CASE ErrorReturns
    <3>1. /\ pc = "error" /\ pc' = "repair" /\ UNCHANGED <<master, i>> /\ phase' = "write"
          /\ cur' = cur
      BY <1>4, <2>3 DEF ErrorReturns, Advance
    <3> QED BY <1>1, <1>2, <1>4, <3>1 DEF RepairInv, Sound, Repairing
  <2>4. CASE RepairEnds
    <3>1. pc = "repair" /\ pc' = "user" /\ i >= events.count /\ UNCHANGED master
      BY <2>4 DEF RepairEnds
    <3>2. ASSUME NEW kind \in Kinds, NEW f \in master[kind] PROVE IsSocket(f)
      <4>1. PICK n \in Waiters : fd[n] = f  BY DEF BitsHaveWaiters
      <4>2. events.index[n] < events.count  BY <1>0 DEF Consistent, Waiters
      <4>3. events.index[n] < i
        BY <1>0, <3>1, <4>2 DEF TableType, Unlinked, Unset
      <4>4. Sound(n, "read") /\ Sound(n, "write")  BY <3>1, <4>3 DEF RepairInv
      <4> QED BY <1>0, <4>1, <4>4 DEF Sound
    <3> QED BY <1>2, <1>4, <3>1, <3>2 DEF RepairInv, Repairing
  <2> QED
    BY <1>4, <2>1, <2>2, <2>3, <2>4 DEF Repairing, LoopNext, SelectReturns, SelectInterrupted,
       SelectFails, SelectBadFd, CallNode, CallbackReturns, SkipNode, WalkEnds, SelectExit
<1>5. CASE Repairing /\ phase = "write"
  <2>0. i < events.count /\ cur = events.slot[i] /\ Sound(cur, "read")
    BY <1>5 DEF RepairInv, Repairing
  <2>1. \A n \in Waiters : events.index[n] < i + 1 => events.index[n] < i \/ n = cur
    <3> SUFFICES ASSUME NEW n \in Waiters, events.index[n] < i + 1, ~ (events.index[n] < i)
                 PROVE  n = cur
      OBVIOUS
    <3>1. events.index[n] \in Int  BY <1>0 DEF TableType, Unlinked, Unset
    <3>2. events.index[n] = i  BY <1>0, <3>1
    <3> QED BY <1>0, <2>0, <3>2 DEF Consistent, Waiters
  <2>2. CASE RepairDrops
    <3>2. /\ UNCHANGED <<i, phase, cur>> /\ pc' = "error"
          /\ \A kind \in Kinds : master'[kind] \subseteq master[kind]
          /\ fd[cur] \notin master'[phase]
      BY <1>0, <1>5, <2>2 DEF RepairDrops, Repaired, Tested
    <3>3. pc = "repair"  BY <2>2 DEF RepairDrops
    <3> QED BY <1>0, <1>1, <1>2, <1>5, <2>0, <3>2, <3>3 DEF RepairInv, Sound, Repairing
  <2>3. CASE RepairKeeps \/ ErrorReturns
    <3>1. pc' = "repair" /\ UNCHANGED master /\ phase' = "read" /\ i' = i + 1
      BY <1>5, <2>3 DEF RepairKeeps, ErrorReturns, Advance, NextEntry
    <3>2. Sound(cur, "write")
      BY <1>5, <2>3 DEF RepairKeeps, Tested, Sound, ErrorReturns, RepairInv
    <3>3. \A n \in Waiters : events.index[n] < i + 1 => Sound(n, "read") /\ Sound(n, "write")
      BY <1>5, <2>0, <2>1, <3>2 DEF RepairInv, Repairing
    <3> QED BY <1>1, <1>2, <1>5, <3>1, <3>3 DEF RepairInv, Sound, Repairing
  <2> QED
    BY <1>5, <2>2, <2>3 DEF Repairing, LoopNext, SelectReturns, SelectInterrupted,
       SelectFails, SelectBadFd, CallNode, CallbackReturns, SkipNode, WalkEnds, SelectExit,
       RepairEnds
<1> QED BY <1>0, <1>3, <1>4, <1>5

\* A repair repairs everything: if user code does nothing from its beginning on, it is
\* the last one.  RepairsEnd follows, since every repair ends (LoopsAreShort).
THEOREM OneRepairIsEnough ==
    Spec => [](StartsRepair /\ [][~UserNext]_vars => [](~Repairing => []~Repairing))
<1>1. IInv /\ StartsRepair => RepairInv  BY RepairStarts DEF IInv
<1>2. IInv /\ RepairInv /\ [Next]_vars /\ [~UserNext]_vars
      => RepairInv' /\ (~Repairing => ~Repairing')
  <2> SUFFICES ASSUME IInv, RepairInv, [Next]_vars, [~UserNext]_vars
               PROVE  RepairInv' /\ (~Repairing => ~Repairing')
    OBVIOUS
  <2>1. CASE LoopNext  BY <2>1, RepairGoes DEF IInv, BitsInv
  <2>2. CASE UNCHANGED vars
    BY <2>2 DEF vars, RepairInv, Repairing, Sound, IsSocket, Waiters
  <2>3. Exited => UNCHANGED vars  BY DEF Exited
  <2> QED BY <2>1, <2>2, <2>3 DEF Next
<1> QED BY <1>1, <1>2, Invariance, PTL DEF Spec
=============================================================================
