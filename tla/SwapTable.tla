------------------------------ MODULE SwapTable ------------------------------
(***************************************************************************)
(* The array that nspr_select.c keeps of its event nodes and nspr_timer.c  *)
(* of its timers: count entries without gaps, every registered item        *)
(* holding its own position in a field "index".  Removing an item moves    *)
(* the last entry into the hole, so positions change under the feet of     *)
(* whoever is walking the array.                                           *)
(*                                                                         *)
(* A table is a record: count, slot (a function on 0 .. count - 1) and     *)
(* index (one value for each item, registered or not).  The entries the    *)
(* array still holds at count and above are never read and are left out.   *)
(***************************************************************************)
EXTENDS Integers

\* NSPR_INVALID_EVENT_FD_INDEX and NSPR_TIMER_INVALID_INDEX
Unlinked == -1

\* The index field of an item no add has written yet: event.new and
\* timer.new allocate it and leave it as the memory was.
Unset == -2

EmptyTable(Items) ==
    [count |-> 0, slot |-> [k \in 0 .. -1 |-> Unset], index |-> [x \in Items |-> Unset]]

Linked(tb) == {x \in DOMAIN tb.index : tb.index[x] >= 0}

\* Mutant: the new item goes first, and the first one to the end.
LinkFirst(tb, x) ==
    [count |-> tb.count + 1,
     slot  |-> [k \in 0 .. tb.count |->
                    IF k = 0 THEN x ELSE IF k = tb.count THEN tb.slot[0] ELSE tb.slot[k]],
     index |-> [y \in DOMAIN tb.index |->
                    IF y = x THEN 0 ELSE IF tb.index[y] = 0 THEN tb.count ELSE tb.index[y]]]

\* The tail of nspr_select_add and of nspr_event_add_timer.
Link(tb, x) ==
    [count |-> tb.count + 1,
     slot  |-> [k \in 0 .. tb.count |-> IF k = tb.count THEN x ELSE tb.slot[k]],
     index |-> [tb.index EXCEPT ![x] = tb.count]]

\* The entry that fills the hole when some item is removed.
LastItem(tb) == tb.slot[tb.count - 1]

\* Mutant: the moved item keeps its old index.
UnlinkKeepsIndex(tb, x) ==
    LET last == tb.count - 1
    IN  [count |-> last,
         slot  |-> [k \in 0 .. last - 1 |->
                        IF k = tb.index[x] THEN LastItem(tb) ELSE tb.slot[k]],
         index |-> [tb.index EXCEPT ![x] = Unlinked]]

\* The tail of nspr_select_del and of nspr_event_del_timer.
Unlink(tb, x) ==
    LET last == tb.count - 1
        hole == tb.index[x]
    IN  [count |-> last,
         slot  |-> [k \in 0 .. last - 1 |-> IF k = hole THEN LastItem(tb) ELSE tb.slot[k]],
         index |-> [y \in DOMAIN tb.index |->
                        IF y = x THEN Unlinked
                        ELSE IF y = LastItem(tb) THEN hole ELSE tb.index[y]]]

\* A new object in place of an item that is not registered.
Fresh(tb, x) ==
    [count |-> tb.count, slot |-> tb.slot, index |-> [tb.index EXCEPT ![x] = Unset]]

TableType(tb, Items) ==
    /\ tb.count \in Nat
    /\ tb.slot \in [0 .. tb.count - 1 -> Items]
    /\ tb.index \in [Items -> Nat \union {Unlinked, Unset}]

\* Positions and entries agree in both directions.
Consistent(tb) ==
    /\ \A x \in Linked(tb) : tb.index[x] < tb.count /\ tb.slot[tb.index[x]] = x
    /\ \A k \in 0 .. tb.count - 1 : tb.index[tb.slot[k]] = k
=============================================================================
