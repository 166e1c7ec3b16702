--------------------------- MODULE SwapTableProofs ---------------------------
(* What the operations of a swap table preserve and change.                *)
EXTENDS SwapTable, TLAPS

USE DEF Unlinked, Unset

\* The empty table is whole and registers nobody.
LEMMA EmptyLemma ==
    ASSUME NEW Items
    PROVE  /\ TableType(EmptyTable(Items), Items)
           /\ Consistent(EmptyTable(Items))
           /\ Linked(EmptyTable(Items)) = {}
<1> DEFINE t == EmptyTable(Items)
<1>1. t.count = 0 /\ t.slot = [k \in 0 .. -1 |-> Unset] /\ t.index = [x \in Items |-> Unset]
  BY DEF EmptyTable
<1>2. Linked(t) = {}
  BY <1>1 DEF Linked
<1>3. TableType(t, Items)
  BY <1>1 DEF TableType
<1>4. Consistent(t)
  BY <1>1, <1>2 DEF Consistent
<1> QED BY <1>2, <1>3, <1>4

\* Adding an unregistered item at the end keeps the table whole, registers
\* just that item and moves nobody.
LEMMA LinkLemma ==
    ASSUME NEW Items, NEW tb, TableType(tb, Items), Consistent(tb),
           NEW x \in Items, x \notin Linked(tb)
    PROVE  /\ TableType(Link(tb, x), Items)
           /\ Consistent(Link(tb, x))
           /\ Linked(Link(tb, x)) = Linked(tb) \union {x}
           /\ \A y \in Linked(tb) : Link(tb, x).index[y] = tb.index[y]
           /\ Link(tb, x).index[x] = tb.count
           /\ Link(tb, x).count = tb.count + 1
<1> DEFINE t == Link(tb, x)
<1>1. /\ t.count = tb.count + 1
      /\ t.slot = [k \in 0 .. tb.count |-> IF k = tb.count THEN x ELSE tb.slot[k]]
      /\ t.index = [tb.index EXCEPT ![x] = tb.count]
  BY DEF Link
<1>2. TableType(t, Items)
  BY <1>1 DEF TableType
<1>3. Linked(t) = Linked(tb) \union {x}
  BY <1>1 DEF TableType, Linked
<1>4. \A y \in Linked(tb) : y # x /\ t.index[y] = tb.index[y]
  BY <1>1 DEF TableType, Linked
<1>5. Consistent(t)
  <2>1. ASSUME NEW y \in Linked(t) PROVE t.index[y] < t.count /\ t.slot[t.index[y]] = y
    BY <1>1, <1>3, <1>4 DEF TableType, Consistent, Linked
  <2>2. ASSUME NEW k \in 0 .. t.count - 1 PROVE t.index[t.slot[k]] = k
    <3>1. CASE k = tb.count
      BY <3>1, <1>1 DEF TableType
    <3>2. CASE k # tb.count
      <4>1. k \in 0 .. tb.count - 1 /\ t.slot[k] = tb.slot[k]
        BY <3>2, <1>1 DEF TableType
      <4>2. tb.slot[k] \in Linked(tb) /\ tb.index[tb.slot[k]] = k
        BY <4>1 DEF TableType, Consistent, Linked
      <4> QED BY <4>1, <4>2, <1>4
    <3> QED BY <3>1, <3>2
  <2> QED BY <2>1, <2>2 DEF Consistent
<1> QED BY <1>1, <1>2, <1>3, <1>4, <1>5 DEF TableType

\* Removing a registered item keeps the table whole and unregisters just that
\* item.  One other item moves at most, the last one, into the place freed.
LEMMA UnlinkLemma ==
    ASSUME NEW Items, NEW tb, TableType(tb, Items), Consistent(tb),
           NEW x \in Items, x \in Linked(tb)
    PROVE  /\ TableType(Unlink(tb, x), Items)
           /\ Consistent(Unlink(tb, x))
           /\ Linked(Unlink(tb, x)) = Linked(tb) \ {x}
           /\ Unlink(tb, x).index[x] = Unlinked
           /\ Unlink(tb, x).count = tb.count - 1
           /\ \A y \in Linked(tb) \ {x} :
                 IF y = LastItem(tb)
                 THEN Unlink(tb, x).index[y] = tb.index[x] /\ tb.index[x] < tb.index[y]
                 ELSE Unlink(tb, x).index[y] = tb.index[y]
<1> DEFINE t == Unlink(tb, x)
           last == tb.count - 1
           hole == tb.index[x]
<1>1. /\ t.count = last
      /\ t.slot = [k \in 0 .. last - 1 |-> IF k = hole THEN LastItem(tb) ELSE tb.slot[k]]
      /\ t.index = [y \in DOMAIN tb.index |->
                        IF y = x THEN Unlinked
                        ELSE IF y = LastItem(tb) THEN hole ELSE tb.index[y]]
  BY DEF Unlink
<1>2. /\ hole \in 0 .. last /\ tb.slot[hole] = x
      /\ last \in Nat /\ last \in 0 .. tb.count - 1
  BY DEF TableType, Consistent, Linked
<1>3. /\ LastItem(tb) \in Items /\ tb.index[LastItem(tb)] = last
      /\ LastItem(tb) \in Linked(tb)
  BY <1>2 DEF TableType, Consistent, LastItem, Linked
<1>4. TableType(t, Items)
  BY <1>1, <1>2, <1>3 DEF TableType
<1>5. Linked(t) = Linked(tb) \ {x}
  BY <1>1, <1>2, <1>3 DEF TableType, Linked
<1>6. ASSUME NEW y \in Linked(tb) \ {x}
      PROVE  IF y = LastItem(tb)
             THEN t.index[y] = hole /\ hole < tb.index[y]
             ELSE t.index[y] = tb.index[y] /\ tb.index[y] < last /\ tb.index[y] # hole
  <2>1. y \in Items /\ tb.index[y] \in 0 .. last /\ tb.slot[tb.index[y]] = y
    BY DEF TableType, Consistent, Linked
  <2> QED BY <2>1, <1>1, <1>2, <1>3 DEF TableType, LastItem
<1>7. Consistent(t)
  <2>1. ASSUME NEW y \in Linked(t) PROVE t.index[y] < t.count /\ t.slot[t.index[y]] = y
    <3>1. y \in Linked(tb) \ {x}
      BY <1>5
    <3>2. tb.index[y] \in 0 .. last /\ tb.slot[tb.index[y]] = y
      BY <3>1 DEF TableType, Consistent, Linked
    <3>3. CASE y = LastItem(tb)
      BY <3>1, <3>2, <3>3, <1>6, <1>1, <1>2, <1>3
    <3>4. CASE y # LastItem(tb)
      <4>1. t.index[y] = tb.index[y] /\ tb.index[y] \in 0 .. last - 1 /\ tb.index[y] # hole
        BY <3>1, <3>2, <3>4, <1>6, <1>2
      <4>2. t.slot[tb.index[y]] = tb.slot[tb.index[y]]
        BY <4>1, <1>1
      <4> QED BY <4>1, <4>2, <3>2, <1>1, <1>2
    <3> QED BY <3>3, <3>4
  <2>2. ASSUME NEW k \in 0 .. t.count - 1 PROVE t.index[t.slot[k]] = k
    <3>0. k \in 0 .. last - 1 /\ k \in 0 .. tb.count - 1 /\ tb.slot[k] \in Items
      BY <1>1, <1>2 DEF TableType
    <3>1. CASE k = hole
      <4>1. LastItem(tb) # x
        BY <3>0, <3>1, <1>2, <1>3
      <4> QED BY <3>0, <3>1, <4>1, <1>1, <1>3 DEF TableType
    <3>2. CASE k # hole
      <4>1. t.slot[k] = tb.slot[k] /\ tb.index[tb.slot[k]] = k
        BY <3>0, <3>2, <1>1 DEF Consistent
      <4>2. tb.slot[k] # x /\ tb.slot[k] # LastItem(tb)
        BY <4>1, <3>0, <3>2, <1>2, <1>3
      <4> QED BY <4>1, <4>2, <3>0, <1>1 DEF TableType
    <3> QED BY <3>1, <3>2
  <2> QED BY <2>1, <2>2 DEF Consistent
<1> QED
  <2>1. t.index[x] = Unlinked
    BY <1>1 DEF TableType
  <2> QED BY <1>1, <1>4, <1>5, <1>6, <1>7, <2>1

\* A new object in place of an unregistered item changes nothing else.
LEMMA FreshLemma ==
    ASSUME NEW Items, NEW tb, TableType(tb, Items), Consistent(tb),
           NEW x \in Items, x \notin Linked(tb)
    PROVE  /\ TableType(Fresh(tb, x), Items)
           /\ Consistent(Fresh(tb, x))
           /\ Linked(Fresh(tb, x)) = Linked(tb)
           /\ \A y \in Linked(tb) : Fresh(tb, x).index[y] = tb.index[y]
           /\ Fresh(tb, x).count = tb.count
           /\ Fresh(tb, x).slot = tb.slot
<1> DEFINE t == Fresh(tb, x)
<1>1. t.count = tb.count /\ t.slot = tb.slot /\ t.index = [tb.index EXCEPT ![x] = Unset]
  BY DEF Fresh
<1>2. TableType(t, Items)
  BY <1>1 DEF TableType
<1>3. Linked(t) = Linked(tb) /\ \A y \in Linked(tb) : y # x /\ t.index[y] = tb.index[y]
  BY <1>1 DEF TableType, Linked
<1>4. \A k \in 0 .. tb.count - 1 : tb.slot[k] \in Linked(tb)
  BY DEF TableType, Consistent, Linked
<1>5. Consistent(t)
  BY <1>1, <1>3, <1>4 DEF Consistent
<1> QED BY <1>1, <1>2, <1>3, <1>5

\* The entry at every position is a registered item.
LEMMA SlotLemma ==
    ASSUME NEW Items, NEW tb, TableType(tb, Items), Consistent(tb),
           NEW k \in 0 .. tb.count - 1
    PROVE  tb.slot[k] \in Items /\ tb.slot[k] \in Linked(tb) /\ tb.index[tb.slot[k]] = k
BY DEF TableType, Consistent, Linked
=============================================================================
