--------------------------- MODULE FloatValueProofs ---------------------------
(***************************************************************************)
(* Theorems about FloatValue, for any number of clients, versions and      *)
(* reference times: a value that a reader finds belongs to a group, and    *)
(* the latest is the one with the highest version.                         *)
(***************************************************************************)
EXTENDS FloatValue, WellFoundedInduction, TLAPS

\* What the types leave open: a write that is under way has a reference time,
\* and looks for the highest data version when it has an item of its own.
Underway ==
    /\ \A p \in Client : pc[p] \in {"group", "item", "max", "start", "spread"} => time[p] \in RefTime
    /\ \A p \in Client : pc[p] = "max" =>
          item[<<ver[p], time[p]>>].by = p /\ item[<<ver[p], time[p]>>].next # NoItem
Typed == TypeOK /\ Underway

LEMMA TablesAreTyped ==
    ASSUME NEW Id, NEW State, NEW Proc, NEW t \in Table(Id, State, Proc), NEW p \in Proc,
           NEW x, NEW s \in State
    PROVE  /\ Put(t, p, x, s) \in Table(Id, State, Proc)
           /\ Committed(t, p) \in Table(Id, State, Proc)
           /\ RolledBack(t, p) \in Table(Id, State, Proc)
           /\ x \in Id => Seen(t, p, x) \in State
BY DEF Table, Put, Committed, RolledBack, Settled, Seen

\* SELECT max(...) finds the highest of some versions.
LEMMA HighestExists ==
    ASSUME NEW S \in SUBSET Version, S # {}
    PROVE  Highest(S) \in S /\ \A w \in S : w <= Highest(S)
<1> USE FloatConstants
<1> DEFINE T == {MaxVersion - v : v \in S}
<1>0. \A v \in S : v \in Nat /\ v <= MaxVersion /\ MaxVersion - v \in Nat
    BY DEF Version
<1>1. T \subseteq Nat /\ T # {}
    <2>1. T \subseteq Nat
        BY <1>0
    <2>2. PICK v \in S : TRUE
        OBVIOUS
    <2>3. MaxVersion - v \in T
        OBVIOUS
    <2> QED BY <2>1, <2>3
<1>2. PICK x \in T : \A y \in T : ~(<<y, x>> \in OpToRel(<, Nat))
    BY <1>1, NatLessThanWellFounded, WFMin
<1>3. \A y \in T : ~(y < x)
    BY <1>1, <1>2 DEF OpToRel
<1>4. PICK v \in S : x = MaxVersion - v
    OBVIOUS
<1>5. ASSUME NEW w \in S PROVE w <= v
    <2>1. MaxVersion - w \in T
        OBVIOUS
    <2>2. ~(MaxVersion - w < MaxVersion - v)
        BY <1>3, <1>4, <2>1
    <2> HIDE DEF T
    <2> QED BY <1>0, <2>2
<1> QED BY <1>5 DEF Highest

\* A statement of p leaves the items of others alone.
LEMMA OthersItems ==
    ASSUME Typed, NEW p \in Client, NEW i \in Item, NEW s, Free(item, p, i),
           item' = Put(item, p, i, s) \/ item' = item,
           \A q \in Client : q # p => pc'[q] = pc[q] /\ ver'[q] = ver[q] /\ time'[q] = time[q]
    PROVE  \A q \in Client : q # p /\ pc'[q] = "max" =>
              item'[<<ver'[q], time'[q]>>].by = q /\ item'[<<ver'[q], time'[q]>>].next # NoItem
<1> SUFFICES ASSUME NEW q \in Client, q # p, pc'[q] = "max"
             PROVE  item'[<<ver'[q], time'[q]>>].by = q /\ item'[<<ver'[q], time'[q]>>].next # NoItem
    OBVIOUS
<1>1. PICK j : j = <<ver[q], time[q]>>
    OBVIOUS
<1>2. item[j].by = q /\ item[j].next # NoItem
    BY <1>1 DEF Typed, Underway
<1>3. j # i
    BY <1>2, FloatConstants DEF Free
<1>4. j \in DOMAIN item
    BY <1>1 DEF Typed, Underway, TypeOK, Table, Item
<1>5. item'[j] = item[j]
    BY <1>3, <1>4 DEF Put
<1> QED BY <1>1, <1>2, <1>5

LEMMA TypeStep ==
    ASSUME Typed, [Next]_vars PROVE Typed'
<1> USE FloatConstants
<1>1. ASSUME NEW p \in Client, NEW t \in RefTime, NEW v \in Version, PickVersion(p, t, v)
      PROVE  Typed'
    BY <1>1 DEF PickVersion, TypeOK, Typed, Underway
<1>2. ASSUME NEW p \in Client, WriteGroup(p) PROVE Typed'
    <2>1. Put(group, p, ver[p], "there") \in Table(Version, {"none", "there"}, Client)
        BY TablesAreTyped DEF TypeOK, Typed
    <2> QED BY <1>2, <2>1 DEF WriteGroup, TypeOK, Typed, Underway
<1>3. ASSUME NEW p \in Client, WriteItem(p) PROVE Typed'
    <2>0. PICK i : i = <<ver[p], time[p]>>
        OBVIOUS
    <2>1. i \in Item /\ ver[p] \in Version
        BY <1>3, <2>0 DEF WriteItem, TypeOK, Item, Typed, Underway
    <2>2. item' = Put(item, p, i, ver[p]) /\ Free(item, p, i)
        BY <1>3, <2>0 DEF WriteItem
    <2>3. item' \in Table(Item, Version \cup {NoItem}, Client)
        BY <2>1, <2>2, TablesAreTyped DEF TypeOK, Typed
    <2>4. TypeOK'
        BY <1>3, <2>3 DEF WriteItem, TypeOK, Typed
    <2>5. \A q \in Client : q # p => pc'[q] = pc[q] /\ time'[q] = time[q] /\ ver'[q] = ver[q]
        BY <1>3 DEF WriteItem, TypeOK, Typed
    <2>6. item'[i].by = p /\ item'[i].next # NoItem
        BY <2>1, <2>2 DEF Put, TypeOK, Typed, Table, Version, NoItem
    <2>7. pc'[p] \in {"group", "item", "max", "start", "spread"} => time'[p] = time[p] /\ ver'[p] = ver[p]
        BY <1>3 DEF WriteItem, TypeOK, Typed
    <2>8. time[p] \in RefTime
        BY <1>3 DEF WriteItem, Typed, Underway
    <2>9. \A q \in Client : pc'[q] \in {"group", "item", "max", "start", "spread"} => time'[q] \in RefTime
        BY <2>5, <2>7, <2>8 DEF Typed, Underway
    <2>10. \A q \in Client : q # p /\ pc'[q] = "max" =>
              item'[<<ver'[q], time'[q]>>].by = q /\ item'[<<ver'[q], time'[q]>>].next # NoItem
        BY <2>1, <2>2, <2>5, OthersItems
    <2> QED BY <2>0, <2>4, <2>6, <2>7, <2>9, <2>10 DEF Typed, Underway
<1>4. ASSUME NEW p \in Client, ReadMax(p) PROVE Typed'
    <2>1. <<ver[p], time[p]>> \in Item /\ ver[p] \in Visible(p, time[p])
        BY <1>4 DEF ReadMax, Typed, TypeOK, Underway, Visible, Seen, Item
    <2>2. Highest(Visible(p, time[p])) \in Version
        BY <2>1, HighestExists DEF Visible
    <2> QED BY <1>4, <2>2 DEF ReadMax, TypeOK, Typed, Underway
<1>5. ASSUME NEW p \in Client, SpreadStart(p) PROVE Typed'
    <2>1. time[p] \in RefTime /\ Visible(p, time[p]) \subseteq Version
        BY <1>5 DEF SpreadStart, Typed, Underway, Visible
    <2>2. {<<v, time[p]>> : v \in Visible(p, time[p])} \subseteq Item
        BY <2>1 DEF Item
    <2> QED BY <1>5, <2>2 DEF SpreadStart, TypeOK, Typed, Underway
<1>6. ASSUME NEW p \in Client, NEW i \in Item, SpreadItem(p, i) \/ DeleteItem(p, i) PROVE Typed'
    <2>1. PICK s \in Version \cup {NoItem} : item' = item \/ item' = Put(item, p, i, s)
        BY <1>6 DEF SpreadItem, DeleteItem, Typed, TypeOK
    <2>2. item' \in Table(Item, Version \cup {NoItem}, Client)
        BY <2>1, TablesAreTyped DEF TypeOK, Typed
    <2>3. TypeOK'
        BY <1>6, <2>2 DEF SpreadItem, DeleteItem, TypeOK, Typed
    <2>4. /\ ver' = ver /\ time' = time /\ Free(item, p, i)
          /\ \A q \in Client : q # p => pc'[q] = pc[q]
          /\ pc'[p] \in {"spread", "delete", "ready"}
          /\ pc'[p] = "spread" => pc[p] = "spread"
        BY <1>6 DEF SpreadItem, DeleteItem, TypeOK, Typed
    <2>5. \A q \in Client : q # p /\ pc'[q] = "max" =>
              item'[<<ver'[q], time'[q]>>].by = q /\ item'[<<ver'[q], time'[q]>>].next # NoItem
        BY <2>1, <2>4, OthersItems
    <2> QED BY <2>3, <2>4, <2>5 DEF Typed, Underway
<1>7. ASSUME NEW p \in Client, SpreadEnd(p) PROVE Typed'
    BY <1>7 DEF SpreadEnd, TypeOK, Typed, Underway
<1>8. ASSUME NEW p \in Client, NEW h \in Version, Browse(p, h) PROVE Typed'
    BY <1>8 DEF Browse, TypeOK, Typed, Underway
<1>9. ASSUME NEW p \in Client, NEW S \in SUBSET Item, RemoveStart(p, S) PROVE Typed'
    BY <1>9 DEF RemoveStart, TypeOK, Typed, Underway
<1>10. ASSUME NEW p \in Client, ClientCommit(p) \/ ClientAbort(p) PROVE Typed'
    <2>1. /\ group' \in Table(Version, {"none", "there"}, Client)
          /\ item' \in Table(Item, Version \cup {NoItem}, Client)
        <3>1. /\ group \in Table(Version, {"none", "there"}, Client)
              /\ item \in Table(Item, Version \cup {NoItem}, Client)
            BY DEF TypeOK, Typed
        <3>2. /\ Committed(group, p) \in Table(Version, {"none", "there"}, Client)
              /\ RolledBack(group, p) \in Table(Version, {"none", "there"}, Client)
            BY <3>1, TablesAreTyped
        <3>3. /\ Committed(item, p) \in Table(Item, Version \cup {NoItem}, Client)
              /\ RolledBack(item, p) \in Table(Item, Version \cup {NoItem}, Client)
            BY <3>1, TablesAreTyped
        <3> QED BY <1>10, <3>2, <3>3 DEF ClientCommit, ClientAbort
    <2>2. TypeOK'
        BY <1>10, <2>1 DEF ClientCommit, ClientAbort, End, TypeOK, Typed
    <2>3. /\ ver' = ver /\ pc'[p] = "ready"
          /\ \A q \in Client : q # p => pc'[q] = pc[q] /\ time'[q] = time[q]
        BY <1>10 DEF ClientCommit, ClientAbort, End, TypeOK, Typed
    <2>4. \A i \in DOMAIN item : item[i].by # p => item'[i] = item[i]
        BY <1>10 DEF ClientCommit, ClientAbort, Committed, RolledBack
    <2>5. ASSUME NEW q \in Client, pc'[q] = "max"
          PROVE  item'[<<ver'[q], time'[q]>>].by = q /\ item'[<<ver'[q], time'[q]>>].next # NoItem
        <3>1. q # p /\ pc[q] = "max" /\ time'[q] = time[q]
            BY <2>3, <2>5
        <3>2. <<ver[q], time[q]>> \in DOMAIN item
            BY <3>1 DEF Typed, Underway, TypeOK, Item, Table
        <3> QED BY <2>3, <2>4, <3>1, <3>2 DEF Typed, Underway
    <2> QED BY <2>2, <2>3, <2>5 DEF Typed, Underway
<1>11. CASE UNCHANGED vars
    BY <1>11 DEF vars, TypeOK, Typed, Underway
<1> QED
    BY <1>1, <1>2, <1>3, <1>4, <1>5, <1>6, <1>7, <1>8, <1>9, <1>10, <1>11
       DEF Next, WriteStep, RemoveStep, Client

LEMMA InitIsTyped ==
    ASSUME Init PROVE Typed
<1>1. 0 \in Version
    BY FloatConstants DEF Version
<1>2. group \in Table(Version, {"none", "there"}, Client)
    BY DEF Init, Table, Settled
<1>3. item \in Table(Item, Version \cup {NoItem}, Client)
    BY DEF Init, Table, Settled
<1> QED BY <1>1, <1>2, <1>3 DEF Init, Typed, TypeOK, Underway

\* Every variable has a value of its type; in particular the highest data
\* version that a write spreads is always one (wciWriteInternals.in.sql).
THEOREM TypeCorrect == Spec => []TypeOK
<1>1. Typed => TypeOK
    BY DEF Typed
<1> QED BY <1>1, InitIsTyped, TypeStep, PTL DEF Spec

-----------------------------------------------------------------------------
(* Values and their groups.                                                *)

\* A group is changed only to exist, and none is lost.
GroupsAreAdded == \A v \in Version : group[v].by # NoProc => group[v].next = "there"

\* What a transaction knows of a group: it is committed, or its own.
Known(p, v) == group[v].now = "there" \/ group[v].by = p

\* A transaction that has an item, or is about to have it, knows its group.
ItemsAreGrouped ==
    /\ \A i \in Item : item[i].now # NoItem => group[i[1]].now = "there"
    /\ \A i \in Item, p \in Client :
          item[i].by = p /\ item[i].next # NoItem => Known(p, i[1])
    /\ \A p \in Client : pc[p] = "item" => Known(p, ver[p])

\* The inductive invariant: ItemsAreGrouped alone does not say that a group that
\* is being inserted will be there when its transaction commits.
IInv == Typed /\ GroupsAreAdded /\ ItemsAreGrouped

\* Changing an item whose group p knows, or deleting it, needs no new group.
LEMMA ItemStep ==
    ASSUME IInv, NEW p \in Client, NEW j \in Item, NEW s,
           item' = Put(item, p, j, s) \/ item' = item,
           s # NoItem => Known(p, j[1]),
           group' = group, ver' = ver,
           \A q \in Client : pc'[q] = "item" => pc[q] = "item"
    PROVE  GroupsAreAdded' /\ ItemsAreGrouped'
<1>1. DOMAIN item = Item
    BY DEF IInv, Typed, TypeOK, Table
<1>2. \A i \in Item :
         \/ item'[i] = item[i]
         \/ i = j /\ item'[i] = [now |-> item[j].now, by |-> p, next |-> s]
    BY <1>1 DEF Put
<1>3. \A i \in Item : item'[i].now = item[i].now
    BY <1>2
<1>4. ASSUME NEW i \in Item, NEW q \in Client, item'[i].by = q, item'[i].next # NoItem
      PROVE  Known(q, i[1])
    BY <1>2, <1>4 DEF IInv, ItemsAreGrouped
<1> QED BY <1>3, <1>4 DEF IInv, GroupsAreAdded, ItemsAreGrouped, Known

\* An item that p sees has a group that p knows.
LEMMA SeenIsKnown ==
    ASSUME IInv, NEW p \in Client, NEW i \in Item, Seen(item, p, i) # NoItem
    PROVE  Known(p, i[1])
BY DEF IInv, ItemsAreGrouped, Seen, Known

\* INSERT INTO floatvaluegroup and the handler of its unique violation: the row
\* is the transaction's own or has been committed (wciWriteInternals.in.sql).
LEMMA WriteGroupKeeps ==
    ASSUME IInv, NEW p \in Client, WriteGroup(p)
    PROVE  GroupsAreAdded' /\ ItemsAreGrouped'
<1> USE FloatConstants
<1>0. PICK v : v = ver[p]
    OBVIOUS
<1>1. v \in Version /\ p # NoProc /\ DOMAIN group = Version
    BY <1>0 DEF IInv, Typed, TypeOK, Table
<1>2. \/ group' = group /\ Seen(group, p, v) = "there"
      \/ group' = Put(group, p, v, "there") /\ Free(group, p, v)
    BY <1>0 DEF WriteGroup
<1>3. \A u \in Version :
         \/ group'[u] = group[u]
         \/ u = v /\ Free(group, p, v) /\ group'[u] = [now |-> group[v].now, by |-> p, next |-> "there"]
    BY <1>1, <1>2 DEF Put
<1>4. \A q \in Client, u \in Version : Known(q, u) => Known(q, u)'
    BY <1>3 DEF Known, Free
<1>5. Known(p, v)'
    BY <1>1, <1>2 DEF Known, Put, Seen
<1>6. GroupsAreAdded'
    BY <1>1, <1>3 DEF IInv, GroupsAreAdded
<1>7. \A i \in Item : i[1] \in Version
    BY DEF Item
<1>8. /\ \A i \in Item : item'[i].now # NoItem => group'[i[1]].now = "there"
      /\ \A i \in Item, q \in Client : item'[i].by = q /\ item'[i].next # NoItem => Known(q, i[1])'
    BY <1>3, <1>4, <1>7 DEF WriteGroup, IInv, ItemsAreGrouped
<1>9. ASSUME NEW q \in Client, pc'[q] = "item" PROVE Known(q, ver[q])'
    <2>1. CASE q = p
        BY <1>0, <1>5, <2>1 DEF Known, WriteGroup
    <2>2. CASE q # p
        <3>1. pc[q] = "item" /\ ver[q] \in Version /\ ver' = ver
            BY <1>9, <2>2 DEF WriteGroup, IInv, Typed, TypeOK
        <3> QED BY <1>4, <3>1 DEF IInv, ItemsAreGrouped, Known
    <2> QED BY <2>1, <2>2
<1>10. ItemsAreGrouped'
    BY <1>8, <1>9 DEF ItemsAreGrouped
<1> QED BY <1>6, <1>10

\* The end of a transaction: its groups become there before, or together with,
\* its items; if it is rolled back nobody else has relied on them.
LEMMA EndKeeps ==
    ASSUME IInv, NEW p \in Client, ClientCommit(p) \/ ClientAbort(p)
    PROVE  GroupsAreAdded' /\ ItemsAreGrouped'
<1> USE FloatConstants
<1>1. /\ DOMAIN group = Version /\ DOMAIN item = Item /\ p # NoProc
      /\ \A i \in Item : i[1] \in Version
    BY DEF IInv, Typed, TypeOK, Table, Item
<1>2. /\ \A v \in Version : group[v].by # p => group'[v] = group[v]
      /\ \A i \in Item : item[i].by # p => item'[i] = item[i]
    BY <1>1 DEF ClientCommit, ClientAbort, Committed, RolledBack
<1>3. /\ \A v \in Version : group[v].by = p =>
            group'[v].by = NoProc /\ group'[v].now \in {group[v].now, group[v].next}
      /\ \A i \in Item : item[i].by = p => item'[i].by = NoProc
    BY <1>1 DEF ClientCommit, ClientAbort, Committed, RolledBack, Settled
<1>4. GroupsAreAdded'
    BY <1>1, <1>2, <1>3 DEF IInv, GroupsAreAdded
<1>5. \A v \in Version : group[v].now = "there" => group'[v].now = "there"
    BY <1>1, <1>2, <1>3 DEF IInv, GroupsAreAdded
<1>6. \A q \in Client, v \in Version : q # p /\ Known(q, v) => Known(q, v)'
    BY <1>2, <1>5 DEF Known
<1>7. ASSUME NEW i \in Item, item'[i].now # NoItem PROVE group'[i[1]].now = "there"
    <2>1. CASE item[i].now # NoItem
        BY <1>1, <1>5, <2>1 DEF IInv, ItemsAreGrouped
    <2>2. CASE item[i].now = NoItem
        <3>1. item[i].by = p
            BY <1>2, <1>7, <2>2
        <3>2. ClientCommit(p) /\ item[i].next # NoItem
            BY <1>1, <1>7, <2>2, <3>1 DEF ClientCommit, ClientAbort, Committed, RolledBack, Settled
        <3>3. Known(p, i[1])
            BY <3>1, <3>2 DEF IInv, ItemsAreGrouped
        <3>4. group[i[1]].by = p => group'[i[1]].now = "there"
            BY <1>1, <3>2 DEF ClientCommit, Committed, Settled, IInv, GroupsAreAdded
        <3> QED BY <1>1, <1>5, <3>3, <3>4 DEF Known
    <2> QED BY <2>1, <2>2
<1>8. ASSUME NEW i \in Item, NEW q \in Client, item'[i].by = q, item'[i].next # NoItem
      PROVE  Known(q, i[1])'
    <2>1. q # p /\ item[i].by = q /\ item[i].next # NoItem
        BY <1>2, <1>3, <1>8
    <2> QED BY <1>1, <1>6, <2>1 DEF IInv, ItemsAreGrouped
<1>9. ASSUME NEW q \in Client, pc'[q] = "item" PROVE Known(q, ver[q])'
    <2>1. q # p /\ pc[q] = "item" /\ ver' = ver /\ ver[q] \in Version
        BY <1>9 DEF ClientCommit, ClientAbort, End, IInv, Typed, TypeOK
    <2> QED BY <1>6, <2>1 DEF IInv, ItemsAreGrouped, Known
<1>10. ItemsAreGrouped'
    BY <1>7, <1>8, <1>9 DEF ItemsAreGrouped
<1> QED BY <1>4, <1>10

LEMMA GroupStep ==
    ASSUME IInv, [Next]_vars PROVE GroupsAreAdded' /\ ItemsAreGrouped'
<1> USE FloatConstants
<1> DEFINE Goal == GroupsAreAdded /\ ItemsAreGrouped
<1>1. ASSUME UNCHANGED <<group, item>>,
             \A q \in Client : pc'[q] = "item" => pc[q] = "item" /\ ver'[q] = ver[q]
      PROVE  Goal'
    BY <1>1 DEF IInv, GroupsAreAdded, ItemsAreGrouped, Known
<1>2. ASSUME NEW p \in Client, NEW t \in RefTime, NEW v \in Version, PickVersion(p, t, v)
      PROVE  Goal'
    <2>1. \A q \in Client : pc'[q] = "item" => pc[q] = "item" /\ ver'[q] = ver[q]
        BY <1>2 DEF PickVersion, IInv, Typed, TypeOK
    <2> QED BY <1>1, <1>2, <2>1 DEF PickVersion
<1>3. ASSUME NEW p \in Client, WriteItem(p) PROVE Goal'
    <2>0. PICK i : i = <<ver[p], time[p]>>
        OBVIOUS
    <2>1. i \in Item /\ i[1] = ver[p]
        BY <1>3, <2>0 DEF WriteItem, IInv, Typed, Underway, TypeOK, Item
    <2>2. item' = Put(item, p, i, ver[p]) /\ group' = group /\ ver' = ver
        BY <1>3, <2>0 DEF WriteItem
    <2>3. Known(p, i[1])
        BY <1>3, <2>1 DEF WriteItem, IInv, ItemsAreGrouped
    <2>4. \A q \in Client : pc'[q] = "item" => pc[q] = "item"
        BY <1>3 DEF WriteItem, IInv, Typed, TypeOK
    <2> QED BY <2>1, <2>2, <2>3, <2>4, ItemStep
<1>4. ASSUME NEW p \in Client,
             ReadMax(p) \/ SpreadStart(p) \/ SpreadEnd(p)
             \/ (\E h \in Version : Browse(p, h)) \/ (\E S \in SUBSET Item : RemoveStart(p, S))
      PROVE  Goal'
    <2>1. \A q \in Client : pc'[q] = "item" => pc[q] = "item" /\ ver'[q] = ver[q]
        BY <1>4 DEF ReadMax, SpreadStart, SpreadEnd, Browse, RemoveStart, IInv, Typed, TypeOK
    <2>2. UNCHANGED <<group, item>>
        BY <1>4 DEF ReadMax, SpreadStart, SpreadEnd, Browse, RemoveStart
    <2> QED BY <1>1, <2>1, <2>2
<1>5. ASSUME NEW p \in Client, NEW i \in Item, SpreadItem(p, i) \/ DeleteItem(p, i) PROVE Goal'
    <2>1. PICK s : /\ item' = item \/ item' = Put(item, p, i, s)
                   /\ s # NoItem => Seen(item, p, i) # NoItem
        <3>1. CASE SpreadItem(p, i) /\ Seen(item, p, i) # NoItem
            BY <3>1 DEF SpreadItem
        <3>2. CASE SpreadItem(p, i) /\ Seen(item, p, i) = NoItem
            BY <3>2 DEF SpreadItem
        <3>3. CASE DeleteItem(p, i)
            BY <3>3 DEF DeleteItem
        <3> QED BY <1>5, <3>1, <3>2, <3>3
    <2>2. /\ group' = group /\ ver' = ver
          /\ \A q \in Client : pc'[q] = "item" => pc[q] = "item"
        BY <1>5 DEF SpreadItem, DeleteItem, IInv, Typed, TypeOK
    <2>3. s # NoItem => Known(p, i[1])
        BY <2>1, SeenIsKnown
    <2> QED BY <2>1, <2>2, <2>3, ItemStep
<1>6. CASE UNCHANGED vars
    BY <1>1, <1>6 DEF vars
<1> QED
    BY <1>2, <1>3, <1>4, <1>5, <1>6, WriteGroupKeeps, EndKeeps
       DEF Next, WriteStep, RemoveStep, Client

\* A committed value has its group, for any number of writers and cleaners,
\* although a writer may not have inserted the group itself
\* (wciWriteInternals.in.sql, floatValueTables.in.sql).
THEOREM ItemHasGroupCorrect == Spec => []ItemHasGroup
<1>1. Init => IInv
    <2> SUFFICES ASSUME Init PROVE IInv
        OBVIOUS
    <2>1. \A i \in Item : item[i].now = NoItem /\ item[i].next = NoItem
        BY DEF Init, Settled
    <2>2. \A v \in Version : group[v].by = NoProc
        BY DEF Init, Settled
    <2> QED BY <2>1, <2>2, InitIsTyped DEF Init, IInv, GroupsAreAdded, ItemsAreGrouped
<1>2. IInv /\ [Next]_vars => IInv'
    BY TypeStep, GroupStep DEF IInv
<1>3. IInv => ItemHasGroup
    BY DEF IInv, ItemsAreGrouped, ItemHasGroup, Item
<1> QED BY <1>1, <1>2, <1>3, PTL DEF Spec

-----------------------------------------------------------------------------
(* Data version -1 is the highest version                                  *)

\* The versions at reference time t whose rows p holds.  Those it has not deleted
\* are visible to it.
Mine(p, t) == {v \in Version : item[<<v, t>>].by = p}

\* No version is left out below another.
Closed(S) == \A v \in S, w \in Version : w < v => w \in S

\* p has inserted its item and has still to spread the maximum.
Writing(p, t) == pc[p] \in {"max", "start", "spread"} /\ time[p] = t

\* The maximum of an item x is the highest of the versions S.
Tops(x, S) == x \in S /\ \A w \in S : w <= x

\* The version that p has chosen follows those that p sees, unless somebody has
\* committed it since.
NextOne(p, t) ==
    /\ ver[p] = 0 \/ ver[p] - 1 \in Visible(p, t)
    /\ ver[p] \in Visible(p, t) \/ \A w \in Visible(p, t) : w < ver[p]

\* It is the highest that p sees once it is inserted, and what is no longer to be
\* updated names it.
Spreading(p, t) ==
    /\ ver[p] \in Mine(p, t) /\ Tops(ver[p], Visible(p, t))
    /\ pc[p] \in {"start", "spread"} => max[p] = ver[p]
    /\ pc[p] = "spread" =>
          /\ \A i \in todo[p] : i[2] = t
          /\ \A v \in Visible(p, t) :
                <<v, t>> \in todo[p] \/ (v \in Mine(p, t) /\ item[<<v, t>>].next = ver[p])

\* What a transaction has done to a reference time.  If it has deleted nothing, or
\* inserted anew what it had deleted, it holds all rows when it has done writing.
Progress(p, t) ==
    /\ Closed(Stored(t) \cup Mine(p, t))
    /\ Mine(p, t) # {} /\ Mine(p, t) \subseteq Visible(p, t) /\ ~Writing(p, t) =>
          /\ Stored(t) \subseteq Mine(p, t)
          /\ \A v \in Mine(p, t) : Tops(item[<<v, t>>].next, Visible(p, t))
    /\ pc[p] \in {"group", "item"} /\ time[p] = t => NextOne(p, t)
    /\ Writing(p, t) => Spreading(p, t)

\* The committed rows of a reference time name the highest of their versions.
Right(t) ==
    /\ Closed(Stored(t))
    /\ \A v \in Stored(t) : Tops(item[<<v, t>>].now, Stored(t))
    /\ \A p \in Client : Progress(p, t)

\* The inductive invariant of LatestIsHighest.
LatestInv == ~removed => \A t \in RefTime : Right(t)

\* What the clients' statements see in a table whose row <<v, t>> p has changed.
LEMMA PutSets ==
    ASSUME Typed, NEW p \in Client, NEW v \in Version, NEW t \in RefTime, NEW s,
           Free(item, p, <<v, t>>), item' = Put(item, p, <<v, t>>, s)
    PROVE  /\ item'[<<v, t>>].now = item[<<v, t>>].now
           /\ item'[<<v, t>>].by = p /\ item'[<<v, t>>].next = s
           /\ \A r \in RefTime, u \in Version : u # v \/ r # t => item'[<<u, r>>] = item[<<u, r>>]
           /\ \A q \in Client, r \in RefTime : \A u \in Mine(q, r) :
                 q # p \/ r # t => item'[<<u, r>>] = item[<<u, r>>]
           /\ \A r \in RefTime : Stored(r)' = Stored(r)
           /\ \A q \in Client, r \in RefTime : q # p \/ r # t =>
                 Visible(q, r)' = Visible(q, r) /\ Mine(q, r)' = Mine(q, r)
           /\ Mine(p, t)' = Mine(p, t) \cup {v}
           /\ s # NoItem => Visible(p, t)' = Visible(p, t) \cup {v}
           /\ s = NoItem => Visible(p, t)' = Visible(p, t) \ {v}
<1>1. DOMAIN item = Item /\ p # NoProc
    BY FloatConstants DEF Typed, TypeOK, Table
<1>2. \A u \in Version, r \in RefTime : <<u, r>> \in Item
    BY DEF Item
<1>3. PICK i \in Item : i = <<v, t>>
    BY <1>2
<1>4. /\ item'[i].now = item[i].now /\ item'[i].by = p /\ item'[i].next = s
      /\ \A j \in Item : j # i => item'[j] = item[j]
    BY <1>1, <1>3 DEF Put
<1>5. \A r \in RefTime, u \in Version : u # v \/ r # t => item'[<<u, r>>] = item[<<u, r>>]
    BY <1>2, <1>3, <1>4
<1>6. item[i].by \in {p, NoProc}
    BY <1>3 DEF Free
<1>7. \A r \in RefTime, u \in Version : item'[<<u, r>>].now = item[<<u, r>>].now
    BY <1>3, <1>4, <1>5
<1>8. \A q \in Client, r \in RefTime, u \in Version : q # p \/ r # t =>
          /\ item'[<<u, r>>].by = q <=> item[<<u, r>>].by = q
          /\ item[<<u, r>>].by = q => item'[<<u, r>>] = item[<<u, r>>]
          /\ Seen(item', q, <<u, r>>) = Seen(item, q, <<u, r>>)
    <2> SUFFICES ASSUME NEW q \in Client, NEW r \in RefTime, NEW u \in Version, q # p \/ r # t
                 PROVE  /\ item'[<<u, r>>].by = q <=> item[<<u, r>>].by = q
                        /\ item[<<u, r>>].by = q => item'[<<u, r>>] = item[<<u, r>>]
                        /\ Seen(item', q, <<u, r>>) = Seen(item, q, <<u, r>>)
        OBVIOUS
    <2>1. CASE <<u, r>> = i
        <3>1. q # p /\ q # NoProc
            BY <1>3, <2>1, FloatConstants
        <3> QED BY <1>4, <1>6, <2>1, <3>1 DEF Seen
    <2>2. CASE <<u, r>> # i
        BY <1>2, <1>4, <2>2 DEF Seen
    <2> QED BY <2>1, <2>2
<1>9. \A u \in Version : /\ u # v => Seen(item', p, <<u, t>>) = Seen(item, p, <<u, t>>)
                         /\ Seen(item', p, <<v, t>>) = s
    BY <1>3, <1>4, <1>5 DEF Seen
<1>10. /\ \A r \in RefTime : Stored(r)' = Stored(r)
       /\ \A q \in Client, r \in RefTime : q # p \/ r # t =>
             Visible(q, r)' = Visible(q, r) /\ Mine(q, r)' = Mine(q, r)
    BY <1>7, <1>8 DEF Stored, Visible, Mine
<1>11. Mine(p, t)' = Mine(p, t) \cup {v}
    BY <1>3, <1>4, <1>5 DEF Mine
<1>12. /\ s # NoItem => Visible(p, t)' = Visible(p, t) \cup {v}
       /\ s = NoItem => Visible(p, t)' = Visible(p, t) \ {v}
    BY <1>9 DEF Visible
<1> QED BY <1>3, <1>4, <1>5, <1>8, <1>10, <1>11, <1>12 DEF Mine

\* What a transaction sees are the committed versions and its own.
LEMMA SeenSets ==
    ASSUME NEW p, NEW t
    PROVE  /\ Visible(p, t) \subseteq Stored(t) \cup Mine(p, t)
           /\ Stored(t) \subseteq Visible(p, t) \cup Mine(p, t)
           /\ \A v \in Mine(p, t) : v \in Visible(p, t) <=> item[<<v, t>>].next # NoItem
           /\ Visible(p, t) \subseteq Version /\ Stored(t) \subseteq Version
           /\ Mine(p, t) \subseteq Version
BY DEF Visible, Stored, Mine, Seen

\* A transaction that sees and holds the same rows of t as before has made as much
\* progress, if its statement goes on or it is none that concerns t.
LEMMA SameProgress ==
    ASSUME NEW q \in Client, NEW t \in RefTime, Progress(q, t),
           Stored(t)' = Stored(t), Visible(q, t)' = Visible(q, t), Mine(q, t)' = Mine(q, t),
           \A v \in Mine(q, t) : item'[<<v, t>>] = item[<<v, t>>],
           \/ /\ pc'[q] = pc[q] /\ time'[q] = time[q] /\ ver'[q] = ver[q]
              /\ max'[q] = max[q] /\ todo'[q] = todo[q]
           \/ ~Writing(q, t) /\ pc'[q] \notin {"group", "item", "max", "start", "spread"}
           \/ /\ ~Writing(q, t) /\ time'[q] # t
    PROVE  Progress(q, t)'
<1>1. CASE /\ pc'[q] = pc[q] /\ time'[q] = time[q] /\ ver'[q] = ver[q]
           /\ max'[q] = max[q] /\ todo'[q] = todo[q]
    <2>1. Writing(q, t)' <=> Writing(q, t)
        BY <1>1 DEF Writing
    <2>2. NextOne(q, t)' <=> NextOne(q, t)
        BY <1>1 DEF NextOne
    <2>3. Spreading(q, t) => Spreading(q, t)'
        BY <1>1 DEF Spreading
    <2> QED BY <1>1, <2>1, <2>2, <2>3 DEF Progress
<1>2. CASE ~Writing(q, t) /\ pc'[q] \notin {"group", "item", "max", "start", "spread"}
    <2>1. ~Writing(q, t)'
        BY <1>2 DEF Writing
    <2> QED BY <1>2, <2>1 DEF Progress
<1>3. CASE ~Writing(q, t) /\ time'[q] # t
    <2>1. ~Writing(q, t)'
        BY <1>3 DEF Writing
    <2> QED BY <1>3, <2>1 DEF Progress
<1> QED BY <1>1, <1>2, <1>3

\* A change of one row by p is progress for nobody else, nor at other reference times.
LEMMA OthersProgress ==
    ASSUME Typed, NEW p \in Client, NEW v \in Version, NEW t \in RefTime, NEW s,
           Free(item, p, <<v, t>>), item' = Put(item, p, <<v, t>>, s),
           NEW q \in Client, NEW r \in RefTime, q # p \/ r # t, Progress(q, r),
           \/ /\ pc'[q] = pc[q] /\ time'[q] = time[q] /\ ver'[q] = ver[q]
              /\ max'[q] = max[q] /\ todo'[q] = todo[q]
           \/ ~Writing(q, r) /\ pc'[q] \notin {"group", "item", "max", "start", "spread"}
           \/ ~Writing(q, r) /\ time'[q] # r
    PROVE  Progress(q, r)'
<1>1. /\ Stored(r)' = Stored(r)
      /\ Visible(q, r)' = Visible(q, r) /\ Mine(q, r)' = Mine(q, r)
      /\ \A u \in Mine(q, r) : item'[<<u, r>>] = item[<<u, r>>]
    BY PutSets
<1> QED BY <1>1, SameProgress

\* INSERT INTO floatvalueitem: the version is new and follows the others
\* (wciWriteInternals.in.sql).
LEMMA InsertProgress ==
    ASSUME Typed, NEW p \in Client, NEW t \in RefTime, WriteItem(p), time[p] = t, Progress(p, t)
    PROVE  Progress(p, t)'
<1> USE FloatConstants
<1>1. PICK v \in Version : v = ver[p]
    BY DEF Typed, TypeOK
<1>2. /\ pc[p] = "item" /\ Seen(item, p, <<v, t>>) = NoItem /\ Free(item, p, <<v, t>>)
      /\ item' = Put(item, p, <<v, t>>, v) /\ ver' = ver /\ v \in Nat /\ v # NoItem
      /\ IF v > 0 THEN pc'[p] = "max" /\ time' = time ELSE pc'[p] = "ready"
    BY <1>1 DEF WriteItem, Typed, TypeOK, Version, NoItem
<1>3. /\ v = 0 \/ v - 1 \in Visible(p, t)
      /\ \A w \in Visible(p, t) : w < v
    BY <1>1, <1>2 DEF Progress, NextOne, Visible
<1>4. /\ Stored(t)' = Stored(t) /\ Mine(p, t)' = Mine(p, t) \cup {v}
      /\ Visible(p, t)' = Visible(p, t) \cup {v} /\ item'[<<v, t>>].next = v
    BY <1>1, <1>2, PutSets
<1>5. \A x \in Visible(p, t) \cup Stored(t) \cup Mine(p, t) : x \in Nat /\ x \in Version
    BY SeenSets DEF Version
<1>6. Tops(v, Visible(p, t)')
    BY <1>2, <1>3, <1>4, <1>5 DEF Tops
<1>7. Closed(Stored(t)' \cup Mine(p, t)')
    <2> SUFFICES ASSUME NEW w \in Version, NEW x \in Stored(t) \cup Mine(p, t) \cup {v}, w < x
                 PROVE  w \in Stored(t) \cup Mine(p, t) \cup {v}
        BY <1>4 DEF Closed
    <2>1. Closed(Stored(t) \cup Mine(p, t))
        BY DEF Progress
    <2>2. CASE x # v
        BY <2>1, <2>2 DEF Closed
    <2>3. CASE x = v
        <3>1. v # 0 /\ w \in Nat /\ w < v
            BY <2>3, <1>2 DEF Version
        <3>2. v - 1 \in Stored(t) \cup Mine(p, t)
            BY <1>3, <3>1, SeenSets
        <3>3. w = v - 1 \/ w < v - 1
            BY <1>2, <3>1
        <3> QED BY <2>1, <3>2, <3>3 DEF Closed
    <2> QED BY <2>2, <2>3
<1>8. CASE v > 0
    <2>1. /\ Writing(p, t)' /\ pc'[p] = "max" /\ ver'[p] = v
        BY <1>1, <1>2, <1>8 DEF Writing
    <2>2. Spreading(p, t)'
        BY <1>4, <1>6, <2>1 DEF Spreading
    <2> QED BY <1>7, <2>1, <2>2 DEF Progress
<1>9. CASE v = 0
    <2>1. pc'[p] = "ready"
        BY <1>2, <1>9
    <2>2. Visible(p, t) = {}
        BY <1>3, <1>5, <1>9
    <2>3. Visible(p, t)' = {v}
        BY <1>4, <2>2
    <2>4. Mine(p, t)' \subseteq Visible(p, t)' => Stored(t)' \subseteq Mine(p, t)'
        BY <1>4, <2>2, SeenSets
    <2>5. Mine(p, t)' \subseteq Visible(p, t)' =>
             \A u \in Mine(p, t)' : Tops(item'[<<u, t>>].next, Visible(p, t)')
        BY <1>4, <1>6, <2>3
    <2>6. ~Writing(p, t)'
        BY <2>1 DEF Writing
    <2> QED BY <1>7, <2>1, <2>4, <2>5, <2>6 DEF Progress
<1> QED BY <1>2, <1>8, <1>9

\* UPDATE floatvalueitem SET maxdataversion, one item (wciWriteInternals.in.sql).
LEMMA UpdateProgress ==
    ASSUME Typed, NEW p \in Client, NEW t \in RefTime, NEW v \in Version, SpreadItem(p, <<v, t>>),
           time[p] = t, Progress(p, t)
    PROVE  Progress(p, t)'
<1>1. /\ pc[p] = "spread" /\ UNCHANGED <<pc, ver, time, max>>
      /\ todo'[p] = todo[p] \ {<<v, t>>} /\ Free(item, p, <<v, t>>)
      /\ max[p] # NoItem
    BY FloatConstants DEF SpreadItem, Typed, TypeOK, NoItem, Version
<1>2. Writing(p, t) /\ Writing(p, t)' /\ Spreading(p, t)
    BY <1>1 DEF Writing, Progress
<1>3. max[p] = ver[p]
    BY <1>1, <1>2 DEF Spreading
<1>4. CASE Seen(item, p, <<v, t>>) = NoItem
    <2>1. item' = item /\ v \notin Visible(p, t)
        BY <1>4 DEF SpreadItem, Visible
    <2>2. Stored(t)' = Stored(t) /\ Visible(p, t)' = Visible(p, t) /\ Mine(p, t)' = Mine(p, t)
        BY <2>1 DEF Stored, Visible, Mine
    <2>3. Spreading(p, t)'
        <3>1. \A u \in Visible(p, t) : <<u, t>> # <<v, t>>
            BY <2>1
        <3> QED BY <1>1, <1>2, <2>1, <2>2, <3>1 DEF Spreading
    <2> QED BY <1>1, <1>2, <2>2, <2>3 DEF Progress
<1>5. CASE Seen(item, p, <<v, t>>) # NoItem
    <2>1. item' = Put(item, p, <<v, t>>, max[p]) /\ v \in Visible(p, t)
        BY <1>5 DEF SpreadItem, Visible
    <2>2. /\ Stored(t)' = Stored(t) /\ Mine(p, t)' = Mine(p, t) \cup {v}
          /\ Visible(p, t)' = Visible(p, t) /\ item'[<<v, t>>].next = ver[p]
          /\ \A u \in Version : u # v => item'[<<u, t>>] = item[<<u, t>>]
        <3>1. PICK s : s = max[p]
            OBVIOUS
        <3>2. /\ Stored(t)' = Stored(t) /\ Mine(p, t)' = Mine(p, t) \cup {v}
              /\ Visible(p, t)' = Visible(p, t) \cup {v} /\ item'[<<v, t>>].next = s
              /\ \A r \in RefTime, u \in Version : u # v \/ r # t => item'[<<u, r>>] = item[<<u, r>>]
            BY <1>1, <2>1, <3>1, PutSets
        <3> QED BY <1>3, <2>1, <3>1, <3>2
    <2>3. Stored(t)' \cup Mine(p, t)' = Stored(t) \cup Mine(p, t)
        BY <2>1, <2>2, SeenSets
    <2>4. Spreading(p, t)'
        <3>1. \A u \in Visible(p, t)' :
                 <<u, t>> \in todo'[p] \/ (u \in Mine(p, t)' /\ item'[<<u, t>>].next = ver[p])
            <4> SUFFICES ASSUME NEW u \in Visible(p, t), u # v
                         PROVE  \/ <<u, t>> \in todo'[p]
                                \/ u \in Mine(p, t) /\ item'[<<u, t>>].next = ver[p]
                BY <2>2
            <4> QED BY <1>1, <1>2, <2>2, SeenSets DEF Spreading
        <3> QED BY <1>1, <1>2, <2>2, <3>1 DEF Spreading
    <2> QED BY <1>1, <1>2, <2>3, <2>4 DEF Progress
<1> QED BY <1>4, <1>5

\* DELETE FROM floatvalueitem, one item (wciRemove.in.sql).
LEMMA DeleteProgress ==
    ASSUME Typed, NEW p \in Client, NEW t \in RefTime, NEW v \in Version, DeleteItem(p, <<v, t>>),
           Seen(item, p, <<v, t>>) # NoItem, Progress(p, t)
    PROVE  Progress(p, t)'
<1>1. /\ pc'[p] \in {"ready", "delete"} /\ v \in Visible(p, t) /\ Free(item, p, <<v, t>>)
      /\ item' = Put(item, p, <<v, t>>, NoItem)
    BY DEF DeleteItem, Visible, Typed, TypeOK
<1>2. /\ Stored(t)' = Stored(t) /\ Mine(p, t)' = Mine(p, t) \cup {v}
      /\ Visible(p, t)' = Visible(p, t) \ {v}
    BY <1>1, PutSets
<1>3. Stored(t)' \cup Mine(p, t)' = Stored(t) \cup Mine(p, t)
    BY <1>1, <1>2, SeenSets
<1>4. ~(Mine(p, t)' \subseteq Visible(p, t)') /\ ~Writing(p, t)'
    BY <1>1, <1>2 DEF Writing
<1> QED BY <1>1, <1>3, <1>4 DEF Progress

\* SELECT max(dataversion) + 1 (wciWrite.in.sql): wci.write chooses the number itself.
LEMMA ChosenIsNext ==
    ASSUME Typed, Numbering = "auto", NEW p \in Client, NEW t \in RefTime, NEW v \in Versions(p, t)
    PROVE  /\ v = 0 \/ v - 1 \in Visible(p, t)
           /\ \A w \in Visible(p, t) : w < v
<1>1. Visible(p, t) \in SUBSET Version /\ \A w \in Version : w \in Nat
    BY DEF Visible, Version
<1>2. CASE Visible(p, t) = {}
    BY <1>2 DEF Versions
<1>3. CASE Visible(p, t) # {}
    <2>1. PICK h : h = Highest(Visible(p, t))
        OBVIOUS
    <2>2. v = h + 1
        BY <1>3, <2>1 DEF Versions
    <2>3. h \in Visible(p, t) /\ \A w \in Visible(p, t) : w <= h
        BY <1>1, <1>3, <2>1, HighestExists
    <2>4. h \in Nat
        BY <1>1, <2>3
    <2> QED BY <1>1, <2>2, <2>3, <2>4
<1> QED BY <1>2, <1>3

\* What the end of p's transaction makes of the items.
LEMMA EndRows ==
    ASSUME Typed, NEW p \in Client, NEW t \in RefTime, ClientCommit(p) \/ ClientAbort(p)
    PROVE  /\ \A v \in Version : v \notin Mine(p, t) => item'[<<v, t>>] = item[<<v, t>>]
           /\ \A v \in Mine(p, t) : /\ item'[<<v, t>>].by = NoProc
                                    /\ ClientCommit(p) => item'[<<v, t>>].now = item[<<v, t>>].next
                                    /\ ClientAbort(p) => item'[<<v, t>>].now = item[<<v, t>>].now
           /\ Mine(p, t)' = {}
           /\ \A q \in Client : q # p => Mine(q, t)' = Mine(q, t)
           /\ pc'[p] = "ready"
           /\ \A q \in Client : q # p =>
                 /\ pc'[q] = pc[q] /\ time'[q] = time[q] /\ ver'[q] = ver[q]
                 /\ max'[q] = max[q] /\ todo'[q] = todo[q]
<1> USE FloatConstants
<1>1. DOMAIN item = Item /\ \A v \in Version : <<v, t>> \in Item
    BY DEF Typed, TypeOK, Table, Item
<1>2. item' = Committed(item, p) \/ item' = RolledBack(item, p)
    BY DEF ClientCommit, ClientAbort
<1>3. \A i \in Item : item[i].by # p => item'[i] = item[i]
    BY <1>1, <1>2 DEF Committed, RolledBack
<1>4. \A i \in Item : item[i].by = p =>
          /\ item'[i].by = NoProc
          /\ ClientCommit(p) => item'[i].now = item[i].next
          /\ ClientAbort(p) => item'[i].now = item[i].now
    BY <1>1 DEF ClientCommit, ClientAbort, Committed, RolledBack, Settled
<1>5. /\ \A v \in Version : item'[<<v, t>>].by # p
      /\ \A q \in Client, v \in Version : q # p => (item'[<<v, t>>].by = q <=> item[<<v, t>>].by = q)
    <2>1. \A i \in Item : /\ item'[i].by # p
                          /\ \A q \in Client : q # p => (item'[i].by = q <=> item[i].by = q)
        BY <1>3, <1>4
    <2> QED BY <1>1, <2>1
<1>6. /\ Mine(p, t)' = {}
      /\ \A q \in Client : q # p => Mine(q, t)' = Mine(q, t)
    BY <1>5 DEF Mine
<1>7. /\ pc'[p] = "ready"
      /\ \A q \in Client : q # p =>
            /\ pc'[q] = pc[q] /\ time'[q] = time[q] /\ ver'[q] = ver[q]
            /\ max'[q] = max[q] /\ todo'[q] = todo[q]
    BY DEF ClientCommit, ClientAbort, End, Typed, TypeOK
<1> QED BY <1>1, <1>3, <1>4, <1>6, <1>7 DEF Mine

\* Nobody holds two rows alike.
LEMMA OneHolder ==
    ASSUME NEW p, NEW q, p # q, NEW t
    PROVE  Mine(p, t) \cap Mine(q, t) = {}
BY DEF Mine

\* Who has added a version to the committed ones, and updated them, is alone: another
\* that holds a row holds one of the new ones, or has been kept out of them.
LEMMA OneAdds ==
    ASSUME NEW p \in Client, NEW q \in Client, p # q, NEW t,
           Closed(Stored(t) \cup Mine(p, t)), Closed(Stored(t) \cup Mine(q, t)),
           Stored(t) \subseteq Mine(p, t), NEW w \in Mine(p, t), w \notin Stored(t)
    PROVE  Mine(q, t) = {}
<1> SUFFICES ASSUME NEW v \in Mine(q, t) PROVE FALSE
    OBVIOUS
<1>1. v \notin Mine(p, t) /\ w \notin Mine(q, t) /\ v \notin Stored(t)
    BY OneHolder
<1>2. v \in Version /\ w \in Version /\ v \in Nat /\ w \in Nat
    BY DEF Mine, Version
<1>3. v < w \/ w < v \/ v = w
    BY <1>2
<1> QED BY <1>1, <1>2, <1>3 DEF Closed

\* The commit of a transaction that holds nothing of t.
LEMMA EmptyCommit ==
    ASSUME Typed, NEW p \in Client, NEW t \in RefTime, ClientCommit(p) \/ ClientAbort(p),
           Mine(p, t) = {} \/ ClientAbort(p), \A q \in Client : Progress(q, t), Closed(Stored(t))
    PROVE  /\ Stored(t)' = Stored(t)
           /\ \A v \in Stored(t) : item'[<<v, t>>].now = item[<<v, t>>].now
           /\ \A q \in Client : Progress(q, t)'
<1>1. \A v \in Version : item'[<<v, t>>].now = item[<<v, t>>].now
    BY EndRows
<1>2. Stored(t)' = Stored(t) /\ \A v \in Stored(t) : item'[<<v, t>>].now = item[<<v, t>>].now
    BY <1>1 DEF Stored
<1>3. Progress(p, t)'
    <2>1. Mine(p, t)' = {} /\ pc'[p] = "ready"
        BY EndRows
    <2>2. Closed(Stored(t)' \cup Mine(p, t)')
        BY <1>2, <2>1
    <2> QED BY <2>1, <2>2 DEF Progress, Writing
<1>4. ASSUME NEW q \in Client, q # p PROVE Progress(q, t)'
    <2>1. /\ Mine(q, t)' = Mine(q, t) /\ pc'[q] = pc[q] /\ time'[q] = time[q]
          /\ ver'[q] = ver[q] /\ max'[q] = max[q] /\ todo'[q] = todo[q]
        BY <1>4, EndRows
    <2>2. \A v \in Mine(q, t) : item'[<<v, t>>] = item[<<v, t>>]
        BY <1>4, OneHolder, EndRows DEF Mine
    <2>3. \A v \in Version : Seen(item', q, <<v, t>>) = Seen(item, q, <<v, t>>)
        BY <1>1, <2>1, <2>2 DEF Seen, Mine
    <2>4. Visible(q, t)' = Visible(q, t)
        BY <2>3 DEF Visible
    <2> QED BY <1>2, <2>1, <2>2, <2>4, SameProgress
<1> QED BY <1>2, <1>3, <1>4

\* The commit of a transaction that has deleted nothing and holds rows of t.
LEMMA FullCommit ==
    ASSUME Typed, NEW p \in Client, NEW t \in RefTime, ClientCommit(p), Mine(p, t) # {},
           Mine(p, t) \subseteq Visible(p, t), \A q \in Client : Progress(q, t), Closed(Stored(t))
    PROVE  /\ Closed(Stored(t)')
           /\ \A v \in Stored(t)' : Tops(item'[<<v, t>>].now, Stored(t)')
           /\ \A q \in Client : Progress(q, t)'
<1>1. /\ Stored(t) \subseteq Mine(p, t) /\ Closed(Stored(t) \cup Mine(p, t))
      /\ \A v \in Mine(p, t) : Tops(item[<<v, t>>].next, Visible(p, t))
    <2>1. ~Writing(p, t)
        BY DEF ClientCommit, Writing
    <2> QED BY <2>1 DEF Progress
<1>2. Mine(p, t) = Visible(p, t) /\ Stored(t) \cup Mine(p, t) = Mine(p, t)
    BY <1>1, SeenSets
<1>3. Stored(t)' = Mine(p, t)
    <2>1. \A v \in Version : item'[<<v, t>>].now # NoItem <=> v \in Mine(p, t)
        <3>1. \A v \in Version : v \notin Mine(p, t) => item'[<<v, t>>].now = NoItem
            BY <1>1, EndRows DEF Stored
        <3>2. \A v \in Mine(p, t) : item'[<<v, t>>].now # NoItem
            BY <1>2, SeenSets, EndRows
        <3> QED BY <3>1, <3>2
    <2> QED BY <2>1, SeenSets DEF Stored
<1>4. Closed(Stored(t)')
    BY <1>1, <1>2, <1>3
<1>5. \A v \in Stored(t)' : Tops(item'[<<v, t>>].now, Stored(t)')
    <2>1. \A v \in Mine(p, t) : item'[<<v, t>>].now = item[<<v, t>>].next
        BY EndRows
    <2> QED BY <1>1, <1>2, <1>3, <2>1
<1>6. Progress(p, t)'
    <2>1. Mine(p, t)' = {} /\ pc'[p] = "ready"
        BY EndRows
    <2>2. Closed(Stored(t)' \cup Mine(p, t)')
        BY <1>4, <2>1
    <2> QED BY <2>1, <2>2 DEF Progress, Writing
<1>7. ASSUME NEW q \in Client, q # p PROVE Progress(q, t)'
    <2>0. /\ Mine(q, t)' = Mine(q, t) /\ pc'[q] = pc[q] /\ time'[q] = time[q]
          /\ ver'[q] = ver[q] /\ max'[q] = max[q] /\ todo'[q] = todo[q]
        BY <1>7, EndRows
    <2>1. \A v \in Mine(q, t) : item'[<<v, t>>] = item[<<v, t>>]
        BY <1>7, OneHolder, EndRows DEF Mine
    <2>2. CASE Stored(t)' = Stored(t)
        <3>1. \A v \in Version : Seen(item', q, <<v, t>>) # NoItem <=> Seen(item, q, <<v, t>>) # NoItem
            BY <2>0, <2>1, <2>2 DEF Seen, Mine, Stored
        <3>2. Visible(q, t)' = Visible(q, t)
            BY <3>1 DEF Visible
        <3> QED BY <2>0, <2>1, <2>2, <3>2, SameProgress
    <2>3. CASE Stored(t)' # Stored(t)
        <3>1. PICK u \in Mine(p, t) : u \notin Stored(t)
            BY <1>1, <1>3, <2>3
        <3>2. Mine(q, t) = {}
            BY <1>1, <1>7, <3>1, OneAdds DEF Progress
        <3>3. Visible(q, t) = Stored(t) /\ Visible(q, t)' = Stored(t)'
            BY <2>0, <3>2 DEF Visible, Stored, Seen, Mine
        <3>4. ~Writing(q, t)
            BY <3>2 DEF Progress, Spreading
        <3>5. ~Writing(q, t)'
            BY <2>0, <3>4 DEF Writing
        <3>6. Stored(t) \subseteq Stored(t)'
            BY <1>1, <1>3
        <3>7. ASSUME NextOne(q, t) PROVE NextOne(q, t)'
            <4>1. PICK v \in Version : v = ver[q]
                BY DEF Typed, TypeOK
            <4>2. \A w \in Stored(t)' : w \in Version /\ w \in Nat /\ v \in Nat
                BY <1>3 DEF Mine, Version
            <4>3. v = 0 \/ v - 1 \in Stored(t)'
                BY <3>3, <3>6, <3>7, <4>1 DEF NextOne
            <4>4. v \in Stored(t)' \/ \A w \in Stored(t)' : w < v
                <5> SUFFICES ASSUME NEW w \in Stored(t)', ~(w < v) PROVE v \in Stored(t)'
                    OBVIOUS
                <5>1. v = w \/ v < w
                    BY <4>2
                <5> QED BY <1>4, <5>1 DEF Closed
            <4> QED BY <2>0, <3>3, <4>1, <4>3, <4>4 DEF NextOne
        <3>8. Closed(Stored(t)' \cup Mine(q, t)')
            BY <1>4, <2>0, <3>2
        <3> QED BY <2>0, <3>2, <3>5, <3>7, <3>8 DEF Progress
    <2> QED BY <2>2, <2>3
<1> QED BY <1>4, <1>5, <1>6, <1>7

\* A statement that changes no item.
LEMMA QuietProgress ==
    ASSUME Typed, Numbering = "auto", NEW p \in Client, NEW t \in RefTime,
           \A q \in Client : Progress(q, t), item' = item,
           \/ \E r \in RefTime, v \in Version : PickVersion(p, r, v)
           \/ WriteGroup(p) \/ ReadMax(p) \/ SpreadStart(p) \/ SpreadEnd(p)
           \/ \E h \in Version : Browse(p, h)
           \/ \E S \in SUBSET Item : RemoveStart(p, S)
    PROVE  \A q \in Client : Progress(q, t)'
<1> USE FloatConstants
<1>1. /\ Stored(t)' = Stored(t)
      /\ \A q \in Client : Visible(q, t)' = Visible(q, t) /\ Mine(q, t)' = Mine(q, t)
    BY DEF Stored, Visible, Mine
<1>0. /\ Progress(p, t) /\ Stored(t)' = Stored(t)
      /\ Visible(p, t)' = Visible(p, t) /\ Mine(p, t)' = Mine(p, t)
    BY <1>1
<1>2. ASSUME NEW q \in Client,
             \/ /\ pc'[q] = pc[q] /\ time'[q] = time[q] /\ ver'[q] = ver[q]
                /\ max'[q] = max[q] /\ todo'[q] = todo[q]
             \/ ~Writing(q, t) /\ pc'[q] \notin {"group", "item", "max", "start", "spread"}
             \/ ~Writing(q, t) /\ time'[q] # t
      PROVE  Progress(q, t)'
    BY <1>1, <1>2, SameProgress
<1>3. \A q \in Client : q # p =>
         /\ pc'[q] = pc[q] /\ time'[q] = time[q] /\ ver'[q] = ver[q]
         /\ max'[q] = max[q] /\ todo'[q] = todo[q]
    BY DEF PickVersion, WriteGroup, ReadMax, SpreadStart, SpreadEnd, Browse, RemoveStart, Typed, TypeOK
<1>4. \A q \in Client : q # p => Progress(q, t)'
    BY <1>2, <1>3
<1>5. ASSUME NEW r \in RefTime, NEW v \in Version, PickVersion(p, r, v) PROVE Progress(p, t)'
    <2>1. /\ pc[p] = "ready" /\ pc'[p] = "group" /\ ver'[p] = v /\ time'[p] = r
          /\ v \in Versions(p, r)
        BY <1>5 DEF PickVersion, Typed, TypeOK
    <2>2. ~Writing(p, t) /\ ~Writing(p, t)'
        BY <2>1 DEF Writing
    <2>3. CASE r # t
        BY <1>2, <2>1, <2>2, <2>3
    <2>4. CASE r = t
        <3>1. NextOne(p, t)'
            BY <1>1, <2>1, <2>4, ChosenIsNext DEF NextOne
        <3> QED BY <1>1, <2>1, <2>2, <3>1 DEF Progress
    <2> QED BY <2>3, <2>4
<1>6. ASSUME WriteGroup(p) PROVE Progress(p, t)'
    <2>1. /\ pc[p] = "group" /\ pc'[p] = "item" /\ ver' = ver /\ time' = time
        BY <1>6 DEF WriteGroup, Typed, TypeOK
    <2>2. ~Writing(p, t) /\ ~Writing(p, t)'
        BY <2>1 DEF Writing
    <2>3. NextOne(p, t)' <=> NextOne(p, t)
        BY <1>0, <2>1 DEF NextOne
    <2> QED BY <1>0, <2>1, <2>2, <2>3 DEF Progress
<1>7. ASSUME ReadMax(p) \/ SpreadStart(p) PROVE Progress(p, t)'
    <2>0. /\ pc[p] \in {"max", "start"} /\ pc'[p] \in {"start", "spread"} /\ ver' = ver /\ time' = time
        BY <1>7 DEF ReadMax, SpreadStart, Typed, TypeOK
    <2>1. Writing(p, t)' <=> Writing(p, t)
        BY <2>0 DEF Writing
    <2>2. CASE time[p] # t
        <3>1. ~Writing(p, t) /\ time'[p] # t
            BY <2>0, <2>2 DEF Writing
        <3> QED BY <1>2, <3>1
    <2>3. CASE time[p] = t
        <3>1. Writing(p, t) /\ Spreading(p, t)
            BY <2>0, <2>3 DEF Writing, Progress
        <3>2. PICK v \in Version : v = ver[p]
            BY DEF Typed, TypeOK
        <3>3. v \in Visible(p, t) /\ \A w \in Visible(p, t) : w <= v
            BY <3>1, <3>2 DEF Spreading, Tops
        <3>4. Highest(Visible(p, t)) = v
            <4>1. PICK h : h = Highest(Visible(p, t))
                OBVIOUS
            <4>2. h \in Visible(p, t) /\ \A w \in Visible(p, t) : w <= h
                BY <3>3, <4>1, HighestExists DEF Visible
            <4>3. h \in Nat /\ v \in Nat
                BY <4>2, SeenSets DEF Version
            <4> QED BY <3>3, <4>1, <4>2, <4>3
        <3>5. max'[p] = v
            <4>1. CASE ReadMax(p)
                BY <2>3, <3>4, <4>1 DEF ReadMax, Typed, TypeOK
            <4>2. CASE SpreadStart(p)
                BY <3>1, <3>2, <4>2 DEF SpreadStart, Spreading
            <4> QED BY <1>7, <4>1, <4>2
        <3>6. pc'[p] = "spread" => todo'[p] = {<<w, t>> : w \in Visible(p, t)}
            BY <1>7, <2>3 DEF ReadMax, SpreadStart, Typed, TypeOK
        <3>7. Spreading(p, t)'
            BY <1>0, <2>0, <3>1, <3>2, <3>5, <3>6 DEF Spreading
        <3> QED BY <1>0, <2>0, <2>1, <3>1, <3>7 DEF Progress
    <2> QED BY <2>2, <2>3
<1>8. ASSUME SpreadEnd(p) PROVE Progress(p, t)'
    <2>0. pc[p] = "spread" /\ pc'[p] = "ready" /\ todo[p] = {}
        BY <1>8 DEF SpreadEnd, Typed, TypeOK
    <2>1. CASE time[p] # t
        <3>1. ~Writing(p, t)
            BY <2>1 DEF Writing
        <3> QED BY <1>2, <2>0, <3>1
    <2>2. CASE time[p] = t
        <3>1. Writing(p, t) /\ Spreading(p, t) /\ ~Writing(p, t)'
            BY <2>0, <2>2 DEF Writing, Progress
        <3>2. \A v \in Visible(p, t) : v \in Mine(p, t) /\ item[<<v, t>>].next = ver[p]
            BY <2>0, <3>1 DEF Spreading
        <3>3. Tops(ver[p], Visible(p, t))
            BY <3>1 DEF Spreading
        <3>4. Stored(t) \subseteq Mine(p, t)
            BY <3>2, SeenSets
        <3>5. Mine(p, t) \subseteq Visible(p, t) =>
                 \A v \in Mine(p, t) : Tops(item[<<v, t>>].next, Visible(p, t))
            BY <3>2, <3>3
        <3> QED BY <1>0, <2>0, <3>1, <3>4, <3>5 DEF Progress
    <2> QED BY <2>1, <2>2
<1>9. ASSUME (\E h \in Version : Browse(p, h)) \/ (\E S \in SUBSET Item : RemoveStart(p, S))
      PROVE  Progress(p, t)'
    <2>1. /\ pc[p] \in {"ready", "browsed"} /\ pc'[p] \in {"ready", "browsed", "delete"}
        BY <1>9 DEF Browse, RemoveStart, Typed, TypeOK
    <2> QED BY <1>2, <2>1 DEF Writing
<1> QED BY <1>4, <1>5, <1>6, <1>7, <1>8, <1>9

\* A change of one row of an open transaction.
LEMMA PutKeepsRight ==
    ASSUME Typed, NEW p \in Client, NEW v \in Version, NEW t \in RefTime, NEW s,
           Free(item, p, <<v, t>>), item' = Put(item, p, <<v, t>>, s),
           NEW r \in RefTime, Right(r), r = t => Progress(p, t)',
           r # t => \/ ~Writing(p, r) /\ pc'[p] \notin {"group", "item", "max", "start", "spread"}
                    \/ ~Writing(p, r) /\ time'[p] # r,
           \A q \in Client : q # p =>
              /\ pc'[q] = pc[q] /\ time'[q] = time[q] /\ ver'[q] = ver[q]
              /\ max'[q] = max[q] /\ todo'[q] = todo[q]
    PROVE  Right(r)'
<1>1. Stored(r)' = Stored(r)
    BY PutSets
<1>2. \A u \in Version : item'[<<u, r>>].now = item[<<u, r>>].now
    BY PutSets
<1>3. \A w \in Stored(r) : item'[<<w, r>>].now = item[<<w, r>>].now
    BY <1>2 DEF Stored
<1>4. \A q \in Client : q # p => Progress(q, r)'
    BY OthersProgress DEF Right
<1>5. r # t => Progress(p, r)'
    BY OthersProgress DEF Right
<1>6. \A q \in Client : Progress(q, r)'
    BY <1>4, <1>5
<1> QED BY <1>1, <1>3, <1>6 DEF Right

LEMMA LatestStep ==
    ASSUME Typed, LatestInv, Numbering = "auto", [Next]_vars PROVE LatestInv'
<1> USE FloatConstants
<1> SUFFICES ASSUME ~removed', NEW r \in RefTime PROVE Right(r)'
    BY DEF LatestInv, Right
<1>0. ~removed
    BY DEF Next, WriteStep, RemoveStep, PickVersion, WriteGroup, WriteItem, ReadMax, SpreadStart,
           SpreadItem, SpreadEnd, Browse, RemoveStart, DeleteItem, ClientCommit, ClientAbort, vars
<1>1. Right(r)
    BY <1>0 DEF LatestInv, Right
<1>2. ASSUME item' = item, \A q \in Client : Progress(q, r)' PROVE Right(r)'
    <2>1. Stored(r)' = Stored(r)
        BY <1>2 DEF Stored
    <2> QED BY <1>1, <1>2, <2>1 DEF Right
<1>3. ASSUME NEW p \in Client,
             \/ \E t \in RefTime, v \in Version : PickVersion(p, t, v)
             \/ WriteGroup(p) \/ ReadMax(p) \/ SpreadStart(p) \/ SpreadEnd(p)
             \/ \E h \in Version : Browse(p, h)
             \/ \E S \in SUBSET Item : RemoveStart(p, S)
      PROVE  Right(r)'
    <2>1. item' = item
        BY <1>3 DEF PickVersion, WriteGroup, ReadMax, SpreadStart, SpreadEnd, Browse, RemoveStart
    <2>2. \A q \in Client : Progress(q, r)'
        BY <1>1, <1>3, <2>1, QuietProgress DEF Right
    <2> QED BY <1>2, <2>1, <2>2
<1>4. ASSUME NEW p \in Client, WriteItem(p) PROVE Right(r)'
    <2>1. PICK v \in Version, t \in RefTime : v = ver[p] /\ t = time[p]
        BY <1>4 DEF WriteItem, Typed, TypeOK, Underway
    <2>2. /\ item' = Put(item, p, <<v, t>>, v) /\ Free(item, p, <<v, t>>)
          /\ \A q \in Client : q # p =>
                /\ pc'[q] = pc[q] /\ time'[q] = time[q] /\ ver'[q] = ver[q]
                /\ max'[q] = max[q] /\ todo'[q] = todo[q]
          /\ pc[p] = "item" /\ (pc'[p] = "ready" \/ time'[p] = t)
        BY <1>4, <2>1 DEF WriteItem, Typed, TypeOK
    <2>3. r = t => Progress(p, t)'
        BY <1>1, <1>4, <2>1, InsertProgress DEF Right
    <2>4. ~Writing(p, r)
        BY <2>2 DEF Writing
    <2> QED BY <1>1, <2>2, <2>3, <2>4, PutKeepsRight
<1>5. ASSUME NEW p \in Client, NEW i \in Item, SpreadItem(p, i) PROVE Right(r)'
    <2>0. PICK v \in Version, t \in RefTime : i = <<v, t>>
        BY DEF Item
    <2>1. /\ pc[p] = "spread" /\ i \in todo[p] /\ Free(item, p, i)
          /\ UNCHANGED <<pc, time, ver, max>> /\ time[p] \in RefTime
          /\ \A q \in Client : q # p => todo'[q] = todo[q]
        BY <1>5 DEF SpreadItem, Typed, TypeOK, Underway
    <2>2. time[p] = t
        <3>1. PICK u \in RefTime : u = time[p]
            BY <2>1
        <3>2. Progress(p, u) /\ Writing(p, u)
            BY <1>0, <2>1, <3>1 DEF LatestInv, Right, Writing
        <3>3. i[2] = u
            BY <2>1, <3>2 DEF Progress, Spreading
        <3> QED BY <2>0, <3>1, <3>3
    <2>3. r = t => Progress(p, t)'
        BY <1>1, <1>5, <2>0, <2>2, UpdateProgress DEF Right
    <2>4. r # t => ~Writing(p, r) /\ time'[p] # r
        BY <2>1, <2>2 DEF Writing
    <2>5. CASE item' = item
        <3>1. Stored(r)' = Stored(r)
            BY <2>5 DEF Stored
        <3>2. \A q \in Client : Visible(q, r)' = Visible(q, r) /\ Mine(q, r)' = Mine(q, r)
            BY <2>5 DEF Visible, Mine
        <3>3. \A q \in Client : q # p \/ r # t => Progress(q, r)'
            BY <1>1, <2>1, <2>4, <2>5, <3>1, <3>2, SameProgress DEF Right
        <3> QED BY <1>2, <2>3, <2>5, <3>3
    <2>6. CASE item' # item
        <3>1. PICK s : s = max[p]
            OBVIOUS
        <3>2. item' = Put(item, p, <<v, t>>, s)
            BY <1>5, <2>0, <2>6, <3>1 DEF SpreadItem
        <3> QED BY <1>1, <2>0, <2>1, <2>3, <2>4, <3>2, PutKeepsRight
    <2> QED BY <2>5, <2>6
<1>6. ASSUME NEW p \in Client, NEW i \in Item, DeleteItem(p, i) PROVE Right(r)'
    <2>0. PICK v \in Version, t \in RefTime : i = <<v, t>>
        BY DEF Item
    <2>1. /\ pc[p] = "delete" /\ pc'[p] \in {"ready", "delete"} /\ Free(item, p, i)
          /\ \A q \in Client : q # p =>
                /\ pc'[q] = pc[q] /\ time'[q] = time[q] /\ ver'[q] = ver[q]
                /\ max'[q] = max[q] /\ todo'[q] = todo[q]
        BY <1>6 DEF DeleteItem, Typed, TypeOK
    <2>2. ~Writing(p, r) /\ pc'[p] \notin {"group", "item", "max", "start", "spread"}
        BY <2>1 DEF Writing
    <2>3. CASE Seen(item, p, i) = NoItem
        <3>0. item' = item
            BY <1>6, <2>3 DEF DeleteItem
        <3>1. Stored(r)' = Stored(r)
            BY <3>0 DEF Stored
        <3>2. \A q \in Client : Visible(q, r)' = Visible(q, r) /\ Mine(q, r)' = Mine(q, r)
            BY <3>0 DEF Visible, Mine
        <3>3. \A q \in Client : Progress(q, r)'
            BY <1>1, <2>1, <2>2, <3>0, <3>1, <3>2, SameProgress DEF Right
        <3> QED BY <1>2, <3>0, <3>3
    <2>4. CASE Seen(item, p, i) # NoItem
        <3>1. item' = Put(item, p, <<v, t>>, NoItem)
            BY <1>6, <2>0, <2>4 DEF DeleteItem
        <3>2. r = t => Progress(p, t)'
            BY <1>1, <1>6, <2>0, <2>4, DeleteProgress DEF Right
        <3> QED BY <1>1, <2>0, <2>1, <2>2, <3>1, <3>2, PutKeepsRight
    <2> QED BY <2>3, <2>4
<1>7. ASSUME NEW p \in Client, ClientCommit(p) \/ ClientAbort(p) PROVE Right(r)'
    <2>1. CASE Mine(p, r) = {} \/ ClientAbort(p)
        <3>1. /\ Stored(r)' = Stored(r)
              /\ \A v \in Stored(r) : item'[<<v, r>>].now = item[<<v, r>>].now
              /\ \A q \in Client : Progress(q, r)'
            BY <1>1, <1>7, <2>1, EmptyCommit DEF Right
        <3> QED BY <1>1, <3>1 DEF Right
    <2>2. CASE Mine(p, r) # {} /\ ClientCommit(p)
        <3>1. \A v \in Mine(p, r) : item[<<v, r>>].next # NoItem
            BY <2>2 DEF ClientCommit, Mine, Item
        <3>2. Mine(p, r) \subseteq Visible(p, r)
            BY <3>1, SeenSets
        <3> QED BY <1>1, <2>2, <3>2, FullCommit DEF Right
    <2> QED BY <1>7, <2>1, <2>2
<1>8. CASE UNCHANGED vars
    <2>0. UNCHANGED <<item, pc, time, ver, max, todo>>
        BY <1>8 DEF vars
    <2>1. Stored(r)' = Stored(r)
        BY <2>0 DEF Stored
    <2>2. \A q \in Client : Visible(q, r)' = Visible(q, r) /\ Mine(q, r)' = Mine(q, r)
        BY <2>0 DEF Visible, Mine
    <2>3. \A q \in Client : Progress(q, r)'
        BY <1>1, <2>0, <2>1, <2>2, SameProgress DEF Right
    <2> QED BY <1>2, <2>0, <2>3
<1> QED BY <1>3, <1>4, <1>5, <1>6, <1>7, <1>8 DEF Next, WriteStep, RemoveStep, Client

\* As long as nothing is removed, and wci.write numbers the versions, data version -1
\* selects the highest version of a reference time and no other, for any number of
\* writers (wciWrite.in.sql, wciWriteInternals.in.sql).
THEOREM LatestIsHighestCorrect ==
    ASSUME Numbering = "auto"
    PROVE  Spec => []LatestIsHighest
<1>1. Init => Typed /\ LatestInv
    <2> SUFFICES ASSUME Init PROVE Typed /\ LatestInv
        OBVIOUS
    <2>1. \A i \in Item : item[i].now = NoItem /\ item[i].next = NoItem /\ item[i].by = NoProc
        BY DEF Init, Settled
    <2>2. \A t \in RefTime, v \in Version : <<v, t>> \in Item
        BY DEF Item
    <2>3. \A t \in RefTime : Stored(t) = {} /\ \A p \in Client : Mine(p, t) = {}
        BY <2>1, <2>2, FloatConstants DEF Stored, Mine
    <2>4. \A t \in RefTime, p \in Client : Progress(p, t)
        BY <2>3 DEF Progress, Closed, Writing, Init
    <2> QED BY <2>3, <2>4, InitIsTyped DEF LatestInv, Right, Closed
<1>2. Typed /\ LatestInv /\ [Next]_vars => Typed' /\ LatestInv'
    BY TypeStep, LatestStep
<1>3. Typed /\ LatestInv => LatestIsHighest
    <2> SUFFICES ASSUME Typed, ~removed, NEW t \in RefTime, Stored(t) # {},
                        \A v \in Stored(t) : Tops(item[<<v, t>>].now, Stored(t))
                 PROVE  Selected(t, 1) = {Highest(Stored(t))}
        BY DEF LatestInv, Right, LatestIsHighest
    <2>1. PICK h : h = Highest(Stored(t))
        OBVIOUS
    <2>2. h \in Stored(t) /\ \A w \in Stored(t) : w <= h
        BY <2>1, HighestExists DEF Stored
    <2>3. \A v \in Stored(t) : v \in Nat
        BY DEF Stored, Version
    <2>4. \A v \in Stored(t) : item[<<v, t>>].now = h
        <3> SUFFICES ASSUME NEW v \in Stored(t) PROVE item[<<v, t>>].now = h
            OBVIOUS
        <3>1. item[<<v, t>>].now \in Stored(t) /\ \A w \in Stored(t) : w <= item[<<v, t>>].now
            BY DEF Tops
        <3> QED BY <2>2, <2>3, <3>1
    <2>5. \A v : v \in Selected(t, 1) <=> v \in Stored(t) /\ v = h
        BY <2>2, <2>3, <2>4 DEF Selected
    <2> QED BY <2>1, <2>2, <2>5
<1> QED BY <1>1, <1>2, <1>3, PTL DEF Spec
=============================================================================
