---------------------------- MODULE FloatValue -----------------------------
(***************************************************************************)
(* Point values: one field, whose versions are the rows of floatvaluegroup *)
(* and whose values, one for every version and reference time, are the     *)
(* rows of floatvalueitem.  Groups are shared by all reference times and   *)
(* are never deleted.                                                      *)
(*                                                                         *)
(*   src/src/callInterface/core/wciWriteInternals.in.sql  the writes       *)
(*   src/src/callInterface/api/wciWrite.in.sql, wciRemove.in.sql           *)
(*   src/src/database/floatValueTables.in.sql             keys and indexes *)
(***************************************************************************)
EXTENDS Integers, FiniteSets, ReadCommitted

CONSTANTS
    Writer,     \* backends that write
    Remover,    \* backends that remove: cleaners, and loaders that remove too
    Removal,    \* what they remove: "any" values, "low" data versions, or both
    RefTime,    \* reference times
    MaxVersion, \* bound: the highest data version
    Numbering   \* "auto", "ascending", "zerofirst" (any, but 0 first) or "any"

Client == Writer \cup Remover
Version == 0 .. MaxVersion
Item == Version \X RefTime

\* The state of an item is its column maxdataversion.
NoItem == -1
NoTime == "none"

ASSUME FloatConstants ==
    /\ MaxVersion \in Nat
    /\ Numbering \in {"auto", "ascending", "zerofirst", "any"}
    /\ Removal \subseteq {"any", "low"}
    /\ NoProc \notin Client

VARIABLES
    group,      \* the rows of floatvaluegroup, by version
    item,       \* the rows of floatvalueitem, by version and reference time
    pc,         \* where the statement of every client is
    ver, time,  \* what its wci.write is about
    max,        \* the variable max_ of the write function; what a cleaner found
    todo,       \* the items its statement has still to change
    removed     \* history: a removal has been committed

vars == <<group, item, pc, ver, time, max, todo, removed>>

TypeOK ==
    /\ group \in Table(Version, {"none", "there"}, Client)
    /\ item \in Table(Item, Version \cup {NoItem}, Client)
    /\ pc \in [Client -> {"ready", "group", "item", "max", "start", "spread", "browsed", "delete"}]
    /\ ver \in [Client -> Version]
    /\ time \in [Client -> RefTime \cup {NoTime}]
    /\ max \in [Client -> Version]
    /\ todo \in [Client -> SUBSET Item]
    /\ removed \in BOOLEAN

Init ==
    /\ group = [v \in Version |-> Settled("none")]
    /\ item = [i \in Item |-> Settled(NoItem)]
    /\ pc = [p \in Client |-> "ready"]
    /\ ver = [p \in Client |-> 0]
    /\ time = [p \in Client |-> NoTime]
    /\ max = [p \in Client |-> 0]
    /\ todo = [p \in Client |-> {}]
    /\ removed = FALSE

\* The versions of reference time t that a statement of p sees.
Visible(p, t) == {v \in Version : Seen(item, p, <<v, t>>) # NoItem}

Highest(S) == CHOOSE v \in S : \A w \in S : w <= v

-----------------------------------------------------------------------------
(* wci.write(float) *)

\* Versions at reference time t that anyone has written or is about to write.
Taken(t) ==
    {v \in Version : item[<<v, t>>].now # NoItem \/ item[<<v, t>>].next # NoItem}
    \cup {ver[p] : p \in {q \in Client : time[q] = t}}

\* SELECT max(dataversion) + 1, or what the caller says.
Versions(p, t) ==
    LET seen == Visible(p, t) IN
    CASE Numbering = "auto" -> {IF seen = {} THEN 0 ELSE Highest(seen) + 1} \cap Version
      [] Numbering = "ascending" -> {v \in Version : \A w \in Taken(t) : w < v}
      [] Numbering = "zerofirst" -> {v \in Version : v = 0 => seen = {}}
      [] OTHER -> Version

PickVersion(p, t, v) ==
    /\ pc[p] = "ready"
    /\ v \in Versions(p, t)
    /\ ver' = [ver EXCEPT ![p] = v]
    /\ time' = [time EXCEPT ![p] = t]
    /\ pc' = [pc EXCEPT ![p] = "group"]
    /\ UNCHANGED <<group, item, max, todo, removed>>

\* Mutant: the handler takes a group that is not committed yet.
WriteGroupDirty(p) ==
    /\ pc[p] = "group"
    /\ group' = IF Free(group, p, ver[p]) THEN Put(group, p, ver[p], "there") ELSE group
    /\ pc' = [pc EXCEPT ![p] = "item"]
    /\ UNCHANGED <<item, ver, time, max, todo, removed>>

\* INSERT INTO floatvaluegroup; on a unique violation the group that exists
\* is taken.  An uncommitted group of another makes the insertion wait.
WriteGroup(p) ==
    /\ pc[p] = "group"
    /\ \/ Seen(group, p, ver[p]) = "there" /\ group' = group
       \/ /\ Seen(group, p, ver[p]) = "none"
          /\ Free(group, p, ver[p])
          /\ group' = Put(group, p, ver[p], "there")
    /\ pc' = [pc EXCEPT ![p] = "item"]
    /\ UNCHANGED <<item, ver, time, max, todo, removed>>

\* INSERT INTO floatvalueitem, which fails if the value is there.  Version 0
\* is taken to be the only one.
WriteItem(p) ==
    LET i == <<ver[p], time[p]>> IN
    /\ pc[p] = "item"
    /\ Seen(item, p, i) = NoItem
    /\ Free(item, p, i)
    /\ item' = Put(item, p, i, ver[p])
    /\ IF ver[p] > 0
         THEN /\ pc' = [pc EXCEPT ![p] = "max"]
              /\ UNCHANGED time
         ELSE /\ pc' = [pc EXCEPT ![p] = "ready"]
              /\ time' = [time EXCEPT ![p] = NoTime]
    /\ UNCHANGED <<group, ver, max, todo, removed>>

\* Mutant: the next version instead of the last one.
ReadNext(p) ==
    /\ pc[p] = "max"
    /\ max' = [max EXCEPT ![p] = Highest(Visible(p, time[p])) + 1]
    /\ pc' = [pc EXCEPT ![p] = "start"]
    /\ UNCHANGED <<group, item, ver, time, todo, removed>>

\* SELECT max(dataversion) INTO max_
ReadMax(p) ==
    /\ pc[p] = "max"
    /\ max' = [max EXCEPT ![p] = Highest(Visible(p, time[p]))]
    /\ pc' = [pc EXCEPT ![p] = "start"]
    /\ UNCHANGED <<group, item, ver, time, todo, removed>>

\* Mutant: the maximum is stored in the new item only.
SpreadOwn(p) ==
    /\ pc[p] = "start"
    /\ todo' = [todo EXCEPT ![p] = {<<ver[p], time[p]>>}]
    /\ pc' = [pc EXCEPT ![p] = "spread"]
    /\ UNCHANGED <<group, item, ver, time, max, removed>>

\* UPDATE floatvalueitem SET maxdataversion = max_: the items in its snapshot.
SpreadStart(p) ==
    /\ pc[p] = "start"
    /\ todo' = [todo EXCEPT ![p] = {<<v, time[p]>> : v \in Visible(p, time[p])}]
    /\ pc' = [pc EXCEPT ![p] = "spread"]
    /\ UNCHANGED <<group, item, ver, time, max, removed>>

\* One of those items, once its lock is free; it may be deleted by then.
SpreadItem(p, i) ==
    /\ pc[p] = "spread"
    /\ i \in todo[p]
    /\ Free(item, p, i)
    /\ item' = IF Seen(item, p, i) = NoItem THEN item ELSE Put(item, p, i, max[p])
    /\ todo' = [todo EXCEPT ![p] = @ \ {i}]
    /\ UNCHANGED <<group, pc, ver, time, max, removed>>

SpreadEnd(p) ==
    /\ pc[p] = "spread"
    /\ todo[p] = {}
    /\ time' = [time EXCEPT ![p] = NoTime]
    /\ pc' = [pc EXCEPT ![p] = "ready"]
    /\ UNCHANGED <<group, item, ver, max, todo, removed>>

-----------------------------------------------------------------------------
(* wci.remove, and the end of transactions *)

\* clean_dataversions() looks for the highest data version of all values, the
\* fields and the grids among them: it is at least that of these items.
Browse(p, h) ==
    /\ "low" \in Removal
    /\ pc[p] = "ready"
    /\ \A t \in RefTime : \A v \in Visible(p, t) : v <= h
    /\ max' = [max EXCEPT ![p] = h]
    /\ pc' = [pc EXCEPT ![p] = "browsed"]
    /\ UNCHANGED <<group, item, ver, time, todo, removed>>

Items(p) == {i \in Item : i[1] \in Visible(p, i[2])}

\* What it removes: the data versions -2 .. -(highest + 1).  The loop is not
\* entered when the highest is 0, and NULL instead of a list means all.
Low(p) == {i \in Items(p) :
              max[p] = 0 \/ \E n \in 2 .. max[p] + 1 : i[1] = Seen(item, p, i) + 1 - n}

\* DELETE FROM floatvalueitem USING the rows that wci.read returns.
RemoveStart(p, S) ==
    /\ \/ pc[p] = "ready" /\ "any" \in Removal /\ S # {} /\ S \subseteq Items(p)
       \/ pc[p] = "browsed" /\ S = Low(p)
    /\ todo' = [todo EXCEPT ![p] = S]
    /\ pc' = [pc EXCEPT ![p] = IF S = {} THEN "ready" ELSE "delete"]
    /\ UNCHANGED <<group, item, ver, time, max, removed>>

DeleteItem(p, i) ==
    /\ pc[p] = "delete"
    /\ i \in todo[p]
    /\ Free(item, p, i)
    /\ item' = IF Seen(item, p, i) = NoItem THEN item ELSE Put(item, p, i, NoItem)
    /\ todo' = [todo EXCEPT ![p] = @ \ {i}]
    /\ pc' = [pc EXCEPT ![p] = IF todo[p] = {i} THEN "ready" ELSE "delete"]
    /\ UNCHANGED <<group, ver, time, max, removed>>

End(p) ==
    /\ pc' = [pc EXCEPT ![p] = "ready"]
    /\ time' = [time EXCEPT ![p] = NoTime]
    /\ todo' = [todo EXCEPT ![p] = {}]
    /\ UNCHANGED <<ver, max>>

ClientCommit(p) ==
    /\ pc[p] = "ready"
    /\ Holds(group, p) \/ Holds(item, p)
    /\ group' = Committed(group, p)
    /\ item' = Committed(item, p)
    /\ removed' = (removed \/ \E i \in Item : item[i].by = p /\ item[i].next = NoItem)
    /\ End(p)

ClientAbort(p) ==
    /\ pc[p] # "ready" \/ Holds(group, p) \/ Holds(item, p)
    /\ group' = RolledBack(group, p)
    /\ item' = RolledBack(item, p)
    /\ UNCHANGED removed
    /\ End(p)

WriteStep(p) ==
    \/ \E t \in RefTime, v \in Version : PickVersion(p, t, v)
    \/ WriteGroup(p) \/ WriteItem(p) \/ ReadMax(p) \/ SpreadStart(p)
    \/ \E i \in Item : SpreadItem(p, i)
    \/ SpreadEnd(p)

RemoveStep(p) ==
    \/ \E h \in Version : Browse(p, h)
    \/ \E S \in SUBSET Item : RemoveStart(p, S)
    \/ \E i \in Item : DeleteItem(p, i)

Next ==
    \/ \E p \in Writer : WriteStep(p)
    \/ \E p \in Remover : RemoveStep(p)
    \/ \E p \in Client : ClientCommit(p) \/ ClientAbort(p)

Spec == Init /\ [][Next]_vars

-----------------------------------------------------------------------------
(* Properties *)

\* The committed versions at reference time t, and those that a reader of
\* data version -n is given: dataversion IN (maxdataversion + 1 - n).
Stored(t) == {v \in Version : item[<<v, t>>].now # NoItem}
Selected(t, n) == {v \in Stored(t) : v = item[<<v, t>>].now + 1 - n}

\* As long as nothing is removed, data version -1 selects the value with the
\* highest data version, and no other (wci_system-design-specification, "Data
\* Versions").  Not so after a removal: a version chosen before is free again.
LatestIsHighest ==
    ~removed => \A t \in RefTime : Stored(t) # {} => Selected(t, 1) = {Highest(Stored(t))}

\* A committed value has its group, although the group may have been found
\* in the handler of a unique violation (foreign key of floatvalueitem).
ItemHasGroup ==
    \A v \in Version, t \in RefTime :
        item[<<v, t>>].now # NoItem => group[v].now = "there"
=============================================================================
