----------------------------- MODULE GridValue -----------------------------
(***************************************************************************)
(* The table gridvalue: one row per version of a field, referring to the   *)
(* grid in the file store that holds its data.  Clients write with         *)
(* wci.write, remove with wci.remove (the strategies of the cleaner do     *)
(* that too), and the trigger on deletions drops a grid with its last      *)
(* reference.  Every statement takes its own snapshot and waits for the    *)
(* rows that another transaction has changed.                              *)
(*                                                                         *)
(*   src/src/callInterface/api/wciWrite.in.sql, wciRemove.in.sql           *)
(*   src/src/callInterface/core/wciWriteInternals.in.sql                   *)
(*   src/src/database/gridValueTables.in.sql, gridValueTriggers.in.sql     *)
(*   src/src/cleaningProgram/remove_low_dataversions                       *)
(*                                                                         *)
(* The data file of a grid is the matter of FileBlob; here a grid is the   *)
(* state of its row in file_blob.                                          *)
(***************************************************************************)
EXTENDS Integers, FiniteSets, ReadCommitted

CONSTANTS
    Writer,     \* backends that write: loading programs
    Remover,    \* backends that remove: cleaners, and loaders that remove too
    Removal,    \* what they remove: "any" rows, "low" data versions, or both
    NoValue,    \* the state of a row that is not there
    Field,      \* what a row is about: provider, place, times, parameters
    MaxRow,     \* bound: rows that can be inserted
    MaxGrid,    \* bound: grids that can be reserved
    MaxVersion, \* bound: the highest data version
    Numbering,  \* how writers number versions: "auto", "ascending" or "any"
    Sharing     \* writers insert rows for grids by identifier: write(returnGid)

Client == Writer \cup Remover
RowId == 1 .. MaxRow
Grid == 1 .. MaxGrid
Version == 0 .. MaxVersion

\* A row of gridvalue; max is its column maxdataversion.
Value == [field : Field, version : Version, max : Version, grid : Grid]
GridState == {"none", "active", "inactive"}

ASSUME GridConstants ==
    /\ {MaxRow, MaxGrid, MaxVersion} \subseteq Nat
    /\ Numbering \in {"auto", "ascending", "any"}
    /\ Removal \subseteq {"any", "low"}
    /\ Sharing \in BOOLEAN
    /\ NoProc \notin Client
    /\ NoValue \notin Value

\* What a running wci.write is to insert; new says that it brings a grid.
Call == [field : Field, version : Version, grid : Grid, new : BOOLEAN]
NoCall == [field |-> "none", version |-> 0, grid |-> 0, new |-> FALSE]

VARIABLES
    value,      \* the table gridvalue
    grid,       \* the rows of file_blob
    nextRow,    \* gridvalue_valueid_seq
    nextGrid,   \* file_blob_file_id_seq
    pc,         \* where the statement of every client is
    call,       \* what its wci.write is about
    todo,       \* the rows its statement has still to change
    highest,    \* the highest data version that a cleaner has found
    fired,      \* the grids of the rows it deleted, triggers not yet run
    removed,    \* history: a removal has been committed
    bare        \* history: the grids a write has named that no row referred to

vars == <<value, grid, nextRow, nextGrid, pc, call, todo, highest, fired, removed,
          bare>>

TypeOK ==
    /\ value \in Table(RowId, Value \cup {NoValue}, Client)
    /\ grid \in Table(Grid, GridState, Client)
    /\ nextRow \in 1 .. MaxRow + 1
    /\ nextGrid \in 1 .. MaxGrid + 1
    /\ pc \in [Client -> {"ready", "picked", "update", "file", "browsed", "delete"}]
    /\ call \in [Client -> Call \cup {NoCall}]
    /\ todo \in [Client -> SUBSET RowId]
    /\ highest \in [Client -> Version]
    /\ fired \in [Client -> SUBSET Grid]
    /\ removed \in BOOLEAN
    /\ bare \subseteq Grid

Init ==
    /\ value = [r \in RowId |-> Settled(NoValue)]
    /\ grid = [g \in Grid |-> Settled("none")]
    /\ nextRow = 1
    /\ nextGrid = 1
    /\ pc = [p \in Client |-> "ready"]
    /\ call = [p \in Client |-> NoCall]
    /\ todo = [p \in Client |-> {}]
    /\ highest = [p \in Client |-> 0]
    /\ fired = [p \in Client |-> {}]
    /\ removed = FALSE
    /\ bare = {}

\* The rows a statement of p sees, and those of field k among them.
Rows(p) == {r \in RowId : Seen(value, p, r) # NoValue}
RowsOf(p, k) == {r \in Rows(p) : Seen(value, p, r).field = k}

-----------------------------------------------------------------------------
(* wci.write *)

\* Versions of field k that anyone has written or is about to write.
Taken(k) ==
    {value[r].now.version : r \in {s \in RowId : value[s].now # NoValue /\ value[s].now.field = k}}
    \cup {value[r].next.version : r \in {s \in RowId : value[s].next # NoValue /\ value[s].next.field = k}}
    \cup {call[q].version : q \in {c \in Client : call[c].field = k}}

\* SELECT max(dataversion) + 1, or what the caller says.
Versions(p, k) ==
    LET seen == {Seen(value, p, r).version : r \in RowsOf(p, k)} IN
    CASE Numbering = "auto" ->
           IF seen = {} THEN {0} ELSE {v \in Version : v - 1 \in seen /\ \A w \in seen : w < v}
      [] Numbering = "ascending" -> {v \in Version : \A w \in Taken(k) : w < v}
      [] OTHER -> Version

\* The new version is chosen and a grid identifier reserved.
WriteNew(p, k, v) ==
    /\ pc[p] = "ready"
    /\ v \in Versions(p, k)
    /\ nextGrid <= MaxGrid
    /\ call' = [call EXCEPT ![p] = [field |-> k, version |-> v, grid |-> nextGrid,
                               new |-> TRUE]]
    /\ nextGrid' = nextGrid + 1
    /\ pc' = [pc EXCEPT ![p] = "picked"]
    /\ UNCHANGED <<value, grid, nextRow, todo, highest, fired, removed, bare>>

\* wci.write(returnGid): a row for a grid that the caller knows of, from a read
\* of any time ago or from elsewhere; whether it is there is not asked.
WriteShared(p, k, v, g) ==
    /\ Sharing
    /\ pc[p] = "ready"
    /\ v \in Versions(p, k)
    /\ call' = [call EXCEPT ![p] = [field |-> k, version |-> v, grid |-> g,
                               new |-> FALSE]]
    /\ pc' = [pc EXCEPT ![p] = "picked"]
    /\ bare' = IF \E r \in Rows(p) : Seen(value, p, r).grid = g THEN bare
               ELSE bare \cup {g}
    /\ UNCHANGED <<value, grid, nextRow, nextGrid, todo, highest, fired, removed>>

\* Mutant: the update finds no row.
UpdateNothing(p) ==
    /\ pc[p] = "picked"
    /\ pc' = [pc EXCEPT ![p] = "update"]
    /\ UNCHANGED <<value, grid, nextRow, nextGrid, call, todo, highest, fired, removed, bare>>

\* UPDATE gridvalue SET maxdataversion: the rows of the field in the snapshot.
UpdateStart(p) ==
    /\ pc[p] = "picked"
    /\ todo' = [todo EXCEPT ![p] = RowsOf(p, call[p].field)]
    /\ pc' = [pc EXCEPT ![p] = "update"]
    /\ UNCHANGED <<value, grid, nextRow, nextGrid, call, highest, fired, removed, bare>>

\* Mutant: the next version instead of this one.
UpdateToNext(p, r) ==
    /\ pc[p] = "update"
    /\ r \in todo[p]
    /\ Free(value, p, r) /\ Seen(value, p, r) # NoValue
    /\ value' = Put(value, p, r, [Seen(value, p, r) EXCEPT !.max = call[p].version + 1])
    /\ todo' = [todo EXCEPT ![p] = @ \ {r}]
    /\ UNCHANGED <<grid, nextRow, nextGrid, pc, call, highest, fired, removed, bare>>

\* One of those rows, once its lock is free; it may be deleted by then.
UpdateRow(p, r) ==
    /\ pc[p] = "update"
    /\ r \in todo[p]
    /\ Free(value, p, r)
    /\ value' = IF Seen(value, p, r) = NoValue THEN value
                ELSE Put(value, p, r, [Seen(value, p, r) EXCEPT !.max = call[p].version])
    /\ todo' = [todo EXCEPT ![p] = @ \ {r}]
    /\ UNCHANGED <<grid, nextRow, nextGrid, pc, call, highest, fired, removed, bare>>

\* INSERT INTO gridvalue.  The unique index lets one row of a field have a
\* version: an uncommitted rival makes the insertion wait, a committed one
\* makes it fail (and then only ClientAbort is left).
Same(s, k, v) == s # NoValue /\ s.field = k /\ s.version = v

Clashes(p, k, v) ==
    \E r \in RowId :
        \/ Same(Seen(value, p, r), k, v)
        \/ ~Free(value, p, r) /\ (Same(value[r].now, k, v) \/ Same(value[r].next, k, v))

InsertValue(p) ==
    LET c == call[p] IN
    /\ pc[p] = "update"
    /\ todo[p] = {}
    /\ nextRow <= MaxRow
    /\ ~Clashes(p, c.field, c.version)
    /\ value' = Put(value, p, nextRow, [field |-> c.field, version |-> c.version,
                                        max |-> c.version, grid |-> c.grid])
    /\ nextRow' = nextRow + 1
    /\ pc' = [pc EXCEPT ![p] = "file"]
    /\ UNCHANGED <<grid, nextGrid, call, todo, highest, fired, removed, bare>>

\* write_file adds the row of a new grid; a shared grid is not looked at.
FinishWrite(p) ==
    /\ pc[p] = "file"
    /\ grid' = IF call[p].new THEN Put(grid, p, call[p].grid, "active") ELSE grid
    /\ call' = [call EXCEPT ![p] = NoCall]
    /\ pc' = [pc EXCEPT ![p] = "ready"]
    /\ UNCHANGED <<value, nextRow, nextGrid, todo, highest, fired, removed, bare>>

-----------------------------------------------------------------------------
(* wci.remove, and the trigger deleteObsoleteGrids *)

\* clean_dataversions() looks for the highest data version of all values.
Browse(p) ==
    /\ "low" \in Removal
    /\ pc[p] = "ready"
    /\ \E r \in Rows(p) :
           /\ \A s \in Rows(p) : Seen(value, p, s).version <= Seen(value, p, r).version
           /\ highest' = [highest EXCEPT ![p] = Seen(value, p, r).version]
    /\ pc' = [pc EXCEPT ![p] = "browsed"]
    /\ UNCHANGED <<value, grid, nextRow, nextGrid, call, todo, fired, removed, bare>>

\* What it removes: the data versions -2 .. -(highest + 1).  The loop is not
\* entered when the highest is 0, and NULL instead of a list means all.
Low(p) == {r \in Rows(p) :
             LET v == Seen(value, p, r) IN
             highest[p] = 0 \/ \E n \in 2 .. highest[p] + 1 : v.version = v.max + 1 - n}

\* DELETE FROM gridvalue WHERE valueid IN (SELECT ... FROM wci.read(...)).
RemoveStart(p, S) ==
    /\ \/ pc[p] = "ready" /\ "any" \in Removal /\ S # {} /\ S \subseteq Rows(p)
       \/ pc[p] = "browsed" /\ S = Low(p)
    /\ highest' = [highest EXCEPT ![p] = 0]
    /\ todo' = [todo EXCEPT ![p] = S]
    /\ pc' = [pc EXCEPT ![p] = "delete"]
    /\ UNCHANGED <<value, grid, nextRow, nextGrid, call, fired, removed, bare>>

\* One of those rows, unless another transaction has deleted it meanwhile.
DeleteRow(p, r) ==
    /\ pc[p] = "delete"
    /\ r \in todo[p]
    /\ Free(value, p, r)
    /\ todo' = [todo EXCEPT ![p] = @ \ {r}]
    /\ IF Seen(value, p, r) = NoValue
         THEN UNCHANGED <<value, fired>>
         ELSE /\ value' = Put(value, p, r, NoValue)
              /\ fired' = [fired EXCEPT ![p] = @ \cup {Seen(value, p, r).grid}]
    /\ UNCHANGED <<grid, nextRow, nextGrid, pc, call, highest, removed, bare>>

\* Mutants: a trigger that counts the rows as they were, and one that does not
\* count.
ReferencesBefore(p, g) ==
    {r \in RowId : value[r].now # NoValue /\ value[r].now.grid = g}
NoReferences(p, g) == {}

\* The rows that the trigger counts: those its own transaction sees.
References(p, g) == {r \in Rows(p) : Seen(value, p, r).grid = g}

\* AFTER DELETE ... FOR EACH ROW: with no reference left, drop_file(g).  The
\* update waits for another that drops g, and does nothing if g has no row.
Trigger(p, g) ==
    /\ pc[p] = "delete"
    /\ todo[p] = {}
    /\ g \in fired[p]
    /\ IF References(p, g) = {} /\ Seen(grid, p, g) # "none"
         THEN Free(grid, p, g) /\ grid' = Put(grid, p, g, "inactive")
         ELSE grid' = grid
    /\ fired' = [fired EXCEPT ![p] = @ \ {g}]
    /\ UNCHANGED <<value, nextRow, nextGrid, pc, call, todo, highest, removed, bare>>

RemoveEnd(p) ==
    /\ pc[p] = "delete"
    /\ todo[p] = {} /\ fired[p] = {}
    /\ pc' = [pc EXCEPT ![p] = "ready"]
    /\ UNCHANGED <<value, grid, nextRow, nextGrid, call, todo, highest, fired, removed, bare>>

-----------------------------------------------------------------------------
(* Transactions, and the vacuum of the grid store *)

End(p) ==
    /\ pc' = [pc EXCEPT ![p] = "ready"]
    /\ call' = [call EXCEPT ![p] = NoCall]
    /\ todo' = [todo EXCEPT ![p] = {}]
    /\ highest' = [highest EXCEPT ![p] = 0]
    /\ fired' = [fired EXCEPT ![p] = {}]
    /\ UNCHANGED <<nextRow, nextGrid>>

ClientCommit(p) ==
    /\ pc[p] = "ready"
    /\ Holds(value, p) \/ Holds(grid, p)
    /\ value' = Committed(value, p)
    /\ grid' = Committed(grid, p)
    /\ removed' = (removed \/ \E r \in RowId : value[r].by = p /\ value[r].next = NoValue)
    /\ UNCHANGED bare
    /\ End(p)

\* ROLLBACK, an error, a deadlock found by PostgreSQL, the backend's death.
ClientAbort(p) ==
    /\ pc[p] # "ready" \/ Holds(value, p) \/ Holds(grid, p)
    /\ value' = RolledBack(value, p)
    /\ grid' = RolledBack(grid, p)
    /\ UNCHANGED <<removed, bare>>
    /\ End(p)

\* vacuum_file_blob() forgets a dropped grid.
VacuumGrid(g) ==
    /\ grid[g] = Settled("inactive")
    /\ grid' = [grid EXCEPT ![g] = Settled("none")]
    /\ UNCHANGED <<value, nextRow, nextGrid, pc, call, todo, highest, fired, removed, bare>>

WriteStep(p) ==
    \/ \E k \in Field, v \in Version : WriteNew(p, k, v)
    \/ \E k \in Field, v \in Version, g \in Grid : WriteShared(p, k, v, g)
    \/ UpdateStart(p)
    \/ \E r \in RowId : UpdateRow(p, r)
    \/ InsertValue(p)
    \/ FinishWrite(p)

RemoveStep(p) ==
    \/ Browse(p)
    \/ \E S \in SUBSET RowId : RemoveStart(p, S)
    \/ \E r \in RowId : DeleteRow(p, r)
    \/ \E g \in Grid : Trigger(p, g)
    \/ RemoveEnd(p)

Next ==
    \/ \E p \in Writer : WriteStep(p)
    \/ \E p \in Remover : RemoveStep(p)
    \/ \E p \in Client : ClientCommit(p) \/ ClientAbort(p)
    \/ \E g \in Grid : VacuumGrid(g)

Spec == Init /\ [][Next]_vars

-----------------------------------------------------------------------------
(* Properties *)

\* The committed rows of field k.
Stored(k) == {r \in RowId : value[r].now # NoValue /\ value[r].now.field = k}

\* dataversion IN (maxdataversion + 1 - n): the rows that a reader of data
\* version -n is given.
Selected(k, n) == {r \in Stored(k) : value[r].now.version = value[r].now.max + 1 - n}

\* Every committed value that no open transaction is removing has its grid:
\* wci.read of a grid value cannot fail with 'No such file'.  Nothing can be
\* said of a grid that somebody named when no row referred to it any more.
NoDanglingValue ==
    \A r \in RowId : /\ value[r].now # NoValue /\ value[r].by = NoProc
                     /\ value[r].now.grid \notin bare
                     => grid[value[r].now.grid].now = "active"

\* Every committed value has its grid, whatever grids clients have named.
EveryValueHasGrid ==
    \A r \in RowId : value[r].now # NoValue /\ value[r].by = NoProc
                     => grid[value[r].now.grid].now = "active"

\* Every grid in the store that no open transaction is dropping has a value
\* that refers to it: deletion control leaves no grid that nothing can drop.
NoLeakedGrid ==
    \A g \in Grid : grid[g] = Settled("active")
                    => \E r \in RowId : value[r].now # NoValue /\ value[r].now.grid = g

\* As long as nothing is removed, data version -1 selects the value with the
\* highest data version, and no other (wci_system-design-specification, "Data
\* Versions").  Not so after a removal: a version chosen before is free again.
LatestIsHighest ==
    ~removed => \A k \in Field : Stored(k) # {} =>
        Selected(k, 1) = {r \in Stored(k) :
                            \A s \in Stored(k) : value[s].now.version <= value[r].now.version}

\* Cleaning by data versions removes no highest version ("only allow the latest
\* data version for each piece of data to live", debian_files/control).
LatestLives ==
    [][\A k \in Field : \A r \in Stored(k) : \E s \in Stored(k)' :
           value[r].now.version <= value'[s].now.version]_vars

\* A negative data version never selects two values of a field, even after
\* removals: the rows of a field agree on maxdataversion.
AtMostOneSelected ==
    \A k \in Field, n \in 1 .. MaxVersion + 1 : Cardinality(Selected(k, n)) <= 1
=============================================================================
