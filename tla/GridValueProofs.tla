--------------------------- MODULE GridValueProofs ---------------------------
(***************************************************************************)
(* Theorems about GridValue, for any number of clients, fields, rows and   *)
(* grids: its types; that data version -1 is the highest version until     *)
(* something is removed; and that values and grids stay in step.           *)
(***************************************************************************)
EXTENDS GridValue, FiniteSetTheorems, TLAPS

-----------------------------------------------------------------------------
(* The types, for every value of the constants *)

\* What the types leave open: a write that is under way knows what it writes.
Underway ==
    \A p \in Client : pc[p] \in {"picked", "update", "file"} => call[p] \in Call
Typed == TypeOK /\ Underway

\* The bounds of the model are numbers.
LEMMA Bounds == MaxRow \in Nat /\ MaxGrid \in Nat /\ MaxVersion \in Nat
BY GridConstants

\* The operators on tables, row by row.
LEMMA TableSteps ==
    ASSUME NEW Id, NEW State, NEW Proc, NEW t \in Table(Id, State, Proc), NEW p \in Proc
    PROVE  /\ DOMAIN t = Id
           /\ \A x \in Id : t[x].now \in State /\ t[x].next \in State
                            /\ t[x].by \in Proc \cup {NoProc} /\ Seen(t, p, x) \in State
           /\ Committed(t, p) \in Table(Id, State, Proc)
           /\ RolledBack(t, p) \in Table(Id, State, Proc)
           /\ \A x \in Id, s \in State : Put(t, p, x, s) \in Table(Id, State, Proc)
BY DEF Table, Put, Committed, RolledBack, Settled, Seen

LEMMA SettledRow ==
    ASSUME NEW s
    PROVE  Settled(s).now = s /\ Settled(s).by = NoProc /\ Settled(s).next = s
BY DEF Settled

\* The table of values after a change by p, row by row.
LEMMA PutRows ==
    ASSUME Typed, NEW p \in Client, NEW r \in RowId, NEW s
    PROVE  \A x \in RowId : Put(value, p, r, s)[x] =
              IF x = r THEN [now |-> value[r].now, by |-> p, next |-> s] ELSE value[x]
BY DEF Put, Typed, TypeOK, Table

LEMMA TypeStep ==
    ASSUME Typed, [Next]_vars PROVE Typed'
<1> USE GridConstants
<1>0. ASSUME NEW p \in Client, NEW r \in RowId, NEW s \in Value \cup {NoValue}
      PROVE  Put(value, p, r, s) \in Table(RowId, Value \cup {NoValue}, Client)
    BY TableSteps DEF Typed, TypeOK
<1>1. ASSUME NEW p \in Client, NEW k \in Field, NEW v \in Version, WriteNew(p, k, v)
      PROVE  Typed'
    <2>1. nextGrid \in Grid
        BY <1>1 DEF WriteNew, Typed, TypeOK, Grid
    <2> QED BY <1>1, <2>1 DEF WriteNew, Typed, TypeOK, Underway, Call, Grid
<1>2. ASSUME NEW p \in Client, NEW k \in Field, NEW v \in Version, NEW g \in Grid,
             WriteShared(p, k, v, g)
      PROVE  Typed'
    <2>1. /\ call' = [call EXCEPT ![p] = [field |-> k, version |-> v, grid |-> g, new |-> FALSE]]
          /\ pc' = [pc EXCEPT ![p] = "picked"]
          /\ UNCHANGED <<value, grid, nextRow, nextGrid, todo, highest, fired, removed>>
        BY <1>2 DEF WriteShared
    <2>2. bare' \subseteq Grid
        BY <1>2 DEF WriteShared, Typed, TypeOK
    <2>3. [field |-> k, version |-> v, grid |-> g, new |-> FALSE] \in Call
        BY DEF Call
    <2> DEFINE new == [field |-> k, version |-> v, grid |-> g, new |-> FALSE]
    <2> HIDE DEF new
    <2>4. new \in Call /\ call' = [call EXCEPT ![p] = new]
        BY <2>1, <2>3 DEF new
    <2>5. /\ call' \in [Client -> Call \cup {NoCall}]
          /\ \A q \in Client : call'[q] = IF q = p THEN new ELSE call[q]
        BY <2>4 DEF Typed, TypeOK
    <2>6. Underway'
        BY <2>1, <2>4, <2>5 DEF Typed, TypeOK, Underway
    <2> QED BY <2>1, <2>2, <2>5, <2>6 DEF Typed, TypeOK
<1>3. ASSUME NEW p \in Client, UpdateStart(p) PROVE Typed'
    BY <1>3 DEF UpdateStart, RowsOf, Rows, Typed, TypeOK, Underway
<1>4. ASSUME NEW p \in Client, NEW r \in RowId, UpdateRow(p, r) PROVE Typed'
    <2>1. Seen(value, p, r) \in Value \cup {NoValue} /\ call[p] \in Call
        BY <1>4, TableSteps DEF UpdateRow, Typed, TypeOK, Underway
    <2> DEFINE new == [Seen(value, p, r) EXCEPT !.max = call[p].version]
    <2>2. Seen(value, p, r) # NoValue => new \in Value
        BY <2>1 DEF Value, Call
    <2>3. value' = value \/ (Seen(value, p, r) # NoValue /\ value' = Put(value, p, r, new))
        BY <1>4 DEF UpdateRow
    <2> HIDE DEF new
    <2>4. value' \in Table(RowId, Value \cup {NoValue}, Client)
        <3>1. Seen(value, p, r) # NoValue
              => Put(value, p, r, new) \in Table(RowId, Value \cup {NoValue}, Client)
            BY <1>0, <2>2
        <3>2. value \in Table(RowId, Value \cup {NoValue}, Client)
            BY DEF Typed, TypeOK
        <3> QED BY <2>3, <3>1, <3>2
    <2> QED BY <1>4, <2>4 DEF UpdateRow, Typed, TypeOK, Underway
<1>5. ASSUME NEW p \in Client, InsertValue(p) PROVE Typed'
    <2>1. call[p] \in Call /\ nextRow \in RowId
        BY <1>5 DEF InsertValue, Typed, TypeOK, Underway, RowId
    <2>2. [field |-> call[p].field, version |-> call[p].version,
           max |-> call[p].version, grid |-> call[p].grid] \in Value
        BY <2>1 DEF Value, Call
    <2>3. value' \in Table(RowId, Value \cup {NoValue}, Client)
        BY <1>0, <1>5, <2>1, <2>2 DEF InsertValue
    <2> QED BY <1>5, <2>1, <2>3 DEF InsertValue, Typed, TypeOK, Underway, RowId
<1>6. ASSUME NEW p \in Client, FinishWrite(p) PROVE Typed'
    <2>1. call[p].grid \in Grid
        BY <1>6 DEF FinishWrite, Typed, Underway, Call
    <2>2. Put(grid, p, call[p].grid, "active") \in Table(Grid, GridState, Client)
        BY <2>1, TableSteps DEF Typed, TypeOK, GridState
    <2> QED BY <1>6, <2>2 DEF FinishWrite, Typed, TypeOK, Underway
<1>7. ASSUME NEW p \in Client, Browse(p) PROVE Typed'
    <2>1. PICK r \in Rows(p) : highest' = [highest EXCEPT ![p] = Seen(value, p, r).version]
        BY <1>7 DEF Browse
    <2>2. Seen(value, p, r).version \in Version
        BY <2>1, TableSteps DEF Rows, Typed, TypeOK, Value
    <2> QED BY <1>7, <2>1, <2>2 DEF Browse, Typed, TypeOK, Underway
<1>8. ASSUME NEW p \in Client, NEW S \in SUBSET RowId, RemoveStart(p, S) PROVE Typed'
    BY <1>8 DEF RemoveStart, Typed, TypeOK, Underway, Version
<1>9. ASSUME NEW p \in Client, NEW r \in RowId, DeleteRow(p, r) PROVE Typed'
    <2>1. Seen(value, p, r) # NoValue => Seen(value, p, r).grid \in Grid
        BY TableSteps DEF Typed, TypeOK, Value
    <2>2. value' = value \/ value' = Put(value, p, r, NoValue)
        BY <1>9 DEF DeleteRow
    <2>3. value' \in Table(RowId, Value \cup {NoValue}, Client)
        <3>1. Put(value, p, r, NoValue) \in Table(RowId, Value \cup {NoValue}, Client)
            BY <1>0
        <3>2. value \in Table(RowId, Value \cup {NoValue}, Client)
            BY DEF Typed, TypeOK
        <3> QED BY <2>2, <3>1, <3>2
    <2> QED BY <1>9, <2>1, <2>3 DEF DeleteRow, Typed, TypeOK, Underway
<1>10. ASSUME NEW p \in Client, NEW g \in Grid, Trigger(p, g) PROVE Typed'
    <2>1. Put(grid, p, g, "inactive") \in Table(Grid, GridState, Client)
        BY TableSteps DEF Typed, TypeOK, GridState
    <2> QED BY <1>10, <2>1 DEF Trigger, Typed, TypeOK, Underway
<1>11. ASSUME NEW p \in Client, RemoveEnd(p) PROVE Typed'
    BY <1>11 DEF RemoveEnd, Typed, TypeOK, Underway
<1>12. ASSUME NEW p \in Client, ClientCommit(p) \/ ClientAbort(p) PROVE Typed'
    <2>1. value' \in Table(RowId, Value \cup {NoValue}, Client)
        BY <1>12, TableSteps DEF ClientCommit, ClientAbort, Typed, TypeOK
    <2>2. grid' \in Table(Grid, GridState, Client)
        BY <1>12, TableSteps DEF ClientCommit, ClientAbort, Typed, TypeOK
    <2>3. removed' \in BOOLEAN
        BY <1>12 DEF ClientCommit, ClientAbort, Typed, TypeOK
    <2> QED BY <1>12, <2>1, <2>2, <2>3
            DEF ClientCommit, ClientAbort, End, Typed, TypeOK, Underway, Version
<1>13. ASSUME NEW g \in Grid, VacuumGrid(g) PROVE Typed'
    BY <1>13 DEF VacuumGrid, Settled, Table, GridState, Typed, TypeOK, Underway
<1>14. CASE UNCHANGED vars
    BY <1>14 DEF vars, Typed, TypeOK, Underway
<1> QED
    BY <1>1, <1>2, <1>3, <1>4, <1>5, <1>6, <1>7, <1>8, <1>9, <1>10, <1>11, <1>12, <1>13, <1>14
       DEF Next, WriteStep, RemoveStep, Client

LEMMA InitIsTyped ==
    ASSUME Init PROVE Typed
<1> USE GridConstants
<1>1. value \in Table(RowId, Value \cup {NoValue}, Client)
    BY DEF Init, Table, Settled
<1>2. grid \in Table(Grid, GridState, Client)
    BY DEF Init, Table, Settled, GridState
<1>3. 1 \in 1 .. MaxRow + 1 /\ 1 \in 1 .. MaxGrid + 1 /\ 0 \in Version
    BY Bounds DEF Version
<1> QED BY <1>1, <1>2, <1>3 DEF Init, Typed, TypeOK, Underway

\* No statement, wait or end of a transaction leaves the types of the tables and
\* of what the clients are doing (wciWriteInternals.in.sql, wciRemove.in.sql).
THEOREM TypeCorrect == Spec => []TypeOK
<1>1. Typed => TypeOK
    BY DEF Typed
<1> QED BY <1>1, InitIsTyped, TypeStep, PTL DEF Spec

-----------------------------------------------------------------------------
(* The rows and what transactions make of them *)

\* Two versions of a row, or two rows that the unique index keeps apart.
Alike(x, y) ==
    x # NoValue /\ y # NoValue /\ x.field = y.field /\ x.version = y.version

\* The table as committed, and as a transaction sees it.
Kept == [r \in RowId |-> value[r].now]
Shown(p) == [r \in RowId |-> Seen(value, p, r)]

\* The identifiers that have not been handed out.
Unused == \A r \in RowId : r >= nextRow => value[r] = Settled(NoValue)

\* A change gives a row another maxdataversion, or is its insertion or deletion.
SameRow ==
    \A r \in RowId :
        /\ value[r].now # NoValue /\ value[r].next # NoValue
           => Alike(value[r].now, value[r].next) /\ value[r].now.grid = value[r].next.grid
        /\ value[r].by = NoProc => value[r].now = value[r].next

\* The update of a write is about rows of its field; triggers belong to deletions.
Listed ==
    \A p \in Client :
        /\ pc[p] = "update" => \A r \in todo[p] :
              /\ r < nextRow
              /\ value[r].now # NoValue => value[r].now.field = call[p].field
              /\ value[r].next # NoValue => value[r].next.field = call[p].field
        /\ pc[p] # "delete" => fired[p] = {}

\* The unique index: among the rows that are committed, among those that one
\* transaction sees, and between two transactions that have not ended.
Apart(f) == \A r, s \in RowId : Alike(f[r], f[s]) => r = s
Unique ==
    /\ Apart(Kept)
    /\ \A p \in Client : Apart(Shown(p))
    /\ \A r, s \in RowId : value[r].by # NoProc /\ value[s].by # NoProc
                           /\ value[r].by # value[s].by => ~Alike(value[r].next, value[s].next)

RowInv == Typed /\ Unused /\ SameRow /\ Listed /\ Unique

\* p gives row r, which it sees, the state s: another maxdataversion, or none.
Alters(p, r, s) ==
    /\ Free(value, p, r)
    /\ Seen(value, p, r) # NoValue
    /\ s \in Value \cup {NoValue}
    /\ s # NoValue => Alike(s, Seen(value, p, r)) /\ s.grid = Seen(value, p, r).grid
    /\ value' = Put(value, p, r, s)
    /\ nextRow' = nextRow

\* p adds the row r in the state s.
Inserts(p, r, s) ==
    /\ r = nextRow
    /\ nextRow' = nextRow + 1
    /\ s \in Value
    /\ ~Clashes(p, s.field, s.version)
    /\ value' = Put(value, p, r, s)

\* The end of the transaction of p, as far as values are concerned.
Ends(p) == value' \in {Committed(value, p), RolledBack(value, p)} /\ End(p)

\* What is seen of a row whose two states are alike.
LEMMA UpdateAlters ==
    ASSUME Typed, NEW p \in Client, NEW r \in RowId, UpdateRow(p, r)
    PROVE  \/ value' = value /\ Seen(value, p, r) = NoValue
           \/ \E s \in Value : Alters(p, r, s) /\ s.max = call[p].version
<1> DEFINE new == [Seen(value, p, r) EXCEPT !.max = call[p].version]
<1>1. CASE Seen(value, p, r) = NoValue
    BY <1>1 DEF UpdateRow
<1>2. CASE Seen(value, p, r) # NoValue
    <2>1. Seen(value, p, r) \in Value /\ call[p] \in Call
        BY <1>2, TableSteps DEF UpdateRow, Typed, TypeOK, Underway
    <2>2. /\ new \in Value /\ new.max = call[p].version
          /\ new.field = Seen(value, p, r).field /\ new.version = Seen(value, p, r).version
          /\ new.grid = Seen(value, p, r).grid
        BY <2>1 DEF Value, Call
    <2>3. /\ Free(value, p, r) /\ value' = Put(value, p, r, new) /\ nextRow' = nextRow
        BY <1>2 DEF UpdateRow
    <2> HIDE DEF new
    <2>4. new # NoValue
        BY <2>2, GridConstants
    <2> QED BY <1>2, <2>2, <2>3, <2>4 DEF Alters, Alike
<1> QED BY <1>1, <1>2

LEMMA DeleteAlters ==
    ASSUME NEW p \in Client, NEW r \in RowId, DeleteRow(p, r)
    PROVE  \/ UNCHANGED <<value, fired>>
           \/ /\ Alters(p, r, NoValue)
              /\ fired' = [fired EXCEPT ![p] = @ \cup {Seen(value, p, r).grid}]
BY DEF DeleteRow, Alters

LEMMA InsertInserts ==
    ASSUME Typed, NEW p \in Client, InsertValue(p)
    PROVE  \E s \in Value : /\ Inserts(p, nextRow, s) /\ nextRow \in RowId
                            /\ s.field = call[p].field /\ s.version = call[p].version
                            /\ s.max = call[p].version /\ s.grid = call[p].grid
<1> DEFINE new == [field |-> call[p].field, version |-> call[p].version,
                   max |-> call[p].version, grid |-> call[p].grid]
<1>1. call[p] \in Call /\ nextRow \in RowId
    BY Bounds DEF InsertValue, Typed, TypeOK, Underway, RowId
<1>2. new \in Value /\ new.field = call[p].field /\ new.version = call[p].version
      /\ new.max = call[p].version /\ new.grid = call[p].grid
    BY <1>1 DEF Value, Call
<1>3. /\ ~Clashes(p, call[p].field, call[p].version) /\ value' = Put(value, p, nextRow, new)
      /\ nextRow' = nextRow + 1
    BY DEF InsertValue
<1> HIDE DEF new
<1> QED BY <1>1, <1>2, <1>3 DEF Inserts

\* Every step but these leaves the table of values alone, and no client moves
\* between statements but the one that takes the step.
LEMMA QuietSteps ==
    ASSUME Typed, [Next]_vars, \A p \in Client : ~InsertValue(p) /\ ~ClientCommit(p) /\ ~ClientAbort(p),
           \A p \in Client, r \in RowId : ~UpdateRow(p, r) /\ ~DeleteRow(p, r)
    PROVE  UNCHANGED <<value, nextRow, removed>>
BY DEF Next, WriteStep, RemoveStep, Client, WriteNew, WriteShared, UpdateStart, FinishWrite,
       Browse, RemoveStart, Trigger, RemoveEnd, VacuumGrid, vars

\* A row whose state is not there is like no other, and likeness is transitive.
LEMMA AlikeFacts ==
    /\ \A x, y : Alike(x, y) => Alike(y, x)
    /\ \A x, y, z : Alike(x, y) /\ Alike(y, z) => Alike(x, z)
BY DEF Alike

\* What a change of row r by p lets others see: nothing new.
LEMMA OthersSee ==
    ASSUME Typed, NEW p \in Client, NEW r \in RowId, NEW s, Free(value, p, r),
           value' = Put(value, p, r, s)
    PROVE  /\ \A x \in RowId : value'[x].now = value[x].now
           /\ \A x \in RowId : x # r => value'[x] = value[x]
           /\ value'[r].by = p /\ value'[r].next = s
           /\ \A q \in Client, x \in RowId : q # p => Seen(value', q, x) = Seen(value, q, x)
           /\ \A x \in RowId : Seen(value', p, x) = IF x = r THEN s ELSE Seen(value, p, x)
           /\ \A q \in Client : q # p => value[r].by # q
<1>1. \A x \in RowId : value'[x] = IF x = r THEN [now |-> value[r].now, by |-> p, next |-> s]
                                    ELSE value[x]
    BY PutRows
<1>2. /\ value'[r].now = value[r].now /\ value'[r].by = p /\ value'[r].next = s
      /\ \A x \in RowId : x # r => value'[x] = value[x]
    BY <1>1
<1>3. \A x \in RowId : value'[x].now = value[x].now
    BY <1>2
<1>4. \A q \in Client : q # p => value[r].by # q
    BY GridConstants DEF Free
<1>5. \A q \in Client, x \in RowId : q # p => Seen(value', q, x) = Seen(value, q, x)
    BY <1>2, <1>4 DEF Seen
<1>6. \A x \in RowId : Seen(value', p, x) = IF x = r THEN s ELSE Seen(value, p, x)
    BY <1>2 DEF Seen
<1> QED BY <1>2, <1>3, <1>4, <1>5, <1>6

\* A change keeps rows apart if its new state is unlike every row that p sees, and
\* unlike what others are about to commit.
LEMMA UniquePut ==
    ASSUME RowInv, NEW p \in Client, NEW r \in RowId, NEW s, Free(value, p, r),
           value' = Put(value, p, r, s),
           \A x \in RowId : x # r => ~Alike(s, Seen(value, p, x)),
           \A x \in RowId : x # r /\ value[x].by \notin {p, NoProc} => ~Alike(s, value[x].next)
    PROVE  Unique'
<1> USE DEF RowInv
<1>1. Apart(Kept)'
    BY OthersSee DEF Unique, Apart, Kept
<1>2. ASSUME NEW q \in Client PROVE Apart(Shown(q))'
    <2>1. CASE q = p
        BY <2>1, OthersSee, AlikeFacts DEF Unique, Apart, Shown
    <2>2. CASE q # p
        BY <2>2, OthersSee DEF Unique, Apart, Shown
    <2> QED BY <2>1, <2>2
<1>3. ASSUME NEW x \in RowId, NEW y \in RowId, value'[x].by # NoProc, value'[y].by # NoProc,
             value'[x].by # value'[y].by
      PROVE  ~Alike(value'[x].next, value'[y].next)
    <2>1. CASE x = r
        BY <1>3, <2>1, OthersSee
    <2>2. CASE y = r
        BY <1>3, <2>2, OthersSee, AlikeFacts
    <2>3. CASE x # r /\ y # r
        BY <1>3, <2>3, OthersSee DEF Unique
    <2> QED BY <2>1, <2>2, <2>3
<1> QED BY <1>1, <1>2, <1>3 DEF Unique

LEMMA AltersKeepsRows ==
    ASSUME RowInv, NEW p \in Client, NEW r \in RowId, NEW s, Alters(p, r, s)
    PROVE  Unused' /\ SameRow' /\ Unique'
<1> USE DEF RowInv
<1>0. Free(value, p, r) /\ value' = Put(value, p, r, s) /\ nextRow' = nextRow
    BY DEF Alters
<1>1. Unused'
    BY <1>0, OthersSee, GridConstants DEF Alters, Unused, Settled, Seen
<1>2. SameRow'
    <2>1. s # NoValue /\ value[r].now # NoValue => Alike(value[r].now, s) /\ value[r].now.grid = s.grid
        BY AlikeFacts DEF Alters, SameRow, Seen, Alike
    <2> QED BY <1>0, <2>1, OthersSee, GridConstants DEF SameRow
<1>3. ASSUME NEW x \in RowId, x # r PROVE ~Alike(s, Seen(value, p, x))
    BY <1>3, AlikeFacts DEF Alters, Unique, Apart, Shown, Alike
<1>4. ASSUME NEW x \in RowId, x # r, value[x].by \notin {p, NoProc} PROVE ~Alike(s, value[x].next)
    <2> SUFFICES ASSUME Alike(s, value[x].next) PROVE FALSE
        OBVIOUS
    <2>1. Alike(Seen(value, p, r), value[x].next)
        BY AlikeFacts DEF Alters, Alike
    <2>2. CASE value[r].by = p
        BY <1>4, <2>1, <2>2, GridConstants DEF Unique, Seen
    <2>3. CASE value[r].by # p
        <3>0. value \in Table(RowId, Value \cup {NoValue}, Client)
            BY DEF Typed, TypeOK
        <3>1. PICK q \in Client : q = value[x].by
            <4>1. value[x].by \in Client \cup {NoProc}
                BY <3>0, TableSteps
            <4> QED BY <1>4, <4>1
        <3>2. value[r].by = NoProc /\ q # NoProc
            BY <1>0, <2>3, <3>1, GridConstants DEF Free
        <3>3. Seen(value, q, r) = Seen(value, p, r) /\ Seen(value, q, x) = value[x].next
            BY <2>3, <3>1, <3>2 DEF Seen
        <3> QED BY <1>4, <2>1, <3>3 DEF Unique, Apart, Shown
    <2> QED BY <2>2, <2>3
<1> QED BY <1>0, <1>1, <1>2, <1>3, <1>4, UniquePut

LEMMA InsertsKeepsRows ==
    ASSUME RowInv, NEW p \in Client, NEW r \in RowId, NEW s, Inserts(p, r, s)
    PROVE  Unused' /\ SameRow' /\ Unique'
<1> USE DEF RowInv
<1>0. value[r] = Settled(NoValue) /\ Free(value, p, r)
    BY DEF Inserts, Unused, Free, Settled, RowId
<1>1. value' = Put(value, p, r, s) /\ r = nextRow /\ nextRow' = nextRow + 1
    BY DEF Inserts
<1>2. Unused'
    BY <1>0, <1>1, OthersSee, Bounds DEF Unused, RowId, Typed, TypeOK
<1>3. SameRow'
    BY <1>0, <1>1, OthersSee, GridConstants DEF SameRow, Settled
<1>4. ASSUME NEW x \in RowId, x # r PROVE ~Alike(s, Seen(value, p, x))
    BY DEF Inserts, Clashes, Same, Alike
<1>5. ASSUME NEW x \in RowId, x # r, value[x].by \notin {p, NoProc} PROVE ~Alike(s, value[x].next)
    BY <1>5 DEF Inserts, Clashes, Same, Alike, Free
<1> QED BY <1>0, <1>1, <1>2, <1>3, <1>4, <1>5, UniquePut

\* The rows after the end of the transaction of p.
LEMMA EndRows ==
    ASSUME Typed, NEW p \in Client
    PROVE  /\ \A x \in RowId : Committed(value, p)[x] =
                 IF value[x].by = p THEN Settled(value[x].next) ELSE value[x]
           /\ \A x \in RowId : RolledBack(value, p)[x] =
                 IF value[x].by = p THEN Settled(value[x].now) ELSE value[x]
BY DEF Committed, RolledBack, Typed, TypeOK, Table

LEMMA EndsKeepsRows ==
    ASSUME RowInv, NEW p \in Client, Ends(p)
    PROVE  Unused' /\ SameRow' /\ Unique'
<1> USE DEF RowInv
<1> DEFINE c == value' = Committed(value, p)
<1>0. \A x \in RowId : /\ value[x].by # p => value'[x] = value[x]
                       /\ value[x].by = p /\ c => value'[x] = Settled(value[x].next)
                       /\ value[x].by = p /\ ~c => value'[x] = Settled(value[x].now)
    <2>1. CASE value' = Committed(value, p)
        BY <2>1, EndRows
    <2>2. CASE value' # Committed(value, p) /\ value' = RolledBack(value, p)
        BY <2>2, EndRows
    <2> QED BY <2>1, <2>2 DEF Ends
<1>1. nextRow' = nextRow /\ p # NoProc
    BY GridConstants DEF Ends, End
<1>2. Unused'
    BY <1>0, <1>1 DEF Unused, Settled
<1>3. \A x \in RowId : value[x].by = p =>
         /\ value'[x].by = NoProc /\ value'[x].next = value'[x].now
         /\ c => value'[x].now = value[x].next
         /\ ~c => value'[x].now = value[x].now
    BY <1>0, SettledRow
<1>4. \A x \in RowId : value[x].by # p => value'[x] = value[x]
    BY <1>0
<1>5. SameRow'
    <2> SUFFICES ASSUME NEW x \in RowId
                 PROVE  /\ value'[x].now # NoValue /\ value'[x].next # NoValue
                           => /\ Alike(value'[x].now, value'[x].next)
                              /\ value'[x].now.grid = value'[x].next.grid
                        /\ value'[x].by = NoProc => value'[x].now = value'[x].next
        BY DEF SameRow
    <2>1. CASE value[x].by = p
        BY <1>3, <2>1 DEF Alike
    <2>2. CASE value[x].by # p
        BY <1>4, <2>2 DEF SameRow
    <2> QED BY <2>1, <2>2
<1> DEFINE seen(q, x) == IF value[x].by = q \/ (c /\ value[x].by = p) THEN value[x].next
                         ELSE value[x].now
<1>6. \A q \in Client, x \in RowId : q # p => Seen(value', q, x) = seen(q, x)
    BY <1>1, <1>3, <1>4, GridConstants DEF Seen
<1>7. /\ c => \A x \in RowId : value'[x].now = Seen(value, p, x)
      /\ ~c => \A x \in RowId : value'[x].now = value[x].now
    BY <1>3, <1>4 DEF Seen
<1>8. Apart(Kept)'
    BY <1>7 DEF Unique, Apart, Kept, Shown
<1>9. ASSUME NEW q \in Client PROVE Apart(Shown(q))'
    <2>1. CASE q = p
        <3>1. \A x \in RowId : Seen(value', p, x) = value'[x].now
            BY <1>1, <1>3, <1>4 DEF Seen
        <3> QED BY <2>1, <3>1, <1>8 DEF Apart, Kept, Shown
    <2>2. CASE q # p
        <3> SUFFICES ASSUME NEW x \in RowId, NEW y \in RowId, Alike(seen(q, x), seen(q, y))
                     PROVE  x = y
            BY <1>6, <2>2 DEF Apart, Shown
        <3>1. CASE value[x].by = q /\ value[y].by = p /\ c
            BY <2>2, <3>1, GridConstants DEF Unique
        <3>2. CASE value[y].by = q /\ value[x].by = p /\ c
            BY <2>2, <3>2, GridConstants, AlikeFacts DEF Unique
        <3>3. CASE ~c \/ (value[x].by # p /\ value[y].by # p)
            BY <3>3 DEF Unique, Apart, Shown, Seen
        <3>4. CASE c /\ value[x].by # q /\ value[y].by # q
            BY <3>4 DEF Unique, Apart, Shown, Seen
        <3> QED BY <2>2, <3>1, <3>2, <3>3, <3>4
    <2> QED BY <2>1, <2>2
<1>10. ASSUME NEW x \in RowId, NEW y \in RowId, value'[x].by # NoProc, value'[y].by # NoProc,
             value'[x].by # value'[y].by
      PROVE  ~Alike(value'[x].next, value'[y].next)
    BY <1>3, <1>4, <1>10 DEF Unique
<1> QED BY <1>2, <1>5, <1>8, <1>9, <1>10 DEF Unique

\* The lists of rows to update stay right while no client begins an update, and rows
\* keep their fields.
LEMMA ListedKeeps ==
    ASSUME RowInv, nextRow' \in {nextRow, nextRow + 1},
           \A x \in RowId : x < nextRow =>
               /\ value'[x].now \in {value[x].now, value[x].next, NoValue}
               /\ value'[x].next # NoValue =>
                     \/ value'[x].next \in {value[x].now, value[x].next}
                     \/ \E p \in Client : Alike(value'[x].next, Seen(value, p, x)),
           \A q \in Client : pc'[q] = "update" =>
               pc[q] = "update" /\ call'[q] = call[q] /\ todo'[q] \subseteq todo[q],
           \A q \in Client : pc'[q] # "delete" =>
               fired'[q] = {} \/ (pc[q] # "delete" /\ fired'[q] = fired[q])
    PROVE  Listed'
<1> USE DEF RowInv
<1>1. ASSUME NEW q \in Client, pc'[q] = "update", NEW x \in todo'[q]
      PROVE  /\ x < nextRow'
             /\ value'[x].now # NoValue => value'[x].now.field = call'[q].field
             /\ value'[x].next # NoValue => value'[x].next.field = call'[q].field
    <2>1. pc[q] = "update" /\ call'[q] = call[q] /\ x \in todo[q] /\ x \in RowId
        BY <1>1 DEF Typed, TypeOK
    <2>2. /\ x < nextRow
          /\ value[x].now # NoValue => value[x].now.field = call[q].field
          /\ value[x].next # NoValue => value[x].next.field = call[q].field
        BY <2>1 DEF Listed
    <2>3. x < nextRow'
        BY <2>2, <2>1, Bounds DEF RowId, Typed, TypeOK
    <2>4. value'[x].now # NoValue => value'[x].now.field = call'[q].field
        BY <2>1, <2>2
    <2>5. value'[x].next # NoValue => value'[x].next.field = call'[q].field
        BY <2>1, <2>2 DEF Alike, Seen
    <2> QED BY <2>3, <2>4, <2>5
<1>2. ASSUME NEW q \in Client, pc'[q] # "delete" PROVE fired'[q] = {}
    BY <1>2 DEF Listed
<1> QED BY <1>1, <1>2 DEF Listed

LEMMA RowStep ==
    ASSUME RowInv, [Next]_vars PROVE RowInv'
<1> USE DEF RowInv
<1>0. Typed'
    BY TypeStep
<1>1. ASSUME NEW p \in Client, NEW r \in RowId, UpdateRow(p, r) PROVE RowInv'
    <2>0. /\ nextRow' = nextRow
          /\ \A q \in Client : pc'[q] = pc[q] /\ call'[q] = call[q] /\ todo'[q] \subseteq todo[q]
          /\ fired' = fired
        BY <1>1 DEF UpdateRow, Typed, TypeOK
    <2>1. CASE value' = value
        <3>1. Unused' /\ SameRow' /\ Unique'
            BY <2>0, <2>1 DEF Unused, SameRow, Unique, Apart, Kept, Shown
        <3> QED BY <1>0, <2>0, <2>1, <3>1, ListedKeeps
    <2>2. ASSUME NEW s, Alters(p, r, s) PROVE RowInv'
        <3>1. Unused' /\ SameRow' /\ Unique'
            BY <2>2, AltersKeepsRows
        <3>2. \A x \in RowId : x # r => value'[x] = value[x]
            BY <2>2, OthersSee DEF Alters
        <3>3. value'[r].now = value[r].now /\ value'[r].next = s
            BY <2>2, OthersSee DEF Alters
        <3>4. s # NoValue => Alike(s, Seen(value, p, r))
            BY <2>2 DEF Alters
        <3> QED BY <1>0, <2>0, <3>1, <3>2, <3>3, <3>4, ListedKeeps
    <2> QED BY <1>1, <2>1, <2>2, UpdateAlters
<1>2. ASSUME NEW p \in Client, NEW r \in RowId, DeleteRow(p, r) PROVE RowInv'
    <2>0. /\ nextRow' = nextRow /\ pc' = pc /\ call' = call /\ pc[p] = "delete"
          /\ \A q \in Client : todo'[q] \subseteq todo[q]
          /\ \A q \in Client : q # p => fired'[q] = fired[q]
        BY <1>2 DEF DeleteRow, Typed, TypeOK
    <2>1. CASE value' = value
        <3>1. Unused' /\ SameRow' /\ Unique'
            BY <2>0, <2>1 DEF Unused, SameRow, Unique, Apart, Kept, Shown
        <3> QED BY <1>0, <2>0, <2>1, <3>1, ListedKeeps
    <2>2. CASE Alters(p, r, NoValue)
        <3>1. Unused' /\ SameRow' /\ Unique'
            BY <2>2, AltersKeepsRows
        <3>2. \A x \in RowId : x # r => value'[x] = value[x]
            BY <2>2, OthersSee DEF Alters
        <3>3. value'[r].now = value[r].now /\ value'[r].next = NoValue
            BY <2>2, OthersSee DEF Alters
        <3> QED BY <1>0, <2>0, <3>1, <3>2, <3>3, ListedKeeps
    <2> QED BY <1>2, <2>1, <2>2, DeleteAlters
<1>3. ASSUME NEW p \in Client, InsertValue(p) PROVE RowInv'
    <2>1. PICK s \in Value : Inserts(p, nextRow, s) /\ nextRow \in RowId
        BY <1>3, InsertInserts
    <2>2. Unused' /\ SameRow' /\ Unique'
        BY <2>1, InsertsKeepsRows
    <2>3. \A x \in RowId : x # nextRow => value'[x] = value[x]
        <3>1. value' = Put(value, p, nextRow, s) /\ nextRow \in RowId /\ Typed
            BY <2>1 DEF Inserts
        <3>2. \A x \in RowId : Put(value, p, nextRow, s)[x] =
                 IF x = nextRow THEN [now |-> value[nextRow].now, by |-> p, next |-> s] ELSE value[x]
            BY <3>1, PutRows
        <3> QED BY <3>1, <3>2
    <2>4. \A x \in RowId : x < nextRow => value'[x] = value[x]
        BY <2>1, <2>3 DEF RowId
    <2>5. /\ \A q \in Client : pc'[q] \in {"update", "delete"} => pc'[q] = pc[q]
          /\ \A q \in Client : pc'[q] # "delete" => pc[q] # "delete"
          /\ UNCHANGED <<call, todo, fired>> /\ nextRow' = nextRow + 1
        BY <1>3 DEF InsertValue, Typed, TypeOK
    <2> QED BY <1>0, <2>2, <2>4, <2>5, ListedKeeps
<1>4. ASSUME NEW p \in Client, ClientCommit(p) \/ ClientAbort(p) PROVE RowInv'
    <2>1. Ends(p)
        BY <1>4 DEF ClientCommit, ClientAbort, Ends
    <2>2. Unused' /\ SameRow' /\ Unique'
        BY <2>1, EndsKeepsRows
    <2>3. \A x \in RowId : value'[x].now \in {value[x].now, value[x].next}
                           /\ value'[x].next \in {value[x].now, value[x].next}
        <3>1. CASE value' = Committed(value, p)
            BY <3>1, EndRows, SettledRow
        <3>2. CASE value' = RolledBack(value, p)
            BY <3>2, EndRows, SettledRow
        <3> QED BY <2>1, <3>1, <3>2 DEF Ends
    <2>4. /\ nextRow' = nextRow /\ pc'[p] = "ready" /\ fired'[p] = {}
          /\ \A q \in Client : q # p => pc'[q] = pc[q] /\ call'[q] = call[q]
                                        /\ todo'[q] = todo[q] /\ fired'[q] = fired[q]
        BY <2>1 DEF Ends, End, Typed, TypeOK
    <2>5. \A q \in Client : pc'[q] = "update" =>
              pc[q] = "update" /\ call'[q] = call[q] /\ todo'[q] \subseteq todo[q]
        BY <2>4
    <2>6. \A q \in Client : pc'[q] # "delete" =>
              fired'[q] = {} \/ (pc[q] # "delete" /\ fired'[q] = fired[q])
        BY <2>4
    <2> QED BY <1>0, <2>2, <2>3, <2>4, <2>5, <2>6, ListedKeeps
<1>5. ASSUME \A p \in Client : ~InsertValue(p) /\ ~ClientCommit(p) /\ ~ClientAbort(p),
             \A p \in Client, r \in RowId : ~UpdateRow(p, r) /\ ~DeleteRow(p, r)
      PROVE  RowInv'
    <2>1. UNCHANGED <<value, nextRow>>
        BY <1>5, QuietSteps
    <2>2. Unused' /\ SameRow' /\ Unique'
        BY <2>1 DEF Unused, SameRow, Unique, Apart, Kept, Shown
    <2>3. ASSUME NEW p \in Client, UpdateStart(p) PROVE Listed'
        <3>1. \A x \in RowsOf(p, call[p].field) :
                 /\ x \in RowId /\ x < nextRow
                 /\ value[x].now # NoValue => value[x].now.field = call[p].field
                 /\ value[x].next # NoValue => value[x].next.field = call[p].field
            <4> SUFFICES ASSUME NEW x \in RowId, Seen(value, p, x) # NoValue,
                                Seen(value, p, x).field = call[p].field
                         PROVE  /\ x < nextRow
                                /\ value[x].now # NoValue => value[x].now.field = call[p].field
                                /\ value[x].next # NoValue => value[x].next.field = call[p].field
                BY DEF RowsOf, Rows
            <4>1. x < nextRow
                BY SettledRow, Bounds DEF Unused, Seen, RowId, Typed, TypeOK
            <4> QED BY <4>1 DEF Seen, SameRow, Alike
        <3>2. /\ pc'[p] = "update" /\ todo'[p] = RowsOf(p, call[p].field) /\ pc[p] = "picked"
              /\ UNCHANGED <<call, fired>>
              /\ \A q \in Client : q # p => pc'[q] = pc[q] /\ todo'[q] = todo[q]
            BY <2>3 DEF UpdateStart, Typed, TypeOK
        <3> QED BY <2>1, <3>1, <3>2 DEF Listed
    <2>4. ASSUME \A p \in Client : ~UpdateStart(p)
          PROVE  /\ \A q \in Client : pc'[q] = "update" =>
                       pc[q] = "update" /\ call'[q] = call[q] /\ todo'[q] \subseteq todo[q]
                 /\ \A q \in Client : pc'[q] # "delete" =>
                       fired'[q] = {} \/ (pc[q] # "delete" /\ fired'[q] = fired[q])
        <3>1. ASSUME NEW p \in Client,
                     (\E k \in Field, v \in Version : WriteNew(p, k, v))
                     \/ (\E k \in Field, v \in Version, g \in Grid : WriteShared(p, k, v, g))
                     \/ FinishWrite(p) \/ Browse(p)
              PROVE  /\ \A q \in Client : pc'[q] = "update" =>
                           pc[q] = "update" /\ call'[q] = call[q] /\ todo'[q] \subseteq todo[q]
                     /\ \A q \in Client : pc'[q] # "delete" =>
                           fired'[q] = {} \/ (pc[q] # "delete" /\ fired'[q] = fired[q])
            BY <3>1 DEF WriteNew, WriteShared, FinishWrite, Browse, Typed, TypeOK
        <3>2. ASSUME NEW p \in Client,
                     (\E S \in SUBSET RowId : RemoveStart(p, S))
                     \/ (\E g \in Grid : Trigger(p, g)) \/ RemoveEnd(p)
              PROVE  /\ \A q \in Client : pc'[q] = "update" =>
                           pc[q] = "update" /\ call'[q] = call[q] /\ todo'[q] \subseteq todo[q]
                     /\ \A q \in Client : pc'[q] # "delete" =>
                           fired'[q] = {} \/ (pc[q] # "delete" /\ fired'[q] = fired[q])
            BY <3>2 DEF RemoveStart, Trigger, RemoveEnd, Typed, TypeOK
        <3>3. CASE (\E g \in Grid : VacuumGrid(g)) \/ UNCHANGED vars
            BY <3>3 DEF VacuumGrid, vars, Listed
        <3> QED BY <1>5, <2>4, <3>1, <3>2, <3>3 DEF Next, WriteStep, RemoveStep, Client
    <2>5. ASSUME \A p \in Client : ~UpdateStart(p) PROVE Listed'
        BY <2>1, <2>4, <2>5, ListedKeeps
    <2> QED BY <1>0, <2>2, <2>3, <2>5
<1> QED BY <1>1, <1>2, <1>3, <1>4, <1>5

LEMMA InitRows ==
    ASSUME Init PROVE RowInv
<1>1. \A r \in RowId : value[r].now = NoValue /\ value[r].next = NoValue /\ value[r].by = NoProc
    BY DEF Init, Settled
<1>2. \A r \in RowId : value[r] = Settled(NoValue)
    BY DEF Init
<1>3. Listed
    BY DEF Init, Listed
<1> QED BY <1>1, <1>2, <1>3, InitIsTyped
        DEF RowInv, Unused, SameRow, Unique, Apart, Kept, Shown, Seen, Alike

-----------------------------------------------------------------------------
(* Data version -1 is the highest version                                    *)

\* The rows of field k in a table f, and the versions that it has.
Of(f, k) == {r \in RowId : f[r] # NoValue /\ f[r].field = k}
Has(f, k, v) == \E r \in Of(f, k) : f[r].version = v

\* No version is left out below another, and all rows name the highest.
Closed(f, k) == \A r \in Of(f, k), w \in Version : w < f[r].version => Has(f, k, w)
Latest(f, k) == \A r \in Of(f, k) :
    /\ \A s \in Of(f, k) : f[s].version <= f[r].max
    /\ Has(f, k, f[r].max)

\* What the open transaction of p has made of field k.
Clean(p) == \A r \in RowId : value[r].by = p => value[r].next # NoValue
Adds(p, k) == \E r \in RowId : value[r].by = p /\ value[r].now = NoValue
                               /\ value[r].next # NoValue /\ value[r].next.field = k
AllMine(p, k) == \A r \in Of(Kept, k) : value[r].by = p
Changes(p, k) == \E r \in Of(Shown(p), k) : value[r].by = p
Writing(p, k) == pc[p] = "update" /\ call[p].field = k

\* The version v that p has chosen follows the versions that p sees, unless another
\* transaction has committed it since.
NextOne(p, k, v) ==
    /\ v = 0 \/ Has(Shown(p), k, v - 1)
    /\ Has(Kept, k, v) \/ \A r \in Of(Shown(p), k) : Seen(value, p, r).version < v

\* The rows that p sees are still to be updated, or name v already.
Updated(p, k, v) ==
    Has(Kept, k, v) \/ \A r \in Of(Shown(p), k) :
        r \in todo[p] \/ (value[r].by = p /\ value[r].next.max = v)

\* A transaction that removes nothing either adds to k, and then holds all of its
\* rows, or leaves it alone but for an update that is under way.
Progress(p, k) == Clean(p) =>
    /\ Adds(p, k) => /\ AllMine(p, k) /\ Closed(Shown(p), k)
                     /\ ~Writing(p, k) => Latest(Shown(p), k)
    /\ Changes(p, k) => Adds(p, k) \/ Writing(p, k)
    /\ pc[p] \in {"picked", "update"} /\ call[p].field = k => NextOne(p, k, call[p].version)
    /\ Writing(p, k) => Updated(p, k, call[p].version)

LatestInv ==
    ~removed => \A k \in Field :
        /\ Closed(Kept, k) /\ Latest(Kept, k)
        /\ \A p \in Client : Progress(p, k)

\* Tables with the same versions of a field, and with the same rows of it.
LEMMA SameVersionsFacts ==
    ASSUME NEW f, NEW g, NEW k, Of(f, k) = Of(g, k),
           \A r \in Of(f, k) : f[r].version = g[r].version
    PROVE  /\ \A v : Has(f, k, v) <=> Has(g, k, v)
           /\ Closed(f, k) <=> Closed(g, k)
           /\ (\A r \in Of(f, k) : f[r].max = g[r].max) => (Latest(f, k) <=> Latest(g, k))
<1>1. \A v : Has(f, k, v) <=> Has(g, k, v)
    BY DEF Has
<1>2. Closed(f, k) <=> Closed(g, k)
    BY <1>1 DEF Closed
<1>3. ASSUME \A r \in Of(f, k) : f[r].max = g[r].max PROVE Latest(f, k) <=> Latest(g, k)
    BY <1>1, <1>3 DEF Latest
<1> QED BY <1>1, <1>2, <1>3

\* The tables of a state, row by row.
LEMMA KeptAndShown ==
    /\ \A r \in RowId : Kept[r] = value[r].now
    /\ \A p \in Client, r \in RowId : Shown(p)[r] = Seen(value, p, r)
BY DEF Kept, Shown

LEMMA VersionsAreNumbers ==
    ASSUME Typed, NEW k
    PROVE  /\ \A r \in Of(Kept, k) : Kept[r].version \in Nat /\ Kept[r].version \in Version
           /\ \A p \in Client : \A r \in Of(Shown(p), k) :
                 Shown(p)[r].version \in Nat /\ Shown(p)[r].version \in Version
           /\ \A v \in Version, w \in Nat : w < v => w \in Version
<1>1. \A x \in Value : x.version \in Nat /\ x.version \in Version
    BY Bounds DEF Value, Version
<1>2. \A r \in Of(Kept, k) : Kept[r] \in Value
    BY DEF Of, Kept, Typed, TypeOK, Table
<1>3. \A p \in Client : \A r \in Of(Shown(p), k) : Shown(p)[r] \in Value
    <2>1. \A p \in Client, r \in RowId : Seen(value, p, r) \in Value \cup {NoValue}
        BY TableSteps DEF Typed, TypeOK
    <2> QED BY <2>1 DEF Of, Shown
<1>4. \A v \in Version, w \in Nat : w < v => w \in Version
    BY Bounds DEF Version
<1> QED BY <1>1, <1>2, <1>3, <1>4

\* What is committed is seen by a transaction that deletes nothing, and what it adds
\* is the only other thing that it sees.
LEMMA KeptIsShown ==
    ASSUME RowInv, NEW p \in Client, NEW k, Clean(p), NEW r \in Of(Kept, k)
    PROVE  r \in Of(Shown(p), k) /\ Shown(p)[r].version = Kept[r].version
BY KeptAndShown DEF RowInv, SameRow, Alike, Of, Clean, Seen

LEMMA ShownIsKept ==
    ASSUME RowInv, NEW p \in Client, NEW k, Clean(p), ~Adds(p, k)
    PROVE  /\ Of(Kept, k) = Of(Shown(p), k)
           /\ \A r \in Of(Kept, k) : Kept[r].version = Shown(p)[r].version
<1>1. ASSUME NEW r \in Of(Shown(p), k) PROVE r \in Of(Kept, k)
    BY KeptAndShown DEF RowInv, SameRow, Alike, Of, Adds, Seen
<1> QED BY <1>1, KeptIsShown DEF Of

LEMMA ShownIsClosed ==
    ASSUME RowInv, NEW p \in Client, NEW k, Clean(p), Closed(Kept, k), Progress(p, k)
    PROVE  Closed(Shown(p), k)
BY ShownIsKept, SameVersionsFacts DEF Progress

\* A transaction that sees and holds of field k what it did before has made as much
\* progress, if its statement goes on or is no update.
LEMMA SameProgress ==
    ASSUME NEW q \in Client, NEW k, Progress(q, k),
           Of(Kept', k) = Of(Kept, k), \A r \in Of(Kept, k) : Kept'[r] = Kept[r],
           Of(Shown(q)', k) = Of(Shown(q), k),
           \A r \in Of(Shown(q), k) : Shown(q)'[r] = Shown(q)[r],
           \A r \in RowId : value[r].by = q \/ value'[r].by = q => value'[r] = value[r],
           \/ pc'[q] = pc[q] /\ call'[q] = call[q] /\ todo'[q] = todo[q]
           \/ pc[q] # "update" /\ pc'[q] \notin {"picked", "update"}
    PROVE  Progress(q, k)'
<1>1. \A r \in RowId : value'[r].by = q <=> value[r].by = q
    OBVIOUS
<1>2. /\ Clean(q)' <=> Clean(q)
      /\ Adds(q, k)' <=> Adds(q, k)
    BY <1>1 DEF Clean, Adds
<1>3. /\ AllMine(q, k)' <=> AllMine(q, k)
      /\ Changes(q, k)' <=> Changes(q, k)
    BY <1>1 DEF AllMine, Changes, Of
<1>4. /\ \A v : Has(Kept', k, v) <=> Has(Kept, k, v)
      /\ \A v : Has(Shown(q)', k, v) <=> Has(Shown(q), k, v)
      /\ Closed(Shown(q)', k) <=> Closed(Shown(q), k)
      /\ Latest(Shown(q)', k) <=> Latest(Shown(q), k)
    BY SameVersionsFacts
<1>5. \A r \in Of(Shown(q), k) : r \in RowId /\ Seen(value', q, r) = Seen(value, q, r)
    BY DEF Of, Shown
<1>6. \A v : NextOne(q, k, v) => NextOne(q, k, v)'
    BY <1>4, <1>5 DEF NextOne
<1>7. CASE pc'[q] = pc[q] /\ call'[q] = call[q] /\ todo'[q] = todo[q]
    <2>1. Writing(q, k)' <=> Writing(q, k)
        BY <1>7 DEF Writing
    <2>2. \A v : Updated(q, k, v) => Updated(q, k, v)'
        BY <1>1, <1>4, <1>5, <1>7 DEF Updated
    <2> QED BY <1>2, <1>3, <1>4, <1>6, <1>7, <2>1, <2>2 DEF Progress
<1>8. CASE pc[q] # "update" /\ pc'[q] \notin {"picked", "update"}
    BY <1>2, <1>3, <1>4, <1>8 DEF Progress, Writing
<1> QED BY <1>7, <1>8

\* In particular while another transaction changes a row.
LEMMA OthersProgress ==
    ASSUME RowInv, NEW p \in Client, NEW q \in Client, q # p, NEW k, NEW r \in RowId, NEW s,
           Free(value, p, r), value' = Put(value, p, r, s), Progress(q, k),
           pc'[q] = pc[q] /\ call'[q] = call[q] /\ todo'[q] = todo[q]
    PROVE  Progress(q, k)'
<1>1. Kept' = Kept /\ Shown(q)' = Shown(q)
    BY OthersSee DEF RowInv, Kept, Shown
<1>2. \A x \in RowId : value[x].by = q \/ value'[x].by = q => value'[x] = value[x]
    BY OthersSee DEF RowInv
<1> QED BY <1>1, <1>2, SameProgress

\* UPDATE gridvalue SET maxdataversion, one row (wciWriteInternals.in.sql).
LEMMA UpdateProgress ==
    ASSUME RowInv, NEW p \in Client, NEW k, NEW r \in RowId, UpdateRow(p, r), Progress(p, k)
    PROVE  Progress(p, k)'
<1>0. /\ pc[p] = "update" /\ pc' = pc /\ call' = call /\ r \in todo[p]
      /\ todo'[p] = todo[p] \ {r}
    BY DEF UpdateRow, RowInv, Typed, TypeOK
<1>1. CASE value' = value /\ Seen(value, p, r) = NoValue
    <2>1. Kept' = Kept /\ Shown(p)' = Shown(p)
        BY <1>1 DEF Kept, Shown
    <2>2. ASSUME NEW v, Updated(p, k, v) PROVE Updated(p, k, v)'
        <3>1. \A x \in Of(Shown(p), k) : x # r
            BY <1>1 DEF Of, Shown
        <3> QED BY <1>0, <1>1, <2>1, <2>2, <3>1 DEF Updated
    <2>3. /\ Clean(p)' <=> Clean(p)
          /\ Adds(p, k)' <=> Adds(p, k)
          /\ Writing(p, k)' <=> Writing(p, k)
          /\ \A v : NextOne(p, k, v)' <=> NextOne(p, k, v)
        BY <1>0, <1>1, <2>1 DEF Clean, Adds, Writing, NextOne
    <2>4. /\ AllMine(p, k)' <=> AllMine(p, k)
          /\ Changes(p, k)' <=> Changes(p, k)
        BY <1>1, <2>1 DEF AllMine, Changes
    <2> QED BY <1>0, <2>1, <2>2, <2>3, <2>4 DEF Progress
<1>2. ASSUME NEW s \in Value, Alters(p, r, s), s.max = call[p].version
      PROVE  Progress(p, k)'
    <2>0. /\ Free(value, p, r) /\ value' = Put(value, p, r, s) /\ s # NoValue
          /\ Alike(s, Seen(value, p, r)) /\ Typed
        BY <1>2, GridConstants DEF Alters, RowInv
    <2>1. /\ \A x \in RowId : value'[x].now = value[x].now
          /\ \A x \in RowId : x # r => value'[x] = value[x]
          /\ value'[r].by = p /\ value'[r].next = s
          /\ \A x \in RowId : Seen(value', p, x) = IF x = r THEN s ELSE Seen(value, p, x)
        BY <2>0, OthersSee
    <2>2. Kept' = Kept
        BY <2>1 DEF Kept
    <2>3. /\ \A x \in RowId : x # r => Shown(p)'[x] = Shown(p)[x]
          /\ Shown(p)'[r] = s /\ Alike(s, Shown(p)[r])
        BY <2>0, <2>1 DEF Shown
    <2>4. /\ Of(Shown(p)', k) = Of(Shown(p), k)
          /\ \A x \in Of(Shown(p), k) : Shown(p)'[x].version = Shown(p)[x].version
        BY <2>3 DEF Of, Alike
    <2>5. /\ \A v : Has(Shown(p)', k, v) <=> Has(Shown(p), k, v)
          /\ Closed(Shown(p)', k) <=> Closed(Shown(p), k)
        BY <2>4, SameVersionsFacts
    <2>6. s.field = call[p].field
        BY <1>0, <2>0 DEF RowInv, Listed, Alike, Seen
    <2>7. Clean(p)' => Clean(p)
        BY <2>0, <2>1 DEF Clean, Alike, Seen
    <2>8. Adds(p, k)' <=> Adds(p, k)
        BY <2>0, <2>1 DEF Adds, Alike, Seen
    <2>9. AllMine(p, k) => AllMine(p, k)'
        BY <2>1, <2>2 DEF AllMine, Of
    <2>10. CASE call[p].field = k
        <3>1. Writing(p, k) /\ Writing(p, k)'
            BY <1>0, <2>10 DEF Writing
        <3>2. ASSUME NEW v, NextOne(p, k, v) PROVE NextOne(p, k, v)'
            <4>1. \A x \in Of(Shown(p), k) : Seen(value', p, x).version = Seen(value, p, x).version
                BY <2>4, KeptAndShown DEF Of, Shown
            <4> QED BY <2>2, <2>4, <2>5, <3>2, <4>1 DEF NextOne
        <3>3. Updated(p, k, call[p].version) => Updated(p, k, call[p].version)'
            <4>1. \A x \in Of(Shown(p), k) : x \in RowId
                BY DEF Of
            <4> QED BY <1>0, <1>2, <2>1, <2>2, <2>4, <4>1 DEF Updated
        <3> QED BY <1>0, <2>5, <2>7, <2>8, <2>9, <3>1, <3>2, <3>3 DEF Progress
    <2>11. CASE call[p].field # k
        <3>1. ~Writing(p, k) /\ ~Writing(p, k)'
            BY <1>0, <2>11 DEF Writing
        <3>2. r \notin Of(Shown(p), k)
            BY <2>3, <2>6, <2>11 DEF Of, Alike
        <3>3. \A x \in Of(Shown(p), k) : Shown(p)'[x].max = Shown(p)[x].max
            BY <2>3, <3>2 DEF Of
        <3>4. Latest(Shown(p)', k) <=> Latest(Shown(p), k)
            BY <2>4, <3>3, SameVersionsFacts
        <3>5. Changes(p, k)' => Changes(p, k)
            BY <2>1, <2>4, <3>2 DEF Changes, Of
        <3> QED BY <1>0, <2>5, <2>7, <2>8, <2>9, <2>11, <3>1, <3>4, <3>5 DEF Progress
    <2> QED BY <2>10, <2>11
<1> QED BY <1>1, <1>2, UpdateAlters DEF RowInv

\* A version that the unique index lets p insert is not committed.
LEMMA NotKept ==
    ASSUME RowInv, NEW p \in Client, Clean(p), NEW k, NEW v, ~Clashes(p, k, v)
    PROVE  ~Has(Kept, k, v)
<1> SUFFICES ASSUME NEW r \in RowId, Same(value[r].now, k, v) PROVE FALSE
    BY KeptAndShown DEF Has, Of, Same
<1>1. Free(value, p, r)
    BY DEF Clashes
<1>2. ~Same(Seen(value, p, r), k, v)
    BY DEF Clashes
<1> QED BY <1>1, <1>2, GridConstants DEF Free, Seen, Same, Clean, RowInv, SameRow, Alike

\* INSERT INTO gridvalue (wciWriteInternals.in.sql).
LEMMA InsertProgress ==
    ASSUME RowInv, NEW p \in Client, NEW k \in Field, InsertValue(p), Closed(Kept, k), Progress(p, k)
    PROVE  Progress(p, k)'
<1>0. /\ pc[p] = "update" /\ pc'[p] = "file" /\ todo[p] = {} /\ call' = call
    BY DEF InsertValue, RowInv, Typed, TypeOK
<1>1. PICK s \in Value : /\ Inserts(p, nextRow, s) /\ nextRow \in RowId
                         /\ s.field = call[p].field /\ s.version = call[p].version
                         /\ s.max = call[p].version
    BY InsertInserts DEF RowInv
<1>2. PICK r \in RowId : r = nextRow
    BY <1>1
<1>3. /\ value' = Put(value, p, r, s) /\ ~Clashes(p, s.field, s.version) /\ s # NoValue
      /\ value[r].now = NoValue /\ value[r].next = NoValue /\ value[r].by = NoProc
    BY <1>1, <1>2, SettledRow, GridConstants DEF Inserts, RowInv, Unused, RowId
<1>4. /\ \A x \in RowId : value'[x].now = value[x].now
      /\ \A x \in RowId : x # r => value'[x] = value[x]
      /\ value'[r].by = p /\ value'[r].next = s
      /\ \A x \in RowId : Seen(value', p, x) = IF x = r THEN s ELSE Seen(value, p, x)
    BY <1>3, OthersSee DEF Free, RowInv
<1>5. Kept' = Kept
    BY <1>4 DEF Kept
<1>6. /\ \A x \in RowId : x # r => Shown(p)'[x] = Shown(p)[x]
      /\ Shown(p)'[r] = s
    BY <1>4 DEF Shown
<1>7. r \notin Of(Shown(p), k) /\ r \notin Of(Kept, k)
    BY <1>3, KeptAndShown DEF Of, Seen
<1>8. Clean(p)' => Clean(p)
    BY <1>3, <1>4, GridConstants DEF Clean
<1>9. AllMine(p, k)' <=> AllMine(p, k)
    BY <1>4, <1>5, <1>7 DEF AllMine, Of
<1>10. CASE call[p].field # k
    <2>1. /\ Of(Shown(p)', k) = Of(Shown(p), k)
          /\ \A x \in Of(Shown(p), k) : Shown(p)'[x] = Shown(p)[x]
        BY <1>1, <1>6, <1>7, <1>10 DEF Of
    <2>2. /\ Closed(Shown(p)', k) <=> Closed(Shown(p), k)
          /\ Latest(Shown(p)', k) <=> Latest(Shown(p), k)
        BY <2>1, SameVersionsFacts
    <2>3. Adds(p, k)' <=> Adds(p, k)
        BY <1>1, <1>3, <1>4, <1>10 DEF Adds
    <2>4. Changes(p, k)' <=> Changes(p, k)
        BY <1>4, <1>7, <2>1 DEF Changes, Of
    <2>5. ~Writing(p, k) /\ ~Writing(p, k)'
        BY <1>0, <1>10 DEF Writing
    <2> QED BY <1>0, <1>8, <1>9, <2>2, <2>3, <2>4, <2>5 DEF Progress
<1>11. CASE call[p].field = k
    <2> DEFINE v == s.version
    <2> SUFFICES ASSUME Clean(p)'
                 PROVE  AllMine(p, k)' /\ Closed(Shown(p), k)' /\ Latest(Shown(p), k)' /\ Adds(p, k)'
        BY <1>0 DEF Progress, Writing
    <2>0. /\ Clean(p) /\ Writing(p, k) /\ v \in Nat /\ v \in Version /\ s.field = k /\ s.max = v
          /\ NextOne(p, k, v) /\ Updated(p, k, v)
        BY <1>0, <1>1, <1>8, <1>11, Bounds DEF Writing, Progress, Value, Version
    <2>1. ~Has(Kept, k, v)
        BY <1>3, <2>0, NotKept
    <2>2. /\ v = 0 \/ Has(Shown(p), k, v - 1)
          /\ \A x \in Of(Shown(p), k) : Shown(p)[x].version < v
          /\ \A x \in Of(Shown(p), k) : value[x].by = p /\ value[x].next.max = v
        BY <1>0, <2>0, <2>1, KeptAndShown DEF NextOne, Updated, Of
    <2>3. \A x \in Of(Shown(p), k) : Shown(p)[x].max = v
        BY <2>2, KeptAndShown DEF Of, Seen
    <2>4. AllMine(p, k)
        BY <2>0, <2>2, KeptIsShown DEF AllMine
    <2>5. /\ \A x \in RowId : x \in Of(Shown(p)', k) <=> (x = r \/ x \in Of(Shown(p), k))
          /\ \A x \in Of(Shown(p), k) : Shown(p)'[x] = Shown(p)[x]
        BY <1>3, <1>6, <1>7, <2>0 DEF Of
    <2>6. r \in Of(Shown(p)', k) /\ Shown(p)'[r] = s /\ Of(Shown(p)', k) \subseteq RowId
        BY <1>6, <2>5 DEF Of
    <2>7. \A w : Has(Shown(p), k, w) \/ w = v => Has(Shown(p)', k, w)
        BY <2>5, <2>6 DEF Has, Of
    <2>8. Closed(Shown(p), k)
        BY <2>0, ShownIsClosed
    <2>9. Closed(Shown(p)', k)
        <3> SUFFICES ASSUME NEW x \in Of(Shown(p)', k), NEW w \in Version, w < Shown(p)'[x].version
                     PROVE  Has(Shown(p), k, w)
            BY <2>7 DEF Closed
        <3>1. CASE x # r
            BY <2>5, <2>6, <2>8, <3>1 DEF Closed
        <3>2. CASE x = r
            <4>1. w < v /\ v # 0 /\ w \in Nat /\ Has(Shown(p), k, v - 1)
                BY <2>0, <2>2, <2>6, <3>2, Bounds DEF Version
            <4>2. PICK y \in Of(Shown(p), k) : Shown(p)[y].version = v - 1
                BY <4>1 DEF Has
            <4>3. w = v - 1 \/ w < v - 1
                BY <2>0, <4>1
            <4> QED BY <2>8, <4>1, <4>2, <4>3 DEF Closed
        <3> QED BY <3>1, <3>2
    <2>10. Latest(Shown(p)', k)
        <3>1. \A x \in Of(Shown(p)', k) : Shown(p)'[x].max = v /\ Shown(p)'[x].version <= v
            <4>1. \A x \in Of(Shown(p), k) : Shown(p)[x].version \in Nat
                BY VersionsAreNumbers DEF RowInv
            <4> QED BY <2>0, <2>2, <2>3, <2>5, <2>6, <4>1
        <3> QED BY <2>7, <3>1 DEF Latest
    <2>11. Adds(p, k)'
        BY <1>3, <1>4, <2>0 DEF Adds
    <2> QED BY <1>9, <2>4, <2>9, <2>10, <2>11
<1> QED BY <1>10, <1>11

\* Who adds to an empty field adds version 0.
LEMMA AddsFirst ==
    ASSUME RowInv, NEW p \in Client, NEW k, Adds(p, k), Of(Kept, k) = {}, Closed(Shown(p), k)
    PROVE  \E r \in RowId : /\ value[r].by = p /\ value[r].next # NoValue
                            /\ value[r].next.field = k /\ value[r].next.version = 0
<1>1. PICK x \in RowId : value[x].by = p /\ value[x].now = NoValue
                         /\ value[x].next # NoValue /\ value[x].next.field = k
    BY DEF Adds
<1>2. x \in Of(Shown(p), k)
    BY <1>1, KeptAndShown DEF Of, Seen
<1>3. Shown(p)[x].version \in Nat /\ 0 \in Version
    BY <1>2, VersionsAreNumbers, Bounds DEF RowInv, Version
<1>4. Has(Shown(p), k, 0)
    BY <1>2, <1>3 DEF Closed, Has
<1>5. PICK r \in Of(Shown(p), k) : Shown(p)[r].version = 0
    BY <1>4 DEF Has
<1>6. r \in RowId /\ Seen(value, p, r) # NoValue /\ Seen(value, p, r).field = k
      /\ Seen(value, p, r).version = 0
    BY <1>5, KeptAndShown DEF Of
<1>7. value[r].by = p
    BY <1>6, KeptAndShown DEF Of, Seen
<1> QED BY <1>6, <1>7 DEF Seen

\* Two transactions cannot both add to a field: both would hold all of its rows, or
\* insert its version 0.
LEMMA OneAdds ==
    ASSUME RowInv, NEW k, NEW p \in Client, NEW q \in Client, p # q, Clean(p), Clean(q),
           Progress(p, k), Progress(q, k), Adds(p, k), Adds(q, k)
    PROVE  FALSE
<1>1. AllMine(p, k) /\ Closed(Shown(p), k) /\ AllMine(q, k) /\ Closed(Shown(q), k)
    BY DEF Progress
<1>2. Of(Kept, k) = {}
    BY <1>1 DEF AllMine
<1>3. PICK x \in RowId : /\ value[x].by = p /\ value[x].next # NoValue
                         /\ value[x].next.field = k /\ value[x].next.version = 0
    BY <1>1, <1>2, AddsFirst
<1>4. PICK y \in RowId : /\ value[y].by = q /\ value[y].next # NoValue
                         /\ value[y].next.field = k /\ value[y].next.version = 0
    BY <1>1, <1>2, AddsFirst
<1> QED BY <1>3, <1>4, GridConstants DEF RowInv, Unique, Alike

\* What p adds goes up to the version that another transaction has chosen.
LEMMA AddsReaches ==
    ASSUME RowInv, NEW k, NEW p \in Client, NEW q \in Client, Clean(p), Adds(p, k), ~Adds(q, k), Clean(q),
           Closed(Kept, k), Closed(Shown(p), k), NEW v \in Version, NextOne(q, k, v)
    PROVE  Has(Shown(p), k, v)
<1>0. v \in Nat
    BY Bounds DEF Version
<1>1. PICK x \in RowId : value[x].by = p /\ value[x].now = NoValue
                         /\ value[x].next # NoValue /\ value[x].next.field = k
    BY DEF Adds
<1>2. x \in Of(Shown(p), k)
    BY <1>1, KeptAndShown DEF Of, Seen
<1> DEFINE w == Shown(p)[x].version
<1>3. w \in Nat /\ w \in Version
    BY <1>2, VersionsAreNumbers DEF RowInv
<1>4. ~Has(Kept, k, w)
    <2> SUFFICES ASSUME NEW y \in Of(Kept, k), Kept[y].version = w PROVE FALSE
        BY DEF Has
    <2>1. y \in Of(Shown(p), k) /\ Shown(p)[y].version = w
        BY KeptIsShown
    <2>2. Alike(Shown(p)[x], Shown(p)[y])
        BY <1>2, <2>1 DEF Of, Alike
    <2>3. x = y
        BY <2>1, <2>2 DEF RowInv, Unique, Apart, Of
    <2> QED BY <1>1, <2>3, KeptAndShown DEF Of
<1>5. CASE Has(Kept, k, v)
    BY <1>5, KeptIsShown DEF Has
<1>6. CASE ~Has(Kept, k, v)
    <2>1. v = 0 \/ Has(Kept, k, v - 1)
        BY ShownIsKept, SameVersionsFacts DEF NextOne
    <2>2. v <= w
        <3> SUFFICES ASSUME w < v PROVE FALSE
            BY <1>0, <1>3
        <3>1. PICK y \in Of(Kept, k) : Kept[y].version = v - 1
            BY <1>0, <1>3, <2>1 DEF Has
        <3>2. w = v - 1 \/ w < v - 1
            BY <1>0, <1>3
        <3> HIDE DEF w
        <3> QED BY <1>3, <1>4, <3>1, <3>2 DEF Closed, Has
    <2>3. v = w \/ v < w
        BY <1>0, <1>3, <2>2
    <2> QED BY <1>2, <2>3 DEF Closed, Has
<1> QED BY <1>5, <1>6

\* What the commit of p makes of the rows.
LEMMA CommitRows ==
    ASSUME Typed, NEW p \in Client, value' = Committed(value, p)
    PROVE  /\ \A x \in RowId : value[x].by # p => value'[x] = value[x]
           /\ \A x \in RowId : value[x].by = p =>
                 value'[x].by = NoProc /\ value'[x].now = value[x].next
           /\ Kept' = Shown(p)
           /\ \A x \in RowId : value'[x].by # p
           /\ \A q \in Client : q # p => \A x \in RowId :
                 value[x].by = q \/ value'[x].by = q => value'[x] = value[x]
<1>1. /\ \A x \in RowId : value[x].by # p => value'[x] = value[x]
      /\ \A x \in RowId : value[x].by = p =>
            value'[x].by = NoProc /\ value'[x].now = value[x].next
    BY EndRows, SettledRow
<1>2. Kept' = Shown(p)
    BY <1>1 DEF Kept, Shown, Seen
<1>3. /\ \A x \in RowId : value'[x].by # p
      /\ \A q \in Client : q # p => \A x \in RowId :
            value[x].by = q \/ value'[x].by = q => value'[x] = value[x]
    BY <1>1, GridConstants
<1> QED BY <1>1, <1>2, <1>3

\* The commit of p, for one field: of p itself, and of another transaction.
LEMMA CommitOwnField ==
    ASSUME RowInv, NEW p \in Client, NEW k, ClientCommit(p), Clean(p), Progress(p, k),
           Closed(Kept, k), Latest(Kept, k)
    PROVE  Closed(Kept', k) /\ Latest(Kept', k) /\ Progress(p, k)'
<1>0. /\ value' = Committed(value, p) /\ pc[p] = "ready" /\ pc'[p] = "ready" /\ Typed
    BY DEF ClientCommit, End, RowInv, Typed, TypeOK
<1>1. Kept' = Shown(p) /\ \A x \in RowId : value'[x].by # p
    BY <1>0, CommitRows
<1>2. ~Adds(p, k)' /\ ~Changes(p, k)' /\ ~Writing(p, k)'
    BY <1>0, <1>1 DEF Adds, Changes, Writing, Of
<1>3. Progress(p, k)'
    BY <1>0, <1>2 DEF Progress
<1>4. Closed(Shown(p), k)
    BY ShownIsClosed
<1>5. CASE Adds(p, k)
    BY <1>0, <1>1, <1>3, <1>4, <1>5 DEF Progress, Writing
<1>6. CASE ~Adds(p, k)
    <2>1. \A x \in Of(Shown(p), k) : value[x].by # p
        BY <1>0, <1>6 DEF Progress, Changes, Writing
    <2>2. /\ Of(Kept, k) = Of(Shown(p), k)
          /\ \A x \in Of(Kept, k) : Kept[x].version = Shown(p)[x].version
        BY <1>6, ShownIsKept
    <2>3. \A x \in Of(Kept, k) : Kept[x].max = Shown(p)[x].max
        BY <2>1, <2>2, KeptAndShown DEF Of, Seen
    <2>4. Latest(Kept, k) <=> Latest(Shown(p), k)
        BY <2>2, <2>3, SameVersionsFacts
    <2> QED BY <1>1, <1>3, <1>4, <2>4
<1> QED BY <1>5, <1>6

LEMMA CommitOthersField ==
    ASSUME RowInv, NEW p \in Client, NEW q \in Client, q # p, NEW k, ClientCommit(p), Clean(p),
           Progress(p, k), Progress(q, k), Closed(Kept, k)
    PROVE  Progress(q, k)'
<1>0. /\ value' = Committed(value, p) /\ pc[p] = "ready" /\ Typed
      /\ pc'[q] = pc[q] /\ call'[q] = call[q] /\ todo'[q] = todo[q]
    BY DEF ClientCommit, End, RowInv, Typed, TypeOK
<1>1. /\ \A x \in RowId : value[x].by # p => value'[x] = value[x]
      /\ \A x \in RowId : value[x].by = p => value'[x].by = NoProc /\ value'[x].now = value[x].next
      /\ Kept' = Shown(p)
      /\ \A x \in RowId : value[x].by = q \/ value'[x].by = q => value'[x] = value[x]
    BY <1>0, CommitRows
<1>2. \A x \in RowId : value'[x].by = q <=> value[x].by = q
    BY <1>1
<1>3. CASE ~Adds(p, k)
    <2>1. \A x \in RowId : value[x].by = p =>
             /\ value[x].next # NoValue /\ value[x].next.field # k
             /\ value[x].now # NoValue => value[x].now.field # k
        BY <1>0, <1>3, KeptAndShown
           DEF Progress, Changes, Writing, Clean, RowInv, SameRow, Alike, Of, Seen
    <2>2. /\ Of(Kept', k) = Of(Kept, k)
          /\ \A x \in Of(Kept, k) : Kept'[x] = Kept[x]
        BY <1>1, <2>1 DEF Of, Kept
    <2>3. \A x \in RowId : \/ Shown(q)'[x] = Shown(q)[x]
                           \/ /\ Shown(q)'[x] # NoValue => Shown(q)'[x].field # k
                              /\ Shown(q)[x] # NoValue => Shown(q)[x].field # k
        BY <1>1, <2>1, GridConstants DEF Shown, Seen
    <2>4. /\ Of(Shown(q)', k) = Of(Shown(q), k)
          /\ \A x \in Of(Shown(q), k) : Shown(q)'[x] = Shown(q)[x]
        BY <2>3 DEF Of
    <2> QED BY <1>0, <1>1, <2>2, <2>4, SameProgress
<1>4. CASE Adds(p, k)
    <2>0. SUFFICES ASSUME Clean(q)' PROVE Progress(q, k)'
        BY DEF Progress
    <2>1. Clean(q) /\ AllMine(p, k) /\ Closed(Shown(p), k)
        BY <1>1, <1>2, <1>4, <2>0 DEF Clean, Progress
    <2>2. ~Adds(q, k) /\ ~Adds(q, k)'
        <3>1. ~Adds(q, k)
            BY <1>4, <2>1, OneAdds
        <3>2. Adds(q, k)' => Adds(q, k)
            BY <1>1 DEF Adds
        <3> QED BY <3>1, <3>2
    <2>3. \A x \in Of(Shown(q), k) : x \in Of(Kept, k) /\ value[x].by = p
        BY <2>1, <2>2, ShownIsKept DEF AllMine
    <2>4. ~Changes(q, k)'
        <3> SUFFICES ASSUME NEW x \in RowId, Shown(q)'[x] # NoValue, Shown(q)'[x].field = k,
                            value'[x].by = q
                     PROVE  FALSE
            BY DEF Changes, Of
        <3>1. value'[x] = value[x] /\ value[x].by = q
            BY <1>1, <1>2
        <3>2. x \in Of(Shown(q), k)
            BY <3>1 DEF Of, Shown, Seen
        <3> QED BY <2>3, <3>1, <3>2
    <2>5. ASSUME NEW v \in Version, NextOne(q, k, v)
          PROVE  NextOne(q, k, v)' /\ Updated(q, k, v)'
        <3>1. Has(Kept', k, v)
            BY <1>1, <1>4, <2>1, <2>2, <2>5, AddsReaches
        <3>2. v = 0 \/ Has(Shown(q)', k, v - 1)
            <4> SUFFICES ASSUME NEW y \in Of(Shown(q), k), Shown(q)[y].version = v - 1
                         PROVE  Has(Shown(q)', k, v - 1)
                BY <2>5 DEF NextOne, Has
            <4>1. /\ y \in Of(Kept, k) /\ value[y].by = p /\ y \in RowId
                  /\ Kept[y].version = v - 1
                BY <2>1, <2>2, <2>3, ShownIsKept DEF Of
            <4>2. /\ y \in Of(Shown(p), k) /\ Shown(p)[y].version = v - 1
                BY <4>1, KeptIsShown
            <4>3. value'[y].by # q /\ value'[y].now = value[y].next
                BY <1>1, <1>2, <4>1
            <4>4. Shown(q)'[y] = Shown(p)[y]
                BY <4>1, <4>3 DEF Shown, Seen
            <4> QED BY <4>2, <4>4 DEF Has, Of
        <3> QED BY <3>1, <3>2 DEF NextOne, Updated
    <2>6. pc[q] \in {"picked", "update"} => call[q].version \in Version
        BY DEF RowInv, Typed, Underway, Call
    <2> QED BY <1>0, <2>1, <2>2, <2>4, <2>5, <2>6 DEF Progress, Writing
<1> QED BY <1>3, <1>4

\* A rollback shows others nothing new.
LEMMA AbortProgress ==
    ASSUME RowInv, NEW p \in Client, NEW k, ClientAbort(p), \A q \in Client : Progress(q, k)
    PROVE  Kept' = Kept /\ \A q \in Client : Progress(q, k)'
<1>0. /\ value' = RolledBack(value, p) /\ pc'[p] = "ready" /\ Typed
      /\ \A q \in Client : q # p => pc'[q] = pc[q] /\ call'[q] = call[q] /\ todo'[q] = todo[q]
    BY DEF ClientAbort, End, RowInv, Typed, TypeOK
<1>1. /\ \A x \in RowId : value[x].by # p => value'[x] = value[x]
      /\ \A x \in RowId : value[x].by = p =>
            value'[x].by = NoProc /\ value'[x].now = value[x].now
    BY <1>0, EndRows, SettledRow
<1>2. /\ Kept' = Kept
      /\ \A x \in RowId : value'[x].by # p
      /\ \A q \in Client : q # p => \A x \in RowId :
            value[x].by = q \/ value'[x].by = q => value'[x] = value[x]
    BY <1>1, GridConstants DEF Kept
<1>3. ~Adds(p, k)' /\ ~Changes(p, k)' /\ ~Writing(p, k)'
    BY <1>0, <1>2 DEF Adds, Changes, Writing, Of
<1>4. Progress(p, k)'
    BY <1>0, <1>3 DEF Progress
<1>5. ASSUME NEW q \in Client, q # p PROVE Progress(q, k)'
    <2>1. Shown(q)' = Shown(q)
        BY <1>1, <1>5, GridConstants DEF Shown, Seen
    <2> QED BY <1>0, <1>2, <1>5, <2>1, SameProgress
<1> QED BY <1>2, <1>4, <1>5

\* SELECT max(dataversion) + 1 (wciWrite.in.sql): wci.write chooses the number itself.
LEMMA ChosenIsNext ==
    ASSUME RowInv, Numbering = "auto", NEW p \in Client, NEW k \in Field, NEW v \in Versions(p, k)
    PROVE  NextOne(p, k, v)
<1> DEFINE seen == {Seen(value, p, r).version : r \in RowsOf(p, k)}
<1>1. \A r : r \in Of(Shown(p), k) <=> r \in RowsOf(p, k)
    BY KeptAndShown DEF Of, RowsOf, Rows
<1>2. CASE seen = {}
    <2>1. v = 0
        BY <1>2 DEF Versions
    <2>2. \A r \in RowsOf(p, k) : Seen(value, p, r).version \in seen
        OBVIOUS
    <2> QED BY <1>1, <1>2, <2>1, <2>2 DEF NextOne
<1>3. CASE seen # {}
    <2>1. v - 1 \in seen /\ \A w \in seen : w < v
        BY <1>3 DEF Versions
    <2>2. \A r \in RowsOf(p, k) : Seen(value, p, r).version < v
        BY <2>1
    <2>3. PICK r \in RowsOf(p, k) : Seen(value, p, r).version = v - 1
        BY <2>1
    <2>4. r \in Of(Shown(p), k) /\ Shown(p)[r].version = v - 1
        BY <1>1, <2>3, KeptAndShown DEF Of
    <2> QED BY <1>1, <2>2, <2>4 DEF NextOne, Has
<1> QED BY <1>2, <1>3

\* A statement that does not touch the values.
LEMMA QuietProgress ==
    ASSUME RowInv, Numbering = "auto", [Next]_vars, NEW k \in Field, \A p \in Client : Progress(p, k),
           \A p \in Client : ~InsertValue(p) /\ ~ClientCommit(p) /\ ~ClientAbort(p),
           \A p \in Client, r \in RowId : ~UpdateRow(p, r) /\ ~DeleteRow(p, r)
    PROVE  Kept' = Kept /\ \A q \in Client : Progress(q, k)'
<1> USE DEF RowInv
<1>0. UNCHANGED <<value, nextRow>>
    BY QuietSteps
<1>1. /\ Kept' = Kept
      /\ \A q \in Client : Shown(q)' = Shown(q)
    BY <1>0 DEF Kept, Shown
<1>2. ASSUME NEW q \in Client,
             \/ pc'[q] = pc[q] /\ call'[q] = call[q] /\ todo'[q] = todo[q]
             \/ pc[q] # "update" /\ pc'[q] \notin {"picked", "update"}
      PROVE  Progress(q, k)'
    BY <1>0, <1>1, <1>2, SameProgress
<1>3. ASSUME NEW p \in Client, UpdateStart(p) PROVE \A q \in Client : Progress(q, k)'
    <2>1. /\ pc[p] = "picked" /\ pc'[p] = "update" /\ call' = call
          /\ todo'[p] = RowsOf(p, call[p].field)
          /\ \A q \in Client : q # p => pc'[q] = pc[q] /\ todo'[q] = todo[q]
        BY <1>3 DEF UpdateStart, Typed, TypeOK
    <2>2. \A q \in Client : q # p => Progress(q, k)'
        BY <1>2, <2>1
    <2>3. /\ Clean(p)' <=> Clean(p)
          /\ Adds(p, k)' <=> Adds(p, k)
          /\ AllMine(p, k)' <=> AllMine(p, k)
          /\ Changes(p, k)' <=> Changes(p, k)
          /\ \A v : NextOne(p, k, v)' <=> NextOne(p, k, v)
        BY <1>0, <1>1 DEF Clean, Adds, AllMine, Changes, NextOne
    <2>4. ~Writing(p, k)
        BY <2>1 DEF Writing
    <2>5. CASE call[p].field = k
        <3>0. Of(Shown(p), k) = todo'[p]
            BY <2>1, <2>5, KeptAndShown DEF Of, RowsOf, Rows
        <3>1. \A v : Updated(p, k, v)'
            BY <1>0, <1>1, <3>0 DEF Updated
        <3>2. Writing(p, k)'
            BY <2>1, <2>5 DEF Writing
        <3> QED BY <1>1, <2>1, <2>2, <2>3, <2>4, <2>5, <3>1, <3>2 DEF Progress
    <2>6. CASE call[p].field # k
        <3>1. ~Writing(p, k)'
            BY <2>1, <2>6 DEF Writing
        <3> QED BY <1>1, <2>1, <2>2, <2>3, <2>4, <2>6, <3>1 DEF Progress
    <2> QED BY <2>5, <2>6
<1>4. ASSUME NEW p \in Client, NEW h \in Field, NEW v \in Version,
             WriteNew(p, h, v) \/ \E g \in Grid : WriteShared(p, h, v, g)
      PROVE  \A q \in Client : Progress(q, k)'
    <2>1. /\ pc[p] = "ready" /\ pc'[p] = "picked" /\ v \in Versions(p, h)
          /\ call'[p].field = h /\ call'[p].version = v
          /\ \A q \in Client : q # p => pc'[q] = pc[q] /\ call'[q] = call[q]
          /\ todo' = todo
        BY <1>4 DEF WriteNew, WriteShared, Typed, TypeOK
    <2>2. \A q \in Client : q # p => Progress(q, k)'
        BY <1>2, <2>1
    <2>3. /\ Clean(p)' <=> Clean(p)
          /\ Adds(p, k)' <=> Adds(p, k)
          /\ AllMine(p, k)' <=> AllMine(p, k)
          /\ Changes(p, k)' <=> Changes(p, k)
          /\ \A u : NextOne(p, k, u)' <=> NextOne(p, k, u)
        BY <1>0, <1>1 DEF Clean, Adds, AllMine, Changes, NextOne
    <2>4. ~Writing(p, k) /\ ~Writing(p, k)'
        BY <2>1 DEF Writing
    <2>5. NextOne(p, h, v)
        BY <2>1, ChosenIsNext
    <2> QED BY <1>1, <2>1, <2>2, <2>3, <2>4, <2>5 DEF Progress
<1>5. ASSUME NEW p \in Client, FinishWrite(p) \/ Browse(p) \/ RemoveEnd(p)
                               \/ \E S \in SUBSET RowId : RemoveStart(p, S)
      PROVE  \A q \in Client : Progress(q, k)'
    <2>1. /\ pc[p] # "update" /\ pc'[p] \notin {"picked", "update"}
          /\ \A q \in Client : q # p => pc'[q] = pc[q] /\ call'[q] = call[q] /\ todo'[q] = todo[q]
        BY <1>5 DEF FinishWrite, Browse, RemoveStart, RemoveEnd, Typed, TypeOK
    <2> QED BY <1>2, <2>1
<1>6. CASE (\E p \in Client, g \in Grid : Trigger(p, g)) \/ (\E g \in Grid : VacuumGrid(g)) \/ UNCHANGED vars
    <2>1. UNCHANGED <<pc, call, todo>>
        BY <1>6 DEF Trigger, VacuumGrid, vars
    <2> QED BY <1>1, <1>2, <2>1
<1> QED BY <1>1, <1>3, <1>4, <1>5, <1>6 DEF Next, WriteStep, RemoveStep, Client

LEMMA LatestStep ==
    ASSUME RowInv, LatestInv, Numbering = "auto", [Next]_vars PROVE LatestInv'
<1> SUFFICES ASSUME ~removed', NEW k \in Field
             PROVE  Closed(Kept', k) /\ Latest(Kept', k) /\ \A q \in Client : Progress(q, k)'
    BY DEF LatestInv
<1>0. ~removed
    BY DEF Next, WriteStep, RemoveStep, WriteNew, WriteShared, UpdateStart, UpdateRow, InsertValue,
           FinishWrite, Browse, RemoveStart, DeleteRow, Trigger, RemoveEnd, ClientCommit,
           ClientAbort, VacuumGrid, vars
<1>1. Closed(Kept, k) /\ Latest(Kept, k) /\ \A q \in Client : Progress(q, k)
    BY <1>0 DEF LatestInv
<1>2. CASE Kept' = Kept /\ \A q \in Client : Progress(q, k)'
    BY <1>1, <1>2
<1>3. ASSUME NEW p \in Client, NEW r \in RowId, UpdateRow(p, r)
      PROVE  Kept' = Kept /\ \A q \in Client : Progress(q, k)'
    <2>1. Progress(p, k)'
        BY <1>1, <1>3, UpdateProgress
    <2>2. \A q \in Client : q # p => pc'[q] = pc[q] /\ call'[q] = call[q] /\ todo'[q] = todo[q]
        BY <1>3 DEF UpdateRow, RowInv, Typed, TypeOK
    <2>3. CASE value' = value
        <3>1. Kept' = Kept /\ \A q \in Client : Shown(q)' = Shown(q)
            BY <2>3 DEF Kept, Shown
        <3> QED BY <1>1, <2>1, <2>2, <2>3, <3>1, SameProgress
    <2>4. ASSUME NEW s, Free(value, p, r), value' = Put(value, p, r, s)
          PROVE  Kept' = Kept /\ \A q \in Client : Progress(q, k)'
        <3>1. Kept' = Kept
            BY <2>4, OthersSee DEF Kept, RowInv
        <3> QED BY <1>1, <2>1, <2>2, <2>4, <3>1, OthersProgress
    <2> QED BY <1>3, <2>3, <2>4, UpdateAlters DEF Alters, RowInv
<1>4. ASSUME NEW p \in Client, NEW r \in RowId, DeleteRow(p, r)
      PROVE  Kept' = Kept /\ \A q \in Client : Progress(q, k)'
    <2>1. /\ \A q \in Client : q # p => pc'[q] = pc[q] /\ call'[q] = call[q] /\ todo'[q] = todo[q]
          /\ pc[p] = "delete" /\ pc'[p] = "delete"
        BY <1>4 DEF DeleteRow, RowInv, Typed, TypeOK
    <2>2. CASE value' = value
        <3>1. Kept' = Kept /\ \A q \in Client : Shown(q)' = Shown(q)
            BY <2>2 DEF Kept, Shown
        <3> QED BY <1>1, <2>1, <2>2, <3>1, SameProgress
    <2>3. CASE Alters(p, r, NoValue)
        <3>1. Free(value, p, r) /\ value' = Put(value, p, r, NoValue) /\ Typed
            BY <2>3 DEF Alters, RowInv
        <3>2. Kept' = Kept /\ value'[r].by = p /\ value'[r].next = NoValue
            BY <3>1, OthersSee DEF Kept
        <3>3. Progress(p, k)'
            BY <3>2 DEF Progress, Clean
        <3> QED BY <1>1, <2>1, <3>1, <3>2, <3>3, OthersProgress
    <2> QED BY <1>4, <2>2, <2>3, DeleteAlters
<1>5. ASSUME NEW p \in Client, InsertValue(p)
      PROVE  Kept' = Kept /\ \A q \in Client : Progress(q, k)'
    <2>1. Progress(p, k)'
        BY <1>1, <1>5, InsertProgress
    <2>2. \A q \in Client : q # p => pc'[q] = pc[q] /\ call'[q] = call[q] /\ todo'[q] = todo[q]
        BY <1>5 DEF InsertValue, RowInv, Typed, TypeOK
    <2>3. PICK s \in Value : Inserts(p, nextRow, s) /\ nextRow \in RowId
        BY <1>5, InsertInserts DEF RowInv
    <2>4. PICK r \in RowId : r = nextRow
        BY <2>3
    <2>5. value' = Put(value, p, r, s) /\ Free(value, p, r)
        BY <2>3, <2>4, SettledRow DEF Inserts, RowInv, Unused, Free, RowId
    <2>6. Kept' = Kept
        BY <2>5, OthersSee DEF Kept, RowInv
    <2> QED BY <1>1, <2>1, <2>2, <2>5, <2>6, OthersProgress
<1>6. ASSUME NEW p \in Client, ClientCommit(p)
      PROVE  Closed(Kept', k) /\ Latest(Kept', k) /\ \A q \in Client : Progress(q, k)'
    <2>1. Clean(p)
        BY <1>6 DEF ClientCommit, Clean
    <2> QED BY <1>1, <1>6, <2>1, CommitOwnField, CommitOthersField
<1>7. ASSUME NEW p \in Client, ClientAbort(p)
      PROVE  Kept' = Kept /\ \A q \in Client : Progress(q, k)'
    BY <1>1, <1>7, AbortProgress
<1>8. CASE /\ \A p \in Client : ~InsertValue(p) /\ ~ClientCommit(p) /\ ~ClientAbort(p)
           /\ \A p \in Client, r \in RowId : ~UpdateRow(p, r) /\ ~DeleteRow(p, r)
    BY <1>1, <1>2, <1>8, QuietProgress
<1> QED BY <1>2, <1>3, <1>4, <1>5, <1>6, <1>7, <1>8

\* As long as nothing is removed, and wci.write numbers the versions, data version -1
\* selects the value with the highest version and no other, for any number of writers
\* that write the same fields at the same time (wciWrite.in.sql, wciWriteInternals.in.sql).
THEOREM LatestIsHighestCorrect ==
    ASSUME Numbering = "auto"
    PROVE  Spec => []LatestIsHighest
<1>1. Init => RowInv /\ LatestInv
    <2> SUFFICES ASSUME Init PROVE RowInv /\ LatestInv
        OBVIOUS
    <2>1. \A r \in RowId : value[r].now = NoValue /\ value[r].next = NoValue
        BY DEF Init, Settled
    <2>2. \A k : Of(Kept, k) = {} /\ \A p \in Client : Of(Shown(p), k) = {}
        BY <2>1 DEF Of, Kept, Shown, Seen
    <2>3. \A p \in Client : pc[p] = "ready"
        BY DEF Init
    <2>4. \A k \in Field, p \in Client : Progress(p, k)
        BY <2>1, <2>2, <2>3 DEF Progress, Adds, Changes, Writing
    <2> QED BY <2>2, <2>4, InitRows DEF LatestInv, Closed, Latest
<1>2. RowInv /\ LatestInv /\ [Next]_vars => RowInv' /\ LatestInv'
    BY RowStep, LatestStep
<1>3. RowInv /\ LatestInv => LatestIsHighest
    <2> SUFFICES ASSUME RowInv, ~removed, NEW k \in Field, Latest(Kept, k)
                 PROVE  Selected(k, 1) = {r \in Stored(k) :
                            \A s \in Stored(k) : value[s].now.version <= value[r].now.version}
        BY DEF LatestInv, LatestIsHighest
    <2>1. /\ Stored(k) = Of(Kept, k)
          /\ \A r \in Stored(k) : r \in RowId /\ Kept[r] = value[r].now /\ value[r].now \in Value
        BY DEF Stored, Of, Kept, RowInv, Typed, TypeOK, Table
    <2>2. \A r \in Stored(k) : value[r].now.version \in Nat /\ value[r].now.max \in Nat
        BY <2>1, Bounds DEF Value, Version
    <2>3. \A r \in Stored(k) : r \in Selected(k, 1) <=> value[r].now.version = value[r].now.max
        BY <2>2 DEF Selected
    <2>4. \A r \in Stored(k) : /\ \A s \in Stored(k) : value[s].now.version <= value[r].now.max
                               /\ \E s \in Stored(k) : value[s].now.version = value[r].now.max
        BY <2>1 DEF Latest, Has
    <2>5. \A r \in Stored(k) : value[r].now.version = value[r].now.max
              <=> \A s \in Stored(k) : value[s].now.version <= value[r].now.version
        BY <2>2, <2>4
    <2> QED BY <2>3, <2>5 DEF Selected
<1> QED BY <1>1, <1>2, <1>3, PTL DEF Spec

-----------------------------------------------------------------------------
(* Values and grids, when every value brings a grid of its own               *)

Refers(x, g) == x # NoValue /\ x.grid = g
Mentions(r, g) == Refers(value[r].now, g) \/ Refers(value[r].next, g)
Bringing(p) == pc[p] \in {"picked", "update", "file"}

\* Nothing is known of an identifier that has not been handed out.
FreshGrids ==
    \A g \in Grid : g >= nextGrid => grid[g] = Settled("none") /\ \A r \in RowId : ~Mentions(r, g)

\* No grid has two rows, however long ago one of them was there.
OneRowEach == \A r, s \in RowId, g \in Grid : Mentions(r, g) /\ Mentions(s, g) => r = s

\* A write that is under way is alone with its grid, which is not there yet; only its
\* own new row names it.
OwnGrids ==
    \A p \in Client : Bringing(p) =>
        /\ call[p].new /\ call[p].grid \in Grid /\ call[p].grid < nextGrid
        /\ grid[call[p].grid] = Settled("none")
        /\ \A q \in Client : q # p /\ Bringing(q) => call[q].grid # call[p].grid
        /\ \A r \in RowId : Mentions(r, call[p].grid) =>
              pc[p] = "file" /\ value[r].by = p /\ value[r].now = NoValue
        /\ pc[p] = "file" => \E r \in RowId : value[r].by = p /\ Refers(value[r].next, call[p].grid)

\* What is committed: a value and its grid, or neither.
Paired ==
    /\ \A r \in RowId : value[r].now # NoValue => grid[value[r].now.grid].now = "active"
    /\ \A g \in Grid : grid[g].now = "active" => \E r \in RowId : Refers(value[r].now, g)

\* What a transaction has still to do about the grid of a row it has added or deleted.
RowsOwe ==
    \A r \in RowId, p \in Client : value[r].by = p =>
        /\ value[r].next # NoValue /\ value[r].now = NoValue =>
              \/ pc[p] = "file" /\ call[p].grid = value[r].next.grid
              \/ grid[value[r].next.grid].by = p /\ grid[value[r].next.grid].next = "active"
        /\ value[r].next = NoValue /\ value[r].now # NoValue =>
              \/ value[r].now.grid \in fired[p]
              \/ grid[value[r].now.grid].by = p /\ grid[value[r].now.grid].next = "inactive"

\* What the changes of a transaction to a grid say of its rows.
GridsOwe ==
    \A g \in Grid, p \in Client : grid[g].by = p =>
        /\ grid[g].next \in {"active", "inactive"}
        /\ grid[g].next = "active" =>
              /\ grid[g].now = "none"
              /\ g \in fired[p] \/ \E r \in RowId : value[r].by = p /\ Refers(value[r].next, g)
        /\ grid[g].next = "inactive" => \A r \in RowId : ~Refers(Seen(value, p, r), g)

GridInv == FreshGrids /\ OneRowEach /\ OwnGrids /\ Paired /\ RowsOwe /\ GridsOwe

\* Rows name grids that there are.
LEMMA GridsOfRows ==
    ASSUME Typed, NEW r \in RowId
    PROVE  /\ value[r].now # NoValue => value[r].now.grid \in Grid
           /\ value[r].next # NoValue => value[r].next.grid \in Grid
           /\ value[r].by \in Client \cup {NoProc}
BY DEF Typed, TypeOK, Table, Value

\* Another maxdataversion of a row changes nothing for its grid.
LEMMA UpdateKeepsGrids ==
    ASSUME RowInv, GridInv, NEW p \in Client, NEW r \in RowId, UpdateRow(p, r)
    PROVE  GridInv'
<1> USE DEF RowInv, GridInv
<1>0. /\ UNCHANGED <<grid, nextGrid, pc, call, fired>> /\ pc[p] = "update"
    BY DEF UpdateRow
<1>1. CASE value' = value
    BY <1>0, <1>1 DEF FreshGrids, OneRowEach, OwnGrids, Paired, RowsOwe, GridsOwe, Mentions, Bringing
<1>2. ASSUME NEW s \in Value, Alters(p, r, s) PROVE GridInv'
    <2>0. /\ value' = Put(value, p, r, s) /\ Free(value, p, r) /\ s # NoValue
          /\ Seen(value, p, r) # NoValue /\ s.grid = Seen(value, p, r).grid
        BY <1>2, GridConstants DEF Alters
    <2>1. /\ \A x \in RowId : value'[x].now = value[x].now
          /\ \A x \in RowId : x # r => value'[x] = value[x]
          /\ value'[r].by = p /\ value'[r].next = s
          /\ \A q \in Client, x \in RowId : q # p => Seen(value', q, x) = Seen(value, q, x)
          /\ \A x \in RowId : Seen(value', p, x) = IF x = r THEN s ELSE Seen(value, p, x)
          /\ \A q \in Client : q # p => value[r].by # q
        BY <2>0, OthersSee
    <2>2. \A x \in RowId, g \in Grid : Mentions(x, g)' => Mentions(x, g)
        BY <2>0, <2>1 DEF Mentions, Refers, Seen
    <2>3. \A x \in RowId, q \in Client, g \in Grid :
             value[x].by = q /\ Refers(value[x].next, g)
             => value'[x].by = q /\ Refers(value'[x].next, g)
        BY <2>0, <2>1 DEF Refers, Seen
    <2>4. \A q \in Client, x \in RowId, g \in Grid :
             Refers(Seen(value', q, x), g) => Refers(Seen(value, q, x), g)
        BY <2>0, <2>1 DEF Refers
    <2>5. FreshGrids' /\ OneRowEach'
        BY <1>0, <2>2 DEF FreshGrids, OneRowEach
    <2>6. OwnGrids'
        <3>1. \A q \in Client : Bringing(q)' <=> Bringing(q)
            BY <1>0 DEF Bringing
        <3>2. \A x \in RowId, q \in Client : pc[q] = "file" /\ value[x].by = q => value'[x] = value[x]
            BY <1>0, <2>1
        <3> QED BY <1>0, <2>1, <2>2, <2>3, <3>1, <3>2 DEF OwnGrids
    <2>7. Paired'
        BY <1>0, <2>1 DEF Paired
    <2>8. RowsOwe'
        <3>1. \A x \in RowId, q \in Client : x # r => (value'[x].by = q => value[x].by = q /\ value'[x] = value[x])
            BY <2>1
        <3>2. value[r].now = NoValue => value[r].by = p /\ value[r].next # NoValue /\ value[r].next.grid = s.grid
            BY <2>0 DEF Seen
        <3>3. \A q \in Client : value'[r].by = q => q = p
            BY <2>1
        <3> QED BY <1>0, <2>0, <2>1, <3>1, <3>2, <3>3 DEF RowsOwe
    <2>9. GridsOwe'
        BY <1>0, <2>3, <2>4 DEF GridsOwe
    <2> QED BY <2>5, <2>6, <2>7, <2>8, <2>9
<1> QED BY <1>1, <1>2, UpdateAlters

\* A deletion leaves its grid to the trigger.
LEMMA DeleteKeepsGrids ==
    ASSUME RowInv, GridInv, NEW p \in Client, NEW r \in RowId, DeleteRow(p, r)
    PROVE  GridInv'
<1> USE DEF RowInv, GridInv
<1>0. /\ UNCHANGED <<grid, nextGrid, pc, call>> /\ pc[p] = "delete"
    BY DEF DeleteRow
<1>1. CASE UNCHANGED <<value, fired>>
    BY <1>0, <1>1 DEF FreshGrids, OneRowEach, OwnGrids, Paired, RowsOwe, GridsOwe, Mentions, Bringing
<1>2. CASE Alters(p, r, NoValue) /\ fired' = [fired EXCEPT ![p] = @ \cup {Seen(value, p, r).grid}]
    <2>0. /\ value' = Put(value, p, r, NoValue) /\ Free(value, p, r) /\ Seen(value, p, r) # NoValue
        BY <1>2 DEF Alters
    <2>1. /\ \A x \in RowId : value'[x].now = value[x].now
          /\ \A x \in RowId : x # r => value'[x] = value[x]
          /\ value'[r].by = p /\ value'[r].next = NoValue
          /\ \A q \in Client, x \in RowId : q # p => Seen(value', q, x) = Seen(value, q, x)
          /\ \A x \in RowId : Seen(value', p, x) = IF x = r THEN NoValue ELSE Seen(value, p, x)
          /\ \A q \in Client : q # p => value[r].by # q
        BY <2>0, OthersSee
    <2>2. /\ \A q \in Client : fired[q] \subseteq fired'[q]
          /\ Seen(value, p, r).grid \in fired'[p]
        BY <1>2 DEF Typed, TypeOK
    <2>3. \A x \in RowId, g \in Grid : Mentions(x, g)' => Mentions(x, g)
        BY <2>1 DEF Mentions, Refers
    <2>4. \A q \in Client, x \in RowId, g \in Grid :
             Refers(Seen(value', q, x), g) => Refers(Seen(value, q, x), g)
        BY <2>1 DEF Refers
    <2>5. FreshGrids' /\ OneRowEach'
        BY <1>0, <2>3 DEF FreshGrids, OneRowEach
    <2>6. OwnGrids'
        <3>1. \A q \in Client : Bringing(q)' <=> Bringing(q)
            BY <1>0 DEF Bringing
        <3>2. \A x \in RowId, q \in Client : pc[q] = "file" /\ value[x].by = q => value'[x] = value[x]
            BY <1>0, <2>1
        <3> QED BY <1>0, <2>1, <2>3, <3>1, <3>2 DEF OwnGrids
    <2>7. Paired'
        BY <1>0, <2>1 DEF Paired
    <2>8. RowsOwe'
        <3>1. \A x \in RowId, q \in Client : x # r => (value'[x].by = q => value[x].by = q /\ value'[x] = value[x])
            BY <2>1
        <3>2. value[r].now # NoValue => value[r].now.grid \in fired'[p]
            BY <2>0, <2>2 DEF Seen, SameRow
        <3>3. \A q \in Client : value'[r].by = q => q = p
            BY <2>1
        <3> QED BY <1>0, <2>1, <2>2, <3>1, <3>2, <3>3 DEF RowsOwe
    <2>9. GridsOwe'
        <3>1. ASSUME NEW g \in Grid, NEW q \in Client, NEW x \in RowId, value[x].by = q,
                     Refers(value[x].next, g)
              PROVE  g \in fired'[q] \/ (value'[x].by = q /\ Refers(value'[x].next, g))
            BY <2>1, <2>2, <3>1 DEF Refers, Seen
        <3> QED BY <1>0, <2>2, <2>4, <3>1 DEF GridsOwe
    <2> QED BY <2>5, <2>6, <2>7, <2>8, <2>9
<1> QED BY <1>1, <1>2, DeleteAlters

\* A new row names the grid that its transaction is about to write.
LEMMA InsertKeepsGrids ==
    ASSUME RowInv, GridInv, NEW p \in Client, InsertValue(p)
    PROVE  GridInv'
<1> USE DEF RowInv, GridInv
<1>0. /\ UNCHANGED <<grid, nextGrid, call, fired>> /\ pc[p] = "update" /\ pc'[p] = "file"
      /\ \A q \in Client : q # p => pc'[q] = pc[q]
    BY DEF InsertValue, Typed, TypeOK
<1>1. PICK s \in Value : /\ Inserts(p, nextRow, s) /\ nextRow \in RowId
                         /\ s.grid = call[p].grid
    BY InsertInserts
<1>2. PICK r \in RowId : r = nextRow
    BY <1>1
<1>3. /\ value' = Put(value, p, r, s) /\ s # NoValue /\ Free(value, p, r)
      /\ value[r].now = NoValue /\ value[r].next = NoValue /\ value[r].by = NoProc
    BY <1>1, <1>2, SettledRow, GridConstants DEF Inserts, Unused, RowId, Free
<1>4. /\ \A x \in RowId : value'[x].now = value[x].now
      /\ \A x \in RowId : x # r => value'[x] = value[x]
      /\ value'[r].by = p /\ value'[r].next = s
      /\ \A q \in Client, x \in RowId : q # p => Seen(value', q, x) = Seen(value, q, x)
      /\ \A x \in RowId : Seen(value', p, x) = IF x = r THEN s ELSE Seen(value, p, x)
    BY <1>3, OthersSee
<1>5. PICK h \in Grid : h = call[p].grid
    BY <1>0 DEF OwnGrids, Bringing
<1>6. /\ h < nextGrid /\ grid[h] = Settled("none") /\ call[p].new
      /\ \A q \in Client : q # p /\ Bringing(q) => call[q].grid # h
      /\ \A x \in RowId : ~Mentions(x, h)
    BY <1>0, <1>5 DEF OwnGrids, Bringing
<1>7. \A x \in RowId, g \in Grid : Mentions(x, g)' <=> (Mentions(x, g) \/ (x = r /\ g = h))
    BY <1>1, <1>3, <1>4, <1>5 DEF Mentions, Refers
<1>8. ~(h >= nextGrid)
    BY <1>6, Bounds DEF Typed, TypeOK, Grid
<1>9. FreshGrids'
    BY <1>0, <1>7, <1>8 DEF FreshGrids
<1>10. OneRowEach'
    BY <1>3, <1>6, <1>7 DEF OneRowEach, Mentions, Refers
<1>11. OwnGrids'
    <2>1. \A t \in Client : Bringing(t)' => Bringing(t)
        BY <1>0 DEF Bringing
    <2>2. \A t \in Client : Bringing(t) => call[t].grid \in Grid
        BY DEF OwnGrids
    <2> SUFFICES ASSUME NEW q \in Client, Bringing(q)', NEW g \in Grid, g = call[q].grid
                 PROVE  /\ call[q].new /\ g < nextGrid /\ grid[g] = Settled("none")
                        /\ \A t \in Client : t # q /\ Bringing(t)' => call[t].grid # g
                        /\ \A x \in RowId : Mentions(x, g)' =>
                              pc'[q] = "file" /\ value'[x].by = q /\ value'[x].now = NoValue
                        /\ pc'[q] = "file" => \E x \in RowId :
                              value'[x].by = q /\ Refers(value'[x].next, g)
        BY <1>0, <2>1, <2>2 DEF OwnGrids, Mentions
    <2>3. /\ call[q].new /\ g < nextGrid /\ grid[g] = Settled("none")
          /\ \A t \in Client : t # q /\ Bringing(t)' => call[t].grid # g
        BY <2>1 DEF OwnGrids
    <2>4. CASE q = p
        <3>1. g = h
            BY <1>5, <2>4
        <3>2. \A x \in RowId : Mentions(x, g)' => x = r
            BY <1>6, <1>7, <3>1
        <3>3. value'[r].by = p /\ Refers(value'[r].next, g) /\ value'[r].now = NoValue
            BY <1>1, <1>3, <1>4, <1>5, <3>1 DEF Refers
        <3> QED BY <1>0, <2>3, <2>4, <3>2, <3>3
    <2>5. CASE q # p
        <3>1. g # h /\ \A x \in RowId : Mentions(x, g)' => Mentions(x, g)
            BY <1>6, <1>7, <2>1, <2>5
        <3>2. \A x \in RowId : value[x].by = q => value'[x] = value[x]
            BY <1>3, <1>4, GridConstants
        <3>3. /\ \A x \in RowId : Mentions(x, g) =>
                    pc[q] = "file" /\ value[x].by = q /\ value[x].now = NoValue
              /\ pc[q] = "file" => \E x \in RowId : value[x].by = q /\ Refers(value[x].next, g)
            BY <2>1 DEF OwnGrids
        <3> QED BY <1>0, <2>3, <2>5, <3>1, <3>2, <3>3
    <2> QED BY <2>4, <2>5
<1>12. Paired'
    BY <1>0, <1>4 DEF Paired
<1>13. RowsOwe'
    <2>1. \A x \in RowId, q \in Client : x # r => (value'[x].by = q => value[x].by = q /\ value'[x] = value[x])
        BY <1>4
    <2>2. \A q \in Client : value'[r].by = q => q = p
        BY <1>4
    <2>3. s.grid = call'[p].grid
        BY <1>0, <1>1
    <2>4. \A q \in Client : pc[q] = "file" => pc'[q] = "file"
        BY <1>0
    <2> QED BY <1>0, <1>3, <1>4, <2>1, <2>2, <2>3, <2>4 DEF RowsOwe
<1>14. GridsOwe'
    <2>1. \A x \in RowId, q \in Client : value[x].by = q => value'[x] = value[x]
        BY <1>3, <1>4, GridConstants
    <2>2. grid[h].by = NoProc
        BY <1>6, SettledRow
    <2>3. ASSUME NEW g \in Grid, NEW q \in Client, grid[g].by = q, grid[g].next = "inactive",
                 NEW x \in RowId
          PROVE  ~Refers(Seen(value', q, x), g)
        <3>1. ~Refers(Seen(value, q, x), g)
            BY <2>3 DEF GridsOwe
        <3>2. g # h
            BY <2>2, <2>3, GridConstants
        <3>3. ~Refers(s, g)
            BY <1>1, <1>5, <3>2 DEF Refers
        <3> QED BY <1>4, <3>1, <3>3
    <2> QED BY <1>0, <2>1, <2>3 DEF GridsOwe
<1> QED BY <1>9, <1>10, <1>11, <1>12, <1>13, <1>14

\* The grid table after a change by p.
LEMMA PutGrids ==
    ASSUME Typed, NEW p \in Client, NEW h \in Grid, NEW s, Free(grid, p, h),
           grid' = Put(grid, p, h, s)
    PROVE  /\ grid'[h].by = p /\ grid'[h].next = s
           /\ \A g \in Grid : g # h => grid'[g] = grid[g]
           /\ \A g \in Grid : grid'[g].now = grid[g].now
           /\ \A q \in Client : q # p => grid[h].by # q
<1>1. \A g \in Grid : grid'[g] = IF g = h THEN [now |-> grid[h].now, by |-> p, next |-> s] ELSE grid[g]
    BY DEF Put, Typed, TypeOK, Table
<1>2. grid'[h].by = p /\ grid'[h].next = s /\ grid'[h].now = grid[h].now
    BY <1>1
<1>3. \A q \in Client : q # p => grid[h].by # q
    BY GridConstants DEF Free
<1> QED BY <1>1, <1>2, <1>3

\* write_file stores the grid of the new row (wciWriteInternals.in.sql).
LEMMA FinishKeepsGrids ==
    ASSUME RowInv, GridInv, NEW p \in Client, FinishWrite(p)
    PROVE  GridInv'
<1> USE DEF RowInv, GridInv
<1>0. /\ UNCHANGED <<value, nextGrid, fired>> /\ pc[p] = "file" /\ pc'[p] = "ready"
      /\ \A q \in Client : q # p => pc'[q] = pc[q] /\ call'[q] = call[q]
    BY DEF FinishWrite, Typed, TypeOK
<1>1. PICK h \in Grid : h = call[p].grid
    BY <1>0 DEF OwnGrids, Bringing
<1>2. /\ h < nextGrid /\ grid[h] = Settled("none") /\ call[p].new
      /\ \A q \in Client : q # p /\ Bringing(q) => call[q].grid # h
      /\ \A r \in RowId : Mentions(r, h) => value[r].by = p /\ value[r].now = NoValue
      /\ \E r \in RowId : value[r].by = p /\ Refers(value[r].next, h)
    BY <1>0, <1>1 DEF OwnGrids, Bringing
<1>3. /\ grid[h].now = "none" /\ grid[h].by = NoProc
      /\ grid' = Put(grid, p, h, "active") /\ Free(grid, p, h)
    BY <1>1, <1>2, SettledRow DEF FinishWrite, Free
<1>4. /\ grid'[h].by = p /\ grid'[h].next = "active"
      /\ \A g \in Grid : g # h => grid'[g] = grid[g]
      /\ \A g \in Grid : grid'[g].now = grid[g].now
    BY <1>3, PutGrids
<1>5. FreshGrids'
    <2>1. ~(h >= nextGrid)
        BY <1>2, Bounds DEF Typed, TypeOK, Grid
    <2> QED BY <1>0, <1>4, <2>1 DEF FreshGrids, Mentions
<1>6. OneRowEach'
    BY <1>0 DEF OneRowEach, Mentions
<1>7. OwnGrids'
    <2> SUFFICES ASSUME NEW q \in Client, Bringing(q)'
                 PROVE  /\ call'[q].new /\ call'[q].grid \in Grid /\ call'[q].grid < nextGrid
                        /\ grid'[call'[q].grid] = Settled("none")
                        /\ \A t \in Client : t # q /\ Bringing(t)' => call'[t].grid # call'[q].grid
                        /\ \A x \in RowId : Mentions(x, call'[q].grid) =>
                              pc'[q] = "file" /\ value[x].by = q /\ value[x].now = NoValue
                        /\ pc'[q] = "file" => \E x \in RowId :
                              value[x].by = q /\ Refers(value[x].next, call'[q].grid)
        BY <1>0 DEF OwnGrids, Mentions
    <2>1. q # p /\ Bringing(q) /\ \A t \in Client : Bringing(t)' => Bringing(t) /\ t # p
        BY <1>0 DEF Bringing
    <2>2. call'[q] = call[q] /\ call[q].grid # h /\ pc'[q] = pc[q]
        BY <1>0, <1>2, <2>1
    <2> QED BY <1>0, <1>4, <2>1, <2>2 DEF OwnGrids
<1>8. Paired'
    <2>1. \A r \in RowId : value[r].now # NoValue => value[r].now.grid \in Grid
        BY GridsOfRows
    <2> QED BY <1>0, <1>4, <2>1 DEF Paired
<1>9. RowsOwe'
    <2> SUFFICES ASSUME NEW r \in RowId, NEW q \in Client, value[r].by = q
                 PROVE  /\ value[r].next # NoValue /\ value[r].now = NoValue =>
                             \/ pc'[q] = "file" /\ call'[q].grid = value[r].next.grid
                             \/ grid'[value[r].next.grid].by = q /\ grid'[value[r].next.grid].next = "active"
                        /\ value[r].next = NoValue /\ value[r].now # NoValue =>
                             \/ value[r].now.grid \in fired[q]
                             \/ grid'[value[r].now.grid].by = q /\ grid'[value[r].now.grid].next = "inactive"
        BY <1>0 DEF RowsOwe
    <2>1. ASSUME value[r].next # NoValue, value[r].now = NoValue
          PROVE  \/ pc'[q] = "file" /\ call'[q].grid = value[r].next.grid
                 \/ grid'[value[r].next.grid].by = q /\ grid'[value[r].next.grid].next = "active"
        <3>1. PICK g \in Grid : g = value[r].next.grid
            BY <2>1, GridsOfRows
        <3>2. CASE g = h
            <4>1. Mentions(r, h)
                BY <2>1, <3>1, <3>2 DEF Mentions, Refers
            <4> QED BY <1>2, <1>4, <3>1, <3>2, <4>1
        <3>3. CASE g # h
            <4>1. grid'[g] = grid[g]
                BY <1>4, <3>3
            <4>2. (pc[q] = "file" /\ call[q].grid = g) \/ (grid[g].by = q /\ grid[g].next = "active")
                BY <2>1, <3>1 DEF RowsOwe
            <4>3. pc[q] = "file" /\ call[q].grid = g => q # p
                BY <1>1, <3>3
            <4> QED BY <1>0, <3>1, <4>1, <4>2, <4>3
        <3> QED BY <3>2, <3>3
    <2>2. ASSUME value[r].next = NoValue, value[r].now # NoValue
          PROVE  \/ value[r].now.grid \in fired[q]
                 \/ grid'[value[r].now.grid].by = q /\ grid'[value[r].now.grid].next = "inactive"
        <3>1. PICK g \in Grid : g = value[r].now.grid
            BY <2>2, GridsOfRows
        <3>2. g # h
            BY <1>2, <2>2, <3>1 DEF Mentions, Refers
        <3> QED BY <1>4, <2>2, <3>1, <3>2 DEF RowsOwe
    <2> QED BY <2>1, <2>2
<1>10. GridsOwe'
    <2>1. \A q \in Client : grid'[h].by = q => q = p
        BY <1>4
    <2> QED BY <1>0, <1>2, <1>3, <1>4, <2>1 DEF GridsOwe
<1> QED BY <1>5, <1>6, <1>7, <1>8, <1>9, <1>10

\* The trigger on deletions: it drops the grid when its transaction sees no row of
\* it, and otherwise no row of it was deleted (gridValueTriggers.in.sql).
LEMMA TriggerKeepsGrids ==
    ASSUME RowInv, GridInv, NEW p \in Client, NEW g \in Grid, Trigger(p, g)
    PROVE  GridInv'
<1> USE DEF RowInv, GridInv
<1>0. /\ UNCHANGED <<value, nextGrid, pc, call>> /\ pc[p] = "delete"
      /\ \A q \in Client, h \in Grid : q # p \/ h # g => (h \in fired'[q] <=> h \in fired[q])
      /\ \A q \in Client : fired'[q] \subseteq fired[q]
    BY DEF Trigger, Typed, TypeOK
<1>1. OneRowEach'
    BY <1>0 DEF OneRowEach, Mentions
<1>2. \A r \in RowId : /\ value[r].now # NoValue => value[r].now.grid \in Grid
                       /\ value[r].next # NoValue => value[r].next.grid \in Grid
    BY GridsOfRows
<1>3. CASE References(p, g) = {} /\ Seen(grid, p, g) # "none"
    <2>1. \A r \in RowId : ~Refers(Seen(value, p, r), g)
        BY <1>3 DEF References, Rows, Refers
    <2>2. Free(grid, p, g) /\ grid' = Put(grid, p, g, "inactive")
        BY <1>3 DEF Trigger
    <2>3. /\ grid'[g].by = p /\ grid'[g].next = "inactive"
          /\ \A h \in Grid : h # g => grid'[h] = grid[h]
          /\ \A h \in Grid : grid'[h].now = grid[h].now
          /\ \A q \in Client : q # p => grid[g].by # q
        BY <2>2, PutGrids
    <2>4. grid[g] # Settled("none")
        BY <1>3, SettledRow DEF Seen
    <2>5. FreshGrids'
        BY <1>0, <2>3, <2>4 DEF FreshGrids, Mentions
    <2>6. OwnGrids'
        BY <1>0, <2>3, <2>4 DEF OwnGrids, Mentions, Bringing
    <2>7. Paired'
        BY <1>0, <1>2, <2>3 DEF Paired
    <2>8. RowsOwe'
        <3> SUFFICES ASSUME NEW r \in RowId, NEW q \in Client, value[r].by = q
                     PROVE  /\ value[r].next # NoValue /\ value[r].now = NoValue =>
                                 \/ pc[q] = "file" /\ call[q].grid = value[r].next.grid
                                 \/ /\ grid'[value[r].next.grid].by = q
                                    /\ grid'[value[r].next.grid].next = "active"
                            /\ value[r].next = NoValue /\ value[r].now # NoValue =>
                                 \/ value[r].now.grid \in fired'[q]
                                 \/ /\ grid'[value[r].now.grid].by = q
                                    /\ grid'[value[r].now.grid].next = "inactive"
            BY <1>0 DEF RowsOwe
        <3>1. value[r].next # NoValue /\ value[r].next.grid = g => q # p
            BY <2>1 DEF Refers, Seen
        <3> QED BY <1>0, <1>2, <2>3, <3>1 DEF RowsOwe
    <2>9. GridsOwe'
        BY <1>0, <2>1, <2>3 DEF GridsOwe
    <2> QED BY <1>1, <2>5, <2>6, <2>7, <2>8, <2>9
<1>4. CASE References(p, g) # {} \/ Seen(grid, p, g) = "none"
    <2>1. grid' = grid
        BY <1>4 DEF Trigger
    <2>2. FreshGrids' /\ OwnGrids' /\ Paired'
        BY <1>0, <2>1 DEF FreshGrids, OwnGrids, Paired, Mentions, Bringing
    <2>3. Seen(grid, p, g) # "none" => \E s \in RowId : Refers(Seen(value, p, s), g)
        BY <1>4 DEF References, Rows, Refers
    <2>4. grid[g].by = p => grid[g].next # "none"
        BY DEF GridsOwe
    <2>5. RowsOwe'
        <3>1. ASSUME NEW r \in RowId, value[r].by = p, value[r].next = NoValue,
                     value[r].now # NoValue, value[r].now.grid = g
              PROVE  FALSE
            <4>1. grid[g].now = "active"
                BY <3>1 DEF Paired
            <4>2. PICK s \in RowId : Refers(Seen(value, p, s), g)
                BY <2>3, <2>4, <4>1 DEF Seen
            <4>3. s = r
                BY <3>1, <4>2 DEF OneRowEach, Mentions, Refers, Seen
            <4> QED BY <3>1, <4>2, <4>3 DEF Refers, Seen
        <3> QED BY <1>0, <1>2, <2>1, <3>1 DEF RowsOwe
    <2>6. GridsOwe'
        <3>1. ASSUME grid[g].by = p, grid[g].next = "active", grid[g].now = "none"
              PROVE  \E r \in RowId : value[r].by = p /\ Refers(value[r].next, g)
            <4>1. PICK s \in RowId : Refers(Seen(value, p, s), g)
                BY <2>3, <3>1 DEF Seen
            <4>2. ~Refers(value[s].now, g)
                BY <3>1 DEF Paired, Refers
            <4> QED BY <4>1, <4>2 DEF Seen
        <3> QED BY <1>0, <2>1, <3>1 DEF GridsOwe
    <2> QED BY <1>1, <2>2, <2>5, <2>6
<1> QED BY <1>3, <1>4

\* The rows and the grids after the end of the transaction of p, whose changes
\* become f of them: what was committed, or what p saw.
LEMMA EndTables ==
    ASSUME Typed, NEW p \in Client
    PROVE  /\ \A x \in RowId : value[x].by # p => /\ Committed(value, p)[x] = value[x]
                                                 /\ RolledBack(value, p)[x] = value[x]
           /\ \A x \in RowId : value[x].by = p =>
                 /\ Committed(value, p)[x] = Settled(value[x].next)
                 /\ RolledBack(value, p)[x] = Settled(value[x].now)
           /\ \A g \in Grid : grid[g].by # p => /\ Committed(grid, p)[g] = grid[g]
                                                /\ RolledBack(grid, p)[g] = grid[g]
           /\ \A g \in Grid : grid[g].by = p =>
                 /\ Committed(grid, p)[g] = Settled(grid[g].next)
                 /\ RolledBack(grid, p)[g] = Settled(grid[g].now)
BY DEF Committed, RolledBack, Typed, TypeOK, Table

\* The end of a transaction disturbs neither the grids that are not handed out nor
\* the writes of others.
LEMMA EndKeepsOthers ==
    ASSUME RowInv, GridInv, NEW p \in Client, End(p),
           \A x \in RowId : value[x].by # p => value'[x] = value[x],
           \A x \in RowId : value[x].by = p =>
               /\ value'[x].by = NoProc /\ value'[x].now = value'[x].next
               /\ value'[x].now \in {value[x].now, value[x].next},
           \A g \in Grid : grid[g].by # p => grid'[g] = grid[g],
           \A g \in Grid : grid[g].by = p => grid'[g].by = NoProc
    PROVE  /\ FreshGrids' /\ OneRowEach' /\ OwnGrids' /\ RowsOwe'
           /\ \A q \in Client : q # p => fired'[q] = fired[q]
           /\ \A q \in Client, x \in RowId : value'[x].by = q => q # p /\ value'[x] = value[x]
           /\ \A q \in Client, g \in Grid : grid'[g].by = q => q # p /\ grid'[g] = grid[g]
<1> USE DEF RowInv, GridInv
<1>1. \A x \in RowId, g \in Grid : Mentions(x, g)' => Mentions(x, g)
    <2> SUFFICES ASSUME NEW x \in RowId, NEW g \in Grid, Mentions(x, g)' PROVE Mentions(x, g)
        OBVIOUS
    <2>1. CASE value[x].by = p
        BY <2>1 DEF Mentions
    <2>2. CASE value[x].by # p
        BY <2>2 DEF Mentions
    <2> QED BY <2>1, <2>2
<1>2. \A g \in Grid : grid[g] = Settled("none") => grid'[g] = grid[g]
    BY SettledRow, GridConstants
<1>3. /\ nextGrid' = nextGrid /\ pc'[p] = "ready"
      /\ \A q \in Client : q # p => pc'[q] = pc[q] /\ call'[q] = call[q] /\ fired'[q] = fired[q]
    BY DEF End, Typed, TypeOK
<1>4. \A q \in Client, x \in RowId : value'[x].by = q => q # p /\ value'[x] = value[x]
    BY GridConstants
<1>5. \A q \in Client, g \in Grid : grid'[g].by = q => q # p /\ grid'[g] = grid[g]
    BY GridConstants
<1>6. FreshGrids' /\ OneRowEach'
    BY <1>1, <1>2, <1>3 DEF FreshGrids, OneRowEach
<1>7. OwnGrids'
    <2>1. \A t \in Client : Bringing(t)' => t # p /\ Bringing(t)
        BY <1>3 DEF Bringing
    <2>2. \A t \in Client : Bringing(t) => call[t].grid \in Grid
        BY DEF OwnGrids
    <2> SUFFICES ASSUME NEW q \in Client, Bringing(q)', NEW g \in Grid, g = call[q].grid
                 PROVE  /\ call[q].new /\ g < nextGrid /\ grid'[g] = Settled("none")
                        /\ \A t \in Client : t # q /\ Bringing(t)' => call[t].grid # g
                        /\ \A x \in RowId : Mentions(x, g)' =>
                              pc[q] = "file" /\ value'[x].by = q /\ value'[x].now = NoValue
                        /\ pc[q] = "file" => \E x \in RowId :
                              value'[x].by = q /\ Refers(value'[x].next, g)
        BY <1>3, <2>1, <2>2 DEF OwnGrids, Mentions
    <2>3. /\ call[q].new /\ g < nextGrid /\ grid'[g] = Settled("none")
          /\ \A t \in Client : t # q /\ Bringing(t)' => call[t].grid # g
        BY <1>2, <2>1 DEF OwnGrids
    <2>4. \A x \in RowId : value[x].by = q => value'[x] = value[x]
        BY <2>1
    <2>5. /\ \A x \in RowId : Mentions(x, g) =>
                pc[q] = "file" /\ value[x].by = q /\ value[x].now = NoValue
          /\ pc[q] = "file" => \E x \in RowId : value[x].by = q /\ Refers(value[x].next, g)
        BY <2>1 DEF OwnGrids
    <2> QED BY <1>1, <2>3, <2>4, <2>5
<1>8. RowsOwe'
    <2> SUFFICES ASSUME NEW r \in RowId, NEW q \in Client, value'[r].by = q
                 PROVE  /\ value'[r].next # NoValue /\ value'[r].now = NoValue =>
                             \/ pc'[q] = "file" /\ call'[q].grid = value'[r].next.grid
                             \/ /\ grid'[value'[r].next.grid].by = q
                                /\ grid'[value'[r].next.grid].next = "active"
                        /\ value'[r].next = NoValue /\ value'[r].now # NoValue =>
                             \/ value'[r].now.grid \in fired'[q]
                             \/ /\ grid'[value'[r].now.grid].by = q
                                /\ grid'[value'[r].now.grid].next = "inactive"
        BY DEF RowsOwe
    <2>1. q # p /\ value'[r] = value[r] /\ value[r].by = q
        BY <1>4
    <2>2. \A g \in Grid : grid[g].by = q => grid'[g] = grid[g]
        BY <2>1
    <2>3. /\ value[r].now # NoValue => value[r].now.grid \in Grid
          /\ value[r].next # NoValue => value[r].next.grid \in Grid
        BY GridsOfRows
    <2> QED BY <1>3, <2>1, <2>2, <2>3 DEF RowsOwe
<1> QED BY <1>3, <1>4, <1>5, <1>6, <1>7, <1>8

\* COMMIT: what a transaction has done to values it has done to their grids.
LEMMA CommitKeepsGrids ==
    ASSUME RowInv, GridInv, NEW p \in Client, ClientCommit(p)
    PROVE  GridInv'
<1> USE DEF RowInv, GridInv
<1>0. /\ pc[p] = "ready" /\ fired[p] = {} /\ End(p)
      /\ value' = Committed(value, p) /\ grid' = Committed(grid, p)
    BY DEF ClientCommit, Listed
<1>1. /\ \A x \in RowId : value[x].by # p => value'[x] = value[x]
      /\ \A x \in RowId : value[x].by = p =>
            /\ value'[x].by = NoProc /\ value'[x].now = value'[x].next
            /\ value'[x].now = value[x].next
    BY <1>0, EndTables, SettledRow
<1>2. /\ \A g \in Grid : grid[g].by # p => grid'[g] = grid[g]
      /\ \A g \in Grid : grid[g].by = p => grid'[g].by = NoProc /\ grid'[g].now = grid[g].next
    BY <1>0, EndTables, SettledRow
<1>3. /\ FreshGrids' /\ OneRowEach' /\ OwnGrids' /\ RowsOwe'
      /\ \A q \in Client : q # p => fired'[q] = fired[q]
      /\ \A q \in Client, x \in RowId : value'[x].by = q => q # p /\ value'[x] = value[x]
      /\ \A q \in Client, g \in Grid : grid'[g].by = q => q # p /\ grid'[g] = grid[g]
    BY <1>0, <1>1, <1>2, EndKeepsOthers
<1>4. \A r \in RowId : /\ value[r].now # NoValue => value[r].now.grid \in Grid
                       /\ value[r].next # NoValue => value[r].next.grid \in Grid
    BY GridsOfRows
<1>5. \A r \in RowId : value[r].now # NoValue /\ value[r].next # NoValue
                       => value[r].now.grid = value[r].next.grid
    BY DEF SameRow
<1>6. ASSUME NEW r \in RowId, value'[r].now # NoValue PROVE grid'[value'[r].now.grid].now = "active"
    <2>1. PICK g \in Grid : g = value'[r].now.grid
        BY <1>1, <1>4, <1>6
    <2>2. Refers(Seen(value, p, r), g)
        BY <1>1, <1>6, <2>1 DEF Refers, Seen
    <2>3. grid[g].by = p => grid[g].next = "active"
        BY <2>2 DEF GridsOwe
    <2>4. CASE value[r].now = NoValue
        <3>1. value[r].by = p /\ value[r].next # NoValue /\ value[r].next.grid = g
            BY <1>1, <1>6, <2>1, <2>4
        <3> QED BY <1>0, <1>2, <2>1, <2>4, <3>1 DEF RowsOwe
    <2>5. CASE value[r].now # NoValue
        <3>1. value[r].now.grid = g
            BY <1>1, <1>5, <1>6, <2>1, <2>5
        <3>2. grid[g].now = "active"
            BY <2>5, <3>1 DEF Paired
        <3> QED BY <1>2, <2>1, <2>3, <3>2
    <2> QED BY <2>4, <2>5
<1>7. ASSUME NEW g \in Grid, grid'[g].now = "active" PROVE \E r \in RowId : Refers(value'[r].now, g)
    <2>1. CASE grid[g].by = p
        <3>1. PICK r \in RowId : value[r].by = p /\ Refers(value[r].next, g)
            BY <1>0, <1>2, <1>7, <2>1 DEF GridsOwe
        <3> QED BY <1>1, <3>1
    <2>2. CASE grid[g].by # p
        <3>1. PICK r \in RowId : Refers(value[r].now, g)
            BY <1>2, <1>7, <2>2 DEF Paired
        <3>2. CASE value[r].by # p
            BY <1>1, <3>1, <3>2
        <3>3. CASE value[r].by = p
            <4>1. value[r].next # NoValue
                BY <1>0, <2>2, <3>1, <3>3 DEF RowsOwe, Refers
            <4> QED BY <1>1, <1>5, <3>1, <3>3, <4>1 DEF Refers
        <3> QED BY <3>2, <3>3
    <2> QED BY <2>1, <2>2
<1>8. Paired'
    BY <1>6, <1>7 DEF Paired
<1>9. GridsOwe'
    <2>1. ASSUME NEW g \in Grid, NEW q \in Client, grid'[g].by = q, grid'[g].next = "inactive",
                 NEW r \in RowId, Refers(Seen(value', q, r), g)
          PROVE  FALSE
        <3>1. q # p /\ grid'[g] = grid[g] /\ grid[g].by = q
            BY <1>3, <2>1
        <3>2. ~Refers(Seen(value, q, r), g)
            BY <2>1, <3>1 DEF GridsOwe
        <3>3. value[r].by = p
            BY <1>1, <2>1, <3>2 DEF Seen
        <3>4. Refers(value[r].next, g)
            BY <1>1, <2>1, <3>3, GridConstants DEF Seen
        <3>5. ~Refers(value[r].now, g)
            BY <3>1, <3>2, <3>3 DEF Seen
        <3>6. value[r].next # NoValue /\ value[r].next.grid = g /\ value[r].now = NoValue
            BY <1>5, <3>4, <3>5 DEF Refers
        <3>7. grid[g].by = p
            BY <1>0, <3>3, <3>6 DEF RowsOwe
        <3> QED BY <3>1, <3>7
    <2>2. \A q \in Client, x \in RowId : q # p /\ value[x].by = q => value'[x] = value[x]
        BY <1>1
    <2> QED BY <1>3, <2>1, <2>2 DEF GridsOwe
<1> QED BY <1>3, <1>8, <1>9

\* ROLLBACK: what is committed stays as it is.
LEMMA AbortKeepsGrids ==
    ASSUME RowInv, GridInv, NEW p \in Client, ClientAbort(p)
    PROVE  GridInv'
<1> USE DEF RowInv, GridInv
<1>0. End(p) /\ value' = RolledBack(value, p) /\ grid' = RolledBack(grid, p)
    BY DEF ClientAbort
<1>1. /\ \A x \in RowId : value[x].by # p => value'[x] = value[x]
      /\ \A x \in RowId : value[x].by = p =>
            /\ value'[x].by = NoProc /\ value'[x].now = value'[x].next
            /\ value'[x].now = value[x].now
    BY <1>0, EndTables, SettledRow
<1>2. /\ \A g \in Grid : grid[g].by # p => grid'[g] = grid[g]
      /\ \A g \in Grid : grid[g].by = p => grid'[g].by = NoProc /\ grid'[g].now = grid[g].now
    BY <1>0, EndTables, SettledRow
<1>3. /\ FreshGrids' /\ OneRowEach' /\ OwnGrids' /\ RowsOwe'
      /\ \A q \in Client : q # p => fired'[q] = fired[q]
      /\ \A q \in Client, x \in RowId : value'[x].by = q => q # p /\ value'[x] = value[x]
      /\ \A q \in Client, g \in Grid : grid'[g].by = q => q # p /\ grid'[g] = grid[g]
    BY <1>0, <1>1, <1>2, EndKeepsOthers
<1>4. /\ \A x \in RowId : value'[x].now = value[x].now
      /\ \A g \in Grid : grid'[g].now = grid[g].now
    BY <1>1, <1>2
<1>5. Paired'
    <2>1. \A r \in RowId : value[r].now # NoValue => value[r].now.grid \in Grid
        BY GridsOfRows
    <2> QED BY <1>4, <2>1 DEF Paired
<1>6. GridsOwe'
    <2>1. \A q \in Client, x \in RowId : q # p => Seen(value', q, x) = Seen(value, q, x)
        BY <1>1, GridConstants DEF Seen
    <2>2. \A q \in Client, x \in RowId : q # p /\ value[x].by = q => value'[x] = value[x]
        BY <1>1
    <2> QED BY <1>3, <2>1, <2>2 DEF GridsOwe
<1> QED BY <1>3, <1>5, <1>6

\* The vacuum forgets a grid that no row names any more (vacuum_file_blob).
LEMMA VacuumKeepsGrids ==
    ASSUME RowInv, GridInv, NEW h \in Grid, VacuumGrid(h)
    PROVE  GridInv'
<1> USE DEF RowInv, GridInv
<1>0. /\ UNCHANGED <<value, nextGrid, pc, call, fired>>
      /\ grid[h].now = "inactive" /\ grid[h].by = NoProc
      /\ grid'[h] = Settled("none") /\ grid'[h].now = "none" /\ grid'[h].by = NoProc
      /\ \A g \in Grid : g # h => grid'[g] = grid[g]
    BY SettledRow DEF VacuumGrid, Typed, TypeOK, Table
<1>1. \A r \in RowId : /\ value[r].now # NoValue => value[r].now.grid \in Grid
                       /\ value[r].next # NoValue => value[r].next.grid \in Grid
    BY GridsOfRows
<1>2. \A g \in Grid : g # h => grid'[g] = grid[g]
    BY <1>0
<1>3. FreshGrids' /\ OneRowEach' /\ OwnGrids'
    BY <1>0 DEF FreshGrids, OneRowEach, OwnGrids, Mentions, Bringing
<1>4. Paired'
    BY <1>0, <1>1 DEF Paired
<1>5. RowsOwe'
    BY <1>0, <1>1, GridConstants DEF RowsOwe
<1>6. GridsOwe'
    BY <1>0, GridConstants DEF GridsOwe
<1> QED BY <1>3, <1>4, <1>5, <1>6

\* A write that begins is alone with the identifier it reserves.
LEMMA NewKeepsGrids ==
    ASSUME RowInv, GridInv, NEW p \in Client, NEW k \in Field, NEW v \in Version, WriteNew(p, k, v)
    PROVE  GridInv'
<1> USE DEF RowInv, GridInv
<1>1. PICK h \in Grid : h = nextGrid
    BY Bounds DEF WriteNew, Grid, Typed, TypeOK
<1>2. /\ UNCHANGED <<value, grid, fired>> /\ nextGrid' = nextGrid + 1
      /\ pc[p] = "ready" /\ pc'[p] = "picked" /\ call'[p].grid = h /\ call'[p].new
      /\ \A q \in Client : q # p => pc'[q] = pc[q] /\ call'[q] = call[q]
    BY <1>1 DEF WriteNew, Typed, TypeOK
<1>3. /\ grid[h] = Settled("none") /\ \A r \in RowId : ~Mentions(r, h)
      /\ \A q \in Client : Bringing(q) => call[q].grid # h
    BY <1>1, Bounds DEF FreshGrids, OwnGrids, Typed, TypeOK, Grid
<1>4. \A g \in Grid : (g < nextGrid => g < nextGrid') /\ (g >= nextGrid' => g >= nextGrid)
    BY <1>2, Bounds DEF Typed, TypeOK, Grid
<1>5. h < nextGrid'
    BY <1>1, <1>2, Bounds DEF Typed, TypeOK, Grid
<1>6. FreshGrids' /\ OneRowEach' /\ Paired' /\ GridsOwe'
    BY <1>2, <1>4 DEF FreshGrids, OneRowEach, Paired, GridsOwe, Mentions
<1>7. OwnGrids'
    <2>1. \A t \in Client : t # p => (Bringing(t)' <=> Bringing(t))
        BY <1>2 DEF Bringing
    <2>2. \A q \in Client : q # p /\ Bringing(q) =>
             /\ call[q].new /\ call[q].grid \in Grid /\ call[q].grid < nextGrid'
             /\ grid[call[q].grid] = Settled("none")
             /\ \A t \in Client : t # q /\ t # p /\ Bringing(t) => call[t].grid # call[q].grid
             /\ \A r \in RowId : Mentions(r, call[q].grid) =>
                   pc[q] = "file" /\ value[r].by = q /\ value[r].now = NoValue
             /\ pc[q] = "file" => \E r \in RowId : value[r].by = q /\ Refers(value[r].next, call[q].grid)
        BY <1>4 DEF OwnGrids
    <2> QED BY <1>2, <1>3, <1>5, <2>1, <2>2 DEF OwnGrids, Mentions
<1>8. RowsOwe'
    <2>1. \A q \in Client : pc[q] = "file" => q # p
        BY <1>2
    <2> QED BY <1>2, <2>1 DEF RowsOwe
<1> QED BY <1>6, <1>7, <1>8

\* The other steps touch neither a row nor a grid.
LEMMA QuietKeepsGrids ==
    ASSUME RowInv, GridInv, UNCHANGED <<value, grid, nextGrid, call, fired>>,
           \A q \in Client : (Bringing(q)' <=> Bringing(q)) /\ (pc'[q] = "file" <=> pc[q] = "file")
    PROVE  GridInv'
BY DEF GridInv, FreshGrids, OneRowEach, OwnGrids, Paired, RowsOwe, GridsOwe, Mentions

LEMMA GridStep ==
    ASSUME Sharing = FALSE, RowInv, GridInv, [Next]_vars PROVE GridInv'
<1>1. ASSUME NEW p \in Client,
             UpdateStart(p) \/ Browse(p) \/ (\E S \in SUBSET RowId : RemoveStart(p, S)) \/ RemoveEnd(p)
      PROVE  GridInv'
    <2>1. /\ UNCHANGED <<value, grid, nextGrid, call, fired>>
          /\ \A q \in Client : q # p => pc'[q] = pc[q]
          /\ \/ pc[p] = "picked" /\ pc'[p] = "update"
             \/ {pc[p], pc'[p]} \subseteq {"ready", "browsed", "delete"}
        BY <1>1 DEF UpdateStart, Browse, RemoveStart, RemoveEnd, RowInv, Typed, TypeOK
    <2>2. \A q \in Client : (Bringing(q)' <=> Bringing(q)) /\ (pc'[q] = "file" <=> pc[q] = "file")
        BY <2>1 DEF Bringing
    <2> QED BY <2>1, <2>2, QuietKeepsGrids
<1>2. ASSUME NEW p \in Client, WriteStep(p) PROVE GridInv'
    BY <1>1, <1>2, NewKeepsGrids, UpdateKeepsGrids, InsertKeepsGrids, FinishKeepsGrids
       DEF WriteStep, WriteShared
<1>3. ASSUME NEW p \in Client, RemoveStep(p) PROVE GridInv'
    BY <1>1, <1>3, DeleteKeepsGrids, TriggerKeepsGrids DEF RemoveStep
<1>4. ASSUME NEW p \in Client, ClientCommit(p) \/ ClientAbort(p) PROVE GridInv'
    BY <1>4, CommitKeepsGrids, AbortKeepsGrids
<1>5. CASE UNCHANGED vars
    <2>1. UNCHANGED <<value, grid, nextGrid, call, fired, pc>>
        BY <1>5 DEF vars
    <2> QED BY <2>1, QuietKeepsGrids DEF Bringing
<1> QED BY <1>2, <1>3, <1>4, <1>5, VacuumKeepsGrids DEF Next, Client

LEMMA InitGrids ==
    ASSUME Init PROVE GridInv
<1>1. /\ \A r \in RowId : value[r].now = NoValue /\ value[r].next = NoValue /\ value[r].by = NoProc
      /\ \A g \in Grid : grid[g] = Settled("none") /\ grid[g].now = "none" /\ grid[g].by = NoProc
      /\ \A p \in Client : pc[p] = "ready"
    BY SettledRow DEF Init
<1>2. \A r \in RowId, g \in Grid : ~Mentions(r, g)
    BY <1>1 DEF Mentions, Refers
<1> QED BY <1>1, <1>2, GridConstants
        DEF GridInv, FreshGrids, OneRowEach, OwnGrids, Paired, RowsOwe, GridsOwe, Bringing

LEMMA OwnGridsSuffice ==
    ASSUME Sharing = FALSE PROVE Spec => [](NoDanglingValue /\ NoLeakedGrid)
<1>1. Init => RowInv /\ GridInv
    BY InitRows, InitGrids
<1>2. RowInv /\ GridInv /\ [Next]_vars => RowInv' /\ GridInv'
    BY RowStep, GridStep
<1>3. RowInv /\ GridInv => NoDanglingValue /\ NoLeakedGrid
    BY SettledRow DEF GridInv, Paired, NoDanglingValue, NoLeakedGrid, Refers
<1> QED BY <1>1, <1>2, <1>3, PTL DEF Spec

-----------------------------------------------------------------------------
(* One backend: any numbering, and values that share a grid                  *)

Alone == \A p, q \in Client : p = q

\* A commit leaves what p saw, a rollback what was committed before.
LEMMA CommitShows ==
    ASSUME Typed, NEW p \in Client, ClientCommit(p)
    PROVE  /\ \A x \in RowId : /\ value'[x].now = Seen(value, p, x)
                               /\ Seen(value', p, x) = Seen(value, p, x)
           /\ \A g \in Grid : /\ grid'[g].now = Seen(grid, p, g)
                              /\ Seen(grid', p, g) = Seen(grid, p, g)
<1>1. \A x \in RowId : /\ value[x].by # p => value'[x] = value[x]
                       /\ value[x].by = p => /\ value'[x].by = NoProc /\ value'[x].now = value[x].next
                                             /\ value'[x].next = value[x].next
    BY EndTables, SettledRow DEF ClientCommit
<1>2. \A g \in Grid : /\ grid[g].by # p => grid'[g] = grid[g]
                      /\ grid[g].by = p => /\ grid'[g].by = NoProc /\ grid'[g].now = grid[g].next
                                           /\ grid'[g].next = grid[g].next
    BY EndTables, SettledRow DEF ClientCommit
<1> QED BY <1>1, <1>2, GridConstants DEF Seen

LEMMA AbortShows ==
    ASSUME Typed, NEW p \in Client, ClientAbort(p)
    PROVE  /\ \A x \in RowId : value'[x].now = value[x].now /\ Seen(value', p, x) = value[x].now
           /\ \A g \in Grid : grid'[g].now = grid[g].now /\ Seen(grid', p, g) = grid[g].now
<1>1. \A x \in RowId : /\ value[x].by # p => value'[x] = value[x]
                       /\ value[x].by = p => /\ value'[x].by = NoProc /\ value'[x].now = value[x].now
                                             /\ value'[x].next = value[x].now
    BY EndTables, SettledRow DEF ClientAbort
<1>2. \A g \in Grid : /\ grid[g].by # p => grid'[g] = grid[g]
                      /\ grid[g].by = p => /\ grid'[g].by = NoProc /\ grid'[g].now = grid[g].now
                                           /\ grid'[g].next = grid[g].now
    BY EndTables, SettledRow DEF ClientAbort
<1> QED BY <1>1, <1>2, GridConstants DEF Seen

\* A change of row r by p, as p sees it.
LEMMA UpdateShows ==
    ASSUME RowInv, NEW p \in Client, NEW r \in RowId, UpdateRow(p, r)
    PROVE  /\ \A x \in RowId : value'[x].now = value[x].now
           /\ \A x \in RowId : x # r => Seen(value', p, x) = Seen(value, p, x)
           /\ Seen(value, p, r) = NoValue => Seen(value', p, r) = NoValue
           /\ Seen(value, p, r) # NoValue =>
                 /\ Seen(value', p, r) # NoValue
                 /\ Seen(value', p, r).field = Seen(value, p, r).field
                 /\ Seen(value', p, r).grid = Seen(value, p, r).grid
                 /\ Seen(value', p, r).max = call[p].version
<1>1. CASE value' = value /\ Seen(value, p, r) = NoValue
    BY <1>1
<1>2. ASSUME NEW s \in Value, Alters(p, r, s), s.max = call[p].version
      PROVE  /\ \A x \in RowId : value'[x].now = value[x].now
             /\ \A x \in RowId : x # r => Seen(value', p, x) = Seen(value, p, x)
             /\ Seen(value, p, r) # NoValue /\ Seen(value', p, r) = s /\ s # NoValue
             /\ Alike(s, Seen(value, p, r)) /\ s.grid = Seen(value, p, r).grid
    BY <1>2, OthersSee, GridConstants DEF Alters, RowInv
<1> QED BY <1>1, <1>2, UpdateAlters DEF RowInv, Alike

LEMMA DeleteShows ==
    ASSUME RowInv, NEW p \in Client, NEW r \in RowId, DeleteRow(p, r)
    PROVE  /\ \A x \in RowId : value'[x].now = value[x].now
           /\ \A x \in RowId : x # r => Seen(value', p, x) = Seen(value, p, x)
           /\ Seen(value', p, r) = NoValue
           /\ Seen(value, p, r) # NoValue => Seen(value, p, r).grid \in fired'[p]
           /\ fired[p] \subseteq fired'[p]
<1>1. CASE Seen(value, p, r) = NoValue
    BY <1>1 DEF DeleteRow
<1>2. CASE Seen(value, p, r) # NoValue
    <2>1. /\ Free(value, p, r) /\ value' = Put(value, p, r, NoValue)
          /\ fired' = [fired EXCEPT ![p] = @ \cup {Seen(value, p, r).grid}]
        BY <1>2 DEF DeleteRow
    <2>2. /\ \A x \in RowId : value'[x].now = value[x].now
          /\ \A x \in RowId : Seen(value', p, x) = IF x = r THEN NoValue ELSE Seen(value, p, x)
        BY <2>1, OthersSee DEF RowInv
    <2> QED BY <1>2, <2>1, <2>2 DEF RowInv, Typed, TypeOK
<1> QED BY <1>1, <1>2

LEMMA InsertShows ==
    ASSUME RowInv, NEW p \in Client, InsertValue(p)
    PROVE  \E r \in RowId, s \in Value :
              /\ \A x \in RowId : value'[x].now = value[x].now
              /\ \A x \in RowId : x # r => Seen(value', p, x) = Seen(value, p, x)
              /\ Seen(value, p, r) = NoValue /\ Seen(value', p, r) = s /\ s # NoValue
              /\ s.field = call[p].field /\ s.max = call[p].version /\ s.grid = call[p].grid
<1>1. PICK s \in Value : /\ Inserts(p, nextRow, s) /\ nextRow \in RowId
                         /\ s.field = call[p].field /\ s.max = call[p].version
                         /\ s.grid = call[p].grid
    BY InsertInserts DEF RowInv
<1>2. PICK r \in RowId : r = nextRow
    BY <1>1
<1>3. /\ value' = Put(value, p, r, s) /\ s # NoValue /\ Free(value, p, r)
      /\ Seen(value, p, r) = NoValue
    BY <1>1, <1>2, SettledRow, GridConstants DEF Inserts, Unused, RowInv, RowId, Free, Seen
<1>4. /\ \A x \in RowId : value'[x].now = value[x].now
      /\ \A x \in RowId : Seen(value', p, x) = IF x = r THEN s ELSE Seen(value, p, x)
    BY <1>3, OthersSee DEF RowInv
<1> QED BY <1>1, <1>3, <1>4

\* The rows of a field agree on maxdataversion, but for an update that is under way.
SameMax(f, k) == \A r, s \in Of(f, k) : f[r].max = f[s].max
MaxInv ==
    \A k \in Field :
        /\ SameMax(Kept, k)
        /\ \A p \in Client :
              /\ ~Writing(p, k) => SameMax(Shown(p), k)
              /\ Writing(p, k) => \A r \in Of(Shown(p), k) :
                    r \in todo[p] \/ Shown(p)[r].max = call[p].version

LEMMA MaxStep ==
    ASSUME Alone, RowInv, MaxInv, [Next]_vars PROVE MaxInv'
<1> USE DEF RowInv
<1>1. ASSUME NEW p \in Client, NEW r \in RowId, UpdateRow(p, r) PROVE MaxInv'
    <2> SUFFICES ASSUME NEW k \in Field
                 PROVE  /\ SameMax(Kept', k)
                        /\ ~Writing(p, k)' => SameMax(Shown(p)', k)
                        /\ Writing(p, k)' => \A x \in Of(Shown(p)', k) :
                              x \in todo'[p] \/ Shown(p)'[x].max = call'[p].version
        BY DEF MaxInv, Alone
    <2>0. /\ pc[p] = "update" /\ pc' = pc /\ call' = call /\ r \in todo[p]
          /\ todo'[p] = todo[p] \ {r}
        BY <1>1 DEF UpdateRow, Typed, TypeOK
    <2>1. Kept' = Kept
        BY <1>1, UpdateShows DEF Kept
    <2>2. /\ \A x \in RowId : x # r => Shown(p)'[x] = Shown(p)[x]
          /\ Shown(p)[r] = NoValue => Shown(p)'[r] = NoValue
          /\ Shown(p)[r] # NoValue =>
                /\ Shown(p)'[r] # NoValue /\ Shown(p)'[r].field = Shown(p)[r].field
                /\ Shown(p)'[r].max = call[p].version
        BY <1>1, UpdateShows DEF Shown
    <2>3. Of(Shown(p)', k) = Of(Shown(p), k)
        BY <2>2 DEF Of
    <2>4. Shown(p)[r] # NoValue => Shown(p)[r].field = call[p].field
        BY <2>0, KeptAndShown DEF Listed, Seen
    <2>5. CASE Writing(p, k)
        <3>1. \A x \in Of(Shown(p), k) : x \in RowId /\ Shown(p)[x] # NoValue
            BY DEF Of
        <3>2. \A x \in Of(Shown(p), k) : x \in todo[p] \/ Shown(p)[x].max = call[p].version
            BY <2>5 DEF MaxInv
        <3> QED BY <2>0, <2>1, <2>2, <2>3, <2>5, <3>1, <3>2 DEF MaxInv, Writing
    <2>6. CASE ~Writing(p, k)
        <3>1. \A x \in Of(Shown(p), k) : Shown(p)'[x] = Shown(p)[x]
            BY <2>0, <2>2, <2>4, <2>6 DEF Of, Writing
        <3> QED BY <2>0, <2>1, <2>3, <2>6, <3>1 DEF MaxInv, Writing, SameMax
    <2> QED BY <2>5, <2>6
<1>2. ASSUME NEW p \in Client, NEW r \in RowId, DeleteRow(p, r) PROVE MaxInv'
    <2>1. Kept' = Kept
        BY <1>2, DeleteShows DEF Kept
    <2>2. \A x \in RowId : Shown(p)'[x] = Shown(p)[x] \/ Shown(p)'[x] = NoValue
        BY <1>2, DeleteShows DEF Shown
    <2>3. \A k \in Field : ~Writing(p, k) /\ ~Writing(p, k)'
        BY <1>2 DEF DeleteRow, Writing
    <2>4. ASSUME NEW k \in Field PROVE SameMax(Shown(p)', k)
        BY <2>2, <2>3 DEF MaxInv, SameMax, Of
    <2> QED BY <2>1, <2>3, <2>4 DEF MaxInv, Alone
<1>3. ASSUME NEW p \in Client, InsertValue(p) PROVE MaxInv'
    <2>0. /\ pc[p] = "update" /\ todo[p] = {} /\ \A k \in Field : ~Writing(p, k)'
        BY <1>3 DEF InsertValue, Writing, Typed, TypeOK
    <2>1. PICK r \in RowId, s \in Value :
              /\ \A x \in RowId : value'[x].now = value[x].now
              /\ \A x \in RowId : x # r => Seen(value', p, x) = Seen(value, p, x)
              /\ Seen(value, p, r) = NoValue /\ Seen(value', p, r) = s /\ s # NoValue
              /\ s.field = call[p].field /\ s.max = call[p].version
        BY <1>3, InsertShows
    <2>2. Kept' = Kept
        BY <2>1 DEF Kept
    <2>3. \A x \in RowId : Shown(p)'[x] = IF x = r THEN s ELSE Shown(p)[x]
        BY <2>1 DEF Shown
    <2>4. ASSUME NEW k \in Field PROVE SameMax(Shown(p)', k)
        <3>1. CASE call[p].field = k
            <4>1. \A x \in Of(Shown(p), k) : Shown(p)[x].max = call[p].version
                BY <2>0, <3>1 DEF MaxInv, Writing
            <4> QED BY <2>1, <2>3, <4>1 DEF SameMax, Of
        <3>2. CASE call[p].field # k
            <4>1. SameMax(Shown(p), k)
                BY <3>2 DEF MaxInv, Writing
            <4> QED BY <2>1, <2>3, <3>2, <4>1 DEF SameMax, Of
        <3> QED BY <3>1, <3>2
    <2> QED BY <2>0, <2>2, <2>4 DEF MaxInv, Alone
<1>4. ASSUME NEW p \in Client, ClientCommit(p) PROVE MaxInv'
    <2>1. Kept' = Shown(p) /\ Shown(p)' = Shown(p)
        BY <1>4, CommitShows DEF Kept, Shown
    <2>2. \A k \in Field : ~Writing(p, k) /\ ~Writing(p, k)'
        BY <1>4 DEF ClientCommit, End, Writing, Typed, TypeOK
    <2> QED BY <2>1, <2>2 DEF MaxInv, Alone
<1>5. ASSUME NEW p \in Client, ClientAbort(p) PROVE MaxInv'
    <2>1. Kept' = Kept /\ Shown(p)' = Kept
        BY <1>5, AbortShows DEF Kept, Shown
    <2>2. \A k \in Field : ~Writing(p, k)'
        BY <1>5 DEF ClientAbort, End, Writing, Typed, TypeOK
    <2> QED BY <2>1, <2>2 DEF MaxInv, Alone
<1>6. ASSUME NEW p \in Client, UpdateStart(p) PROVE MaxInv'
    <2>1. /\ value' = value /\ call' = call /\ pc[p] = "picked" /\ pc'[p] = "update"
          /\ todo'[p] = RowsOf(p, call[p].field)
        BY <1>6 DEF UpdateStart, Typed, TypeOK
    <2>2. Kept' = Kept /\ Shown(p)' = Shown(p)
        BY <2>1 DEF Kept, Shown
    <2>3. \A k \in Field : ~Writing(p, k) /\ (Writing(p, k)' <=> call[p].field = k)
        BY <2>1 DEF Writing
    <2>4. \A x \in Of(Shown(p), call[p].field) : x \in todo'[p]
        BY <2>1, KeptAndShown DEF Of, RowsOf, Rows
    <2> QED BY <2>2, <2>3, <2>4 DEF MaxInv, Alone
<1>7. ASSUME \A p \in Client : ~InsertValue(p) /\ ~ClientCommit(p) /\ ~ClientAbort(p) /\ ~UpdateStart(p),
             \A p \in Client, r \in RowId : ~UpdateRow(p, r) /\ ~DeleteRow(p, r)
      PROVE  MaxInv'
    <2>1. value' = value
        BY <1>7, QuietSteps
    <2>2. Kept' = Kept /\ \A p \in Client : Shown(p)' = Shown(p)
        BY <2>1 DEF Kept, Shown
    <2>3. \A p \in Client : \/ pc[p] # "update" /\ pc'[p] # "update"
                            \/ pc'[p] = pc[p] /\ call'[p] = call[p] /\ todo'[p] = todo[p]
        <3>1. ASSUME NEW p \in Client,
                     (\E k \in Field, v \in Version : WriteNew(p, k, v))
                     \/ (\E k \in Field, v \in Version, g \in Grid : WriteShared(p, k, v, g))
                     \/ FinishWrite(p) \/ Browse(p)
                     \/ (\E S \in SUBSET RowId : RemoveStart(p, S))
                     \/ (\E g \in Grid : Trigger(p, g)) \/ RemoveEnd(p)
              PROVE  pc[p] # "update" /\ pc'[p] # "update"
            BY <3>1 DEF WriteNew, WriteShared, FinishWrite, Browse, RemoveStart, Trigger,
                        RemoveEnd, Typed, TypeOK
        <3>2. CASE (\E g \in Grid : VacuumGrid(g)) \/ UNCHANGED vars
            BY <3>2 DEF VacuumGrid, vars
        <3> QED BY <1>7, <3>1, <3>2 DEF Next, WriteStep, RemoveStep, Client, Alone
    <2>4. ASSUME NEW p \in Client, NEW k \in Field
          PROVE  /\ ~Writing(p, k)' => SameMax(Shown(p)', k)
                 /\ Writing(p, k)' => \A r \in Of(Shown(p)', k) :
                       r \in todo'[p] \/ Shown(p)'[r].max = call'[p].version
        BY <2>2, <2>3 DEF MaxInv, Writing
    <2> QED BY <2>2, <2>4 DEF MaxInv
<1> QED BY <1>1, <1>2, <1>3, <1>4, <1>5, <1>6, <1>7

\* With one backend, no removal or rollback brings a second value under one negative
\* data version, whatever versions are written (wciWriteInternals.in.sql).
THEOREM AtMostOneSelectedCorrect ==
    ASSUME Alone PROVE Spec => []AtMostOneSelected
<1>1. Init => RowInv /\ MaxInv
    <2> SUFFICES ASSUME Init PROVE RowInv /\ MaxInv
        OBVIOUS
    <2>1. \A r \in RowId : Kept[r] = NoValue /\ \A p \in Client : Shown(p)[r] = NoValue
        BY SettledRow DEF Init, Kept, Shown, Seen
    <2> QED BY <2>1, InitRows DEF MaxInv, SameMax, Of
<1>2. RowInv /\ MaxInv /\ [Next]_vars => RowInv' /\ MaxInv'
    BY RowStep, MaxStep
<1>3. RowInv /\ MaxInv => AtMostOneSelected
    <2> SUFFICES ASSUME RowInv, MaxInv, NEW k \in Field, NEW n \in 1 .. MaxVersion + 1
                 PROVE  Cardinality(Selected(k, n)) <= 1
        BY DEF AtMostOneSelected
    <2>1. ASSUME NEW r \in Selected(k, n), NEW s \in Selected(k, n) PROVE r = s
        <3>1. r \in Of(Kept, k) /\ s \in Of(Kept, k)
            BY KeptAndShown DEF Selected, Stored, Of
        <3>2. Kept[r].max = Kept[s].max
            BY <3>1 DEF MaxInv, SameMax
        <3>3. Kept[r].version = Kept[s].version
            BY <3>2, KeptAndShown DEF Selected, Stored
        <3> QED BY <3>1, <3>3 DEF Of, Alike, RowInv, Unique, Apart
    <2>2. CASE Selected(k, n) = {}
        BY <2>2, FS_EmptySet
    <2>3. CASE Selected(k, n) # {}
        <3>1. PICK r \in Selected(k, n) : TRUE
            BY <2>3
        <3>2. Selected(k, n) = {r}
            BY <2>1, <3>1
        <3>3. Cardinality({r}) = 1
            BY FS_Singleton
        <3> QED BY <3>2, <3>3
    <2> QED BY <2>2, <2>3
<1> QED BY <1>1, <1>2, <1>3, PTL DEF Spec

\* What p sees of values and grids: a value has its grid, unless p is about to write
\* it or nobody referred to it when it was named; a grid has a value, unless p has
\* still to run the trigger for it.
HasGrid(p) ==
    \A r \in RowId, g \in Grid : Refers(Seen(value, p, r), g) =>
        \/ g \in bare
        \/ Seen(grid, p, g) = "active"
        \/ pc[p] = "file" /\ call[p].new /\ call[p].grid = g
HasValue(p) ==
    \A g \in Grid : Seen(grid, p, g) = "active" =>
        g \in fired[p] \/ \E r \in RowId : Refers(Seen(value, p, r), g)

\* What the write of p is about: a grid that is there, or will be with its row, or
\* one that nobody referred to.
HasCall(p) ==
    /\ Bringing(p) => call[p].grid \in Grid
    /\ Bringing(p) /\ ~call[p].new =>
          call[p].grid \in bare \/ Seen(grid, p, call[p].grid) = "active"
    /\ pc[p] = "file" => \E r \in RowId : Refers(Seen(value, p, r), call[p].grid)

\* What is committed: a value and its grid, but for grids that were named when they
\* had no row; and a grid and its value.
Matched ==
    /\ \A r \in RowId : value[r].now # NoValue /\ value[r].now.grid \notin bare
                        => grid[value[r].now.grid].now = "active"
    /\ \A g \in Grid : grid[g].now = "active" => \E r \in RowId : Refers(value[r].now, g)

AloneInv == Matched /\ \A p \in Client : HasGrid(p) /\ HasValue(p) /\ HasCall(p)

\* A step that leaves what is committed alone keeps values and grids matched.
LEMMA KeepsMatched ==
    ASSUME Typed, Matched, bare \subseteq bare', \A g \in Grid : grid'[g].now = grid[g].now,
           \A x \in RowId : value'[x].now = value[x].now
    PROVE  Matched'
<1>1. \A r \in RowId : value[r].now # NoValue => value[r].now.grid \in Grid
    BY GridsOfRows
<1> QED BY <1>1 DEF Matched

LEMMA AloneStep ==
    ASSUME Alone, RowInv, AloneInv, [Next]_vars PROVE AloneInv'
<1> USE DEF RowInv
<1>0. ASSUME NEW p \in Client, Matched', HasGrid(p)', HasValue(p)', HasCall(p)' PROVE AloneInv'
    <2>1. \A q \in Client : q = p
        BY DEF Alone
    <2> QED BY <1>0, <2>1 DEF AloneInv
<1>1. ASSUME NEW p \in Client, NEW r \in RowId, UpdateRow(p, r) PROVE AloneInv'
    <2>1. UNCHANGED <<grid, pc, call, fired, bare>> /\ pc[p] = "update"
        BY <1>1 DEF UpdateRow
    <2>2. \A x \in RowId, g \in Grid : Refers(Seen(value', p, x), g) <=> Refers(Seen(value, p, x), g)
        BY <1>1, UpdateShows DEF Refers
    <2>3. Matched'
        BY <1>1, <2>1, UpdateShows, KeepsMatched DEF AloneInv
    <2>4. HasGrid(p)' /\ HasValue(p)' /\ HasCall(p)'
        BY <2>1, <2>2 DEF AloneInv, HasGrid, HasValue, HasCall, Bringing
    <2> QED BY <1>0, <2>3, <2>4
<1>2. ASSUME NEW p \in Client, NEW r \in RowId, DeleteRow(p, r) PROVE AloneInv'
    <2>1. UNCHANGED <<grid, pc, call, bare>> /\ pc[p] = "delete"
        BY <1>2 DEF DeleteRow
    <2>2. \A x \in RowId, g \in Grid :
             /\ Refers(Seen(value', p, x), g) => Refers(Seen(value, p, x), g)
             /\ Refers(Seen(value, p, x), g) => Refers(Seen(value', p, x), g) \/ g \in fired'[p]
        BY <1>2, DeleteShows DEF Refers
    <2>3. Matched'
        BY <1>2, <2>1, DeleteShows, KeepsMatched DEF AloneInv
    <2>4. fired[p] \subseteq fired'[p]
        BY <1>2, DeleteShows
    <2>5. HasGrid(p)' /\ HasValue(p)' /\ HasCall(p)'
        BY <2>1, <2>2, <2>4 DEF AloneInv, HasGrid, HasValue, HasCall, Bringing
    <2> QED BY <1>0, <2>3, <2>5
<1>3. ASSUME NEW p \in Client, InsertValue(p) PROVE AloneInv'
    <2>1. UNCHANGED <<grid, call, fired, bare>> /\ pc[p] = "update" /\ pc'[p] = "file"
        BY <1>3 DEF InsertValue, Typed, TypeOK
    <2>2. PICK r \in RowId, s \in Value :
              /\ \A x \in RowId : value'[x].now = value[x].now
              /\ \A x \in RowId : x # r => Seen(value', p, x) = Seen(value, p, x)
              /\ Seen(value, p, r) = NoValue /\ Seen(value', p, r) = s /\ s # NoValue
              /\ s.grid = call[p].grid
        BY <1>3, InsertShows
    <2>3. Matched'
        BY <2>1, <2>2, KeepsMatched DEF AloneInv
    <2>4. \A x \in RowId, g \in Grid :
             Refers(Seen(value', p, x), g) <=>
                 (Refers(Seen(value, p, x), g) \/ (x = r /\ g = call[p].grid))
        BY <2>2 DEF Refers
    <2>5. HasCall(p)'
        <3>1. PICK h \in Grid : h = call[p].grid
            BY <2>1 DEF AloneInv, HasCall, Bringing
        <3>2. Refers(Seen(value', p, r), h)
            BY <2>4, <3>1
        <3> QED BY <2>1, <3>1, <3>2 DEF AloneInv, HasCall, Bringing
    <2>6. HasGrid(p)' /\ HasValue(p)'
        BY <2>1, <2>4 DEF AloneInv, HasGrid, HasValue, HasCall, Bringing
    <2> QED BY <1>0, <2>3, <2>5, <2>6
<1>4. ASSUME NEW p \in Client, FinishWrite(p) PROVE AloneInv'
    <2>1. /\ UNCHANGED <<value, fired, bare>> /\ pc[p] = "file" /\ pc'[p] = "ready"
        BY <1>4 DEF FinishWrite, Typed, TypeOK
    <2>2. PICK h \in Grid : h = call[p].grid
        BY <2>1 DEF AloneInv, HasCall, Bringing
    <2>3. \E x \in RowId : Refers(Seen(value, p, x), h)
        BY <2>1, <2>2 DEF AloneInv, HasCall
    <2>4. /\ h \in bare \/ Seen(grid', p, h) = "active"
          /\ Seen(grid', p, h) \in {"active", Seen(grid, p, h)}
          /\ \A g \in Grid : /\ g # h => Seen(grid', p, g) = Seen(grid, p, g)
                             /\ grid'[g].now = grid[g].now
        <3>1. CASE call[p].new
            <4>1. Free(grid, p, h)
                BY DEF Alone, Free, Typed, TypeOK, Table
            <4> QED BY <1>4, <2>2, <3>1, <4>1, PutGrids DEF FinishWrite, Seen
        <3>2. CASE ~call[p].new
            BY <1>4, <2>1, <2>2, <3>2 DEF FinishWrite, AloneInv, HasCall, Bringing
        <3> QED BY <3>1, <3>2
    <2>5. Matched'
        BY <2>1, <2>4, KeepsMatched DEF AloneInv
    <2>6. HasGrid(p)'
        <3>1. \A x \in RowId, g \in Grid : Refers(Seen(value, p, x), g) /\ g # h /\ g \notin bare
                                            => Seen(grid, p, g) = "active"
            BY <2>2 DEF AloneInv, HasGrid
        <3> QED BY <2>1, <2>4, <3>1 DEF HasGrid
    <2>7. HasValue(p)' /\ HasCall(p)'
        BY <2>1, <2>3, <2>4 DEF AloneInv, HasValue, HasCall, Bringing
    <2> QED BY <1>0, <2>5, <2>6, <2>7
<1>5. ASSUME NEW p \in Client, NEW h \in Grid, Trigger(p, h) PROVE AloneInv'
    <2>1. /\ UNCHANGED <<value, pc, call, bare>> /\ pc[p] = "delete"
          /\ \A g \in Grid : g # h => (g \in fired'[p] <=> g \in fired[p])
        BY <1>5 DEF Trigger, Typed, TypeOK
    <2>2. References(p, h) = {} <=> \A x \in RowId : ~Refers(Seen(value, p, x), h)
        BY DEF References, Rows, Refers
    <2>3. CASE References(p, h) = {} /\ Seen(grid, p, h) # "none"
        <3>1. /\ Seen(grid', p, h) = "inactive"
              /\ \A g \in Grid : g # h => Seen(grid', p, g) = Seen(grid, p, g)
              /\ \A g \in Grid : grid'[g].now = grid[g].now
            BY <1>5, <2>3, PutGrids DEF Trigger, Seen
        <3>2. Matched'
            BY <2>1, <3>1, KeepsMatched DEF AloneInv
        <3>3. HasGrid(p)' /\ HasValue(p)' /\ HasCall(p)'
            BY <2>1, <2>2, <2>3, <3>1 DEF AloneInv, HasGrid, HasValue, HasCall, Bringing
        <3> QED BY <1>0, <3>2, <3>3
    <2>4. CASE ~(References(p, h) = {} /\ Seen(grid, p, h) # "none")
        <3>1. grid' = grid
            BY <1>5, <2>4 DEF Trigger
        <3>2. Matched'
            BY <2>1, <3>1, KeepsMatched DEF AloneInv
        <3>3. HasGrid(p)' /\ HasCall(p)'
            BY <2>1, <3>1 DEF AloneInv, HasGrid, HasCall, Bringing
        <3>4. HasValue(p)'
            BY <2>1, <2>2, <2>4, <3>1 DEF AloneInv, HasValue
        <3> QED BY <1>0, <3>2, <3>3, <3>4
    <2> QED BY <2>3, <2>4
<1>6. ASSUME NEW p \in Client, ClientCommit(p) PROVE AloneInv'
    <2>1. pc[p] = "ready" /\ pc'[p] = "ready" /\ fired[p] = {} /\ bare' = bare
        BY <1>6 DEF ClientCommit, End, Listed, Typed, TypeOK
    <2>2. /\ \A x \in RowId : /\ value'[x].now = Seen(value, p, x)
                              /\ Seen(value', p, x) = Seen(value, p, x)
          /\ \A g \in Grid : /\ grid'[g].now = Seen(grid, p, g)
                             /\ Seen(grid', p, g) = Seen(grid, p, g)
        BY <1>6, CommitShows
    <2>3. /\ \A x \in RowId, g \in Grid : Refers(Seen(value, p, x), g) /\ g \notin bare
                                           => Seen(grid, p, g) = "active"
          /\ \A g \in Grid : Seen(grid, p, g) = "active" => \E x \in RowId : Refers(Seen(value, p, x), g)
        BY <2>1 DEF AloneInv, HasGrid, HasValue
    <2>4. \A x \in RowId : Seen(value, p, x) # NoValue => Seen(value, p, x).grid \in Grid
        BY GridsOfRows DEF Seen
    <2>5. Matched'
        BY <2>1, <2>2, <2>3, <2>4 DEF Matched, Refers
    <2>6. HasGrid(p)' /\ HasValue(p)' /\ HasCall(p)'
        BY <2>1, <2>2, <2>3 DEF HasGrid, HasValue, HasCall, Bringing
    <2> QED BY <1>0, <2>5, <2>6
<1>7. ASSUME NEW p \in Client, ClientAbort(p) PROVE AloneInv'
    <2>1. pc'[p] = "ready" /\ bare' = bare
        BY <1>7 DEF ClientAbort, End, Typed, TypeOK
    <2>2. /\ \A x \in RowId : value'[x].now = value[x].now /\ Seen(value', p, x) = value[x].now
          /\ \A g \in Grid : grid'[g].now = grid[g].now /\ Seen(grid', p, g) = grid[g].now
        BY <1>7, AbortShows
    <2>3. Matched'
        BY <2>1, <2>2, KeepsMatched DEF AloneInv
    <2>4. HasGrid(p)' /\ HasValue(p)' /\ HasCall(p)'
        BY <2>1, <2>2 DEF AloneInv, Matched, Refers, HasGrid, HasValue, HasCall, Bringing
    <2> QED BY <1>0, <2>3, <2>4
<1>8. ASSUME NEW h \in Grid, VacuumGrid(h) PROVE AloneInv'
    <2>1. /\ UNCHANGED <<value, pc, call, fired, bare>>
          /\ grid[h].now = "inactive" /\ grid[h].by = NoProc
          /\ grid'[h].now = "none" /\ grid'[h].by = NoProc
          /\ \A g \in Grid : g # h => grid'[g] = grid[g]
        BY <1>8, SettledRow DEF VacuumGrid, Typed, TypeOK, Table
    <2>2. \A q \in Client, g \in Grid : /\ g # h => Seen(grid', q, g) = Seen(grid, q, g)
                                        /\ Seen(grid', q, h) # "active" /\ Seen(grid, q, h) # "active"
        BY <2>1, GridConstants DEF Seen
    <2>3. Matched'
        <3>1. \A r \in RowId : value[r].now # NoValue => value[r].now.grid \in Grid
            BY GridsOfRows
        <3> QED BY <2>1, <3>1 DEF AloneInv, Matched
    <2>4. \A q \in Client : HasGrid(q)' /\ HasValue(q)' /\ HasCall(q)'
        BY <2>1, <2>2 DEF AloneInv, HasGrid, HasValue, HasCall, Bringing
    <2> QED BY <2>3, <2>4 DEF AloneInv
<1>9. ASSUME NEW p \in Client, NEW k \in Field, NEW v \in Version,
             WriteNew(p, k, v) \/ \E g \in Grid : WriteShared(p, k, v, g)
      PROVE  AloneInv'
    <2>1. /\ UNCHANGED <<value, grid, fired>> /\ pc[p] = "ready" /\ pc'[p] = "picked"
          /\ bare \subseteq bare'
        BY <1>9 DEF WriteNew, WriteShared, Typed, TypeOK
    <2>2. \/ call'[p].new /\ call'[p].grid \in Grid
          \/ /\ ~call'[p].new /\ call'[p].grid \in Grid
             /\ \/ call'[p].grid \in bare'
                \/ \E r \in RowId : Refers(Seen(value, p, r), call'[p].grid)
        <3>1. CASE WriteNew(p, k, v)
            BY <3>1, Bounds DEF WriteNew, Typed, TypeOK, Grid
        <3>2. CASE \E g \in Grid : WriteShared(p, k, v, g)
            BY <3>2 DEF WriteShared, Rows, Refers, Typed, TypeOK
        <3> QED BY <1>9, <3>1, <3>2
    <2>3. Matched'
        BY <2>1, KeepsMatched DEF AloneInv
    <2>4. HasGrid(p)' /\ HasValue(p)'
        BY <2>1 DEF AloneInv, HasGrid, HasValue
    <2>5. HasCall(p)'
        BY <2>1, <2>2 DEF AloneInv, HasGrid, HasCall
    <2> QED BY <1>0, <2>3, <2>4, <2>5
<1>10. ASSUME NEW p \in Client,
              UpdateStart(p) \/ Browse(p) \/ (\E S \in SUBSET RowId : RemoveStart(p, S)) \/ RemoveEnd(p)
       PROVE  AloneInv'
    <2>1. /\ UNCHANGED <<value, grid, call, fired, bare>>
          /\ \/ pc[p] = "picked" /\ pc'[p] = "update"
             \/ {pc[p], pc'[p]} \subseteq {"ready", "browsed", "delete"}
        BY <1>10 DEF UpdateStart, Browse, RemoveStart, RemoveEnd, Typed, TypeOK
    <2>2. (Bringing(p)' <=> Bringing(p)) /\ pc[p] # "file" /\ pc'[p] # "file"
        BY <2>1 DEF Bringing
    <2>3. Matched'
        BY <2>1, KeepsMatched DEF AloneInv
    <2>4. HasGrid(p)' /\ HasValue(p)' /\ HasCall(p)'
        BY <2>1, <2>2 DEF AloneInv, HasGrid, HasValue, HasCall
    <2> QED BY <1>0, <2>3, <2>4
<1>11. CASE UNCHANGED vars
    BY <1>11 DEF vars, AloneInv, Matched, HasGrid, HasValue, HasCall, Bringing
<1> QED BY <1>1, <1>2, <1>3, <1>4, <1>5, <1>6, <1>7, <1>8, <1>9, <1>10, <1>11
        DEF Next, WriteStep, RemoveStep, Client

LEMMA AloneSuffices ==
    ASSUME Alone PROVE Spec => [](NoDanglingValue /\ NoLeakedGrid)
<1>1. Init => RowInv /\ AloneInv
    <2> SUFFICES ASSUME Init PROVE RowInv /\ AloneInv
        OBVIOUS
    <2>1. /\ \A r \in RowId : value[r].now = NoValue /\ value[r].next = NoValue
          /\ \A g \in Grid : grid[g].now = "none" /\ grid[g].next = "none"
          /\ \A p \in Client : pc[p] = "ready"
        BY SettledRow DEF Init
    <2> QED BY <2>1, InitRows
            DEF AloneInv, Matched, HasGrid, HasValue, HasCall, Bringing, Refers, Seen
<1>2. RowInv /\ AloneInv /\ [Next]_vars => RowInv' /\ AloneInv'
    BY RowStep, AloneStep
<1>3. RowInv /\ AloneInv => NoDanglingValue /\ NoLeakedGrid
    BY SettledRow DEF AloneInv, Matched, NoDanglingValue, NoLeakedGrid, Refers
<1> QED BY <1>1, <1>2, <1>3, PTL DEF Spec

\* A committed value never lacks its data: whatever clients write, remove, vacuum and
\* roll back at the same time when every value brings a grid of its own, and with one
\* backend when values are written for grids by identifier, but for grids that were
\* named when no value had them (wciRemove.in.sql, gridValueTriggers.in.sql).
THEOREM NoDanglingValueCorrect ==
    ASSUME Sharing = FALSE \/ Alone PROVE Spec => []NoDanglingValue
<1>1. CASE Sharing = FALSE
    <2>1. Spec => [](NoDanglingValue /\ NoLeakedGrid)
        BY <1>1, OwnGridsSuffice
    <2> QED BY <2>1, PTL
<1>2. CASE Alone
    <2>1. Spec => [](NoDanglingValue /\ NoLeakedGrid)
        BY <1>2, AloneSuffices
    <2> QED BY <2>1, PTL
<1> QED BY <1>1, <1>2

\* Nor does a grid outlive its values: the deletion of the last reference drops it.
THEOREM NoLeakedGridCorrect ==
    ASSUME Sharing = FALSE \/ Alone PROVE Spec => []NoLeakedGrid
<1>1. CASE Sharing = FALSE
    <2>1. Spec => [](NoDanglingValue /\ NoLeakedGrid)
        BY <1>1, OwnGridsSuffice
    <2> QED BY <2>1, PTL
<1>2. CASE Alone
    <2>1. Spec => [](NoDanglingValue /\ NoLeakedGrid)
        BY <1>2, AloneSuffices
    <2> QED BY <2>1, PTL
<1> QED BY <1>1, <1>2
=============================================================================
