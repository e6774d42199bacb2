-------------------------- MODULE MaterializedView --------------------------
(***************************************************************************)
(* The materialized views over the metadata: dataprovider_mv, parameter_mv,*)
(* placedefinition_mv.  Triggers on the base tables rebuild a view, or the *)
(* part of it about one place, in the transaction that changes the base:   *)
(* DELETE, then INSERT ... SELECT from the plain view.  Backends do this   *)
(* at the same time, at READ COMMITTED.                                    *)
(*                                                                         *)
(*   src/src/database/materializedView.in.sql                              *)
(*   src/src/database/dataProviderTriggers.in.sql, parameterTriggers.in.sql*)
(*   src/src/database/placeDefinitionTriggers.in.sql                       *)
(***************************************************************************)
EXTENDS Integers, FiniteSets, ReadCommitted

CONSTANTS
    Backend,    \* sessions that change metadata
    Source,     \* the rows that the plain view can have
    NoRow,      \* a copy that is not, or no longer, in the table
    MaxCopy     \* bound: rows ever inserted in the materialized view

ASSUME ViewConstants ==
    /\ IsFiniteSet(Source)
    /\ MaxCopy \in Nat
    /\ NoProc \notin Backend
    /\ NoRow \notin Source

Copy == 1 .. MaxCopy

VARIABLES
    whole,      \* never changes: TRUE for refreshMV, which rebuilds all, FALSE
                \* for updateplacespec, which rebuilds one place
    base,       \* the base table: which source rows there are
    mv,         \* the materialized view: each copy is of a source row
    nextCopy,   \* the next copy to be inserted
    stamp,      \* who holds the view's row in the table materializedView
    pc,         \* where the statement of each backend is
    todo,       \* the copies that its DELETE has still to remove
    overlap     \* history: transactions have overlapped

viewVars == <<whole, base, mv, nextCopy, stamp, pc, todo, overlap>>

ViewTypeOK ==
    /\ whole \in BOOLEAN
    /\ base \in Table(Source, BOOLEAN, Backend)
    /\ mv \in Table(Copy, Source \cup {NoRow}, Backend)
    /\ nextCopy \in 1 .. MaxCopy + 1
    /\ stamp \in Backend \cup {NoProc}
    /\ pc \in [Backend -> {"ready", "changed", "delete", "inserted"}]
    /\ todo \in [Backend -> SUBSET Copy]
    /\ overlap \in BOOLEAN

\* createMV fills the view from its definition.
ViewInit ==
    /\ whole \in BOOLEAN
    /\ base \in [Source -> {Settled(TRUE), Settled(FALSE)}]
    /\ \E f \in [Copy -> Source \cup {NoRow}] :
          /\ \A x \in Source : Cardinality({c \in Copy : f[c] = x}) = IF base[x].now THEN 1 ELSE 0
          /\ mv = [c \in Copy |-> Settled(f[c])]
          /\ nextCopy = Cardinality({c \in Copy : f[c] # NoRow}) + 1
          /\ \A c \in Copy : f[c] # NoRow <=> c < nextCopy
    /\ stamp = NoProc
    /\ pc = [p \in Backend |-> "ready"]
    /\ todo = [p \in Backend |-> {}]
    /\ overlap = FALSE

\* Mutant: the view is computed as it was before the change.
InBaseBefore(p) == {x \in Source : base[x].now}

InBase(p) == {x \in Source : Seen(base, p, x)}
Copies(p) == {c \in Copy : Seen(mv, p, c) # NoRow}

\* p has a transaction that has changed something.
Busy(p) == pc[p] # "ready" \/ Holds(base, p) \/ Holds(mv, p) \/ stamp = p

\* Mutant: a row of the base table is overwritten instead of deleted.
ChangeToNull(p, x) ==
    /\ pc[p] = "ready"
    /\ Free(base, p, x)
    /\ base' = Put(base, p, x, NoRow)
    /\ pc' = [pc EXCEPT ![p] = "changed"]
    /\ overlap' = (overlap \/ \E q \in Backend \ {p} : Busy(q))
    /\ UNCHANGED <<whole, mv, nextCopy, stamp, todo>>

\* An INSERT, UPDATE or DELETE on the base table, of one row of the view.
Change(p, x) ==
    /\ pc[p] = "ready"
    /\ Free(base, p, x)
    /\ base' = Put(base, p, x, ~Seen(base, p, x))
    /\ pc' = [pc EXCEPT ![p] = "changed"]
    /\ overlap' = (overlap \/ \E q \in Backend \ {p} : Busy(q))
    /\ UNCHANGED <<whole, mv, nextCopy, stamp, todo>>

\* Mutant: nothing is deleted.
DeleteNothing(p) ==
    /\ pc[p] = "changed"
    /\ pc' = [pc EXCEPT ![p] = "delete"]
    /\ UNCHANGED <<whole, base, mv, nextCopy, stamp, todo, overlap>>

\* The trigger: DELETE FROM the view the copies that the statement sees.
DeleteStart(p) ==
    /\ pc[p] = "changed"
    /\ todo' = [todo EXCEPT ![p] = Copies(p)]
    /\ pc' = [pc EXCEPT ![p] = "delete"]
    /\ UNCHANGED <<whole, base, mv, nextCopy, stamp, overlap>>

\* One of them; when another transaction has removed it, there is nothing to do.
DeleteCopy(p, c) ==
    /\ pc[p] = "delete"
    /\ c \in todo[p]
    /\ Free(mv, p, c)
    /\ mv' = IF Seen(mv, p, c) = NoRow THEN mv ELSE Put(mv, p, c, NoRow)
    /\ todo' = [todo EXCEPT ![p] = @ \ {c}]
    /\ UNCHANGED <<whole, base, nextCopy, stamp, pc, overlap>>

\* INSERT INTO the view SELECT * FROM the plain view, as it is now.
InsertCopies(p) ==
    LET n == Cardinality(InBase(p)) IN
    /\ pc[p] = "delete"
    /\ todo[p] = {}
    /\ nextCopy + n - 1 <= MaxCopy
    /\ \E f \in [nextCopy .. nextCopy + n - 1 -> InBase(p)] :
          /\ \A x \in InBase(p) : \E c \in DOMAIN f : f[c] = x
          /\ mv' = [c \in Copy |-> IF c \in DOMAIN f
                                     THEN [now |-> NoRow, by |-> p, next |-> f[c]] ELSE mv[c]]
    /\ nextCopy' = nextCopy + n
    /\ pc' = [pc EXCEPT ![p] = "inserted"]
    /\ UNCHANGED <<whole, base, stamp, todo, overlap>>

\* refreshMV notes the time in the view's row of the table materializedView,
\* which stays locked; updateplacespec does not.
NoteTime(p) ==
    /\ pc[p] = "inserted"
    /\ IF whole THEN stamp \in {p, NoProc} /\ stamp' = p ELSE stamp' = stamp
    /\ pc' = [pc EXCEPT ![p] = "ready"]
    /\ UNCHANGED <<whole, base, mv, nextCopy, todo, overlap>>

ViewEnd(p) ==
    /\ stamp' = IF stamp = p THEN NoProc ELSE stamp
    /\ pc' = [pc EXCEPT ![p] = "ready"]
    /\ todo' = [todo EXCEPT ![p] = {}]
    /\ UNCHANGED <<whole, nextCopy, overlap>>

Commit(p) ==
    /\ pc[p] = "ready"
    /\ Busy(p)
    /\ base' = Committed(base, p)
    /\ mv' = Committed(mv, p)
    /\ ViewEnd(p)

\* ROLLBACK, an error, a deadlock found by PostgreSQL.
Abort(p) ==
    /\ Busy(p)
    /\ base' = RolledBack(base, p)
    /\ mv' = RolledBack(mv, p)
    /\ ViewEnd(p)

ViewNext == \E p \in Backend :
    \/ \E x \in Source : Change(p, x)
    \/ DeleteStart(p)
    \/ \E c \in Copy : DeleteCopy(p, c)
    \/ InsertCopies(p)
    \/ NoteTime(p)
    \/ Commit(p)
    \/ Abort(p)

ViewSpec == ViewInit /\ [][ViewNext]_viewVars

-----------------------------------------------------------------------------
(* Properties *)

\* What a new reader finds of row x in the materialized view.
Found(x) == {c \in Copy : mv[c].now = x}

\* As long as transactions have not overlapped, a reader finds in the
\* materialized view what is in the plain view, at any time: a change and the
\* rebuilding for it are committed or undone together.  (Overlapping ones leave
\* duplicates, and rows that are gone from the plain view.)
ViewIsExact ==
    ~overlap => \A x \in Source : Cardinality(Found(x)) = IF base[x].now THEN 1 ELSE 0

\* A row of the plain view is in the materialized view, if maybe twice, however
\* backends overlap: a name that is registered can be looked up.
ViewIsComplete ==
    \A x \in Source : base[x].now => Found(x) # {}
=============================================================================
