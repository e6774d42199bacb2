--------------------------- MODULE ReadCommitted ---------------------------
(***************************************************************************)
(* A table as PostgreSQL keeps it for transactions at READ COMMITTED.      *)
(* Each row has the committed state, and at most one uncommitted version,  *)
(* that of the transaction which holds the row's lock.  An absent row is a *)
(* row in the state "none", so that an insertion and a deletion are        *)
(* changes like others.                                                    *)
(*                                                                         *)
(* PostgreSQL is not part of wdb; these operators say what the SQL under   *)
(* src/src relies on.                                                      *)
(***************************************************************************)

CONSTANT NoProc     \* nobody has changed the row

\* A row nobody has touched.
Settled(s) == [now |-> s, by |-> NoProc, next |-> s]

\* The type of a table over the identifiers Id, for transactions Proc.
Table(Id, State, Proc) ==
    [Id -> [now : State, by : Proc \cup {NoProc}, next : State]]

\* The state of row x for a statement of transaction p.
Seen(t, p, x) == IF t[x].by = p THEN t[x].next ELSE t[x].now

\* p can change x at once; otherwise it waits for the holder to end.
Free(t, p, x) == t[x].by \in {p, NoProc}

\* p gives row x the state s.
Put(t, p, x, s) == [t EXCEPT ![x] = [now |-> @.now, by |-> p, next |-> s]]

\* p has changes to commit.
Holds(t, p) == \E x \in DOMAIN t : t[x].by = p

\* The table after the COMMIT and after the ROLLBACK of p.
Committed(t, p) ==
    [x \in DOMAIN t |-> IF t[x].by = p THEN Settled(t[x].next) ELSE t[x]]

RolledBack(t, p) ==
    [x \in DOMAIN t |-> IF t[x].by = p THEN Settled(t[x].now) ELSE t[x]]
=============================================================================
