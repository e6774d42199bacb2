---------------------------- MODULE MetadataProofs ----------------------------
(***************************************************************************)
(* Theorems about the metadata, for any number of backends, rows, roles,   *)
(* namespaces, names and places: what the statements of a session do to    *)
(* its role (WciSession), when the map of place names can be trusted, what *)
(* a reader finds in the materialized views (MaterializedView), and which  *)
(* data providers are in a group (DataProvider).                           *)
(***************************************************************************)
EXTENDS MCMetadata, FiniteSetTheorems, WellFoundedInduction, TLAPS

-----------------------------------------------------------------------------
(* The session.                                                            *)

\* Every variable has a value of its type (wciSession.h:40-107).
THEOREM TypeCorrect == Spec => []TypeOK
<1>1. Init => TypeOK
    BY SessionConstants DEF Init, TypeOK, Answer
<1>2. TypeOK /\ [Next]_vars => TypeOK'
    <2> SUFFICES ASSUME TypeOK, [Next]_vars PROVE TypeOK'
        OBVIOUS
    <2> USE SessionConstants DEF TypeOK, Answer
    <2>1. ASSUME NEW u \in Role, NEW k \in Namespace, Begin(u, k) PROVE TypeOK'
        BY <2>1 DEF Begin, Succeeds, Session
    <2>2. ASSUME NEW u \in Role, NEW k \in Namespace, BeginFails(u, k) PROVE TypeOK'
        BY <2>2 DEF BeginFails, Fails
    <2>3. CASE End
        BY <2>3 DEF End, Fails, Succeeds
    <2>4. ASSUME NEW n \in Name, Read(n) PROVE TypeOK'
        <3>1. CASE ~Initialized
            BY <2>4, <3>1 DEF Read, Fails
        <3>2. CASE Initialized
            <4>1. session \in Session /\ session.ns \in Namespace
                BY <3>2 DEF Initialized, Session
            <4>2. LookedUp(n) \in Answer
                BY <4>1 DEF LookedUp, NamedGeometry
            <4>3. given' \in Given
                BY <2>4, <3>2, <4>1, <4>2 DEF Read, Given
            <4>4. cache' \in [Name -> Answer]
                BY <2>4, <3>2, <4>2 DEF Read
            <4> QED
                BY <2>4, <3>2, <4>3, <4>4 DEF Read, Succeeds
        <3> QED BY <3>1, <3>2
    <2>5. ASSUME NEW k \in Namespace, NEW n \in Name, NEW g \in Answer, Rename(k, n, g)
          PROVE TypeOK'
        BY <2>5 DEF Rename
    <2>6. CASE OpenBlock
        BY <2>6 DEF OpenBlock
    <2>7. CASE CommitBlock
        BY <2>7 DEF CommitBlock
    <2>8. CASE RollbackBlock
        BY <2>8 DEF RollbackBlock
    <2>9. CASE UNCHANGED vars
        BY <2>9 DEF vars
    <2> QED
        BY <2>1, <2>2, <2>3, <2>4, <2>5, <2>6, <2>7, <2>8, <2>9 DEF Next
<1> QED
    BY <1>1, <1>2, PTL DEF Spec

-----------------------------------------------------------------------------
(* The role of the session.                                                *)

\* A session that has been initialized is for the role that it names.
LEMMA SessionIsInitialized ==
    ASSUME NEW u \in Granted, NEW k
    PROVE  [user |-> u, ns |-> k] # NoSession
<1>1. u # NoUser
    BY SessionConstants
<1>2. [user |-> u, ns |-> k].user = u /\ NoSession.user = NoUser
    BY DEF NoSession
<1> QED BY <1>1, <1>2

\* A step that is not a rollback keeps role and session together.
LEMMA StepKeepsRole ==
    ASSUME RoleMatchesSession, [Next]_vars, ~RollbackBlock
    PROVE  RoleMatchesSession'
<1> USE DEF RoleMatchesSession
<1>1. ASSUME NEW u \in Role, NEW k \in Namespace, Begin(u, k) PROVE RoleMatchesSession'
    BY <1>1, SessionIsInitialized DEF Begin, Succeeds
<1>2. ASSUME NEW u \in Role, NEW k \in Namespace, BeginFails(u, k) PROVE RoleMatchesSession'
    BY <1>2 DEF BeginFails, Fails
<1>3. CASE End
    BY <1>3 DEF End, Fails, Succeeds
<1>4. ASSUME NEW n \in Name, Read(n) PROVE RoleMatchesSession'
    BY <1>4 DEF Read, Fails, Succeeds
<1>5. ASSUME NEW k \in Namespace, NEW n \in Name, NEW g \in Answer, Rename(k, n, g)
      PROVE RoleMatchesSession'
    BY <1>5 DEF Rename
<1>6. CASE OpenBlock \/ CommitBlock
    BY <1>6 DEF OpenBlock, CommitBlock
<1>7. CASE UNCHANGED vars
    BY <1>7 DEF vars
<1> QED
    BY <1>1, <1>2, <1>3, <1>4, <1>5, <1>6, <1>7 DEF Next

\* No statement, failed ones included, brings the session and the role of the
\* connection apart (wciBegin.in.sql:20-55, wciEnd.in.sql:20-31).
THEOREM StatementsKeepRoleCorrect == Spec => StatementsKeepRole
<1>1. [Next]_vars => [RoleMatchesSession /\ ~RollbackBlock => RoleMatchesSession']_vars
    BY StepKeepsRole
<1> QED
    BY <1>1, PTL DEF Spec, StatementsKeepRole

\* A client that uses no transaction blocks never sees them apart: a statement
\* that fails is undone before it has changed either.
THEOREM RoleMatchesWithoutBlocks ==
    ASSUME Blocks = FALSE
    PROVE  Spec => []RoleMatchesSession
<1> DEFINE Inv == RoleMatchesSession /\ block = FALSE
<1>1. Init => Inv
    BY DEF Init, RoleMatchesSession
<1>2. Inv /\ [Next]_vars => Inv'
    <2> SUFFICES ASSUME Inv, [Next]_vars PROVE Inv'
        OBVIOUS
    <2>1. ~RollbackBlock
        BY DEF RollbackBlock
    <2>2. RoleMatchesSession'
        BY <2>1, StepKeepsRole
    <2>3. block' = FALSE
        BY DEF Next, vars, Begin, BeginFails, End, Read, Rename, OpenBlock, CommitBlock,
               RollbackBlock, Succeeds, Fails
    <2> QED BY <2>2, <2>3
<1> QED
    BY <1>1, <1>2, PTL DEF Spec

-----------------------------------------------------------------------------
(* The map of place names.                                                 *)

\* What the map says of a name is what the database says, and so was the answer
\* to the last read.
CacheIsCurrent ==
    \A k \in Namespace, n \in Name : cache[n] # NoGeometry => cache[n] = place[<<k, n>>]

\* With one namespace for place names, and names that keep their places, a read
\* takes a name for the place that has it, however long ago the map learned it
\* (ReadStore.cpp:51-61).
THEOREM NameIsCurrentCorrect ==
    ASSUME NEW ns, Namespace = {ns}, Renames = "new"
    PROVE  Spec => []NameIsCurrent
<1> DEFINE Inv == TypeOK /\ CacheIsCurrent /\ NameIsCurrent
<1>1. Init => Inv
    <2> SUFFICES ASSUME Init PROVE Inv
        OBVIOUS
    <2>1. TypeOK
        BY SessionConstants DEF Init, TypeOK, Answer
    <2> QED
        BY <2>1 DEF Init, CacheIsCurrent, NameIsCurrent
<1>2. Inv /\ TypeOK' /\ [Next]_vars => Inv'
    <2> SUFFICES ASSUME Inv, TypeOK', [Next]_vars PROVE CacheIsCurrent' /\ NameIsCurrent'
        OBVIOUS
    <2> USE DEF CacheIsCurrent, NameIsCurrent
    <2>1. ASSUME NEW n \in Name, Read(n) PROVE CacheIsCurrent' /\ NameIsCurrent'
        <3>1. CASE ~Initialized
            BY <2>1, <3>1 DEF Read
        <3>2. CASE Initialized
            <4>1. session.ns = ns
                BY <3>2 DEF Initialized, Session, TypeOK
            <4>2. LookedUp(n) = place[<<ns, n>>]
                BY <4>1 DEF LookedUp, NamedGeometry
            <4>3. place' = place /\ cache' = [cache EXCEPT ![n] = place[<<ns, n>>]]
                BY <2>1, <3>2, <4>2 DEF Read
            <4>4. CacheIsCurrent'
                BY <4>3 DEF TypeOK
            <4>5. given' = [ns |-> ns, name |-> n, place |-> place[<<ns, n>>]]
                BY <2>1, <3>2, <4>1, <4>2 DEF Read
            <4> QED BY <4>3, <4>4, <4>5
        <3> QED BY <3>1, <3>2
    <2>2. ASSUME NEW k \in Namespace, NEW n \in Name, NEW g \in Answer, Rename(k, n, g)
          PROVE CacheIsCurrent' /\ NameIsCurrent'
        <3>1. k = ns /\ place[<<ns, n>>] = NoGeometry
            BY <2>2 DEF Rename
        <3>2. cache[n] = NoGeometry
            BY <3>1
        <3>3. CacheIsCurrent'
            <4> SUFFICES ASSUME NEW m \in Name, cache[m] # NoGeometry
                         PROVE  cache[m] = place'[<<ns, m>>]
                BY <2>2 DEF Rename
            <4>1. m # n
                BY <3>2
            <4>2. <<ns, m>> # <<k, n>> /\ <<ns, m>> \in Namespace \X Name
                BY <4>1
            <4>3. place'[<<ns, m>>] = place[<<ns, m>>]
                BY <2>2, <4>2 DEF Rename, TypeOK
            <4> QED BY <4>3
        <3>4. NameIsCurrent'
            BY <2>2 DEF Rename
        <3> QED BY <3>3, <3>4
    <2>3. ASSUME NEW u \in Role, NEW k \in Namespace, Begin(u, k) \/ BeginFails(u, k)
          PROVE CacheIsCurrent' /\ NameIsCurrent'
        BY <2>3 DEF Begin, BeginFails
    <2>4. CASE End
        BY <2>4 DEF End
    <2>5. CASE OpenBlock \/ CommitBlock \/ RollbackBlock
        BY <2>5 DEF OpenBlock, CommitBlock, RollbackBlock
    <2>6. CASE UNCHANGED vars
        BY <2>6 DEF vars
    <2> QED
        BY <2>1, <2>2, <2>3, <2>4, <2>5, <2>6 DEF Next
<1> QED
    BY <1>1, <1>2, TypeCorrect, PTL DEF Spec

-----------------------------------------------------------------------------
(* The materialized views: types, and the tables of a transaction          *)

LEMMA BaseIsFinite ==
    ASSUME NEW p
    PROVE  IsFiniteSet(InBase(p)) /\ Cardinality(InBase(p)) \in Nat
<1>1. InBase(p) \in SUBSET Source
    BY DEF InBase
<1> QED BY <1>1, ViewConstants, FS_Subset, FS_CardinalityType

\* The new copies are of rows of the plain view.
LEMMA InsertRows ==
    ASSUME ViewTypeOK, NEW p \in Backend, InsertCopies(p)
    PROVE  \E n \in Nat : \E f \in [nextCopy .. nextCopy + n - 1 -> InBase(p)] :
              /\ n = Cardinality(InBase(p))
              /\ nextCopy' = nextCopy + n /\ nextCopy' \in 1 .. MaxCopy + 1
              /\ \A x \in InBase(p) : \E c \in nextCopy .. nextCopy + n - 1 : f[c] = x
              /\ nextCopy .. nextCopy + n - 1 \subseteq Copy
              /\ mv' = [c \in Copy |-> IF c \in nextCopy .. nextCopy + n - 1
                                         THEN [now |-> NoRow, by |-> p, next |-> f[c]] ELSE mv[c]]
<1>1. PICK n \in Nat : n = Cardinality(InBase(p))
    BY BaseIsFinite
<1>2. PICK f \in [nextCopy .. nextCopy + n - 1 -> InBase(p)] :
          /\ \A x \in InBase(p) : \E c \in DOMAIN f : f[c] = x
          /\ mv' = [c \in Copy |-> IF c \in DOMAIN f
                                     THEN [now |-> NoRow, by |-> p, next |-> f[c]] ELSE mv[c]]
    BY <1>1 DEF InsertCopies
<1>3. DOMAIN f = nextCopy .. nextCopy + n - 1
    OBVIOUS
<1>4. nextCopy + n - 1 <= MaxCopy /\ nextCopy' = nextCopy + n
    BY <1>1 DEF InsertCopies
<1>5. nextCopy \in Nat /\ 1 <= nextCopy
    BY ViewConstants DEF ViewTypeOK
<1>6. nextCopy' \in 1 .. MaxCopy + 1 /\ nextCopy .. nextCopy + n - 1 \subseteq Copy
    BY <1>4, <1>5, ViewConstants DEF Copy
<1>7. mv' = [c \in Copy |-> IF c \in nextCopy .. nextCopy + n - 1
                                THEN [now |-> NoRow, by |-> p, next |-> f[c]] ELSE mv[c]]
    BY <1>2, <1>3
<1>8. \A x \in InBase(p) : \E c \in nextCopy .. nextCopy + n - 1 : f[c] = x
    BY <1>2, <1>3
<1> WITNESS n \in Nat
<1> WITNESS f \in [nextCopy .. nextCopy + n - 1 -> InBase(p)]
<1> QED BY <1>1, <1>4, <1>6, <1>7, <1>8

\* The tables after the steps, row by row.
LEMMA ViewTables ==
    ASSUME ViewTypeOK, NEW p \in Backend
    PROVE  /\ \A x \in Source, s \in BOOLEAN : Put(base, p, x, s) \in Table(Source, BOOLEAN, Backend)
           /\ \A x, y \in Source : \A s : Put(base, p, x, s)[y] =
                 IF y = x THEN [now |-> base[x].now, by |-> p, next |-> s] ELSE base[y]
           /\ \A c \in Copy : Put(mv, p, c, NoRow) \in Table(Copy, Source \cup {NoRow}, Backend)
           /\ \A c \in Copy, d \in Copy : Put(mv, p, c, NoRow)[d] =
                 IF d = c THEN [now |-> mv[c].now, by |-> p, next |-> NoRow] ELSE mv[d]
           /\ Committed(base, p) \in Table(Source, BOOLEAN, Backend)
           /\ RolledBack(base, p) \in Table(Source, BOOLEAN, Backend)
           /\ Committed(mv, p) \in Table(Copy, Source \cup {NoRow}, Backend)
           /\ RolledBack(mv, p) \in Table(Copy, Source \cup {NoRow}, Backend)
           /\ \A x \in Source : /\ Committed(base, p)[x] =
                                      IF base[x].by = p THEN Settled(base[x].next) ELSE base[x]
                                /\ RolledBack(base, p)[x] =
                                      IF base[x].by = p THEN Settled(base[x].now) ELSE base[x]
           /\ \A c \in Copy : /\ Committed(mv, p)[c] =
                                    IF mv[c].by = p THEN Settled(mv[c].next) ELSE mv[c]
                              /\ RolledBack(mv, p)[c] =
                                    IF mv[c].by = p THEN Settled(mv[c].now) ELSE mv[c]
<1>1. base \in Table(Source, BOOLEAN, Backend) /\ mv \in Table(Copy, Source \cup {NoRow}, Backend)
    BY DEF ViewTypeOK
<1>2. /\ \A x \in Source, s \in BOOLEAN : Put(base, p, x, s) \in Table(Source, BOOLEAN, Backend)
      /\ \A x, y \in Source : \A s : Put(base, p, x, s)[y] =
            IF y = x THEN [now |-> base[x].now, by |-> p, next |-> s] ELSE base[y]
    BY <1>1 DEF Table, Put
<1>3. /\ \A c \in Copy : Put(mv, p, c, NoRow) \in Table(Copy, Source \cup {NoRow}, Backend)
      /\ \A c \in Copy, d \in Copy : Put(mv, p, c, NoRow)[d] =
            IF d = c THEN [now |-> mv[c].now, by |-> p, next |-> NoRow] ELSE mv[d]
    BY <1>1 DEF Table, Put
<1>4. /\ Committed(base, p) \in Table(Source, BOOLEAN, Backend)
      /\ RolledBack(base, p) \in Table(Source, BOOLEAN, Backend)
      /\ Committed(mv, p) \in Table(Copy, Source \cup {NoRow}, Backend)
      /\ RolledBack(mv, p) \in Table(Copy, Source \cup {NoRow}, Backend)
    BY <1>1 DEF Table, Committed, RolledBack, Settled
<1>5. /\ \A x \in Source : /\ Committed(base, p)[x] =
                                 IF base[x].by = p THEN Settled(base[x].next) ELSE base[x]
                           /\ RolledBack(base, p)[x] =
                                 IF base[x].by = p THEN Settled(base[x].now) ELSE base[x]
      /\ \A c \in Copy : /\ Committed(mv, p)[c] =
                               IF mv[c].by = p THEN Settled(mv[c].next) ELSE mv[c]
                         /\ RolledBack(mv, p)[c] =
                               IF mv[c].by = p THEN Settled(mv[c].now) ELSE mv[c]
    BY <1>1 DEF Table, Committed, RolledBack
<1> QED BY <1>2, <1>3, <1>4, <1>5

LEMMA ViewInitIsTyped ==
    ASSUME ViewInit PROVE ViewTypeOK
<1>1. PICK f \in [Copy -> Source \cup {NoRow}] :
          /\ mv = [c \in Copy |-> Settled(f[c])]
          /\ nextCopy = Cardinality({c \in Copy : f[c] # NoRow}) + 1
    BY DEF ViewInit
<1>2. mv \in Table(Copy, Source \cup {NoRow}, Backend)
    BY <1>1 DEF Table, Settled
<1>3. base \in Table(Source, BOOLEAN, Backend)
    <2>1. base \in [Source -> {Settled(TRUE), Settled(FALSE)}]
        BY DEF ViewInit
    <2>2. /\ Settled(TRUE) \in [now : BOOLEAN, by : Backend \cup {NoProc}, next : BOOLEAN]
          /\ Settled(FALSE) \in [now : BOOLEAN, by : Backend \cup {NoProc}, next : BOOLEAN]
        BY DEF Settled
    <2> QED BY <2>1, <2>2 DEF Table
<1>4. nextCopy \in 1 .. MaxCopy + 1
    <2>1. IsFiniteSet(Copy) /\ Cardinality(Copy) = MaxCopy
        BY ViewConstants, FS_Interval DEF Copy
    <2>2. {c \in Copy : f[c] # NoRow} \in SUBSET Copy
        OBVIOUS
    <2>3. /\ Cardinality({c \in Copy : f[c] # NoRow}) \in Nat
          /\ Cardinality({c \in Copy : f[c] # NoRow}) <= MaxCopy
        BY <2>1, <2>2, FS_Subset, FS_CardinalityType
    <2> QED BY <1>1, <2>3, ViewConstants
<1> QED BY <1>2, <1>3, <1>4 DEF ViewInit, ViewTypeOK

\* No rebuilding of a view, complete, undone or overlapped by another, leaves the types of
\* the tables (materializedView.in.sql:85-112).
LEMMA ViewTypeStep ==
    ASSUME ViewTypeOK, [ViewNext]_viewVars PROVE ViewTypeOK'
<1>1. ASSUME NEW p \in Backend, NEW x \in Source, Change(p, x) PROVE ViewTypeOK'
    <2>1. base' \in Table(Source, BOOLEAN, Backend)
        BY <1>1, ViewTables DEF Change
    <2> QED BY <1>1, <2>1 DEF Change, Busy, ViewTypeOK
<1>2. ASSUME NEW p \in Backend, DeleteStart(p) PROVE ViewTypeOK'
    BY <1>2 DEF DeleteStart, Copies, ViewTypeOK
<1>3. ASSUME NEW p \in Backend, NEW c \in Copy, DeleteCopy(p, c) PROVE ViewTypeOK'
    <2>1. mv' = mv \/ mv' = Put(mv, p, c, NoRow)
        BY <1>3 DEF DeleteCopy
    <2>2. mv' \in Table(Copy, Source \cup {NoRow}, Backend)
        <3>1. Put(mv, p, c, NoRow) \in Table(Copy, Source \cup {NoRow}, Backend)
            BY ViewTables
        <3>2. mv \in Table(Copy, Source \cup {NoRow}, Backend)
            BY DEF ViewTypeOK
        <3> QED BY <2>1, <3>1, <3>2
    <2> QED BY <1>3, <2>2 DEF DeleteCopy, ViewTypeOK
<1>4. ASSUME NEW p \in Backend, InsertCopies(p) PROVE ViewTypeOK'
    <2>1. mv' \in Table(Copy, Source \cup {NoRow}, Backend) /\ nextCopy' \in 1 .. MaxCopy + 1
        <3>1. InBase(p) \subseteq Source
            BY DEF InBase
        <3>2. PICK n \in Nat : \E f \in [nextCopy .. nextCopy + n - 1 -> InBase(p)] :
                  /\ nextCopy' \in 1 .. MaxCopy + 1
                  /\ mv' = [c \in Copy |-> IF c \in nextCopy .. nextCopy + n - 1
                                             THEN [now |-> NoRow, by |-> p, next |-> f[c]] ELSE mv[c]]
            BY <1>4, InsertRows
        <3> QED BY <3>1, <3>2 DEF ViewTypeOK, Table
    <2> QED BY <1>4, <2>1 DEF InsertCopies, ViewTypeOK
<1>5. ASSUME NEW p \in Backend, NoteTime(p) PROVE ViewTypeOK'
    BY <1>5 DEF NoteTime, ViewTypeOK
<1>6. ASSUME NEW p \in Backend, Commit(p) \/ Abort(p) PROVE ViewTypeOK'
    <2>1. /\ base' \in Table(Source, BOOLEAN, Backend)
          /\ mv' \in Table(Copy, Source \cup {NoRow}, Backend)
        <3>1. CASE Commit(p)
            BY <3>1, ViewTables DEF Commit
        <3>2. CASE Abort(p)
            BY <3>2, ViewTables DEF Abort
        <3> QED BY <1>6, <3>1, <3>2
    <2>2. ViewEnd(p)
        BY <1>6 DEF Commit, Abort
    <2> QED BY <2>1, <2>2 DEF ViewEnd, ViewTypeOK
<1>7. CASE UNCHANGED viewVars
    BY <1>7 DEF viewVars, ViewTypeOK
<1> QED BY <1>1, <1>2, <1>3, <1>4, <1>5, <1>6, <1>7 DEF ViewNext

\* What the steps make of the rows of both tables.
LEMMA DeleteRows ==
    ASSUME ViewTypeOK, NEW p \in Backend, NEW c \in Copy, DeleteCopy(p, c)
    PROVE  /\ \A d \in Copy : d # c => mv'[d] = mv[d]
           /\ mv'[c].now = mv[c].now /\ Seen(mv', p, c) = NoRow
           /\ mv'[c] = mv[c] \/ (mv'[c].by = p /\ mv'[c].next = NoRow)
           /\ \A q \in Backend : q # p => mv[c].by # q
<1>1. \A q \in Backend : q # p => mv[c].by # q
    BY ViewConstants DEF DeleteCopy, Free
<1>2. CASE Seen(mv, p, c) = NoRow
    BY <1>1, <1>2 DEF DeleteCopy
<1>3. CASE Seen(mv, p, c) # NoRow
    <2>1. mv' = Put(mv, p, c, NoRow)
        BY <1>3 DEF DeleteCopy
    <2>2. \A d \in Copy : mv'[d] = IF d = c THEN [now |-> mv[c].now, by |-> p, next |-> NoRow] ELSE mv[d]
        BY <2>1, ViewTables
    <2>3. mv'[c].now = mv[c].now /\ mv'[c].by = p /\ mv'[c].next = NoRow
        BY <2>2
    <2> QED BY <1>1, <2>2, <2>3 DEF Seen
<1> QED BY <1>2, <1>3

LEMMA ChangeRows ==
    ASSUME ViewTypeOK, NEW p \in Backend, NEW x \in Source, Change(p, x)
    PROVE  /\ \A y \in Source : y # x => base'[y] = base[y]
           /\ base'[x].now = base[x].now /\ base'[x].by = p
           /\ \A q \in Backend : q # p => base[x].by # q
<1>1. \A q \in Backend : q # p => base[x].by # q
    BY ViewConstants DEF Change, Free
<1>2. \A y \in Source : base'[y] =
          IF y = x THEN [now |-> base[x].now, by |-> p, next |-> ~Seen(base, p, x)] ELSE base[y]
    BY ViewTables DEF Change
<1>3. base'[x].now = base[x].now /\ base'[x].by = p
    BY <1>2
<1> QED BY <1>1, <1>2, <1>3

LEMMA ViewEndRows ==
    ASSUME ViewTypeOK, NEW p \in Backend
    PROVE  /\ Commit(p) =>
                 /\ \A x \in Source : /\ base[x].by # p => base'[x] = base[x]
                                      /\ base[x].by = p => /\ base'[x].by = NoProc
                                                           /\ base'[x].now = base[x].next
                                                           /\ base'[x].next = base[x].next
                 /\ \A c \in Copy : /\ mv[c].by # p => mv'[c] = mv[c]
                                    /\ mv[c].by = p => /\ mv'[c].by = NoProc
                                                       /\ mv'[c].now = mv[c].next
                                                       /\ mv'[c].next = mv[c].next
           /\ Abort(p) =>
                 /\ \A x \in Source : /\ base[x].by # p => base'[x] = base[x]
                                      /\ base[x].by = p => /\ base'[x].by = NoProc
                                                           /\ base'[x].now = base[x].now
                                                           /\ base'[x].next = base[x].now
                 /\ \A c \in Copy : /\ mv[c].by # p => mv'[c] = mv[c]
                                    /\ mv[c].by = p => /\ mv'[c].by = NoProc
                                                       /\ mv'[c].now = mv[c].now
                                                       /\ mv'[c].next = mv[c].now
<1>1. \A s : Settled(s).now = s /\ Settled(s).by = NoProc /\ Settled(s).next = s
    BY DEF Settled
<1>2. ASSUME Commit(p)
      PROVE  /\ \A x \in Source : /\ base[x].by # p => base'[x] = base[x]
                                  /\ base[x].by = p => base'[x] = Settled(base[x].next)
             /\ \A c \in Copy : /\ mv[c].by # p => mv'[c] = mv[c]
                                /\ mv[c].by = p => mv'[c] = Settled(mv[c].next)
    BY <1>2, ViewTables DEF Commit
<1>3. ASSUME Abort(p)
      PROVE  /\ \A x \in Source : /\ base[x].by # p => base'[x] = base[x]
                                  /\ base[x].by = p => base'[x] = Settled(base[x].now)
             /\ \A c \in Copy : /\ mv[c].by # p => mv'[c] = mv[c]
                                /\ mv[c].by = p => mv'[c] = Settled(mv[c].now)
    BY <1>3, ViewTables DEF Abort
<1> QED BY <1>1, <1>2, <1>3

\* What backends are doing after a step of p.
LEMMA ViewPlaces ==
    ASSUME ViewTypeOK, NEW p \in Backend
    PROVE  /\ \A x \in Source : Change(p, x) => pc[p] = "ready" /\ pc' = [pc EXCEPT ![p] = "changed"]
           /\ DeleteStart(p) => pc[p] = "changed" /\ pc' = [pc EXCEPT ![p] = "delete"]
           /\ \A c \in Copy : DeleteCopy(p, c) => pc[p] = "delete" /\ pc' = pc
           /\ InsertCopies(p) => pc[p] = "delete" /\ pc' = [pc EXCEPT ![p] = "inserted"]
           /\ NoteTime(p) => pc[p] = "inserted" /\ pc' = [pc EXCEPT ![p] = "ready"]
           /\ Commit(p) => pc[p] = "ready" /\ pc' = pc
           /\ Abort(p) => pc' = [pc EXCEPT ![p] = "ready"]
BY DEF Change, DeleteStart, DeleteCopy, InsertCopies, NoteTime, Commit, Abort, ViewEnd, ViewTypeOK

-----------------------------------------------------------------------------
(* No row of the view gets lost, however backends overlap                  *)

\* The transaction of p has inserted a copy of x.
Own(p, x) == \E c \in Copy : mv[c].by = p /\ mv[c].next = x

\* Nothing is known of copies still to be inserted, and copies are only ever deleted.
Unborn == \A c \in Copy : c >= nextCopy => mv[c].now = NoRow /\ mv[c].by = NoProc
OnlyDeleted ==
    \A c \in Copy, p \in Backend : mv[c].by = p /\ mv[c].now # NoRow => mv[c].next = NoRow

\* Between statements a transaction has copies of the rows that it has added.
Rebuilt ==
    \A p \in Backend, x \in Source :
        pc[p] \in {"inserted", "ready"} /\ base[x].by = p /\ base[x].next => Own(p, x)

\* A committed row has a committed copy that nobody deletes, or who deletes it has made
\* another one, is about to, or has changed the row.
Covered ==
    \A x \in Source : base[x].now => \E c \in Copy :
        /\ mv[c].now = x
        /\ \A p \in Backend : mv[c].by = p => pc[p] = "delete" \/ base[x].by = p \/ Own(p, x)

CompleteInv == ViewTypeOK /\ Unborn /\ OnlyDeleted /\ Rebuilt /\ Covered

LEMMA DeleteKeepsComplete ==
    ASSUME CompleteInv, NEW p \in Backend, NEW c \in Copy, DeleteCopy(p, c)
    PROVE  Unborn' /\ OnlyDeleted' /\ Rebuilt' /\ Covered'
<1> USE DEF CompleteInv
<1>1. /\ \A d \in Copy : d # c => mv'[d] = mv[d]
      /\ mv'[c].now = mv[c].now
      /\ mv'[c] = mv[c] \/ (mv'[c].by = p /\ mv'[c].next = NoRow)
      /\ \A q \in Backend : q # p => mv[c].by # q
    BY DeleteRows
<1>2. /\ UNCHANGED <<base, nextCopy, pc>> /\ pc[p] = "delete"
      /\ Seen(mv, p, c) = NoRow => mv' = mv
    BY DEF DeleteCopy
<1>3. \A q \in Backend, x \in Source : q # p /\ Own(q, x) => Own(q, x)'
    BY <1>1 DEF Own
<1>4. Unborn'
    BY <1>1, <1>2, ViewConstants DEF Unborn, Seen
<1>5. OnlyDeleted'
    BY <1>1 DEF OnlyDeleted
<1>6. Rebuilt'
    BY <1>2, <1>3 DEF Rebuilt
<1>7. Covered'
    <2> SUFFICES ASSUME NEW x \in Source, base[x].now
                 PROVE  \E d \in Copy :
                           /\ mv'[d].now = x
                           /\ \A q \in Backend : mv'[d].by = q =>
                                 pc[q] = "delete" \/ base[x].by = q \/ Own(q, x)'
        BY <1>2 DEF Covered
    <2>1. PICK d \in Copy :
              /\ mv[d].now = x
              /\ \A q \in Backend : mv[d].by = q => pc[q] = "delete" \/ base[x].by = q \/ Own(q, x)
        BY DEF Covered
    <2> QED BY <1>1, <1>2, <1>3, <2>1
<1> QED BY <1>4, <1>5, <1>6, <1>7

LEMMA InsertKeepsComplete ==
    ASSUME CompleteInv, NEW p \in Backend, InsertCopies(p)
    PROVE  Unborn' /\ OnlyDeleted' /\ Rebuilt' /\ Covered'
<1> USE DEF CompleteInv
<1>1. PICK n \in Nat : \E f \in [nextCopy .. nextCopy + n - 1 -> InBase(p)] :
          /\ nextCopy' = nextCopy + n
          /\ \A x \in InBase(p) : \E c \in nextCopy .. nextCopy + n - 1 : f[c] = x
          /\ nextCopy .. nextCopy + n - 1 \subseteq Copy
          /\ mv' = [c \in Copy |-> IF c \in nextCopy .. nextCopy + n - 1
                                     THEN [now |-> NoRow, by |-> p, next |-> f[c]] ELSE mv[c]]
    BY InsertRows
<1>2. PICK f \in [nextCopy .. nextCopy + n - 1 -> InBase(p)] :
          /\ nextCopy' = nextCopy + n
          /\ \A x \in InBase(p) : \E c \in nextCopy .. nextCopy + n - 1 : f[c] = x
          /\ nextCopy .. nextCopy + n - 1 \subseteq Copy
          /\ mv' = [c \in Copy |-> IF c \in nextCopy .. nextCopy + n - 1
                                     THEN [now |-> NoRow, by |-> p, next |-> f[c]] ELSE mv[c]]
    BY <1>1
<1>3. /\ UNCHANGED base /\ pc[p] = "delete" /\ pc'[p] = "inserted"
      /\ \A q \in Backend : q # p => pc'[q] = pc[q]
    BY DEF InsertCopies, ViewTypeOK
<1>4. nextCopy \in Nat
    BY DEF ViewTypeOK
<1>5. \A c \in Copy : c >= nextCopy' => c >= nextCopy /\ c \notin nextCopy .. nextCopy + n - 1
    BY <1>2, <1>4 DEF Copy
<1>6. /\ \A c \in Copy : c \notin nextCopy .. nextCopy + n - 1 => mv'[c] = mv[c]
      /\ \A c \in nextCopy .. nextCopy + n - 1 : /\ mv'[c].now = NoRow /\ mv'[c].by = p /\ mv'[c].next = f[c]
                                                 /\ mv[c].now = NoRow /\ mv[c].by = NoProc
    <2>1. \A c \in nextCopy .. nextCopy + n - 1 : c \in Copy /\ c >= nextCopy
        BY <1>2, <1>4
    <2> QED BY <1>2, <2>1 DEF Unborn
<1>7. \A q \in Backend, x \in Source : Own(q, x) => Own(q, x)'
    BY <1>6, ViewConstants DEF Own
<1>8. \A x \in Source : x \in InBase(p) => Own(p, x)'
    BY <1>2, <1>6 DEF Own
<1>9. Unborn'
    BY <1>5, <1>6 DEF Unborn
<1>10. OnlyDeleted'
    BY <1>6 DEF OnlyDeleted
<1>11. Rebuilt'
    BY <1>3, <1>7, <1>8 DEF Rebuilt, InBase, Seen
<1>12. Covered'
    <2> SUFFICES ASSUME NEW x \in Source, base[x].now
                 PROVE  \E d \in Copy :
                           /\ mv'[d].now = x
                           /\ \A q \in Backend : mv'[d].by = q =>
                                 pc'[q] = "delete" \/ base[x].by = q \/ Own(q, x)'
        BY <1>3 DEF Covered
    <2>1. PICK d \in Copy :
              /\ mv[d].now = x
              /\ \A q \in Backend : mv[d].by = q => pc[q] = "delete" \/ base[x].by = q \/ Own(q, x)
        BY DEF Covered
    <2>2. mv'[d] = mv[d]
        BY <1>6, <2>1, ViewConstants
    <2>3. base[x].by = p \/ Own(p, x)'
        BY <1>8 DEF InBase, Seen
    <2> QED BY <1>3, <1>7, <2>1, <2>2, <2>3
<1> QED BY <1>9, <1>10, <1>11, <1>12

LEMMA CommitKeepsComplete ==
    ASSUME CompleteInv, NEW p \in Backend, Commit(p)
    PROVE  Unborn' /\ OnlyDeleted' /\ Rebuilt' /\ Covered'
<1> USE DEF CompleteInv
<1>1. /\ \A x \in Source : /\ base[x].by # p => base'[x] = base[x]
                           /\ base[x].by = p => base'[x].by = NoProc /\ base'[x].now = base[x].next
      /\ \A c \in Copy : /\ mv[c].by # p => mv'[c] = mv[c]
                         /\ mv[c].by = p => mv'[c].by = NoProc /\ mv'[c].now = mv[c].next
    BY ViewEndRows
<1>2. pc[p] = "ready" /\ pc' = pc /\ nextCopy' = nextCopy /\ p # NoProc
    BY ViewPlaces, ViewConstants DEF Commit, ViewEnd
<1>3. Unborn' /\ OnlyDeleted'
    BY <1>1, <1>2, ViewConstants DEF Unborn, OnlyDeleted
<1>4. \A q \in Backend, x \in Source : q # p /\ Own(q, x) => Own(q, x)'
    BY <1>1 DEF Own
<1>5. Rebuilt'
    BY <1>1, <1>2, <1>4, ViewConstants DEF Rebuilt
<1>6. \A x \in Source : Own(p, x) => \E c \in Copy : mv'[c].now = x /\ mv'[c].by = NoProc
    BY <1>1 DEF Own
<1>7. Covered'
    <2> SUFFICES ASSUME NEW x \in Source, base'[x].now
                 PROVE  \E d \in Copy :
                           /\ mv'[d].now = x
                           /\ \A q \in Backend : mv'[d].by = q =>
                                 pc[q] = "delete" \/ base'[x].by = q \/ Own(q, x)'
        BY <1>2 DEF Covered
    <2>1. CASE base[x].by = p
        <3>1. Own(p, x)
            BY <1>1, <1>2, <2>1 DEF Rebuilt
        <3> QED BY <1>6, <3>1, ViewConstants
    <2>2. CASE base[x].by # p
        <3>1. PICK d \in Copy :
                  /\ mv[d].now = x
                  /\ \A q \in Backend : mv[d].by = q => pc[q] = "delete" \/ base[x].by = q \/ Own(q, x)
            BY <1>1, <2>2 DEF Covered
        <3>2. CASE mv[d].by = p
            <4>1. Own(p, x)
                BY <1>2, <2>2, <3>1, <3>2
            <4> QED BY <1>6, <4>1, ViewConstants
        <3>3. CASE mv[d].by # p
            BY <1>1, <1>4, <2>2, <3>1, <3>3
        <3> QED BY <3>2, <3>3
    <2> QED BY <2>1, <2>2
<1> QED BY <1>3, <1>5, <1>7

LEMMA AbortKeepsComplete ==
    ASSUME CompleteInv, NEW p \in Backend, Abort(p)
    PROVE  Unborn' /\ OnlyDeleted' /\ Rebuilt' /\ Covered'
<1> USE DEF CompleteInv
<1>1. /\ \A x \in Source : /\ base'[x].now = base[x].now
                           /\ base[x].by # p => base'[x] = base[x]
                           /\ base[x].by = p => base'[x].by = NoProc
      /\ \A c \in Copy : /\ mv'[c].now = mv[c].now
                         /\ mv[c].by # p => mv'[c] = mv[c]
                         /\ mv[c].by = p => mv'[c].by = NoProc
    BY ViewEndRows
<1>2. /\ \A q \in Backend : q # p => pc'[q] = pc[q]
      /\ nextCopy' = nextCopy /\ p # NoProc
    BY ViewPlaces, ViewConstants DEF Abort, ViewEnd
<1>3. Unborn' /\ OnlyDeleted'
    BY <1>1, <1>2, ViewConstants DEF Unborn, OnlyDeleted
<1>4. \A q \in Backend, x \in Source : q # p /\ Own(q, x) => Own(q, x)'
    BY <1>1 DEF Own
<1>5. Rebuilt'
    BY <1>1, <1>2, <1>4, ViewConstants DEF Rebuilt
<1>6. Covered'
    <2> SUFFICES ASSUME NEW x \in Source, base[x].now
                 PROVE  \E d \in Copy :
                           /\ mv'[d].now = x
                           /\ \A q \in Backend : mv'[d].by = q =>
                                 pc'[q] = "delete" \/ base'[x].by = q \/ Own(q, x)'
        BY <1>1 DEF Covered
    <2>1. PICK d \in Copy :
              /\ mv[d].now = x
              /\ \A q \in Backend : mv[d].by = q => pc[q] = "delete" \/ base[x].by = q \/ Own(q, x)
        BY DEF Covered
    <2>2. CASE mv[d].by = p
        BY <1>1, <2>1, <2>2, ViewConstants
    <2>3. CASE mv[d].by # p
        <3>1. \A q \in Backend : q # p /\ base[x].by = q => base'[x].by = q
            BY <1>1
        <3> QED BY <1>1, <1>2, <1>4, <2>1, <2>3, <3>1
    <2> QED BY <2>2, <2>3
<1> QED BY <1>3, <1>5, <1>6

LEMMA CompleteStep ==
    ASSUME CompleteInv, [ViewNext]_viewVars PROVE CompleteInv'
<1> USE DEF CompleteInv
<1>0. ViewTypeOK'
    BY ViewTypeStep
<1>1. ASSUME NEW p \in Backend, NEW x \in Source, Change(p, x) PROVE CompleteInv'
    <2>1. /\ \A y \in Source : y # x => base'[y] = base[y]
          /\ base'[x].now = base[x].now /\ base'[x].by = p
          /\ \A q \in Backend : q # p => base[x].by # q
        BY <1>1, ChangeRows
    <2>2. /\ UNCHANGED <<mv, nextCopy>> /\ pc[p] = "ready" /\ pc'[p] = "changed"
          /\ \A q \in Backend : q # p => pc'[q] = pc[q]
        BY <1>1 DEF Change, ViewTypeOK
    <2>3. Unborn' /\ OnlyDeleted' /\ \A q \in Backend, y \in Source : Own(q, y)' <=> Own(q, y)
        BY <2>2 DEF Unborn, OnlyDeleted, Own
    <2>4. Rebuilt'
        BY <2>1, <2>2, <2>3 DEF Rebuilt
    <2>5. ASSUME NEW y \in Source, base[y].now
          PROVE  \E d \in Copy :
                    /\ mv[d].now = y
                    /\ \A q \in Backend : mv[d].by = q =>
                          pc'[q] = "delete" \/ base'[y].by = q \/ Own(q, y)'
        <3>1. PICK d \in Copy :
                  /\ mv[d].now = y
                  /\ \A q \in Backend : mv[d].by = q => pc[q] = "delete" \/ base[y].by = q \/ Own(q, y)
            BY <2>5 DEF Covered
        <3>2. \A q \in Backend : /\ pc[q] = "delete" => pc'[q] = "delete"
                                 /\ base[y].by = q => base'[y].by = q
            BY <2>1, <2>2
        <3> QED BY <2>3, <3>1, <3>2
    <2>6. Covered'
        <3>1. \A y \in Source : base'[y].now = base[y].now
            BY <2>1
        <3> QED BY <2>2, <2>5, <3>1 DEF Covered
    <2> QED BY <1>0, <2>3, <2>4, <2>6
<1>2. ASSUME NEW p \in Backend, DeleteStart(p) \/ NoteTime(p) PROVE CompleteInv'
    <2>1. /\ UNCHANGED <<base, mv, nextCopy>>
          /\ \/ pc[p] = "changed" /\ pc'[p] = "delete"
             \/ pc[p] = "inserted" /\ pc'[p] = "ready"
          /\ \A q \in Backend : q # p => pc'[q] = pc[q]
        BY <1>2 DEF DeleteStart, NoteTime, ViewTypeOK
    <2>2. Unborn' /\ OnlyDeleted' /\ \A q \in Backend, y \in Source : Own(q, y)' <=> Own(q, y)
        BY <2>1 DEF Unborn, OnlyDeleted, Own
    <2>3. Rebuilt' /\ Covered'
        BY <2>1, <2>2 DEF Rebuilt, Covered
    <2> QED BY <1>0, <2>2, <2>3
<1>3. CASE UNCHANGED viewVars
    BY <1>0, <1>3 DEF viewVars, Unborn, OnlyDeleted, Rebuilt, Covered, Own
<1> QED BY <1>0, <1>1, <1>2, <1>3, DeleteKeepsComplete, InsertKeepsComplete, CommitKeepsComplete,
           AbortKeepsComplete DEF ViewNext

LEMMA InitIsComplete ==
    ASSUME ViewInit PROVE CompleteInv
<1>1. PICK f \in [Copy -> Source \cup {NoRow}] :
          /\ \A x \in Source : Cardinality({c \in Copy : f[c] = x}) = IF base[x].now THEN 1 ELSE 0
          /\ mv = [c \in Copy |-> Settled(f[c])]
          /\ \A c \in Copy : f[c] # NoRow <=> c < nextCopy
    BY DEF ViewInit
<1>2. /\ \A c \in Copy : mv[c].now = f[c] /\ mv[c].by = NoProc
      /\ \A x \in Source : base[x].by = NoProc
    BY <1>1 DEF ViewInit, Settled
<1>3. ViewTypeOK
    BY ViewInitIsTyped
<1>4. Unborn
    <2>1. \A c \in Copy : c >= nextCopy => ~(c < nextCopy)
        BY <1>3 DEF Copy, ViewTypeOK
    <2> QED BY <1>1, <1>2, <2>1 DEF Unborn
<1>5. OnlyDeleted /\ Rebuilt
    BY <1>2, ViewConstants DEF OnlyDeleted, Rebuilt
<1>6. Covered
    <2> SUFFICES ASSUME NEW x \in Source, base[x].now PROVE \E c \in Copy : mv[c].now = x
        BY <1>2, ViewConstants DEF Covered
    <2>1. Cardinality({c \in Copy : f[c] = x}) = 1
        BY <1>1
    <2>2. {c \in Copy : f[c] = x} # {}
        BY <2>1, FS_EmptySet
    <2> QED BY <1>2, <2>2
<1> QED BY <1>3, <1>4, <1>5, <1>6 DEF CompleteInv

\* No type of a table of a view is broken, nor does a row that is committed ever lack its
\* copy, however many backends rebuild the view at the same time, and whether they commit
\* or roll back (materializedView.in.sql:85-112, placeDefinitionTriggers.in.sql:121-133).
THEOREM ViewTypeCorrect == ViewSpec => []ViewTypeOK
BY ViewInitIsTyped, ViewTypeStep, PTL DEF ViewSpec

\* A name that is registered can be looked up: a reader finds in the materialized view a
\* copy of every committed row of the plain view, however rebuildings overlap.
THEOREM ViewIsCompleteCorrect == ViewSpec => []ViewIsComplete
<1>1. CompleteInv => ViewIsComplete
    BY DEF CompleteInv, Covered, ViewIsComplete, Found
<1> QED BY <1>1, InitIsComplete, CompleteStep, PTL DEF ViewSpec

-----------------------------------------------------------------------------
(* Without overlapping transactions, every row once                        *)

\* The view is the plain view: as committed, and as p sees both.
ExactNow ==
    \A x \in Source :
        /\ base[x].now => \E c \in Copy : mv[c].now = x
        /\ \A c \in Copy : mv[c].now = x => base[x].now
        /\ \A c, d \in Copy : mv[c].now = x /\ mv[d].now = x => c = d
ExactFor(p) ==
    \A x \in Source :
        /\ Seen(base, p, x) => \E c \in Copy : Seen(mv, p, c) = x
        /\ \A c \in Copy : Seen(mv, p, c) = x => Seen(base, p, x)
        /\ \A c, d \in Copy : Seen(mv, p, c) = x /\ Seen(mv, p, d) = x => c = d

OneBusy == \A p, q \in Backend : Busy(p) /\ Busy(q) => p = q

\* What the rebuilding of p has still to do.
Rebuilding(p) ==
    /\ pc[p] \in {"ready", "inserted"} => ExactFor(p)
    /\ pc[p] = "delete" => Copies(p) \subseteq todo[p]

ExactInv ==
    ~overlap => OneBusy /\ ExactNow /\ \A p \in Backend : Rebuilding(p)

\* A step of p makes no other backend busy.
LEMMA OthersBusy ==
    ASSUME ViewTypeOK, ViewTypeOK', NEW p \in Backend,
           \A x \in Source : base'[x] = base[x] \/ base'[x].by \in {p, NoProc},
           \A c \in Copy : mv'[c] = mv[c] \/ mv'[c].by \in {p, NoProc},
           \A q \in Backend : q # p => pc'[q] = pc[q],
           stamp' \in {stamp, p, NoProc},
           NEW q \in Backend, q # p, ~Busy(q)
    PROVE  ~Busy(q)'
<1>1. /\ DOMAIN base = Source /\ DOMAIN mv = Copy
      /\ DOMAIN base' = Source /\ DOMAIN mv' = Copy
    BY DEF ViewTypeOK, Table
<1>2. q # NoProc
    BY ViewConstants
<1> QED BY <1>1, <1>2 DEF Busy, Holds

\* For a backend that is not busy the view is exact if it is for all.
LEMMA IdleRebuilds ==
    ASSUME ViewTypeOK', NEW q \in Backend, ~Busy(q)', ExactNow'
    PROVE  Rebuilding(q)'
<1>1. /\ pc'[q] = "ready"
      /\ \A x \in Source : base'[x].by # q
      /\ \A c \in Copy : mv'[c].by # q
    BY DEF Busy, Holds, ViewTypeOK, Table
<1>2. /\ \A x \in Source : Seen(base', q, x) = base'[x].now
      /\ \A c \in Copy : Seen(mv', q, c) = mv'[c].now
    BY <1>1 DEF Seen
<1> QED BY <1>1, <1>2 DEF ExactNow, ExactFor, Rebuilding

\* So a step keeps the view exact if it does so for the backend that takes it.
LEMMA OneStep ==
    ASSUME ViewTypeOK, ViewTypeOK', ExactInv, NEW p \in Backend, ~overlap,
           \A q \in Backend : q # p => ~Busy(q),
           \A x \in Source : base'[x] = base[x] \/ base'[x].by \in {p, NoProc},
           \A c \in Copy : mv'[c] = mv[c] \/ mv'[c].by \in {p, NoProc},
           \A q \in Backend : q # p => pc'[q] = pc[q],
           stamp' \in {stamp, p, NoProc},
           ExactNow', Rebuilding(p)'
    PROVE  ExactInv'
<1>1. \A q \in Backend : q # p => ~Busy(q)'
    BY OthersBusy
<1>2. \A q \in Backend : Rebuilding(q)'
    BY <1>1, IdleRebuilds
<1> QED BY <1>1, <1>2 DEF ExactInv, OneBusy

\* As many new copies as rows, and one for every row, are one for each.
LEMMA OneCopyEach ==
    ASSUME NEW D, NEW S, NEW f \in [D -> S],
           IsFiniteSet(D), IsFiniteSet(S), Cardinality(D) = Cardinality(S),
           \A x \in S : \E c \in D : f[c] = x
    PROVE  \A c, d \in D : f[c] = f[d] => c = d
<1>1. f \in Surjection(D, S)
    BY DEF Surjection
<1>2. f \in Injection(D, S)
    BY <1>1, FS_SurjSameCardinalityImpliesInj
<1> QED BY <1>2 DEF Injection, IsInjective

\* n copies from a on are n.
LEMMA CopiesFrom ==
    ASSUME NEW a \in Nat, NEW n \in Nat
    PROVE  IsFiniteSet(a .. a + n - 1) /\ Cardinality(a .. a + n - 1) = n
BY FS_Interval

LEMMA InsertKeepsExact ==
    ASSUME CompleteInv, CompleteInv', ExactInv, NEW p \in Backend, InsertCopies(p), ~overlap
    PROVE  ExactNow' /\ Rebuilding(p)' /\ \A c \in Copy : mv'[c] = mv[c] \/ mv'[c].by = p
<1> USE DEF CompleteInv
<1>1. PICK n \in Nat : \E f \in [nextCopy .. nextCopy + n - 1 -> InBase(p)] :
          /\ n = Cardinality(InBase(p))
          /\ \A x \in InBase(p) : \E c \in nextCopy .. nextCopy + n - 1 : f[c] = x
          /\ nextCopy .. nextCopy + n - 1 \subseteq Copy
          /\ mv' = [c \in Copy |-> IF c \in nextCopy .. nextCopy + n - 1
                                     THEN [now |-> NoRow, by |-> p, next |-> f[c]] ELSE mv[c]]
    BY InsertRows
<1>2. PICK f \in [nextCopy .. nextCopy + n - 1 -> InBase(p)] :
          /\ n = Cardinality(InBase(p))
          /\ \A x \in InBase(p) : \E c \in nextCopy .. nextCopy + n - 1 : f[c] = x
          /\ nextCopy .. nextCopy + n - 1 \subseteq Copy
          /\ mv' = [c \in Copy |-> IF c \in nextCopy .. nextCopy + n - 1
                                     THEN [now |-> NoRow, by |-> p, next |-> f[c]] ELSE mv[c]]
    BY <1>1
<1>3. /\ UNCHANGED <<base, overlap>> /\ pc[p] = "delete" /\ pc'[p] = "inserted" /\ todo[p] = {}
    BY DEF InsertCopies, ViewTypeOK
<1>4. nextCopy \in Nat
    BY DEF ViewTypeOK
<1>5. \A c, d \in nextCopy .. nextCopy + n - 1 : f[c] = f[d] => c = d
    <2>1. IsFiniteSet(InBase(p)) /\ Cardinality(InBase(p)) = n
        BY <1>2, BaseIsFinite
    <2>2. /\ f \in [nextCopy .. nextCopy + n - 1 -> InBase(p)]
          /\ \A x \in InBase(p) : \E c \in nextCopy .. nextCopy + n - 1 : f[c] = x
        BY <1>2
    <2>3. PICK D, S : D = nextCopy .. nextCopy + n - 1 /\ S = InBase(p)
        OBVIOUS
    <2>4. IsFiniteSet(nextCopy .. nextCopy + n - 1) /\ Cardinality(nextCopy .. nextCopy + n - 1) = n
        <3>1. PICK a \in Nat : a = nextCopy
            BY <1>4
        <3>2. IsFiniteSet(a .. a + n - 1) /\ Cardinality(a .. a + n - 1) = n
            BY CopiesFrom
        <3> QED BY <3>1, <3>2
    <2>5. /\ IsFiniteSet(D) /\ IsFiniteSet(S) /\ Cardinality(D) = Cardinality(S)
          /\ f \in [D -> S]
          /\ \A x \in S : \E c \in D : f[c] = x
        BY <2>1, <2>2, <2>3, <2>4
    <2>6. \A c, d \in D : f[c] = f[d] => c = d
        BY <2>5, OneCopyEach, Zenon
    <2> QED BY <2>3, <2>6
<1>6. /\ \A c \in Copy : c \notin nextCopy .. nextCopy + n - 1 => mv'[c] = mv[c]
      /\ \A c \in nextCopy .. nextCopy + n - 1 : /\ c \in Copy /\ mv'[c].now = NoRow /\ mv'[c].by = p
                                                 /\ mv'[c].next = f[c] /\ mv[c].now = NoRow
    <2>1. \A c \in nextCopy .. nextCopy + n - 1 : c \in Copy /\ c >= nextCopy
        BY <1>2, <1>4
    <2> QED BY <1>2, <2>1 DEF Unborn
<1>7. \A c \in Copy : mv'[c].now = mv[c].now /\ (mv'[c] = mv[c] \/ mv'[c].by = p)
    BY <1>6
<1>8. ExactNow'
    BY <1>3, <1>7 DEF ExactInv, ExactNow
<1>9. \A c \in Copy : Seen(mv, p, c) = NoRow
    BY <1>3 DEF ExactInv, Rebuilding, Copies
<1>10. /\ \A c \in nextCopy .. nextCopy + n - 1 : Seen(mv', p, c) = f[c]
       /\ \A c \in Copy : c \notin nextCopy .. nextCopy + n - 1 => Seen(mv', p, c) = NoRow
    BY <1>6, <1>9 DEF Seen
<1>11. ExactFor(p)'
    <2>1. ASSUME NEW x \in Source, Seen(base, p, x) PROVE \E c \in Copy : Seen(mv', p, c) = x
        <3>1. x \in InBase(p)
            BY <2>1 DEF InBase
        <3> QED BY <1>2, <1>6, <1>10, <3>1
    <2>2. ASSUME NEW x \in Source, NEW c \in Copy, Seen(mv', p, c) = x
          PROVE  c \in nextCopy .. nextCopy + n - 1 /\ f[c] = x /\ Seen(base, p, x)
        <3>1. c \in nextCopy .. nextCopy + n - 1 /\ f[c] = x
            BY <1>10, <2>2, ViewConstants
        <3>2. x \in InBase(p)
            BY <3>1
        <3> QED BY <3>1, <3>2 DEF InBase
    <2>3. \A x \in Source : \A c, d \in Copy : Seen(mv', p, c) = x /\ Seen(mv', p, d) = x => c = d
        BY <1>5, <2>2
    <2> QED BY <1>3, <2>1, <2>2, <2>3 DEF ExactFor
<1> QED BY <1>3, <1>7, <1>8, <1>11 DEF Rebuilding

LEMMA ExactStep ==
    ASSUME CompleteInv, ExactInv, [ViewNext]_viewVars PROVE ExactInv'
<1> USE DEF CompleteInv
<1>0. CompleteInv' /\ ViewTypeOK'
    BY CompleteStep
<1>1. CASE overlap
    <2>1. overlap'
        BY <1>1 DEF ViewNext, viewVars, Change, DeleteStart, DeleteCopy, InsertCopies, NoteTime,
                    Commit, Abort, ViewEnd
    <2> QED BY <2>1 DEF ExactInv
<1>2. CASE ~overlap
    <2> USE <1>2
    <2>1. OneBusy /\ ExactNow /\ \A p \in Backend : Rebuilding(p)
        BY DEF ExactInv
    <2>2. ASSUME NEW p \in Backend, NEW x \in Source, Change(p, x) PROVE ExactInv'
        <3>1. CASE overlap'
            BY <3>1 DEF ExactInv
        <3>2. CASE ~overlap'
            <4>1. \A q \in Backend : q # p => ~Busy(q)
                BY <2>2, <3>2 DEF Change
            <4>2. /\ \A y \in Source : base'[y].now = base[y].now
                  /\ \A y \in Source : base'[y] = base[y] \/ base'[y].by = p
                BY <2>2, ChangeRows
            <4>3. /\ UNCHANGED <<mv, stamp>> /\ pc'[p] = "changed"
                  /\ \A q \in Backend : q # p => pc'[q] = pc[q]
                BY <2>2 DEF Change, ViewTypeOK
            <4>4. ExactNow'
                BY <2>1, <4>2, <4>3 DEF ExactNow
            <4>5. Rebuilding(p)'
                BY <4>3 DEF Rebuilding
            <4> QED BY <1>0, <4>1, <4>2, <4>3, <4>4, <4>5, OneStep
        <3> QED BY <3>1, <3>2
    <2>3. ASSUME NEW p \in Backend, Busy(p) PROVE \A q \in Backend : q # p => ~Busy(q)
        BY <2>1, <2>3 DEF OneBusy
    <2>4. ASSUME NEW p \in Backend, DeleteStart(p) PROVE ExactInv'
        <3>1. /\ UNCHANGED <<base, mv, stamp, overlap>> /\ pc[p] = "changed" /\ pc'[p] = "delete"
              /\ todo'[p] = Copies(p)
              /\ \A q \in Backend : q # p => pc'[q] = pc[q]
            BY <2>4 DEF DeleteStart, ViewTypeOK
        <3>2. ExactNow' /\ Rebuilding(p)' /\ Busy(p)
            BY <2>1, <3>1 DEF ExactNow, Rebuilding, Copies, Busy
        <3> QED BY <1>0, <2>3, <3>1, <3>2, OneStep
    <2>5. ASSUME NEW p \in Backend, NEW c \in Copy, DeleteCopy(p, c) PROVE ExactInv'
        <3>1. /\ UNCHANGED <<base, stamp, overlap, pc>> /\ pc[p] = "delete"
              /\ todo'[p] = todo[p] \ {c}
            BY <2>5 DEF DeleteCopy, ViewTypeOK
        <3>2. /\ \A d \in Copy : d # c => mv'[d] = mv[d]
              /\ mv'[c].now = mv[c].now /\ Seen(mv', p, c) = NoRow
              /\ mv'[c] = mv[c] \/ mv'[c].by = p
            BY <2>5, DeleteRows
        <3>3. \A d \in Copy : mv'[d].now = mv[d].now
            BY <3>2
        <3>4. ExactNow' /\ Busy(p)
            BY <2>1, <3>1, <3>3 DEF ExactNow, Busy
        <3>5. Rebuilding(p)'
            <4>1. Copies(p) \subseteq todo[p]
                BY <2>1, <3>1 DEF Rebuilding
            <4>2. \A d \in Copy : d # c => Seen(mv', p, d) = Seen(mv, p, d)
                BY <3>2 DEF Seen
            <4> QED BY <3>1, <3>2, <4>1, <4>2 DEF Rebuilding, Copies
        <3>6. \A d \in Copy : mv'[d] = mv[d] \/ mv'[d].by \in {p, NoProc}
            BY <3>2
        <3> QED BY <1>0, <2>3, <3>1, <3>4, <3>5, <3>6, OneStep
    <2>6. ASSUME NEW p \in Backend, InsertCopies(p) PROVE ExactInv'
        <3>1. /\ UNCHANGED <<base, stamp, overlap>> /\ Busy(p)
              /\ \A q \in Backend : q # p => pc'[q] = pc[q]
            BY <2>6 DEF InsertCopies, ViewTypeOK, Busy
        <3>2. ExactNow' /\ Rebuilding(p)' /\ \A c \in Copy : mv'[c] = mv[c] \/ mv'[c].by = p
            BY <1>0, <2>6, InsertKeepsExact
        <3> QED BY <1>0, <2>3, <3>1, <3>2, OneStep
    <2>7. ASSUME NEW p \in Backend, NoteTime(p) PROVE ExactInv'
        <3>1. /\ UNCHANGED <<base, mv, overlap>> /\ pc[p] = "inserted" /\ pc'[p] = "ready"
              /\ \A q \in Backend : q # p => pc'[q] = pc[q]
              /\ stamp' \in {stamp, p}
            BY <2>7 DEF NoteTime, ViewTypeOK
        <3>2. ExactNow' /\ Rebuilding(p)' /\ Busy(p)
            BY <2>1, <3>1 DEF ExactNow, Rebuilding, ExactFor, Busy
        <3> QED BY <1>0, <2>3, <3>1, <3>2, OneStep
    <2>8. ASSUME NEW p \in Backend, Commit(p) PROVE ExactInv'
        <3>1. /\ Busy(p) /\ pc[p] = "ready" /\ pc' = pc /\ overlap' = overlap
              /\ stamp' \in {stamp, NoProc}
            BY <2>8, ViewPlaces DEF Commit, ViewEnd
        <3>2. /\ \A x \in Source : /\ base'[x].now = Seen(base, p, x) /\ Seen(base', p, x) = Seen(base, p, x)
                                   /\ base'[x] = base[x] \/ base'[x].by = NoProc
              /\ \A c \in Copy : /\ mv'[c].now = Seen(mv, p, c) /\ Seen(mv', p, c) = Seen(mv, p, c)
                                 /\ mv'[c] = mv[c] \/ mv'[c].by = NoProc
            BY <2>8, ViewEndRows, ViewConstants DEF Seen
        <3>3. ExactNow' /\ ExactFor(p)'
            BY <2>1, <3>1, <3>2 DEF ExactNow, ExactFor, Rebuilding
        <3>4. Rebuilding(p)'
            BY <3>1, <3>3 DEF Rebuilding
        <3> QED BY <1>0, <2>3, <3>1, <3>2, <3>3, <3>4, OneStep
    <2>9. ASSUME NEW p \in Backend, Abort(p) PROVE ExactInv'
        <3>1. /\ Busy(p) /\ pc'[p] = "ready" /\ \A q \in Backend : q # p => pc'[q] = pc[q]
              /\ overlap' = overlap /\ stamp' \in {stamp, NoProc}
            BY <2>9 DEF Abort, ViewEnd, ViewTypeOK
        <3>2. /\ \A x \in Source : /\ base'[x].now = base[x].now /\ Seen(base', p, x) = base[x].now
                                   /\ base'[x] = base[x] \/ base'[x].by = NoProc
              /\ \A c \in Copy : /\ mv'[c].now = mv[c].now /\ Seen(mv', p, c) = mv[c].now
                                 /\ mv'[c] = mv[c] \/ mv'[c].by = NoProc
            BY <2>9, ViewEndRows, ViewConstants DEF Seen
        <3>3. ExactNow' /\ ExactFor(p)'
            BY <2>1, <3>2 DEF ExactNow, ExactFor
        <3>4. Rebuilding(p)'
            BY <3>1, <3>3 DEF Rebuilding
        <3> QED BY <1>0, <2>3, <3>1, <3>2, <3>3, <3>4, OneStep
    <2>10. CASE UNCHANGED viewVars
        BY <2>1, <2>10 DEF viewVars, ExactInv, OneBusy, ExactNow, Rebuilding, ExactFor, Copies, Busy
    <2> QED BY <2>2, <2>4, <2>5, <2>6, <2>7, <2>8, <2>9, <2>10 DEF ViewNext
<1> QED BY <1>1, <1>2

LEMMA InitIsExact ==
    ASSUME ViewInit PROVE ExactInv
<1>1. PICK f \in [Copy -> Source \cup {NoRow}] :
          /\ \A x \in Source : Cardinality({c \in Copy : f[c] = x}) = IF base[x].now THEN 1 ELSE 0
          /\ mv = [c \in Copy |-> Settled(f[c])]
    BY DEF ViewInit
<1>2. /\ \A c \in Copy : mv[c].now = f[c] /\ mv[c].by = NoProc
      /\ \A x \in Source : base[x].by = NoProc
      /\ DOMAIN base = Source /\ DOMAIN mv = Copy
      /\ \A p \in Backend : pc[p] = "ready"
      /\ stamp = NoProc
    BY <1>1 DEF ViewInit, Settled
<1>3. \A p \in Backend : ~Busy(p)
    BY <1>2, ViewConstants DEF Busy, Holds
<1>4. ExactNow
    <2> SUFFICES ASSUME NEW x \in Source
                 PROVE  /\ base[x].now => \E c \in Copy : f[c] = x
                        /\ \A c \in Copy : f[c] = x => base[x].now
                        /\ \A c, d \in Copy : f[c] = x /\ f[d] = x => c = d
        BY <1>2 DEF ExactNow
    <2> DEFINE C == {c \in Copy : f[c] = x}
    <2>1. IsFiniteSet(C)
        BY ViewConstants, FS_Interval, FS_Subset DEF Copy
    <2>2. CASE base[x].now
        <3>1. Cardinality(C) = 1
            BY <1>1, <2>2
        <3>2. PICK e : C = {e}
            BY <2>1, <3>1, FS_Singleton
        <3> QED BY <2>2, <3>2
    <2>3. CASE ~base[x].now
        <3>1. Cardinality(C) = 0
            BY <1>1, <2>3
        <3>2. C = {}
            BY <2>1, <3>1, FS_EmptySet
        <3> QED BY <2>3, <3>2
    <2> QED BY <2>2, <2>3
<1>5. \A p \in Backend : ExactFor(p)
    BY <1>2, <1>4, ViewConstants DEF ExactNow, ExactFor, Seen
<1> QED BY <1>2, <1>3, <1>4, <1>5 DEF ExactInv, OneBusy, Rebuilding

\* As long as no two transactions have overlapped, a reader finds in the materialized view
\* every row of the plain view once, and no other, at any time (materializedView.in.sql).
THEOREM ViewIsExactCorrect == ViewSpec => []ViewIsExact
<1>1. ExactInv => ViewIsExact
    <2> SUFFICES ASSUME ExactInv, ~overlap, NEW x \in Source
                 PROVE  Cardinality(Found(x)) = IF base[x].now THEN 1 ELSE 0
        BY DEF ViewIsExact
    <2>1. ExactNow
        BY DEF ExactInv
    <2>2. CASE base[x].now
        <3>1. PICK c \in Copy : mv[c].now = x
            BY <2>1, <2>2 DEF ExactNow
        <3>2. Found(x) = {c}
            BY <2>1, <3>1 DEF ExactNow, Found
        <3>3. Cardinality({c}) = 1
            BY FS_Singleton
        <3> QED BY <2>2, <3>2, <3>3
    <2>3. CASE ~base[x].now
        <3>1. Found(x) = {}
            BY <2>1, <2>3 DEF ExactNow, Found
        <3> QED BY <2>3, <3>1, FS_EmptySet
    <2> QED BY <2>2, <2>3
<1>2. ViewInit => CompleteInv /\ ExactInv
    BY InitIsComplete, InitIsExact
<1>3. CompleteInv /\ ExactInv /\ [ViewNext]_viewVars => CompleteInv' /\ ExactInv'
    BY CompleteStep, ExactStep
<1> QED BY <1>1, <1>2, <1>3, PTL DEF ViewSpec

-----------------------------------------------------------------------------
(* Data providers and groups.                                              *)

\* SELECT max(dataprovidernamerightset) finds the highest of some rows.
LEMMA HighestIsThere ==
    ASSUME NEW S \in SUBSET Row
    PROVE  /\ Highest(S) \in 0 .. MaxSet
           /\ \A r \in S : r.right <= Highest(S)
<1> USE ProviderConstants
<1> DEFINE T == {MaxSet - r.right : r \in S}
<1>0. \A r \in S : r.right \in Nat /\ 1 <= r.right /\ r.right <= MaxSet
    BY DEF Row, Bound
<1>1. CASE S = {}
    BY <1>1 DEF Highest
<1>2. CASE S # {}
    <2>1. T \subseteq Nat /\ T # {}
        <3>1. T \subseteq Nat
            BY <1>0
        <3>2. PICK r \in S : TRUE
            BY <1>2
        <3>3. MaxSet - r.right \in T
            OBVIOUS
        <3> QED BY <3>1, <3>3
    <2>2. PICK x \in T : \A y \in T : ~(<<y, x>> \in OpToRel(<, Nat))
        BY <2>1, NatLessThanWellFounded, WFMin
    <2>3. \A y \in T : ~(y < x)
        BY <2>1, <2>2 DEF OpToRel
    <2>4. PICK r \in S : x = MaxSet - r.right
        OBVIOUS
    <2>5. ASSUME NEW s \in S PROVE s.right <= r.right
        <3>1. MaxSet - s.right \in T
            OBVIOUS
        <3>2. ~(MaxSet - s.right < MaxSet - r.right)
            BY <2>3, <2>4, <3>1
        <3> HIDE DEF T
        <3> QED BY <1>0, <3>2
    <2>6. /\ Highest(S) \in {s.right : s \in S}
          /\ \A s \in S : s.right <= Highest(S)
        BY <1>2, <2>5 DEF Highest
    <2> QED BY <1>0, <2>6
<1> QED BY <1>1, <1>2

\* What addDataProviderToGroup makes of row r, when d is put into g.
Moved(r, d, g) ==
    IF r.ns = g.ns /\ r.id = d.id
      THEN [r EXCEPT !.left = g.right, !.right = g.right + 1]
      ELSE IF r.ns = g.ns /\ r.id = g.id
             THEN [r EXCEPT !.right = r.right + 2]
             ELSE IF r.right > g.right
                    THEN [r EXCEPT !.left = r.left + 2, !.right = r.right + 2] ELSE r

\* The bounds of an interval are in order.
Ordered == \A r \in rows : r.left < r.right
TypedProviders == ProviderTypeOK /\ Ordered

\* The row that a name gets behind all rows S.
LEMMA RowBehind ==
    ASSUME NEW S \in SUBSET Row, Highest(S) + 2 <= MaxSet,
           NEW k \in ProviderNamespace, NEW p \in Provider, NEW n \in ProviderName,
           NEW d \in Day
    PROVE  LET r == [ns |-> k, id |-> p, name |-> n, from |-> d, left |-> Highest(S) + 1,
                     right |-> Highest(S) + 2]
           IN r \in Row /\ r.left < r.right /\ \A s \in S : s.right < r.left
<1>1. /\ Highest(S) \in 0 .. MaxSet
      /\ \A r \in S : r.right <= Highest(S)
    BY HighestIsThere
<1>2. \A s \in S : s.right \in Nat
    BY ProviderConstants DEF Row, Bound
<1> QED BY <1>1, <1>2, ProviderConstants DEF Row, Bound

\* What one row becomes when d is put into g.
LEMMA MovedRow ==
    ASSUME TypedProviders, NEW d \in rows, NEW g \in rows, d.id # g.id, d.ns = g.ns,
           Highest(rows) + 2 <= MaxSet, NEW r \in rows
    PROVE  LET m == Moved(r, d, g) IN
           /\ m \in Row /\ m.left < m.right
           /\ m.ns = r.ns /\ m.id = r.id /\ m.name = r.name
           /\ r.ns = g.ns /\ r.id = d.id => m.left = g.right /\ m.right = g.right + 1
           /\ r.ns = g.ns /\ r.id = g.id => m.left = r.left /\ m.right = r.right + 2
           /\ ~(r.ns = g.ns /\ r.id \in {d.id, g.id}) =>
                  IF r.right > g.right THEN m.left = r.left + 2 /\ m.right = r.right + 2
                  ELSE m.left = r.left /\ m.right = r.right
<1> USE ProviderConstants
<1>1. Highest(rows) \in 0 .. MaxSet /\ \A s \in rows : s.right <= Highest(rows)
    BY HighestIsThere DEF TypedProviders, ProviderTypeOK
<1>2. \A s \in rows : /\ s \in Row /\ s.left \in Bound /\ s.right \in Bound /\ s.left < s.right
                      /\ s.left + 2 \in Bound /\ s.right + 2 \in Bound /\ s.right + 1 \in Bound
    BY <1>1 DEF TypedProviders, ProviderTypeOK, Ordered, Row, Bound
<1>3. CASE r.ns = g.ns /\ r.id = d.id
    <2>1. Moved(r, d, g) = [r EXCEPT !.left = g.right, !.right = g.right + 1]
        BY <1>3 DEF Moved
    <2>2. Moved(r, d, g) = [ns |-> r.ns, id |-> r.id, name |-> r.name, from |-> r.from, left |-> g.right,
                            right |-> g.right + 1]
        BY <1>2, <2>1 DEF Row
    <2>3. Moved(r, d, g) \in Row
        BY <1>2, <2>2 DEF Row
    <2> HIDE DEF Row
    <2> QED BY <1>2, <1>3, <2>2, <2>3 DEF Bound
<1>4. CASE r.ns = g.ns /\ r.id = g.id
    <2>1. Moved(r, d, g) = [r EXCEPT !.right = r.right + 2]
        BY <1>4 DEF Moved
    <2>2. Moved(r, d, g) = [ns |-> r.ns, id |-> r.id, name |-> r.name, from |-> r.from, left |-> r.left,
                            right |-> r.right + 2]
        BY <1>2, <2>1 DEF Row
    <2>3. Moved(r, d, g) \in Row
        BY <1>2, <2>2 DEF Row
    <2> HIDE DEF Row
    <2> QED BY <1>2, <1>4, <2>2, <2>3 DEF Bound
<1>5. CASE ~(r.ns = g.ns /\ r.id \in {d.id, g.id}) /\ r.right > g.right
    <2>1. Moved(r, d, g) = [r EXCEPT !.left = r.left + 2, !.right = r.right + 2]
        BY <1>5 DEF Moved
    <2>2. Moved(r, d, g) = [ns |-> r.ns, id |-> r.id, name |-> r.name, from |-> r.from, left |-> r.left + 2,
                            right |-> r.right + 2]
        BY <1>2, <2>1 DEF Row
    <2>3. Moved(r, d, g) \in Row
        BY <1>2, <2>2 DEF Row
    <2> HIDE DEF Row
    <2> QED BY <1>2, <1>5, <2>2, <2>3 DEF Bound
<1>6. CASE ~(r.ns = g.ns /\ r.id \in {d.id, g.id}) /\ ~(r.right > g.right)
    <2>1. Moved(r, d, g) = r
        BY <1>6 DEF Moved
    <2> QED BY <1>2, <1>6, <2>1
<1> QED BY <1>3, <1>4, <1>5, <1>6

\* What may be put together by name may be so by row.
LEMMA JoinedIsFlat ==
    ASSUME NEW d \in rows, NEW g \in rows, AddDataProviderToGroup(d, g)
    PROVE  MayJoin(g.ns, d.id, g.id)
BY DEF AddDataProviderToGroup, NamesMayJoin, Named

\* The types are kept, because the bounds of an interval are in order.
LEMMA ProviderTypeStep ==
    ASSUME TypedProviders, [ProviderNext]_providerVars
    PROVE  TypedProviders'
<1> USE ProviderConstants DEF TypedProviders
<1>1. ASSUME NEW k \in ProviderNamespace, NEW n \in ProviderName,
             NEW d \in Day, NEW blanks \in BOOLEAN, AddDataProvider(k, n, d, blanks)
      PROVE  TypedProviders'
    <2> DEFINE new == [ns |-> k, id |-> nextId, name |-> n, from |-> d, left |-> Highest(rows) + 1,
                       right |-> Highest(rows) + 2]
    <2>1. nextId \in Provider /\ nextId' \in 1 .. MaxId + 1 /\ parent' = parent
        BY <1>1 DEF AddDataProvider, ProviderTypeOK, Provider
    <2>2. new \in Row /\ new.left < new.right
        BY <1>1, <2>1, RowBehind DEF AddDataProvider, ProviderTypeOK
    <2>3. rows' = rows \cup {new}
        BY <1>1 DEF AddDataProvider
    <2> QED BY <2>1, <2>2, <2>3 DEF ProviderTypeOK, Ordered
<1>2. ASSUME NEW d \in rows, NEW g \in rows, AddDataProviderToGroup(d, g)
      PROVE  TypedProviders'
    <2>1. rows' = {Moved(r, d, g) : r \in rows}
        BY <1>2 DEF AddDataProviderToGroup, Moved
    <2>2. d.id # g.id /\ d.ns = g.ns /\ Highest(rows) + 2 <= MaxSet
        BY <1>2, JoinedIsFlat DEF AddDataProviderToGroup, MayJoin
    <2>3. \A r \in rows : Moved(r, d, g) \in Row /\ Moved(r, d, g).left < Moved(r, d, g).right
        BY <2>2, MovedRow
    <2>4. rows' \subseteq Row /\ Ordered'
        BY <2>1, <2>3 DEF Ordered
    <2>5. g.ns \in ProviderNamespace /\ d.id \in Provider /\ g.id \in 0 .. MaxId
        BY DEF ProviderTypeOK, Row, Provider
    <2>6. parent' = [parent EXCEPT ![g.ns][d.id] = g.id] /\ nextId' = nextId
        BY <1>2 DEF AddDataProviderToGroup
    <2> QED BY <2>4, <2>5, <2>6 DEF ProviderTypeOK
<1>3. ASSUME NEW s \in rows, NEW k \in ProviderNamespace, NEW n \in ProviderName,
             NEW d \in Day, SetDataProviderName(s, k, n, d)
      PROVE  TypedProviders'
    <2> DEFINE rest == {r \in rows : ~(r.ns = k /\ r.id = s.id)}
               there == {r \in rest : r.ns = k}
               new == [ns |-> k, id |-> s.id, name |-> n, from |-> d, left |-> Highest(there) + 1,
                       right |-> Highest(there) + 2]
    <2>1. Highest(there) + 2 <= MaxSet /\ rows' = rest \cup {new}
        BY <1>3 DEF SetDataProviderName
    <2>2. s.id \in Provider /\ there \subseteq Row
        BY DEF ProviderTypeOK, Row
    <2>3. new \in Row /\ new.left < new.right
        <3> HIDE DEF there
        <3> QED BY <2>1, <2>2, RowBehind
    <2>4. rows' \subseteq Row /\ Ordered'
        BY <2>1, <2>3 DEF ProviderTypeOK, Ordered
    <2>5. /\ parent' = [parent EXCEPT ![k] = [p \in Provider |->
                           IF p = s.id \/ parent[k][p] = s.id THEN 0 ELSE parent[k][p]]]
          /\ nextId' = nextId
        BY <1>3 DEF SetDataProviderName
    <2> QED BY <2>4, <2>5 DEF ProviderTypeOK, Provider
<1>4. CASE UNCHANGED providerVars
    BY <1>4 DEF ProviderTypeOK, Ordered, providerVars
<1> QED BY <1>1, <1>2, <1>3, <1>4 DEF ProviderNext

\* Rows, identifiers and groups have their types, and no bound exceeds the
\* highest one, with any namespaces and groups in groups.
THEOREM ProviderTypeCorrect == ProviderSpec => []ProviderTypeOK
<1>1. ProviderInit => TypedProviders
    BY ProviderConstants
       DEF ProviderInit, TypedProviders, ProviderTypeOK, Ordered, Provider
<1>2. TypedProviders => ProviderTypeOK
    BY DEF TypedProviders
<1> QED BY <1>1, <1>2, ProviderTypeStep, PTL DEF ProviderSpec

\* Only one namespace is used, and groups are of plain providers.  (See the known
\* disagreements for what happens otherwise.)
FlatGroups ==
    /\ \A j, k \in ProviderNamespace : j = k
    /\ Grouping # "nested"

Inside(r, s) == s.left < r.left /\ r.right < s.right
Apart(r, s) == r.right < s.left \/ s.right < r.left

\* r lies in s if it was put there; if neither was put in the other, they are
\* apart.
Related(r, s) ==
    /\ parent[r.ns][r.id] = s.id => Inside(r, s)
    /\ parent[r.ns][r.id] # s.id /\ parent[s.ns][s.id] # r.id => Apart(r, s)

\* A provider that is in a group is none itself, and both have names.
Grouped ==
    \A k \in ProviderNamespace, q \in Provider : parent[k][q] # 0 =>
        /\ parent[k][q] \in Provider /\ parent[k][parent[k][q]] = 0
        /\ \E r \in rows : r.id = q
        /\ \E r \in rows : r.id = parent[k][q]

\* Identifiers have been handed out, and are unique; names need not be.
Identified ==
    /\ \A r \in rows : r.id < nextId
    /\ \A r, s \in rows : r.id = s.id => r = s

SetsInv ==
    /\ TypedProviders /\ Identified /\ Grouped
    /\ \A r, s \in rows : r # s => Related(r, s)

\* What is known of any two rows.
LEMMA TwoRows ==
    ASSUME FlatGroups, SetsInv, NEW r \in rows, NEW s \in rows
    PROVE  /\ r.ns \in ProviderNamespace /\ r.ns = s.ns
           /\ r.id \in Provider /\ r.id # 0 /\ parent[r.ns][r.id] \in 0 .. MaxId
           /\ r.left \in Nat /\ r.right \in Nat /\ r.left < r.right
           /\ r # s => \/ Inside(r, s) /\ parent[r.ns][r.id] = s.id
                       \/ Inside(s, r) /\ parent[s.ns][s.id] = r.id
                       \/ Apart(r, s)
<1>1. r \in Row /\ s \in Row
    BY DEF SetsInv, TypedProviders, ProviderTypeOK
<1>2. /\ r.ns \in ProviderNamespace /\ r.ns = s.ns
      /\ r.id \in Provider /\ r.left \in Nat /\ r.right \in Nat
    BY <1>1, ProviderConstants DEF Row, FlatGroups, Bound
<1>3. r.left < r.right /\ parent[r.ns][r.id] \in 0 .. MaxId
    BY <1>2 DEF SetsInv, TypedProviders, ProviderTypeOK, Ordered
<1>4. r # s => \/ Inside(r, s) /\ parent[r.ns][r.id] = s.id
               \/ Inside(s, r) /\ parent[s.ns][s.id] = r.id
               \/ Apart(r, s)
    BY DEF SetsInv, Related
<1> QED BY <1>2, <1>3, <1>4, ProviderConstants DEF Provider

\* The interval of a new provider lies behind all others.
LEMMA AddKeepsSets ==
    ASSUME FlatGroups, SetsInv, NEW k \in ProviderNamespace, NEW n \in ProviderName,
           NEW d \in Day, NEW blanks \in BOOLEAN, AddDataProvider(k, n, d, blanks),
           TypedProviders'
    PROVE  SetsInv'
<1> USE ProviderConstants
<1> DEFINE new == [ns |-> k, id |-> nextId, name |-> n, from |-> d, left |-> Highest(rows) + 1,
                   right |-> Highest(rows) + 2]
<1>1. /\ rows' = rows \cup {new} /\ parent' = parent /\ nextId' = nextId + 1
    BY DEF AddDataProvider
<1>2. nextId \in Provider /\ new \in Row /\ \A s \in rows : s.right < new.left
    <2>1. nextId \in Provider
        BY DEF AddDataProvider, SetsInv, TypedProviders, ProviderTypeOK, Provider
    <2> QED BY <2>1, RowBehind DEF AddDataProvider, SetsInv, TypedProviders, ProviderTypeOK
<1>3. \A r \in rows : r.ns = k /\ r.id < nextId /\ r.id \in Nat
    BY <1>1, TwoRows DEF FlatGroups, SetsInv, Identified, Provider
<1>4. Identified'
    BY <1>1, <1>2, <1>3 DEF SetsInv, Identified, Provider
<1>5. Grouped'
    BY <1>1 DEF SetsInv, Grouped
<1>6. \A j \in ProviderNamespace, q \in Provider :
          /\ parent[j][q] # nextId
          /\ parent[j][nextId] \notin Provider
    <2> SUFFICES ASSUME NEW j \in ProviderNamespace, NEW q \in Provider
                 PROVE  parent[j][q] # nextId /\ parent[j][nextId] \notin Provider
        OBVIOUS
    <2>1. ~\E r \in rows : r.id = nextId
        BY <1>3
    <2>2. nextId # 0 /\ 0 \notin Provider
        BY <1>2 DEF Provider
    <2> QED BY <1>2, <2>1, <2>2 DEF SetsInv, Grouped
<1>7. ASSUME NEW r \in rows', NEW s \in rows', r # s
      PROVE  Related(r, s)'
    <2>1. CASE r \in rows /\ s \in rows
        BY <1>1, <1>7, <2>1 DEF SetsInv, Related
    <2>2. CASE r = new /\ s \in rows
        <3>1. s.id \in Provider /\ s.ns \in ProviderNamespace /\ s.right < r.left
            BY <1>2, <2>2, TwoRows
        <3> QED BY <1>1, <1>6, <2>2, <3>1 DEF Related, Apart
    <2>3. CASE r \in rows /\ s = new
        <3>1. r.id \in Provider /\ r.ns \in ProviderNamespace /\ r.right < s.left
            BY <1>2, <2>3, TwoRows
        <3> QED BY <1>1, <1>6, <2>3, <3>1 DEF Related, Apart
    <2> QED BY <1>1, <1>7, <2>1, <2>2, <2>3
<1> QED BY <1>4, <1>5, <1>7 DEF SetsInv

\* What lies in the group stays where it is, and what lies behind it makes room.
LEMMA GroupKeepsSets ==
    ASSUME FlatGroups, SetsInv, NEW d \in rows, NEW g \in rows,
           AddDataProviderToGroup(d, g), TypedProviders'
    PROVE  SetsInv'
<1> USE ProviderConstants
<1>1. /\ rows' = {Moved(r, d, g) : r \in rows}
      /\ nextId' = nextId
      /\ parent' = [parent EXCEPT ![g.ns][d.id] = g.id]
    BY DEF AddDataProviderToGroup, Moved
<1>2. /\ d.id # g.id /\ d.ns = g.ns /\ Highest(rows) + 2 <= MaxSet
      /\ \A q \in Provider : parent[g.ns][q] # d.id
      /\ parent[g.ns][g.id] = 0
    BY JoinedIsFlat DEF AddDataProviderToGroup, MayJoin, IsGroup, FlatGroups
<1>3. \A r \in rows :
          LET m == Moved(r, d, g) IN
          /\ m.ns = r.ns /\ m.id = r.id /\ m.name = r.name
          /\ r = d => m.left = g.right /\ m.right = g.right + 1
          /\ r = g => m.left = g.left /\ m.right = g.right + 2
          /\ r # d /\ r # g =>
                 IF r.right > g.right THEN m.left = r.left + 2 /\ m.right = r.right + 2
                 ELSE m.left = r.left /\ m.right = r.right
    <2> SUFFICES ASSUME NEW r \in rows
                 PROVE  LET m == Moved(r, d, g) IN
                        /\ m.ns = r.ns /\ m.id = r.id /\ m.name = r.name
                        /\ r = d => m.left = g.right /\ m.right = g.right + 1
                        /\ r = g => m.left = g.left /\ m.right = g.right + 2
                        /\ r # d /\ r # g =>
                              IF r.right > g.right
                              THEN m.left = r.left + 2 /\ m.right = r.right + 2
                              ELSE m.left = r.left /\ m.right = r.right
        OBVIOUS
    <2>1. r.ns = g.ns /\ (r.id = d.id <=> r = d) /\ (r.id = g.id <=> r = g)
        BY TwoRows DEF SetsInv, Identified
    <2> QED BY <1>2, <2>1, MovedRow DEF SetsInv
<1>4. \A k \in ProviderNamespace, q \in Provider :
          parent'[k][q] = IF q = d.id THEN g.id ELSE parent[k][q]
    <2>1. g.ns \in ProviderNamespace /\ d.id \in Provider
        BY TwoRows
    <2> QED BY <1>1, <2>1 DEF FlatGroups, SetsInv, TypedProviders, ProviderTypeOK
<1>5. Identified'
    BY <1>1, <1>3 DEF SetsInv, Identified
<1>6. Grouped'
    <2> SUFFICES ASSUME NEW k \in ProviderNamespace, NEW q \in Provider, parent'[k][q] # 0
                 PROVE  /\ parent'[k][q] \in Provider /\ parent'[k][parent'[k][q]] = 0
                        /\ \E r \in rows' : r.id = q
                        /\ \E r \in rows' : r.id = parent'[k][q]
        BY DEF Grouped
    <2>1. \A p \in Provider : (\E r \in rows : r.id = p) => \E r \in rows' : r.id = p
        BY <1>1, <1>3
    <2>2. d.id \in Provider /\ g.id \in Provider /\ g.ns = k
        BY TwoRows DEF FlatGroups
    <2>3. CASE q = d.id
        <3>1. parent'[k][q] = g.id /\ parent'[k][g.id] = parent[k][g.id]
            BY <1>2, <1>4, <2>2, <2>3
        <3> QED BY <1>2, <2>1, <2>2, <2>3, <3>1
    <2>4. CASE q # d.id
        <3>1. parent'[k][q] = parent[k][q]
            BY <1>4, <2>4
        <3>2. /\ parent[k][q] \in Provider /\ parent[k][parent[k][q]] = 0
              /\ \E r \in rows : r.id = q
              /\ \E r \in rows : r.id = parent[k][q]
            BY <3>1 DEF SetsInv, Grouped
        <3>3. parent[k][q] # d.id
            BY <1>2, <2>2
        <3> QED BY <1>4, <2>1, <3>1, <3>2, <3>3
    <2> QED BY <2>3, <2>4
<1>7. ASSUME NEW r \in rows, NEW s \in rows, r # s
      PROVE  Related(Moved(r, d, g), Moved(s, d, g))'
    <2> DEFINE m == Moved(r, d, g)
               n == Moved(s, d, g)
    <2>1. /\ r.id \in Provider /\ s.id \in Provider /\ r.id # s.id
          /\ r.ns = g.ns /\ s.ns = g.ns /\ g.ns \in ProviderNamespace
          /\ d.id \in Provider /\ g.id \in Provider
          /\ r.id = d.id <=> r = d
          /\ s.id = d.id <=> s = d
          /\ r.id = g.id <=> r = g
          /\ s.id = g.id <=> s = g
        BY <1>7, TwoRows DEF SetsInv, Identified
    <2>2. /\ m.ns = g.ns /\ m.id = r.id /\ n.ns = g.ns /\ n.id = s.id
          /\ parent'[g.ns][r.id] = IF r = d THEN g.id ELSE parent[g.ns][r.id]
          /\ parent'[g.ns][s.id] = IF s = d THEN g.id ELSE parent[g.ns][s.id]
        BY <1>3, <1>4, <2>1
    <2>3. \A t \in rows : /\ t.left \in Nat /\ t.right \in Nat /\ t.left < t.right
                          /\ t # g => \/ Inside(t, g) /\ parent[g.ns][t.id] = g.id
                                      \/ Apart(t, g)
        <3> SUFFICES ASSUME NEW t \in rows
                     PROVE  /\ t.left \in Nat /\ t.right \in Nat /\ t.left < t.right
                            /\ t # g => \/ Inside(t, g) /\ parent[g.ns][t.id] = g.id
                                        \/ Apart(t, g)
            OBVIOUS
        <3> QED BY <1>2, TwoRows
    <2>4. /\ parent[g.ns][r.id] = s.id => Inside(r, s)
          /\ parent[g.ns][r.id] # s.id /\ parent[g.ns][s.id] # r.id => Apart(r, s)
        BY <1>7, <2>1 DEF SetsInv, Related
    <2>5. CASE r = d
        BY <1>2, <1>3, <1>7, <2>1, <2>2, <2>3, <2>5 DEF Related, Inside, Apart
    <2>6. CASE s = d
        BY <1>2, <1>3, <1>7, <2>1, <2>2, <2>3, <2>6 DEF Related, Inside, Apart
    <2>7. CASE r # d /\ s # d /\ r = g
        BY <1>2, <1>3, <1>7, <2>1, <2>2, <2>3, <2>4, <2>7 DEF Related, Inside, Apart
    <2>8. CASE r # d /\ s # d /\ s = g
        BY <1>2, <1>3, <1>7, <2>1, <2>2, <2>3, <2>4, <2>8 DEF Related, Inside, Apart
    <2>9. CASE r # d /\ s # d /\ r # g /\ s # g
        BY <1>2, <1>3, <1>7, <2>1, <2>2, <2>3, <2>4, <2>9 DEF Related, Inside, Apart
    <2> QED BY <2>5, <2>6, <2>7, <2>8, <2>9
<1>8. \A r, s \in rows' : r # s => Related(r, s)'
    BY <1>1, <1>7
<1> QED BY <1>5, <1>6, <1>8 DEF SetsInv

\* A new name takes its provider out of its group, and a group loses its members.
LEMMA NameKeepsSets ==
    ASSUME FlatGroups, SetsInv, NEW s \in rows, NEW k \in ProviderNamespace,
           NEW n \in ProviderName, NEW d \in Day, SetDataProviderName(s, k, n, d),
           TypedProviders'
    PROVE  SetsInv'
<1> USE ProviderConstants
<1> DEFINE rest == {r \in rows : ~(r.ns = k /\ r.id = s.id)}
           there == {r \in rest : r.ns = k}
           new == [ns |-> k, id |-> s.id, name |-> n, from |-> d, left |-> Highest(there) + 1,
                   right |-> Highest(there) + 2]
<1>1. /\ rows' = rest \cup {new} /\ nextId' = nextId
      /\ Highest(there) + 2 <= MaxSet
      /\ parent' = [parent EXCEPT ![k] = [p \in Provider |->
                       IF p = s.id \/ parent[k][p] = s.id THEN 0 ELSE parent[k][p]]]
    BY DEF SetDataProviderName
<1>2. \A r \in rows : /\ r.ns = k /\ r.id \in Provider /\ r.id # 0 /\ r.id < nextId
                      /\ r \in rest <=> r.id # s.id
    BY TwoRows DEF FlatGroups, SetsInv, Identified
<1>3. \A r \in rest : r.right < new.left
    <2>1. there = rest /\ there \subseteq Row
        BY <1>2 DEF SetsInv, TypedProviders, ProviderTypeOK
    <2>2. \A r \in there : r.right < new.left
        <3> HIDE DEF there
        <3> QED BY <1>1, <1>2, <2>1, RowBehind
    <2> QED BY <1>1, <2>1, <2>2
<1>4. \A j \in ProviderNamespace, p \in Provider :
          parent'[j][p] = IF p = s.id \/ parent[k][p] = s.id THEN 0 ELSE parent[k][p]
    BY <1>1 DEF FlatGroups, SetsInv, TypedProviders, ProviderTypeOK
<1>5. Identified'
    BY <1>1, <1>2, <1>3 DEF SetsInv, Identified
<1>6. Grouped'
    <2> SUFFICES ASSUME NEW j \in ProviderNamespace, NEW q \in Provider, parent'[j][q] # 0
                 PROVE  /\ parent'[j][q] \in Provider /\ parent'[j][parent'[j][q]] = 0
                        /\ \E r \in rows' : r.id = q
                        /\ \E r \in rows' : r.id = parent'[j][q]
        BY DEF Grouped
    <2>1. ASSUME NEW p \in Provider, NEW r \in rows, r.id = p
          PROVE  \E t \in rows' : t.id = p
        <3>1. new \in rows' /\ new.id = s.id
            BY <1>1
        <3>2. r \in rest \/ r.id = s.id
            BY <1>2
        <3> HIDE DEF new, rest
        <3> QED BY <1>1, <2>1, <3>1, <3>2
    <2>2. parent'[j][q] = parent[k][q]
        BY <1>4
    <2>3. /\ parent[k][q] \in Provider /\ parent[k][parent[k][q]] = 0
          /\ \E r \in rows : r.id = q
          /\ \E r \in rows : r.id = parent[k][q]
        BY <2>2 DEF SetsInv, Grouped
    <2> QED BY <1>4, <2>1, <2>2, <2>3
<1>7. ASSUME NEW r \in rows', NEW t \in rows', r # t
      PROVE  Related(r, t)'
    <2>1. CASE r \in rest /\ t \in rest
        <3>1. Related(r, t)
            BY <1>7, <2>1 DEF SetsInv
        <3>2. /\ parent'[r.ns][r.id] = t.id <=> parent[r.ns][r.id] = t.id
              /\ parent'[t.ns][t.id] = r.id <=> parent[t.ns][t.id] = r.id
            BY <1>2, <1>4, <2>1
        <3> QED BY <3>1, <3>2 DEF Related
    <2>2. CASE r = new /\ t \in rest
        <3>1. t.ns = k /\ t.id \in Provider /\ t.id # 0 /\ s.id # 0 /\ s.id \in Provider
            BY <1>2, <2>2
        <3>2. parent'[k][s.id] = 0 /\ parent'[k][t.id] # s.id
            BY <1>4, <3>1
        <3> QED BY <1>3, <2>2, <3>1, <3>2 DEF Related, Apart
    <2>3. CASE r \in rest /\ t = new
        <3>1. r.ns = k /\ r.id \in Provider /\ r.id # 0 /\ s.id # 0 /\ s.id \in Provider
            BY <1>2, <2>3
        <3>2. parent'[k][s.id] = 0 /\ parent'[k][r.id] # s.id
            BY <1>4, <3>1
        <3> QED BY <1>3, <2>3, <3>1, <3>2 DEF Related, Apart
    <2> QED BY <1>1, <1>7, <2>1, <2>2, <2>3
<1> QED BY <1>5, <1>6, <1>7 DEF SetsInv

LEMMA SetsAlways ==
    ASSUME FlatGroups
    PROVE  ProviderSpec => []SetsInv
<1>1. ProviderInit => SetsInv
    BY ProviderConstants DEF ProviderInit, SetsInv, TypedProviders, ProviderTypeOK,
       Ordered, Identified, Grouped, Provider
<1>2. SetsInv /\ [ProviderNext]_providerVars => SetsInv'
    <2> SUFFICES ASSUME SetsInv, [ProviderNext]_providerVars PROVE SetsInv'
        OBVIOUS
    <2>1. TypedProviders'
        BY ProviderTypeStep DEF SetsInv
    <2>2. CASE UNCHANGED providerVars
        BY <2>1, <2>2 DEF providerVars, SetsInv, Identified, Grouped, Related
    <2> QED BY <2>1, <2>2, AddKeepsSets, GroupKeepsSets, NameKeepsSets DEF ProviderNext
<1> QED BY <1>1, <1>2, PTL DEF ProviderSpec

\* The intervals that addDataProvider, addDataProviderToGroup and
\* setDataProviderName hand out are nested or disjoint, after any calls.
THEOREM SetsAreNestedCorrect ==
    ASSUME FlatGroups
    PROVE  ProviderSpec => []SetsAreNested
<1>1. SetsInv => SetsAreNested
    <2> SUFFICES ASSUME SetsInv, NEW r \in rows, NEW s \in rows
                 PROVE  Within(r, s) \/ Within(s, r) \/ r.right < s.left \/ s.right < r.left
        BY DEF SetsAreNested
    <2>1. \A t \in {r, s} : t.left \in Nat /\ t.right \in Nat
        BY TwoRows
    <2>2. r = s \/ Inside(r, s) \/ Inside(s, r) \/ Apart(r, s)
        BY TwoRows
    <2> QED BY <2>1, <2>2 DEF Within, Inside, Apart
<1> QED BY <1>1, SetsAlways, PTL

\* getdataprovidersingroup gives what a name stands for: the providers that have it
\* and what was put into them, after any calls.
THEOREM GroupsAreRightCorrect ==
    ASSUME FlatGroups
    PROVE  ProviderSpec => []GroupsAreRight
<1>1. ASSUME SetsInv, NEW r \in rows
      PROVE  {d.id : d \in {c \in rows : c.ns = r.ns /\ Within(c, r)}}
             = {r.id} \cup Below(r.ns, r.id)
    <2> DEFINE M == {q \in Provider : parent[r.ns][q] = r.id}
               Closed == {S \in SUBSET Provider :
                             \A c \in Provider : parent[r.ns][c] = r.id \/ parent[r.ns][c] \in S
                                                 => c \in S}
    <2>0. r.ns \in ProviderNamespace /\ r.id \in Provider /\ r.id # 0
        BY <1>1, TwoRows
    <2>1. M \in Closed
        <3> SUFFICES ASSUME NEW c \in Provider, parent[r.ns][c] \in M
                     PROVE  FALSE
            OBVIOUS
        <3>1. parent[r.ns][c] # 0
            BY ProviderConstants DEF Provider
        <3>2. parent[r.ns][parent[r.ns][c]] = 0
            BY <1>1, <2>0, <3>1 DEF SetsInv, Grouped
        <3> QED BY <2>0, <3>2
    <2>2. \A S \in Closed : M \subseteq S
        OBVIOUS
    <2>3. Below(r.ns, r.id) = M
        <3>1. Below(r.ns, r.id) = {q \in Provider : \A S \in Closed : q \in S}
            BY DEF Below
        <3> HIDE DEF Closed
        <3> QED BY <2>1, <2>2, <3>1
    <2>5. ASSUME NEW d \in rows
          PROVE  d.ns = r.ns /\ (Within(d, r) <=> d = r \/ parent[r.ns][d.id] = r.id)
        <3>1. \A t \in {d, r} : t.left \in Nat /\ t.right \in Nat /\ t.left < t.right
            BY <1>1, TwoRows
        <3>2. d.ns = r.ns
            BY <1>1, TwoRows
        <3>3. d # r /\ parent[r.ns][d.id] = r.id => Inside(d, r)
            BY <1>1, <3>2 DEF SetsInv, Related
        <3>4. d # r => \/ Inside(d, r) /\ parent[r.ns][d.id] = r.id
                       \/ Inside(r, d) \/ Apart(d, r)
            BY <1>1, <3>2, TwoRows
        <3> QED BY <3>1, <3>2, <3>3, <3>4 DEF Within, Inside, Apart
    <2>6. {c \in rows : c.ns = r.ns /\ Within(c, r)}
          = {c \in rows : c = r \/ parent[r.ns][c.id] = r.id}
        BY <2>5
    <2>7. \A q \in M : \E d \in rows : d.id = q
        BY <1>1, <2>0 DEF SetsInv, Grouped
    <2>8. \A d \in rows : d.id \in Provider
        BY <1>1, TwoRows
    <2> QED BY <2>3, <2>6, <2>7, <2>8
<1>2. SetsInv => GroupsAreRight
    <2> SUFFICES ASSUME SetsInv, NEW k \in ProviderNamespace, NEW n \in ProviderName
                 PROVE  InGroup(k, n) = UNION {{r.id} \cup Below(k, r.id) : r \in Named(k, n)}
        BY DEF GroupsAreRight
    <2> DEFINE Of(r) == {d.id : d \in {c \in rows : c.ns = r.ns /\ Within(c, r)}}
    <2>1. \A r \in Named(k, n) : Of(r) = {r.id} \cup Below(k, r.id)
        BY <1>1 DEF Named
    <2>2. InGroup(k, n) = UNION {Of(r) : r \in Named(k, n)}
        BY DEF InGroup, Named
    <2> HIDE DEF Of
    <2> QED BY <2>1, <2>2
<1> QED BY <1>2, SetsAlways, PTL

-----------------------------------------------------------------------------
(* The three side by side, as TLC checks them.                             *)

\* What TLC explores is behaviours of the three modules, so that each of the
\* theorems above is about the run as well.
THEOREM PartsAreBehaviours == MCSpec => Spec /\ ProviderSpec /\ ViewSpec
<1>1. MCInit => Init /\ ProviderInit /\ ViewInit
    BY DEF MCInit
<1>2. [MCNext]_<<part, providerVars, viewVars, vars>> =>
          [Next]_vars /\ [ProviderNext]_providerVars /\ [ViewNext]_viewVars
    BY DEF MCNext
<1> QED BY <1>1, <1>2, PTL DEF MCSpec, Spec, ProviderSpec, ViewSpec

\* Whatever calls are made, on tables of any size, the session, the views and the
\* data providers hold rows of their types.
THEOREM TypesAreRightCorrect == MCSpec => []TypesAreRight
<1>1. ProviderTypeOK /\ ViewTypeOK /\ TypeOK => TypesAreRight
    BY DEF TypesAreRight
<1> QED BY <1>1, PartsAreBehaviours, TypeCorrect, ViewTypeCorrect, ProviderTypeCorrect, PTL
=============================================================================
