----------------------------- MODULE WciSession -----------------------------
(***************************************************************************)
(* The WCI session of one database connection.  wci.begin sets the role,   *)
(* which PostgreSQL takes back when the transaction is undone, and fills a *)
(* static C++ object, which nobody takes back; reads of grid values        *)
(* keep the geometries of place names in a static map that nothing ever    *)
(* purges.  Other connections rename places at any time.                   *)
(*                                                                         *)
(*   src/src/callInterface/api/wciBegin.in.sql, wciEnd.in.sql              *)
(*   src/src/callInterface/core/wciSession.cpp                             *)
(*   src/src/callInterface/core/wciRead/ReadStore.cpp                      *)
(***************************************************************************)

CONSTANTS
    Role,       \* database roles
    Login,      \* the one that the connection has logged in with
    Granted,    \* those it may take on
    Namespace,  \* place namespaces
    Name,       \* place names
    Geometry,   \* what places are
    NoGeometry, \* for a name that denotes nothing, and an empty cache entry
    NoUser,     \* the user of a session that has not been initialized
    Blocks,     \* the client uses transaction blocks, not autocommit only
    Renames     \* other connections give places names: "new" ones, or "any"

ASSUME SessionConstants ==
    /\ Login \in Granted /\ Granted \subseteq Role
    /\ NoUser \notin Role
    /\ NoGeometry \notin Geometry
    /\ Blocks \in BOOLEAN
    /\ Renames \in {"new", "any"}

Answer == Geometry \cup {NoGeometry}
Session == [user : Role, ns : Namespace]
NoSession == [user |-> NoUser]
Given == [ns : Namespace, name : Name, place : Answer]
Nothing == [place |-> NoGeometry]

VARIABLES
    role,       \* current_user
    saved,      \* what a rollback makes of it
    block,      \* a transaction block is open
    error,      \* the last statement failed; in a block, only ROLLBACK is left
    session,    \* WciSession::session_
    place,      \* placedefinition_mv: what names denote
    cache,      \* locationNames
    given       \* what the last read of grid values took a name for

vars == <<role, saved, block, error, session, place, cache, given>>

TypeOK ==
    /\ role \in Granted /\ saved \in Granted
    /\ block \in BOOLEAN /\ error \in BOOLEAN
    /\ session \in Session \cup {NoSession}
    /\ place \in [Namespace \X Name -> Answer]
    /\ cache \in [Name -> Answer]
    /\ given \in Given \cup {Nothing}

Init ==
    /\ role = Login /\ saved = Login
    /\ block = FALSE /\ error = FALSE
    /\ session = NoSession
    /\ place \in [Namespace \X Name -> Answer]
    /\ cache = [n \in Name |-> NoGeometry]
    /\ given = Nothing

\* A statement succeeds with the role r; out of a block it commits at once.
CanRun == ~(block /\ error)
Succeeds(r) ==
    /\ error' = FALSE
    /\ role' = r
    /\ saved' = IF block THEN saved ELSE r
    /\ block' = block

\* A statement fails; out of a block it is undone at once.
Fails == error' = TRUE /\ UNCHANGED <<role, saved, block>>

\* isInitialized, which assertInitialized asks for.
Initialized == session # NoSession

\* Mutant: whoever asks gets the role.
BeginUnchecked(u, k) ==
    /\ CanRun
    /\ Succeeds(u)
    /\ session' = [user |-> u, ns |-> k]
    /\ UNCHANGED <<place, cache, given>>

\* wci.begin: the role first, which checks that the user exists and may be
\* taken on, then the session; it is no error to call it several times.
Begin(u, k) ==
    /\ CanRun
    /\ u \in Granted
    /\ Succeeds(u)
    /\ session' = [user |-> u, ns |-> k]
    /\ UNCHANGED <<place, cache, given>>

\* Mutant: the session first.
BeginFailsLate(u, k) ==
    /\ CanRun
    /\ u \notin Granted
    /\ Fails
    /\ session' = [user |-> u, ns |-> k]
    /\ UNCHANGED <<place, cache, given>>

BeginFails(u, k) ==
    /\ CanRun
    /\ u \notin Granted
    /\ Fails
    /\ UNCHANGED <<session, place, cache, given>>

\* wci.end: purges other caches, resets the session, and then the role.
End ==
    /\ CanRun
    /\ \/ ~Initialized /\ Fails /\ session' = session
       \/ Initialized /\ Succeeds(Login) /\ session' = NoSession
    /\ UNCHANGED <<place, cache, given>>

\* getNamedGeometryAsWKT: the names of the session's namespace.
NamedGeometry(n) == place[<<session.ns, n>>]

\* Mutant: the cache is consulted under the wrong name.
LookedUpAny(n) == IF \E m \in Name : cache[m] # NoGeometry
                    THEN cache[CHOOSE m \in Name : cache[m] # NoGeometry]
                    ELSE NamedGeometry(n)

\* geometryFromLocation: the map first.
LookedUp(n) == IF cache[n] # NoGeometry THEN cache[n] ELSE NamedGeometry(n)

\* wci.read of grid values at the place n.  A name that is not found leaves the
\* geometry unset, and the entry of the map empty.
Read(n) ==
    /\ CanRun
    /\ \/ ~Initialized /\ Fails /\ UNCHANGED <<cache, given>>
       \/ /\ Initialized
          /\ Succeeds(role)
          /\ given' = [ns |-> session.ns, name |-> n, place |-> LookedUp(n)]
          /\ cache' = [cache EXCEPT ![n] = LookedUp(n)]
    /\ UNCHANGED <<session, place>>

\* Another connection gives the name n to another place, or takes it away; with
\* "new", only names that denote nothing are given.  An earlier read is no
\* evidence any more.
Rename(k, n, g) ==
    /\ Renames = "new" => place[<<k, n>>] = NoGeometry
    /\ place' = [place EXCEPT ![<<k, n>>] = g]
    /\ given' = Nothing
    /\ UNCHANGED <<role, saved, block, error, session, cache>>

OpenBlock ==
    /\ Blocks /\ ~block
    /\ block' = TRUE
    /\ error' = FALSE
    /\ UNCHANGED <<role, saved, session, place, cache, given>>

CommitBlock ==
    /\ block /\ ~error
    /\ block' = FALSE
    /\ saved' = role
    /\ UNCHANGED <<role, error, session, place, cache, given>>

\* ROLLBACK: PostgreSQL restores the role.
RollbackBlock ==
    /\ block
    /\ block' = FALSE
    /\ role' = saved
    /\ error' = FALSE
    /\ UNCHANGED <<saved, session, place, cache, given>>

Next ==
    \/ \E u \in Role, k \in Namespace : Begin(u, k) \/ BeginFails(u, k)
    \/ End
    \/ \E n \in Name : Read(n)
    \/ \E k \in Namespace, n \in Name, g \in Answer : Rename(k, n, g)
    \/ OpenBlock \/ CommitBlock \/ RollbackBlock

Spec == Init /\ [][Next]_vars

-----------------------------------------------------------------------------
(* Properties *)

\* The user of the session is the role of the connection ("it should be the
\* same as the database role to use wci", WciSession::initialize), and without
\* a session the connection has the role that it logged in with.
RoleMatchesSession == role = IF session = NoSession THEN Login ELSE session.user

\* No statement, failed ones included, and no commit brings session and role
\* apart; a rollback does, because nothing resets the session then.
StatementsKeepRole ==
    [][RoleMatchesSession /\ ~RollbackBlock => RoleMatchesSession']_vars

\* A read of grid values takes a name for the place that has it in the namespace
\* of the session, as a read of point values always does.  So it is for names
\* that keep their places: an empty entry of the map is looked up again.
NameIsCurrent == given # Nothing => given.place = place[<<given.ns, given.name>>]
=============================================================================
