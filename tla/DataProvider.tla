---------------------------- MODULE DataProvider ----------------------------
(***************************************************************************)
(* Data providers, their names in namespaces, and groups of them.  A group *)
(* is kept as a nested set: every row of dataprovidername has an interval  *)
(* leftset .. rightset, and the members of a provider are the providers    *)
(* whose intervals lie within its own.                                     *)
(*                                                                         *)
(*   src/src/callInterface/api/wciMetaDataProvider.in.sql                  *)
(*   src/src/callInterface/core/wciRead/query/buildQuery.cpp               *)
(*   src/src/database/dataProviderTables.in.sql, dataProviderViews.in.sql  *)
(*                                                                         *)
(* Calls do not overlap here; a call that raises an error changes nothing  *)
(* (but for an identifier that it may use up), and has no action.  A name  *)
(* is given by its row of some day on, the literal 'today': the day on     *)
(* which the session first executed the statement, for its plan is kept.   *)
(* See MaterializedView for the views.                                     *)
(***************************************************************************)
EXTENDS Integers, FiniteSets

CONSTANTS
    ProviderName,      \* names a provider can be given
    ProviderNamespace, \* data provider namespaces
    Day,               \* days that sessions take for today
    MaxId,             \* bound: providers that can be added
    MaxSet,            \* bound: the highest leftset or rightset
    Grouping           \* what groups are made of: "flat", "nested" or "none"

ASSUME ProviderConstants ==
    /\ {MaxId, MaxSet} \subseteq Nat
    /\ Grouping \in {"flat", "nested", "none"}

Provider == 1 .. MaxId      \* dataproviderid
Bound == 1 .. MaxSet

\* A row of dataprovidername; from is its column dataprovidernamevalidfrom.
Row == [ns : ProviderNamespace, id : Provider, name : ProviderName, from : Day,
        left : Bound, right : Bound]

VARIABLES
    rows,       \* the table dataprovidername
    nextId,     \* dataprovider_dataproviderid_seq
    parent      \* the group each was last put into, by namespace; 0 if none

providerVars == <<rows, nextId, parent>>

ProviderTypeOK ==
    /\ rows \subseteq Row
    /\ nextId \in 1 .. MaxId + 1
    /\ parent \in [ProviderNamespace -> [Provider -> 0 .. MaxId]]

ProviderInit ==
    /\ rows = {}
    /\ nextId = 1
    /\ parent = [k \in ProviderNamespace |-> [p \in Provider |-> 0]]

\* Mutant: the lowest one.
Lowest(S) == IF S = {} THEN 0 ELSE CHOOSE h \in {r.right : r \in S} : \A r \in S : h <= r.right

\* The highest rightset of some rows; 0 without any.
Highest(S) == IF S = {} THEN 0 ELSE CHOOSE h \in {r.right : r \in S} :
                                       \A r \in S : r.right <= h

Named(k, n) == {r \in rows : r.ns = k /\ r.name = n}

\* UNIQUE (dataprovidernamespaceid, dataprovidername, dataprovidernamevalidfrom):
\* one of the rows S already has the name from that day on.
Clashes(S, k, n, d) == \E r \in S : r.ns = k /\ r.name = n /\ r.from = d

\* Mutant: the interval begins on the last bound in use.
AddDataProviderAt(k, n, d, blanks) ==
    LET h == Highest(rows) IN
    /\ nextId <= MaxId
    /\ blanks \/ Named(k, n) = {}
    /\ ~Clashes(rows, k, n, d)
    /\ h + 1 <= MaxSet
    /\ rows' = rows \cup {[ns |-> k, id |-> nextId, name |-> n, from |-> d,
                           left |-> h, right |-> h + 1]}
    /\ nextId' = nextId + 1
    /\ UNCHANGED parent

\* addDataProvider with a new name.  (With a known one, the interval and the
\* name stay as they are.)  The interval begins behind those of all namespaces.
\* A name is looked for with the blanks around it, and stored without them.
AddDataProvider(k, n, d, blanks) ==
    LET h == Highest(rows) IN
    /\ nextId <= MaxId
    /\ blanks \/ Named(k, n) = {}
    /\ ~Clashes(rows, k, n, d)
    /\ h + 2 <= MaxSet
    /\ rows' = rows \cup {[ns |-> k, id |-> nextId, name |-> n, from |-> d,
                           left |-> h + 1, right |-> h + 2]}
    /\ nextId' = nextId + 1
    /\ UNCHANGED parent

\* What administrators do: groups of plain providers, or groups in groups too.
IsGroup(k, p) == \E q \in Provider : parent[k][q] = p

\* The least set of those that were put into p or into one of the set.
Below(k, p) ==
    LET Closed == {S \in SUBSET Provider :
                      \A c \in Provider : parent[k][c] = p \/ parent[k][c] \in S => c \in S}
    IN {q \in Provider : \A S \in Closed : q \in S}

MayJoin(k, p, g) ==
    CASE Grouping = "flat"   -> p # g /\ ~IsGroup(k, p) /\ parent[k][g] = 0
      [] Grouping = "nested" -> p # g /\ ~IsGroup(k, p)
      [] Grouping = "none"   -> FALSE

\* Of several providers with a name, a call picks any.  Administrators make groups
\* by names that leave no doubt, whichever is picked.
NamesMayJoin(d, g) ==
    \A x \in Named(d.ns, d.name), y \in Named(g.ns, g.name) : MayJoin(g.ns, x.id, y.id)

\* addDataProviderToGroup: three updates, the first in all namespaces, and the
\* interval of the provider at the end of the group's old one.
AddDataProviderToGroup(d, g) ==
    LET Shift(r) == IF r.right > g.right
                      THEN [r EXCEPT !.left = @ + 2, !.right = @ + 2] ELSE r
        Move(r) == IF r.ns = g.ns /\ r.id = d.id
                     THEN [r EXCEPT !.left = g.right, !.right = g.right + 1]
                     ELSE IF r.ns = g.ns /\ r.id = g.id
                            THEN [r EXCEPT !.right = @ + 2]
                            ELSE Shift(r)
    IN /\ d.ns = g.ns
       /\ NamesMayJoin(d, g)
       /\ Highest(rows) + 2 <= MaxSet
       /\ rows' = {Move(r) : r \in rows}
       /\ parent' = [parent EXCEPT ![g.ns][d.id] = g.id]
       /\ UNCHANGED nextId

\* setDataProviderName: the provider of row s gets the name n in namespace k,
\* and an interval behind those of that namespace, in which there must be one.
\* Whether another provider has the name is not asked, but for that day.
SetDataProviderName(s, k, n, d) ==
    LET rest == {r \in rows : ~(r.ns = k /\ r.id = s.id)}
        there == {r \in rest : r.ns = k}
    IN /\ there # {}
       /\ ~Clashes(there, k, n, d)
       /\ Highest(there) + 2 <= MaxSet
       /\ rows' = rest \cup {[ns |-> k, id |-> s.id, name |-> n, from |-> d,
                              left |-> Highest(there) + 1, right |-> Highest(there) + 2]}
       /\ parent' = [parent EXCEPT ![k] = [p \in Provider |->
                        IF p = s.id \/ @[p] = s.id THEN 0 ELSE @[p]]]
       /\ UNCHANGED nextId

ProviderNext ==
    \/ \E k \in ProviderNamespace, n \in ProviderName, d \in Day, blanks \in BOOLEAN :
           AddDataProvider(k, n, d, blanks)
    \/ \E d, g \in rows : AddDataProviderToGroup(d, g)
    \/ \E s \in rows, k \in ProviderNamespace, n \in ProviderName, d \in Day :
           SetDataProviderName(s, k, n, d)

ProviderSpec == ProviderInit /\ [][ProviderNext]_providerVars

-----------------------------------------------------------------------------
(* What readers get *)

Within(d, s) == s.left <= d.left /\ d.right <= s.right

\* getdataprovidersingroup(n), of a session in namespace k.
InGroup(k, n) == {d.id : d \in {r \in rows : r.ns = k /\ \E s \in Named(k, n) : Within(r, s)}}

\* wci.read(n): the query over dataprovider_mv does not mention namespaces; the
\* view of the values only asks that the provider has a name in k.
ReadBy(k, n) ==
    {d.id : d \in {r \in rows :
        /\ \E s \in rows : s.name = n /\ Within(r, s)
        /\ \E s \in rows : s.ns = k /\ s.id = r.id}}

-----------------------------------------------------------------------------
(* Properties *)

\* A name stands for the providers that have it and what administrators have put
\* into them, directly or in groups; a provider that is no group is just itself.
GroupsAreRight ==
    \A k \in ProviderNamespace, n \in ProviderName :
        InGroup(k, n) = UNION {{r.id} \cup Below(k, r.id) : r \in Named(k, n)}

\* The intervals of a namespace are nested or disjoint.
SetsAreNested ==
    \A r, s \in rows :
        r.ns = s.ns => Within(r, s) \/ Within(s, r) \/ r.right < s.left \/ s.right < r.left

\* Reading by a name gives what the name stands for in the session's namespace.
ReadsByNamespace ==
    \A k \in ProviderNamespace, n \in ProviderName : ReadBy(k, n) = InGroup(k, n)

\* A name is of one provider: "a data provider is identified by a
\* DataProviderName" (wdb-metadata_user-manual).
NameIdentifies ==
    \A r, s \in rows : r.ns = s.ns /\ r.name = s.name => r.id = s.id
=============================================================================
