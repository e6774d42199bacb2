----------------------------- MODULE PlaceName -----------------------------
(***************************************************************************)
(* Places and their names.  A place (point, polygon or regular grid) has   *)
(* names in namespaces, each for a time of validity; readers look names up *)
(* in a materialized view that triggers on the table of names rebuild.     *)
(* The canonical name of a place is its name in namespace 0.               *)
(*                                                                         *)
(*   src/src/callInterface/api/wciMetaPlacePoint.in.sql, wciMetaPlace.in.sql *)
(*   src/src/callInterface/types/location.in.sql                           *)
(*   src/src/database/placeDefinitionTables.in.sql, ...Views, ...Triggers  *)
(*                                                                         *)
(* A place is identified with its geometry: every function looks for the   *)
(* geometry before it adds a place.  A call that raises an error changes   *)
(* nothing, and has no action.  Calls do not overlap here.                 *)
(***************************************************************************)
EXTENDS Integers, FiniteSets, Functions

CONSTANTS
    PlacePoints, PlacePolygons, Grids,  \* the geometries
    Name,                   \* names a user can give
    Canonical,              \* stands for the name made from the geometry
    Namespace,              \* place namespaces, 0 among them
    Infinity,               \* bound: times are 0 (-infinity) .. Infinity
    Operation               \* the functions that are called

ASSUME PlaceConstants ==
    /\ Grids \cap (PlacePoints \cup PlacePolygons) = {}
    /\ Infinity \in Nat /\ 0 \in Namespace /\ Canonical \notin Name
    /\ Operation \subseteq {"addPlacePoint", "addOrUpdatePlacePoint", "addPlacePolygon",
                            "addOrUpdatePlacePolygon", "addPlaceRegularGrid", "setPlaceName"}

Place == PlacePoints \cup PlacePolygons \cup Grids
Time == 0 .. Infinity

\* A row of placename, which is also what a call of addOrUpdate... is given.
Row == [place : Place, ns : Namespace, name : Name, from : Time, to : Time]
NoCall == [place |-> "none"]

VARIABLES
    defined,    \* the places in placedefinition
    placename,  \* the table
    mv,         \* placedefinition_mv; its grids are placeregulargrid_mv
    last        \* the last call that named a place

placeVars == <<defined, placename, mv, last>>

PlaceTypeOK ==
    /\ defined \subseteq Place
    /\ placename \subseteq Row
    /\ mv \subseteq Row \cup [place : Place, ns : {0}, name : {Canonical}, from : {0}, to : {Infinity}]
    /\ last \in Row \cup {NoCall}

PlaceInit ==
    /\ defined = {}
    /\ placename = {}
    /\ mv = {}
    /\ last = NoCall

-----------------------------------------------------------------------------
(* The tables *)

\* placename_unique, which implies the primary key, and the CHECK.
NameKey(r) == <<r.ns, r.name, r.from>>

\* The table T with F(r) for its rows r in S, if the constraints allow that.
Changed(T, S, F(_)) == [r \in T |-> IF r \in S THEN F(r) ELSE r]

Legal(change) ==
    /\ \A r, s \in DOMAIN change : r # s => NameKey(change[r]) # NameKey(change[s])
    /\ \A r \in DOMAIN change : change[r].from <= change[r].to

CanInsert(T, r) == r.from <= r.to /\ \A s \in T : NameKey(s) # NameKey(r)

\* The rows of place p in placedefinition_v, when the names are T.
View(T, p) ==
    {r \in T : r.place = p}
    \cup {[place |-> p, ns |-> 0, name |-> Canonical, from |-> 0, to |-> Infinity]}

\* Mutant: the trigger adds the rows that are new and removes none.
RefreshedOnly(T, U) == mv \cup (U \ T)

\* updateplacespec, on the rows inserted or updated when T became U.
Refreshed(T, U) ==
    LET touched == {r.place : r \in U \ T} IN
    {r \in mv : r.place \notin touched} \cup UNION {View(U, p) : p \in touched}

\* updateplacespec_delete
Purged(view, S) == {r \in view : r.place \notin {s.place : s \in S}}

\* The names become T.
Rename(T) ==
    /\ placename' = T
    /\ mv' = Refreshed(placename, T)

\* What addOrUpdate... is told of place c.place: the rows of other places with
\* the name, and those of the place itself.
Namesakes(T, c) == {r \in T : r.ns = c.ns /\ r.name = c.name}
Own(T, c) == {r \in Namesakes(T, c) : r.place = c.place}
Others(T, c) == Namesakes(T, c) \ Own(T, c)

-----------------------------------------------------------------------------
(* Points *)

\* addPlacePoint: a new place, and in another namespace than 0 its name.
AddPlacePoint(c) ==
    /\ "addPlacePoint" \in Operation
    /\ c.place \in PlacePoints \ defined
    /\ defined' = defined \cup {c.place}
    /\ IF c.ns = 0
         THEN UNCHANGED <<placename, mv, last>>
         ELSE /\ CanInsert(placename, c)
              /\ Rename(placename \cup {c})
              /\ last' = c

\* How the times of a call lie to those of a row.
Lies(kind, c, r) ==
    CASE kind = "extends"   -> c.from <= r.from /\ c.to >= r.to
      [] kind = "inside"    -> c.from >= r.from /\ c.to <= r.to
      [] kind = "early"     -> c.from <= r.from /\ c.to <= r.to
      [] kind = "later"     -> c.from >= r.from /\ c.to >= r.to
      [] kind = "underlaps" -> c.from <= r.from /\ c.to <= r.to /\ c.to >= r.from
      [] kind = "overlaps"  -> c.from >= r.from /\ c.to >= r.to /\ c.from <= r.to

Fitting(kind, c, S) == {r \in S : Lies(kind, c, r)}

\* Mutant: the beginning of the validity is not updated.
AdjustedEnd(kind, c, r) == [r EXCEPT !.to = c.to]

\* How a row of the place itself is changed then.
Adjusted(kind, c, r) ==
    CASE kind \in {"extends", "inside"}  -> [r EXCEPT !.from = c.from, !.to = c.to]
      [] kind \in {"early", "underlaps"} -> [r EXCEPT !.from = c.from]
      [] kind \in {"later", "overlaps"}  -> [r EXCEPT !.to = c.to]

\* The first kind of the list that fits some row decides; all rows it fits are
\* adjusted.  Without any, whether the call inserts a row is up to Rest.
AdjustOwn(kinds, c, Rest) ==
    LET own == Own(placename, c)
        fit == {i \in DOMAIN kinds : Fitting(kinds[i], c, own) # {}}
    IN \/ \E i \in fit :
            LET Adjust(r) == Adjusted(kinds[i], c, r)
                change == Changed(placename, Fitting(kinds[i], c, own), Adjust)
            IN /\ \A j \in fit : i <= j
               /\ Legal(change)
               /\ Rename(Range(change))
       \/ fit = {} /\ Rest

\* Mutant: a call whose times contain those of the row is not noticed.
ClashAtEnds(c, r) ==
    \/ c.from >= r.from /\ c.from < r.to
    \/ c.to <= r.to /\ c.to > r.from

\* The test that a new point's name is not another place's at the time.
Clash(c, r) ==
    \/ c.from >= r.from /\ c.from < r.to
    \/ c.to <= r.to /\ c.to > r.from
    \/ c.from <= r.from /\ c.to >= r.to

Insert(T, c) == CanInsert(T, c) /\ Rename(T \cup {c})

AddOrUpdatePlacePoint(c) ==
    /\ "addOrUpdatePlacePoint" \in Operation
    /\ c.place \in PlacePoints
    /\ defined' = defined \cup {c.place}
    /\ IF c.ns = 0
         THEN UNCHANGED <<placename, mv, last>>
         ELSE /\ last' = c
              /\ IF c.place \notin defined
                   THEN ~(\E r \in Others(placename, c) : Clash(c, r)) /\ Insert(placename, c)
                   ELSE AdjustOwn(<<"extends", "inside", "underlaps", "overlaps">>, c,
                                  Insert(placename, c))

-----------------------------------------------------------------------------
(* Polygons *)

\* addPlacePolygon refers to times that it has not got: it fails but in
\* namespace 0.
AddPlacePolygon(p) ==
    /\ "addPlacePolygon" \in Operation
    /\ p \in PlacePolygons \ defined
    /\ defined' = defined \cup {p}
    /\ UNCHANGED <<placename, mv, last>>

\* Other places with the name make room: one that it would contain, or be
\* contained in, is an error; earlier and later ones are cut, one after another.
TakeOver(c) ==
    LET After(r) == [r EXCEPT !.from = c.to]
        Before(r) == [r EXCEPT !.to = c.from]
        others == Others(placename, c)
        cut1 == Changed(placename, Fitting("early", c, others), After)
        once == Range(cut1)
        cut2 == Changed(once, Fitting("later", c, Others(once, c)), Before)
    IN /\ Fitting("extends", c, others) \cup Fitting("inside", c, others) = {}
       /\ Legal(cut1)
       /\ Legal(cut2)
       /\ Insert(Range(cut2), c)

AddOrUpdatePlacePolygon(c) ==
    /\ "addOrUpdatePlacePolygon" \in Operation
    /\ c.place \in PlacePolygons
    /\ defined' = defined \cup {c.place}
    /\ IF c.ns = 0
         THEN UNCHANGED <<placename, mv, last>>
         ELSE /\ last' = c
              /\ IF c.place \notin defined
                   THEN TakeOver(c)
                   ELSE AdjustOwn(<<"extends", "inside", "early", "later">>, c, TakeOver(c))

-----------------------------------------------------------------------------
(* Grids, and names for all time *)

\* Mutant: a time beyond infinity.
AlwaysLonger(p, k, n) == [place |-> p, ns |-> k, name |-> n, from |-> 0, to |-> Infinity + 1]

Always(p, k, n) == [place |-> p, ns |-> k, name |-> n, from |-> 0, to |-> Infinity]

\* addPlaceRegularGrid looks the grid up in the materialized view; a grid that
\* is in the table but not in the view cannot be inserted again.
AddPlaceRegularGrid(p, k, n) ==
    LET c == Always(p, k, n)
        mine == {r \in placename : r.place = p /\ r.ns = k}
        Renamed(r) == [r EXCEPT !.name = n]
        change == Changed(placename, mine, Renamed)
        known == \E r \in mv : r.place = p /\ r.ns = 0
    IN /\ "addPlaceRegularGrid" \in Operation
       /\ p \in Grids
       /\ known \/ p \notin defined
       /\ defined' = defined \cup {p}
       /\ IF k = 0
            THEN UNCHANGED <<placename, mv, last>>
            ELSE /\ last' = c
                 /\ IF mine = {} THEN Insert(placename, c)
                                 ELSE Legal(change) /\ Rename(Range(change))

\* setPlaceName finds the place by its canonical name in the view, removes its
\* names in the namespace and inserts the new one.
SetPlaceName(p, k, n) ==
    LET c == Always(p, k, n)
        old == {r \in placename : r.place = p /\ r.ns = k}
        rest == placename \ old
        purged == Purged(mv, old)
    IN /\ "setPlaceName" \in Operation
       /\ k # 0
       /\ \E r \in mv : r.place = p /\ r.name = Canonical
       /\ CanInsert(rest, c)
       /\ placename' = rest \cup {c}
       /\ mv' = {r \in purged : r.place # p} \cup View(rest \cup {c}, p)
       /\ last' = c
       /\ UNCHANGED defined

PlaceNext ==
    \/ \E c \in Row : AddPlacePoint(c)
    \/ \E c \in Row : AddOrUpdatePlacePoint(c)
    \/ \E p \in Place : AddPlacePolygon(p)
    \/ \E c \in Row : AddOrUpdatePlacePolygon(c)
    \/ \E p \in Place, k \in Namespace, n \in Name : AddPlaceRegularGrid(p, k, n)
    \/ \E p \in Place, k \in Namespace, n \in Name : SetPlaceName(p, k, n)

PlaceSpec == PlaceInit /\ [][PlaceNext]_placeVars

-----------------------------------------------------------------------------
(* What readers get *)

\* getPlaceId: the places that name n can denote at time t.
PlaceId(k, n, t) ==
    {r.place : r \in {s \in mv : s.ns = k /\ s.name = n /\ t >= s.from /\ t < s.to}}

\* getPlaceDefinition and getPlacePoint: the definitions they list.
PlaceDefinition(k, n, t) ==
    {r.place : r \in {s \in mv : s.ns = k /\ s.name = n /\ s.from <= t /\ s.to >= t}}

-----------------------------------------------------------------------------
(* Properties *)

\* A name denotes one place at a time: "each PlaceName uniquely identifies one
\* geographical object" (wdb-metadata_user-manual, "Place Name").
OnePlacePerName ==
    \A k \in Namespace, n \in Name, t \in Time : Cardinality(PlaceId(k, n, t)) <= 1

\* And readers of definitions find one object under a name at a time.
OneDefinitionPerName ==
    \A k \in Namespace, n \in Name, t \in Time : Cardinality(PlaceDefinition(k, n, t)) <= 1

\* A defined place has its canonical name in namespace 0, where getPlaceDefinition
\* and setPlaceName look for it (wci_user-manual, wci.addPlacePoint, "Example").
CanonicalIsKnown ==
    \A p \in defined : \E r \in mv : r.place = p /\ r.ns = 0 /\ r.name = Canonical

\* The materialized view of a place that has a name is the view: no trigger is
\* missing, and none drops the names of another namespace.
ViewIsCurrent ==
    \A p \in {r.place : r \in placename} : {r \in mv : r.place = p} = View(placename, p)

\* After a call that succeeds, the name denotes the place for all of the time
\* that was asked for, whatever rows were there before.
CallIsHonoured ==
    last # NoCall =>
        \A t \in last.from .. last.to - 1 : last.place \in PlaceId(last.ns, last.name, t)

\* addOrUpdatePlacePoint with a new point never takes a name that another place
\* has at the time.
NewPointIsClear ==
    [][last' # NoCall /\ last'.place \notin defined /\ AddOrUpdatePlacePoint(last') =>
          \A s \in Namesakes(placename, last') : last'.to <= s.from \/ s.to <= last'.from]_placeVars
=============================================================================
