----------------------------- MODULE ReadFloat -----------------------------
(***************************************************************************)
(* The reads of one session: the set-returning functions behind            *)
(* wci.read(..., wci.returnfloat) and wci.read(..., wci.returngid), which  *)
(* hand out one row per call, and the caches of the backend that outlive a *)
(* read: prepared plans, place specifications, readers and geometries.     *)
(*                                                                         *)
(*   src/src/callInterface/core/wciRead/wciReadFloat.c, wciReadGid.c       *)
(*   src/src/callInterface/core/wciRead/getData.c, getPlaceSpecification.c *)
(*   src/src/callInterface/core/wciRead/query/plan.c                       *)
(*   src/src/callInterface/core/wciRead/extractGridData/                   *)
(*                                                                         *)
(* A query stands for its text.  The queries of a read are read-only and   *)
(* use the snapshot of the statement that calls it, so what they find is a *)
(* constant here.  The executor drains a function in FROM before it calls  *)
(* another one: two reads do not interleave.  Place names, whose geometry  *)
(* is the location of a request, are the subject of WciSession.            *)
(***************************************************************************)
EXTENDS Naturals, Sequences, FiniteSets, SequencesExt

CONSTANTS
    Request,    \* calls of wci.read: [float, grid, gid : a query, location]
    FloatRows,  \* the rows of floatvalue that a query finds
    GridRows,   \* the rows of gridvalue that it finds: [place, data]
    SpecOf,     \* what placeregulargrid_mv says of a place, or NoSpec
    Hits,       \* the points of a grid that a location selects, in order
    Where,      \* the coordinates of a point of a grid: [lon, lat]
    Points, Polygons,   \* geometries that can be read; others cannot
    NoSpec, NoLocation,
    MaxPlans    \* MAX_CACHED_PLAN_SIZE

ASSUME ReadConstants == MaxPlans \in Nat \ {0}

VARIABLES
    plans,      \* planList: the queries that have a prepared plan
    specs,      \* psList: place -> specification
    readers,    \* readerCache: key -> specification of the reader
    geoms,      \* lonLatToGeom: key, point -> coordinates
    indices,    \* geomToLonLat: key, location -> the specification used
    wkts,       \* geomToWkt: key of a geometry -> text
    store,      \* the ReadStore of the read that is under way
    returned    \* the rows that the last read has returned

geometryCaches == <<geoms, indices, wkts>>
caches == <<specs, readers, geometryCaches>>
vars == <<plans, caches, store, returned>>

Query == UNION {{r.float, r.grid, r.gid} : r \in Request}
Modes == {"closed", "float", "grid", "gid", "done", "error", "crashed"}
Idle == store.mode \in {"closed", "done", "error"}

Closed == [mode |-> "closed"]
Opened(mode, call, r, rows) ==
    [mode |-> mode, call |-> call, request |-> r, rows |-> rows, next |-> 1,
     opened |-> FALSE, key |-> <<>>, points |-> <<>>, at |-> 1, data |-> 0]

Init ==
    /\ plans = {}
    /\ specs = <<>> /\ readers = <<>>
    /\ geoms = <<>> /\ indices = <<>> /\ wkts = <<>>
    /\ store = Closed
    /\ returned = <<>>

-----------------------------------------------------------------------------
\* std::map and GHashTable: what is found under k, and v put there.
Cached(m, k, v) == IF k \in DOMAIN m THEN m[k] ELSE v
Remember(m, k, v) == [x \in DOMAIN m \cup {k} |-> IF x = k THEN v ELSE m[x]]

\* Mutant: the projection is not compared.
KeyOfNumbers(s) == s.numbers

\* The order of both caches compares a specification but for its srid.
Key(s) == <<s.numbers, s.projection>>

\* GEOSGeomCmp: geometries that are points are told apart by both coordinates.
PointKey(c) == <<c.lon, c.lat>>

\* clearSpiPlanCache.
NoPlans == {}

\* Mutant: one too many.
PlannedLate(q) ==
    IF q \in plans \/ Cardinality(plans) <= MaxPlans THEN plans \cup {q} ELSE {q}

\* getSpiPlan: a cache that is full is emptied first.
Planned(q) ==
    IF q \in plans \/ Cardinality(plans) < MaxPlans THEN plans \cup {q} ELSE NoPlans \cup {q}

\* GeometryCache::clear.
Forget == geoms' = <<>> /\ indices' = <<>> /\ wkts' = <<>>

\* wci.readCachePurge, which wci.end calls too.
CachePurge ==
    /\ Idle
    /\ plans' = NoPlans
    /\ Forget
    /\ store' = Closed
    /\ UNCHANGED <<specs, readers, returned>>

\* The first call of wciReadFloat.
Start(r) ==
    /\ Idle
    /\ Forget
    /\ plans' = Planned(r.float)
    /\ store' = Opened("float", "float", r, FloatRows[r.float])
    /\ returned' = <<>>
    /\ UNCHANGED <<specs, readers>>

\* Mutant: the index of the rows is that of the floats.
SwitchFrom(r) ==
    /\ store' = [Opened("grid", "float", r, GridRows[r.grid]) EXCEPT !.next = store.next]
    /\ plans' = Planned(r.grid)

\* runWciReadFloatQueryGrid and ReadStoreGridReturnInit.
SwitchTo(r) ==
    /\ store' = Opened("grid", "float", r, GridRows[r.grid])
    /\ plans' = Planned(r.grid)

\* getNextRowFromFloatTable.
NextFloat ==
    /\ store.mode = "float"
    /\ IF store.next <= Len(store.rows)
         THEN /\ returned' = Append(returned, store.rows[store.next])
              /\ store' = [store EXCEPT !.next = @ + 1]
              /\ UNCHANGED plans
         ELSE SwitchTo(store.request) /\ UNCHANGED returned
    /\ UNCHANGED caches

-----------------------------------------------------------------------------
(* Rows of gridvalue: a list of points for each, read one at a time.       *)

\* GridPointDataListIteratorAtEnd.
AtEnd == store.at > Len(store.points)

NeedsGrid == store.mode = "grid" /\ AtEnd /\ store.next <= Len(store.rows)

\* getNextRowFromGridTable has no row left.
EndGrids ==
    /\ store.mode = "grid" /\ AtEnd
    /\ store.next > Len(store.rows)
    /\ store' = [store EXCEPT !.mode = "done"]
    /\ UNCHANGED <<plans, caches, returned>>

\* getNextSetOfValues at a place that is no regular grid: the first time there
\* is no list and the read ends; later the loop asks the missing list for its
\* end, and the backend is lost.
OpenBareGrid ==
    /\ NeedsGrid
    /\ SpecOf[store.rows[store.next].place] = NoSpec
    /\ store' = [store EXCEPT !.mode = IF store.opened THEN "crashed" ELSE "done"]
    /\ UNCHANGED <<plans, caches, returned>>

\* readPoints throws for lines and collections; the statement fails.
Unreadable(s) ==
    /\ store.request.location \notin Points \cup Polygons \cup {NoLocation}
    /\ store' = [store EXCEPT !.mode = "error"]
    /\ UNCHANGED geometryCaches

\* Mutant: a row without points is not counted.
ListedAgain(s, points) ==
    store' = [store EXCEPT !.opened = TRUE, !.key = Key(s), !.points = points, !.at = 1,
                           !.data = store.rows[store.next].data,
                           !.next = IF points = <<>> THEN @ ELSE @ + 1]

\* The list of points and, with getCommonValues, the row it belongs to.
Listed(s, points) ==
    store' = [store EXCEPT !.opened = TRUE, !.key = Key(s), !.points = points, !.at = 1,
                           !.data = store.rows[store.next].data, !.next = @ + 1]

\* Points without coordinates in the cache get them from the specification.
WithCoordinates(s, points) ==
    LET new == {<<Key(s), points[i]>> : i \in DOMAIN points} IN
    [k \in DOMAIN geoms \cup new |-> Cached(geoms, k, Where[<<s, k[2]>>])]

\* A reader looks its location up, transforms it if need be, and reads points.
\* Polygons are not cached, and without location nothing is read.
Readable(s) ==
    LET l == store.request.location
        k == <<Key(s), l>>
        used == IF l \in Points THEN Cached(indices, k, s) ELSE s
        points == IF l = NoLocation THEN <<>> ELSE Hits[<<used, l>>] IN
    /\ l \in Points \cup Polygons \cup {NoLocation}
    /\ indices' = IF l \in Points THEN Remember(indices, k, used) ELSE indices
    /\ geoms' = WithCoordinates(s, points)
    /\ Listed(s, points)
    /\ UNCHANGED wkts

\* getPlaceSpecification and BaseDataReader::getInstance: what the caches have.
SpecAt(place) == Cached(specs, place, SpecOf[place])
ReaderOf(s) == Cached(readers, Key(s), s)

\* getNextSetOfValues.
OpenGrid ==
    /\ NeedsGrid
    /\ LET place == store.rows[store.next].place
           s == SpecAt(place) IN
       /\ s # NoSpec
       /\ specs' = Remember(specs, place, s)
       /\ readers' = Remember(readers, Key(s), ReaderOf(s))
       /\ Unreadable(ReaderOf(s)) \/ Readable(ReaderOf(s))
    /\ UNCHANGED <<plans, returned>>

Text(coordinates) == [point |-> coordinates]

\* Mutant: the caches are purged in every call.
NextPointPurged ==
    /\ store.mode = "grid" /\ ~AtEnd
    /\ store' = [store EXCEPT !.at = @ + 1]
    /\ Forget
    /\ UNCHANGED <<plans, specs, readers, returned>>

\* The rest of getNextRowFromGridTable: a row for the next point of the list.
NextPoint ==
    /\ store.mode = "grid" /\ ~AtEnd
    /\ LET p == store.points[store.at]
           c == geoms[<<store.key, p>>]
           t == Cached(wkts, PointKey(c), Text(c)) IN
       /\ wkts' = Remember(wkts, PointKey(c), t)
       /\ returned' = Append(returned, [data |-> store.data, point |-> p, at |-> t])
    /\ store' = [store EXCEPT !.at = @ + 1]
    /\ UNCHANGED <<plans, specs, readers, geoms, indices>>

-----------------------------------------------------------------------------
\* wciReadGid: the rows of one query as they are; no cache is used or purged.
StartGid(r) ==
    /\ Idle
    /\ store' = Opened("gid", "gid", r, GridRows[r.gid])
    /\ returned' = <<>>
    /\ UNCHANGED <<plans, caches>>

NextGid ==
    /\ store.mode = "gid"
    /\ IF store.next <= Len(store.rows)
         THEN /\ returned' = Append(returned, store.rows[store.next])
              /\ store' = [store EXCEPT !.next = @ + 1]
         ELSE store' = [store EXCEPT !.mode = "done"] /\ UNCHANGED returned
    /\ UNCHANGED <<plans, caches>>

\* The client connects again: another backend, with empty caches.
Reconnect ==
    /\ store.mode = "crashed"
    /\ plans' = {} /\ specs' = <<>> /\ readers' = <<>>
    /\ Forget
    /\ store' = Closed
    /\ returned' = <<>>

Step == NextFloat \/ EndGrids \/ OpenBareGrid \/ OpenGrid \/ NextPoint \/ NextGid
Next ==
    \/ Step
    \/ \E r \in Request : Start(r) \/ StartGid(r)
    \/ CachePurge
    \/ Reconnect

\* The executor calls a function until it has returned its last row.
Spec == Init /\ [][Next]_vars /\ WF_vars(Step)

-----------------------------------------------------------------------------
TypeOK ==
    /\ plans \subseteq Query
    /\ DOMAIN specs \subseteq DOMAIN SpecOf
    /\ \A p \in DOMAIN specs : specs[p] = SpecOf[p]
    /\ \A k \in DOMAIN readers : Key(readers[k]) = k
    /\ store.mode \in Modes
    /\ store.mode # "closed" => store.next \in 1..Len(store.rows) + 1

\* What a read should return: the floats, then for each grid its points, with
\* the coordinates that the grid itself gives them.
PointRows(row, l) ==
    LET s == SpecOf[row.place]
        hits == IF l = NoLocation THEN <<>> ELSE Hits[<<s, l>>] IN
    [i \in 1..Len(hits) |->
        [data |-> row.data, point |-> hits[i], at |-> Text(Where[<<s, hits[i]>>])]]
Answer(r) ==
    FloatRows[r.float] \o FlattenSeq([i \in 1..Len(GridRows[r.grid]) |->
                                         PointRows(GridRows[r.grid][i], r.location)])
Specified(r) == \A i \in 1..Len(GridRows[r.grid]) : SpecOf[GridRows[r.grid][i].place] # NoSpec

\* A read that ends has returned every row, in order, each with the metadata,
\* points and coordinates of its own grid, whatever the caches held before
\* (getData.c:117-165, BaseDataReader.cpp:57-125); the caches are keyed so that
\* no grid answers for another.
ReadIsComplete ==
    store.mode = "done" =>
        IF store.call = "gid" THEN returned = GridRows[store.request.gid]
        ELSE Specified(store.request) => returned = Answer(store.request)

\* What is left of a list of points still has its coordinates in the cache: no
\* purge comes between two rows of a read (readCache.h:64-65).
NoDanglingPoint ==
    store.mode = "grid" =>
        \A i \in store.at..Len(store.points) : <<store.key, store.points[i]>> \in DOMAIN geoms

\* The cache of plans stays within its size, and keeps the plan that the rows
\* being returned came from (plan.c:57-76).
PlansAreBounded ==
    /\ Cardinality(plans) <= MaxPlans
    /\ store.mode = "float" => store.request.float \in plans
    /\ store.mode = "grid" => store.request.grid \in plans

\* Every read ends, however many grids yield no point (getData.c:129-134).
ReadEnds == store.mode \in {"float", "grid", "gid"} ~> store.mode \in {"done", "error", "crashed"}
=============================================================================
