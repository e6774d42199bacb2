---------------------------- MODULE ReadFloatProofs ----------------------------
(***************************************************************************)
(* Theorems about ReadFloat, for all requests, grids and cache sizes.      *)
(***************************************************************************)
EXTENDS ReadFloat, FiniteSetTheorems, SequenceTheorems, WellFoundedInduction, TLAPS

\* What the constants are: queries find sequences of rows, the rows of gridvalue
\* are of places, and a location selects a sequence of points.
Specs == {SpecOf[p] : p \in DOMAIN SpecOf} \ {NoSpec}
ConstantsAreRight ==
    /\ \A r \in Request :
          /\ Len(FloatRows[r.float]) \in Nat /\ Len(GridRows[r.grid]) \in Nat
          /\ Len(GridRows[r.gid]) \in Nat
          /\ \A i \in 1..Len(GridRows[r.grid]) : GridRows[r.grid][i].place \in DOMAIN SpecOf
    /\ \A s \in Specs, l \in Points \cup Polygons :
          DOMAIN Hits[<<s, l>>] = 1..Len(Hits[<<s, l>>])

\* A read is for a request, and has its rows.
Fields == {"mode", "call", "request", "rows", "next", "opened", "key", "points", "at", "data"}
Shape ==
    store.mode # "closed" =>
        /\ DOMAIN store = Fields
        /\ store.request \in Request
        /\ Len(store.rows) \in Nat
        /\ store.at \in Nat /\ store.next \in 1..Len(store.rows) + 1
        /\ store.mode = "grid" => store.rows = GridRows[store.request.grid]

LEMMA PlansArePlanned ==
    ASSUME IsFiniteSet(plans), Cardinality(plans) <= MaxPlans, NEW q \in Query
    PROVE  /\ IsFiniteSet(Planned(q)) /\ Cardinality(Planned(q)) <= MaxPlans
           /\ q \in Planned(q) /\ Planned(q) \subseteq plans \cup {q}
<1>1. MaxPlans \in Nat /\ MaxPlans >= 1 /\ Cardinality(plans) \in Nat
    BY ReadConstants, FS_CardinalityType
<1>2. CASE q \in plans
    <2>1. Planned(q) = plans
        BY <1>2 DEF Planned
    <2> QED BY <1>2, <2>1
<1>3. CASE q \notin plans /\ Cardinality(plans) < MaxPlans
    <2>1. Planned(q) = plans \cup {q}
        BY <1>3 DEF Planned
    <2>2. IsFiniteSet(plans \cup {q}) /\ Cardinality(plans \cup {q}) = Cardinality(plans) + 1
        BY <1>3, FS_AddElement
    <2> QED BY <1>1, <1>3, <2>1, <2>2
<1>4. CASE q \notin plans /\ ~(Cardinality(plans) < MaxPlans)
    <2>1. Planned(q) = {q}
        BY <1>4 DEF Planned, NoPlans
    <2>2. IsFiniteSet({q}) /\ Cardinality({q}) = 1
        BY FS_Singleton
    <2> QED BY <1>1, <2>1, <2>2
<1> QED BY <1>2, <1>3, <1>4

\* The inductive invariant: besides the properties themselves it says that what
\* the caches hold is a specification, so that its points are a list.
CachesAreTyped ==
    /\ DOMAIN specs \subseteq DOMAIN SpecOf
    /\ \A p \in DOMAIN specs : specs[p] = SpecOf[p] /\ specs[p] \in Specs
    /\ \A k \in DOMAIN readers : readers[k] \in Specs /\ Key(readers[k]) = k
    /\ \A k \in DOMAIN indices : indices[k] \in Specs
PlansAreSome == plans \subseteq Query /\ IsFiniteSet(plans) /\ PlansAreBounded
IInv == store.mode \in Modes /\ Shape /\ CachesAreTyped /\ PlansAreSome /\ NoDanglingPoint

LEMMA RequestsAreQueries ==
    \A r \in Request : r.float \in Query /\ r.grid \in Query /\ r.gid \in Query
BY DEF Query

\* A new read (wciReadFloat.c, wciReadGid.c), or the second query of one.
LEMMA OpenedIsShaped ==
    ASSUME NEW mode \in Modes, NEW call, NEW r \in Request, NEW rows, Len(rows) \in Nat,
           mode = "grid" => rows = GridRows[r.grid], store' = Opened(mode, call, r, rows)
    PROVE  /\ store'.mode = mode /\ store'.request = r
           /\ Shape' /\ NoDanglingPoint'
<1>1. /\ store'.mode = mode /\ store'.request = r /\ store'.rows = rows /\ store'.next = 1
      /\ store'.at = 1 /\ store'.points = <<>> /\ DOMAIN store' = Fields
    BY DEF Opened, Fields
<1>2. 1 \in 1..Len(rows) + 1
    OBVIOUS
<1>3. Shape'
    BY <1>1, <1>2 DEF Shape
<1>4. NoDanglingPoint'
    BY <1>1 DEF NoDanglingPoint
<1> QED BY <1>1, <1>3, <1>4

\* The points of a list have coordinates in the cache (BaseDataReader.cpp).
LEMMA ReadableKeeps ==
    ASSUME ConstantsAreRight, IInv, NEW s \in Specs, store.mode = "grid",
           store.next <= Len(store.rows), Readable(s)
    PROVE  Shape' /\ NoDanglingPoint' /\ store'.mode = "grid" /\ store'.request = store.request
           /\ \A k \in DOMAIN indices' : indices'[k] \in Specs
<1>1. PICK l : l = store.request.location
    OBVIOUS
<1>2. PICK used : used = IF l \in Points THEN Cached(indices, <<Key(s), l>>, s) ELSE s
    OBVIOUS
<1>3. PICK points : points = IF l = NoLocation THEN <<>> ELSE Hits[<<used, l>>]
    OBVIOUS
<1>4. /\ l \in Points \cup Polygons \cup {NoLocation}
      /\ indices' = IF l \in Points THEN Remember(indices, <<Key(s), l>>, used) ELSE indices
      /\ geoms' = WithCoordinates(s, points)
      /\ Listed(s, points)
    BY <1>1, <1>2, <1>3 DEF Readable
<1>5. used \in Specs
    BY <1>2 DEF IInv, CachesAreTyped, Cached
<1>6. \A k \in DOMAIN indices' : indices'[k] \in Specs
    BY <1>4, <1>5 DEF Remember, IInv, CachesAreTyped
<1>7. \A i \in 1..Len(points) : i \in DOMAIN points
    <2>1. CASE l = NoLocation
        BY <1>3, <2>1
    <2>2. CASE l # NoLocation
        BY <1>3, <1>4, <1>5, <2>2 DEF ConstantsAreRight
    <2> QED BY <2>1, <2>2
<1>8. \A i \in 1..Len(points) : <<Key(s), points[i]>> \in DOMAIN geoms'
    BY <1>4, <1>7 DEF WithCoordinates
<1>9. /\ DOMAIN store = Fields /\ store.request \in Request /\ Len(store.rows) \in Nat
      /\ store.next \in 1..Len(store.rows) + 1 /\ store.rows = GridRows[store.request.grid]
    BY DEF IInv, Shape
<1>10. /\ DOMAIN store' = Fields /\ store'.mode = "grid" /\ store'.request = store.request
       /\ store'.rows = store.rows /\ store'.next = store.next + 1 /\ store'.at = 1
       /\ store'.points = points /\ store'.key = Key(s)
    BY <1>4, <1>9 DEF Listed, Fields
<1>11. Shape'
    BY <1>9, <1>10 DEF Shape
<1>12. NoDanglingPoint'
    BY <1>8, <1>10 DEF NoDanglingPoint
<1> QED BY <1>6, <1>10, <1>11, <1>12

LEMMA OpenGridKeeps ==
    ASSUME ConstantsAreRight, IInv, OpenGrid PROVE IInv'
<1>1. /\ store.mode = "grid" /\ AtEnd /\ store.next <= Len(store.rows)
      /\ UNCHANGED <<plans, returned>>
    BY DEF OpenGrid, NeedsGrid
<1>2. PICK place : place = store.rows[store.next].place
    OBVIOUS
<1>3. place \in DOMAIN SpecOf
    BY <1>1, <1>2 DEF IInv, Shape, ConstantsAreRight
<1>4. PICK s : /\ s = SpecAt(place) /\ s # NoSpec
               /\ specs' = Remember(specs, place, s)
               /\ readers' = Remember(readers, Key(s), ReaderOf(s))
               /\ Unreadable(ReaderOf(s)) \/ Readable(ReaderOf(s))
    BY <1>2 DEF OpenGrid
<1>5. s = SpecOf[place] /\ s \in Specs
    BY <1>3, <1>4 DEF SpecAt, Cached, Specs, IInv, CachesAreTyped
<1>6. ReaderOf(s) \in Specs /\ Key(ReaderOf(s)) = Key(s)
    BY <1>5 DEF ReaderOf, Cached, IInv, CachesAreTyped
<1>7. /\ DOMAIN specs' \subseteq DOMAIN SpecOf
      /\ \A p \in DOMAIN specs' : specs'[p] = SpecOf[p] /\ specs'[p] \in Specs
    BY <1>3, <1>4, <1>5 DEF Remember, IInv, CachesAreTyped
<1>8. \A k \in DOMAIN readers' : readers'[k] \in Specs /\ Key(readers'[k]) = k
    BY <1>4, <1>6 DEF Remember, IInv, CachesAreTyped
<1>9. CASE Unreadable(ReaderOf(s))
    <2>1. store' = [store EXCEPT !.mode = "error"] /\ indices' = indices
        BY <1>9 DEF Unreadable, geometryCaches
    <2>2. /\ DOMAIN store = Fields /\ store.request \in Request /\ Len(store.rows) \in Nat
          /\ store.at \in Nat /\ store.next \in 1..Len(store.rows) + 1
        BY <1>1 DEF IInv, Shape
    <2>3. /\ DOMAIN store' = Fields /\ store'.mode = "error" /\ store'.request = store.request
          /\ store'.rows = store.rows /\ store'.at = store.at /\ store'.next = store.next
        BY <2>1, <2>2 DEF Fields
    <2>4. Shape' /\ NoDanglingPoint' /\ store'.mode \in Modes
        BY <2>2, <2>3 DEF Shape, NoDanglingPoint, Modes
    <2>5. PlansAreSome'
        BY <1>1, <2>3 DEF IInv, PlansAreSome, PlansAreBounded
    <2> QED BY <1>7, <1>8, <2>1, <2>4, <2>5 DEF IInv, CachesAreTyped
<1>10. CASE Readable(ReaderOf(s))
    <2>1. /\ Shape' /\ NoDanglingPoint' /\ store'.mode = "grid" /\ store'.request = store.request
          /\ \A k \in DOMAIN indices' : indices'[k] \in Specs
        BY <1>1, <1>6, <1>10, ReadableKeeps
    <2>2. PlansAreSome'
        BY <1>1, <2>1 DEF IInv, PlansAreSome, PlansAreBounded
    <2> QED BY <1>7, <1>8, <2>1, <2>2 DEF IInv, CachesAreTyped, Modes
<1> QED BY <1>4, <1>9, <1>10

\* A step that leaves the caches alone, or empties them, and the plans alone.
LEMMA StoreStep ==
    ASSUME IInv, UNCHANGED plans,
           UNCHANGED caches \/ (UNCHANGED <<specs, readers>> /\ Forget),
           store'.mode \in Modes, Shape', NoDanglingPoint',
           store'.mode = "float" => store.mode = "float" /\ store'.request = store.request,
           store'.mode = "grid" => store.mode = "grid" /\ store'.request = store.request
    PROVE  IInv'
<1>1. CachesAreTyped'
    BY DEF IInv, CachesAreTyped, caches, geometryCaches, Forget
<1>2. PlansAreSome'
    BY DEF IInv, PlansAreSome, PlansAreBounded
<1> QED BY <1>1, <1>2 DEF IInv

\* A step within a read.
LEMMA ModeStep ==
    ASSUME IInv, store.mode # "closed", NEW mode \in Modes \ {"grid", "closed"}, NEW next,
           next \in 1..Len(store.rows) + 1,
           store' = [store EXCEPT !.mode = mode, !.next = next],
           mode = "float" => store.mode = "float",
           UNCHANGED <<plans, caches>>
    PROVE  IInv'
<1>1. /\ DOMAIN store' = Fields /\ store'.mode = mode /\ store'.request = store.request
      /\ store'.rows = store.rows /\ store'.at = store.at /\ store'.next = next
    BY DEF IInv, Shape, Fields
<1>2. Shape' /\ NoDanglingPoint'
    BY <1>1 DEF IInv, Shape, NoDanglingPoint
<1> QED BY <1>1, <1>2, StoreStep

LEMMA Steps ==
    ASSUME ConstantsAreRight, IInv, [Next]_vars PROVE IInv'
<1>0. store.mode # "closed" =>
          /\ DOMAIN store = Fields /\ store.request \in Request /\ Len(store.rows) \in Nat
          /\ store.at \in Nat /\ store.next \in 1..Len(store.rows) + 1
    BY DEF IInv, Shape
<1>1. CASE NextFloat /\ store.next <= Len(store.rows)
    <2>1. /\ store.mode = "float" /\ store' = [store EXCEPT !.next = @ + 1]
          /\ UNCHANGED <<plans, caches>>
        BY <1>1 DEF NextFloat
    <2>2. store' = [store EXCEPT !.mode = "float", !.next = store.next + 1]
        BY <1>0, <2>1 DEF Fields
    <2>3. store.next + 1 \in 1..Len(store.rows) + 1
        BY <1>0, <1>1, <2>1
    <2> QED BY <2>1, <2>2, <2>3, ModeStep DEF Modes
<1>2. CASE NextFloat /\ ~(store.next <= Len(store.rows))
    <2>1. PICK r \in Request : /\ store.request = r /\ store.mode = "float" /\ SwitchTo(r)
                               /\ UNCHANGED caches
        BY <1>0, <1>2 DEF NextFloat
    <2>2. /\ store' = Opened("grid", "float", r, GridRows[r.grid]) /\ plans' = Planned(r.grid)
          /\ Len(GridRows[r.grid]) \in Nat
        BY <2>1 DEF SwitchTo, ConstantsAreRight
    <2>3. store'.mode = "grid" /\ store'.request = r /\ Shape' /\ NoDanglingPoint'
        BY <2>2, OpenedIsShaped DEF Modes
    <2>4. PlansAreSome'
        BY <2>2, <2>3, RequestsAreQueries, PlansArePlanned DEF IInv, PlansAreSome, PlansAreBounded
    <2>5. CachesAreTyped'
        BY <2>1 DEF IInv, CachesAreTyped, caches, geometryCaches
    <2> QED BY <2>3, <2>4, <2>5 DEF IInv, Modes
<1>3. CASE EndGrids \/ OpenBareGrid
    <2>1. PICK mode \in {"done", "crashed"} : store' = [store EXCEPT !.mode = mode]
        BY <1>3 DEF EndGrids, OpenBareGrid
    <2>2. store.mode = "grid" /\ UNCHANGED <<plans, caches>>
        BY <1>3 DEF EndGrids, OpenBareGrid, NeedsGrid
    <2>3. store' = [store EXCEPT !.mode = mode, !.next = store.next]
        BY <1>0, <2>1, <2>2 DEF Fields
    <2> QED BY <1>0, <2>1, <2>2, <2>3, ModeStep DEF Modes
<1>4. CASE OpenGrid
    BY <1>4, OpenGridKeeps
<1>5. CASE NextPoint
    <2>1. /\ store.mode = "grid" /\ store' = [store EXCEPT !.at = @ + 1]
          /\ UNCHANGED <<plans, specs, readers, geoms, indices>>
        BY <1>5 DEF NextPoint
    <2>2. /\ DOMAIN store' = Fields /\ store'.mode = "grid" /\ store'.request = store.request
          /\ store'.rows = store.rows /\ store'.at = store.at + 1 /\ store'.next = store.next
          /\ store'.points = store.points /\ store'.key = store.key
        BY <1>0, <2>1 DEF Fields
    <2>3. Shape'
        BY <1>0, <2>1, <2>2 DEF IInv, Shape
    <2>4. NoDanglingPoint'
        BY <1>0, <2>1, <2>2 DEF IInv, NoDanglingPoint
    <2>5. CachesAreTyped' /\ PlansAreSome'
        BY <2>1, <2>2 DEF IInv, CachesAreTyped, PlansAreSome, PlansAreBounded
    <2> QED BY <2>2, <2>3, <2>4, <2>5 DEF IInv, Modes
<1>6. CASE NextGid
    <2>1. store.mode = "gid" /\ UNCHANGED <<plans, caches>>
        BY <1>6 DEF NextGid
    <2>2. CASE store.next <= Len(store.rows)
        <3>1. store' = [store EXCEPT !.mode = "gid", !.next = store.next + 1]
            BY <1>0, <1>6, <2>1, <2>2 DEF NextGid, Fields
        <3>2. store.next + 1 \in 1..Len(store.rows) + 1
            BY <1>0, <2>1, <2>2
        <3> QED BY <2>1, <3>1, <3>2, ModeStep DEF Modes
    <2>3. CASE ~(store.next <= Len(store.rows))
        <3>1. store' = [store EXCEPT !.mode = "done", !.next = store.next]
            BY <1>0, <1>6, <2>1, <2>3 DEF NextGid, Fields
        <3>2. store.mode # "closed" /\ store.next \in 1..Len(store.rows) + 1
            BY <1>0, <2>1
        <3>3. "done" \in Modes \ {"grid", "closed"} /\ "done" # "float"
            BY DEF Modes
        <3> QED BY <2>1, <3>1, <3>2, <3>3, ModeStep
    <2> QED BY <2>2, <2>3
<1>7. ASSUME NEW r \in Request, Start(r) PROVE IInv'
    <2>1. /\ store' = Opened("float", "float", r, FloatRows[r.float]) /\ plans' = Planned(r.float)
          /\ Len(FloatRows[r.float]) \in Nat
        BY <1>7 DEF Start, ConstantsAreRight
    <2>2. store'.mode = "float" /\ store'.request = r /\ Shape' /\ NoDanglingPoint'
        BY <2>1, OpenedIsShaped DEF Modes
    <2>3. PlansAreSome'
        BY <2>1, <2>2, RequestsAreQueries, PlansArePlanned DEF IInv, PlansAreSome, PlansAreBounded
    <2>4. CachesAreTyped'
        BY <1>7 DEF Start, Forget, IInv, CachesAreTyped
    <2> QED BY <2>2, <2>3, <2>4 DEF IInv, Modes
<1>8. ASSUME NEW r \in Request, StartGid(r) PROVE IInv'
    <2>1. /\ store' = Opened("gid", "gid", r, GridRows[r.gid]) /\ UNCHANGED <<plans, caches>>
          /\ Len(GridRows[r.gid]) \in Nat
        BY <1>8 DEF StartGid, ConstantsAreRight
    <2>2. store'.mode = "gid" /\ Shape' /\ NoDanglingPoint'
        BY <2>1, OpenedIsShaped DEF Modes
    <2> QED BY <2>1, <2>2, StoreStep DEF Modes
<1>9. CASE CachePurge \/ Reconnect
    <2>1. plans' = {} /\ store'.mode = "closed" /\ Forget
        BY <1>9 DEF CachePurge, Reconnect, Closed, NoPlans
    <2>2. Shape' /\ NoDanglingPoint' /\ store'.mode \in Modes
        BY <2>1 DEF Shape, NoDanglingPoint, Modes
    <2>3. PlansAreSome'
        BY <2>1, ReadConstants, FS_EmptySet DEF PlansAreSome, PlansAreBounded
    <2>4. UNCHANGED <<specs, readers>> \/ (specs' = <<>> /\ readers' = <<>>)
        BY <1>9 DEF CachePurge, Reconnect
    <2>5. CachesAreTyped'
        BY <2>1, <2>4 DEF Forget, IInv, CachesAreTyped
    <2> QED BY <2>2, <2>3, <2>5 DEF IInv
<1>10. CASE UNCHANGED vars
    BY <1>10 DEF vars, caches, geometryCaches, IInv, Shape, CachesAreTyped, PlansAreSome,
                PlansAreBounded, NoDanglingPoint
<1> QED BY <1>1, <1>2, <1>3, <1>4, <1>5, <1>6, <1>7, <1>8, <1>9, <1>10 DEF Next, Step

LEMMA IInvCorrect ==
    ASSUME ConstantsAreRight PROVE Spec => []IInv
<1>1. Init => IInv
    BY ReadConstants, FS_EmptySet DEF Init, Closed, IInv, Modes, Shape, CachesAreTyped,
       PlansAreSome, PlansAreBounded, NoDanglingPoint
<1> QED BY <1>1, Steps, PTL DEF Spec

\* Whatever grids are read, in whatever order, what is left of a list of points
\* has its coordinates: the first call of a read, which purges the caches of all
\* reads, never comes while a list is being returned (wciReadFloat.c, readCache.h).
THEOREM NoDanglingPointCorrect ==
    ASSUME ConstantsAreRight PROVE Spec => []NoDanglingPoint
<1>1. IInv => NoDanglingPoint
    BY DEF IInv
<1> QED BY <1>1, IInvCorrect, PTL

\* The cache of prepared plans never outgrows its size, and always has the plan
\* of the query whose rows are being returned (plan.c).
THEOREM PlansAreBoundedCorrect ==
    ASSUME ConstantsAreRight PROVE Spec => []PlansAreBounded
<1>1. IInv => PlansAreBounded
    BY DEF IInv, PlansAreSome
<1> QED BY <1>1, IInvCorrect, PTL

-----------------------------------------------------------------------------
(* Reads are complete.                                                     *)

\* A set of numbers that is not empty has a least one.
LEMMA LeastNumber ==
    ASSUME NEW T \in SUBSET Nat, T # {} PROVE \E n \in T : \A m \in T : n <= m
<1>1. PICK n \in T : \A m \in T : ~(<<m, n>> \in OpToRel(<, Nat))
    BY NatLessThanWellFounded, WFMin
<1>2. \A m \in T : ~(m < n)
    BY <1>1 DEF OpToRel
<1> QED BY <1>2

\* The function that FlattenSeq declares: the first sequences of seqs in a row.
Flattened(seqs) ==
    LET flatten[i \in 1..Len(seqs)] ==
            IF i = 1 THEN seqs[i] ELSE flatten[i-1] \o seqs[i]
    IN flatten

\* g is that function, as far as n.
Flattens(g, seqs, n) ==
    g = [i \in 1..n |-> IF i = 1 THEN seqs[i] ELSE g[i-1] \o seqs[i]]

LEMMA FlattenExists ==
    ASSUME NEW seqs, NEW N \in Nat PROVE \E g : Flattens(g, seqs, N)
<1> DEFINE T == {n \in Nat : ~ \E g : Flattens(g, seqs, n)}
<1>1. SUFFICES ASSUME T # {} PROVE FALSE
    OBVIOUS
<1>2. PICK n \in T : \A m \in T : n <= m
    BY <1>1, LeastNumber
<1>3. CASE n = 0
    <2>1. Flattens(<<>>, seqs, 0)
        BY DEF Flattens
    <2> QED BY <1>2, <1>3, <2>1
<1>4. CASE n # 0
    <2>1. n \in Nat /\ n - 1 \in Nat /\ n - 1 \notin T
        BY <1>2, <1>4
    <2>2. PICK g : Flattens(g, seqs, n - 1)
        BY <2>1
    <2>3. PICK h : h = [i \in 1..n |-> IF i = 1 THEN seqs[i] ELSE g[i-1] \o seqs[i]]
        OBVIOUS
    <2>4. ASSUME NEW i \in 1..n, i # 1 PROVE h[i-1] = g[i-1]
        <3>1. i - 1 \in 1..(n - 1) /\ i - 1 \in 1..n
            BY <2>1, <2>4
        <3>2. g[i-1] = IF i - 1 = 1 THEN seqs[i-1] ELSE g[i-1-1] \o seqs[i-1]
            BY <2>2, <3>1 DEF Flattens
        <3> QED BY <2>3, <3>1, <3>2
    <2>5. h = [i \in 1..n |-> IF i = 1 THEN seqs[i] ELSE h[i-1] \o seqs[i]]
        BY <2>3, <2>4
    <2>6. Flattens(h, seqs, n)
        BY <2>5 DEF Flattens
    <2> QED BY <1>2, <2>6
<1> QED BY <1>3, <1>4

LEMMA FlattenedIs ==
    ASSUME NEW seqs, Len(seqs) \in Nat
    PROVE  /\ Flattens(Flattened(seqs), seqs, Len(seqs))
           /\ FlattenSeq(seqs) = IF Len(seqs) = 0 THEN seqs ELSE Flattened(seqs)[Len(seqs)]
<1>1. \E g : Flattens(g, seqs, Len(seqs))
    BY FlattenExists
<1>2. Flattened(seqs) = CHOOSE g : Flattens(g, seqs, Len(seqs))
    BY DEF Flattened, Flattens
<1>3. Flattens(Flattened(seqs), seqs, Len(seqs))
    BY <1>1, <1>2
<1>4. FlattenSeq(seqs) = IF Len(seqs) = 0 THEN seqs ELSE Flattened(seqs)[Len(seqs)]
    BY DEF FlattenSeq, Flattened
<1> QED BY <1>3, <1>4

\* What the first n of some sequences are in a row.
First(seqs, n) == IF n = 0 THEN <<>> ELSE Flattened(seqs)[n]

LEMMA FirstGrows ==
    ASSUME NEW S, NEW seqs, Len(seqs) \in Nat, seqs = [i \in 1..Len(seqs) |-> seqs[i]],
           \A i \in 1..Len(seqs) : seqs[i] \in Seq(S)
    PROVE  /\ \A n \in 0..Len(seqs) : First(seqs, n) \in Seq(S)
           /\ \A n \in 1..Len(seqs) : First(seqs, n) = First(seqs, n - 1) \o seqs[n]
           /\ FlattenSeq(seqs) = First(seqs, Len(seqs))
<1>1. PICK f : f = Flattened(seqs)
    OBVIOUS
<1>2. \A n \in 1..Len(seqs) : f[n] = IF n = 1 THEN seqs[n] ELSE f[n-1] \o seqs[n]
    <2>1. Flattens(f, seqs, Len(seqs))
        BY <1>1, FlattenedIs
    <2>2. f = [n \in 1..Len(seqs) |-> IF n = 1 THEN seqs[n] ELSE f[n-1] \o seqs[n]]
        BY <2>1 DEF Flattens
    <2> QED BY <2>2
<1>3. \A n \in 0..Len(seqs) : First(seqs, n) = IF n = 0 THEN <<>> ELSE f[n]
    BY <1>1 DEF First
<1>4. ASSUME NEW n \in 1..Len(seqs) PROVE First(seqs, n) = First(seqs, n - 1) \o seqs[n]
    <2>1. CASE n = 1
        <3>1. First(seqs, n) = seqs[n] /\ First(seqs, n - 1) = <<>> /\ seqs[n] \in Seq(S)
            BY <1>2, <1>3, <2>1
        <3> QED BY <3>1, ConcatEmptySeq
    <2>2. CASE n # 1
        <3>1. n - 1 \in 0..Len(seqs) /\ n - 1 # 0 /\ n \in 0..Len(seqs) /\ n # 0
            BY <2>2
        <3> QED BY <1>2, <1>3, <2>2, <3>1
    <2> QED BY <2>1, <2>2
<1>5. \A n \in 0..Len(seqs) : First(seqs, n) \in Seq(S)
    <2> DEFINE T == {n \in 0..Len(seqs) : First(seqs, n) \notin Seq(S)}
    <2>1. SUFFICES ASSUME T # {} PROVE FALSE
        OBVIOUS
    <2>2. PICK n \in T : \A m \in T : n <= m
        <3>1. T \in SUBSET Nat
            OBVIOUS
        <3> HIDE DEF T
        <3> QED BY <2>1, <3>1, LeastNumber
    <2>3. n # 0
        BY <2>2, EmptySeq DEF First
    <2>4. n \in 1..Len(seqs) /\ n - 1 \in 0..Len(seqs) /\ n - 1 \notin T
        BY <2>2, <2>3
    <2>5. First(seqs, n - 1) \in Seq(S) /\ seqs[n] \in Seq(S)
        BY <2>4
    <2>6. First(seqs, n) \in Seq(S)
        BY <1>4, <2>4, <2>5, ConcatProperties
    <2> QED BY <2>2, <2>6
<1>6. FlattenSeq(seqs) = First(seqs, Len(seqs))
    <2>1. CASE Len(seqs) = 0
        <3>1. seqs = <<>>
            BY <2>1
        <3> QED BY <2>1, <3>1, FlattenedIs DEF First
    <2>2. CASE Len(seqs) # 0
        BY <2>2, FlattenedIs DEF First
    <2> QED BY <2>1, <2>2
<1> QED BY <1>4, <1>5, <1>6

\* Moreover the rows that a query finds are a sequence, and what a grid answers
\* depends on its numbers and its projection alone: BaseDataReader transforms
\* with these, and never with the srid.
IsLonLat(c) == c = [lon |-> c.lon, lat |-> c.lat]
GridsAreRight ==
    /\ \A r \in Request :
          /\ FloatRows[r.float] \in Seq(ToSet(FloatRows[r.float]))
          /\ GridRows[r.gid] \in Seq(ToSet(GridRows[r.gid]))
    /\ \A s \in Specs, l \in Points \cup Polygons : Len(Hits[<<s, l>>]) \in Nat
    /\ \A s, t \in Specs, l \in Points \cup Polygons :
          Key(s) = Key(t) =>
              /\ Hits[<<s, l>>] = Hits[<<t, l>>]
              /\ \A i \in DOMAIN Hits[<<s, l>>] :
                    Where[<<s, Hits[<<s, l>>][i]>>] = Where[<<t, Hits[<<s, l>>][i]>>]
    /\ \A s \in Specs, l \in Points \cup Polygons : \A i \in DOMAIN Hits[<<s, l>>] :
          IsLonLat(Where[<<s, Hits[<<s, l>>][i]>>])

\* The points of a grid that a request reads.
HitsOf(s, l) == IF l = NoLocation THEN <<>> ELSE Hits[<<s, l>>]
RowsAt(row, s, hits) == [i \in 1..Len(hits) |->
    [data |-> row.data, point |-> hits[i], at |-> Text(Where[<<s, hits[i]>>])]]

\* What a request reads of its grids, one list for each.
Lists(r) == [i \in 1..Len(GridRows[r.grid]) |-> PointRows(GridRows[r.grid][i], r.location)]

\* The inductive invariant.  The geometries in the cache are those of the grid
\* with that key, and the texts those of the geometries; readers and indices are
\* found under the key of their own specification.
CachesAreRight ==
    /\ \A k \in DOMAIN geoms : \E s \in Specs, l \in Points \cup Polygons :
          \E i \in DOMAIN Hits[<<s, l>>] :
              k = <<Key(s), Hits[<<s, l>>][i]>> /\ geoms[k] = Where[<<s, Hits[<<s, l>>][i]>>]
    /\ \A k \in DOMAIN indices : k[1] = Key(indices[k])
    /\ \A k \in DOMAIN wkts : wkts[k] = Text([lon |-> k[1], lat |-> k[2]])

\* The list that is being returned, of the row before the next one.
ListIsRight ==
    LET r == store.request
        row == store.rows[store.next - 1]
        s == SpecOf[row.place] IN
    /\ store.next > 1 /\ store.at \in 1..Len(store.points) + 1
    /\ r.location \in Points \cup Polygons \cup {NoLocation}
    /\ store.key = Key(s) /\ store.points = HitsOf(s, r.location) /\ store.data = row.data
    /\ returned = FloatRows[r.float] \o First(Lists(r), store.next - 2)
                      \o SubSeq(PointRows(row, r.location), 1, store.at - 1)

\* What has been returned so far is the beginning of the answer.
FloatsAreRight ==
    /\ store.mode = "float" =>
          /\ store.call = "float" /\ store.rows = FloatRows[store.request.float]
          /\ returned = SubSeq(store.rows, 1, store.next - 1)
    /\ store.mode = "gid" =>
          /\ store.call = "gid" /\ store.rows = GridRows[store.request.gid]
          /\ returned = SubSeq(store.rows, 1, store.next - 1)
GridsRead ==
    store.mode = "grid" =>
        /\ store.call = "float" /\ Len(store.points) \in Nat
        /\ Specified(store.request) =>
              IF store.opened THEN ListIsRight
              ELSE /\ store.next = 1 /\ store.points = <<>> /\ store.at = 1
                   /\ returned = FloatRows[store.request.float]
ReadInv == IInv /\ CachesAreRight /\ FloatsAreRight /\ GridsRead /\ ReadIsComplete

LEMMA SubSeqGrows ==
    ASSUME NEW S, NEW s \in Seq(S), NEW n \in 1..Len(s)
    PROVE  Append(SubSeq(s, 1, n - 1), s[n]) = SubSeq(s, 1, n)
<1>1. SubSeq(s, 1, n - 1) \in Seq(S) /\ s[n] \in S
    BY ElementOfSeq, SubSeqProperties
<1>2. Append(SubSeq(s, 1, n - 1), s[n]) = SubSeq(s, 1, n - 1) \o <<s[n]>>
    BY <1>1, AppendIsConcat
<1>3. SubSeq(s, 1, n) = SubSeq(s, 1, n - 1) \o <<s[n]>>
    BY SubSeqRecursiveSecond
<1> QED BY <1>2, <1>3

LEMMA SpecifiedHits ==
    ASSUME ConstantsAreRight, GridsAreRight, NEW r \in Request, Specified(r),
           r.location \in Points \cup Polygons \cup {NoLocation}
    PROVE  \A j \in 1..Len(GridRows[r.grid]) :
               LET row == GridRows[r.grid][j]
                   s == SpecOf[row.place]
                   hits == HitsOf(s, r.location)
                   list == PointRows(row, r.location) IN
               s \in Specs /\ Len(hits) \in Nat /\ list = RowsAt(row, s, hits)
                   /\ Len(list) = Len(hits)
<1> SUFFICES ASSUME NEW j \in 1..Len(GridRows[r.grid]),
                    NEW row, row = GridRows[r.grid][j],
                    NEW s, s = SpecOf[row.place],
                    NEW hits, hits = HitsOf(s, r.location),
                    NEW list, list = PointRows(row, r.location)
             PROVE  s \in Specs /\ Len(hits) \in Nat /\ list = RowsAt(row, s, hits)
                        /\ Len(list) = Len(hits)
    OBVIOUS
<1>1. s \in Specs
    BY DEF Specified, ConstantsAreRight, Specs
<1>2. Len(hits) \in Nat
    BY <1>1 DEF GridsAreRight, HitsOf
<1>3. list = RowsAt(row, s, hits)
    BY DEF PointRows, HitsOf, RowsAt
<1>4. list = [i \in 1..Len(hits) |-> list[i]]
    BY <1>3 DEF RowsAt
<1>5. Len(list) = Len(hits)
    <2>1. PICK m \in Nat : m = Len(hits)
        BY <1>2
    <2>2. list = [i \in 1..m |-> list[i]]
        BY <1>4, <2>1
    <2>3. Len([i \in 1..m |-> list[i]]) = m
        BY <2>1
    <2> QED BY <2>1, <2>2, <2>3
<1> QED BY <1>1, <1>2, <1>3, <1>5

\* The answer to a request is a sequence, put together list by list.
LEMMA AnswerGrows ==
    ASSUME ConstantsAreRight, GridsAreRight, NEW r \in Request, Specified(r),
           \/ Len(GridRows[r.grid]) = 0
           \/ r.location \in Points \cup Polygons \cup {NoLocation}
    PROVE  /\ \E S :
                /\ FloatRows[r.float] \in Seq(S)
                /\ \A j \in 1..Len(GridRows[r.grid]) :
                      PointRows(GridRows[r.grid][j], r.location) \in Seq(S)
                /\ \A n \in 0..Len(GridRows[r.grid]) : First(Lists(r), n) \in Seq(S)
           /\ \A n \in 1..Len(GridRows[r.grid]) :
                First(Lists(r), n) =
                    First(Lists(r), n - 1) \o PointRows(GridRows[r.grid][n], r.location)
           /\ Answer(r) = FloatRows[r.float] \o First(Lists(r), Len(GridRows[r.grid]))
<1>1. PICK N : N = Len(GridRows[r.grid]) /\ N \in Nat
    BY DEF ConstantsAreRight
<1>2. PICK lists : lists = Lists(r)
    OBVIOUS
<1>3. /\ Len(lists) = N /\ lists = [i \in 1..N |-> lists[i]]
      /\ \A j \in 1..N : lists[j] = PointRows(GridRows[r.grid][j], r.location)
    BY <1>1, <1>2 DEF Lists
<1>4. PICK S : S = ToSet(FloatRows[r.float]) \cup UNION {ToSet(lists[j]) : j \in 1..N}
    OBVIOUS
<1>5. FloatRows[r.float] \in Seq(S)
    <2>1. FloatRows[r.float] \in Seq(ToSet(FloatRows[r.float]))
        BY DEF GridsAreRight
    <2>2. ToSet(FloatRows[r.float]) \subseteq S
        BY <1>4
    <2> QED BY <2>1, <2>2, SeqMonotonic
<1>6. ASSUME NEW j \in 1..N PROVE lists[j] \in Seq(S)
    <2>1. r.location \in Points \cup Polygons \cup {NoLocation}
        BY <1>1, <1>6
    <2>2. PICK row, s, hits : /\ row = GridRows[r.grid][j] /\ s = SpecOf[row.place]
                              /\ hits = HitsOf(s, r.location)
        OBVIOUS
    <2>3. Len(hits) \in Nat /\ lists[j] = RowsAt(row, s, hits)
        BY <1>1, <1>3, <2>1, <2>2, SpecifiedHits
    <2>4. DOMAIN lists[j] = 1..Len(hits) /\ lists[j] = [i \in 1..Len(hits) |-> lists[j][i]]
        BY <2>3 DEF RowsAt
    <2>5. \A i \in 1..Len(hits) : lists[j][i] \in ToSet(lists[j])
        BY <2>4 DEF ToSet
    <2>6. \A i \in 1..Len(hits) : lists[j][i] \in S
        BY <1>4, <2>5
    <2>7. lists[j] \in [1..Len(hits) -> S]
        BY <2>4, <2>6
    <2> QED BY <2>3, <2>7, SeqDef
<1>7. /\ \A n \in 0..N : First(lists, n) \in Seq(S)
      /\ \A n \in 1..N : First(lists, n) = First(lists, n - 1) \o lists[n]
      /\ FlattenSeq(lists) = First(lists, N)
    BY <1>1, <1>3, <1>6, FirstGrows
<1>8. Answer(r) = FloatRows[r.float] \o FlattenSeq(lists)
    BY <1>2 DEF Answer, Lists
<1> QED BY <1>1, <1>2, <1>3, <1>5, <1>6, <1>7, <1>8

\* A list that has been returned to its end: all grids before the next one.
LEMMA ListEnds ==
    ASSUME ConstantsAreRight, GridsAreRight, ReadInv, store.mode = "grid", AtEnd,
           NEW r, r = store.request, Specified(r)
    PROVE  /\ store.call = "float" /\ r \in Request /\ store.rows = GridRows[r.grid]
           /\ Len(store.rows) \in Nat /\ store.next \in 1..Len(store.rows) + 1
           /\ store.next > 1 => r.location \in Points \cup Polygons \cup {NoLocation}
           /\ returned = FloatRows[r.float] \o First(Lists(r), store.next - 1)
<1>2. /\ r \in Request /\ store.rows = GridRows[r.grid] /\ Len(store.rows) \in Nat
      /\ store.next \in 1..Len(store.rows) + 1
    BY DEF ReadInv, IInv, Shape
<1>3. store.call = "float"
    BY DEF ReadInv, GridsRead
<1>4. CASE store.opened
    <2>1. ListIsRight
        BY <1>4 DEF ReadInv, GridsRead
    <2>2. PICK row, s, n, list : /\ row = store.rows[store.next - 1] /\ s = SpecOf[row.place]
                                 /\ n = store.next - 1 /\ list = PointRows(row, r.location)
        OBVIOUS
    <2>3. /\ store.next > 1 /\ store.at \in 1..Len(store.points) + 1
          /\ r.location \in Points \cup Polygons \cup {NoLocation}
          /\ store.points = HitsOf(s, r.location)
          /\ returned = FloatRows[r.float] \o First(Lists(r), store.next - 2)
                            \o SubSeq(list, 1, store.at - 1)
        BY <2>1, <2>2 DEF ListIsRight
    <2>4. n \in 1..Len(GridRows[r.grid]) /\ row = GridRows[r.grid][n] /\ store.next - 2 = n - 1
          /\ n - 1 \in 0..Len(GridRows[r.grid])
        <3>1. PICK N : N = Len(GridRows[r.grid]) /\ N = Len(store.rows)
            BY <1>2
        <3>2. N \in Nat /\ n = store.next - 1 /\ store.next \in 1..N + 1 /\ store.next > 1
            BY <1>2, <2>2, <2>3, <3>1
        <3>3. n \in 1..N /\ store.next - 2 = n - 1 /\ n - 1 \in 0..N
            BY <3>2
        <3> QED BY <1>2, <2>2, <3>1, <3>3
    <2>5. Len(list) = Len(store.points) /\ Len(list) \in Nat
        <3>1. /\ Len(HitsOf(SpecOf[GridRows[r.grid][n].place], r.location)) \in Nat
              /\ Len(PointRows(GridRows[r.grid][n], r.location))
                     = Len(HitsOf(SpecOf[GridRows[r.grid][n].place], r.location))
            BY <1>2, <2>3, <2>4, SpecifiedHits
        <3> QED BY <2>2, <2>3, <2>4, <3>1
    <2>6. store.at - 1 = Len(list)
        BY <2>3, <2>5 DEF AtEnd
    <2>7. PICK S : /\ FloatRows[r.float] \in Seq(S) /\ list \in Seq(S)
                   /\ First(Lists(r), n - 1) \in Seq(S)
        BY <1>2, <2>2, <2>3, <2>4, AnswerGrows
    <2>8. First(Lists(r), n) = First(Lists(r), n - 1) \o list
        BY <1>2, <2>2, <2>3, <2>4, AnswerGrows
    <2>9. SubSeq(list, 1, store.at - 1) = list
        BY <2>6, <2>7, SubSeqFull
    <2>10. returned = FloatRows[r.float] \o First(Lists(r), n)
        <3>1. (FloatRows[r.float] \o First(Lists(r), n - 1)) \o list
                  = FloatRows[r.float] \o (First(Lists(r), n - 1) \o list)
            <4>1. PICK f, u, v : /\ f = FloatRows[r.float] /\ u = First(Lists(r), n - 1)
                                 /\ v = list
                OBVIOUS
            <4>2. f \in Seq(S) /\ u \in Seq(S) /\ v \in Seq(S)
                BY <2>7, <4>1
            <4>3. (f \o u) \o v = f \o (u \o v)
                BY <4>2, ConcatAssociative, SMTT(15)
            <4> QED BY <4>1, <4>3
        <3>2. returned = (FloatRows[r.float] \o First(Lists(r), n - 1)) \o list
            BY <2>3, <2>4, <2>9
        <3> QED BY <2>8, <3>1, <3>2
    <2> QED BY <1>2, <1>3, <2>2, <2>3, <2>10
<1>5. CASE ~store.opened
    <2>1. store.next = 1 /\ returned = FloatRows[r.float]
        BY <1>5 DEF ReadInv, GridsRead
    <2>2. First(Lists(r), store.next - 1) = <<>>
        BY <2>1 DEF First
    <2>3. FloatRows[r.float] \o <<>> = FloatRows[r.float]
        BY <1>2, ConcatEmptySeq DEF GridsAreRight
    <2>4. returned = FloatRows[r.float] \o First(Lists(r), store.next - 1)
        BY <2>1, <2>2, <2>3
    <2>5. ~(store.next > 1)
        BY <2>1
    <2> QED BY <1>2, <1>3, <2>4, <2>5
<1> QED BY <1>4, <1>5

\* The last grid has been returned: the read is complete.
LEMMA EndGridsKeeps ==
    ASSUME ConstantsAreRight, GridsAreRight, ReadInv, EndGrids PROVE ReadIsComplete'
<1>1. PICK r : r = store.request
    OBVIOUS
<1>2. /\ store.mode = "grid" /\ AtEnd /\ store.next > Len(store.rows)
      /\ store' = [store EXCEPT !.mode = "done"] /\ returned' = returned
    BY DEF EndGrids
<1>3. DOMAIN store = Fields /\ store.call = "float"
    BY <1>2 DEF ReadInv, IInv, Shape, GridsRead
<1>4. store'.mode = "done" /\ store'.call = "float" /\ store'.request = r
    BY <1>1, <1>2, <1>3 DEF Fields
<1>5. ASSUME Specified(r) PROVE returned = Answer(r)
    <2>1. /\ r \in Request /\ store.rows = GridRows[r.grid] /\ Len(store.rows) \in Nat
          /\ store.next \in 1..Len(store.rows) + 1
          /\ store.next > 1 => r.location \in Points \cup Polygons \cup {NoLocation}
          /\ returned = FloatRows[r.float] \o First(Lists(r), store.next - 1)
        BY <1>1, <1>2, <1>5, ListEnds
    <2>2. store.next - 1 = Len(GridRows[r.grid])
        BY <1>2, <2>1
    <2>3. \/ Len(GridRows[r.grid]) = 0
          \/ r.location \in Points \cup Polygons \cup {NoLocation}
        BY <2>1, <2>2
    <2>4. Answer(r) = FloatRows[r.float] \o First(Lists(r), Len(GridRows[r.grid]))
        BY <1>5, <2>1, <2>3, AnswerGrows
    <2> QED BY <2>1, <2>2, <2>4
<1> QED BY <1>2, <1>4, <1>5 DEF ReadIsComplete

\* The reader of a row is of a specification with the key of the row's own.
LEMMA ReaderIsRight ==
    ASSUME ConstantsAreRight, IInv, OpenGrid,
           NEW s, s = SpecOf[store.rows[store.next].place]
    PROVE  /\ store.mode = "grid" /\ AtEnd /\ store.next <= Len(store.rows)
           /\ s \in Specs /\ UNCHANGED <<plans, returned>>
           /\ \E t \in Specs : Key(t) = Key(s) /\ (Unreadable(t) \/ Readable(t))
<1>1. /\ store.mode = "grid" /\ AtEnd /\ store.next <= Len(store.rows)
      /\ UNCHANGED <<plans, returned>>
    BY DEF OpenGrid, NeedsGrid
<1>2. PICK place : place = store.rows[store.next].place
    OBVIOUS
<1>3. place \in DOMAIN SpecOf
    BY <1>1, <1>2 DEF IInv, Shape, ConstantsAreRight
<1>4. /\ SpecAt(place) # NoSpec
      /\ \/ Unreadable(ReaderOf(SpecAt(place)))
         \/ Readable(ReaderOf(SpecAt(place)))
    BY <1>2 DEF OpenGrid
<1>5. s = SpecAt(place) /\ s \in Specs
    BY <1>2, <1>3, <1>4 DEF SpecAt, Cached, Specs, IInv, CachesAreTyped
<1>6. ReaderOf(s) \in Specs /\ Key(ReaderOf(s)) = Key(s)
    BY <1>5 DEF ReaderOf, Cached, IInv, CachesAreTyped
<1> QED BY <1>1, <1>4, <1>5, <1>6

LEMMA ReadableCaches ==
    ASSUME ConstantsAreRight, GridsAreRight, ReadInv, NEW t \in Specs, Readable(t),
           NEW s \in Specs, Key(t) = Key(s), NEW l, l = store.request.location
    PROVE  /\ CachesAreRight' /\ l \in Points \cup Polygons \cup {NoLocation}
           /\ Listed(t, HitsOf(s, l)) /\ Len(HitsOf(s, l)) \in Nat
<1>1. PICK k : k = <<Key(t), l>>
    OBVIOUS
<1>2. PICK used : used = IF l \in Points THEN Cached(indices, k, t) ELSE t
    OBVIOUS
<1>3. PICK points : points = HitsOf(used, l)
    OBVIOUS
<1>4. /\ l \in Points \cup Polygons \cup {NoLocation}
      /\ indices' = IF l \in Points THEN Remember(indices, k, used) ELSE indices
      /\ geoms' = WithCoordinates(t, points)
      /\ Listed(t, points)
      /\ wkts' = wkts
    BY <1>1, <1>2, <1>3 DEF Readable, HitsOf
<1>5. used \in Specs /\ Key(used) = Key(t)
    BY <1>1, <1>2 DEF ReadInv, IInv, CachesAreTyped, CachesAreRight, Cached
<1>6. points = HitsOf(t, l) /\ points = HitsOf(s, l)
    BY <1>3, <1>4, <1>5 DEF HitsOf, GridsAreRight
<1>7. \A x \in DOMAIN indices' : x[1] = Key(indices'[x])
    BY <1>1, <1>4, <1>5 DEF Remember, ReadInv, CachesAreRight
<1>8. ASSUME NEW x \in DOMAIN geoms'
      PROVE  \E u \in Specs, m \in Points \cup Polygons : \E i \in DOMAIN Hits[<<u, m>>] :
                 x = <<Key(u), Hits[<<u, m>>][i]>> /\ geoms'[x] = Where[<<u, Hits[<<u, m>>][i]>>]
    <2>1. /\ x \in DOMAIN geoms \cup {<<Key(t), points[i]>> : i \in DOMAIN points}
          /\ geoms'[x] = Cached(geoms, x, Where[<<t, x[2]>>])
        BY <1>4, <1>8 DEF WithCoordinates
    <2>2. CASE x \in DOMAIN geoms
        <3>1. geoms'[x] = geoms[x]
            BY <2>1, <2>2 DEF Cached
        <3> QED BY <2>2, <3>1 DEF ReadInv, CachesAreRight
    <2>3. CASE x \notin DOMAIN geoms
        <3>1. PICK i \in DOMAIN points : x = <<Key(t), points[i]>>
            BY <2>1, <2>3
        <3>2. l # NoLocation
            BY <1>6, <3>1 DEF HitsOf
        <3>3. points = Hits[<<t, l>>] /\ l \in Points \cup Polygons
            BY <1>4, <1>6, <3>2 DEF HitsOf
        <3>4. geoms'[x] = Where[<<t, points[i]>>]
            BY <2>1, <2>3, <3>1 DEF Cached
        <3> QED BY <3>1, <3>3, <3>4
    <2> QED BY <2>2, <2>3
<1>9. \A x \in DOMAIN wkts' : wkts'[x] = Text([lon |-> x[1], lat |-> x[2]])
    BY <1>4 DEF ReadInv, CachesAreRight
<1>10. Len(HitsOf(s, l)) \in Nat
    BY <1>4 DEF HitsOf, GridsAreRight
<1> QED BY <1>4, <1>6, <1>7, <1>8, <1>9, <1>10 DEF CachesAreRight

LEMMA OpenGridReads ==
    ASSUME ConstantsAreRight, GridsAreRight, ReadInv, OpenGrid PROVE ReadInv'
<1>1. IInv'
    BY OpenGridKeeps DEF ReadInv
<1>2. PICK r, row, s : r = store.request /\ row = store.rows[store.next] /\ s = SpecOf[row.place]
    OBVIOUS
<1>3. /\ store.mode = "grid" /\ AtEnd /\ store.next <= Len(store.rows) /\ s \in Specs
      /\ returned' = returned
      /\ \E t \in Specs : Key(t) = Key(s) /\ (Unreadable(t) \/ Readable(t))
    BY <1>2, ReaderIsRight DEF ReadInv
<1>4. PICK t \in Specs : Key(t) = Key(s) /\ (Unreadable(t) \/ Readable(t))
    BY <1>3
<1>5. /\ DOMAIN store = Fields /\ r \in Request /\ Len(store.rows) \in Nat
      /\ store.rows = GridRows[r.grid] /\ store.next \in 1..Len(store.rows) + 1
      /\ store.call = "float"
    BY <1>2, <1>3 DEF ReadInv, IInv, Shape, GridsRead
<1>6. CASE Unreadable(t)
    <2>1. store' = [store EXCEPT !.mode = "error"] /\ UNCHANGED geometryCaches
        BY <1>6 DEF Unreadable
    <2>2. store'.mode = "error"
        BY <1>5, <2>1 DEF Fields
    <2>3. CachesAreRight'
        BY <2>1 DEF ReadInv, CachesAreRight, geometryCaches
    <2> QED BY <1>1, <2>2, <2>3 DEF ReadInv, FloatsAreRight, GridsRead, ReadIsComplete
<1>7. CASE Readable(t)
    <2>1. PICK l, hits : l = r.location /\ hits = HitsOf(s, l)
        OBVIOUS
    <2>2. /\ CachesAreRight' /\ l \in Points \cup Polygons \cup {NoLocation}
          /\ Listed(t, hits) /\ Len(hits) \in Nat
        BY <1>2, <1>3, <1>4, <1>7, <2>1, ReadableCaches
    <2>3. /\ store'.mode = "grid" /\ store'.call = "float" /\ store'.request = r
          /\ store'.rows = store.rows /\ store'.next = store.next + 1 /\ store'.at = 1
          /\ store'.points = hits /\ store'.key = Key(s) /\ store'.opened = TRUE
          /\ store'.data = row.data
        BY <1>2, <1>3, <1>4, <1>5, <2>2 DEF Listed, Fields
    <2>4. ASSUME Specified(r) PROVE ListIsRight'
        <3>1. PICK n, list : n = store.next /\ list = PointRows(row, l)
            OBVIOUS
        <3>2. n \in 1..Len(GridRows[r.grid]) /\ n \in Nat /\ row = GridRows[r.grid][n]
            <4>1. PICK m \in Nat : m = Len(store.rows)
                BY <1>5
            <4>2. n \in 1..m + 1 /\ n <= m
                BY <1>3, <1>5, <3>1, <4>1
            <4>3. n \in 1..m /\ n \in Nat
                BY <4>2
            <4> QED BY <1>2, <1>5, <3>1, <4>1, <4>3
        <3>3. returned = FloatRows[r.float] \o First(Lists(r), n - 1)
            BY <1>2, <1>3, <2>4, <3>1, ListEnds
        <3>4. PICK S : /\ FloatRows[r.float] \in Seq(S)
                       /\ \A i \in 0..Len(GridRows[r.grid]) : First(Lists(r), i) \in Seq(S)
            BY <1>5, <2>1, <2>2, <2>4, AnswerGrows
        <3>5. returned \in Seq(S)
            <4>1. n - 1 \in 0..Len(GridRows[r.grid])
                BY <1>5, <3>2
            <4>2. First(Lists(r), n - 1) \in Seq(S)
                BY <3>4, <4>1
            <4> QED BY <3>3, <3>4, <4>2, ConcatProperties
        <3>6. SubSeq(list, 1, 0) = <<>>
            BY SubSeqEmpty
        <3>7. returned = returned \o SubSeq(list, 1, 0)
            BY <3>5, <3>6, ConcatEmptySeq
        <3>8. /\ store'.next > 1 /\ store'.next - 1 = n /\ store'.next - 2 = n - 1
              /\ store'.at - 1 = 0
            BY <2>3, <3>1, <3>2
        <3>9. store'.at \in 1..Len(store'.points) + 1
            BY <2>2, <2>3
        <3>10. returned' = FloatRows[r.float] \o First(Lists(r), store'.next - 2)
                               \o SubSeq(list, 1, store'.at - 1)
            BY <1>3, <3>3, <3>7, <3>8
        <3>11. row = store'.rows[store'.next - 1]
            BY <1>2, <2>3, <3>1, <3>8
        <3> QED BY <1>2, <2>1, <2>2, <2>3, <3>1, <3>8, <3>9, <3>10, <3>11 DEF ListIsRight
    <2>5. GridsRead'
        BY <2>2, <2>3, <2>4 DEF GridsRead
    <2> QED BY <1>1, <2>2, <2>3, <2>5 DEF ReadInv, FloatsAreRight, ReadIsComplete
<1> QED BY <1>4, <1>6, <1>7

\* The coordinates of a point of the list are those of its own grid.
LEMMA PointIsRight ==
    ASSUME ConstantsAreRight, GridsAreRight, ReadInv, store.mode = "grid", ~AtEnd,
           NEW p, p = store.points[store.at], NEW c, c = geoms[<<store.key, p>>]
    PROVE  /\ c = [lon |-> c.lon, lat |-> c.lat]
           /\ \A s \in Specs : Key(s) = store.key => c = Where[<<s, p>>]
<1>1. store.at \in store.at..Len(store.points)
    <2>1. store.at \in Nat
        BY DEF ReadInv, IInv, Shape
    <2>2. Len(store.points) \in Nat
        BY DEF ReadInv, GridsRead
    <2> QED BY <2>1, <2>2 DEF AtEnd
<1>2. <<store.key, p>> \in DOMAIN geoms
    BY <1>1 DEF ReadInv, IInv, NoDanglingPoint
<1>3. PICK s \in Specs, l \in Points \cup Polygons : \E i \in DOMAIN Hits[<<s, l>>] :
          /\ <<store.key, p>> = <<Key(s), Hits[<<s, l>>][i]>>
          /\ c = Where[<<s, Hits[<<s, l>>][i]>>]
    BY <1>2 DEF ReadInv, CachesAreRight
<1>4. PICK i \in DOMAIN Hits[<<s, l>>] :
          /\ store.key = Key(s) /\ p = Hits[<<s, l>>][i] /\ c = Where[<<s, p>>]
    BY <1>3
<1>5. c = [lon |-> c.lon, lat |-> c.lat]
    <2>1. IsLonLat(Where[<<s, Hits[<<s, l>>][i]>>])
        BY DEF GridsAreRight
    <2> QED BY <1>4, <2>1 DEF IsLonLat
<1>6. ASSUME NEW t \in Specs, Key(t) = store.key PROVE c = Where[<<t, p>>]
    <2>1. \A j \in DOMAIN Hits[<<s, l>>] :
              Where[<<s, Hits[<<s, l>>][j]>>] = Where[<<t, Hits[<<s, l>>][j]>>]
        <3>1. Key(s) = Key(t)
            BY <1>4, <1>6
        <3> QED BY <1>6, <3>1 DEF GridsAreRight
    <2> QED BY <1>4, <2>1
<1> QED BY <1>5, <1>6

LEMMA NextPointReads ==
    ASSUME ConstantsAreRight, GridsAreRight, ReadInv, IInv', NextPoint PROVE ReadInv'
<1>1. PICK r, p, c, t : /\ r = store.request /\ p = store.points[store.at]
                        /\ c = geoms[<<store.key, p>>]
                        /\ t = Cached(wkts, PointKey(c), Text(c))
    OBVIOUS
<1>2. /\ store.mode = "grid" /\ ~AtEnd /\ store' = [store EXCEPT !.at = @ + 1]
      /\ wkts' = Remember(wkts, PointKey(c), t)
      /\ returned' = Append(returned, [data |-> store.data, point |-> p, at |-> t])
      /\ UNCHANGED <<geoms, indices>>
    BY <1>1 DEF NextPoint
<1>3. /\ DOMAIN store = Fields /\ r \in Request /\ Len(store.rows) \in Nat /\ store.at \in Nat
      /\ store.rows = GridRows[r.grid] /\ store.next \in 1..Len(store.rows) + 1
      /\ store.call = "float" /\ Len(store.points) \in Nat
    BY <1>1, <1>2 DEF ReadInv, IInv, Shape, GridsRead
<1>4. /\ store'.mode = "grid" /\ store'.call = store.call /\ store'.request = r
      /\ store'.rows = store.rows /\ store'.next = store.next /\ store'.at = store.at + 1
      /\ store'.points = store.points /\ store'.key = store.key
      /\ store'.opened = store.opened /\ store'.data = store.data
    BY <1>1, <1>2, <1>3 DEF Fields
<1>5. /\ c = [lon |-> c.lon, lat |-> c.lat]
      /\ \A s \in Specs : Key(s) = store.key => c = Where[<<s, p>>]
    BY <1>1, <1>2, PointIsRight
<1>6. t = Text(c)
    <2>1. CASE PointKey(c) \in DOMAIN wkts
        <3>1. PICK k : k = PointKey(c)
            OBVIOUS
        <3>2. wkts[k] = Text([lon |-> k[1], lat |-> k[2]])
            BY <2>1, <3>1 DEF ReadInv, CachesAreRight
        <3>3. k[1] = c.lon /\ k[2] = c.lat
            BY <3>1 DEF PointKey
        <3>4. [lon |-> k[1], lat |-> k[2]] = c
            BY <1>5, <3>3
        <3> QED BY <1>1, <2>1, <3>1, <3>2, <3>4 DEF Cached
    <2>2. CASE PointKey(c) \notin DOMAIN wkts
        BY <1>1, <2>2 DEF Cached
    <2> QED BY <2>1, <2>2
<1>7. ASSUME NEW k \in DOMAIN wkts' PROVE wkts'[k] = Text([lon |-> k[1], lat |-> k[2]])
    <2>1. CASE k = PointKey(c)
        <3>1. k[1] = c.lon /\ k[2] = c.lat
            BY <2>1 DEF PointKey
        <3>2. [lon |-> k[1], lat |-> k[2]] = c
            BY <1>5, <3>1
        <3> QED BY <1>2, <1>6, <2>1, <3>2 DEF Remember
    <2>2. CASE k # PointKey(c)
        <3>1. k \in DOMAIN wkts /\ wkts'[k] = wkts[k]
            BY <1>2, <1>7, <2>2 DEF Remember
        <3> QED BY <3>1 DEF ReadInv, CachesAreRight
    <2> QED BY <2>1, <2>2
<1>8. CachesAreRight'
    BY <1>2, <1>7 DEF ReadInv, CachesAreRight
<1>9. ASSUME Specified(r) PROVE store.opened /\ ListIsRight'
    <2>1. store.opened
        <3>1. store.at <= Len(store.points)
            BY <1>2, <1>3 DEF AtEnd
        <3>2. ~(store.points = <<>> /\ store.at = 1)
            BY <3>1
        <3> QED BY <1>1, <1>2, <1>9, <3>2 DEF ReadInv, GridsRead
    <2>2. ListIsRight
        BY <1>1, <1>2, <1>9, <2>1 DEF ReadInv, GridsRead
    <2>3. PICK n, row, s, l, list, i : /\ n = store.next - 1 /\ row = store.rows[n]
                                       /\ s = SpecOf[row.place] /\ l = r.location
                                       /\ list = PointRows(row, l) /\ i = store.at
        OBVIOUS
    <2>4. /\ store.next > 1 /\ i \in 1..Len(store.points) + 1
          /\ l \in Points \cup Polygons \cup {NoLocation}
          /\ store.key = Key(s) /\ store.points = HitsOf(s, l) /\ store.data = row.data
          /\ returned = FloatRows[r.float] \o First(Lists(r), store.next - 2)
                            \o SubSeq(list, 1, i - 1)
        BY <1>1, <2>2, <2>3 DEF ListIsRight
    <2>5. n \in 1..Len(GridRows[r.grid]) /\ row = GridRows[r.grid][n] /\ store.next - 2 = n - 1
          /\ n - 1 \in 0..Len(GridRows[r.grid])
        <3>1. PICK N : N = Len(GridRows[r.grid]) /\ N = Len(store.rows)
            BY <1>3
        <3>2. N \in Nat /\ n = store.next - 1 /\ store.next \in 1..N + 1 /\ store.next > 1
            BY <1>3, <2>3, <2>4, <3>1
        <3>3. n \in 1..N /\ store.next - 2 = n - 1 /\ n - 1 \in 0..N
            BY <3>2
        <3> QED BY <1>3, <2>3, <3>1, <3>3
    <2>6. s \in Specs /\ list = RowsAt(row, s, store.points) /\ Len(list) = Len(store.points)
        <3>1. LET row1 == GridRows[r.grid][n]
                  s1 == SpecOf[row1.place]
                  hits == HitsOf(s1, r.location)
                  list1 == PointRows(row1, r.location) IN
              s1 \in Specs /\ list1 = RowsAt(row1, s1, hits) /\ Len(list1) = Len(hits)
            BY <1>3, <1>9, <2>3, <2>4, <2>5, SpecifiedHits
        <3> QED BY <2>3, <2>4, <2>5, <3>1
    <2>7. i \in 1..Len(list) /\ i \in Nat
        <3>1. PICK m : m = Len(store.points)
            OBVIOUS
        <3>2. m \in Nat /\ i \in 1..m + 1 /\ ~(i > m)
            BY <1>2, <1>3, <2>3, <2>4, <3>1 DEF AtEnd
        <3>3. i \in 1..m /\ i \in Nat
            BY <3>2
        <3> QED BY <2>6, <3>1, <3>3
    <2>8. list[i] = [data |-> store.data, point |-> p, at |-> t]
        <3>1. c = Where[<<s, p>>]
            BY <1>5, <2>4, <2>6
        <3>2. PICK hits : hits = store.points
            OBVIOUS
        <3>3. list = RowsAt(row, s, hits) /\ i \in 1..Len(hits)
            BY <2>6, <2>7, <3>2
        <3>4. list[i] = [data |-> row.data, point |-> hits[i],
                         at |-> Text(Where[<<s, hits[i]>>])]
            BY <3>3 DEF RowsAt
        <3>5. hits[i] = p /\ row.data = store.data
            BY <1>1, <2>3, <2>4, <3>2
        <3> QED BY <1>6, <3>1, <3>4, <3>5
    <2>9. PICK S : /\ FloatRows[r.float] \in Seq(S) /\ list \in Seq(S)
                   /\ First(Lists(r), n - 1) \in Seq(S)
        BY <1>3, <1>9, <2>3, <2>4, <2>5, AnswerGrows
    <2>10. PICK f : f = FloatRows[r.float] \o First(Lists(r), n - 1) /\ f \in Seq(S)
        BY <2>9, ConcatProperties
    <2>11. returned' = f \o SubSeq(list, 1, i)
        <3>1. SubSeq(list, 1, i - 1) \in Seq(S) /\ list[i] \in S
            BY <2>7, <2>9, ElementOfSeq, SubSeqProperties
        <3>2. returned' = Append(f \o SubSeq(list, 1, i - 1), list[i])
            BY <1>2, <2>4, <2>5, <2>8, <2>10
        <3>3. Append(f \o SubSeq(list, 1, i - 1), list[i])
                  = f \o Append(SubSeq(list, 1, i - 1), list[i])
            <4>1. PICK u, x : u = SubSeq(list, 1, i - 1) /\ x = list[i]
                OBVIOUS
            <4>2. f \in Seq(S) /\ u \in Seq(S) /\ x \in S
                BY <2>10, <3>1, <4>1
            <4>3. PICK g, y : g = f \o u /\ y = <<x>>
                OBVIOUS
            <4>4. g \in Seq(S) /\ y \in Seq(S)
                BY <4>2, <4>3, ConcatProperties
            <4>5. Append(g, x) = g \o y
                BY <4>2, <4>3, <4>4, AppendIsConcat
            <4>6. Append(u, x) = u \o y
                BY <4>2, <4>3, AppendIsConcat
            <4>7. (f \o u) \o y = f \o (u \o y)
                BY <4>2, <4>4, ConcatAssociative, SMTT(15)
            <4>8. Append(f \o u, x) = f \o Append(u, x)
                BY <4>3, <4>5, <4>6, <4>7
            <4> QED BY <4>1, <4>8
        <3>4. Append(SubSeq(list, 1, i - 1), list[i]) = SubSeq(list, 1, i)
            BY <2>7, <2>9, SubSeqGrows
        <3> QED BY <3>2, <3>3, <3>4
    <2>12. store'.at - 1 = i /\ store'.at \in 1..Len(store'.points) + 1
        <3>1. PICK m, a : m = Len(list) /\ a = store'.at
            OBVIOUS
        <3>2. m = Len(store'.points) /\ m \in Nat
            BY <1>3, <1>4, <2>6, <3>1
        <3>3. a = i + 1 /\ i \in 1..m /\ i \in Nat
            BY <1>4, <2>3, <2>7, <3>1
        <3>4. a - 1 = i /\ a \in 1..m + 1
            BY <3>2, <3>3
        <3> QED BY <3>1, <3>2, <3>4
    <2>13. /\ store'.next > 1 /\ row = store'.rows[store'.next - 1]
           /\ store'.next - 2 = n - 1
        BY <1>4, <2>3, <2>4, <2>5
    <2>14. returned' = FloatRows[r.float] \o First(Lists(r), store'.next - 2)
                           \o SubSeq(list, 1, store'.at - 1)
        BY <2>10, <2>11, <2>12, <2>13
    <2>15. ListIsRight'
        BY <1>4, <2>3, <2>4, <2>12, <2>13, <2>14 DEF ListIsRight
    <2> QED BY <2>1, <2>15
<1>10. GridsRead'
    BY <1>3, <1>4, <1>9 DEF GridsRead
<1> QED BY <1>4, <1>8, <1>10 DEF ReadInv, FloatsAreRight, ReadIsComplete

\* The next row of a sequence that is returned as it is.
LEMMA RowIsNext ==
    ASSUME NEW s, s \in Seq(ToSet(s)), NEW n \in 1..Len(s) + 1
    PROVE  /\ n <= Len(s) => Append(SubSeq(s, 1, n - 1), s[n]) = SubSeq(s, 1, n)
           /\ ~(n <= Len(s)) => SubSeq(s, 1, n - 1) = s
<1>1. PICK S : S = ToSet(s) /\ s \in Seq(S)
    OBVIOUS
<1>2. PICK N : N = Len(s) /\ N \in Nat
    BY <1>1, LenProperties
<1>3. ASSUME n <= Len(s) PROVE Append(SubSeq(s, 1, n - 1), s[n]) = SubSeq(s, 1, n)
    <2>1. n \in 1..Len(s)
        BY <1>2, <1>3
    <2> QED BY <1>1, <2>1, SubSeqGrows
<1>4. ASSUME ~(n <= Len(s)) PROVE SubSeq(s, 1, n - 1) = s
    <2>1. n - 1 = Len(s)
        BY <1>2, <1>4
    <2> QED BY <1>1, <2>1, SubSeqFull
<1> QED BY <1>3, <1>4

\* A new read: nothing has been returned.
LEMMA OpenedReads ==
    ASSUME IInv', CachesAreRight', NEW mode \in {"float", "gid"}, NEW r, NEW rows,
           store' = Opened(mode, mode, r, rows), returned' = <<>>,
           rows = IF mode = "float" THEN FloatRows[r.float] ELSE GridRows[r.gid]
    PROVE  ReadInv'
<1>1. /\ store'.mode = mode /\ store'.call = mode /\ store'.request = r /\ store'.rows = rows
      /\ store'.next = 1
    BY DEF Opened
<1>2. SubSeq(rows, 1, 1 - 1) = <<>>
    BY SubSeqEmpty
<1> QED BY <1>1, <1>2 DEF ReadInv, FloatsAreRight, GridsRead, ReadIsComplete

LEMMA ReadSteps ==
    ASSUME ConstantsAreRight, GridsAreRight, ReadInv, [Next]_vars PROVE ReadInv'
<1>0. IInv'
    BY Steps DEF ReadInv
<1>1. store.mode # "closed" =>
          /\ DOMAIN store = Fields /\ store.request \in Request /\ Len(store.rows) \in Nat
          /\ store.at \in Nat /\ store.next \in 1..Len(store.rows) + 1
    BY DEF ReadInv, IInv, Shape
<1>3. ASSUME UNCHANGED <<geoms, indices, wkts>> \/ Forget PROVE CachesAreRight'
    <2>1. CASE UNCHANGED <<geoms, indices, wkts>>
        BY <2>1 DEF ReadInv, CachesAreRight
    <2>2. CASE Forget
        <3>1. DOMAIN geoms' = {} /\ DOMAIN indices' = {} /\ DOMAIN wkts' = {}
            BY <2>2 DEF Forget
        <3> QED BY <3>1 DEF CachesAreRight
    <2> QED BY <1>3, <2>1, <2>2
<1>4. CASE NextFloat
    <2>1. /\ store.mode = "float" /\ CachesAreRight'
        BY <1>3, <1>4 DEF NextFloat, caches, geometryCaches
    <2>2. PICK r, rows : r = store.request /\ rows = FloatRows[r.float]
        OBVIOUS
    <2>3. /\ r \in Request /\ store.call = "float" /\ store.rows = rows
          /\ returned = SubSeq(rows, 1, store.next - 1)
          /\ rows \in Seq(ToSet(rows))
        BY <1>1, <2>1, <2>2 DEF ReadInv, FloatsAreRight, GridsAreRight
    <2>4. CASE store.next <= Len(store.rows)
        <3>1. /\ returned' = Append(returned, rows[store.next])
              /\ store' = [store EXCEPT !.next = @ + 1]
            BY <1>4, <2>3, <2>4 DEF NextFloat
        <3>2. /\ store'.mode = "float" /\ store'.call = "float" /\ store'.request = r
              /\ store'.rows = rows /\ store'.next = store.next + 1
            BY <1>1, <2>1, <2>2, <2>3, <3>1 DEF Fields
        <3>3. store.next + 1 - 1 = store.next
            BY <1>1, <2>1
        <3>4. returned' = SubSeq(rows, 1, store'.next - 1)
            <4>1. PICK n : n = store.next /\ n \in 1..Len(rows) + 1 /\ n <= Len(rows)
                BY <1>1, <2>1, <2>3, <2>4
            <4>2. Append(SubSeq(rows, 1, n - 1), rows[n]) = SubSeq(rows, 1, n)
                BY <2>3, <4>1, RowIsNext
            <4> QED BY <2>3, <3>1, <3>2, <3>3, <4>1, <4>2
        <3> QED BY <1>0, <2>1, <2>2, <3>2, <3>4
                DEF ReadInv, FloatsAreRight, GridsRead, ReadIsComplete
    <2>5. CASE ~(store.next <= Len(store.rows))
        <3>1. returned' = returned /\ store' = Opened("grid", "float", r, GridRows[r.grid])
            BY <1>4, <2>2, <2>5 DEF NextFloat, SwitchTo
        <3>2. /\ store'.mode = "grid" /\ store'.call = "float" /\ store'.request = r
              /\ store'.next = 1 /\ store'.opened = FALSE /\ store'.points = <<>> /\ store'.at = 1
            BY <3>1 DEF Opened
        <3>3. returned = rows
            BY <1>1, <2>1, <2>3, <2>5, RowIsNext
        <3>4. Len(store'.points) \in Nat
            BY <3>2
        <3> QED BY <1>0, <2>1, <2>2, <3>1, <3>2, <3>3, <3>4
                DEF ReadInv, FloatsAreRight, GridsRead, ReadIsComplete
    <2> QED BY <2>4, <2>5
<1>5. CASE EndGrids
    <2>1. /\ store.mode = "grid" /\ store' = [store EXCEPT !.mode = "done"] /\ CachesAreRight'
        BY <1>3, <1>5 DEF EndGrids, caches, geometryCaches
    <2>2. store'.mode = "done"
        BY <1>1, <2>1 DEF Fields
    <2>3. ReadIsComplete'
        BY <1>5, EndGridsKeeps
    <2> QED BY <1>0, <2>1, <2>2, <2>3 DEF ReadInv, FloatsAreRight, GridsRead
<1>6. CASE OpenBareGrid
    <2>1. PICK mode \in {"done", "crashed"} : store' = [store EXCEPT !.mode = mode]
        BY <1>6 DEF OpenBareGrid
    <2>2. /\ store.mode = "grid" /\ store.next <= Len(store.rows) /\ CachesAreRight'
          /\ SpecOf[store.rows[store.next].place] = NoSpec
        BY <1>3, <1>6 DEF OpenBareGrid, NeedsGrid, caches, geometryCaches
    <2>3. store'.mode = mode /\ store'.call = store.call /\ store'.request = store.request
        BY <1>1, <2>1, <2>2 DEF Fields
    <2>4. store.call = "float" /\ store.rows = GridRows[store.request.grid]
        BY <2>2 DEF ReadInv, IInv, Shape, GridsRead
    <2>5. ~Specified(store.request)
        BY <1>1, <2>2, <2>4 DEF Specified
    <2> QED BY <1>0, <2>2, <2>3, <2>4, <2>5 DEF ReadInv, FloatsAreRight, GridsRead, ReadIsComplete
<1>7. CASE OpenGrid
    BY <1>7, OpenGridReads
<1>8. CASE NextPoint
    BY <1>0, <1>8, NextPointReads
<1>9. CASE NextGid
    <2>1. /\ store.mode = "gid" /\ CachesAreRight'
        BY <1>3, <1>9 DEF NextGid, caches, geometryCaches
    <2>2. PICK r, rows : r = store.request /\ rows = GridRows[r.gid]
        OBVIOUS
    <2>3. /\ r \in Request /\ store.call = "gid" /\ store.rows = rows
          /\ returned = SubSeq(rows, 1, store.next - 1)
          /\ rows \in Seq(ToSet(rows))
        BY <1>1, <2>1, <2>2 DEF ReadInv, FloatsAreRight, GridsAreRight
    <2>4. CASE store.next <= Len(store.rows)
        <3>1. /\ returned' = Append(returned, rows[store.next])
              /\ store' = [store EXCEPT !.next = @ + 1]
            BY <1>9, <2>3, <2>4 DEF NextGid
        <3>2. /\ store'.mode = "gid" /\ store'.call = "gid" /\ store'.request = r
              /\ store'.rows = rows /\ store'.next = store.next + 1
            BY <1>1, <2>1, <2>2, <2>3, <3>1 DEF Fields
        <3>3. store.next + 1 - 1 = store.next
            BY <1>1, <2>1
        <3>4. returned' = SubSeq(rows, 1, store'.next - 1)
            <4>1. PICK n : n = store.next /\ n \in 1..Len(rows) + 1 /\ n <= Len(rows)
                BY <1>1, <2>1, <2>3, <2>4
            <4>2. Append(SubSeq(rows, 1, n - 1), rows[n]) = SubSeq(rows, 1, n)
                BY <2>3, <4>1, RowIsNext
            <4> QED BY <2>3, <3>1, <3>2, <3>3, <4>1, <4>2
        <3> QED BY <1>0, <2>1, <2>2, <3>2, <3>4
                DEF ReadInv, FloatsAreRight, GridsRead, ReadIsComplete
    <2>5. CASE ~(store.next <= Len(store.rows))
        <3>1. returned' = returned /\ store' = [store EXCEPT !.mode = "done"]
            BY <1>9, <2>5 DEF NextGid
        <3>2. /\ store'.mode = "done" /\ store'.call = "gid" /\ store'.request = r
            BY <1>1, <2>1, <2>2, <2>3, <3>1 DEF Fields
        <3>3. returned = rows
            BY <1>1, <2>1, <2>3, <2>5, RowIsNext
        <3> QED BY <1>0, <2>1, <2>2, <3>1, <3>2, <3>3
                DEF ReadInv, FloatsAreRight, GridsRead, ReadIsComplete
    <2> QED BY <2>4, <2>5
<1>10. ASSUME NEW r \in Request, Start(r) PROVE ReadInv'
    <2>1. /\ store' = Opened("float", "float", r, FloatRows[r.float]) /\ returned' = <<>>
          /\ CachesAreRight'
        BY <1>3, <1>10 DEF Start
    <2> QED BY <1>0, <2>1, OpenedReads
<1>11. ASSUME NEW r \in Request, StartGid(r) PROVE ReadInv'
    <2>1. /\ store' = Opened("gid", "gid", r, GridRows[r.gid]) /\ returned' = <<>>
          /\ CachesAreRight'
        BY <1>3, <1>11 DEF StartGid, caches, geometryCaches
    <2> QED BY <1>0, <2>1, OpenedReads
<1>12. CASE CachePurge \/ Reconnect
    <2>1. store' = Closed /\ CachesAreRight'
        BY <1>3, <1>12 DEF CachePurge, Reconnect
    <2>2. store'.mode = "closed"
        BY <2>1 DEF Closed
    <2> QED BY <1>0, <2>1, <2>2 DEF ReadInv, FloatsAreRight, GridsRead, ReadIsComplete
<1>13. CASE UNCHANGED vars
    BY <1>0, <1>3, <1>13 DEF vars, caches, geometryCaches, ReadInv, FloatsAreRight, GridsRead,
                             ListIsRight, ReadIsComplete
<1> QED BY <1>4, <1>5, <1>6, <1>7, <1>8, <1>9, <1>10, <1>11, <1>12, <1>13 DEF Next, Step

\* Whatever was read before, by whatever requests, and whatever the caches hold,
\* a read that ends has returned every row in order, each point with the data and
\* the coordinates of its own grid (getData.c, BaseDataReader.cpp, readCache.h):
\* because numbers and projection are all that the answers of a grid depend on,
\* and all that the caches compare.
THEOREM ReadIsCompleteCorrect ==
    ASSUME ConstantsAreRight, GridsAreRight PROVE Spec => []ReadIsComplete
<1>1. Init => ReadInv
    <2> SUFFICES ASSUME Init PROVE ReadInv
        OBVIOUS
    <2>1. IInv
        BY ReadConstants, FS_EmptySet DEF Init, Closed, IInv, Modes, Shape, CachesAreTyped,
           PlansAreSome, PlansAreBounded, NoDanglingPoint
    <2> QED BY <2>1 DEF Init, Closed, ReadInv, CachesAreRight, FloatsAreRight, GridsRead,
                        ReadIsComplete
<1>2. ReadInv => ReadIsComplete
    BY DEF ReadInv
<1> QED BY <1>1, <1>2, ReadSteps, PTL DEF Spec
=============================================================================
