--------------------------- MODULE GeometryProofs ---------------------------
(***************************************************************************)
(* Theorems about what an extraction shares: the geometries that wrappers  *)
(* hold (GeomWrapper), for any number of wrappers and objects, the cached  *)
(* projections (Projection), for all definitions and sizes, and about what *)
(* it computes: outlines (GridGeometry) and the points that a location or  *)
(* a polygon selects (PointReader), for all grids.                         *)
(***************************************************************************)
EXTENDS GeomWrapper, Projection, GridGeometry, PointReader, FiniteSetTheorems,
        WellFoundedInduction, TLAPS

-----------------------------------------------------------------------------
(* Wrappers *)

\* The inductive invariant: what there is can be counted, and is counted.
Counted ==
    /\ held = [w \in DOMAIN held |-> held[w]] /\ DOMAIN held \subseteq Wrapper
    /\ useCount \in [DOMAIN useCount -> Nat]
GInv == Counted /\ GeometriesAreHeld

\* The holders of an object can be counted, and each of them counts.
LEMMA HoldersAreFinite ==
    ASSUME IsFiniteSet(Wrapper), Counted, NEW o
    PROVE  /\ IsFiniteSet(Holders(o)) /\ Cardinality(Holders(o)) \in Nat
           /\ Holders(o) # {} => Cardinality(Holders(o)) > 0
<1>1. Holders(o) \in SUBSET Wrapper
    BY DEF Holders, Counted
<1>2. IsFiniteSet(Holders(o)) /\ Cardinality(Holders(o)) \in Nat
    BY <1>1, FS_Subset, FS_CardinalityType
<1>3. Holders(o) # {} => Cardinality(Holders(o)) # 0
    BY <1>2, FS_EmptySet
<1> QED BY <1>2, <1>3

\* An object with one user is held by the wrapper that is seen to hold it, and
\* by no other (GEOSGeomWrapper.cpp:96-100).
LEMMA LastHolder ==
    ASSUME IsFiniteSet(Wrapper), GInv, NEW w \in DOMAIN held, useCount[held[w]] = 1
    PROVE  Holders(held[w]) = {w}
<1>1. held[w] \in DOMAIN useCount /\ Cardinality(Holders(held[w])) = 1
    BY DEF GInv, GeometriesAreHeld
<1>2. PICK x : Holders(held[w]) = {x}
    BY <1>1, HoldersAreFinite, FS_Singleton DEF GInv
<1>3. w \in Holders(held[w])
    BY DEF Holders
<1> QED BY <1>2, <1>3

LEMMA ConstructKeeps ==
    ASSUME IsFiniteSet(Wrapper), GInv, NEW w, NEW o, Construct(w, o)
    PROVE  GInv'
<1>1. /\ DOMAIN held' = DOMAIN held \cup {w} /\ w \notin DOMAIN held
      /\ \A x \in DOMAIN held' : held'[x] = IF x = w THEN o ELSE held[x]
      /\ DOMAIN useCount' = DOMAIN useCount \cup {o} /\ o \notin DOMAIN useCount
      /\ \A x \in DOMAIN useCount' : useCount'[x] = IF x = o THEN 1 ELSE useCount[x]
    BY DEF Construct
<1>2. Counted'
    BY DEF Construct, GInv, Counted
<1>3. \A x \in DOMAIN held : held[x] # o
    BY <1>1 DEF GInv, GeometriesAreHeld
<1>4. Holders(o)' = {w}
    BY <1>1, <1>3 DEF Holders
<1>5. \A x \in DOMAIN useCount : Holders(x)' = Holders(x)
    BY <1>1 DEF Holders
<1>6. Cardinality({w}) = 1
    BY FS_Singleton
<1>7. \A x \in DOMAIN useCount' : useCount'[x] = Cardinality(Holders(x)') /\ useCount'[x] > 0
    BY <1>1, <1>4, <1>5, <1>6 DEF GInv, GeometriesAreHeld
<1>8. \A x \in DOMAIN held' : held'[x] \in DOMAIN useCount'
    BY <1>1 DEF GInv, GeometriesAreHeld
<1> QED BY <1>2, <1>7, <1>8 DEF GInv, GeometriesAreHeld

LEMMA CopyKeeps ==
    ASSUME IsFiniteSet(Wrapper), GInv, NEW w, NEW other, CopyConstruct(w, other)
    PROVE  GInv'
<1>0. PICK o : o = held[other]
    OBVIOUS
<1>1. /\ DOMAIN held' = DOMAIN held \cup {w} /\ w \notin DOMAIN held /\ other \in DOMAIN held
      /\ \A x \in DOMAIN held' : held'[x] = IF x = w THEN o ELSE held[x]
    BY <1>0 DEF CopyConstruct
<1>2. o \in DOMAIN useCount /\ useCount \in [DOMAIN useCount -> Nat]
    BY <1>0, <1>1 DEF GInv, GeometriesAreHeld, Counted
<1>3. useCount' = [useCount EXCEPT ![o] = @ + 1]
    BY <1>0 DEF CopyConstruct
<1>4. Counted'
    BY <1>2, <1>3 DEF CopyConstruct, GInv, Counted
<1>5. Holders(o)' = Holders(o) \cup {w} /\ w \notin Holders(o)
    BY <1>1 DEF Holders
<1>6. \A x \in DOMAIN useCount : x # o => Holders(x)' = Holders(x)
    BY <1>1 DEF Holders
<1>7. Cardinality(Holders(o) \cup {w}) = Cardinality(Holders(o)) + 1
    BY <1>5, HoldersAreFinite, FS_AddElement DEF GInv
<1>8. \A x \in DOMAIN useCount' : useCount'[x] = Cardinality(Holders(x)') /\ useCount'[x] > 0
    <2>1. /\ DOMAIN useCount' = DOMAIN useCount /\ useCount'[o] = useCount[o] + 1
          /\ \A x \in DOMAIN useCount : x # o => useCount'[x] = useCount[x]
        BY <1>2, <1>3
    <2>2. /\ useCount[o] \in Nat
          /\ \A x \in DOMAIN useCount : useCount[x] = Cardinality(Holders(x)) /\ useCount[x] > 0
        BY <1>2 DEF GInv, GeometriesAreHeld
    <2>3. Cardinality(Holders(o)') = Cardinality(Holders(o)) + 1
        BY <1>5, <1>7
    <2>4. useCount'[o] = Cardinality(Holders(o)') /\ useCount'[o] > 0
        BY <1>2, <2>1, <2>2, <2>3
    <2>5. ASSUME NEW x \in DOMAIN useCount, x # o
          PROVE  useCount'[x] = Cardinality(Holders(x)') /\ useCount'[x] > 0
        BY <1>6, <2>1, <2>2, <2>5
    <2> QED BY <2>1, <2>4, <2>5
<1>9. \A x \in DOMAIN held' : held'[x] \in DOMAIN useCount'
    BY <1>1, <1>2, <1>3 DEF GInv, GeometriesAreHeld
<1> QED BY <1>4, <1>8, <1>9 DEF GInv, GeometriesAreHeld

\* What is left when a wrapper lets go of its object: the counts of the holders
\* that remain, and no count of an object without holder.
LEMMA ReleaseCounts ==
    ASSUME IsFiniteSet(Wrapper), GInv, NEW w \in DOMAIN held, NEW o, o = held[w]
    PROVE  /\ DOMAIN Released(o, useCount) \subseteq DOMAIN useCount
           /\ Released(o, useCount) \in [DOMAIN Released(o, useCount) -> Nat]
           /\ \A x \in DOMAIN Released(o, useCount) :
                 /\ Released(o, useCount)[x] = Cardinality(Holders(x) \ {w})
                 /\ Released(o, useCount)[x] > 0
           /\ \A v \in DOMAIN held \ {w} : held[v] \in DOMAIN Released(o, useCount)
<1>1. /\ useCount \in [DOMAIN useCount -> Nat] /\ o \in DOMAIN useCount
      /\ \A x \in DOMAIN useCount : useCount[x] = Cardinality(Holders(x)) /\ useCount[x] > 0
    BY DEF GInv, Counted, GeometriesAreHeld
<1>2. \A x \in DOMAIN useCount : x # o => Holders(x) \ {w} = Holders(x)
    BY DEF Holders
<1>3. w \in Holders(o)
    BY DEF Holders
<1>4. Cardinality(Holders(o) \ {w}) = useCount[o] - 1
    BY <1>1, <1>3, HoldersAreFinite, FS_RemoveElement DEF GInv
<1>5. CASE useCount[o] = 1
    <2>1. Released(o, useCount) = [x \in DOMAIN useCount \ {o} |-> useCount[x]]
        BY <1>5 DEF Released
    <2>2. \A v \in DOMAIN held \ {w} : held[v] # o
        BY <1>5, LastHolder DEF Holders
    <2>3. \A v \in DOMAIN held \ {w} : held[v] \in DOMAIN useCount \ {o}
        BY <2>2 DEF GInv, GeometriesAreHeld
    <2> QED BY <1>1, <1>2, <2>1, <2>3
<1>6. CASE useCount[o] # 1
    <2>1. Released(o, useCount) = [useCount EXCEPT ![o] = @ - 1]
        BY <1>6 DEF Released
    <2>2. useCount[o] - 1 > 0 /\ useCount[o] - 1 \in Nat
        BY <1>1, <1>6
    <2>3. \A v \in DOMAIN held : held[v] \in DOMAIN useCount
        BY DEF GInv, GeometriesAreHeld
    <2> QED BY <1>1, <1>2, <1>4, <2>1, <2>2, <2>3
<1> QED BY <1>5, <1>6

LEMMA DestroyKeeps ==
    ASSUME IsFiniteSet(Wrapper), GInv, NEW w, Destroy(w)
    PROVE  GInv'
<1>0. PICK o : o = held[w]
    OBVIOUS
<1>1. /\ w \in DOMAIN held /\ DOMAIN held' = DOMAIN held \ {w}
      /\ \A x \in DOMAIN held' : held'[x] = held[x]
    BY DEF Destroy
<1>2. useCount' = Released(o, useCount)
    BY <1>0 DEF Destroy
<1>3. Counted'
    BY <1>0, <1>1, <1>2, ReleaseCounts DEF Destroy, GInv, Counted
<1>4. \A x : Holders(x)' = Holders(x) \ {w}
    BY <1>1 DEF Holders
<1>5. \A x \in DOMAIN useCount' : useCount'[x] = Cardinality(Holders(x)') /\ useCount'[x] > 0
    BY <1>0, <1>1, <1>2, <1>4, ReleaseCounts
<1>6. \A x \in DOMAIN held' : held'[x] \in DOMAIN useCount'
    BY <1>0, <1>1, <1>2, ReleaseCounts
<1> QED BY <1>3, <1>5, <1>6 DEF GInv, GeometriesAreHeld

\* operator =: what is assigned has a holder of its own, so letting go of the
\* old object first does not delete the new one (GEOSGeomWrapper.cpp:79-87).
LEMMA AssignKeeps ==
    ASSUME IsFiniteSet(Wrapper), GInv, NEW w, NEW other, AssignFrom(w, other)
    PROVE  GInv'
<1>0. PICK o, n : o = held[w] /\ n = held[other]
    OBVIOUS
<1>1. /\ w \in DOMAIN held /\ other \in DOMAIN held \ {w} /\ DOMAIN held' = DOMAIN held
      /\ \A x \in DOMAIN held : held'[x] = IF x = w THEN n ELSE held[x]
    BY <1>0 DEF AssignFrom
<1>2. PICK left : left = Released(o, useCount)
    OBVIOUS
<1>3. /\ left \in [DOMAIN left -> Nat]
      /\ \A x \in DOMAIN left : left[x] = Cardinality(Holders(x) \ {w}) /\ left[x] > 0
      /\ \A v \in DOMAIN held \ {w} : held[v] \in DOMAIN left
    BY <1>0, <1>1, <1>2, ReleaseCounts
<1>4. n \in DOMAIN left
    BY <1>0, <1>1, <1>3
<1>5. useCount' = [left EXCEPT ![n] = @ + 1]
    BY <1>0, <1>2 DEF AssignFrom
<1>6. Counted'
    <2>1. useCount' \in [DOMAIN left -> Nat] /\ DOMAIN useCount' = DOMAIN left
        BY <1>3, <1>4, <1>5
    <2>2. held' = [held EXCEPT ![w] = n] /\ DOMAIN held \subseteq Wrapper
        BY <1>0 DEF AssignFrom, GInv, Counted
    <2> QED BY <2>1, <2>2 DEF Counted
<1>7. \A x : x # n => Holders(x)' = Holders(x) \ {w}
    BY <1>1 DEF Holders
<1>8. Holders(n)' = (Holders(n) \ {w}) \cup {w}
    BY <1>1 DEF Holders
<1>9. Cardinality(Holders(n)') = Cardinality(Holders(n) \ {w}) + 1
    <2>1. IsFiniteSet(Holders(n) \ {w})
        BY HoldersAreFinite, FS_RemoveElement DEF GInv
    <2> QED BY <1>8, <2>1, FS_AddElement
<1>10. \A x \in DOMAIN useCount' : useCount'[x] = Cardinality(Holders(x)') /\ useCount'[x] > 0
    <2>1. ASSUME NEW x \in DOMAIN useCount', x # n
          PROVE  useCount'[x] = Cardinality(Holders(x)') /\ useCount'[x] > 0
        BY <1>3, <1>5, <1>7, <2>1
    <2>2. useCount'[n] = left[n] + 1 /\ left[n] \in Nat
        BY <1>3, <1>4, <1>5
    <2>3. useCount'[n] = Cardinality(Holders(n)') /\ useCount'[n] > 0
        BY <1>3, <1>4, <1>9, <2>2
    <2> QED BY <2>1, <2>3
<1>11. \A x \in DOMAIN held' : held'[x] \in DOMAIN useCount'
    BY <1>1, <1>3, <1>4, <1>5
<1> QED BY <1>6, <1>10, <1>11 DEF GInv, GeometriesAreHeld

\* No wrapper holds a geometry that has been destroyed, and every geometry is
\* destroyed with its last wrapper, in whatever order wrappers are made, copied,
\* assigned and destroyed (GEOSGeomWrapper.cpp:50-100).
THEOREM GeometriesAreHeldCorrect ==
    ASSUME IsFiniteSet(Wrapper) PROVE GeomSpec => []GeometriesAreHeld
<1>1. GeomInit => GInv
    BY DEF GeomInit, GInv, Counted, GeometriesAreHeld
<1>2. GInv /\ [GeomNext]_geomVars => GInv'
    <2> SUFFICES ASSUME GInv, [GeomNext]_geomVars PROVE GInv'
        OBVIOUS
    <2>1. ASSUME NEW w \in Wrapper, NEW o \in Object, Construct(w, o) PROVE GInv'
        BY <2>1, ConstructKeeps
    <2>2. ASSUME NEW w \in Wrapper, NEW other \in Wrapper, CopyConstruct(w, other) PROVE GInv'
        BY <2>2, CopyKeeps
    <2>3. ASSUME NEW w \in Wrapper, NEW other \in Wrapper, AssignFrom(w, other) PROVE GInv'
        BY <2>3, AssignKeeps
    <2>4. ASSUME NEW w \in Wrapper, Destroy(w) PROVE GInv'
        BY <2>4, DestroyKeeps
    <2>5. CASE UNCHANGED geomVars
        BY <2>5 DEF geomVars, GInv, Counted, GeometriesAreHeld, Holders
    <2> QED BY <2>1, <2>2, <2>3, <2>4, <2>5 DEF GeomNext
<1>3. GInv => GeometriesAreHeld
    BY DEF GInv
<1> QED BY <1>1, <1>2, <1>3, PTL DEF GeomSpec

-----------------------------------------------------------------------------
(* Projections *)

\* The inductive invariant: the cache is small, what it or a pointer refers to
\* exists, and a transformation holds what it has asked for, one projection after
\* the other.
Pointers == {from, to} \ {NoPointer}
Exist == cache \cup Pointers \subseteq DOMAIN live
Held ==
    /\ from # NoPointer => wanted # <<>> /\ live[from] = Source
    /\ to # NoPointer => from # NoPointer /\ live[to] = Target
Small ==
    /\ IsFiniteSet(cache)
    /\ Cardinality(cache) \in Nat
    /\ Cardinality(cache) <= MaxProjections + 1
PInv == ProjectionTypeOK /\ Exist /\ Held /\ Small

\* What the constants are: the earth is a valid definition, and no address is the
\* empty pointer.
ConstantsAreRight ==
    /\ Earth \in Valid
    /\ MaxProjections \in Nat
    /\ NoPointer \notin Address

\* Emptied or not, there is room for one more (WdbProjection.cpp:143-160).
LEMMA ClearedIsSmall ==
    ASSUME ConstantsAreRight, Small
    PROVE  /\ Cleared \subseteq cache /\ IsFiniteSet(Cleared)
           /\ Cardinality(Cleared) \in Nat /\ Cardinality(Cleared) <= MaxProjections
<1>1. IsFiniteSet({}) /\ Cardinality({}) = 0
    BY FS_EmptySet
<1> QED BY <1>1 DEF Cleared, Small, ConstantsAreRight

\* getWdbProjection returns a projection as it was asked for, and leaves those that
\* pointers refer to alone.
LEMMA GetKeeps ==
    ASSUME ConstantsAreRight, PInv, NEW d, NEW p \in Address, GetProjection(d, p)
    PROVE  /\ Small' /\ cache' \cup Pointers \cup {p} \subseteq DOMAIN live'
           /\ DOMAIN live' \subseteq Address /\ live' \in [DOMAIN live' -> Valid]
           /\ live'[p] = d
           /\ \A q \in Pointers : live'[q] = live[q]
<1>1. CASE p \in InMap(d) /\ UNCHANGED <<live, cache>>
    BY <1>1 DEF InMap, PInv, Small, Exist, ProjectionTypeOK
<1>2. CASE /\ d \in Valid
           /\ p \in Address \ Owned(Cleared, {from, to})
           /\ cache' = Cleared \cup {p}
           /\ live' = [q \in Owned(Cleared, {from, to}) \cup {p} |-> IF q = p THEN d ELSE live[q]]
    <2>1. /\ Cleared \subseteq cache /\ IsFiniteSet(Cleared)
          /\ Cardinality(Cleared) \in Nat /\ Cardinality(Cleared) <= MaxProjections
        BY ClearedIsSmall DEF PInv
    <2>2. Owned(Cleared, {from, to}) = Cleared \cup Pointers
        BY DEF Owned, Pointers
    <2>3. Cleared \cup Pointers \subseteq DOMAIN live
        BY <2>1 DEF PInv, Exist
    <2>4. Small'
        <3>1. p \notin Cleared
            BY <1>2, <2>2
        <3>2. IsFiniteSet(cache') /\ Cardinality(cache') = Cardinality(Cleared) + 1
            BY <1>2, <2>1, <3>1, FS_AddElement
        <3> QED BY <2>1, <3>2 DEF Small, ConstantsAreRight
    <2>5. DOMAIN live' = Cleared \cup Pointers \cup {p}
        BY <1>2, <2>2
    <2>6. \A q \in Cleared \cup Pointers : live'[q] = live[q]
        BY <1>2, <2>2
    <2>7. live'[p] = d
        BY <1>2
    <2>8. \A q \in Cleared \cup Pointers : live[q] \in Valid /\ q \in Address
        BY <2>3 DEF PInv, ProjectionTypeOK
    <2>9. live' \in [DOMAIN live' -> Valid]
        <3>1. \A q \in DOMAIN live' : live'[q] \in Valid
            BY <1>2, <2>5, <2>6, <2>7, <2>8
        <3>2. live' = [q \in DOMAIN live' |-> live'[q]]
            BY <1>2
        <3> QED BY <3>1, <3>2
    <2> QED BY <1>2, <2>4, <2>5, <2>6, <2>7, <2>8, <2>9
<1> QED BY <1>1, <1>2 DEF GetProjection

\* What the cache refers to is left when the pointers are given back.
LEMMA KeptIsRight ==
    ASSUME PInv, NEW c \in SUBSET cache, live' = Kept(c, {})
    PROVE  /\ DOMAIN live' = c /\ c \subseteq Address
           /\ live' \in [DOMAIN live' -> Valid]
<1>1. Owned(c, {}) = c
    BY DEF Owned
<1>2. live' = [p \in c |-> live[p]]
    BY <1>1 DEF Kept
<1>3. \A p \in c : live[p] \in Valid /\ p \in Address
    BY DEF PInv, Exist, ProjectionTypeOK
<1> QED BY <1>2, <1>3

LEMMA FailKeeps ==
    ASSUME ConstantsAreRight, PInv, NEW d, GetFails(d)
    PROVE  PInv'
<1>1. /\ Cleared \subseteq cache /\ IsFiniteSet(Cleared)
      /\ Cardinality(Cleared) \in Nat /\ Cardinality(Cleared) <= MaxProjections
    BY ClearedIsSmall DEF PInv
<1>2. /\ cache' = Cleared /\ live' = Kept(Cleared, {}) /\ result' = "error"
      /\ wanted' = <<>> /\ from' = NoPointer /\ to' = NoPointer
    BY DEF GetFails
<1>3. /\ DOMAIN live' = Cleared /\ Cleared \subseteq Address
      /\ live' \in [DOMAIN live' -> Valid]
    BY <1>1, <1>2, KeptIsRight
<1>4. Small'
    BY <1>1, <1>2 DEF Small, ConstantsAreRight
<1>5. ProjectionTypeOK'
    BY <1>2, <1>3 DEF ProjectionTypeOK
<1>6. Exist' /\ Held'
    BY <1>2, <1>3 DEF Exist, Held, Pointers
<1> QED BY <1>4, <1>5, <1>6 DEF PInv

LEMMA InitIsRight ==
    ASSUME ConstantsAreRight, ProjectionInit
    PROVE  PInv
<1>1. IsFiniteSet({}) /\ Cardinality({}) = 0
    BY FS_EmptySet
<1>2. DOMAIN live = {} /\ live \in [DOMAIN live -> Valid]
    BY DEF ProjectionInit
<1> QED
    BY <1>1, <1>2 DEF ProjectionInit, PInv, ProjectionTypeOK, Exist, Held, Pointers, Small, ConstantsAreRight

\* Each step, one after the other.
LEMMA StepIsRight ==
    ASSUME ConstantsAreRight, PInv, [ProjectionNext]_projectionVars
    PROVE  PInv'
<1>1. ASSUME NEW d \in Definition, NEW inverse \in BOOLEAN, Call(d, inverse) PROVE PInv'
    <2>1. ProjectionTypeOK'
        BY <1>1 DEF Call, PInv, ProjectionTypeOK
    <2>2. from = NoPointer /\ to = NoPointer
        BY <1>1 DEF Call, PInv, Held
    <2> QED
        BY <1>1, <2>1, <2>2 DEF Call, PInv, Exist, Pointers, Held, Small
<1>2. ASSUME NEW p \in Address, wanted # <<>>, from = NoPointer, GetProjection(Source, p),
             from' = p, UNCHANGED <<to, wanted, result>>
      PROVE  PInv'
    <2>1. /\ Small' /\ cache' \cup Pointers \cup {p} \subseteq DOMAIN live'
          /\ DOMAIN live' \subseteq Address /\ live' \in [DOMAIN live' -> Valid]
          /\ live'[p] = Source
        BY <1>2, GetKeeps
    <2>2. to = NoPointer /\ Source' = Source
        BY <1>2 DEF PInv, Held, Source
    <2>3. Held'
        BY <1>2, <2>1, <2>2 DEF Held
    <2>4. Exist'
        BY <1>2, <2>1, <2>2 DEF Exist, Pointers
    <2>5. ProjectionTypeOK'
        BY <1>2, <2>1 DEF PInv, ProjectionTypeOK, Exist
    <2> QED BY <2>1, <2>3, <2>4, <2>5 DEF PInv
<1>3. ASSUME NEW p \in Address, from # NoPointer, to = NoPointer, GetProjection(Target, p),
             to' = p, UNCHANGED <<from, wanted, result>>
      PROVE  PInv'
    <2>1. /\ Small' /\ cache' \cup Pointers \cup {p} \subseteq DOMAIN live'
          /\ DOMAIN live' \subseteq Address /\ live' \in [DOMAIN live' -> Valid]
          /\ live'[p] = Target
          /\ \A q \in Pointers : live'[q] = live[q]
        BY <1>3, GetKeeps
    <2>2. Source' = Source /\ Target' = Target
        BY <1>3 DEF Source, Target
    <2>3. live'[from] = Source
        BY <1>3, <2>1 DEF PInv, Held, Pointers
    <2>4. Held'
        BY <1>3, <2>1, <2>2, <2>3 DEF PInv, Held
    <2>5. Exist'
        BY <1>3, <2>1 DEF Exist, Pointers
    <2>6. ProjectionTypeOK'
        BY <1>3, <2>1 DEF PInv, ProjectionTypeOK, Exist
    <2> QED BY <2>1, <2>4, <2>5, <2>6 DEF PInv
<1>4. CASE Transform
    <2>1. /\ cache' = cache /\ live' = Kept(cache, {}) /\ result' \in {"ok", "infinite", "error"}
          /\ wanted' = <<>> /\ from' = NoPointer /\ to' = NoPointer
        BY <1>4 DEF Transform
    <2>2. /\ DOMAIN live' = cache /\ cache \subseteq Address
          /\ live' \in [DOMAIN live' -> Valid]
        BY <2>1, KeptIsRight
    <2>3. ProjectionTypeOK'
        BY <2>1, <2>2 DEF ProjectionTypeOK
    <2>4. Exist' /\ Held' /\ Small'
        BY <2>1, <2>2 DEF PInv, Exist, Held, Pointers, Small
    <2> QED BY <2>3, <2>4 DEF PInv
<1>5. CASE UNCHANGED projectionVars
    BY <1>5 DEF projectionVars, PInv, ProjectionTypeOK, Exist, Pointers, Held, Small, Source, Target
<1>6. CASE GetFrom
    <2>1. CASE GetFails(Source)
        BY <2>1, FailKeeps
    <2> QED BY <1>2, <1>6, <2>1 DEF GetFrom
<1>7. CASE GetTo
    <2>1. CASE GetFails(Target)
        BY <2>1, FailKeeps
    <2> QED BY <1>3, <1>7, <2>1 DEF GetTo
<1> QED
    BY <1>1, <1>4, <1>5, <1>6, <1>7 DEF ProjectionNext

\* The cache stays within its limit, and a transformation uses the projections
\* that it asked for, even when its second question has emptied the cache that
\* the first answer came from (WdbProjection.cpp:143-160, projTransform.cpp:110-116).
THEOREM ProjectionsAreLiveCorrect ==
    ASSUME ConstantsAreRight
    PROVE  ProjectionSpec => []ProjectionsAreLive
<1>1. ProjectionInit => PInv
    BY InitIsRight
<1>2. PInv /\ [ProjectionNext]_projectionVars => PInv'
    BY StepIsRight
<1>3. PInv => ProjectionsAreLive
    BY DEF PInv, Exist, Pointers, Held, Small, ProjectionsAreLive
<1> QED
    BY <1>1, <1>2, <1>3, PTL DEF ProjectionSpec

-----------------------------------------------------------------------------
(* Outlines of grids *)

\* What a grid is: a number of points in each direction, where it begins and how
\* far apart the points are.
GridRecord == [number : [x : Nat, y : Nat], start : [x : Int, y : Int], step : [x : Int, y : Int]]

\* The inductive invariant: whoever has the outline has asked for the corners,
\* and while the grid is the one that they were asked of, both are its own.
OutlineInv ==
    /\ grid \in GridRecord
    /\ DOMAIN corners \subseteq Corner
    /\ outline # <<>> => corners # <<>>
    /\ ~mixed =>
        /\ \A c \in DOMAIN corners : corners[c] = CornerPoint(grid, c)
        /\ outline # <<>> =>
              outline = <<CornerPoint(grid, "LowerLeft"), CornerPoint(grid, "LowerRight"),
                          CornerPoint(grid, "UpperRight"), CornerPoint(grid, "UpperLeft"),
                          CornerPoint(grid, "LowerLeft")>>

\* A function that has something in its domain is not the empty one.
LEMMA EmptyDomain ==
    ASSUME NEW f, NEW x \in DOMAIN f PROVE f # <<>>
OBVIOUS

LEMMA FlippedIsGrid ==
    ASSUME NEW g \in GridRecord
    PROVE  /\ Flipped(g) \in GridRecord
           /\ Flipped(g).number = g.number
           /\ Flipped(g).start = [x |-> g.start.x, y |-> g.start.y + g.step.y * (g.number.y - 1)]
           /\ Flipped(g).step = [x |-> g.step.x, y |-> -g.step.y]
<1>1. /\ g.number \in [x : Nat, y : Nat] /\ g.start \in [x : Int, y : Int]
      /\ g.step \in [x : Int, y : Int]
    BY DEF GridRecord
<1>2. g.start.y + g.step.y * (g.number.y - 1) \in Int
    BY <1>1
<1>3. /\ Flipped(g).number = g.number
      /\ Flipped(g).start = [x |-> g.start.x, y |-> g.start.y + g.step.y * (g.number.y - 1)]
      /\ Flipped(g).step = [x |-> g.step.x, y |-> -g.step.y]
    BY <1>1 DEF Flipped, GridRecord
<1>4. Flipped(g) \in GridRecord
    <2> DEFINE s == g.start.y + g.step.y * (g.number.y - 1)
               t == -g.step.y
    <2>1. s \in Int /\ t \in Int
        BY <1>1, <1>2
    <2>2. Flipped(g) = [g EXCEPT !.start.y = s, !.step.y = t]
        BY DEF Flipped
    <2> HIDE DEF s, t
    <2>3. [g EXCEPT !.start.y = s] \in GridRecord
        BY <2>1 DEF GridRecord
    <2>4. \A h \in GridRecord : [h EXCEPT !.step.y = t] \in GridRecord
        BY <2>1 DEF GridRecord
    <2>5. [g EXCEPT !.start.y = s, !.step.y = t] = [[g EXCEPT !.start.y = s] EXCEPT !.step.y = t]
        OBVIOUS
    <2> QED
        BY <2>2, <2>3, <2>4, <2>5
<1> QED
    BY <1>3, <1>4

\* Row y from one side is row n - 1 - y from the other.
LEMMA FlippedMirrors ==
    ASSUME NEW g \in GridRecord, NEW x \in 0 .. g.number.x - 1, NEW y \in 0 .. g.number.y - 1
    PROVE  LonLatFromIndex(Flipped(g), x, y) = LonLatFromIndex(g, x, g.number.y - 1 - y)
<1>0. /\ Flipped(g).start = [x |-> g.start.x, y |-> g.start.y + g.step.y * (g.number.y - 1)]
      /\ Flipped(g).step = [x |-> g.step.x, y |-> -g.step.y]
    BY FlippedIsGrid
<1>1. /\ Flipped(g).start.x = g.start.x /\ Flipped(g).step.x = g.step.x
      /\ Flipped(g).start.y = g.start.y + g.step.y * (g.number.y - 1)
      /\ Flipped(g).step.y = -g.step.y
    BY <1>0
<1>2. g.start.y \in Int /\ g.step.y \in Int /\ g.number.y \in Nat /\ y \in Int
    BY DEF GridRecord
<1>3. ASSUME NEW a \in Int, NEW s \in Int, NEW n \in Int, NEW k \in Int
      PROVE  (a + s * (n - 1)) + k * (-s) = a + (n - 1 - k) * s
    OBVIOUS
<1>4. (g.start.y + g.step.y * (g.number.y - 1)) + y * (-g.step.y)
          = g.start.y + (g.number.y - 1 - y) * g.step.y
    BY <1>2, <1>3
<1> QED
    BY <1>1, <1>4 DEF LonLatFromIndex, UnprojectedLonLat

LEMMA AskedIsRight ==
    ASSUME OutlineInv, NEW C \in SUBSET Corner
    PROVE  /\ DOMAIN AfterAsking(C) = DOMAIN corners \cup C
           /\ ~mixed => \A c \in DOMAIN corners \cup C : AfterAsking(C)[c] = CornerPoint(grid, c)
           /\ ~mixed => \A c \in Corner : Known(c) = CornerPoint(grid, c)
BY DEF AfterAsking, Known, OutlineInv

LEMMA OutlineStep ==
    ASSUME OutlineInv, Grid \subseteq GridRecord, [GridNext]_gridVars
    PROVE  OutlineInv'
<1>1. ASSUME NEW c \in Corner, AskPoint(c) PROVE OutlineInv'
    <2>1. /\ corners' = AfterAsking({c}) /\ UNCHANGED <<grid, outline, mixed>>
          /\ DOMAIN corners' = DOMAIN corners \cup {c}
        BY <1>1, AskedIsRight DEF AskPoint
    <2>2. corners' # <<>>
        BY <2>1, EmptyDomain
    <2> QED
        BY <2>1, <2>2, AskedIsRight DEF OutlineInv, CornerPoint
<1>2. CASE AskOutline
    <2>1. CASE outline = <<>>
        <3>1. /\ corners' = AfterAsking(Corner) /\ UNCHANGED <<grid, mixed>> /\ outline' = Ring
              /\ DOMAIN corners' = Corner
            BY <1>2, <2>1, AskedIsRight DEF AskOutline, WktRepresentation, OutlineInv
        <3>2. corners' # <<>> /\ DOMAIN corners' \subseteq Corner
            BY <3>1, EmptyDomain DEF Corner
        <3>3. ASSUME ~mixed
              PROVE  /\ \A c \in Corner : corners'[c] = CornerPoint(grid, c)
                     /\ \A c \in Corner : Known(c) = CornerPoint(grid, c)
            <4>1. Corner \in SUBSET Corner /\ DOMAIN corners \cup Corner = Corner
                BY DEF OutlineInv
            <4> QED BY <3>1, <3>3, <4>1, AskedIsRight
        <3>4. ASSUME ~mixed
              PROVE  outline' = <<CornerPoint(grid, "LowerLeft"), CornerPoint(grid, "LowerRight"),
                                  CornerPoint(grid, "UpperRight"), CornerPoint(grid, "UpperLeft"),
                                  CornerPoint(grid, "LowerLeft")>>
            BY <3>1, <3>3, <3>4 DEF Ring, Corner
        <3>5. \A c : CornerPoint(grid, c)' = CornerPoint(grid, c)
            BY <3>1 DEF CornerPoint, CornerIndex, LonLatFromIndex, UnprojectedLonLat
        <3> QED
            BY <3>1, <3>2, <3>3, <3>4, <3>5 DEF OutlineInv
    <2>2. CASE outline # <<>>
        BY <1>2, <2>2 DEF AskOutline, WktRepresentation, OutlineInv, CornerPoint
    <2> QED
        BY <2>1, <2>2
<1>3. ASSUME NEW o \in Orientation, SetOrientation(o) PROVE OutlineInv'
    <2>1. CASE UNCHANGED <<grid, mixed>>
        BY <1>3, <2>1 DEF SetOrientation, OutlineInv, CornerPoint
    <2>2. CASE grid' = Flipped(grid) /\ mixed' = (mixed \/ corners # <<>>)
        <3>1. UNCHANGED <<corners, outline>>
            BY <1>3 DEF SetOrientation
        <3>2. grid' \in GridRecord
            BY <2>2, FlippedIsGrid DEF OutlineInv
        <3>3. ~mixed' => corners = <<>> /\ outline = <<>>
            BY <2>2 DEF OutlineInv
        <3> QED
            BY <3>1, <3>2, <3>3, EmptyDomain DEF OutlineInv
    <2> QED
        BY <1>3, <2>1, <2>2 DEF SetOrientation
<1>4. ASSUME NEW g \in Grid, NEW o \in Supported, Assign(g, o) PROVE OutlineInv'
    <2>1. UNCHANGED <<corners, outline>> /\ grid' \in GridRecord
        BY <1>4 DEF Assign
    <2>2. ~mixed' => corners = <<>> /\ outline = <<>>
        BY <1>4 DEF Assign, OutlineInv
    <2> QED
        BY <2>1, <2>2, EmptyDomain DEF OutlineInv
<1>5. CASE UNCHANGED gridVars
    BY <1>5 DEF gridVars, OutlineInv, CornerPoint
<1> QED
    BY <1>1, <1>2, <1>3, <1>4, <1>5 DEF GridNext

\* The outline of a grid is a ring round it, as long as nobody changes the grid
\* between two questions, and another orientation lists the same points, for any
\* grids and any order of questions and changes (GridGeometry.cpp:129-184).
THEOREM GeometryIsRightCorrect ==
    ASSUME Grid \subseteq GridRecord
    PROVE  GridSpec => []GeometryIsRight
<1>1. GridInit => OutlineInv
    BY EmptyDomain DEF GridInit, OutlineInv
<1>2. OutlineInv /\ [GridNext]_gridVars => OutlineInv'
    BY OutlineStep
<1>3. OutlineInv => GeometryIsRight
    <2> SUFFICES ASSUME OutlineInv PROVE OutlineIsRing /\ ReorientationMirrors
        BY DEF GeometryIsRight
    <2>1. OutlineIsRing
        <3> SUFFICES ASSUME outline # <<>>, ~mixed
                     PROVE  /\ outline[1] = outline[5]
                            /\ \A i \in 1..4 : \/ outline[i][1] = outline[i + 1][1]
                                               \/ outline[i][2] = outline[i + 1][2]
                            /\ {outline[i] : i \in 1..4} = {CornerPoint(grid, c) : c \in Corner}
            BY DEF OutlineIsRing
        <3> DEFINE at(c) == CornerPoint(grid, c)
        <3>1. /\ outline[1] = at("LowerLeft") /\ outline[2] = at("LowerRight")
              /\ outline[3] = at("UpperRight") /\ outline[4] = at("UpperLeft")
              /\ outline[5] = at("LowerLeft")
            BY DEF OutlineInv
        <3>2. /\ at("LowerLeft")[2] = at("LowerRight")[2]
              /\ at("LowerRight")[1] = at("UpperRight")[1]
              /\ at("UpperRight")[2] = at("UpperLeft")[2]
              /\ at("UpperLeft")[1] = at("LowerLeft")[1]
            BY DEF CornerPoint, CornerIndex, LonLatFromIndex, UnprojectedLonLat
        <3> HIDE DEF at
        <3>3. \A i \in 1..4 : i = 1 \/ i = 2 \/ i = 3 \/ i = 4
            OBVIOUS
        <3>4. \A i \in 1..4 : outline[i][1] = outline[i + 1][1] \/ outline[i][2] = outline[i + 1][2]
            BY <3>1, <3>2, <3>3
        <3>5. {outline[i] : i \in 1..4} = {at(c) : c \in Corner}
            BY <3>1, <3>3 DEF Corner
        <3> QED
            BY <3>1, <3>4, <3>5 DEF at
    <2>2. ReorientationMirrors
        BY FlippedMirrors DEF ReorientationMirrors, OutlineInv
    <2> QED
        BY <2>1, <2>2
<1> QED
    BY <1>1, <1>2, <1>3, PTL DEF GridSpec

-----------------------------------------------------------------------------
(* Points of a grid.                                                       *)

LEMMA DivIs ==
    ASSUME NEW a \in Int, NEW d \in Int, d > 0
    PROVE  a \div d \in Int /\ d * (a \div d) <= a /\ a < d * (a \div d) + d
OBVIOUS

LEMMA TimesIsMonotonic ==
    ASSUME NEW a \in Int, NEW b \in Int, NEW d \in Int, d > 0, a < b
    PROVE  d * a + d <= d * b
<1>1. PICK k \in Int : k = b - a - 1 /\ k >= 0
    OBVIOUS
<1>2. d * k >= 0
    BY <1>1
<1>3. d * b = d * a + d + d * k
    BY <1>1
<1> QED BY <1>2, <1>3

LEMMA DivIsUnique ==
    ASSUME NEW a \in Int, NEW d \in Int, d > 0, NEW q \in Int, d * q <= a, a < d * q + d
    PROVE  a \div d = q
<1>1. PICK r \in Int : r = a \div d /\ d * r <= a /\ a < d * r + d
    BY DivIs
<1>2. CASE r < q
    <2>1. d * r + d <= d * q
        BY <1>2, TimesIsMonotonic
    <2> QED BY <1>1, <2>1
<1>3. CASE q < r
    <2>1. d * q + d <= d * r
        BY <1>3, TimesIsMonotonic
    <2> QED BY <1>1, <2>1
<1> QED BY <1>1, <1>2, <1>3

LEMMA RoundedIsClose ==
    ASSUME NEW c \in Int
    PROVE  Rounded(c) \in Int /\ c - 5 <= Rounded(c) /\ Rounded(c) <= c + 5
BY DEF Rounded, Truncated

\* A coordinate that a line of the grid is returned with leads back to the line,
\* for all lines, starts and steps from 0.05 degrees on: the decimals that are
\* rounded away are less than a thousandth of a step.
LEMMA LineIsFoundAgain ==
    ASSUME NEW axis, axis.start \in Int, axis.step \in Int, axis.step >= 5000, NEW i \in Int,
           NEW v, v = ToIndex(FromIndex(i, axis), axis)
    PROVE  v \in Int /\ Round(v, axis.step) = i /\ ~OffGrid(v, axis.step)
<1>1. PICK start \in Int, step \in Int : start = axis.start /\ step = axis.step /\ step >= 5000
    OBVIOUS
<1>2. PICK k \in Int : k = step * i /\ i * step = k
    OBVIOUS
<1>3. /\ v \in Int /\ v = Rounded(start + k) - start
      /\ k - 5 <= v /\ v <= k + 5
    <2>1. start + k \in Int /\ v = Rounded(start + k) - start
        BY <1>1, <1>2 DEF ToIndex, FromIndex
    <2> QED BY <2>1, RoundedIsClose
<1>4. Round(v, step) = i
    <2>1. PICK a \in Int, d \in Int : a = 2 * v + step /\ d = 2 * step
        BY <1>3
    <2>2. d > 0 /\ d * i = 2 * k
        BY <1>1, <1>2, <2>1
    <2>3. d * i <= a /\ a < d * i + d
        BY <1>1, <1>3, <2>1, <2>2
    <2>4. a \div d = i
        BY <2>2, <2>3, DivIsUnique
    <2> QED BY <2>1, <2>4 DEF Round
<1>5. Distance(v, step * Round(v, step)) <= 5 /\ Distance(v, step * Round(v, step)) \in Int
    BY <1>2, <1>3, <1>4 DEF Distance
<1>6. ~OffGrid(v, step)
    BY <1>1, <1>5 DEF OffGrid
<1> QED BY <1>1, <1>3, <1>4, <1>6

\* The grids that there are: whole numbers of points, steps forwards.
GridIsRight(g) ==
    /\ g.nx \in Nat /\ g.ny \in Nat /\ g.sx \in Int /\ g.sy \in Int
    /\ g.dx \in Nat \ {0} /\ g.dy \in Nat \ {0}

\* Whoever asks for a point by the coordinates that it was returned with gets
\* that point, of any grid whose steps are 0.05 degrees or more, although the
\* coordinates have been rounded (projTransform.cpp:118-124 against
\* SinglePointReader.cpp:92): PointIsFoundAgain, but for the look into the file.
THEOREM ExactReadsTheSamePoint ==
    ASSUME NEW g, GridIsRight(g), g.dx >= 5000, g.dy >= 5000, NEW x \in Int, NEW y \in Int
    PROVE  ReadExact(FromIndex(x, Axis(g).x), FromIndex(y, Axis(g).y), g)
               = PointsAt(<<<<x, y>>>>, g)
<1>1. PICK ax, ay, v, w : /\ ax = Axis(g).x /\ ay = Axis(g).y
                          /\ v = ToIndex(FromIndex(x, ax), ax)
                          /\ w = ToIndex(FromIndex(y, ay), ay)
    OBVIOUS
<1>2. /\ ax.start \in Int /\ ax.step \in Int /\ ax.step = g.dx /\ ax.step >= 5000
      /\ ay.start \in Int /\ ay.step \in Int /\ ay.step = g.dy /\ ay.step >= 5000
    BY <1>1 DEF GridIsRight, Axis
<1>3. Round(v, g.dx) = x /\ ~OffGrid(v, g.dx)
    BY <1>1, <1>2, LineIsFoundAgain
<1>4. Round(w, g.dy) = y /\ ~OffGrid(w, g.dy)
    BY <1>1, <1>2, LineIsFoundAgain
<1> QED BY <1>1, <1>3, <1>4 DEF ReadExact, ReadNearest

LEMMA ModIs ==
    ASSUME NEW a \in Int, NEW d \in Int, d > 0
    PROVE  a % d = a - d * (a \div d)
OBVIOUS

\* Multiples of a step up to v are those of the numbers up to its quotient.
LEMMA UpToQuotient ==
    ASSUME NEW v \in Int, NEW d \in Int, d > 0, NEW a \in Int
    PROVE  a * d <= v <=> a <= v \div d
<1>1. PICK q \in Int : q = v \div d /\ d * q <= v /\ v < d * q + d
    BY DivIs
<1>2. a * d = d * a /\ d * a \in Int /\ d * q \in Int
    OBVIOUS
<1>3. CASE a < q
    BY <1>1, <1>2, <1>3, TimesIsMonotonic
<1>4. CASE a = q
    BY <1>1, <1>2, <1>4
<1>5. CASE q < a
    BY <1>1, <1>2, <1>5, TimesIsMonotonic
<1> QED BY <1>3, <1>4, <1>5, <1>1

LEMMA BetweenIsNext ==
    ASSUME NEW v \in Int, NEW d \in Int, d > 0
    PROVE  v \div d \in Int /\ Between(v, d) = <<v \div d, v \div d + 1>>
<1>1. PICK q \in Int : q = v \div d /\ d * q <= v /\ v < d * q + d
    BY DivIs
<1>2. CASE v % d = 0
    BY <1>1, <1>2 DEF Between, Floor
<1>3. CASE v % d # 0
    <2>1. v # d * q
        BY <1>1, <1>3, ModIs
    <2>2. PICK u \in Int, m \in Int : u = -v /\ m = -q - 1
        BY <1>1
    <2>3. d * m = -(d * q) - d
        BY <2>2
    <2>4. d * m <= u /\ u < d * m + d
        BY <1>1, <2>1, <2>2, <2>3
    <2>5. u \div d = m
        BY <2>4, DivIsUnique
    <2>6. Ceiling(v, d) = q + 1
        BY <1>1, <2>2, <2>5 DEF Ceiling
    <2> QED BY <1>1, <1>3, <2>6 DEF Between, Floor
<1> QED BY <1>2, <1>3

\* The lines that surround a location are the nearest to each side of it, for
\* every axis and number, also where the location is on a line or off the grid
\* (SinglePointReader.cpp:103-140).
THEOREM SurroundingLinesAreNearby ==
    ASSUME NEW axis, axis.step \in Nat \ {0}, axis.number \in Nat, NEW v \in Int, NEW n \in Nat \ {0}
    PROVE  {i \in 0..(axis.number - 1) :
                /\ Between(v, axis.step)[1] - (n - 1) <= i
                /\ i <= Between(v, axis.step)[2] + (n - 1)} = Nearby(v, axis, n)
<1>a. PICK d \in Int : d = axis.step /\ d > 0
    OBVIOUS
<1>b. v \div d \in Int /\ Between(v, d) = <<v \div d, v \div d + 1>>
    BY <1>a, BetweenIsNext
<1>1. PICK q \in Int : d = axis.step /\ d > 0 /\ q = v \div d
    BY <1>a, <1>b
<1>2. Between(v, axis.step)[1] = q /\ Between(v, axis.step)[2] = q + 1
    <2>1. PICK b : b = Between(v, d) /\ b = <<q, q + 1>>
        BY <1>1, <1>b
    <2> QED BY <1>1, <2>1
<1>3. ASSUME NEW i \in 0..(axis.number - 1)
      PROVE  (q - (n - 1) <= i /\ i <= q + 1 + (n - 1)) <=> (i * d > v - n * d /\ i * d <= v + n * d)
    <2>1. (i + n) * d <= v <=> i + n <= q
        BY <1>1, UpToQuotient
    <2>2. (i - n) * d <= v <=> i - n <= q
        BY <1>1, UpToQuotient
    <2>3. /\ i * d \in Int /\ n * d \in Int
          /\ (i + n) * d = i * d + n * d /\ (i - n) * d = i * d - n * d
        BY <1>1
    <2> QED BY <2>1, <2>2, <2>3
<1> QED BY <1>1, <1>2, <1>3 DEF Nearby

\* What is interpolated between the four points of a cell, in the order in which
\* they are read, lies on any plane that the four values lie on, for all grids
\* and all places in the cell (SinglePointReader.cpp:143-188).  Places before
\* the grid have no cell and are not interpolated.
THEOREM CellIsInterpolatedOnItsPlane ==
    ASSUME NEW g, GridIsRight(g), NEW x \in Nat, NEW y \in Nat,
           NEW at \in Int, NEW px \in Int, NEW py \in Int, NEW p,
           p[1].value = at + px * Floor(x, g.dx) + py * Floor(y, g.dy),
           p[2].value = at + px * (Floor(x, g.dx) + 1) + py * Floor(y, g.dy),
           p[3].value = at + px * Floor(x, g.dx) + py * (Floor(y, g.dy) + 1),
           p[4].value = at + px * (Floor(x, g.dx) + 1) + py * (Floor(y, g.dy) + 1)
    PROVE  Bilinear(p, x, y, g) = at * g.dx * g.dy + px * x * g.dy + py * y * g.dx
<1>1. PICK dx \in Int, dy \in Int : dx = g.dx /\ dx > 0 /\ dy = g.dy /\ dy > 0
    BY DEF GridIsRight
<1>2. Floor(x, dx) \in Int /\ Floor(y, dy) \in Int
    BY <1>1 DEF Floor
<1>3. PICK i \in Int, j \in Int : i = Floor(x, dx) /\ j = Floor(y, dy)
    BY <1>2
<1>4. PICK f \in Int, h \in Int : f = x - dx * i /\ h = y - dy * j
    BY <1>1
<1>5. Fraction(x, dx) = f /\ Fraction(y, dy) = h
    BY <1>1, <1>3, <1>4 DEF Fraction, Truncated, Floor
<1>6. PICK b \in Int : b = at + px * i + py * j
    OBVIOUS
<1>7. px * (i + 1) = px * i + px /\ py * (j + 1) = py * j + py
    OBVIOUS
<1>8. /\ px * i \in Int /\ py * j \in Int
      /\ p[1].value = b /\ p[2].value = b + px /\ p[3].value = b + py /\ p[4].value = b + px + py
    BY <1>1, <1>3, <1>6, <1>7
<1>9. Bilinear(p, x, y, g) = b * dx * dy + px * f * dy + py * h * dx
    <2>1. PICK b2, b3, b4 : b2 = b + px /\ b3 = b + py /\ b4 = b + px + py
        OBVIOUS
    <2>2. Bilinear(p, x, y, g) = Linear(Linear(b, b2, f, dx), Linear(b3, b4, f, dx), h, dy)
        BY <1>1, <1>5, <1>8, <2>1 DEF Bilinear
    <2>3. Linear(Linear(b, b2, f, dx), Linear(b3, b4, f, dx), h, dy)
              = b * dx * dy + px * f * dy + py * h * dx
        <3>1. PICK c \in Int : c = b * dx + px * f
            OBVIOUS
        <3>2. Linear(b, b2, f, dx) = c
            BY <2>1, <3>1 DEF Linear
        <3>3. Linear(b3, b4, f, dx) = c + py * dx
            BY <2>1, <3>1 DEF Linear
        <3>4. (c + py * dx) * h = c * h + py * h * dx
            OBVIOUS
        <3>5. c * (dy - h) = c * dy - c * h
            OBVIOUS
        <3>6. Linear(c, c + py * dx, h, dy) = c * dy + py * h * dx
            BY <3>4, <3>5 DEF Linear
        <3>7. c * dy = b * dx * dy + px * f * dy
            BY <3>1
        <3> QED BY <3>2, <3>3, <3>6, <3>7
    <2> QED BY <2>2, <2>3
<1>10. x = f + dx * i /\ y = h + dy * j
    BY <1>1, <1>4
<1>11. px * x = px * f + px * i * dx /\ py * y = py * h + py * j * dy
    BY <1>10
<1>12. b * dx * dy = at * dx * dy + px * i * dx * dy + py * j * dx * dy
    BY <1>6
<1>13. px * x * dy = px * f * dy + px * i * dx * dy
    BY <1>11
<1>14. py * y * dx = py * h * dx + py * j * dx * dy
    BY <1>11
<1> QED BY <1>1, <1>9, <1>12, <1>13, <1>14

-----------------------------------------------------------------------------
(* Polygons *)

LEMMA LeastNumber ==
    ASSUME NEW T \in SUBSET Nat, T # {} PROVE \E n \in T : \A m \in T : n <= m
<1>1. PICK n \in T : \A m \in T : ~(<<m, n>> \in OpToRel(<, Nat))
    BY NatLessThanWellFounded, WFMin
<1>2. \A m \in T : ~(m < n)
    BY <1>1 DEF OpToRel
<1> QED BY <1>2

\* The lowest and the highest of coordinates within bounds.
LEMMA LowestAndHighest ==
    ASSUME NEW S \in SUBSET Int, NEW bound \in Nat, \A v \in S : -bound <= v /\ v <= bound,
           NEW w \in S
    PROVE  /\ Lowest(S) \in S /\ Lowest(S) <= w
           /\ Highest(S) \in S /\ w <= Highest(S)
<1> DEFINE L == {v + bound : v \in S}
           H == {bound - v : v \in S}
<1>1. L \in SUBSET Nat /\ L # {} /\ H \in SUBSET Nat /\ H # {}
    OBVIOUS
<1>2. \E v \in S : \A u \in S : v <= u
    <2>1. PICK n \in L : \A m \in L : n <= m
        BY <1>1, LeastNumber
    <2>2. PICK v \in S : n = v + bound
        BY <2>1
    <2>3. ASSUME NEW u \in S PROVE v <= u
        <3>1. u + bound \in L
            OBVIOUS
        <3>2. n <= u + bound
            BY <2>1, <3>1
        <3> QED BY <2>2, <3>2
    <2> QED BY <2>3
<1>3. \E v \in S : \A u \in S : v >= u
    <2>1. PICK n \in H : \A m \in H : n <= m
        BY <1>1, LeastNumber
    <2>2. PICK v \in S : n = bound - v
        BY <2>1
    <2>3. ASSUME NEW u \in S PROVE v >= u
        <3>1. bound - u \in H
            OBVIOUS
        <3>2. n <= bound - u
            BY <2>1, <3>1
        <3> QED BY <2>2, <3>2
    <2> QED BY <2>3
<1>4. Lowest(S) \in S /\ \A u \in S : Lowest(S) <= u
    BY <1>2 DEF Lowest
<1>5. Highest(S) \in S /\ \A u \in S : Highest(S) >= u
    BY <1>3 DEF Highest
<1> QED BY <1>4, <1>5

\* A line of the grid between two vertices is among those that are looked at.
LEMMA LineIsLookedAt ==
    ASSUME NEW axis, axis.start \in Int, axis.step \in Nat \ {0}, axis.number \in Nat,
           NEW vs \in SUBSET Int, NEW bound \in Nat, \A v \in vs : -bound <= v /\ v <= bound,
           NEW low \in vs, NEW high \in vs, NEW i \in 0..(axis.number - 1),
           low <= axis.start + i * axis.step, axis.start + i * axis.step <= high
    PROVE  /\ Lines(vs, axis)[1] \in Int /\ Lines(vs, axis)[1] <= i
           /\ Lines(vs, axis)[2] \in Int /\ i <= Lines(vs, axis)[2]
<1>1. PICK s \in Int : s = axis.start
    OBVIOUS
<1>2. PICK d \in Int : d = axis.step /\ d > 0
    OBVIOUS
<1>3. Lowest(vs) \in Int /\ Lowest(vs) <= low /\ Highest(vs) \in Int /\ high <= Highest(vs)
    BY LowestAndHighest
<1>4. PICK lo \in Int, hi \in Int : lo = Lowest(vs) - s /\ hi = Highest(vs) - s
    BY <1>1, <1>3
<1>5. i * d \in Int /\ lo <= i * d /\ i * d <= hi
    BY <1>1, <1>2, <1>3, <1>4
<1>6. hi >= 0 /\ i + 1 <= (hi + d) \div d /\ (hi + d) \div d \in Int
    <2>1. i * d >= 0 /\ i \in Int
        BY <1>2
    <2>2. PICK k \in Int, end \in Int : k = i + 1 /\ end = hi + d
        BY <2>1
    <2>3. k * d = i * d + d
        BY <1>2, <2>1, <2>2
    <2>4. k * d <= end
        BY <1>2, <1>5, <2>2, <2>3
    <2>5. k <= end \div d /\ end \div d \in Int
        <3>1. 0 <= end
            BY <1>2, <1>5, <2>1, <2>2
        <3> QED BY <1>2, <2>2, <2>4, <3>1, UpToQuotient, DivIs
    <2> QED BY <1>5, <2>1, <2>2, <2>5
<1>7. CASE lo >= 0
    <2>1. lo \div d \in Int /\ lo \div d <= i
        <3>1. PICK q \in Int : q = lo \div d /\ d * q <= lo
            BY <1>2, DivIs
        <3>2. CASE i < q
            <4>0. i \in Int
                OBVIOUS
            <4>1. d * i + d <= d * q
                BY <1>2, <3>1, <3>2, <4>0, TimesIsMonotonic
            <4>2. d * i = i * d
                BY <1>2, <4>0
            <4> QED BY <1>2, <1>5, <3>1, <4>1, <4>2
        <3> QED BY <3>1, <3>2
    <2>2. Truncated(lo, d) = lo \div d /\ Truncated(hi + d, d) = (hi + d) \div d
        BY <1>2, <1>6, <1>7 DEF Truncated
    <2> QED BY <1>1, <1>2, <1>4, <1>6, <2>1, <2>2 DEF Lines
<1>8. CASE lo < 0
    <2>1. (-lo) \div d \in Int /\ (-lo) \div d >= 0
        <3>1. PICK u \in Int : u = -lo /\ 0 * d <= u
            BY <1>2, <1>8
        <3> QED BY <1>2, <3>1, DivIs, UpToQuotient
    <2>2. Truncated(lo, d) \in Int /\ Truncated(lo, d) <= 0 /\ Truncated(hi + d, d) = (hi + d) \div d
        BY <1>2, <1>6, <1>8, <2>1 DEF Truncated
    <2> QED BY <1>1, <1>2, <1>4, <1>6, <2>1, <2>2 DEF Lines
<1> QED BY <1>4, <1>7, <1>8

\* Polygons: closed rings with coordinates within bounds.
PolygonIsRight(polygon, bound) ==
    /\ DOMAIN polygon.parts = 1..Len(polygon.parts) /\ Len(polygon.parts) \in Nat
    /\ \A n \in DOMAIN polygon.parts :
           LET ring == polygon.parts[n] IN
           /\ Len(ring) \in Nat \ {0, 1} /\ DOMAIN ring = 1..Len(ring)
           /\ ring[1] = ring[Len(ring)]
           /\ \A i \in DOMAIN ring, axis \in {1, 2} :
                 ring[i][axis] \in Int /\ -bound <= ring[i][axis] /\ ring[i][axis] <= bound

LEMMA VerticesAre ==
    ASSUME NEW polygon, NEW bound \in Nat, PolygonIsRight(polygon, bound), NEW axis \in {1, 2}
    PROVE  /\ Vertices(polygon, axis) \in SUBSET Int
           /\ \A v \in Vertices(polygon, axis) : -bound <= v /\ v <= bound
           /\ \A n \in DOMAIN polygon.parts : \A i \in DOMAIN polygon.parts[n] :
                  polygon.parts[n][i][axis] \in Vertices(polygon, axis)
<1>1. ASSUME NEW v \in Vertices(polygon, axis)
      PROVE  v \in Int /\ -bound <= v /\ v <= bound
    <2>1. PICK n \in DOMAIN polygon.parts :
              v \in {polygon.parts[n][i][axis] : i \in (IF n = 1 THEN 1 ELSE 2)..Len(polygon.parts[n])}
        BY DEF Vertices
    <2>2. PICK i \in DOMAIN polygon.parts[n] : v = polygon.parts[n][i][axis]
        BY <2>1 DEF PolygonIsRight
    <2> QED BY <2>2 DEF PolygonIsRight
<1>2. ASSUME NEW n \in DOMAIN polygon.parts, NEW i \in DOMAIN polygon.parts[n]
      PROVE  polygon.parts[n][i][axis] \in Vertices(polygon, axis)
    <2>1. PICK ring : ring = polygon.parts[n]
        OBVIOUS
    <2>2. Len(ring) \in Nat \ {0, 1} /\ DOMAIN ring = 1..Len(ring) /\ ring[1] = ring[Len(ring)]
        BY <2>1 DEF PolygonIsRight
    <2>3. \E k \in 2..Len(ring) : ring[k] = ring[i]
        <3>1. CASE i = 1
            BY <2>2, <3>1
        <3>2. CASE i # 1
            BY <2>1, <2>2, <3>2
        <3> QED BY <3>1, <3>2
    <2>4. \E k \in (IF n = 1 THEN 1 ELSE 2)..Len(ring) : ring[i][axis] = ring[k][axis]
        BY <2>2, <2>3
    <2> QED BY <2>1, <2>4 DEF Vertices
<1> QED BY <1>1, <1>2

\* Every point of the grid that a polygon covers is among those that are tried,
\* for all grids and all closed polygons, however little of the grid they touch:
\* the truncations, and the comparison of signed with unsigned numbers, never
\* cut a line away that has such a point (PolygonReader.cpp:88-131).
THEOREM CoveredPointsAreTried ==
    ASSUME NEW g, GridIsRight(g), NEW polygon, NEW bound \in Nat, PolygonIsRight(polygon, bound),
           NEW x \in Int, NEW y \in Int, Inside(x, y, g), InPolygon(polygon, x, y, g)
    PROVE  LET xs == Lines(Vertices(polygon, 1), Axis(g).x)
               ys == Lines(Vertices(polygon, 2), Axis(g).y) IN
           x \in xs[1]..xs[2] /\ y \in ys[1]..ys[2]
<1> DEFINE xs == Vertices(polygon, 1)
           ys == Vertices(polygon, 2)
<1>0. PICK n \in DOMAIN polygon.parts :
          \E i, j \in DOMAIN polygon.parts[n] :
              /\ polygon.parts[n][i][1] <= g.sx + x * g.dx /\ g.sx + x * g.dx <= polygon.parts[n][j][1]
              /\ polygon.parts[n][i][2] <= g.sy + y * g.dy /\ g.sy + y * g.dy <= polygon.parts[n][j][2]
    BY DEF InPolygon, Intersects
<1>1. PICK i, j \in DOMAIN polygon.parts[n] :
          /\ polygon.parts[n][i][1] <= g.sx + x * g.dx /\ g.sx + x * g.dx <= polygon.parts[n][j][1]
          /\ polygon.parts[n][i][2] <= g.sy + y * g.dy /\ g.sy + y * g.dy <= polygon.parts[n][j][2]
    BY <1>0
<1>2. /\ xs \in SUBSET Int
      /\ \A v \in xs : -bound <= v /\ v <= bound
      /\ polygon.parts[n][i][1] \in xs /\ polygon.parts[n][j][1] \in xs
    BY VerticesAre
<1>3. /\ ys \in SUBSET Int
      /\ \A v \in ys : -bound <= v /\ v <= bound
      /\ polygon.parts[n][i][2] \in ys /\ polygon.parts[n][j][2] \in ys
    BY VerticesAre
<1>4. PICK ax, ay : ax = Axis(g).x /\ ay = Axis(g).y
    OBVIOUS
<1>5. /\ ax.start = g.sx /\ ax.step = g.dx /\ ax.number = g.nx
      /\ ay.start = g.sy /\ ay.step = g.dy /\ ay.number = g.ny
    BY <1>4 DEF Axis
<1>6. x \in 0..(ax.number - 1) /\ y \in 0..(ay.number - 1)
    BY <1>5 DEF Inside, GridIsRight
<1> HIDE DEF xs, ys
<1>7. /\ Lines(xs, ax)[1] \in Int /\ Lines(xs, ax)[1] <= x
      /\ Lines(xs, ax)[2] \in Int /\ x <= Lines(xs, ax)[2]
    BY <1>1, <1>2, <1>5, <1>6, LineIsLookedAt DEF GridIsRight
<1>8. /\ Lines(ys, ay)[1] \in Int /\ Lines(ys, ay)[1] <= y
      /\ Lines(ys, ay)[2] \in Int /\ y <= Lines(ys, ay)[2]
    BY <1>1, <1>3, <1>5, <1>6, LineIsLookedAt DEF GridIsRight
<1>9. ASSUME NEW b, NEW c \in Int, b[1] <= c, c <= b[2], b[1] \in Int, b[2] \in Int
      PROVE  c \in b[1]..b[2]
    BY <1>9
<1> QED BY <1>4, <1>7, <1>8, <1>9 DEF xs, ys

=============================================================================
