---------------------------- MODULE GeomWrapper ----------------------------
(***************************************************************************)
(* The geometries of the points in a geometry cache: each is an object of  *)
(* the GEOS library that all copies of a wrapper share, and that the last  *)
(* one of them to go destroys.                                             *)
(*                                                                         *)
(*   src/src/callInterface/core/wciRead/extractGridData/GEOSGeomWrapper.cpp*)
(*   src/src/callInterface/core/wciRead/extractGridData/GeometryCache.cpp  *)
(*                                                                         *)
(* Nothing assigns a wrapper to itself, which operator = does not allow    *)
(* for.  The memory of an object that has been deleted may be used again.    *)
(***************************************************************************)
EXTENDS Naturals, FiniteSets

CONSTANTS
    Wrapper,    \* variables and entries of maps that can hold a wrapper
    Object      \* places for a GEOSGeomPtr: a geometry and its use count

VARIABLES
    held,       \* the object of each wrapper that there is
    useCount    \* of the objects that have been made and not deleted

geomVars == <<held, useCount>>

GeomInit == held = <<>> /\ useCount = <<>>

Holders(o) == {w \in DOMAIN held : held[w] = o}

\* GEOSGeomWrapper(geo), and without one.
Construct(w, o) ==
    /\ w \in Wrapper \ DOMAIN held /\ o \in Object \ DOMAIN useCount
    /\ held' = [x \in DOMAIN held \cup {w} |-> IF x = w THEN o ELSE held[x]]
    /\ useCount' = [x \in DOMAIN useCount \cup {o} |-> IF x = o THEN 1 ELSE useCount[x]]

\* The copy constructor.
CopyConstruct(w, from) ==
    /\ w \in Wrapper \ DOMAIN held /\ from \in DOMAIN held
    /\ held' = [x \in DOMAIN held \cup {w} |-> IF x = w THEN held[from] ELSE held[x]]
    /\ useCount' = [useCount EXCEPT ![held[from]] = @ + 1]

\* --useCount == 0: the object is deleted; counts is what is left.
Released(o, counts) ==
    IF counts[o] = 1 THEN [x \in DOMAIN counts \ {o} |-> counts[x]]
    ELSE [counts EXCEPT ![o] = @ - 1]

\* Mutant: what was held before is forgotten.
AssignOver(w, from) ==
    /\ w \in DOMAIN held /\ from \in DOMAIN held \ {w}
    /\ useCount' = [useCount EXCEPT ![held[from]] = @ + 1]
    /\ held' = [held EXCEPT ![w] = held[from]]

\* operator =: one object loses a user before the other one gains it.
AssignFrom(w, from) ==
    /\ w \in DOMAIN held /\ from \in DOMAIN held \ {w}
    /\ LET left == Released(held[w], useCount) IN
       useCount' = [left EXCEPT ![held[from]] = @ + 1]
    /\ held' = [held EXCEPT ![w] = held[from]]

Destroy(w) ==
    /\ w \in DOMAIN held
    /\ useCount' = Released(held[w], useCount)
    /\ held' = [x \in DOMAIN held \ {w} |-> held[x]]

GeomNext ==
    \/ \E w \in Wrapper, o \in Object : Construct(w, o)
    \/ \E w, from \in Wrapper : CopyConstruct(w, from) \/ AssignFrom(w, from)
    \/ \E w \in Wrapper : Destroy(w)
GeomSpec == GeomInit /\ [][GeomNext]_geomVars

-----------------------------------------------------------------------------
\* A geometry lives as long as somebody holds it and no longer: its count is the
\* number of its holders, and nobody holds one that has been deleted
\* (GEOSGeomWrapper.cpp:78-100).
GeometriesAreHeld ==
    /\ \A o \in DOMAIN useCount : useCount[o] = Cardinality(Holders(o)) /\ useCount[o] > 0
    /\ \A w \in DOMAIN held : held[w] \in DOMAIN useCount
=============================================================================
