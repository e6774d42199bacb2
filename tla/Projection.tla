----------------------------- MODULE Projection -----------------------------
(***************************************************************************)
(* Transformations of coordinates between a grid and the earth, and the    *)
(* cache of projections that they share.  A transformation asks the cache  *)
(* for two projections, one after the other, and the second question may   *)
(* empty the cache that the first answer came from.                        *)
(*                                                                         *)
(*   src/src/callInterface/core/projTransform.cpp                          *)
(*   src/src/common/projection/WdbProjection.cpp, WdbProjection.h          *)
(*                                                                         *)
(* A pointer is the address of a WdbProjection, which another may get when *)
(* this one is deleted.  The PROJ.4 library is external: it accepts some   *)
(* definitions, and between two of them a transformation works, is out of  *)
(* bounds or fails.                                                        *)
(***************************************************************************)
EXTENDS Naturals, FiniteSets

CONSTANTS
    Definition,     \* projection definitions of grids
    Valid,          \* those that pj_init_plus accepts
    Earth,          \* +proj=longlat +ellps=WGS84, the other end of all of them
    Address,        \* where projections are allocated
    MaxProjections  \* 512

NoPointer == "none"

VARIABLES
    live,       \* the projections that exist: address -> definition
    cache,      \* the addresses in the map, whose keys are the definitions
    from, to,   \* the pointers that the transformation under way holds
    wanted,     \* what it was called for: <<definition, inverse>>, or <<>>
    result      \* of the last one: ok, infinite, error

projectionVars == <<live, cache, from, to, wanted, result>>

ProjectionTypeOK ==
    /\ DOMAIN live \subseteq Address /\ live \in [DOMAIN live -> Valid]
    /\ cache \subseteq Address
    /\ from \in Address \cup {NoPointer} /\ to \in Address \cup {NoPointer}
    /\ wanted \in {<<>>} \cup (Definition \X BOOLEAN)
    /\ result \in {"none", "ok", "infinite", "error"}

ProjectionInit ==
    /\ live = <<>> /\ cache = {} /\ from = NoPointer /\ to = NoPointer
    /\ wanted = <<>> /\ result = "none"

Source == IF wanted[2] THEN Earth ELSE wanted[1]
Target == IF wanted[2] THEN wanted[1] ELSE Earth

\* Mutant: pointers that do not count.
OwnedByCache(c, pointers) == c

\* boost::shared_ptr: a projection exists as long as the cache c or one of the
\* pointers refers to it.
Owned(c, pointers) == c \cup (pointers \ {NoPointer})
Kept(c, pointers) == [p \in Owned(c, pointers) |-> live[p]]

\* transform_, for wdbTransform and transformAll, and rTransform, the inverse.
Call(d, inverse) ==
    /\ wanted = <<>>
    /\ wanted' = <<d, inverse>> /\ result' = "none"
    /\ UNCHANGED <<live, cache, from, to>>

\* A cache with more than its limit is emptied before the next one goes in.
Cleared == IF Cardinality(cache) <= MaxProjections THEN cache ELSE {}
InMap(d) == {p \in cache : live[p] = d}

\* getWdbProjection returns p, which it has found or made.
GetProjection(d, p) ==
    \/ p \in InMap(d) /\ UNCHANGED <<live, cache>>
    \/ /\ InMap(d) = {} /\ d \in Valid
       /\ p \in Address \ Owned(Cleared, {from, to})
       /\ cache' = Cleared \cup {p}
       /\ live' = [q \in Owned(Cleared, {from, to}) \cup {p} |-> IF q = p THEN d ELSE live[q]]

\* It throws, for what is no projection, after the cache has been emptied; the
\* transformation gives its pointers back.
GetFails(d) ==
    /\ InMap(d) = {} /\ d \notin Valid
    /\ cache' = Cleared /\ live' = Kept(Cleared, {})
    /\ result' = "error" /\ wanted' = <<>> /\ from' = NoPointer /\ to' = NoPointer

GetFrom ==
    /\ wanted # <<>> /\ from = NoPointer
    /\ \/ \E p \in Address : GetProjection(Source, p) /\ from' = p /\ UNCHANGED <<to, wanted, result>>
       \/ GetFails(Source)

GetTo ==
    /\ from # NoPointer /\ to = NoPointer
    /\ \/ \E p \in Address : GetProjection(Target, p) /\ to' = p /\ UNCHANGED <<from, wanted, result>>
       \/ GetFails(Target)

\* WdbProjection::transform: coordinates out of bounds become infinite, other
\* errors throw.
Transform ==
    /\ from # NoPointer /\ to # NoPointer
    /\ result' \in {"ok", "infinite", "error"}
    /\ wanted' = <<>> /\ from' = NoPointer /\ to' = NoPointer
    /\ live' = Kept(cache, {})
    /\ UNCHANGED cache

ProjectionNext ==
    \/ \E d \in Definition, inverse \in BOOLEAN : Call(d, inverse)
    \/ GetFrom \/ GetTo \/ Transform
ProjectionSpec == ProjectionInit /\ [][ProjectionNext]_projectionVars

-----------------------------------------------------------------------------
\* The cache holds at most one more than its limit, and a transformation has both
\* of its projections when it uses them, whatever the cache has lost meanwhile and
\* wherever others have been made since (WdbProjection.cpp:143-160,
\* projTransform.cpp:110-116 and 173-179).
ProjectionsAreLive ==
    /\ Cardinality(cache) <= MaxProjections + 1
    /\ cache \subseteq DOMAIN live
    /\ to # NoPointer =>
           /\ from \in DOMAIN live /\ live[from] = Source
           /\ to \in DOMAIN live /\ live[to] = Target
=============================================================================
