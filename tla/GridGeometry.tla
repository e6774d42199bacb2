---------------------------- MODULE GridGeometry ----------------------------
(***************************************************************************)
(* A GridGeometry: the numbers that place a grid, its corners and its      *)
(* outline as text, the last two computed when they are first asked for    *)
(* and kept.  The database asks for the outline of every regular grid      *)
(* (database/databaseProjection.cpp).                                      *)
(*                                                                         *)
(*   src/src/common/projection/GridGeometry.cpp, GridGeometry.h            *)
(*                                                                         *)
(* Projecting a point is left out: it is the same function for all points  *)
(* of the grid, so that two of them are compared before it.                *)
(***************************************************************************)
EXTENDS Integers, Sequences

CONSTANTS
    Grid,           \* grids: number, start and step, each [x, y]
    Orientation,    \* the ways to order the values; two of them are supported
    Supported

Corner == {"UpperLeft", "UpperRight", "LowerLeft", "LowerRight"}

VARIABLES
    grid,           \* the PlaceSpecification
    orientation,
    corners,        \* corners_: those asked for so far
    outline,        \* geometry_, <<>> until it is asked for
    mixed           \* the orientation was changed after a corner was asked for

gridVars == <<grid, orientation, corners, outline, mixed>>

GridInit ==
    /\ grid \in Grid /\ orientation = "LeftLowerHorizontal"
    /\ corners = <<>> /\ outline = <<>>
    /\ mixed = FALSE

\* unprojectedLonLat_, and lonLatFromIndex, before projection.
UnprojectedLonLat(g, p) == <<g.start.x + p.x * g.step.x, g.start.y + p.y * g.step.y>>
LonLatFromIndex(g, x, y) == UnprojectedLonLat(g, [x |-> x, y |-> y])

\* getIndex: the orientation plays no part.
CornerIndex(g, c) ==
    [x |-> IF c \in {"UpperLeft", "LowerLeft"} THEN 0 ELSE g.number.x - 1,
     y |-> IF c \in {"LowerLeft", "LowerRight"} THEN 0 ELSE g.number.y - 1]
CornerPoint(g, c) == LonLatFromIndex(g, CornerIndex(g, c).x, CornerIndex(g, c).y)

\* point: the corner as it was when it was first asked for.
Known(c) == IF c \in DOMAIN corners THEN corners[c] ELSE CornerPoint(grid, c)
AfterAsking(C) == [c \in DOMAIN corners \cup C |-> Known(c)]

AskPoint(c) ==
    /\ corners' = AfterAsking({c})
    /\ UNCHANGED <<grid, orientation, outline, mixed>>

\* Mutant: the upper corners the wrong way round.
Zigzag == <<Known("LowerLeft"), Known("LowerRight"), Known("UpperLeft"),
            Known("UpperRight"), Known("LowerLeft")>>

\* operator <<.
Ring == <<Known("LowerLeft"), Known("LowerRight"), Known("UpperRight"),
          Known("UpperLeft"), Known("LowerLeft")>>

\* wktRepresentation: the outline as it was when it was first asked for.
WktRepresentation == IF outline = <<>> THEN Ring ELSE outline

AskOutline ==
    /\ outline' = WktRepresentation
    /\ corners' = IF outline = <<>> THEN AfterAsking(Corner) ELSE corners
    /\ UNCHANGED <<grid, orientation, mixed>>

\* The rows in the opposite order.
Flipped(g) == [g EXCEPT !.start.y = @ + g.step.y * (g.number.y - 1), !.step.y = -@]

\* setOrientation throws for others than the two it supports; what was asked for
\* before is kept.
SetOrientation(o) ==
    /\ IF o = orientation \/ o \notin Supported
         THEN UNCHANGED <<grid, orientation, mixed>>
         ELSE /\ grid' = Flipped(grid)
              /\ orientation' = o
              /\ mixed' = (mixed \/ corners # <<>>)
    /\ UNCHANGED <<corners, outline>>

\* operator =: grid and orientation are copied, what was asked of it is not.
Assign(g, o) ==
    /\ grid' = g /\ orientation' = o
    /\ mixed' = (mixed \/ corners # <<>>)
    /\ UNCHANGED <<corners, outline>>

GridNext ==
    \/ \E c \in Corner : AskPoint(c)
    \/ AskOutline
    \/ \E o \in Orientation : SetOrientation(o)
    \/ \E g \in Grid, o \in Supported : Assign(g, o)
GridSpec == GridInit /\ [][GridNext]_gridVars

-----------------------------------------------------------------------------
\* The outline is a ring round the grid, one corner after the other, as long as
\* nobody changes the grid between two questions (GridGeometry.cpp:129, 237); and
\* another orientation lists the same points, row by row from the other side
\* (GridGeometry.cpp:165; the test that says so is disabled,
\* GridGeometryTest.cpp:140-160).
OutlineIsRing ==
    outline # <<>> /\ ~mixed =>
        /\ outline[1] = outline[5]
        /\ \A i \in 1..4 : outline[i][1] = outline[i + 1][1] \/ outline[i][2] = outline[i + 1][2]
        /\ {outline[i] : i \in 1..4} = {CornerPoint(grid, c) : c \in Corner}
ReorientationMirrors ==
    \A x \in 0..(grid.number.x - 1), y \in 0..(grid.number.y - 1) :
        LonLatFromIndex(Flipped(grid), x, y) = LonLatFromIndex(grid, x, grid.number.y - 1 - y)
GeometryIsRight == OutlineIsRing /\ ReorientationMirrors
=============================================================================
