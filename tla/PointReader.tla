---------------------------- MODULE PointReader ----------------------------
(***************************************************************************)
(* What is read from one grid at one location: the points and values that  *)
(* wci.read(..., wci.returnfloat) extracts.                                *)
(*                                                                         *)
(*   src/src/callInterface/core/wciRead/extractGridData/                   *)
(*       SinglePointReader.cpp, PolygonReader.cpp, BaseDataReader.cpp      *)
(*   src/src/callInterface/core/projTransform.cpp                          *)
(*   src/src/common/math/wdbMath.cpp                                       *)
(*                                                                         *)
(* Grids are in geographical coordinates, where the projection is the      *)
(* identity.  A coordinate is a whole number of units of 0.00001 degrees.  *)
(* An exact index is kept as a distance from the start of the grid, to be  *)
(* divided by its step; indices count from 0, as the file does.            *)
(***************************************************************************)
EXTENDS GridFile, FiniteSets, SequencesExt

CONSTANT MaxReturn  \* MAX_RETURN, the points that a polygon may select

\* A grid: nx by ny points from sx, sy on, dx and dy apart; its file holds one
\* value for each, row after row.
Axis(g) == [x |-> [start |-> g.sx, step |-> g.dx, number |-> g.nx],
            y |-> [start |-> g.sy, step |-> g.dy, number |-> g.ny]]

Distance(m, n) == IF m < n THEN n - m ELSE m - n
Floor(v, step) == v \div step
Ceiling(v, step) == -((-v) \div step)
Truncated(v, step) == IF v >= 0 THEN v \div step ELSE -((-v) \div step)

\* math::round, which rounds halves up.
Round(v, step) == (2 * v + step) \div (2 * step)

\* wdb::round to four decimals, halves away from zero.
Rounded(c) == 10 * (IF c < 0 THEN Truncated(c - 5, 10) ELSE Truncated(c + 5, 10))

\* wdbTransform and rTransform on one axis.
FromIndex(i, axis) == Rounded(axis.start + i * axis.step)
ToIndex(c, axis) == c - axis.start

IndexFromXy(x, y, g) == y * g.nx + x

Inside(x, y, g) == x >= 0 /\ y >= 0 /\ x < g.nx /\ y < g.ny

\* BaseDataReader::readPoint.
Point(x, y, g) ==
    [x |-> x, y |-> y, value |-> ReadFloat(g.file, IndexFromXy(x, y, g)),
     lon |-> FromIndex(x, Axis(g).x), lat |-> FromIndex(y, Axis(g).y)]

\* All of x0..x1 by y0..y1 in the order of the nested loops.
RowMajor(x0, x1, y0, y1) ==
    LET width == x1 - x0 + 1 IN
    IF x1 < x0 \/ y1 < y0 THEN <<>>
    ELSE [i \in 1..width * (y1 - y0 + 1) |->
             <<x0 + ((i - 1) % width), y0 + ((i - 1) \div width)>>]

PointsAt(pairs, g) ==
    LET inside == SelectSeq(pairs, LAMBDA p : Inside(p[1], p[2], g)) IN
    [i \in 1..Len(inside) |-> Point(inside[i][1], inside[i][2], g)]

ReadNearest(lon, lat, g) ==
    PointsAt(<<<<Round(ToIndex(lon, Axis(g).x), g.dx), Round(ToIndex(lat, Axis(g).y), g.dy)>>>>, g)

\* Farther than a thousandth of a step from the next line of the grid.
OffGrid(v, step) == 1000 * Distance(v, step * Round(v, step)) > step

ReadExact(lon, lat, g) ==
    IF OffGrid(ToIndex(lon, Axis(g).x), g.dx) \/ OffGrid(ToIndex(lat, Axis(g).y), g.dy)
    THEN <<>> ELSE ReadNearest(lon, lat, g)

\* Mutant: a location on a line of the grid is left there.
OnLine(v, step) == <<Floor(v, step), Ceiling(v, step)>>

\* The lines before and after v; on a line, half a step is added.
Between(v, step) ==
    IF v % step = 0 THEN <<Floor(v, step), Floor(v, step) + 1>>
    ELSE <<Floor(v, step), Ceiling(v, step)>>

ReadSurround(lon, lat, n, g) ==
    LET xs == Between(ToIndex(lon, Axis(g).x), g.dx)
        ys == Between(ToIndex(lat, Axis(g).y), g.dy) IN
    PointsAt(RowMajor(xs[1] - (n - 1), xs[2] + (n - 1), ys[1] - (n - 1), ys[2] + (n - 1)), g)

\* interpolate::linear and bilinear, scaled by the area of a cell; the part
\* before the point is cut off towards zero.
Linear(low, high, pos, step) == low * (step - pos) + high * pos
Fraction(v, step) == v - step * Truncated(v, step)
Bilinear(p, x, y, g) ==
    Linear(Linear(p[1].value, p[2].value, Fraction(x, g.dx), g.dx),
           Linear(p[3].value, p[4].value, Fraction(x, g.dx), g.dx), Fraction(y, g.dy), g.dy)

ReadBilinear(lon, lat, g) ==
    LET p == ReadSurround(lon, lat, 1, g) IN
    IF Len(p) < 4 THEN <<>>
    ELSE <<[lon |-> lon, lat |-> lat,
            scaled |-> Bilinear(p, ToIndex(lon, Axis(g).x), ToIndex(lat, Axis(g).y), g)]>>

\* SinglePointReader::read.
ReadPoint(lon, lat, interpolation, n, g) ==
    CASE interpolation = "exact" -> ReadExact(lon, lat, g)
      [] interpolation = "nearest" -> ReadNearest(lon, lat, g)
      [] interpolation = "surround" -> ReadSurround(lon, lat, n, g)
      [] interpolation = "bilinear" -> ReadBilinear(lon, lat, g)

-----------------------------------------------------------------------------
(* Polygons: [multi, parts], each part the closed ring of its vertices.    *)

\* The vertices that getBounds looks at, on one axis (1 or 2).
Vertices(polygon, axis) ==
    UNION {{polygon.parts[n][i][axis] : i \in (IF n = 1 THEN 1 ELSE 2)..Len(polygon.parts[n])} :
               n \in DOMAIN polygon.parts}
Lowest(S) == CHOOSE v \in S : \A w \in S : v <= w
Highest(S) == CHOOSE v \in S : \A w \in S : v >= w

\* GEOSGetExteriorRing is asked of a collection when it has one part only.
NoOuterRing(polygon) == polygon.multi /\ Len(polygon.parts) = 1

\* The lines of the grid that a polygon may reach.  The end is compared as an
\* unsigned number: one that is negative counts as too high.
Lines(vs, axis) ==
    LET end == Truncated(Highest(vs) - axis.start + axis.step, axis.step)
        start == Truncated(Lowest(vs) - axis.start, axis.step) IN
    <<IF start < 0 THEN 0 ELSE start,
      (IF end < 0 \/ end > axis.number THEN axis.number ELSE end) - 1>>

\* GEOSIntersects, for the rectangles used here: a side may be a point.
Intersects(polygon, lon, lat) ==
    \E n \in DOMAIN polygon.parts :
        LET ring == polygon.parts[n] IN
        \E i, j \in DOMAIN ring :
            /\ ring[i][1] <= lon /\ lon <= ring[j][1]
            /\ ring[i][2] <= lat /\ lat <= ring[j][2]

InPolygon(polygon, x, y, g) == Intersects(polygon, g.sx + x * g.dx, g.sy + y * g.dy)

\* PolygonReader::read: points of the grid, or what it complains of.
ReadPolygon(polygon, g) ==
    LET xs == Lines(Vertices(polygon, 1), Axis(g).x)
        ys == Lines(Vertices(polygon, 2), Axis(g).y)
        selected == SelectSeq(RowMajor(xs[1], xs[2], ys[1], ys[2]),
                              LAMBDA p : InPolygon(polygon, p[1], p[2], g)) IN
    CASE NoOuterRing(polygon) -> "no outer ring"
      [] ~NoOuterRing(polygon) /\ Len(selected) > MaxReturn -> "too many rows"
      [] OTHER -> PointsAt(selected, g)

-----------------------------------------------------------------------------
\* The lines of the grid next to v, counted without reference to rounding.
Nearby(v, axis, n) ==
    {i \in 0..(axis.number - 1) :
        /\ i * axis.step > v - n * axis.step
        /\ i * axis.step <= v + n * axis.step}
SetOf(points) == {<<points[i].x, points[i].y>> : i \in DOMAIN points}

\* A point is found by the coordinates it is returned with, as long as the four
\* decimals kept of them tell within a thousandth of a step
\* (projTransform.cpp:118-124 against SinglePointReader.cpp:92).
PointIsFoundAgain(x, y, g) ==
    /\ g.dx >= 5000 /\ g.dy >= 5000 /\ Inside(x, y, g)
    => ReadExact(FromIndex(x, Axis(g).x), FromIndex(y, Axis(g).y), g) = <<Point(x, y, g)>>

\* The n points to each side of a location are returned, as far as they are in
\* the grid, also when it is on a line or off the grid (SinglePointReader.cpp:114).
SurroundIsComplete(lon, lat, n, g) ==
    LET p == ReadSurround(lon, lat, n, g) IN
    /\ SetOf(p) = Nearby(ToIndex(lon, Axis(g).x), Axis(g).x, n)
                      \X Nearby(ToIndex(lat, Axis(g).y), Axis(g).y, n)
    /\ Len(p) <= 4 * n * n

\* A value that is interpolated in a plane lies on it (SinglePointReader.cpp:143-188).
\* The last row and column have no cell behind them, and so no value.
BilinearIsOnPlane(lon, lat, plane, g) ==
    LET p == ReadBilinear(lon, lat, g)
        x == ToIndex(lon, Axis(g).x)
        y == ToIndex(lat, Axis(g).y) IN
    /\ p # <<>> <=> /\ 0 <= x /\ x < g.dx * (g.nx - 1)
                    /\ 0 <= y /\ y < g.dy * (g.ny - 1)
    /\ p # <<>> => p[1].scaled = plane.at * g.dx * g.dy + plane.x * x * g.dy + plane.y * y * g.dx

\* The points of the grid that a polygon covers are returned, each once, however
\* little of the grid it touches (PolygonReader.cpp:88-160).
PolygonIsExact(polygon, g) ==
    LET p == ReadPolygon(polygon, g)
        covered == {q \in (0..g.nx - 1) \X (0..g.ny - 1) : InPolygon(polygon, q[1], q[2], g)} IN
    ~NoOuterRing(polygon) /\ Cardinality(covered) <= MaxReturn
        => SetOf(p) = covered /\ Len(p) = Cardinality(covered)
=============================================================================
