----------------------------- MODULE MCReadPath -----------------------------
(***************************************************************************)
(* Instances for TLC of reads and of the modules that they rest on, one of *)
(* them at a time: the reads of a session, the geometries in its caches,   *)
(* place names, a request and its query, points of a grid, the geometry of *)
(* a grid, the cache of projections.                                       *)
(***************************************************************************)
EXTENDS ReadQuery, Projection, GridGeometry, PlaceName, ReadFloat, GeomWrapper, TLC

CONSTANTS
    Base, Digits, MaxReturn,
    spot, area, line    \* locations of reads

ASSUME MaxReturn \in Nat
ASSUME Earth \in Valid /\ MaxProjections \in Nat

VARIABLES part, asked

R == INSTANCE PointReader

-----------------------------------------------------------------------------
(* Requests.                                                               *)

MCSmall == "EXACT" :> "exact" @@ "Nearest" :> "nearest" @@ "SURROUND" :> "surround"
        @@ "Bilinear" :> "bilinear" @@ "ANY" :> "any" @@ "Below" :> "below" @@ "TO" :> "to"
        @@ "FOR" :> "for" @@ "Instant" :> "instant" @@ "Oslo" :> "oslo" @@ "POINT" :> "point"
MCNumber == "-1" :> -1 @@ "0" :> 0 @@ "1" :> 1 @@ "2" :> 2 @@ "3" :> 3
MCInstant == "t1" :> 1 @@ "t2" :> 2 @@ "t3" :> 3 @@ "t4" :> 4
MCDuration == "p1" :> 1
MCExtent == "POINT0" :> [from |-> 0, to |-> 0] @@ "POINT4" :> [from |-> 4, to |-> 4]
         @@ "POLYGON" :> [from |-> -3, to |-> 0]
MCPosition == <<0, 1, 10>>

Denotes(p, n, a, b) == [placeid |-> p, name |-> n, from |-> a, to |-> b]
MCPlace == {Denotes(1, <<"oslo">>, 0, 9), Denotes(2, <<"bergen">>, 0, 2),
            Denotes(2, <<"voss">>, 2, 9), Denotes(3, <<"bergen">>, 2, 9)}

Hirlam == <<"hirlam">>
Hirlam10 == <<"hirlam", " ", "10">>
Ecmwf == <<"ecmwf">>
ProviderRow(i, n, a, b) == [id |-> i, name |-> n, left |-> a, right |-> b]
MCProvider == {ProviderRow(1, Hirlam, 1, 6), ProviderRow(2, Hirlam10, 2, 3), ProviderRow(3, <<"hirlam", " ", "20">>, 4, 5),
               ProviderRow(4, Ecmwf, 7, 8)}
Groups == Hirlam :> {1, 2, 3} @@ Hirlam10 :> {2} @@ Ecmwf :> {4}

Temperature == <<"air", " ", "temperature">>
Wind == <<"wind">>
Height == <<"height">>
Entry(p, r, a, b, n, l, h, i, m, q) ==
    [provider |-> p, reference |-> r, from |-> a, to |-> b, parameter |-> n,
     levelparameter |-> l, levelfrom |-> h, levelto |-> h + 1, version |-> i, maxversion |-> m,
     place |-> q]
MCValue == {Entry(2, 1, 1, 1, Temperature, Height, 0, 0, 2, 1),
            Entry(2, 1, 1, 3, Temperature, Height, 1, 1, 2, 2),
            Entry(3, 2, 2, 3, Wind, Height, 2, 2, 2, 2),
            Entry(4, 2, 2, 4, Temperature, <<"depth">>, 1, 0, 0, 3),
            Entry(1, 3, 3, 4, Wind, Height, 2, 1, 1, 3),
            Entry(4, 3, 4, 4, Temperature, Height, 0, 0, 1, 2)}

TimeAsked(k, a, b, i) == [indeterminate |-> k, from |-> <<a>>, other |-> <<b>>, interval |-> i]
Times == {TimeAsked(k, a, b, FALSE) : k \in TimeQualifiers, a \in {"t1", "t2"}, b \in {"t2", "t3"}}
            \cup {TimeAsked(k, "t2", "p1", TRUE) : k \in TimeQualifiers}
LevelsAsked == {[indeterminate |-> k, from |-> a, to |-> b, parameter |-> Height] :
                    k \in LevelQualifiers, a \in {0, 1}, b \in {1, 2}}
Geographical(t, n, g) == [type |-> t, n |-> n, geometry |-> g, name |-> <<>>]
Named(t, n, name) == [type |-> t, n |-> n, geometry |-> "", name |-> name]
Locations == {Geographical(t, 1, g) : t \in {"exact", "nearest", "surround", "bilinear"},
                                      g \in {"POINT0", "POINT4", "POLYGON"}}
        \cup {Geographical("surround", n, "POINT4") : n \in {0, 2}}
        \cup {Named("surround", n, <<"bergen">>) : n \in {1, 3}}
        \cup {Named("exact", 1, <<"bergen">>), Named("nearest", 1, <<"oslo">>)}
NamesAsked == {<<"oslo">>, <<"new", " ", "york">>, <<"exact", "ville">>, <<"(", "1", ")">>,
               <<"st", " ", "POINT">>}

ChoicesOf(f) ==
    CASE f = "provider" -> {<<Hirlam>>, <<Hirlam10>>, <<Hirlam10, Ecmwf>>, <<Hirlam, Hirlam10>>}
      [] f \in {"reference", "valid"} -> Times
      [] f = "parameter" -> {<<Temperature>>, <<Wind, <<"%">>>>, <<<<"air", "%">>>>}
      [] f = "level" -> LevelsAsked
      [] f = "version" -> {<<0>>, <<-1>>, <<1, -2>>}
      [] f = "location" -> Locations
Fields == {"provider", "reference", "valid", "parameter", "level", "version", "location"}
Nothing == [f \in Fields |-> Absent]

\* One or two arguments, for the values or grids.
AskQuery ==
    \E f, g \in Fields : \E x \in ChoicesOf(f), y \in ChoicesOf(g) :
        \E table \in {"float", "grid"}, output \in {"float", "gid"} :
            asked' = [kind |-> "query", table |-> table, output |-> output,
                      q |-> [[Nothing EXCEPT ![f] = x] EXCEPT ![g] = y]]

AskText ==
    \E gap \in {<<>>, <<" ">>, <<" ", " ">>} :
        \/ \E t \in ToSet(Interpolations), n \in {-1, 1, 3}, k \in DOMAIN MCSmall \cup ToSet(Interpolations),
              name \in NamesAsked :
               /\ Lower(k) = t /\ (t # "surround" => n = 1)
               /\ asked' = [kind |-> "location", l |-> Named(t, n, name), k |-> k, gap |-> gap]
        \/ \E l \in Locations : asked' = [kind |-> "location", l |-> l, k |-> l.type, gap |-> gap]
        \/ \E t \in Times : asked' = [kind |-> "time", t |-> t, gap |-> gap]
        \/ \E h \in LevelsAsked, k \in DOMAIN MCSmall \cup LevelQualifiers :
               asked' = [kind |-> "level", h |-> h, k |-> k]
        \/ \E x, y, z \in {"Instant", "instant", "air", " ", "Oslo"} :
               asked' = [kind |-> "parameter", name |-> <<x, y, z>>]

-----------------------------------------------------------------------------
(* Points of a grid.                                                       *)

\* Values that lie in a plane over the grid.
Plane == [at |-> 7, x |-> 3, y |-> -5]
File(nx, ny) == [i \in 1..nx * ny |-> 7 + 3 * ((i - 1) % nx) - 5 * ((i - 1) \div nx)]
GridOf(nx, ny, start, step) ==
    [nx |-> nx, ny |-> ny, sx |-> start, sy |-> start, dx |-> step, dy |-> step,
     file |-> File(nx, ny)]
GridsAsked == {GridOf(nx, ny, 0, step) : nx \in 1..3, ny \in 2..3, step \in {1000, 5003, 10000}}
            \cup {GridOf(2, 3, -10007, step) : step \in {5000, 7777}}

\* On the lines of the grid, next to them, between them and off the grid.
Coordinates(g) ==
    {g.sx + k * g.dx + d : k \in -2..3, d \in {0, 1, g.dx \div 1000, g.dx \div 1000 + 1,
                                               g.dx \div 2, g.dx - 1}}
Sides == {-15000, -1, 0, 5000, 10000, 15000, 30000}
Boxes == {<<<<x[1], y[1]>>, <<x[2], y[1]>>, <<x[2], y[2]>>, <<x[1], y[2]>>, <<x[1], y[1]>>>> :
             x \in {p \in Sides \X Sides : p[1] <= p[2]},
             y \in {p \in {-15000, 0, 10000} \X {-20000, 0, 9999, 40000} : p[1] <= p[2]}}
Fixed == <<<<10000, 10000>>, <<10000, 5000>>, <<5000, 5000>>, <<5000, 10000>>, <<10000, 10000>>>>
Polygon(multi, parts) == [multi |-> multi, parts |-> parts]

AskLocation(g) ==
    \E lon, lat \in Coordinates(g), n \in 1..2 :
        asked' = [kind |-> "point", lon |-> lon, lat |-> lat, n |-> n, g |-> g]

AskPolygon(g) ==
    \E b \in Boxes, multi \in BOOLEAN :
        \E parts \in {<<b>>, <<b, Fixed>>} :
            /\ Len(parts) = 2 => multi
            /\ asked' = [kind |-> "polygon", polygon |-> Polygon(multi, parts), g |-> g]

-----------------------------------------------------------------------------
(* Geometries of grids, and projections.                                   *)

Pair(a, b) == [x |-> a, y |-> b]
MCGrid == {[number |-> Pair(2, 3), start |-> Pair(0, 10), step |-> Pair(1, 2)],
           [number |-> Pair(3, 2), start |-> Pair(-4, 0), step |-> Pair(2, 1)]}

-----------------------------------------------------------------------------
(* Reads: three grids, two that differ in projection and srid, and two that *)
(* differ in the srid only; a place that is no grid.                       *)

G1 == [numbers |-> 1, projection |-> "longlat", srid |-> 4030]
G2 == [numbers |-> 1, projection |-> "stere", srid |-> 4031]
G3 == [numbers |-> 1, projection |-> "longlat", srid |-> 4032]
MCSpecOf == 1 :> G1 @@ 2 :> G2 @@ 3 :> G3 @@ 4 :> NoSpec

\* In the projected grid the location spot is at another point, the polygon area takes
\* in another pair, and the points are elsewhere.
MCHits == [x \in {G1, G2, G3} \X {spot, area} |->
    CASE x[2] = spot -> IF x[1] = G2 THEN <<2>> ELSE <<1>>
      [] x[2] = area -> IF x[1] = G2 THEN <<>> ELSE <<1, 2>>]
MCWhere == [x \in {G1, G2, G3} \X {1, 2} |->
    [lon |-> x[2], lat |-> x[1].projection]]

Gridded(p, d) == [place |-> p, data |-> d]
MCFloatRows == "none" :> <<>> @@ "f" :> <<"v1", "v2">>
MCGridRows == "g123" :> <<Gridded(1, 11), Gridded(2, 12), Gridded(3, 13)>> @@ "g2" :> <<Gridded(2, 12)>>
           @@ "g4" :> <<Gridded(4, 14), Gridded(1, 11)>> @@ "g14" :> <<Gridded(1, 11), Gridded(4, 14)>>
           @@ "none" :> <<>>
Read(f, g, l) == [float |-> f, grid |-> g, gid |-> "g2", location |-> l]
MCRequest == {Read("f", "g123", spot), Read("none", "g123", area), Read("f", "g2", line),
              Read("none", "g2", spot), Read("f", "g123", NoLocation), Read("none", "g4", spot),
              Read("none", "g14", spot)}

-----------------------------------------------------------------------------
MCInit ==
    /\ part \in {"read", "geometries", "place", "request", "point", "geometry", "projection"}
    /\ asked = [kind |-> "nothing"]
    /\ Init
    /\ GeomInit
    /\ GridInit /\ (part = "geometry" \/ grid.number.x = 2)
    /\ ProjectionInit
    /\ PlaceInit

Ask == part = "request" /\ asked.kind = "nothing" /\ (AskQuery \/ AskText)
AskFiles ==
    \E i, j \in {-R!Half, -1, 0, 1, Base, R!Half - 1}, files \in {{}, {<<"data", "test">>}} :
        asked' = [kind |-> "files", databases |-> {"wdb", "test"}, ids |-> {i, j}, files |-> files]

AskGrid ==
    /\ part = "point" /\ asked.kind = "nothing"
    /\ AskFiles \/ \E g \in GridsAsked : AskLocation(g) \/ AskPolygon(g)

MCNext ==
    /\ UNCHANGED part
    /\ \/ (Ask \/ AskGrid) /\ UNCHANGED <<placeVars, gridVars, projectionVars, vars, geomVars>>
       \/ part = "place" /\ PlaceNext /\ UNCHANGED <<asked, gridVars, projectionVars, vars, geomVars>>
       \/ part = "geometry" /\ GridNext /\ UNCHANGED <<asked, placeVars, projectionVars, vars, geomVars>>
       \/ part = "projection" /\ ProjectionNext /\ UNCHANGED <<asked, placeVars, gridVars, vars, geomVars>>
       \/ part = "read" /\ Next /\ UNCHANGED <<asked, placeVars, gridVars, projectionVars, geomVars>>
       \/ part = "geometries" /\ GeomNext /\ UNCHANGED <<asked, placeVars, gridVars, projectionVars, vars>>
MCSpec ==
    /\ MCInit /\ [][MCNext]_<<part, asked, placeVars, gridVars, projectionVars, vars, geomVars>>
    /\ WF_vars(Step)

-----------------------------------------------------------------------------
\* What the modules say is right, of everything that is asked for.
SpecificationsAreUnderstood ==
    CASE asked.kind = "location" -> LocationIsUnderstood(asked.l, asked.k, asked.gap)
      [] asked.kind = "time" -> TimeIsUnderstood(asked.t, asked.gap)
      [] asked.kind = "level" -> LevelIsUnderstood(asked.h, asked.k)
      [] asked.kind = "parameter" -> ParameterIsFound(asked.name)
      [] OTHER -> TRUE

AnswersAreRight ==
    asked.kind = "query" =>
        /\ AnswerIsRight(asked.q, asked.table, asked.output, Groups)
        /\ BrowseIsRight(asked.q)

\* "The before keyword returns only time periods that end before the specified time
\* point", and after those that start after it (doc/user/wci_user-manual.xml:367-375,
\* against timeQuery.cpp:128-135).
QualifiersAreAsDescribed ==
    asked.kind = "query" => PeriodsAreBeforeOrAfter(asked.q, asked.table, asked.output)

PointsAreRight ==
    /\ asked.kind = "point" =>
           /\ R!SurroundIsComplete(asked.lon, asked.lat, asked.n, asked.g)
           /\ R!BilinearIsOnPlane(asked.lon, asked.lat, Plane, asked.g)
           /\ R!PointIsFoundAgain(asked.n, asked.n - 1, asked.g)
    /\ asked.kind = "files" => R!PathsAreRight("data", asked.databases, asked.ids, asked.files)
    /\ asked.kind = "polygon" => R!PolygonIsExact(asked.polygon, asked.g)

=============================================================================
