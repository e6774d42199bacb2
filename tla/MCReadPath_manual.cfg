SPECIFICATION MCSpec
CONSTANTS
    Small <- MCSmall
    Number <- MCNumber
    Geometry = {"POINT0", "POINT4", "POLYGON"}
    Reserved = {"POINT", "POLYGON", "MULTIPOLYGON"}
    Wildcard = {"%", "_"}
    Value <- MCValue
    Provider <- MCProvider
    Instant <- MCInstant
    Duration <- MCDuration
    Position <- MCPosition
    Extent <- MCExtent
    Naming <- MCPlace
    Absent = Absent
    Base = 4
    Digits = 3
    MaxReturn = 8
    Grid <- MCGrid
    Orientation = {"LeftUpperHorizontal", "LeftLowerHorizontal", "RightLowerVertical"}
    Supported = {"LeftUpperHorizontal", "LeftLowerHorizontal"}
    Definition = {"stere", "rotated", "nonsense"}
    Valid = {"longlat", "stere", "rotated"}
    Earth = "longlat"
    Address = {"p1", "p2", "p3", "p4"}
    MaxProjections = 1
    PlacePoints = {a1}
    PlacePolygons = {b1}
    Grids = {g1}
    Name = {n1}
    Canonical = Canonical
    Namespace = {0, 1, 2}
    Infinity = 2
    Operation = {"addPlacePoint", "addOrUpdatePlacePoint", "addPlacePolygon", "addOrUpdatePlacePolygon", "addPlaceRegularGrid", "setPlaceName"}
    spot = spot
    area = area
    line = line
    Points = {spot}
    Polygons = {area}
    NoSpec = NoSpec
    NoLocation = NoLocation
    MaxPlans = 2
    Wrapper = {w1, w2, w3}
    Object = {o1, o2, o3}
    Request <- MCRequest
    FloatRows <- MCFloatRows
    GridRows <- MCGridRows
    SpecOf <- MCSpecOf
    Hits <- MCHits
    Where <- MCWhere
CHECK_DEADLOCK FALSE
INVARIANT QualifiersAreAsDescribed
