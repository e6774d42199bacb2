----------------------------- MODULE ReadQuery -----------------------------
(***************************************************************************)
(* The query that wci.read and wci.browse build from their arguments, as   *)
(* what PostgreSQL makes of it: how often each row of floatvalue_v or      *)
(* gridvalue_v is in the answer, or an error.                              *)
(*                                                                         *)
(*   src/src/callInterface/core/wciRead/query/buildQuery.cpp and the files *)
(*       that it includes; src/src/callInterface/core/Builder.cpp          *)
(*   src/src/callInterface/types/location.cpp                              *)
(*   src/src/callInterface/core/wciBrowse.c                                *)
(*                                                                         *)
(* Conditions are kept as the sets of rows that they let through.  Places  *)
(* and geometries lie on a line.                                           *)
(***************************************************************************)
EXTENDS Specification, FiniteSetsExt

CONSTANTS
    Value,      \* rows of the view: provider, reference, from, to, parameter,
                \* levelparameter, levelfrom, levelto, version, maxversion, place
    Provider,   \* rows of dataprovider_mv: id, name, left, right
    Instant,    \* words that are points in time -> which
    Duration,   \* words that are intervals -> how long
    Position,   \* places -> where they are
    Extent,     \* geometries -> from where to where they extend
    Naming,     \* rows of placedefinition_mv: placeid, name, from, to
    Absent      \* an argument that is NULL

Error == [error |-> TRUE]

\* Rows with a number of occurrences, and what conditions leave of them.
None == [v \in Value |-> 0]
Filtered(bag, C) == [v \in Value |-> IF v \in C THEN bag[v] ELSE 0]

-----------------------------------------------------------------------------
(* Arguments, each to its condition; Error where the statement fails.      *)

\* stringArrayFromDatum and intArrayFromDatum: an empty array has no dimension.
BadArray(a) == a # Absent /\ a = <<>>

\* addDataProviderQuery: a join with the providers found under the names.
ProviderJoins(v, names) ==
    {<<d, s>> \in Provider \X Provider :
        /\ \E i \in DOMAIN names : s.name = Lowered(names[i])
        /\ s.left <= d.left /\ d.right <= s.right
        /\ d.id = v.provider}

JoinedWithProviders(names) ==
    [v \in Value |-> IF names = Absent THEN 1 ELSE Cardinality(ProviderJoins(v, names))]

\* A time of a specification, for the row v: a point, or never with NULL.
Never == -1
TimeOf(words, v) ==
    CASE words = <<"referencetime">> -> v.reference
      [] words = <<"NULL">> -> Never
      [] Len(words) = 1 /\ words[1] \in DOMAIN Instant -> Instant[words[1]]

IsInstant(words) == Len(words) = 1 /\ words[1] \in DOMAIN Instant
Special(words) == words \in {<<"referencetime">>, <<"NULL">>}

EndOf(t, v) ==
    IF ~t.interval THEN TimeOf(t.other, v)
    ELSE IF t.from = <<"NULL">> THEN Never ELSE TimeOf(t.from, v) + Duration[t.other[1]]
BadTime(t, special) ==
    \/ t = Invalid
    \/ t.indeterminate \notin TimeQualifiers
    \/ ~IsInstant(t.from) /\ ~(special /\ Special(t.from))
    \/ IF t.interval THEN t.other[1] \notin DOMAIN Duration
                     ELSE ~IsInstant(t.other) /\ ~(special /\ Special(t.other))

\* addReferenceTimeQuery.
ReferenceTimes(t) ==
    {v \in Value :
        LET from == TimeOf(t.from, v) to == EndOf(t, v) IN
        CASE t.indeterminate \in {"exact", "contains"} -> v.reference = from /\ v.reference = to
          [] t.indeterminate = "inside" -> v.reference >= from /\ v.reference <= to
          [] t.indeterminate = "before" -> v.reference < from
          [] t.indeterminate = "after"  -> v.reference > to}

\* Mutant: contains as inside.
ValidTimesInside(t) ==
    {v \in Value :
        LET from == TimeOf(t.from, v) to == EndOf(t, v) IN
        CASE t.indeterminate = "exact" -> v.from = from /\ v.to = to
          [] t.indeterminate \in {"inside", "contains"} -> v.from >= from /\ v.to <= to
          [] t.indeterminate = "before" -> v.from < from
          [] t.indeterminate = "after"  -> v.to > to}

\* addValidTimeQuery: a comparison with NULL lets no row through.
ValidTimes(t) ==
    {v \in Value :
        LET from == TimeOf(t.from, v) to == EndOf(t, v) IN
        /\ t.indeterminate # "after" => from # Never
        /\ t.indeterminate # "before" => to # Never
        /\ CASE t.indeterminate = "exact" -> v.from = from /\ v.to = to
             [] t.indeterminate = "inside" -> v.from >= from /\ v.to <= to
             [] t.indeterminate = "contains" -> v.from <= from /\ v.to >= to
             [] t.indeterminate = "before" -> v.from < from
             [] t.indeterminate = "after"  -> v.to > to}

\* addParameterQuery.
Parameters(names) ==
    {v \in Value : \E i \in DOMAIN names : Like(v.parameter, Lowered(names[i]))}

\* addLevelQuery.
Levels(l) ==
    {v \in Value :
        /\ Like(v.levelparameter, l.parameter)
        /\ CASE l.indeterminate = "exact" -> v.levelfrom = l.from /\ v.levelto = l.to
             [] l.indeterminate = "inside" -> v.levelfrom >= l.from /\ v.levelto <= l.to
             [] l.indeterminate = "below" -> v.levelfrom < l.from
             [] l.indeterminate = "above" -> v.levelto > l.to
             [] l.indeterminate = "any" -> TRUE}

\* addDataVersionQuery: versions below 0 count from the latest.
DataVersions(n) ==
    {v \in Value : \E i \in DOMAIN n :
        v.version = IF n[i] < 0 THEN v.maxversion + 1 + n[i] ELSE n[i]}

-----------------------------------------------------------------------------
(* Locations.                                                              *)

Distance(place, g) ==
    LET p == Position[place] IN
    Max({0, Extent[g].from - p, p - Extent[g].to})

\* Places with the name at the reference time of v, in the session's namespace.
ReferredTo(p) == {v \in Value : p.from <= v.reference /\ v.reference < p.to}
Definitions(name, v) == {p \in Naming : p.name = name /\ v \in ReferredTo(p)}

\* addToReturnExactFloatQuery: a point is compared, a polygon may be 1 away, and
\* a name is joined with.
ExactFloat(bag, l) ==
    IF l.geometry # ""
    THEN Filtered(bag, {v \in Value : Distance(v.place, l.geometry) <=
                           IF Extent[l.geometry].from = Extent[l.geometry].to THEN 0 ELSE 1})
    ELSE [v \in Value |->
             bag[v] * Cardinality({p \in Definitions(l.name, v) :
                                      Position[p.placeid] = Position[v.place]})]

\* The ways to choose the first n rows by their distance from g, as the places
\* that they are at.
Firsts(bag, n, Far(_)) ==
    LET rows == UNION {{<<v, i>> : i \in 1..bag[v]} : v \in Value} IN
    {{r[1].place : r \in R} : R \in {R \in SUBSET rows :
        /\ Cardinality(R) = Min({n, Cardinality(rows)})
        /\ \A r \in R, s \in rows \ R : Far(r[1].place) <= Far(s[1].place)}}

\* addToReturnSurroundFloatQuery: the query so far becomes a table.  By geometry,
\* the place of its first n rows is compared, which fails for several rows; by
\* name, the places of the first n rows are looked up for each definition.
SurroundFloat(bag, l) ==
    LET rows == SumFunction(bag)
        named == {d \in Naming : d.name = l.name}
        asked == \E v \in Value : bag[v] > 0 /\ (l.geometry # "" \/ Definitions(l.name, v) # {})
        Far(p) == IF l.geometry # "" THEN Distance(p, l.geometry) ELSE 0
        Near(d) == Firsts(bag, l.n, LAMBDA p : LET gap == Position[p] - Position[d.placeid] IN
                                                IF gap < 0 THEN -gap ELSE gap) IN
    CASE l.n < 0 -> IF asked THEN {Error} ELSE {None}
      [] l.n >= 0 /\ l.geometry # "" ->
            IF l.n > 1 /\ rows > 1 THEN {Error}
            ELSE {Filtered(bag, {v \in Value : v.place \in P}) : P \in Firsts(bag, l.n, Far)}
      [] l.n >= 0 /\ l.geometry = "" ->
            {[v \in Value |-> bag[v] * Cardinality({d \in named :
                  d \in Definitions(l.name, v) /\ v.place \in near[d]})] :
                near \in {f \in [named -> UNION {Near(d) : d \in named}] :
                             \A d \in named : f[d] \in Near(d)}}

\* addFloatTableQuery.
FloatTable(bag, l) ==
    CASE l.type = "exact" -> {ExactFloat(bag, l)}
      [] l.type \in {"nearest", "surround"} -> SurroundFloat(bag, l)
      [] l.type = "bilinear" -> {None}

\* queryReturnGrid: a name may have one row in placename_v only.
GridTable(bag, l) ==
    LET named == {p \in Naming : p.name = l.name} IN
    CASE l.geometry # "" ->
            {Filtered(bag, {v \in Value : Distance(v.place, l.geometry) <=
                               IF l.type = "exact" THEN 0 ELSE 1})}
      [] l.geometry = "" /\ Cardinality(named) > 1 -> {Error}
      [] l.geometry = "" /\ Cardinality(named) <= 1 ->
            {Filtered(bag, {v \in Value : \E p \in named : p.placeid = v.place})}

-----------------------------------------------------------------------------
\* build_query, and what may come of it: outcomes, each a bag of rows or Error.
\* The table is "float" or "grid"; with output "float", grids are not selected by
\* location.
Answers(a, table, output) ==
    LET l == Location(a.location)
        r == TimeSpecification(a.reference)
        t == TimeSpecification(a.valid)
        h == LevelSpecification(a.level)
        Given(f) == a[f] # Absent
        bag == JoinedWithProviders(a.provider)
        C == {v \in Value :
                /\ Given("reference") => v \in ReferenceTimes(r)
                /\ Given("valid") => v \in ValidTimes(t)
                /\ Given("parameter") => v \in Parameters(a.parameter)
                /\ Given("level") => v \in Levels(h)
                /\ Given("version") => v \in DataVersions(a.version)} IN
    CASE \/ \E f \in {"provider", "parameter", "version"} : BadArray(a[f])
         \/ Given("reference") /\ BadTime(r, FALSE)
         \/ Given("valid") /\ BadTime(t, TRUE)
         \/ Given("parameter") /\ \E i \in DOMAIN a.parameter : a.parameter[i] = <<>>
         \/ Given("level") /\ h = Invalid
         \/ Given("location") /\ l = Invalid -> {Error}
      [] OTHER ->
            CASE ~Given("location") \/ (table = "grid" /\ output = "float") -> {Filtered(bag, C)}
              [] Given("location") /\ table = "float" -> FloatTable(Filtered(bag, C), l)
              [] Given("location") /\ table = "grid" /\ output = "gid" ->
                     GridTable(Filtered(bag, C), l)

\* What the columns of wci.browse are grouped by; the view has a row for the name
\* that the place has at the reference time.
Column(c, v) ==
    CASE c = "dataprovider" -> v.provider
      [] c = "place" -> (CHOOSE p \in Naming : p.placeid = v.place /\ v \in ReferredTo(p)).name
      [] c = "reference" -> v.reference
      [] c = "valid" -> <<v.from, v.to>>
      [] c = "parameter" -> v.parameter
      [] c = "level" -> v.levelparameter
      [] c = "version" -> v.version

\* The rows of an outcome counted, by column, with the reference times or levels
\* between which they lie.
Browsed(rows, bag, c) ==
    LET Of(k) == {v \in rows : Column(c, v) = k} IN
    {[key |-> k,
      number |-> SumFunctionOnSet(bag, Of(k)),
      low |-> Min({IF c = "level" THEN v.levelfrom ELSE v.reference : v \in Of(k)}),
      high |-> Max({IF c = "level" THEN v.levelto ELSE v.reference : v \in Of(k)})] :
        k \in {Column(c, v) : v \in rows}}

\* getWciBrowse...QueryGrid and getWciBrowse...Query, getWciBrowse...QueryFloat;
\* wci.browse appends the one to the other.
BrowseGrids(a, c) ==
    {IF b = Error THEN {Error} ELSE Browsed({v \in Value : b[v] > 0}, b, c) : b \in Answers(a, "grid", "gid")}
BrowseFloats(a, c) ==
    {IF b = Error THEN {Error} ELSE Browsed({v \in Value : b[v] > 0}, b, c) : b \in Answers(a, "float", "float")}

-----------------------------------------------------------------------------
(* What is asked for, without reference to the queries.  A question has the *)
(* fields of the arguments: names, times, levels, versions and a location, *)
(* each Absent or what it means.                                           *)

Written(q) ==
    [q EXCEPT
        !.reference = IF @ = Absent THEN @ ELSE WrittenTime(@, <<>>),
        !.valid     = IF @ = Absent THEN @ ELSE WrittenTime(@, <<>>),
        !.level     = IF @ = Absent THEN @ ELSE WrittenLevel(@, @.indeterminate),
        !.location  = IF @ = Absent THEN @ ELSE WrittenLocation(@, @.type, <<>>)]

\* The instants, or levels, a..b of a value against the ones asked for.  A part of
\* the value may be before or after them, or all of it: where the two differ the
\* question may be read in two ways, a wide and a narrow one.
Fits(qualifier, a, b, from, to, wide) ==
    CASE qualifier = "exact" -> a..b = from..to
      [] qualifier = "inside" -> a..b \subseteq from..to
      [] qualifier = "contains" -> from..to \subseteq a..b
      [] qualifier \in {"before", "below"} -> (IF wide THEN a ELSE b) < from
      [] qualifier \in {"after", "above"} -> (IF wide THEN b ELSE a) > to
      [] qualifier = "any" -> TRUE
TimeFits(t, a, b, wide) ==
    LET from == Instant[t.from[1]]
        to == IF t.interval THEN from + Duration[t.other[1]] ELSE Instant[t.other[1]] IN
    Fits(t.indeterminate, a, b, from, to, wide)

\* The n-th version from the latest has n - 1 others after it.
Versions(v) == (v.version + 1)..v.maxversion
VersionFits(n, v) == IF n >= 0 THEN v.version = n ELSE Cardinality(Versions(v)) = -n - 1

\* All that is asked for but the location.  "any" level of a parameter is one of
\* this parameter, or, in the wide reading, of whatever parameter.
Suits(q, v, groups, wide) ==
    /\ q.provider # Absent => \E i \in DOMAIN q.provider : v.provider \in groups[q.provider[i]]
    /\ q.reference # Absent => TimeFits(q.reference, v.reference, v.reference, wide)
    /\ q.valid # Absent => TimeFits(q.valid, v.from, v.to, wide)
    /\ q.parameter # Absent => \E i \in DOMAIN q.parameter : Like(v.parameter, q.parameter[i])
    /\ q.level # Absent =>
           /\ \/ v.levelparameter = q.level.parameter
              \/ wide /\ q.level.indeterminate = "any"
           /\ Fits(q.level.indeterminate, v.levelfrom, v.levelto, q.level.from, q.level.to, wide)
    /\ q.version # Absent => \E i \in DOMAIN q.version : VersionFits(q.version[i], v)

\* No two of the names stand for the same provider.
Apart(names, groups) ==
    \A i, j \in DOMAIN names : i # j => groups[names[i]] \cap groups[names[j]] = {}

Gap(g, v) == Distance(v.place, g)

\* The locations that make a read fail: several points round one, and a name that
\* grids are selected by after it has been given to a second place.
Fails(l, table) ==
    IF table = "float" THEN l.geometry # "" /\ l.n > 1
    ELSE l.geometry = "" /\ Cardinality({p \in Naming : p.name = l.name}) > 1

\* A read selects the values that suit all of its arguments, each once, as long as
\* the providers that it names have nothing in common; and nearest gives all of
\* them at one place that none of the others is nearer than
\* (buildQuery.cpp:60-161, location.cpp:308-352).  Of the values that suit in the
\* wide reading only, nothing is said but that no others are selected.
AnswerIsRight(q, table, output, groups) ==
    LET suiting == {v \in Value : Suits(q, v, groups, TRUE)}
        surely == {v \in Value : Suits(q, v, groups, FALSE)}
        rows(b) == {v \in Value : b[v] > 0} IN
    \A b \in Answers(Written(q), table, output) :
        IF b = Error THEN q.location # Absent /\ Fails(q.location, table)
        ELSE
        /\ q.provider = Absent \/ Apart(q.provider, groups) => \A v \in Value : b[v] <= 1
        /\ rows(b) \subseteq suiting
        /\ q.location = Absent => surely \subseteq rows(b)
        /\ q.location # Absent /\ table = "float" /\ surely = suiting =>
               LET l == q.location IN
               /\ l.type = "nearest" /\ l.geometry # "" /\ suiting # {} =>
                      \E p \in {v.place : v \in suiting} :
                          /\ rows(b) = {v \in suiting : v.place = p}
                          /\ \A v \in suiting : Distance(p, l.geometry) <= Gap(l.geometry, v)
               /\ l.type = "exact" /\ l.geometry # "" =>
                      rows(b) = {v \in suiting : Gap(l.geometry, v) <= 1 /\
                                    (Gap(l.geometry, v) = 0 \/
                                     Extent[l.geometry].from # Extent[l.geometry].to)}

\* "The before keyword returns only time periods that end before the specified time
\* point", and after those that start after it (doc/user/wci_user-manual.xml:367-375,
\* against timeQuery.cpp:128-135).
PeriodsAreBeforeOrAfter(q, table, output) ==
    q.valid # Absent /\ ~q.valid.interval /\ q.valid.other = q.valid.from =>
        \A b \in Answers(Written(q), table, output) : b # Error =>
            \A v \in Value : b[v] > 0 =>
                /\ q.valid.indeterminate = "before" => v.to < Instant[q.valid.from[1]]
                /\ q.valid.indeterminate = "after" => v.from > Instant[q.valid.from[1]]

\* The question that asks for what a row of wci.browse counts.
Narrowed(q, c, r) ==
    LET At(i) == CHOOSE w \in DOMAIN Instant : Instant[w] = i
        Span(i, j) == [indeterminate |-> "exact", from |-> <<At(i)>>, other |-> <<At(j)>>,
                       interval |-> FALSE] IN
    [q EXCEPT ![IF c = "place" THEN "location" ELSE c] =
        CASE c = "place" -> [type |-> "exact", n |-> 1, geometry |-> "", name |-> r.key]
          [] c = "reference" -> Span(r.key, r.key)
          [] c = "valid" -> Span(r.key[1], r.key[2])
          [] c = "parameter" -> <<r.key>>
          [] c = "level" -> [indeterminate |-> "inside", from |-> r.low, to |-> r.high,
                             parameter |-> r.key]
          [] c = "version" -> <<r.key>>]

\* A read that asks, in addition, for what a row of wci.browse names returns as
\* many rows as it counts; but grids by the name of a place are selected without
\* regard to when it had the name (wciBrowse.c:50-63, location.cpp:253-256).
BrowseIsRight(q) ==
    \A c \in {"place", "reference", "valid", "parameter", "level", "version"} :
        /\ q[IF c = "place" THEN "location" ELSE c] = Absent /\ q.location = Absent =>
            /\ \A rows \in BrowseFloats(Written(q), c) : \A r \in rows :
                   \A b \in Answers(Written(Narrowed(q, c, r)), "float", "float") :
                       b # Error /\ SumFunction(b) = r.number
            /\ c # "place" => \A rows \in BrowseGrids(Written(q), c) : \A r \in rows :
                   \A b \in Answers(Written(Narrowed(q, c, r)), "grid", "gid") :
                       b # Error /\ SumFunction(b) = r.number
=============================================================================
