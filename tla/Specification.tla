--------------------------- MODULE Specification ---------------------------
(***************************************************************************)
(* The texts in which a read says where, when, at which level and of which *)
(* parameter, and how they are taken apart.                                *)
(*                                                                         *)
(*   src/src/callInterface/types/location.cpp, TimeSpecification.cpp       *)
(*   src/src/callInterface/types/LevelSpecification.cpp                    *)
(*   src/src/callInterface/types/ValueParameterType.cpp, wciNamedInteger.* *)
(*                                                                         *)
(* A text is a sequence of pieces: words, numbers, brackets, whole         *)
(* geometries, and " " for white space.  Pieces without " " between them   *)
(* are written together.                                                   *)
(***************************************************************************)
EXTENDS Integers, Sequences, FiniteSets, SequencesExt

CONSTANTS
    Small,      \* pieces with capitals -> the same in lower case
    Number,     \* pieces that are numbers -> what they are
    Geometry,   \* pieces that are geometries
    Reserved,   \* the words that geometries begin with
    Wildcard    \* "%" and "_"

Lower(p) == IF p \in DOMAIN Small THEN Small[p] ELSE p
Lowered(s) == [i \in DOMAIN s |-> Lower(s[i])]

Word(p) == p # " "
Words(s) == SelectSeq(s, Word)

\* What is left of s behind its first n words and the spaces that follow them.
After(s, n) ==
    LET words == {i \in DOMAIN s : Word(s[i])}
        rest == {i \in words : Cardinality({j \in words : j <= i}) > n} IN
    IF rest = {} THEN <<>> ELSE SubSeq(s, Min(rest), Len(s))

Invalid == [invalid |-> TRUE]
Null == "NULL"

-----------------------------------------------------------------------------
(* Locations: an interpolation, if any, and a geometry or a place name.    *)

Interpolations == <<"exact", "nearest", "surround", "bilinear">>

\* Mutant: the number in brackets is not taken.
InterpolatedAtOnce(s) ==
    LET w == Lowered(Words(s)) IN
    IF w # <<>> /\ w[1] \in ToSet(Interpolations)
    THEN [type |-> w[1], n |-> 1, rest |-> After(s, 1)]
    ELSE [type |-> "exact", n |-> 1, rest |-> After(s, 0)]

\* The parser skips white space, so that it finds a keyword at the beginning of a
\* name too.  It takes the number after "surround" before it sees the bracket
\* closed.
Interpolated(s) ==
    LET w == Lowered(Words(s))
        numbered == Len(w) >= 3 /\ w[1] = "surround" /\ w[2] = "(" /\ w[3] \in DOMAIN Number
        closed == numbered /\ Len(w) >= 4 /\ w[4] = ")" IN
    IF w # <<>> /\ w[1] \in ToSet(Interpolations)
    THEN [type |-> w[1],
          n    |-> IF numbered THEN Number[w[3]] ELSE 1,
          rest |-> After(s, IF closed THEN 4 ELSE 1)]
    ELSE [type |-> "exact", n |-> 1, rest |-> After(s, 0)]

\* No name: the word of a geometry, behind nothing but lower case and brackets.
Excluded(s) ==
    \E i \in DOMAIN s :
        /\ s[i] \in Reserved \cup Geometry
        /\ \A j \in 1..i - 1 : s[j] \notin DOMAIN Small \cup DOMAIN Number \cup Geometry

\* parseWithSpirit_.
Location(s) ==
    LET i == Interpolated(s) IN
    CASE i.rest # <<>> /\ i.rest[1] \in Geometry /\ Words(Tail(i.rest)) = <<>> ->
            [type |-> i.type, n |-> i.n, geometry |-> i.rest[1], name |-> <<>>]
      [] i.rest # <<>> /\ ~Excluded(i.rest) ->
            [type |-> i.type, n |-> i.n, geometry |-> "", name |-> Lowered(i.rest)]
      [] OTHER -> Invalid

\* packWciLocation: the columns that the database gets.
PackWciLocation(interpolation, location, isPlainGeometry) ==
    <<interpolation, location, isPlainGeometry>>

\* getWciLocation: the words of the interpolation as they were written, and the
\* geometry or the name, with the answer to which of them it is.
WciLocation(s) ==
    LET l == Location(s)
        read == Len(Words(s)) - Len(Words(Interpolated(s).rest)) IN
    IF l = Invalid THEN Invalid
    ELSE PackWciLocation(SubSeq(Lowered(Words(s)), 1, read),
                         IF l.geometry # "" THEN <<l.geometry>> ELSE l.name, l.geometry # "")

-----------------------------------------------------------------------------
(* Times: a qualifier, if any, a time, and the end or length of an interval.*)

TimeQualifiers == {"exact", "before", "after", "inside", "contains"}

\* The words that divide s in two, and have something on both sides.
Dividers(s) ==
    {i \in 3..Len(s) - 2 : Lower(s[i]) \in {"to", "for"} /\ s[i - 1] = " " /\ s[i + 1] = " "}

\* The qualifier may be in any case and stays as it is, and is one only at the very
\* beginning; TO and FOR may not.
TimeSpecification(s) ==
    LET w == Words(s)
        qualified == Len(w) > 1 /\ Lower(s[1]) \in TimeQualifiers
        t == After(s, IF qualified THEN 1 ELSE 0)
        at == IF Dividers(t) = {} THEN Len(t) + 1 ELSE Min(Dividers(t))
        from == Words(SubSeq(t, 1, at - 1))
        other == Words(SubSeq(t, at + 1, Len(t))) IN
    IF t = <<>> \/ Last(s) = " " \/ (at <= Len(t) /\ t[at] \notin {"TO", "FOR"})
    THEN Invalid
    ELSE [indeterminate |-> IF qualified THEN w[1] ELSE "exact",
          from |-> from,
          other |-> IF other = <<>> THEN from ELSE other,
          interval |-> at <= Len(t) /\ t[at] = "FOR"]

\* createTupleFromCStringArray: texts that are not there are NULL.
Cell(there, text) == IF there THEN text ELSE Null

\* timeSpec: either the end or the length is NULL.
TimeSpec(s) ==
    LET t == TimeSpecification(s) IN
    IF t = Invalid THEN Invalid
    ELSE <<t.indeterminate, t.from, Cell(~t.interval, t.other), Cell(t.interval, t.other)>>

-----------------------------------------------------------------------------
(* Levels: a qualifier, if any, one or two numbers, and a parameter.       *)

LevelQualifiers == {"exact", "below", "above", "inside", "any"}

LevelNumber(p) == p \in DOMAIN Number /\ Number[p] >= 0

\* Of parameters that are written with single spaces; none before the qualifier.
LevelSpecification(s) ==
    LET w == Lowered(Words(s))
        q == IF w # <<>> /\ w[1] \in LevelQualifiers THEN 1 ELSE 0
        two == Len(w) >= q + 3 /\ w[q + 2] = "to" /\ LevelNumber(w[q + 3]) IN
    IF Len(w) < q + 2 \/ s[1] = " " \/ ~LevelNumber(w[q + 1]) THEN Invalid
    ELSE [indeterminate |-> IF q = 1 THEN w[1] ELSE "exact",
          from |-> Number[w[q + 1]],
          to |-> IF two THEN Number[w[q + 3]] ELSE Number[w[q + 1]],
          parameter |-> SubSeq(w, (IF two THEN q + 4 ELSE q + 2), Len(w))]

-----------------------------------------------------------------------------
(* Parameters.                                                             *)

\* Runs of white space become one " ".
Collapsed(s) == SelectSeq([i \in DOMAIN s |-> IF i > 1 /\ s[i] = " " /\ s[i - 1] = " "
                                                THEN "" ELSE s[i]], LAMBDA p : p # "")

\* ValueParameterType(): "instant" at the beginning is taken away.
WithoutInstant(n) == IF IsPrefix(<<"instant", " ">>, n) THEN SubSeq(n, 3, Len(n)) ELSE n

\* normalizeWciLevelParameter and normalizeWciParameter; nothing is no name, and
\* the call fails.
LevelParameter(s) == IF s = <<>> THEN Invalid ELSE Collapsed(Lowered(s))
ValueParameter(s) == IF s = <<>> THEN Invalid ELSE WithoutInstant(Collapsed(Lowered(s)))

\* isPattern: a wildcard that no backslash stands before.
IsPattern(s) == \E i \in DOMAIN s : s[i] \in Wildcard /\ (i = 1 \/ s[i - 1] # "\\")

\* LIKE, where no backslash is used.
RECURSIVE Like(_, _)
Like(s, p) ==
    CASE p = <<>> -> s = <<>>
      [] p # <<>> /\ p[1] = "%" -> \E i \in 0..Len(s) : Like(SubSeq(s, i + 1, Len(s)), Tail(p))
      [] p # <<>> /\ p[1] # "%" ->
             s # <<>> /\ (p[1] = "_" \/ p[1] = s[1]) /\ Like(Tail(s), Tail(p))

-----------------------------------------------------------------------------
(* Indeterminate types: integers with names.                               *)

TimeTypes == <<"exact", "any", "inside", "before", "after", "contains">>
LevelTypes == <<"exact", "inside", "above", "below", "any">>

\* No text is -1; a name that is unknown throws.
ValueOf(names, p) ==
    CASE p = "" -> -1
      [] p # "" /\ Lower(p) \in ToSet(names) -> SelectInSeq(names, LAMBDA n : n = Lower(p)) - 1
      [] OTHER -> Invalid

NameOf(names, v) ==
    CASE v = -1 -> ""
      [] v \in 0..Len(names) - 1 -> names[v + 1]
      [] OTHER -> Invalid

\* levelSpec: the indeterminate type is a number from here on.
LevelSpec(s) ==
    LET h == LevelSpecification(s) IN
    IF h = Invalid THEN Invalid
    ELSE <<h.from, h.to, h.parameter, ValueOf(LevelTypes, h.indeterminate)>>

-----------------------------------------------------------------------------
(* How requests are written (doc/user/wci_user-manual.xml:240-470), and that *)
(* they are understood as they were meant.                                 *)

NumberWord(n) == CHOOSE w \in DOMAIN Number : Number[w] = n

\* k: a way to write the qualifier; gap: white space.
WrittenLocation(l, k, gap) ==
    gap \o <<k>>
        \o (IF l.type = "surround" /\ l.n # 1
             THEN gap \o <<"(">> \o gap \o <<NumberWord(l.n)>> \o gap \o <<")">> ELSE <<>>)
        \o <<" ">> \o gap \o (IF l.geometry # "" THEN <<l.geometry>> ELSE l.name)
WrittenTime(t, gap) ==
    <<t.indeterminate, " ">> \o gap \o t.from
        \o IF t.other = t.from THEN <<>>
           ELSE <<" ">> \o gap \o <<IF t.interval THEN "FOR" ELSE "TO">> \o gap \o <<" ">> \o t.other
WrittenLevel(h, k) ==
    <<k, " ", NumberWord(h.from), " ">>
        \o (IF h.to = h.from THEN <<>> ELSE <<"TO", " ", NumberWord(h.to), " ">>)
        \o h.parameter

\* Place names that a location can be asked for by: not those that begin with an
\* interpolation, a bracket or the word of a geometry, or contain that word early.
Askable(name) == Words(name)[1] \notin ToSet(Interpolations) \cup {"("} /\ ~Excluded(name)

\* A location keeps its interpolation, its number and its place, in whatever case
\* the interpolation is written and whatever white space is around it; without
\* interpolation it is exact (location.cpp:141-165).
LocationIsUnderstood(l, k, gap) ==
    Lower(k) = l.type /\ (l.geometry # "" \/ Askable(l.name)) =>
        /\ Location(WrittenLocation(l, k, gap)) = l
        /\ Tail(WciLocation(WrittenLocation(l, k, gap)))
               = IF l.geometry # "" THEN <<<<l.geometry>>, TRUE>> ELSE <<l.name, FALSE>>
        /\ l.n = 1 => LET word == WciLocation(WrittenLocation(l, k, gap))[1][1] IN
                      NameOf(Interpolations, ValueOf(Interpolations, word)) = l.type
        /\ l.type = "exact" => Location(IF l.geometry # "" THEN <<l.geometry>> ELSE l.name) = l

\* So do times, in the case that the manual uses (TimeSpecification.cpp:40-64).
TimeIsUnderstood(t, gap) ==
    LET spec == TimeSpec(WrittenTime(t, gap)) IN
    /\ TimeSpecification(WrittenTime(t, gap)) = t
    /\ spec[IF t.interval THEN 4 ELSE 3] = t.other /\ Null \in {spec[3], spec[4]}
    /\ ValueOf(TimeTypes, spec[1]) >= 0

\* And levels; their indeterminate type always has a number (levelSpec.cpp:56).
LevelIsUnderstood(h, k) ==
    Lower(k) = h.indeterminate =>
        /\ LevelSpecification(WrittenLevel(h, k)) = h
        /\ NameOf(LevelTypes, LevelSpec(WrittenLevel(h, k))[4]) = h.indeterminate

\* A parameter is found under the name that it was written with, but for names
\* that begin with "instant", which only writing takes away
\* (ValueParameterType.cpp:67-70 against parameterQuery.cpp:37-42).
ParameterIsFound(name) ==
    LET stored == ValueParameter(name) IN
    name # <<>> /\ Collapsed(name) = name /\ ~IsPrefix(<<"instant", " ">>, Lowered(name)) =>
        /\ Like(stored, Lowered(name))
        /\ ValueParameter(stored) = stored
=============================================================================
