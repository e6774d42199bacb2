--------------------------- MODULE PlaceNameProofs ---------------------------
(***************************************************************************)
(* Theorems about PlaceName, for any places, names, namespaces and times.  *)
(***************************************************************************)
EXTENDS PlaceName, TLAPS

\* Times are numbers from 0 to Infinity.
LEMMA TimesAreNumbers == \A r \in Row : r.from \in 0 .. Infinity /\ r.to \in 0 .. Infinity
BY DEF Row, Time

-----------------------------------------------------------------------------
(* What a call makes of the table *)

\* A place that has no row in U that T has not, has all its rows of T in U: the
\* trigger is not called for it, and need not be.
Keeps(T, U) ==
    \A q \in Place : (\A r \in U : r.place = q => r \in T) => \A r \in T : r.place = q => r \in U

\* A row has the name of call c for all of its time.
Covered(T, c) ==
    \E r \in T : r.place = c.place /\ r.ns = c.ns /\ r.name = c.name /\ r.from <= c.from /\ r.to >= c.to

\* The rows are names of places that had names before, or of c's.
OfKnown(U, c) == \A r \in U : r.place = c.place \/ \E s \in placename : s.place = r.place

\* Grids have their names for all time, and nothing takes that away.
GridsAlways(T) == \A r \in T : r.place \in Grids => r.from = 0 /\ r.to = Infinity

Replaces(U, c) ==
    U \subseteq Row /\ Keeps(placename, U) /\ OfKnown(U, c) /\ Covered(U, c) /\ GridsAlways(U)

\* The invariant: views are current, calls are honoured, grids have their names
\* always, and names are of places that are defined.
PInv ==
    /\ PlaceTypeOK
    /\ ViewIsCurrent
    /\ last # NoCall => Covered(placename, last)
    /\ GridsAlways(placename)
    /\ \A r \in placename \cup mv : r.place \in defined
    /\ last # NoCall => last.place \in defined

\* What has to be shown of a call that names c: the trigger then does its part.
LEMMA RenameStep ==
    ASSUME PInv, NEW U, NEW c \in Row, Replaces(U, c), Rename(U), last' = c,
           defined' = defined \cup {c.place}
    PROVE  PInv'
<1>t. PlaceTypeOK /\ c.place \in Place
    BY DEF PInv, Row
<1> DEFINE touched == {r.place : r \in U \ placename}
<1>1. /\ placename' = U
      /\ mv' = {r \in mv : r.place \notin touched} \cup UNION {View(U, p) : p \in touched}
    BY DEF Rename, Refreshed
<1>2. /\ \A r \in U : r.place \in Place
      /\ touched \subseteq Place
    BY DEF Replaces, Row
<1> HIDE DEF touched
<1>3. \A p \in Place : \A r \in View(U, p) : r.place = p
    BY DEF View
<1>4. \A r : r \in mv' <=> \/ r \in mv /\ r.place \notin touched
                           \/ \E p \in touched : r \in View(U, p)
    BY <1>1
<1>5. \A r \in U : r.place \in defined'
    BY DEF Replaces, OfKnown, PInv
<1>6. PlaceTypeOK'
    <2>1. \A p \in Place : View(U, p) \subseteq
              Row \cup [place : Place, ns : {0}, name : {Canonical}, from : {0}, to : {Infinity}]
        BY DEF View, Replaces
    <2>2. mv' \subseteq Row \cup [place : Place, ns : {0}, name : {Canonical}, from : {0}, to : {Infinity}]
        BY <1>2, <1>4, <1>t, <2>1 DEF PlaceTypeOK
    <2> QED
        BY <1>1, <1>t, <2>2 DEF PlaceTypeOK, Replaces
<1>7. ViewIsCurrent'
    <2> SUFFICES ASSUME NEW x \in U
                 PROVE  {r \in mv' : r.place = x.place} = View(U, x.place)
        BY <1>1 DEF ViewIsCurrent, View
    <2> DEFINE p == x.place
    <2>0. p \in Place
        BY <1>2
    <2>1. CASE p \in touched
        <3>1. \A r : r \in mv' /\ r.place = p <=> r \in View(U, p)
            BY <1>2, <1>3, <1>4, <2>0, <2>1
        <3> QED
            BY <3>1
    <2>2. CASE p \notin touched
        <3>1. \A r \in U : r.place = p => r \in placename
            BY <2>2 DEF touched
        <3>2. \A r \in placename : r.place = p => r \in U
            BY <2>0, <3>1 DEF Replaces, Keeps
        <3>3. View(U, p) = View(placename, p)
            BY <3>1, <3>2 DEF View
        <3>4. {r \in mv : r.place = p} = View(placename, p)
            BY <3>1 DEF PInv, ViewIsCurrent
        <3>5. \A r : r \in mv' /\ r.place = p <=> r \in mv /\ r.place = p
            BY <1>2, <1>3, <1>4, <2>2
        <3> QED
            BY <3>3, <3>4, <3>5
    <2> QED
        BY <2>1, <2>2
<1>8. \A r \in mv' : r.place \in defined'
    <2>1. \A p \in touched : p \in defined'
        BY <1>5 DEF touched
    <2> QED
        BY <1>2, <1>3, <1>4, <2>1 DEF PInv
<1> QED
    BY <1>1, <1>5, <1>6, <1>7, <1>8 DEF PInv, Replaces
-----------------------------------------------------------------------------
(* Rows that are changed *)

\* The fields of a row that is updated.
LEMMA RowChanged ==
    ASSUME NEW r \in Row, NEW a \in Time, NEW b \in Time, NEW n \in Name
    PROVE  /\ [r EXCEPT !.from = a, !.to = b] \in Row
           /\ [r EXCEPT !.from = a, !.to = b].from = a
           /\ [r EXCEPT !.from = a, !.to = b].to = b
           /\ [r EXCEPT !.from = a, !.to = b].place = r.place
           /\ [r EXCEPT !.from = a, !.to = b].ns = r.ns
           /\ [r EXCEPT !.from = a, !.to = b].name = r.name
           /\ [r EXCEPT !.from = a] = [r EXCEPT !.from = a, !.to = r.to]
           /\ [r EXCEPT !.to = b] = [r EXCEPT !.from = r.from, !.to = b]
           /\ [r EXCEPT !.name = n] \in Row
           /\ [r EXCEPT !.name = n].name = n
           /\ [r EXCEPT !.name = n].from = r.from
           /\ [r EXCEPT !.name = n].to = r.to
           /\ [r EXCEPT !.name = n].place = r.place
           /\ [r EXCEPT !.name = n].ns = r.ns
BY DEF Row

\* A row is its fields.
LEMMA SameRow ==
    ASSUME NEW r \in Row, NEW s \in Row, r.place = s.place, r.ns = s.ns, r.name = s.name,
           r.from = s.from, r.to = s.to
    PROVE  r = s
BY DEF Row

\* A change that makes rows of T only of rows that it leaves alone keeps the
\* rows of every place that it does not touch.
LEMMA ChangeKeeps ==
    ASSUME NEW T, NEW ch, DOMAIN ch = T,
           \A r \in T : ch[r].place = r.place,
           \A r \in T : ch[r] \in T => ch[r] = r
    PROVE  Keeps(T, Range(ch))
<1>1. \A r \in T : ch[r] \in Range(ch)
    BY DEF Range
<1> QED
    BY <1>1 DEF Keeps

\* A change that does nothing to its own results is such a one, as no two rows
\* have one key.
LEMMA TwiceIsOnce ==
    ASSUME NEW T, NEW ch, DOMAIN ch = T, Legal(ch),
           \A r \in T : ch[r] \in T => ch[ch[r]] = ch[r]
    PROVE  \A r \in T : ch[r] \in T => ch[r] = r
<1> SUFFICES ASSUME NEW r \in T, ch[r] \in T, ch[r] # r PROVE FALSE
    OBVIOUS
<1>1. NameKey(ch[ch[r]]) # NameKey(ch[r])
    BY DEF Legal
<1> QED
    BY <1>1

\* How a call may lie to a row of its place.
Kinds == {"extends", "inside", "early", "later", "underlaps", "overlaps"}

\* The cases, one by one.
LEMMA LiesAs ==
    ASSUME NEW c, NEW r
    PROVE  /\ Lies("extends", c, r) <=> c.from <= r.from /\ c.to >= r.to
           /\ Lies("inside", c, r) <=> c.from >= r.from /\ c.to <= r.to
           /\ Lies("early", c, r) <=> c.from <= r.from /\ c.to <= r.to
           /\ Lies("later", c, r) <=> c.from >= r.from /\ c.to >= r.to
           /\ Lies("underlaps", c, r) <=> c.from <= r.from /\ c.to <= r.to /\ c.to >= r.from
           /\ Lies("overlaps", c, r) <=> c.from >= r.from /\ c.to >= r.to /\ c.from <= r.to
<1>1. Lies("extends", c, r) <=> c.from <= r.from /\ c.to >= r.to
    BY DEF Lies
<1>2. Lies("inside", c, r) <=> c.from >= r.from /\ c.to <= r.to
    BY DEF Lies
<1>3. Lies("early", c, r) <=> c.from <= r.from /\ c.to <= r.to
    BY DEF Lies
<1>4. Lies("later", c, r) <=> c.from >= r.from /\ c.to >= r.to
    BY DEF Lies
<1>5. Lies("underlaps", c, r) <=> c.from <= r.from /\ c.to <= r.to /\ c.to >= r.from
    BY DEF Lies
<1>6. Lies("overlaps", c, r) <=> c.from >= r.from /\ c.to >= r.to /\ c.from <= r.to
    BY DEF Lies
<1> QED
    BY <1>1, <1>2, <1>3, <1>4, <1>5, <1>6

\* What an adjusted row is.
LEMMA AdjustedRow ==
    ASSUME NEW k \in Kinds, NEW c \in Row, NEW r \in Row, Lies(k, c, r)
    PROVE  LET s == Adjusted(k, c, r)
           IN /\ s \in Row /\ s.place = r.place /\ s.ns = r.ns /\ s.name = r.name
              /\ s.from <= c.from /\ s.to >= c.to
              /\ Lies(k, c, s) /\ Adjusted(k, c, s) = s
<1> DEFINE s == Adjusted(k, c, r)
<1>1. c.from \in Time /\ c.to \in Time /\ r.from \in Time /\ r.to \in Time
    BY DEF Row
<1>2. /\ \A t \in Time : t \in Int
      /\ c.from \in Int /\ c.to \in Int /\ r.from \in Int /\ r.to \in Int
    BY <1>1, PlaceConstants DEF Time
<1>3. CASE k \in {"extends", "inside"}
    <2>1. s = [r EXCEPT !.from = c.from, !.to = c.to]
        BY <1>3 DEF Adjusted
    <2> HIDE DEF s
    <2>2. /\ s \in Row /\ s.place = r.place /\ s.ns = r.ns /\ s.name = r.name
          /\ s.from = c.from /\ s.to = c.to
        BY <1>1, <2>1, RowChanged DEF Row
    <2>3. Lies(k, c, s)
        BY <1>2, <1>3, <2>2, LiesAs
    <2>4. Adjusted(k, c, s) = [s EXCEPT !.from = c.from, !.to = c.to]
        BY <1>3 DEF Adjusted
    <2>5. Adjusted(k, c, s) = s
        BY <2>2, <2>4 DEF Row
    <2> QED
        BY <1>2, <2>2, <2>3, <2>5 DEF s
<1>4. CASE k \in {"early", "underlaps"}
    <2>1. s = [r EXCEPT !.from = c.from]
        BY <1>4 DEF Adjusted
    <2> HIDE DEF s
    <2>2. /\ s \in Row /\ s.place = r.place /\ s.ns = r.ns /\ s.name = r.name
          /\ s.from = c.from /\ s.to = r.to
        BY <1>1, <2>1 DEF Row
    <2>3. Lies(k, c, s) /\ c.to <= r.to
        BY <1>2, <1>4, <2>2, LiesAs
    <2>4. Adjusted(k, c, s) = [s EXCEPT !.from = c.from]
        BY <1>4 DEF Adjusted
    <2>5. Adjusted(k, c, s) = s
        BY <2>2, <2>4 DEF Row
    <2> QED
        BY <1>2, <2>2, <2>3, <2>5 DEF s
<1>5. CASE k \in {"later", "overlaps"}
    <2>1. s = [r EXCEPT !.to = c.to]
        BY <1>5 DEF Adjusted
    <2> HIDE DEF s
    <2>2. /\ s \in Row /\ s.place = r.place /\ s.ns = r.ns /\ s.name = r.name
          /\ s.from = r.from /\ s.to = c.to
        BY <1>1, <2>1 DEF Row
    <2>3. Lies(k, c, s) /\ r.from <= c.from
        BY <1>2, <1>5, <2>2, LiesAs
    <2>4. Adjusted(k, c, s) = [s EXCEPT !.to = c.to]
        BY <1>5 DEF Adjusted
    <2>5. Adjusted(k, c, s) = s
        BY <2>2, <2>4 DEF Row
    <2> QED
        BY <1>2, <2>2, <2>3, <2>5 DEF s
<1> QED
    BY <1>3, <1>4, <1>5 DEF Kinds

\* Adjusting the rows of the place itself.
LEMMA AdjustReplaces ==
    ASSUME PInv, NEW k \in Kinds, NEW c \in Row, c.place \notin Grids, NEW ch,
           NEW S, S = Fitting(k, c, Own(placename, c)), S # {},
           ch = [r \in placename |-> IF r \in S THEN Adjusted(k, c, r) ELSE r],
           Legal(ch)
    PROVE  Replaces(Range(ch), c)
<1>1. placename \subseteq Row
    BY DEF PInv, PlaceTypeOK
<1>2. S = {r \in placename : r.place = c.place /\ r.ns = c.ns /\ r.name = c.name /\ Lies(k, c, r)}
    BY DEF Fitting, Own, Namesakes
<1>3. ASSUME NEW r \in placename
      PROVE  /\ ch[r] \in Row /\ ch[r].place = r.place
             /\ ch[r] \in placename => ch[ch[r]] = ch[r]
    <2>1. CASE r \in S
        <3>1. ch[r] = Adjusted(k, c, r)
            BY <2>1
        <3> DEFINE s == Adjusted(k, c, r)
        <3>2. /\ s \in Row /\ s.place = r.place /\ s.ns = r.ns /\ s.name = r.name
              /\ Lies(k, c, s) /\ Adjusted(k, c, s) = s
            BY <1>1, <1>2, <2>1, AdjustedRow
        <3> HIDE DEF s
        <3>3. s \in placename => s \in S
            BY <1>2, <2>1, <3>2
        <3>4. ch[r] = s
            BY <3>1 DEF s
        <3> QED
            BY <3>2, <3>3, <3>4
    <2>2. CASE r \notin S
        BY <1>1, <2>2
    <2> QED
        BY <2>1, <2>2
<1>4. DOMAIN ch = placename
    OBVIOUS
<1>5. Keeps(placename, Range(ch))
    BY <1>3, <1>4, ChangeKeeps, TwiceIsOnce
<1>6. Range(ch) = {ch[r] : r \in placename}
    BY <1>4 DEF Range
<1>7. Covered(Range(ch), c)
    <2>1. PICK r \in S : TRUE
        OBVIOUS
    <2>2. r \in placename /\ r \in Row /\ Lies(k, c, r)
        BY <1>1, <1>2, <2>1
    <2>3. ch[r] = Adjusted(k, c, r)
        BY <2>1, <2>2
    <2>4. /\ ch[r].place = c.place /\ ch[r].ns = c.ns /\ ch[r].name = c.name
          /\ ch[r].from <= c.from /\ ch[r].to >= c.to
        BY <1>2, <2>1, <2>2, <2>3, AdjustedRow
    <2> QED
        BY <1>6, <2>2, <2>4 DEF Covered
<1>8. GridsAlways(Range(ch))
    <2>1. \A r \in placename : r.place \in Grids => ch[r] = r
        BY <1>2
    <2> QED
        BY <1>3, <1>6, <2>1 DEF PInv, GridsAlways
<1> QED
    BY <1>3, <1>5, <1>6, <1>7, <1>8 DEF Replaces, OfKnown

\* Inserting the row of the call.
LEMMA InsertReplaces ==
    ASSUME PInv, NEW T, NEW c \in Row, T \subseteq Row, Keeps(placename, T),
           \A r \in T : \E s \in placename : s.place = r.place,
           GridsAlways(T \cup {c})
    PROVE  Replaces(T \cup {c}, c)
<1>1. c.from <= c.from /\ c.to >= c.to
    BY TimesAreNumbers, PlaceConstants
<1> QED
    BY <1>1 DEF Replaces, OfKnown, Keeps, Covered

\* Cutting the times of other places, before and after those of the call.
LEMMA TakeOverReplaces ==
    ASSUME PInv, NEW c \in Row, c.place \notin Grids, TakeOver(c)
    PROVE  \E U : Rename(U) /\ Replaces(U, c)
<1> DEFINE others == Others(placename, c)
           S1 == Fitting("early", c, others)
           cut1 == [r \in placename |-> IF r \in S1 THEN [r EXCEPT !.from = c.to] ELSE r]
           once == Range(cut1)
           S2 == Fitting("later", c, Others(once, c))
           cut2 == [r \in once |-> IF r \in S2 THEN [r EXCEPT !.to = c.from] ELSE r]
           both == [r \in placename |-> cut2[cut1[r]]]
<1>1. Legal(cut1) /\ Legal(cut2) /\ Insert(Range(cut2), c)
    BY DEF TakeOver, Changed
<1>2. placename \subseteq Row
    BY DEF PInv, PlaceTypeOK
<1>n. /\ c.from \in Time /\ c.to \in Time
      /\ \A t \in Time : t \in Int
      /\ \A r \in Row : r.from \in Int /\ r.to \in Int
      /\ c.from <= c.to
    BY <1>1, PlaceConstants DEF Row, Time, Insert, CanInsert
<1>3. \A r \in placename : r \in S1 <=>
          r.place # c.place /\ r.ns = c.ns /\ r.name = c.name /\ c.from <= r.from /\ c.to <= r.to
    BY LiesAs DEF Fitting, Others, Own, Namesakes
<1>4. \A r \in once : r \in S2 <=>
          r.place # c.place /\ r.ns = c.ns /\ r.name = c.name /\ c.from >= r.from /\ c.to >= r.to
    BY LiesAs DEF Fitting, Others, Own, Namesakes
<1>d. DOMAIN cut1 = placename /\ DOMAIN cut2 = once /\ DOMAIN both = placename
    OBVIOUS
<1>5. ASSUME NEW r \in placename
      PROVE  /\ cut1[r] \in Row /\ cut1[r] \in once
             /\ cut1[r].place = r.place /\ cut1[r].ns = r.ns /\ cut1[r].name = r.name
             /\ cut1[r].to = r.to
             /\ cut1[r].from = IF r \in S1 THEN c.to ELSE r.from
    <2>1. cut1[r] \in once
        BY <1>d DEF Range
    <2> HIDE DEF S1
    <2>2. CASE r \in S1
        <3>1. cut1[r] = [r EXCEPT !.from = c.to]
            BY <2>2
        <3> HIDE DEF cut1
        <3> QED
            BY <1>2, <1>n, <2>1, <2>2, <3>1 DEF Row
    <2>3. CASE r \notin S1
        <3>1. cut1[r] = r
            BY <2>3
        <3> HIDE DEF cut1
        <3> QED
            BY <1>2, <2>1, <2>3, <3>1
    <2> QED
        BY <2>2, <2>3
<1>6. \A a \in once : \E r \in placename : a = cut1[r]
    BY <1>d DEF Range
<1>7. once \subseteq Row
    BY <1>5, <1>6
<1> HIDE DEF S1, cut1
<1>8. ASSUME NEW a \in once
      PROVE  /\ cut2[a] \in Row
             /\ cut2[a].place = a.place /\ cut2[a].ns = a.ns /\ cut2[a].name = a.name
             /\ cut2[a].from = a.from
             /\ cut2[a].to = IF a \in S2 THEN c.from ELSE a.to
    <2> HIDE DEF S2
    <2>1. CASE a \in S2
        <3>1. cut2[a] = [a EXCEPT !.to = c.from]
            BY <2>1
        <3> HIDE DEF cut2
        <3> QED
            BY <1>7, <1>n, <2>1, <3>1 DEF Row
    <2>2. CASE a \notin S2
        <3>1. cut2[a] = a
            BY <2>2
        <3> HIDE DEF cut2
        <3> QED
            BY <1>7, <2>2, <3>1
    <2> QED
        BY <2>1, <2>2
<1> HIDE DEF S2, cut2, once
\* What was cut off would only be cut off again.
<1>9. ASSUME NEW r \in placename, both[r] \in placename
      PROVE  both[r] = r
    <2> DEFINE a == cut1[r]
               g == cut2[a]
    <2>1. both[r] = g /\ a \in once /\ g \in placename /\ g \in Row
        BY <1>2, <1>5, <1>9
    <2>2. CASE r \in S1
        <3>1. a.from = c.to /\ a.to = r.to /\ c.to <= r.to
            BY <1>3, <1>5, <2>2
        <3>2. g.to = a.to
            BY <1>2, <1>4, <1>7, <1>8, <1>n, <2>1, <3>1
        <3>3. g = a
            BY <1>5, <1>8, <2>1, <3>2, SameRow
        <3>4. a \in S1
            BY <1>2, <1>3, <1>5, <1>n, <2>1, <2>2, <3>1, <3>3
        <3>5. cut1[a] = a
            BY <1>5, <2>1, <3>1, <3>3, <3>4, SameRow
        <3>6. r # a => NameKey(cut1[r]) # NameKey(cut1[a])
            BY <1>1, <1>d, <2>1, <3>3 DEF Legal
        <3> QED
            BY <2>1, <3>3, <3>5, <3>6
    <2>3. CASE r \notin S1
        <3>1. a = r
            BY <1>2, <1>5, <2>3, SameRow
        <3>2. CASE r \notin S2
            BY <1>2, <1>8, <2>1, <3>1, <3>2, SameRow
        <3>3. CASE r \in S2
            <4>1. /\ g.place = r.place /\ g.ns = r.ns /\ g.name = r.name
                  /\ g.from = r.from /\ g.to = c.from
                BY <1>8, <2>1, <3>1, <3>3
            <4>2. /\ r.place # c.place /\ r.ns = c.ns /\ r.name = c.name
                  /\ c.from >= r.from /\ c.to >= r.to
                BY <1>4, <2>1, <3>1, <3>3
            <4>3. g \in S1 => g.from = c.to
                BY <1>2, <1>3, <1>n, <2>1, <4>1, <4>2
            <4>4. cut1[g] = g
                BY <1>5, <2>1, <4>3, SameRow
            <4>5. g \in once
                BY <1>5, <2>1, <4>4
            <4>6. g \in S2
                BY <1>4, <1>n, <2>1, <4>1, <4>2, <4>5
            <4>7. cut2[g] = g
                BY <1>8, <2>1, <4>1, <4>5, <4>6, SameRow
            <4>8. r # g => NameKey(cut2[r]) # NameKey(cut2[g])
                BY <1>1, <1>d, <2>1, <3>1, <4>5 DEF Legal
            <4> QED
                BY <2>1, <3>1, <4>7, <4>8
        <3> QED
            BY <3>2, <3>3
    <2> QED
        BY <2>2, <2>3
<1>10. \A r \in placename : both[r] \in Row /\ both[r].place = r.place
    BY <1>5, <1>8
<1>11. Range(both) = Range(cut2)
    <2>1. \A x \in Range(both) : \E a \in once : x = cut2[a]
        BY <1>5, <1>d DEF Range
    <2>2. \A x \in Range(cut2) : \E r \in placename : x = both[r]
        BY <1>6, <1>d DEF Range
    <2> QED
        BY <2>1, <2>2, <1>d DEF Range
<1>12. Keeps(placename, Range(both))
    BY <1>9, <1>10, <1>d, ChangeKeeps
<1>13. Range(both) \subseteq Row /\ \A x \in Range(both) : \E s \in placename : s.place = x.place
    BY <1>10, <1>d DEF Range
<1>14. GridsAlways(Range(both) \cup {c})
    <2>1. ASSUME NEW r \in placename, r.place \in Grids
          PROVE  both[r] = r
        <3>1. r.from = 0 /\ r.to = Infinity
            BY <2>1 DEF PInv, GridsAlways
        <3>2. ~(r.ns = c.ns /\ r.name = c.name)
            <4>1. ~Lies("inside", c, r) \/ r \notin others
                BY DEF TakeOver, Fitting
            <4>2. c.from >= r.from /\ c.to <= r.to
                BY <1>n, <3>1, TimesAreNumbers, PlaceConstants
            <4>3. r \notin others
                BY <4>1, <4>2, LiesAs
            <4> QED
                BY <2>1, <4>3 DEF Others, Own, Namesakes
        <3>3. cut1[r] = r
            BY <1>2, <1>3, <1>5, <3>2, SameRow
        <3>4. r \in once /\ r \notin S2
            BY <1>4, <1>5, <3>2, <3>3
        <3> QED
            BY <1>2, <1>8, <3>3, <3>4, SameRow
    <2>2. \A x \in Range(both) : \E r \in placename : x = both[r]
        BY <1>d DEF Range
    <2> QED
        BY <1>10, <2>1, <2>2 DEF PInv, GridsAlways
<1>15. Replaces(Range(both) \cup {c}, c)
    BY <1>12, <1>13, <1>14, InsertReplaces
<1> QED
    BY <1>1, <1>11, <1>15 DEF Insert
-----------------------------------------------------------------------------
(* The calls *)

\* A place without a new name.
LEMMA DefinedGrows ==
    ASSUME PInv, NEW p \in Place, defined' = defined \cup {p}, UNCHANGED <<placename, mv, last>>
    PROVE  PInv'
BY DEF PInv, PlaceTypeOK, ViewIsCurrent, View, Covered

\* Inserting the row of the call, and nothing else.
LEMMA OnlyInsertReplaces ==
    ASSUME PInv, NEW c \in Row, c.place \in Grids => c.from = 0 /\ c.to = Infinity
    PROVE  Replaces(placename \cup {c}, c)
<1>0. GridsAlways(placename \cup {c})
    BY DEF PInv, GridsAlways
<1>1. placename \subseteq Row /\ Keeps(placename, placename)
    BY DEF PInv, PlaceTypeOK, Keeps
<1> QED
    BY <1>0, <1>1, InsertReplaces

\* The same as AdjustReplaces, in the words of AdjustOwn.
LEMMA AdjustOwnReplaces ==
    ASSUME PInv, NEW c \in Row, c.place \notin Grids, NEW k \in Kinds,
           LET own == Own(placename, c)
               Adjust(r) == Adjusted(k, c, r)
               change == Changed(placename, Fitting(k, c, own), Adjust)
           IN Fitting(k, c, own) # {} /\ Legal(change) /\ Rename(Range(change))
    PROVE  \E U : Rename(U) /\ Replaces(U, c)
<1> DEFINE S == Fitting(k, c, Own(placename, c))
           ch == [r \in placename |-> IF r \in S THEN Adjusted(k, c, r) ELSE r]
<1>1. S # {} /\ Legal(ch) /\ Rename(Range(ch))
    BY DEF Changed
<1> HIDE DEF S
<1>2. Replaces(Range(ch), c)
    BY <1>1, AdjustReplaces DEF S
<1> QED
    BY <1>1, <1>2

\* Points: inserted, or one of the four ways to adjust their own rows.
LEMMA PointSteps ==
    ASSUME PInv, NEW c \in Row, AddPlacePoint(c) \/ AddOrUpdatePlacePoint(c)
    PROVE  PInv'
<1>1. c.place \in Place /\ c.place \notin Grids /\ defined' = defined \cup {c.place}
    BY PlaceConstants DEF Row, AddPlacePoint, AddOrUpdatePlacePoint
<1>2. CASE UNCHANGED <<placename, mv, last>>
    BY <1>1, <1>2, DefinedGrows
<1>3. CASE last' = c /\ Rename(placename \cup {c})
    BY <1>1, <1>3, OnlyInsertReplaces, RenameStep
<1>4. CASE /\ last' = c
           /\ AdjustOwn(<<"extends", "inside", "underlaps", "overlaps">>, c, Insert(placename, c))
    <2>1. ASSUME NEW k \in Kinds,
                 LET own == Own(placename, c)
                     Adjust(r) == Adjusted(k, c, r)
                     change == Changed(placename, Fitting(k, c, own), Adjust)
                 IN Fitting(k, c, own) # {} /\ Legal(change) /\ Rename(Range(change))
          PROVE  PInv'
        BY <1>1, <1>4, <2>1, AdjustOwnReplaces, RenameStep
    <2>2. CASE Insert(placename, c)
        BY <1>3, <1>4, <2>2 DEF Insert
    <2> DEFINE kinds == <<"extends", "inside", "underlaps", "overlaps">>
    <2>3. \A i \in DOMAIN kinds : kinds[i] \in Kinds
        BY DEF Kinds
    <2> HIDE DEF kinds
    <2>4. AdjustOwn(kinds, c, Insert(placename, c))
        BY <1>4 DEF kinds
    <2> QED
        BY <2>1, <2>2, <2>3, <2>4 DEF AdjustOwn
<1> QED
    BY <1>2, <1>3, <1>4 DEF AddPlacePoint, AddOrUpdatePlacePoint, Insert

\* Polygons: the same, but others make room for a new row.
LEMMA PolygonSteps ==
    ASSUME PInv, NEW c \in Row, AddOrUpdatePlacePolygon(c)
    PROVE  PInv'
<1>1. c.place \in Place /\ c.place \notin Grids /\ defined' = defined \cup {c.place}
    BY PlaceConstants DEF Row, AddOrUpdatePlacePolygon
<1>2. CASE UNCHANGED <<placename, mv, last>>
    BY <1>1, <1>2, DefinedGrows
<1>3. CASE last' = c /\ TakeOver(c)
    BY <1>1, <1>3, TakeOverReplaces, RenameStep
<1>4. CASE /\ last' = c
           /\ AdjustOwn(<<"extends", "inside", "early", "later">>, c, TakeOver(c))
    <2>1. ASSUME NEW k \in Kinds,
                 LET own == Own(placename, c)
                     Adjust(r) == Adjusted(k, c, r)
                     change == Changed(placename, Fitting(k, c, own), Adjust)
                 IN Fitting(k, c, own) # {} /\ Legal(change) /\ Rename(Range(change))
          PROVE  PInv'
        BY <1>1, <1>4, <2>1, AdjustOwnReplaces, RenameStep
    <2>2. CASE TakeOver(c)
        BY <1>3, <1>4, <2>2
    <2> DEFINE kinds == <<"extends", "inside", "early", "later">>
    <2>3. \A i \in DOMAIN kinds : kinds[i] \in Kinds
        BY DEF Kinds
    <2> HIDE DEF kinds
    <2>4. AdjustOwn(kinds, c, TakeOver(c))
        BY <1>4 DEF kinds
    <2> QED
        BY <2>1, <2>2, <2>3, <2>4 DEF AdjustOwn
<1> QED
    BY <1>2, <1>3, <1>4 DEF AddOrUpdatePlacePolygon

\* A name for all time.
LEMMA AlwaysIsRow ==
    ASSUME NEW p \in Place, NEW k \in Namespace, NEW n \in Name
    PROVE  /\ Always(p, k, n) \in Row
           /\ Always(p, k, n).place = p /\ Always(p, k, n).ns = k /\ Always(p, k, n).name = n
           /\ Always(p, k, n).from = 0 /\ Always(p, k, n).to = Infinity
BY PlaceConstants DEF Always, Row, Time

\* A grid gets its first name in the namespace, or the one that it has is changed.
LEMMA GridStep ==
    ASSUME PInv, NEW p \in Place, NEW k \in Namespace, NEW n \in Name, AddPlaceRegularGrid(p, k, n)
    PROVE  PInv'
<1> DEFINE c == Always(p, k, n)
           mine == {r \in placename : r.place = p /\ r.ns = k}
           ch == [r \in placename |-> IF r \in mine THEN [r EXCEPT !.name = n] ELSE r]
<1>1. p \in Grids /\ defined' = defined \cup {p}
    BY DEF AddPlaceRegularGrid
<1>2. CASE UNCHANGED <<placename, mv, last>>
    BY <1>1, <1>2, DefinedGrows
<1>3. CASE last' = c /\ Insert(placename, c)
    BY <1>1, <1>3, AlwaysIsRow, OnlyInsertReplaces, RenameStep DEF Insert
<1>4. CASE last' = c /\ mine # {} /\ Legal(ch) /\ Rename(Range(ch))
    <2>1. placename \subseteq Row
        BY DEF PInv, PlaceTypeOK
    <2>d. DOMAIN ch = placename
        OBVIOUS
    <2>2. ASSUME NEW r \in placename
          PROVE  /\ ch[r] \in Row /\ ch[r].place = r.place /\ ch[r].ns = r.ns
                 /\ ch[r].from = r.from /\ ch[r].to = r.to
                 /\ ch[r].name = IF r \in mine THEN n ELSE r.name
        <3>1. CASE r \in mine
            <4>1. ch[r] = [r EXCEPT !.name = n]
                BY <3>1
            <4> HIDE DEF ch, mine
            <4> QED
                BY <2>1, <3>1, <4>1 DEF Row
        <3>2. CASE r \notin mine
            <4>1. ch[r] = r
                BY <3>2
            <4> HIDE DEF ch, mine
            <4> QED
                BY <2>1, <3>2, <4>1
        <3> QED
            BY <3>1, <3>2
    <2>3. \A r \in placename : r \in mine <=> r.place = p /\ r.ns = k
        OBVIOUS
    <2> HIDE DEF ch, mine
    <2>4. \A r \in placename : ch[r] \in placename => ch[ch[r]] = ch[r]
        <3> SUFFICES ASSUME NEW r \in placename, ch[r] \in placename PROVE ch[ch[r]] = ch[r]
            OBVIOUS
        <3>1. ch[r] \in mine <=> r \in mine
            BY <2>2, <2>3
        <3> QED
            BY <2>2, <3>1, SameRow
    <2>5. Keeps(placename, Range(ch))
        BY <1>4, <2>2, <2>4, <2>d, TwiceIsOnce, ChangeKeeps
    <2>6. Range(ch) = {ch[r] : r \in placename}
        BY <2>d DEF Range
    <2>7. GridsAlways(Range(ch))
        BY <2>2, <2>6 DEF PInv, GridsAlways
    <2>8. Covered(Range(ch), c)
        <3>1. PICK r \in mine : TRUE
            BY <1>4
        <3>2. r \in placename /\ r.place = p /\ r.ns = k
            BY DEF mine
        <3>3. r.from = 0 /\ r.to = Infinity
            BY <1>1, <3>2 DEF PInv, GridsAlways
        <3>4. /\ ch[r].place = p /\ ch[r].ns = k /\ ch[r].name = n
              /\ ch[r].from = 0 /\ ch[r].to = Infinity
            BY <2>2, <3>1, <3>2, <3>3
        <3> QED
            BY <2>6, <3>2, <3>4, AlwaysIsRow, PlaceConstants DEF Covered
    <2>9. Replaces(Range(ch), c)
        BY <2>2, <2>5, <2>6, <2>7, <2>8 DEF Replaces, OfKnown
    <2> QED
        BY <1>1, <1>4, <2>9, AlwaysIsRow, RenameStep
<1> QED
    BY <1>2, <1>3, <1>4 DEF AddPlaceRegularGrid, Changed

\* A place's names in the namespace are replaced by one for all time.
LEMMA NameStep ==
    ASSUME PInv, NEW p \in Place, NEW k \in Namespace, NEW n \in Name, SetPlaceName(p, k, n)
    PROVE  PInv'
<1> DEFINE c == Always(p, k, n)
           old == {r \in placename : r.place = p /\ r.ns = k}
           U == (placename \ old) \cup {c}
<1>1. /\ placename' = U
      /\ mv' = {r \in Purged(mv, old) : r.place # p} \cup View(U, p)
      /\ last' = c /\ defined' = defined
      /\ \E r \in mv : r.place = p
    BY DEF SetPlaceName
<1>2. /\ c \in Row /\ c.place = p /\ c.ns = k /\ c.name = n /\ c.from = 0 /\ c.to = Infinity
    BY AlwaysIsRow
<1>3. p \in defined
    BY <1>1 DEF PInv
<1>4. \A r \in old : r \in placename /\ r.place = p
    OBVIOUS
<1> HIDE DEF c, old
<1>5. \A r : r \in mv' <=> (r \in mv /\ r.place # p) \/ r \in View(U, p)
    BY <1>1, <1>4 DEF Purged
<1>6. U \subseteq Row
    BY <1>2 DEF PInv, PlaceTypeOK
<1>7. View(U, p) \subseteq Row \cup [place : Place, ns : {0}, name : {Canonical}, from : {0}, to : {Infinity}]
    BY <1>6 DEF View
<1>8. \A r \in View(U, p) : r.place = p
    BY DEF View
<1>9. PlaceTypeOK'
    BY <1>1, <1>2, <1>5, <1>6, <1>7 DEF PInv, PlaceTypeOK
<1>10. ViewIsCurrent'
    <2> SUFFICES ASSUME NEW x \in U
                 PROVE  {r \in mv' : r.place = x.place} = View(U, x.place)
        BY <1>1 DEF ViewIsCurrent, View
    <2>1. CASE x.place = p
        <3>1. \A r : r \in mv' /\ r.place = p <=> r \in View(U, p)
            BY <1>5, <1>8
        <3> QED
            BY <2>1, <3>1
    <2>2. CASE x.place # p
        <3>1. x \in placename
            BY <1>2, <2>2
        <3>2. {r \in mv : r.place = x.place} = View(placename, x.place)
            BY <3>1 DEF PInv, ViewIsCurrent
        <3>3. View(U, x.place) = View(placename, x.place)
            BY <1>2, <1>4, <2>2 DEF View
        <3>4. \A r : r \in mv' /\ r.place = x.place <=> r \in mv /\ r.place = x.place
            BY <1>5, <1>8, <2>2
        <3> QED
            BY <3>2, <3>3, <3>4
    <2> QED
        BY <2>1, <2>2
<1>11. Covered(U, c)
    BY <1>2, PlaceConstants DEF Covered
<1>12. GridsAlways(U)
    BY <1>2 DEF PInv, GridsAlways
<1>13. \A r \in U \cup mv' : r.place \in defined'
    BY <1>1, <1>2, <1>3, <1>5, <1>8 DEF PInv
<1> QED
    BY <1>1, <1>2, <1>3, <1>9, <1>10, <1>11, <1>12, <1>13 DEF PInv

\* One step per function that is called.
LEMMA PlaceInvariant ==
    PlaceSpec => []PInv
<1>1. PlaceInit => PInv
    BY DEF PlaceInit, PInv, PlaceTypeOK, ViewIsCurrent, GridsAlways
<1>2. PInv /\ [PlaceNext]_placeVars => PInv'
    <2> SUFFICES ASSUME PInv, [PlaceNext]_placeVars PROVE PInv'
        OBVIOUS
    <2>1. ASSUME NEW c \in Row, AddPlacePoint(c) PROVE PInv'
        BY <2>1, PointSteps
    <2>2. ASSUME NEW c \in Row, AddOrUpdatePlacePoint(c) PROVE PInv'
        BY <2>2, PointSteps
    <2>3. ASSUME NEW p \in Place, AddPlacePolygon(p) PROVE PInv'
        BY <2>3, DefinedGrows DEF AddPlacePolygon
    <2>4. ASSUME NEW c \in Row, AddOrUpdatePlacePolygon(c) PROVE PInv'
        BY <2>4, PolygonSteps
    <2>5. ASSUME NEW p \in Place, NEW k \in Namespace, NEW n \in Name, AddPlaceRegularGrid(p, k, n)
          PROVE  PInv'
        BY <2>5, GridStep
    <2>6. ASSUME NEW p \in Place, NEW k \in Namespace, NEW n \in Name, SetPlaceName(p, k, n)
          PROVE  PInv'
        BY <2>6, NameStep
    <2>7. CASE UNCHANGED placeVars
        BY <2>7 DEF placeVars, PInv, PlaceTypeOK, ViewIsCurrent, View
    <2> QED
        BY <2>1, <2>2, <2>3, <2>4, <2>5, <2>6, <2>7 DEF PlaceNext
<1> QED
    BY <1>1, <1>2, PTL DEF PlaceSpec

-----------------------------------------------------------------------------
(* What readers can rely on *)

\* The row that covers a call is in the view, since its place has a name.
LEMMA HonouredLemma ==
    PInv => CallIsHonoured
<1> SUFFICES ASSUME PInv, last # NoCall, NEW t \in last.from .. last.to - 1
             PROVE  last.place \in PlaceId(last.ns, last.name, t)
    BY DEF CallIsHonoured
<1>1. last \in Row
    BY DEF PInv, PlaceTypeOK
<1>2. PICK r \in placename : /\ r.place = last.place /\ r.ns = last.ns /\ r.name = last.name
                             /\ r.from <= last.from /\ r.to >= last.to
    BY DEF PInv, Covered
<1>3. r \in mv
    <2>1. r \in View(placename, r.place)
        BY DEF View
    <2>2. {s \in mv : s.place = r.place} = View(placename, r.place)
        BY DEF PInv, ViewIsCurrent
    <2> QED
        BY <2>1, <2>2
<1>4. t >= r.from /\ t < r.to
    <2>1. /\ r.from \in Int /\ r.to \in Int /\ last.from \in Int /\ last.to \in Int
        BY <1>1, PlaceConstants DEF PInv, PlaceTypeOK, Row, Time
    <2> QED
        BY <1>2, <2>1
<1> QED
    BY <1>2, <1>3, <1>4 DEF PlaceId

\* A new point has no row yet, so that every row with the name is another
\* place's; two intervals that do not clash lie one after the other.
LEMMA ClearLemma ==
    ASSUME PInv, PInv', last' # NoCall, last'.place \notin defined, AddOrUpdatePlacePoint(last'),
           NEW s \in Namesakes(placename, last')
    PROVE  last'.to <= s.from \/ s.to <= last'.from
<1>1. last' \in Row
    BY DEF PInv, PlaceTypeOK
<1>2. last'.ns # 0
    <2>1. CASE last'.ns = 0
        <3>1. last' = last
            BY <2>1 DEF AddOrUpdatePlacePoint
        <3> QED
            BY <3>1 DEF PInv
    <2> QED
        BY <2>1
<1>3. s \in placename /\ s \in Row
    BY DEF Namesakes, PInv, PlaceTypeOK
<1>4. s \in Others(placename, last')
    BY <1>3 DEF Others, Own, PInv
<1>5. ~Clash(last', s)
    BY <1>2, <1>4 DEF AddOrUpdatePlacePoint
<1>6. /\ s.from \in Int /\ s.to \in Int /\ last'.from \in Int /\ last'.to \in Int
    BY <1>1, <1>3, PlaceConstants DEF Row, Time
<1> QED
    BY <1>5, <1>6 DEF Clash

\* The tables hold rows of their types, whatever functions are called.
THEOREM PlaceTypeCorrect == PlaceSpec => []PlaceTypeOK
<1>1. PInv => PlaceTypeOK
    BY DEF PInv
<1> QED
    BY <1>1, PlaceInvariant, PTL

\* The materialized view of every place that has a name is what its definition
\* says: updateplacespec is called for new and changed rows only, and no function
\* takes a name from a place that it gives none, but setPlaceName, whose deletion
\* has a trigger of its own.
THEOREM ViewIsCurrentCorrect == PlaceSpec => []ViewIsCurrent
<1>1. PInv => ViewIsCurrent
    BY DEF PInv
<1> QED
    BY <1>1, PlaceInvariant, PTL

\* After a call that succeeds, getPlaceId finds the place under the name for all
\* of the time that was asked for.
THEOREM CallIsHonouredCorrect == PlaceSpec => []CallIsHonoured
BY HonouredLemma, PlaceInvariant, PTL

\* addOrUpdatePlacePoint never gives a new point a name that another place has
\* at the time.
THEOREM NewPointIsClearCorrect == PlaceSpec => NewPointIsClear
<1>1. PInv /\ PInv' /\ [PlaceNext]_placeVars =>
          [last' # NoCall /\ last'.place \notin defined /\ AddOrUpdatePlacePoint(last') =>
              \A s \in Namesakes(placename, last') : last'.to <= s.from \/ s.to <= last'.from]_placeVars
    BY ClearLemma
<1> QED
    BY <1>1, PlaceInvariant, PTL DEF PlaceSpec, NewPointIsClear
=============================================================================
