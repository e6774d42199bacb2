------------------------------ MODULE GridFile ------------------------------
(***************************************************************************)
(* Where the values of a grid are: the directory of the files of a         *)
(* database, the name of a file, and the values in it, which are read one  *)
(* at a time.                                                              *)
(*                                                                         *)
(*   src/src/blob/fileblobimpl_psql.cpp, PathGenerator.cpp                 *)
(*   src/src/blob/fileblobImpl.cpp                                         *)
(*                                                                         *)
(* A name is its digits, from the highest to the lowest, and what follows  *)
(* them; there are Digits of them where the code has 16, and a digit is a  *)
(* number below Base where it is hexadecimal.  A letter is written small,  *)
(* but read in both cases.                                                 *)
(***************************************************************************)
EXTENDS Integers, Sequences, SequencesExt

CONSTANTS Base, Digits

\* The ids are signed: a number from Half on stands for a negative id.
Size == Base ^ Digits
Half == Size \div 2

Fault(what) == [fault |-> what]

\* PathGenerator::PathGenerator: the directory is made, unless a file is there.
CanMake(path, files) == path \notin files

\* doInitializeFileStorage: without a directory or a name the session ends.
BaseStorageDirectory(data, database, files) ==
    IF data # "" /\ database # "" /\ CanMake(<<data, database>>, files)
    THEN <<data, database>> ELSE Fault("FATAL")

\* PathGenerator::operator(): digits of the id's two's complement.
FilePath(directory, id) ==
    [directory |-> directory,
     digits |-> [i \in 1..Digits |-> ((id % Size) \div Base ^ (Digits - i)) % Base],
     capital |-> FALSE, suffix |-> ".dat"]

\* What std::hex makes of digits: more than fits in a signed integer is an error.
Decoded(digits) ==
    LET n == FoldLeft(LAMBDA value, digit : Base * value + digit, 0, digits) IN
    IF n >= Half THEN Fault("decoding") ELSE [id |-> n]

\* PathGenerator::reverse.
FileId(directory, path) ==
    CASE path.directory # directory -> Fault("other database")
      [] path.directory = directory
         /\ (Len(path.digits) # Digits \/ path.suffix # ".dat") -> Fault("name")
      [] OTHER -> Decoded(path.digits)

\* readFloat_: positions count values, from 0.
ReadFloat(file, position) ==
    IF position + 1 \in DOMAIN file THEN file[position + 1] ELSE Fault("out of range")

-----------------------------------------------------------------------------
\* The id of a file is found again by the cleaner that lists the directory, in
\* whatever case somebody has written it, and the files of two ids or of two
\* databases are never the same; an id that has become negative has a file, but
\* is not found again (PathGenerator.cpp:53-85).
PathsAreRight(data, databases, ids, files) ==
    \A d, e \in {x \in databases : CanMake(<<data, x>>, files)} : \A i, j \in ids :
        LET p == BaseStorageDirectory(data, d, files)
            q == BaseStorageDirectory(data, e, files) IN
        /\ FilePath(p, i) = FilePath(q, j) <=> d = e /\ i = j
        /\ \A capital \in BOOLEAN :
               FileId(p, [FilePath(q, j) EXCEPT !.capital = capital])
                   = CASE d # e -> Fault("other database")
                       [] d = e /\ j < 0 -> Fault("decoding")
                       [] d = e /\ j >= 0 -> [id |-> j]
=============================================================================
