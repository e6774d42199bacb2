---------------------------- MODULE AdminProgram ----------------------------
(***************************************************************************)
(* wdb, the program administrators use: it takes one command from its      *)
(* command line, or commands from a prompt, and performs them as           *)
(* transactions on one connection that is made when it is first needed.    *)
(* Several administrators do this at the same time.                        *)
(*                                                                         *)
(*   src/src/admin/main.cpp, ui/cmdLine/adminCommandLineInterpreter.cpp,   *)
(*   ui/cmdLine/adminCommandLineOutput.cpp, operations/adminOperations.cpp *)
(*   src/src/admin/operations/transactors/*.h                              *)
(*                                                                         *)
(* libpqxx makes several attempts at a transaction, each with a new copy   *)
(* of the transactor; when it is in doubt about a COMMIT it makes none.    *)
(* Roles and memberships are rows in tables of PostgreSQL.                 *)
(***************************************************************************)
EXTENDS Naturals, Sequences, FiniteSets, FiniteSetsExt, ReadCommitted

CONSTANTS
    Admin,      \* programs that run
    User,       \* names of roles, in lower case
    Right,      \* wdb_admin, wdb_read, wdb_write without the prefix
    Attempts,   \* attempts that libpqxx makes
    Typed       \* lines that are typed: sequences of words and " " for spaces

VARIABLES
    pc,         \* what each program does next
    shell,      \* "interactive", or "batch" when the command was an argument
    cmd,        \* the command that is performed
    left,       \* attempts that are left, this one included
    has,        \* ChangeUser::hasAdmin_, hasRead_, hasWrite_, as a set
    exists,     \* the roles in pg_user
    member,     \* the groups that roles are members of
    provider,   \* the roles with a row in wciuserdataprovider
    answer,     \* what the program said about its last command
    others,     \* history: rights given by those who have committed meanwhile
    alone       \* history: nobody has committed meanwhile

programVars == <<pc, shell, cmd, left, has, answer>>
roleVars == <<exists, member, provider>>
vars == <<programVars, roleVars, others, alone>>

-----------------------------------------------------------------------------
(* Commands *)

Usage == [name |-> "usage", user |-> "", rights |-> {}]

\* createuser NAME [admin] [write] [noread].
CreateUserCommand(words) ==
    LET options == {words[i] : i \in 3 .. Len(words)}
    IN IF Len(words) < 2 \/ ~(options \subseteq {"admin", "write", "noread"})
         THEN Usage
         ELSE [name |-> "createuser", user |-> words[2],
               rights |-> (options \cup {"read"}) \ (IF "noread" \in options
                                                       THEN {"read", "noread"} ELSE {})]

\* changeuser NAME [admin] [write] [read].
ChangeUserCommand(words) ==
    LET options == {words[i] : i \in 3 .. Len(words)}
    IN IF Len(words) < 2 \/ ~(options \subseteq {"admin", "write", "read"})
         THEN Usage
         ELSE [name |-> "changeuser", user |-> words[2], rights |-> options]

DropUserCommand(words) ==
    IF Len(words) = 2 THEN [name |-> "dropuser", user |-> words[2], rights |-> {}] ELSE Usage

\* Commands that take a number of words, and change no role.  stats of an unknown
\* kind answers as if it were used wrongly.
Plain == [help |-> 0, quit |-> 0, testclean |-> 1, vacuum |-> 1, stats |-> 2, createdb |-> 2,
          dropdb |-> 2]
PlainCommand(words) ==
    IF /\ Plain[words[1]] \in {0, Len(words)}
       /\ words[1] = "stats" => words[2] \in {"table", "index", "io"}
      THEN [name |-> words[1], user |-> "", rights |-> {}] ELSE Usage

\* readLine: spaces around the line are cut off; every other one ends a word, so
\* that two of them have an empty word between them.
Trimmed(line) ==
    LET written == {i \in DOMAIN line : line[i] # " "}
    IN IF written = {} THEN <<>> ELSE SubSeq(line, Min(written), Max(written))
ReadLine(line) ==
    LET t == Trimmed(line)
    IN SelectSeq([i \in DOMAIN t |-> IF t[i] = " " /\ t[i - 1] = " " THEN "" ELSE t[i]],
                 LAMBDA w : w # " ")

\* run(command): the command that a line is; unknown ones are answered like
\* those that are used wrongly.
Interpreted(words) ==
    CASE words[1] = "createuser" -> CreateUserCommand(words)
      [] words[1] = "changeuser" -> ChangeUserCommand(words)
      [] words[1] = "dropuser" -> DropUserCommand(words)
      [] words[1] \in DOMAIN Plain -> PlainCommand(words)
      [] OTHER -> Usage

\* What the program takes for the words of a line: the arguments, which the shell has
\* split, or what is typed at the prompt.
Shell == {"interactive", "batch"}
Words(s, line) == IF s = "interactive" THEN ReadLine(line)
                  ELSE SelectSeq(line, LAMBDA w : w # " ")
Command == {Interpreted(w) : w \in {Words(s, line) : s \in Shell, line \in Typed} \ {<<>>}}
ChangesRoles == {"createuser", "changeuser", "dropuser"}

ASSUME AdminConstants ==
    /\ Right \subseteq {"read", "write", "admin"}
    /\ NoProc \notin Admin
    /\ \A c \in Command : c.name \in ChangesRoles => c.user \in User

-----------------------------------------------------------------------------
(* Programs *)

NoCommand == [name |-> "none", user |-> "", rights |-> {}]

Init ==
    /\ pc = [p \in Admin |-> "ended"]
    /\ shell = [p \in Admin |-> "batch"]
    /\ cmd = [p \in Admin |-> NoCommand]
    /\ left = [p \in Admin |-> 0]
    /\ has = [p \in Admin |-> {}]
    /\ answer = [p \in Admin |-> "none"]
    /\ exists \in [User -> {Settled(TRUE), Settled(FALSE)}]
    /\ member \in [User \X Right -> {Settled(TRUE), Settled(FALSE)}]
    /\ \A x \in User \X Right : member[x].now => exists[x[1]].now
    /\ provider = [u \in User |-> Settled(FALSE)]
    /\ others = [p \in Admin |-> {}]
    /\ alone = [p \in Admin |-> TRUE]

\* main: with a command as arguments, or without one.
StartProgram(p) ==
    /\ pc[p] = "ended"
    /\ \E s \in Shell : shell' = [shell EXCEPT ![p] = s]
    /\ pc' = [pc EXCEPT ![p] = "prompt"]
    /\ answer' = [answer EXCEPT ![p] = "none"]
    /\ UNCHANGED <<cmd, left, has, roleVars, others, alone>>

\* The program says a ("ok", "failed", "thrown" for an exception): at the prompt
\* it goes on, otherwise it ends, with an exit status according to a.
Conclude(p, a) ==
    /\ answer' = [answer EXCEPT ![p] = a]
    /\ pc' = [pc EXCEPT ![p] = IF shell[p] = "interactive" THEN "prompt" ELSE "ended"]
    /\ cmd' = [cmd EXCEPT ![p] = NoCommand]
    /\ left' = [left EXCEPT ![p] = 0]
    /\ has' = [has EXCEPT ![p] = {}]
    /\ UNCHANGED shell

\* What AdminOperations has done about a command that changes no role: a failure
\* to clean or to read statistics is written to the log and goes no further;
\* VACUUM that cannot connect throws, and so do the scripts for databases.
Performed(name) ==
    {"done"} \cup (IF name \in {"testclean", "stats", "vacuum"} THEN {"nothing"} ELSE {})
             \cup (IF name \in {"createdb", "dropdb", "vacuum"} THEN {"thrown"} ELSE {})

\* What is said about it: testclean and vacuum report success even when they could
\* not clean; stats throws when it has nothing to print.
Said(name, outcome) ==
    CASE name \in {"createdb", "dropdb"} /\ outcome = "thrown" -> "failed"
      [] name = "stats" /\ outcome = "nothing" -> "thrown"
      [] name = "vacuum" /\ outcome = "thrown" -> "thrown"
      [] OTHER -> "ok"
Answers(c) == IF c = Usage THEN {"failed"} ELSE {Said(c.name, o) : o \in Performed(c.name)}

\* A command that changes roles begins; the other ones are over at once.  What
\* are arguments the shell has split; a line with nothing on it is ignored.
Enter(p, line) ==
    LET words == Words(shell[p], line)
        c == Interpreted(words)
    IN /\ pc[p] = "prompt" /\ words # <<>>
       /\ \/ /\ c.name \in ChangesRoles
             /\ cmd' = [cmd EXCEPT ![p] = c]
             /\ left' = [left EXCEPT ![p] = Attempts]
             /\ pc' = [pc EXCEPT ![p] = "begin"]
             /\ answer' = [answer EXCEPT ![p] = "none"]
             /\ UNCHANGED <<shell, has>>
          \/ /\ c.name \in (DOMAIN Plain \ {"quit"}) \cup {"usage"}
             /\ \E a \in Answers(c) : Conclude(p, a)
       /\ UNCHANGED <<roleVars, others, alone>>

\* quit, or the end of the input: EndOfFileInput.
Quit(p) ==
    /\ pc[p] = "prompt"
    /\ pc' = [pc EXCEPT ![p] = "ended"]
    /\ answer' = [answer EXCEPT ![p] = "ok"]
    /\ UNCHANGED <<shell, cmd, left, has, roleVars, others, alone>>

-----------------------------------------------------------------------------
(* Transactions *)

Goto(p, l) == pc' = [pc EXCEPT ![p] = l]
Name(p) == cmd[p].user
InTransaction(p) == pc[p] \notin {"ended", "prompt", "begin"}

\* An attempt: CreateUser begins a WCI session, which changes nothing here.
Begin(p) ==
    /\ pc[p] = "begin"
    /\ Goto(p, IF cmd[p].name = "changeuser" THEN "check" ELSE "look")
    /\ UNCHANGED <<shell, cmd, left, has, answer, roleVars, others, alone>>

\* query::roleExists.  Without a role to drop, DropUser throws (see Fails).
Look(p) ==
    LET found == Seen(exists, p, Name(p))
    IN /\ pc[p] = "look"
       /\ cmd[p].name = "dropuser" => found
       /\ Goto(p, IF cmd[p].name = "dropuser" THEN "drop"
                  ELSE IF found THEN "check" ELSE "create")
       /\ UNCHANGED <<shell, cmd, left, has, answer, roleVars, others, alone>>

\* CREATE ROLE, which fails when the role has come to exist.
CreateRole(p) ==
    /\ pc[p] = "create"
    /\ Free(exists, p, Name(p)) /\ ~Seen(exists, p, Name(p))
    /\ exists' = Put(exists, p, Name(p), TRUE)
    /\ Goto(p, "check")
    /\ UNCHANGED <<shell, cmd, left, has, answer, member, provider, others, alone>>

\* DROP ROLE, with its memberships.  A role that owns something is not dropped.
DropRole(p) ==
    LET u == Name(p)
    IN /\ pc[p] = "drop"
       /\ Free(exists, p, u) /\ Seen(exists, p, u)
       /\ \A r \in Right : Free(member, p, <<u, r>>)
       /\ exists' = Put(exists, p, u, FALSE)
       /\ member' = [x \in DOMAIN member |->
              IF x[1] = u THEN [now |-> member[x].now, by |-> p, next |-> FALSE] ELSE member[x]]
       /\ Goto(p, "commit")
       /\ UNCHANGED <<shell, cmd, left, has, answer, provider, others, alone>>

\* checkRoles: one query for each group.
CheckOrder == <<"read", "write", "admin">>
CheckLabel == <<"check", "check2", "check3", "change">>
CheckRole(p) == \E i \in DOMAIN CheckOrder :
    LET r == CheckOrder[i]
        found == r \in Right /\ Seen(member, p, <<Name(p), r>>)
    IN /\ pc[p] = CheckLabel[i]
       /\ has' = [has EXCEPT ![p] = IF found THEN @ \cup {r} ELSE @]
       /\ Goto(p, CheckLabel[i + 1])
       /\ UNCHANGED <<shell, cmd, left, answer, roleVars, others, alone>>

\* revokeRoles, then grantRoles: what the role has and is not to have, and what
\* it is to have and has not.  Both fail when there is no such role.
ToRevoke(p) == has[p] \ cmd[p].rights
ToGrant(p) == cmd[p].rights \ has[p]

ChangeRole(p, r, granted) ==
    LET u == Name(p)
    IN /\ pc[p] = "change"
       /\ r \in IF ToRevoke(p) # {} THEN ToRevoke(p) ELSE ToGrant(p)
       /\ granted = (r \notin has[p])
       /\ Free(exists, p, u) /\ Seen(exists, p, u)
       /\ Free(member, p, <<u, r>>)
       /\ member' = Put(member, p, <<u, r>>, granted)
       /\ has' = [has EXCEPT ![p] = IF granted THEN @ \cup {r} ELSE @ \ {r}]
       /\ UNCHANGED <<pc, shell, cmd, left, answer, exists, provider, others, alone>>

Changed(p) ==
    /\ pc[p] = "change"
    /\ ToRevoke(p) \cup ToGrant(p) = {}
    /\ Goto(p, IF cmd[p].name = "createuser" THEN "provider" ELSE "commit")
    /\ UNCHANGED <<shell, cmd, left, has, answer, roleVars, others, alone>>

\* wci.addwciuser.
AddWciUser(p) ==
    /\ pc[p] = "provider"
    /\ Free(provider, p, Name(p))
    /\ provider' = Put(provider, p, Name(p), TRUE)
    /\ Goto(p, "commit")
    /\ UNCHANGED <<shell, cmd, left, has, answer, exists, member, others, alone>>

\* What p has done is there, or as if it had never been.
CommitRoles(p) ==
    /\ exists' = Committed(exists, p)
    /\ member' = Committed(member, p)
    /\ provider' = Committed(provider, p)

RollBackRoles(p) ==
    /\ exists' = RolledBack(exists, p)
    /\ member' = RolledBack(member, p)
    /\ provider' = RolledBack(provider, p)

\* The histories of the others when p has committed; p's own are over.
Noticed(p) ==
    /\ others' = [q \in Admin |-> IF q = p THEN {} ELSE
                      IF InTransaction(q) THEN others[q] \cup cmd[p].rights ELSE others[q]]
    /\ alone' = [q \in Admin |-> IF q = p THEN TRUE ELSE
                     IF InTransaction(q) THEN FALSE ELSE alone[q]]

\* p's own history is over.
Forgets(p) ==
    /\ others' = [others EXCEPT ![p] = {}]
    /\ alone' = [alone EXCEPT ![p] = TRUE]

\* The COMMIT succeeds, or the connection is lost before its outcome is known.
Commit(p) ==
    /\ pc[p] = "commit"
    /\ CommitRoles(p)
    /\ Noticed(p)
    /\ \E a \in {"ok", "failed"} : Conclude(p, a)

\* Mutant: an attempt begins with what the last one has found.
FailsAndRemembers(p) ==
    /\ InTransaction(p) \/ pc[p] = "begin"
    /\ RollBackRoles(p)
    /\ IF left[p] = 1 THEN Conclude(p, "failed")
       ELSE /\ left' = [left EXCEPT ![p] = @ - 1]
            /\ Goto(p, "begin")
            /\ UNCHANGED <<shell, cmd, has, answer>>
    /\ Forgets(p)

\* Any statement, or the connection, fails: the attempt is undone, and libpqxx
\* makes another one.  The last failure is what the user is told of.
Fails(p) ==
    /\ InTransaction(p) \/ pc[p] = "begin"
    /\ RollBackRoles(p)
    /\ IF left[p] = 1 THEN Conclude(p, "failed")
       ELSE /\ left' = [left EXCEPT ![p] = @ - 1]
            /\ has' = [has EXCEPT ![p] = {}]
            /\ Goto(p, "begin")
            /\ UNCHANGED <<shell, cmd, answer>>
    /\ Forgets(p)

\* In doubt about the COMMIT of a transaction that PostgreSQL has undone.
DoubtfullyFails(p) ==
    /\ pc[p] = "commit"
    /\ RollBackRoles(p)
    /\ Conclude(p, "failed")
    /\ Forgets(p)

Next == \E p \in Admin :
    \/ StartProgram(p)
    \/ \E line \in Typed : Enter(p, line)
    \/ Quit(p)
    \/ Begin(p)
    \/ Look(p)
    \/ CreateRole(p)
    \/ DropRole(p)
    \/ CheckRole(p)
    \/ \E r \in Right, granted \in BOOLEAN : ChangeRole(p, r, granted)
    \/ Changed(p)
    \/ AddWciUser(p)
    \/ Commit(p)
    \/ Fails(p)
    \/ DoubtfullyFails(p)

Spec == Init /\ [][Next]_vars

-----------------------------------------------------------------------------
(* Properties *)

Rights(u) == {r \in Right : member'[<<u, r>>].now}

\* A user that the program says it has created or changed has no right that
\* neither this command nor one that was committed meanwhile asked for; and
\* when nobody else has committed meanwhile, there is the user with just the
\* rights that were asked for, whatever attempts have failed before: a created
\* user has a data provider, and one that was dropped is gone.
RightsAreAsAsked ==
    [][\A p \in Admin : answer[p] = "none" /\ answer'[p] = "ok" /\ pc[p] = "commit" =>
           /\ cmd[p].name # "dropuser" => Rights(Name(p)) \subseteq cmd[p].rights \cup others[p]
           /\ alone[p] =>
                  /\ Rights(Name(p)) = cmd[p].rights
                  /\ cmd[p].rights # {} => exists'[Name(p)].now
                  /\ cmd[p].name = "createuser" => exists'[Name(p)].now /\ provider'[Name(p)].now
                  /\ cmd[p].name = "dropuser" => ~exists'[Name(p)].now]_vars
=============================================================================
