----------------------------- MODULE AdminProofs -----------------------------
(***************************************************************************)
(* Theorems about the programs of administrators: AdminProgram, for any    *)
(* administrators, users, attempts and typed lines, and Configuration, for *)
(* all contents of its sources.                                            *)
(***************************************************************************)
EXTENDS AdminProgram, Configuration, TLAPS

-----------------------------------------------------------------------------
(* AdminProgram *)

\* The roles that rights are given by.
Group == {"read", "write", "admin"}
Label == {"ended", "prompt", "begin", "look", "create", "drop", "check", "check2", "check3",
          "change", "provider", "commit"}

\* The groups whose members a transaction has asked for.
Checked(p) == IF pc[p] = "check2" THEN {"read"}
              ELSE IF pc[p] = "check3" THEN {"read", "write"}
              ELSE IF pc[p] \in {"change", "provider", "commit"} THEN Group ELSE {}

TypedAdmins ==
    /\ pc \in [Admin -> Label]
    /\ shell \in [Admin -> Shell]
    /\ cmd \in [Admin -> Command \cup {NoCommand}]
    /\ has \in [Admin -> SUBSET Right]
    /\ others \in [Admin -> SUBSET Group]
    /\ alone \in [Admin -> BOOLEAN]
    /\ answer \in [Admin -> {"none", "ok", "failed", "thrown"}]
    /\ exists \in Table(User, BOOLEAN, Admin)
    /\ member \in Table(User \X Right, BOOLEAN, Admin)
    /\ provider \in Table(User, BOOLEAN, Admin)

\* A transaction is about a command that fits where it is.
Directed(p) ==
    /\ pc[p] \notin {"ended", "prompt"} => cmd[p] \in Command /\ cmd[p].name \in ChangesRoles
    /\ pc[p] = "look" => cmd[p].name # "changeuser"
    /\ pc[p] = "drop" => cmd[p].name = "dropuser"
    /\ pc[p] \in {"create", "provider"} => cmd[p].name = "createuser"
    /\ pc[p] \in {"check", "check2", "check3", "change"} => cmd[p].name # "dropuser"

\* What p has changed is about its user; it grants what was asked for, to a user
\* that it sees, and a role that it drops has lost its memberships with it.
Restrained(p) ==
    /\ \A u \in User : exists[u].by = p => InTransaction(p) /\ u = Name(p)
    /\ \A u \in User : provider[u].by = p => InTransaction(p) /\ u = Name(p)
    /\ \A u \in User, r \in Right : member[<<u, r>>].by = p =>
           /\ InTransaction(p) /\ u = Name(p)
           /\ member[<<u, r>>].next => r \in cmd[p].rights /\ Seen(exists, p, u)
    /\ \A u \in User : exists[u].by = p /\ ~exists[u].next =>
           /\ pc[p] = "commit"
           /\ \A r \in Right : member[<<u, r>>].by = p /\ ~member[<<u, r>>].next

\* What p has found out is still so, but for what others have committed.
Informed(p) ==
    /\ has[p] \subseteq Checked(p)
    /\ \A r \in Checked(p) \cap Right :
           /\ Seen(member, p, <<Name(p), r>>) => r \in has[p] \cup others[p]
           /\ alone[p] /\ r \in has[p] => Seen(member, p, <<Name(p), r>>)
    /\ alone[p] => others[p] = {}
    /\ pc[p] \in {"provider", "commit"} => has[p] = cmd[p].rights
    /\ alone[p] /\ cmd[p].name = "createuser" /\ InTransaction(p)
           /\ pc[p] \notin {"look", "create"} => Seen(exists, p, Name(p))

\* What a command leaves when it has come to its COMMIT.
Finished(p) ==
    /\ pc[p] = "commit" /\ cmd[p].name = "createuser" =>
           provider[Name(p)].by = p /\ provider[Name(p)].next
    /\ pc[p] = "commit" /\ cmd[p].name = "dropuser" =>
           exists[Name(p)].by = p /\ ~exists[Name(p)].next

Own(p) == Directed(p) /\ Restrained(p) /\ Informed(p) /\ Finished(p)

\* Members are roles.
MembersExist == \A u \in User, r \in Right : member[<<u, r>>].now => exists[u].now

AInv == TypedAdmins /\ MembersExist /\ \A p \in Admin : Own(p)

\* What commands are.
LEMMA CommandsAreRight ==
    ASSUME NEW c \in Command, c.name \in ChangesRoles
    PROVE  /\ c.user \in User
           /\ c.rights \subseteq Group
           /\ c.name = "dropuser" => c.rights = {}
<1>1. c.user \in User
    BY AdminConstants
<1>2. PICK w : c = Interpreted(w)
    BY DEF Command
<1>d. DOMAIN Plain = {"help", "quit", "testclean", "vacuum", "stats", "createdb", "dropdb"}
    BY DEF Plain
<1>u. Usage.name = "usage"
    BY DEF Usage
<1>3. CASE w[1] = "createuser"
    <2>1. c = CreateUserCommand(w)
        BY <1>2, <1>3, <1>d DEF Interpreted
    <2>2. c # Usage
        BY <1>u DEF ChangesRoles
    <2> DEFINE options == {w[i] : i \in 3 .. Len(w)}
    <2>3. options \subseteq {"admin", "write", "noread"}
        BY <2>1, <2>2 DEF CreateUserCommand
    <2>4. c = [name |-> "createuser", user |-> w[2],
               rights |-> (options \cup {"read"}) \ (IF "noread" \in options
                                                       THEN {"read", "noread"} ELSE {})]
        BY <2>1, <2>2 DEF CreateUserCommand
    <2> HIDE DEF options
    <2>5. c.rights = (options \cup {"read"}) \ (IF "noread" \in options
                                                       THEN {"read", "noread"} ELSE {})
          /\ c.name = "createuser"
        BY <2>4
    <2> QED
        BY <1>1, <2>3, <2>5 DEF Group
<1>4. CASE w[1] = "changeuser"
    <2>1. c = ChangeUserCommand(w)
        BY <1>2, <1>4, <1>d DEF Interpreted
    <2>2. c # Usage
        BY <1>u DEF ChangesRoles
    <2> DEFINE options == {w[i] : i \in 3 .. Len(w)}
    <2>3. options \subseteq {"admin", "write", "read"}
        BY <2>1, <2>2 DEF ChangeUserCommand
    <2>4. c = [name |-> "changeuser", user |-> w[2], rights |-> options]
        BY <2>1, <2>2 DEF ChangeUserCommand
    <2> HIDE DEF options
    <2>5. c.rights = options /\ c.name = "changeuser"
        BY <2>4
    <2> QED
        BY <1>1, <2>3, <2>5 DEF Group
<1>5. CASE w[1] \notin {"createuser", "changeuser"}
    <2>1. c.rights = {}
        BY <1>2, <1>5 DEF Interpreted, DropUserCommand, PlainCommand, Usage
    <2> QED
        BY <1>1, <2>1
<1> QED
    BY <1>3, <1>4, <1>5

\* The tables of a transaction.
LEMMA RolesAreTyped ==
    ASSUME NEW Id, NEW t \in Table(Id, BOOLEAN, Admin), NEW p \in Admin
    PROVE  /\ Committed(t, p) \in Table(Id, BOOLEAN, Admin)
           /\ RolledBack(t, p) \in Table(Id, BOOLEAN, Admin)
           /\ \A x \in Id, s \in BOOLEAN : Put(t, p, x, s) \in Table(Id, BOOLEAN, Admin)
           /\ \A x \in Id : Seen(t, p, x) \in BOOLEAN
BY DEF Table, Put, Committed, RolledBack, Settled, Seen
-----------------------------------------------------------------------------
\* A step that leaves what the other transactions of a table have changed.
KeepsOthers(t, u, p) == \A x \in DOMAIN t :
    /\ u[x].now = t[x].now
    /\ \A q \in Admin \ {p} : /\ t[x].by = q => u[x] = t[x]
                              /\ u[x].by = q => t[x].by = q

\* Changes to rows that p may change, and its rollback, are such steps.
LEMMA ChangesKeepOthers ==
    ASSUME NEW Id, NEW t \in Table(Id, BOOLEAN, Admin), NEW p \in Admin
    PROVE  /\ KeepsOthers(t, t, p)
           /\ KeepsOthers(t, RolledBack(t, p), p)
           /\ \A x \in Id, s \in BOOLEAN : Free(t, p, x) => KeepsOthers(t, Put(t, p, x, s), p)
BY AdminConstants DEF KeepsOthers, Table, RolledBack, Settled, Free, Put

\* A step of p in which nothing is committed.
Quiet(p) ==
    /\ \A q \in Admin \ {p} :
           /\ pc'[q] = pc[q] /\ cmd'[q] = cmd[q] /\ has'[q] = has[q]
           /\ others'[q] = others[q] /\ alone'[q] = alone[q]
    /\ KeepsOthers(exists, exists', p)
    /\ KeepsOthers(member, member', p)
    /\ KeepsOthers(provider, provider', p)

\* It leaves what is said about the other programs, and who exists.
LEMMA QuietKeepsOthers ==
    ASSUME AInv, NEW p \in Admin, Quiet(p)
    PROVE  MembersExist' /\ \A q \in Admin \ {p} : Own(q)'
<1>t. /\ DOMAIN exists = User /\ DOMAIN member = User \X Right /\ DOMAIN provider = User
    BY DEF AInv, TypedAdmins, Table
<1>1. MembersExist'
    BY <1>t DEF AInv, MembersExist, Quiet, KeepsOthers
<1>2. ASSUME NEW q \in Admin \ {p} PROVE Own(q)'
    <2>1. Own(q)
        BY DEF AInv
    <2>2. /\ pc'[q] = pc[q] /\ cmd'[q] = cmd[q] /\ has'[q] = has[q]
          /\ others'[q] = others[q] /\ alone'[q] = alone[q]
        BY DEF Quiet
    <2>3. /\ \A u \in User : /\ exists'[u].by = q <=> exists[u].by = q
                             /\ exists[u].by = q => exists'[u] = exists[u]
                             /\ Seen(exists, q, u)' = Seen(exists, q, u)
          /\ \A u \in User : /\ provider'[u].by = q <=> provider[u].by = q
                             /\ provider[u].by = q => provider'[u] = provider[u]
          /\ \A x \in User \X Right : /\ member'[x].by = q <=> member[x].by = q
                                      /\ member[x].by = q => member'[x] = member[x]
                                      /\ Seen(member, q, x)' = Seen(member, q, x)
        BY <1>t DEF Quiet, KeepsOthers, Seen
    <2>4. Directed(q)'
        BY <2>1, <2>2 DEF Own, Directed
    <2>5. Restrained(q)'
        BY <2>1, <2>2, <2>3 DEF Own, Restrained, InTransaction, Name
    <2>6. pc[q] \notin {"ended", "prompt"} => Name(q) \in User
        BY <2>1, CommandsAreRight DEF Own, Directed, Name
    <2>7. Informed(q)'
        <3>1. Checked(q)' = Checked(q)
            BY <2>2 DEF Checked
        <3>2. ASSUME NEW r \in Checked(q) \cap Right
              PROVE  Seen(member, q, <<Name(q), r>>)' = Seen(member, q, <<Name(q), r>>)
            <4>1. Name(q) \in User
                BY <2>6 DEF Checked
            <4> QED
                BY <4>1, <2>2, <2>3 DEF Name
        <3>3. InTransaction(q) => Seen(exists, q, Name(q))' = Seen(exists, q, Name(q))
            BY <2>2, <2>3, <2>6 DEF Name, InTransaction
        <3> QED
            BY <2>1, <2>2, <3>1, <3>2, <3>3 DEF Own, Informed, InTransaction
    <2>8. Finished(q)'
        BY <2>1, <2>2, <2>3, <2>6 DEF Own, Finished, Name
    <2> QED
        BY <2>4, <2>5, <2>7, <2>8 DEF Own
<1> QED
    BY <1>1, <1>2
-----------------------------------------------------------------------------
\* No step changes the types.
LEMMA AdminTypes ==
    ASSUME AInv, [Next]_vars
    PROVE  TypedAdmins'
<1>t. TypedAdmins
    BY DEF AInv
<1>0. CASE UNCHANGED vars
    BY <1>0, <1>t DEF TypedAdmins, vars, programVars, roleVars
<1>c. ASSUME NEW p \in Admin, NEW a \in {"none", "ok", "failed", "thrown"}, Conclude(p, a)
      PROVE  /\ pc' \in [Admin -> Label] /\ shell' \in [Admin -> Shell]
             /\ cmd' \in [Admin -> Command \cup {NoCommand}] /\ has' \in [Admin -> SUBSET Right]
             /\ answer' \in [Admin -> {"none", "ok", "failed", "thrown"}]
    BY <1>c, <1>t DEF TypedAdmins, Conclude, Label
<1>r. ASSUME NEW p \in Admin, RollBackRoles(p)
      PROVE  /\ exists' \in Table(User, BOOLEAN, Admin)
             /\ member' \in Table(User \X Right, BOOLEAN, Admin)
             /\ provider' \in Table(User, BOOLEAN, Admin)
    BY <1>r, <1>t, RolesAreTyped DEF TypedAdmins, RollBackRoles
<1>f. ASSUME NEW p \in Admin, Forgets(p)
      PROVE  others' \in [Admin -> SUBSET Group] /\ alone' \in [Admin -> BOOLEAN]
    BY <1>f, <1>t DEF TypedAdmins, Forgets
<1>p. ASSUME NEW p \in Admin PROVE InTransaction(p) \/ pc[p] = "begin" => cmd[p] \in Command /\ Name(p) \in User
                                       /\ cmd[p].rights \subseteq Group
    <2>1. Directed(p)
        BY DEF AInv, Own
    <2> QED
        BY <2>1, CommandsAreRight DEF Directed, InTransaction, Name
<1>1. ASSUME NEW p \in Admin, StartProgram(p) PROVE TypedAdmins'
    BY <1>1, <1>t DEF TypedAdmins, StartProgram, Label, roleVars
<1>2. ASSUME NEW p \in Admin, NEW line \in Typed, Enter(p, line) PROVE TypedAdmins'
    <2> DEFINE c == Interpreted(Words(shell[p], line))
    <2>1. c \in Command
        BY <1>2, <1>t DEF TypedAdmins, Enter, Command
    <2>2. CASE /\ cmd' = [cmd EXCEPT ![p] = c]
               /\ left' = [left EXCEPT ![p] = Attempts]
               /\ pc' = [pc EXCEPT ![p] = "begin"]
               /\ answer' = [answer EXCEPT ![p] = "none"]
               /\ UNCHANGED <<shell, has>>
        <3> HIDE DEF c
        <3> QED
            BY <1>2, <1>t, <2>1, <2>2 DEF TypedAdmins, Enter, Label, roleVars
    <2>3. CASE \E a \in Answers(c) : Conclude(p, a)
        <3>1. Answers(c) \subseteq {"none", "ok", "failed", "thrown"}
            BY DEF Answers, Said
        <3>2. UNCHANGED <<exists, member, provider, others, alone>>
            BY <1>2 DEF Enter, roleVars
        <3> QED
            BY <1>c, <1>t, <2>3, <3>1, <3>2 DEF TypedAdmins
    <2> QED
        BY <1>2, <2>2, <2>3 DEF Enter
<1>3. ASSUME NEW p \in Admin, Quit(p) PROVE TypedAdmins'
    BY <1>3, <1>t DEF TypedAdmins, Quit, Label, roleVars
<1>4. ASSUME NEW p \in Admin, Begin(p) PROVE TypedAdmins'
    BY <1>4, <1>t DEF TypedAdmins, Begin, Goto, Label, roleVars
<1>5. ASSUME NEW p \in Admin, Look(p) PROVE TypedAdmins'
    <2>1. pc' \in [Admin -> Label]
        BY <1>5, <1>t DEF TypedAdmins, Look, Goto, Label
    <2> QED
        BY <1>5, <1>t, <2>1 DEF TypedAdmins, Look, roleVars
<1>6. ASSUME NEW p \in Admin, CreateRole(p) PROVE TypedAdmins'
    <2>1. exists' \in Table(User, BOOLEAN, Admin)
        BY <1>6, <1>t, <1>p, RolesAreTyped DEF TypedAdmins, CreateRole, InTransaction
    <2> QED
        BY <1>6, <1>t, <2>1 DEF TypedAdmins, CreateRole, Goto, Label
<1>7. ASSUME NEW p \in Admin, DropRole(p) PROVE TypedAdmins'
    <2>1. exists' \in Table(User, BOOLEAN, Admin)
        BY <1>7, <1>t, <1>p, RolesAreTyped DEF TypedAdmins, DropRole, InTransaction
    <2>2. member' \in Table(User \X Right, BOOLEAN, Admin)
        BY <1>7, <1>t DEF TypedAdmins, DropRole, Table
    <2> QED
        BY <1>7, <1>t, <2>1, <2>2 DEF TypedAdmins, DropRole, Goto, Label
<1>8. ASSUME NEW p \in Admin, CheckRole(p) PROVE TypedAdmins'
    <2>1. PICK i \in DOMAIN CheckOrder :
              /\ has' = [has EXCEPT ![p] = IF CheckOrder[i] \in Right /\ Seen(member, p, <<Name(p), CheckOrder[i]>>)
                                           THEN @ \cup {CheckOrder[i]} ELSE @]
              /\ Goto(p, CheckLabel[i + 1])
              /\ UNCHANGED <<shell, cmd, left, answer, roleVars, others, alone>>
        BY <1>8 DEF CheckRole
    <2>2. i \in 1 .. 3 /\ CheckLabel[i + 1] \in Label
        BY <2>1 DEF CheckOrder, CheckLabel, Label
    <2>3. has' \in [Admin -> SUBSET Right]
        BY <2>1, <1>t DEF TypedAdmins
    <2>4. pc' \in [Admin -> Label]
        BY <2>1, <2>2, <1>t DEF TypedAdmins, Goto
    <2> QED
        BY <2>1, <2>3, <2>4, <1>t DEF TypedAdmins, roleVars
<1>9. ASSUME NEW p \in Admin, NEW r \in Right, NEW granted \in BOOLEAN, ChangeRole(p, r, granted)
      PROVE  TypedAdmins'
    <2>1. member' \in Table(User \X Right, BOOLEAN, Admin)
        BY <1>9, <1>t, <1>p, RolesAreTyped DEF TypedAdmins, ChangeRole, InTransaction
    <2> QED
        BY <1>9, <1>t, <2>1 DEF TypedAdmins, ChangeRole
<1>10. ASSUME NEW p \in Admin, Changed(p) PROVE TypedAdmins'
    BY <1>10, <1>t DEF TypedAdmins, Changed, Goto, Label, roleVars
<1>11. ASSUME NEW p \in Admin, AddWciUser(p) PROVE TypedAdmins'
    <2>1. provider' \in Table(User, BOOLEAN, Admin)
        BY <1>11, <1>t, <1>p, RolesAreTyped DEF TypedAdmins, AddWciUser, InTransaction
    <2> QED
        BY <1>11, <1>t, <2>1 DEF TypedAdmins, AddWciUser, Goto, Label
<1>12. ASSUME NEW p \in Admin, Commit(p) PROVE TypedAdmins'
    <2>1. /\ exists' \in Table(User, BOOLEAN, Admin)
          /\ member' \in Table(User \X Right, BOOLEAN, Admin)
          /\ provider' \in Table(User, BOOLEAN, Admin)
        BY <1>12, <1>t, RolesAreTyped DEF TypedAdmins, Commit, CommitRoles
    <2>2. cmd[p].rights \subseteq Group
        BY <1>12, <1>p DEF Commit, InTransaction
    <2>3. others' \in [Admin -> SUBSET Group] /\ alone' \in [Admin -> BOOLEAN]
        BY <1>12, <1>t, <2>2 DEF TypedAdmins, Commit, Noticed
    <2>4. PICK a \in {"ok", "failed"} : Conclude(p, a)
        BY <1>12 DEF Commit
    <2> QED
        BY <1>c, <1>t, <2>1, <2>3, <2>4 DEF TypedAdmins
<1>13. ASSUME NEW p \in Admin, Fails(p) PROVE TypedAdmins'
    <2>1. CASE Conclude(p, "failed")
        BY <1>13, <1>c, <1>f, <1>r, <2>1 DEF Fails, TypedAdmins
    <2>2. CASE has' = [has EXCEPT ![p] = {}] /\ Goto(p, "begin") /\ UNCHANGED <<shell, cmd, answer>>
        <3>1. pc' \in [Admin -> Label] /\ has' \in [Admin -> SUBSET Right]
            BY <2>2, <1>t DEF TypedAdmins, Goto, Label
        <3> QED
            BY <1>13, <1>f, <1>r, <1>t, <2>2, <3>1 DEF Fails, TypedAdmins
    <2> QED
        BY <1>13, <2>1, <2>2 DEF Fails
<1>14. ASSUME NEW p \in Admin, DoubtfullyFails(p) PROVE TypedAdmins'
    BY <1>14, <1>c, <1>f, <1>r DEF DoubtfullyFails, TypedAdmins
<1> QED
    BY <1>0, <1>1, <1>2, <1>3, <1>4, <1>5, <1>6, <1>7, <1>8, <1>9, <1>10, <1>11, <1>12, <1>13,
       <1>14 DEF Next
-----------------------------------------------------------------------------
\* Where p is not in a transaction or has just begun one, and holds nothing.
LEMMA HoldsNothing ==
    ASSUME NEW p \in Admin,
           pc'[p] \in {"ended", "prompt", "begin", "look", "check"},
           pc'[p] \notin {"ended", "prompt"} => cmd'[p] \in Command /\ cmd'[p].name \in ChangesRoles,
           pc'[p] = "check" <=> pc'[p] \in {"look", "check"} /\ cmd'[p].name = "changeuser",
           has'[p] = {},
           alone'[p] => others'[p] = {},
           \A u \in User : exists'[u].by # p /\ provider'[u].by # p,
           \A u \in User, r \in Right : member'[<<u, r>>].by # p
    PROVE  Own(p)'
<1>1. Directed(p)'
    BY DEF Directed
<1>2. Restrained(p)'
    BY DEF Restrained
<1>3. Informed(p)'
    BY DEF Informed, Checked, InTransaction
<1>4. Finished(p)'
    BY DEF Finished
<1> QED
    BY <1>1, <1>2, <1>3, <1>4 DEF Own

\* A program that is in no transaction has changed nothing and knows nothing.
LEMMA OutsideHoldsNothing ==
    ASSUME AInv, NEW p \in Admin, ~InTransaction(p)
    PROVE  /\ \A u \in User : exists[u].by # p /\ provider[u].by # p
           /\ \A u \in User, r \in Right : member[<<u, r>>].by # p
           /\ has[p] = {}
           /\ alone[p] => others[p] = {}
<1>1. Restrained(p) /\ Informed(p)
    BY DEF AInv, Own
<1> QED
    BY <1>1 DEF Restrained, Informed, Checked, InTransaction

\* Neither has one whose transaction was rolled back.
LEMMA RolledBackHoldsNothing ==
    ASSUME AInv, NEW p \in Admin, RollBackRoles(p)
    PROVE  /\ \A u \in User : exists'[u].by # p /\ provider'[u].by # p
           /\ \A u \in User, r \in Right : member'[<<u, r>>].by # p
BY AdminConstants DEF AInv, TypedAdmins, Table, RollBackRoles, RolledBack, Settled

\* Tables that stay as they are, and a rollback, keep the changes of others.
LEMMA NothingChanges ==
    ASSUME AInv, NEW p \in Admin
    PROVE  /\ KeepsOthers(exists, exists, p)
           /\ KeepsOthers(member, member, p)
           /\ KeepsOthers(provider, provider, p)
           /\ KeepsOthers(exists, RolledBack(exists, p), p)
           /\ KeepsOthers(member, RolledBack(member, p), p)
           /\ KeepsOthers(provider, RolledBack(provider, p), p)
BY ChangesKeepOthers DEF AInv, TypedAdmins

\* Programs that start, end, read a command or begin a transaction.
LEMMA CommandSteps ==
    ASSUME AInv, NEW p \in Admin,
           StartProgram(p) \/ (\E line \in Typed : Enter(p, line)) \/ Quit(p) \/ Begin(p)
    PROVE  Quiet(p) /\ Own(p)'
<1>t. TypedAdmins /\ Directed(p)
    BY DEF AInv, Own
<1>1. ~InTransaction(p) /\ UNCHANGED <<exists, member, provider, others, alone>>
    BY DEF StartProgram, Enter, Quit, Begin, InTransaction, roleVars
<1>2. /\ \A u \in User : exists'[u].by # p /\ provider'[u].by # p
      /\ \A u \in User, r \in Right : member'[<<u, r>>].by # p
      /\ has[p] = {}
      /\ alone'[p] => others'[p] = {}
    BY <1>1, OutsideHoldsNothing
<1>3. /\ KeepsOthers(exists, exists', p)
      /\ KeepsOthers(member, member', p)
      /\ KeepsOthers(provider, provider', p)
    BY <1>1, NothingChanges
<1>4. CASE StartProgram(p)
    <2>1. pc'[p] = "prompt" /\ has' = has
        BY <1>t, <1>4 DEF StartProgram, TypedAdmins
    <2>2. Quiet(p)
        BY <1>1, <1>3, <1>4, <1>t DEF Quiet, StartProgram, TypedAdmins
    <2> QED
        BY <1>2, <2>1, <2>2, HoldsNothing
<1>5. CASE Quit(p)
    <2>1. pc'[p] = "ended" /\ has' = has
        BY <1>t, <1>5 DEF Quit, TypedAdmins
    <2>2. Quiet(p)
        BY <1>1, <1>3, <1>5, <1>t DEF Quiet, Quit, TypedAdmins
    <2> QED
        BY <1>2, <2>1, <2>2, HoldsNothing
<1>6. CASE Begin(p)
    <2>1. /\ pc'[p] \in {"look", "check"} /\ has' = has /\ cmd' = cmd
          /\ pc'[p] = "check" <=> cmd[p].name = "changeuser"
          /\ cmd[p] \in Command /\ cmd[p].name \in ChangesRoles
        BY <1>t, <1>6 DEF Begin, Goto, TypedAdmins, Directed
    <2>2. Quiet(p)
        BY <1>1, <1>3, <1>6, <1>t DEF Quiet, Begin, Goto, TypedAdmins
    <2> QED
        BY <1>2, <2>1, <2>2, HoldsNothing
<1>7. ASSUME NEW line \in Typed, Enter(p, line) PROVE Quiet(p) /\ Own(p)'
    <2> DEFINE c == Interpreted(Words(shell[p], line))
    <2>1. c \in Command
        BY <1>7, <1>t DEF TypedAdmins, Enter, Command
    <2>2. CASE /\ c.name \in ChangesRoles
               /\ cmd' = [cmd EXCEPT ![p] = c]
               /\ pc' = [pc EXCEPT ![p] = "begin"]
               /\ UNCHANGED <<shell, has>>
        <3> HIDE DEF c
        <3>1. pc'[p] = "begin" /\ cmd'[p] = c /\ has' = has
            BY <1>t, <2>2 DEF TypedAdmins
        <3>2. Quiet(p)
            BY <1>1, <1>3, <1>t, <2>2 DEF Quiet, TypedAdmins
        <3> QED
            BY <1>2, <2>1, <2>2, <3>1, <3>2, HoldsNothing
    <2>3. CASE \E a \in Answers(c) : Conclude(p, a)
        <3>1. pc'[p] \in {"prompt", "ended"} /\ has'[p] = {}
            BY <1>t, <2>3 DEF TypedAdmins, Conclude
        <3>2. Quiet(p)
            BY <1>1, <1>3, <1>t, <2>3 DEF Quiet, TypedAdmins, Conclude
        <3> QED
            BY <1>2, <3>1, <3>2, HoldsNothing
    <2> QED
        BY <1>7, <2>2, <2>3 DEF Enter
<1> QED
    BY <1>4, <1>5, <1>6, <1>7

\* Attempts that fail.
LEMMA FailureSteps ==
    ASSUME AInv, NEW p \in Admin, Fails(p) \/ DoubtfullyFails(p)
    PROVE  Quiet(p) /\ Own(p)'
<1>t. TypedAdmins /\ Directed(p)
    BY DEF AInv, Own
<1>1. RollBackRoles(p) /\ Forgets(p)
    BY DEF Fails, DoubtfullyFails
<1>2. /\ KeepsOthers(exists, exists', p)
      /\ KeepsOthers(member, member', p)
      /\ KeepsOthers(provider, provider', p)
    BY <1>1, NothingChanges DEF RollBackRoles
<1>3. /\ others'[p] = {}
      /\ \A q \in Admin \ {p} : others'[q] = others[q] /\ alone'[q] = alone[q]
    BY <1>1, <1>t DEF Forgets, TypedAdmins
<1>4. CASE Conclude(p, "failed")
    <2>1. pc'[p] \in {"prompt", "ended"} /\ has'[p] = {}
        BY <1>t, <1>4 DEF TypedAdmins, Conclude
    <2>2. Quiet(p)
        BY <1>2, <1>3, <1>4, <1>t DEF Quiet, TypedAdmins, Conclude
    <2> QED
        BY <1>1, <1>3, <2>1, <2>2, HoldsNothing, RolledBackHoldsNothing
<1>5. CASE /\ Fails(p) /\ has' = [has EXCEPT ![p] = {}] /\ Goto(p, "begin")
           /\ UNCHANGED <<shell, cmd, answer>>
    <2>1. pc'[p] = "begin" /\ has'[p] = {} /\ cmd' = cmd
        BY <1>t, <1>5 DEF TypedAdmins, Goto
    <2>2. cmd[p] \in Command /\ cmd[p].name \in ChangesRoles
        BY <1>t, <1>5 DEF Directed, Fails, InTransaction
    <2>3. Quiet(p)
        BY <1>2, <1>3, <1>5, <1>t DEF Quiet, TypedAdmins, Goto
    <2> QED
        BY <1>1, <1>3, <2>1, <2>2, <2>3, HoldsNothing, RolledBackHoldsNothing
<1> QED
    BY <1>4, <1>5 DEF Fails, DoubtfullyFails
-----------------------------------------------------------------------------
\* The transaction that p is in is about a user and its rights.
LEMMA Subject ==
    ASSUME AInv, NEW p \in Admin, pc[p] \notin {"ended", "prompt"}
    PROVE  /\ Name(p) \in User
           /\ cmd[p].rights \subseteq Group
           /\ cmd[p].name = "dropuser" => cmd[p].rights = {}
           /\ cmd[p].name \in ChangesRoles
<1>1. Directed(p)
    BY DEF AInv, Own
<1> QED
    BY <1>1, CommandsAreRight DEF Directed, Name

\* The statements of a transaction up to the first question about a right.
LEMMA LookStep ==
    ASSUME AInv, NEW p \in Admin, Look(p)
    PROVE  Quiet(p) /\ Own(p)'
<1>t. TypedAdmins /\ Own(p)
    BY DEF AInv
<1>1. /\ UNCHANGED <<cmd, has, exists, member, provider, others, alone>>
      /\ pc[p] = "look" /\ \A q \in Admin \ {p} : pc'[q] = pc[q]
    BY <1>t DEF Look, Goto, TypedAdmins, roleVars
<1>2. \/ cmd[p].name = "dropuser" /\ pc'[p] = "drop"
      \/ cmd[p].name = "createuser" /\ pc'[p] = "check" /\ Seen(exists, p, Name(p))
      \/ cmd[p].name = "createuser" /\ pc'[p] = "create"
    <2>1. cmd[p].name \in {"createuser", "dropuser"}
        BY <1>1, <1>t, Subject DEF ChangesRoles, Own, Directed
    <2> QED
        BY <1>t, <2>1 DEF Look, Goto, TypedAdmins
<1>3. Quiet(p)
    BY <1>1, NothingChanges DEF Quiet
<1>4. Directed(p)'
    BY <1>1, <1>2, <1>t DEF Own, Directed
<1>5. Restrained(p)'
    BY <1>1, <1>2, <1>t DEF Own, Restrained, InTransaction, Name, Seen
<1>6. Informed(p)'
    BY <1>1, <1>2, <1>t DEF Own, Informed, Checked, InTransaction, Name, Seen
<1>7. Finished(p)'
    BY <1>1, <1>2 DEF Finished
<1> QED
    BY <1>3, <1>4, <1>5, <1>6, <1>7 DEF Own

\* CREATE ROLE: p holds the row of a user that it now sees.
LEMMA CreateRoleStep ==
    ASSUME AInv, NEW p \in Admin, CreateRole(p)
    PROVE  Quiet(p) /\ Own(p)'
<1>t. TypedAdmins /\ Own(p)
    BY DEF AInv
<1> DEFINE u == Name(p)
<1>1. /\ UNCHANGED <<cmd, has, member, provider, others, alone>>
      /\ pc[p] = "create" /\ pc'[p] = "check" /\ \A q \in Admin \ {p} : pc'[q] = pc[q]
    BY <1>t DEF CreateRole, Goto, TypedAdmins
<1>2. u \in User /\ cmd[p].name = "createuser"
    BY <1>1, <1>t, Subject DEF Own, Directed
<1>3. /\ Free(exists, p, u) /\ exists' = Put(exists, p, u, TRUE)
      /\ exists \in Table(User, BOOLEAN, Admin)
    BY <1>t DEF CreateRole, TypedAdmins
<1> HIDE DEF u
<1>4. /\ \A v \in User : v # u => exists'[v] = exists[v]
      /\ exists'[u].by = p /\ exists'[u].next = TRUE
    BY <1>2, <1>3 DEF Put, Table
<1>5. Quiet(p)
    <2>1. KeepsOthers(exists, exists', p)
        BY <1>2, <1>3, ChangesKeepOthers
    <2> QED
        BY <1>1, <2>1, NothingChanges DEF Quiet
<1>6. Directed(p)'
    BY <1>1, <1>2, <1>t DEF Own, Directed
<1>7. Restrained(p)'
    BY <1>1, <1>2, <1>4, <1>t DEF Own, Restrained, InTransaction, Name, Seen, u
<1>8. Informed(p)'
    BY <1>1, <1>2, <1>4, <1>t DEF Own, Informed, Checked, InTransaction, Name, Seen, u
<1>9. Finished(p)'
    BY <1>1 DEF Finished
<1> QED
    BY <1>5, <1>6, <1>7, <1>8, <1>9 DEF Own

\* DROP ROLE: p holds the row of the user and those of its memberships.
LEMMA DropRoleStep ==
    ASSUME AInv, NEW p \in Admin, DropRole(p)
    PROVE  Quiet(p) /\ Own(p)'
<1>t. TypedAdmins /\ Own(p)
    BY DEF AInv
<1> DEFINE u == Name(p)
<1>1. /\ UNCHANGED <<cmd, has, provider, others, alone>>
      /\ pc[p] = "drop" /\ pc'[p] = "commit" /\ \A q \in Admin \ {p} : pc'[q] = pc[q]
    BY <1>t DEF DropRole, Goto, TypedAdmins
<1>2. u \in User /\ cmd[p].name = "dropuser" /\ cmd[p].rights = {}
    BY <1>1, <1>t, Subject DEF Own, Directed
<1>3. /\ Free(exists, p, u) /\ exists' = Put(exists, p, u, FALSE)
      /\ exists \in Table(User, BOOLEAN, Admin)
      /\ member \in Table(User \X Right, BOOLEAN, Admin)
      /\ \A r \in Right : Free(member, p, <<u, r>>)
      /\ member' = [x \in DOMAIN member |->
             IF x[1] = u THEN [now |-> member[x].now, by |-> p, next |-> FALSE] ELSE member[x]]
    BY <1>t DEF DropRole, TypedAdmins
<1> HIDE DEF u
<1>4. /\ \A v \in User : v # u => exists'[v] = exists[v]
      /\ exists'[u].by = p /\ exists'[u].next = FALSE
    BY <1>2, <1>3 DEF Put, Table
<1>5. /\ \A v \in User, r \in Right : v # u => member'[<<v, r>>] = member[<<v, r>>]
      /\ \A r \in Right : /\ member'[<<u, r>>].now = member[<<u, r>>].now
                           /\ member'[<<u, r>>].by = p
                           /\ member'[<<u, r>>].next = FALSE
    <2>1. \A v \in User, r \in Right : <<v, r>> \in DOMAIN member /\ <<v, r>>[1] = v
        BY <1>3 DEF Table
    <2> QED
        BY <1>2, <1>3, <2>1
<1>6. Quiet(p)
    <2>1. KeepsOthers(exists, exists', p)
        BY <1>2, <1>3, ChangesKeepOthers
    <2>2. KeepsOthers(member, member', p)
        <3> SUFFICES ASSUME NEW x \in User \X Right
                     PROVE  /\ member'[x].now = member[x].now
                            /\ \A q \in Admin \ {p} : /\ member[x].by = q => member'[x] = member[x]
                                                      /\ member'[x].by = q => member[x].by = q
            BY <1>3 DEF KeepsOthers, Table
        <3>1. PICK v \in User, r \in Right : x = <<v, r>>
            OBVIOUS
        <3>2. CASE v # u
            BY <1>5, <3>1, <3>2
        <3>3. CASE v = u
            <4>1. member'[x].now = member[x].now /\ member'[x].by = p
                BY <1>5, <3>1, <3>3
            <4>2. member[x].by \in {p, NoProc}
                BY <1>3, <3>1, <3>3 DEF Free
            <4> QED
                BY <4>1, <4>2, AdminConstants
        <3> QED
            BY <3>2, <3>3
    <2> QED
        BY <1>1, <2>1, <2>2, NothingChanges DEF Quiet
<1>7. Directed(p)'
    BY <1>1, <1>2, <1>t DEF Own, Directed
<1>8. Restrained(p)'
    <2>1. InTransaction(p)' /\ Name(p)' = u
        BY <1>1 DEF InTransaction, Name, u
    <2>2. \A v \in User : exists'[v].by = p => v = u
        BY <1>1, <1>4, <1>t DEF Own, Restrained, u
    <2>3. \A v \in User : provider'[v].by = p => v = u
        BY <1>1, <1>t DEF Own, Restrained, u
    <2>4. \A v \in User, r \in Right : member'[<<v, r>>].by = p => v = u
        BY <1>5, <1>t DEF Own, Restrained, u
    <2>5. \A r \in Right : member'[<<u, r>>].by = p /\ ~member'[<<u, r>>].next
        BY <1>5
    <2> QED
        BY <1>1, <2>1, <2>2, <2>3, <2>4, <2>5 DEF Restrained
<1>9. Informed(p)'
    <2>1. \A r \in Right : ~Seen(member, p, <<Name(p), r>>)'
        BY <1>1, <1>2, <1>5 DEF Seen, Name, u
    <2>2. has'[p] = {}
        BY <1>1, <1>t DEF Own, Informed, Checked
    <2> QED
        BY <1>1, <1>2, <1>t, <2>1, <2>2 DEF Own, Informed, Checked
<1>10. Finished(p)'
    BY <1>1, <1>2, <1>4 DEF Finished, Name, u
<1> QED
    BY <1>6, <1>7, <1>8, <1>9, <1>10 DEF Own

\* A question about a right adds it to what has been asked for.
LEMMA CheckRoleStep ==
    ASSUME AInv, NEW p \in Admin, CheckRole(p)
    PROVE  Quiet(p) /\ Own(p)'
<1>t. TypedAdmins /\ Own(p)
    BY DEF AInv
<1>1. PICK i \in DOMAIN CheckOrder :
          /\ pc[p] = CheckLabel[i]
          /\ has' = [has EXCEPT ![p] = IF CheckOrder[i] \in Right /\ Seen(member, p, <<Name(p), CheckOrder[i]>>)
                                       THEN @ \cup {CheckOrder[i]} ELSE @]
          /\ Goto(p, CheckLabel[i + 1])
          /\ UNCHANGED <<cmd, exists, member, provider, others, alone>>
    BY DEF CheckRole, roleVars
<1> DEFINE r == CheckOrder[i]
<1>2. /\ \A q \in Admin \ {p} : pc'[q] = pc[q] /\ has'[q] = has[q]
      /\ pc'[p] = CheckLabel[i + 1]
      /\ has'[p] = IF r \in Right /\ Seen(member, p, <<Name(p), r>>) THEN has[p] \cup {r} ELSE has[p]
    BY <1>1, <1>t DEF Goto, TypedAdmins
<1>3. /\ pc[p] \in {"check", "check2", "check3"} /\ pc'[p] \in {"check2", "check3", "change"}
      /\ r \notin Checked(p) /\ Checked(p)' = Checked(p) \cup {r}
    <2>1. CASE i = 1
        BY <1>1, <1>2, <2>1 DEF CheckLabel, CheckOrder, Checked
    <2>2. CASE i = 2
        BY <1>1, <1>2, <2>2 DEF CheckLabel, CheckOrder, Checked
    <2>3. CASE i = 3
        BY <1>1, <1>2, <2>3 DEF CheckLabel, CheckOrder, Checked, Group
    <2> QED
        BY <2>1, <2>2, <2>3 DEF CheckOrder
<1> HIDE DEF r
<1>4. Quiet(p)
    BY <1>1, <1>2, NothingChanges DEF Quiet
<1>5. Directed(p)'
    BY <1>1, <1>3, <1>t DEF Own, Directed
<1>6. Restrained(p)'
    BY <1>1, <1>3, <1>t DEF Own, Restrained, InTransaction, Name, Seen
<1>7. Informed(p)'
    <2>1. has'[p] \subseteq Checked(p)'
        BY <1>2, <1>3, <1>t DEF Own, Informed
    <2>2. ASSUME NEW g \in (Checked(p)') \cap Right
          PROVE  /\ Seen(member, p, <<Name(p), g>>)' => g \in has'[p] \cup others'[p]
                 /\ alone'[p] /\ g \in has'[p] => Seen(member, p, <<Name(p), g>>)'
        <3>1. Seen(member, p, <<Name(p), g>>)' <=> Seen(member, p, <<Name(p), g>>)
            BY <1>1 DEF Seen, Name
        <3>2. CASE g = r
            BY <1>1, <1>2, <1>3, <1>t, <3>1, <3>2 DEF Own, Informed
        <3>3. CASE g # r
            BY <1>1, <1>2, <1>3, <1>t, <3>1, <3>3 DEF Own, Informed
        <3> QED
            BY <3>2, <3>3
    <2>3. Seen(exists, p, Name(p))' <=> Seen(exists, p, Name(p))
        BY <1>1 DEF Seen, Name
    <2> QED
        BY <1>1, <1>3, <1>t, <2>1, <2>2, <2>3 DEF Own, Informed, InTransaction
<1>8. Finished(p)'
    BY <1>3 DEF Finished
<1> QED
    BY <1>4, <1>5, <1>6, <1>7, <1>8 DEF Own

\* A membership that is granted or revoked.
LEMMA ChangeRoleStep ==
    ASSUME AInv, NEW p \in Admin, NEW r \in Right, NEW granted \in BOOLEAN, ChangeRole(p, r, granted)
    PROVE  Quiet(p) /\ Own(p)'
<1>t. TypedAdmins /\ Own(p)
    BY DEF AInv
<1> DEFINE u == Name(p)
<1>1. /\ UNCHANGED <<pc, cmd, exists, provider, others, alone>>
      /\ pc[p] = "change"
      /\ \A q \in Admin \ {p} : has'[q] = has[q]
      /\ has'[p] = IF granted THEN has[p] \cup {r} ELSE has[p] \ {r}
      /\ granted => r \in cmd[p].rights
      /\ Seen(exists, p, u)
    BY <1>t DEF ChangeRole, TypedAdmins, ToGrant, ToRevoke
<1>2. u \in User
    BY <1>1, Subject
<1>3. /\ Free(member, p, <<u, r>>) /\ member' = Put(member, p, <<u, r>>, granted)
      /\ member \in Table(User \X Right, BOOLEAN, Admin)
    BY <1>t DEF ChangeRole, TypedAdmins
<1> HIDE DEF u
<1>4. /\ \A v \in User, g \in Right : <<v, g>> # <<u, r>> => member'[<<v, g>>] = member[<<v, g>>]
      /\ member'[<<u, r>>].by = p /\ member'[<<u, r>>].next = granted
    BY <1>2, <1>3 DEF Put, Table
<1>5. Quiet(p)
    <2>1. KeepsOthers(member, member', p)
        BY <1>2, <1>3, ChangesKeepOthers
    <2> QED
        BY <1>1, <2>1, NothingChanges DEF Quiet
<1>6. Directed(p)'
    BY <1>1, <1>t DEF Own, Directed
<1>7. Restrained(p)'
    <2>1. \A v \in User, g \in Right : member'[<<v, g>>].by = p =>
              /\ v = u
              /\ member'[<<v, g>>].next => g \in cmd[p].rights /\ Seen(exists, p, v)
        BY <1>1, <1>4, <1>t DEF Own, Restrained, u
    <2>2. \A v \in User : /\ exists[v].by = p => v = u /\ exists[v].next
                          /\ provider[v].by = p => v = u
        BY <1>1, <1>t DEF Own, Restrained, u
    <2>3. \A v \in User : Seen(exists, p, v)' = Seen(exists, p, v)
        BY <1>1 DEF Seen
    <2>4. InTransaction(p)' /\ Name(p)' = u
        BY <1>1 DEF InTransaction, Name, u
    <2> QED
        BY <1>1, <2>1, <2>2, <2>3, <2>4 DEF Restrained
<1>8. Informed(p)'
    <2>1. Checked(p) = Group /\ Checked(p)' = Group
        BY <1>1 DEF Checked
    <2>2. has'[p] \subseteq Group
        BY <1>1, <1>t, <2>1, AdminConstants DEF Own, Informed, Group
    <2>3. ASSUME NEW g \in Group \cap Right
          PROVE  /\ Seen(member, p, <<Name(p), g>>)' => g \in has'[p] \cup others'[p]
                 /\ alone'[p] /\ g \in has'[p] => Seen(member, p, <<Name(p), g>>)'
        <3>1. CASE g = r
            BY <1>1, <1>4, <3>1 DEF Seen, Name, u
        <3>2. CASE g # r
            <4>1. Seen(member, p, <<Name(p), g>>)' <=> Seen(member, p, <<Name(p), g>>)
                BY <1>1, <1>2, <1>4, <3>2 DEF Seen, Name, u
            <4> QED
                BY <1>1, <1>t, <2>1, <3>2, <4>1 DEF Own, Informed
        <3> QED
            BY <3>1, <3>2
    <2>4. Seen(exists, p, Name(p))'
        BY <1>1 DEF Seen, Name, u
    <2> QED
        BY <1>1, <1>t, <2>1, <2>2, <2>3, <2>4 DEF Own, Informed
<1>9. Finished(p)'
    BY <1>1 DEF Finished
<1> QED
    BY <1>5, <1>6, <1>7, <1>8, <1>9 DEF Own

\* All that was to be changed is changed: p has what was asked for.
LEMMA ChangedStep ==
    ASSUME AInv, NEW p \in Admin, Changed(p)
    PROVE  Quiet(p) /\ Own(p)'
<1>t. TypedAdmins /\ Own(p)
    BY DEF AInv
<1>1. /\ UNCHANGED <<cmd, has, exists, member, provider, others, alone>>
      /\ pc[p] = "change" /\ \A q \in Admin \ {p} : pc'[q] = pc[q]
      /\ pc'[p] = IF cmd[p].name = "createuser" THEN "provider" ELSE "commit"
      /\ has[p] = cmd[p].rights
    BY <1>t DEF Changed, Goto, TypedAdmins, roleVars, ToRevoke, ToGrant
<1>2. Quiet(p)
    BY <1>1, NothingChanges DEF Quiet
<1>3. Directed(p)'
    BY <1>1, <1>t DEF Own, Directed
<1>4. Restrained(p)'
    BY <1>1, <1>t DEF Own, Restrained, InTransaction, Name, Seen
<1>5. Informed(p)'
    BY <1>1, <1>t DEF Own, Informed, Checked, InTransaction, Name, Seen
<1>6. Finished(p)'
    BY <1>1, <1>t DEF Finished, Own, Directed
<1> QED
    BY <1>2, <1>3, <1>4, <1>5, <1>6 DEF Own

\* wci.addwciuser: p holds the row of the data provider.
LEMMA AddWciUserStep ==
    ASSUME AInv, NEW p \in Admin, AddWciUser(p)
    PROVE  Quiet(p) /\ Own(p)'
<1>t. TypedAdmins /\ Own(p)
    BY DEF AInv
<1> DEFINE u == Name(p)
<1>1. /\ UNCHANGED <<cmd, has, exists, member, others, alone>>
      /\ pc[p] = "provider" /\ pc'[p] = "commit" /\ \A q \in Admin \ {p} : pc'[q] = pc[q]
    BY <1>t DEF AddWciUser, Goto, TypedAdmins
<1>2. u \in User /\ cmd[p].name = "createuser"
    BY <1>1, <1>t, Subject DEF Own, Directed
<1>3. /\ Free(provider, p, u) /\ provider' = Put(provider, p, u, TRUE)
      /\ provider \in Table(User, BOOLEAN, Admin)
    BY <1>t DEF AddWciUser, TypedAdmins
<1> HIDE DEF u
<1>4. /\ \A v \in User : v # u => provider'[v] = provider[v]
      /\ provider'[u].by = p /\ provider'[u].next = TRUE
    BY <1>2, <1>3 DEF Put, Table
<1>5. Quiet(p)
    <2>1. KeepsOthers(provider, provider', p)
        BY <1>2, <1>3, ChangesKeepOthers
    <2> QED
        BY <1>1, <2>1, NothingChanges DEF Quiet
<1>6. Directed(p)'
    BY <1>1, <1>2, <1>t DEF Own, Directed
<1>7. Restrained(p)'
    BY <1>1, <1>2, <1>4, <1>t DEF Own, Restrained, InTransaction, Name, Seen, u
<1>8. Informed(p)'
    BY <1>1, <1>2, <1>t DEF Own, Informed, Checked, InTransaction, Name, Seen
<1>9. Finished(p)'
    BY <1>1, <1>2, <1>4 DEF Finished, Name, u
<1> QED
    BY <1>5, <1>6, <1>7, <1>8, <1>9 DEF Own
-----------------------------------------------------------------------------
\* The tables when p has committed.
LEMMA CommittedRows ==
    ASSUME NEW Id, NEW t \in Table(Id, BOOLEAN, Admin), NEW p \in Admin, NEW x \in Id
    PROVE  /\ Committed(t, p)[x].by # p
           /\ t[x].by = p => Committed(t, p)[x].now = t[x].next
           /\ t[x].by # p => Committed(t, p)[x] = t[x]
           /\ \A q \in Admin \ {p} : Committed(t, p)[x].by = q <=> t[x].by = q
BY AdminConstants DEF Table, Committed, Settled

\* A commit leaves the committed members roles, and is noticed by the others.
LEMMA CommitStep ==
    ASSUME AInv, NEW p \in Admin, Commit(p)
    PROVE  MembersExist' /\ \A q \in Admin : Own(q)'
<1>t. TypedAdmins /\ Own(p) /\ MembersExist
    BY DEF AInv
<1>1. /\ pc[p] = "commit"
      /\ pc'[p] \in {"prompt", "ended"} /\ has'[p] = {}
      /\ \A q \in Admin \ {p} : pc'[q] = pc[q] /\ cmd'[q] = cmd[q] /\ has'[q] = has[q]
    BY <1>t DEF Commit, Conclude, TypedAdmins
<1>2. /\ others'[p] = {}
      /\ \A q \in Admin \ {p} :
             /\ InTransaction(q) => others'[q] = others[q] \cup cmd[p].rights /\ ~alone'[q]
             /\ ~InTransaction(q) => others'[q] = others[q] /\ alone'[q] = alone[q]
    BY DEF Commit, Noticed
<1>e. \A u \in User :
          /\ exists'[u].by # p
          /\ exists[u].by = p => exists'[u].now = exists[u].next
          /\ exists[u].by # p => exists'[u] = exists[u]
          /\ \A q \in Admin \ {p} : exists'[u].by = q <=> exists[u].by = q
    BY <1>t, CommittedRows DEF TypedAdmins, Commit, CommitRoles
<1>v. \A u \in User :
          /\ provider'[u].by # p
          /\ provider[u].by # p => provider'[u] = provider[u]
          /\ \A q \in Admin \ {p} : provider'[u].by = q <=> provider[u].by = q
    BY <1>t, CommittedRows DEF TypedAdmins, Commit, CommitRoles
<1>m. \A u \in User, r \in Right :
          /\ member'[<<u, r>>].by # p
          /\ member[<<u, r>>].by = p => member'[<<u, r>>].now = member[<<u, r>>].next
          /\ member[<<u, r>>].by # p => member'[<<u, r>>] = member[<<u, r>>]
          /\ \A q \in Admin \ {p} : member'[<<u, r>>].by = q <=> member[<<u, r>>].by = q
    <2>1. member \in Table(User \X Right, BOOLEAN, Admin) /\ member' = Committed(member, p)
        BY <1>t DEF TypedAdmins, Commit, CommitRoles
    <2> QED
        BY <2>1, CommittedRows
<1>b. /\ \A u \in User : exists[u].now \in BOOLEAN /\ exists[u].next \in BOOLEAN
      /\ \A u \in User, r \in Right :
             member[<<u, r>>].now \in BOOLEAN /\ member[<<u, r>>].next \in BOOLEAN
    <2>1. \A u \in User, r \in Right : <<u, r>> \in User \X Right
        OBVIOUS
    <2> QED
        BY <1>t, <2>1 DEF TypedAdmins, Table
<1>3. Own(p)'
    BY <1>1, <1>2, <1>e, <1>v, <1>m, HoldsNothing
<1>4. MembersExist'
    <2> SUFFICES ASSUME NEW u \in User, NEW r \in Right, member'[<<u, r>>].now
                 PROVE  exists'[u].now
        BY DEF MembersExist
    <2>1. CASE member[<<u, r>>].by = p
        BY <1>e, <1>m, <1>t, <1>b, <2>1 DEF Own, Restrained, Seen
    <2>2. CASE member[<<u, r>>].by # p
        BY <1>e, <1>m, <1>t, <1>b, <2>2 DEF Own, Restrained, MembersExist
    <2> QED
        BY <2>1, <2>2
<1>5. ASSUME NEW q \in Admin \ {p} PROVE Own(q)'
    <2>t. Own(q) /\ q # p
        BY DEF AInv
    <2>1. Directed(q)'
        BY <1>1, <2>t DEF Own, Directed
    <2>2. Restrained(q)'
        <3>1. InTransaction(q)' = InTransaction(q) /\ Name(q)' = Name(q)
            BY <1>1 DEF InTransaction, Name
        <3>2. ASSUME NEW u \in User, NEW r \in Right, member'[<<u, r>>].by = q, member'[<<u, r>>].next
              PROVE  r \in cmd'[q].rights /\ Seen(exists, q, u)'
            <4>1. member[<<u, r>>].by = q /\ member[<<u, r>>].next
                BY <1>m, <3>2, <2>t
            <4>2. r \in cmd[q].rights /\ Seen(exists, q, u)
                BY <4>1, <2>t DEF Own, Restrained
            <4>3. CASE exists[u].by = p
                <5>1. exists[u].next
                    BY <1>t, <4>1, <4>3, <2>t DEF Own, Restrained
                <5> QED
                    BY <1>1, <1>e, <4>2, <4>3, <5>1, <2>t DEF Seen
            <4>4. CASE exists[u].by # p
                BY <1>1, <1>e, <4>2, <4>4 DEF Seen
            <4> QED
                BY <4>3, <4>4
        <3>3. \A u \in User, r \in Right : member'[<<u, r>>].by = q => InTransaction(q) /\ u = Name(q)
            BY <1>m, <2>t DEF Own, Restrained
        <3>4. \A u \in User : provider'[u].by = q => InTransaction(q) /\ u = Name(q)
            BY <1>v, <2>t DEF Own, Restrained
        <3>5. ASSUME NEW u \in User, exists'[u].by = q
              PROVE  /\ InTransaction(q) /\ u = Name(q)
                     /\ ~exists'[u].next => /\ pc'[q] = "commit"
                                            /\ \A r \in Right : member'[<<u, r>>].by = q /\ ~member'[<<u, r>>].next
            <4>1. exists[u].by = q /\ exists'[u] = exists[u]
                BY <1>e, <3>5, <2>t
            <4>2. ASSUME ~exists[u].next
                  PROVE  /\ pc[q] = "commit"
                         /\ \A r \in Right : member[<<u, r>>].by = q /\ ~member[<<u, r>>].next
                BY <4>1, <4>2, <2>t DEF Own, Restrained
            <4>3. InTransaction(q) /\ u = Name(q)
                BY <4>1, <2>t DEF Own, Restrained
            <4> QED
                BY <1>1, <1>m, <4>1, <4>2, <4>3, <2>t
        <3> QED
            BY <3>1, <3>2, <3>3, <3>4, <3>5 DEF Restrained
    <2>3. Informed(q)'
        <3>1. Checked(q)' = Checked(q)
            BY <1>1 DEF Checked
        <3>2. CASE InTransaction(q)
            <4>1. others'[q] = others[q] \cup cmd[p].rights /\ ~alone'[q]
                BY <1>2, <3>2
            <4>2. ASSUME NEW r \in Checked(q) \cap Right, Seen(member, q, <<Name(q), r>>)'
                  PROVE  r \in has'[q] \cup others'[q]
                <5>1. Name(q) \in User /\ Name(q)' = Name(q)
                    BY <1>1, <3>2, Subject DEF InTransaction, Name
                <5> DEFINE x == <<Name(q), r>>
                <5>2. CASE member[x].by = p
                    <6>1. member[x].next
                        BY <1>m, <4>2, <5>1, <5>2, <2>t DEF Seen
                    <6>2. r \in cmd[p].rights
                        BY <1>t, <5>1, <5>2, <6>1 DEF Own, Restrained
                    <6> QED
                        BY <4>1, <6>2
                <5>3. CASE member[x].by # p
                    <6>1. Seen(member, q, x)
                        BY <1>m, <4>2, <5>1, <5>3 DEF Seen
                    <6> QED
                        BY <1>1, <4>1, <6>1, <2>t DEF Own, Informed
                <5> QED
                    BY <5>2, <5>3
            <4> QED
                BY <1>1, <2>t, <3>1, <4>1, <4>2 DEF Own, Informed
        <3>3. CASE ~InTransaction(q)
            <4>1. Checked(q) = {} /\ ~InTransaction(q)' /\ pc[q] \notin {"provider", "commit"}
                BY <1>1, <3>3 DEF Checked, InTransaction
            <4> QED
                BY <1>1, <1>2, <2>t, <3>1, <3>3, <4>1 DEF Own, Informed
        <3> QED
            BY <3>2, <3>3
    <2>4. Finished(q)'
        <3>1. pc[q] = "commit" => Name(q) \in User
            BY Subject
        <3> QED
            BY <1>1, <1>e, <1>v, <2>t, <3>1 DEF Own, Finished, Name
    <2> QED
        BY <2>1, <2>2, <2>3, <2>4 DEF Own
<1> QED
    BY <1>3, <1>4, <1>5
-----------------------------------------------------------------------------
\* The invariant holds before any program has begun ...
LEMMA AdminInit ==
    ASSUME Init
    PROVE  AInv
<1>1. TypedAdmins
    <2>1. /\ exists \in Table(User, BOOLEAN, Admin)
          /\ member \in Table(User \X Right, BOOLEAN, Admin)
          /\ provider \in Table(User, BOOLEAN, Admin)
        <3> DEFINE Row == [now : BOOLEAN, by : Admin \cup {NoProc}, next : BOOLEAN]
        <3>1. Settled(TRUE) \in Row /\ Settled(FALSE) \in Row
            BY DEF Settled
        <3> HIDE DEF Row
        <3>2. /\ exists \in [User -> Row] /\ member \in [User \X Right -> Row]
              /\ provider \in [User -> Row]
            BY <3>1 DEF Init
        <3> QED
            BY <3>2 DEF Table, Row
    <2> QED
        BY <2>1 DEF Init, TypedAdmins, Label, Shell
<1>2. MembersExist
    <2>1. \A u \in User, r \in Right : <<u, r>> \in User \X Right /\ <<u, r>>[1] = u
        OBVIOUS
    <2> QED
        BY <2>1 DEF Init, MembersExist
<1>3. ASSUME NEW p \in Admin PROVE Own(p)
    <2>1. /\ \A u \in User : exists[u].by # p /\ provider[u].by # p
          /\ \A x \in User \X Right : member[x].by # p
        BY AdminConstants DEF Init, Settled
    <2>2. pc[p] = "ended" /\ has[p] = {} /\ others[p] = {}
        BY DEF Init
    <2> QED
        BY <2>1, <2>2 DEF Own, Directed, Restrained, Informed, Finished, Checked, InTransaction
<1> QED
    BY <1>1, <1>2, <1>3 DEF AInv

\* ... and after each step.
LEMMA AdminStep ==
    ASSUME AInv, [Next]_vars
    PROVE  AInv'
<1>1. TypedAdmins'
    BY AdminTypes
<1>2. CASE UNCHANGED vars
    <2>1. MembersExist'
        BY <1>2 DEF AInv, MembersExist, vars, roleVars
    <2>2. ASSUME NEW p \in Admin PROVE Own(p)'
        <3>1. Own(p)
            BY DEF AInv
        <3> QED
            BY <1>2, <3>1 DEF Own, Directed, Restrained, Informed, Finished, Checked,
               InTransaction, Name, Seen, vars, programVars, roleVars
    <2> QED
        BY <1>1, <2>1, <2>2 DEF AInv
<1>3. ASSUME NEW p \in Admin, Quiet(p) /\ Own(p)' PROVE AInv'
    BY <1>1, <1>3, QuietKeepsOthers DEF AInv
<1>4. ASSUME NEW p \in Admin, Commit(p) PROVE AInv'
    BY <1>1, <1>4, CommitStep DEF AInv
<1> QED
    BY <1>2, <1>3, <1>4, CommandSteps, FailureSteps, LookStep, CreateRoleStep, DropRoleStep,
       CheckRoleStep, ChangeRoleStep, ChangedStep, AddWciUserStep DEF Next

\* What a commit leaves for the user that it is about.
LEMMA CommitIsAsAsked ==
    ASSUME AInv, NEW p \in Admin, Commit(p)
    PROVE  /\ cmd[p].name # "dropuser" => Rights(Name(p)) \subseteq cmd[p].rights \cup others[p]
           /\ alone[p] =>
                  /\ Rights(Name(p)) = cmd[p].rights
                  /\ cmd[p].rights # {} => exists'[Name(p)].now
                  /\ cmd[p].name = "createuser" => exists'[Name(p)].now /\ provider'[Name(p)].now
                  /\ cmd[p].name = "dropuser" => ~exists'[Name(p)].now
<1> DEFINE u == Name(p)
<1>t. TypedAdmins /\ Own(p) /\ MembersExist /\ pc[p] = "commit"
    BY DEF AInv, Commit
<1>1. u \in User
    BY <1>t, Subject
<1>2. /\ exists'[u].now = Seen(exists, p, u)
      /\ provider'[u].now = Seen(provider, p, u)
      /\ \A r \in Right : member'[<<u, r>>].now = Seen(member, p, <<u, r>>)
    <2> HIDE DEF u
    <2>1. exists'[u].now = Seen(exists, p, u) /\ provider'[u].now = Seen(provider, p, u)
        BY <1>t, <1>1, CommittedRows DEF TypedAdmins, Commit, CommitRoles, Seen
    <2>2. ASSUME NEW r \in Right PROVE member'[<<u, r>>].now = Seen(member, p, <<u, r>>)
        <3>1. /\ member \in Table(User \X Right, BOOLEAN, Admin) /\ member' = Committed(member, p)
              /\ <<u, r>> \in User \X Right
            BY <1>t, <1>1 DEF TypedAdmins, Commit, CommitRoles
        <3> QED
            BY <3>1, CommittedRows DEF Seen
    <2> QED
        BY <2>1, <2>2
<1>3. /\ \A r \in Right : /\ Seen(member, p, <<u, r>>) => r \in cmd[p].rights \cup others[p]
                          /\ alone[p] /\ r \in cmd[p].rights => Seen(member, p, <<u, r>>)
      /\ alone[p] => others[p] = {}
      /\ cmd[p].rights \subseteq Right
    <2>1. Checked(p) \cap Right = Right /\ has[p] = cmd[p].rights /\ has[p] \subseteq Right
        BY <1>t, AdminConstants DEF Checked, Group, Own, Informed, TypedAdmins
    <2> QED
        BY <1>t, <2>1 DEF Own, Informed
<1>4. Rights(u) = {r \in Right : Seen(member, p, <<u, r>>)}
    BY <1>2 DEF Rights
<1>5. ASSUME NEW r \in Right, Seen(member, p, <<u, r>>) PROVE Seen(exists, p, u)
    <2>1. CASE member[<<u, r>>].by = p
        BY <1>1, <1>5, <1>t, <2>1 DEF Own, Restrained, Seen
    <2>2. CASE member[<<u, r>>].by # p
        <3>1. exists[u].now
            BY <1>1, <1>5, <1>t, <2>2 DEF MembersExist, Seen
        <3>2. exists[u].by = p => exists[u].next
            BY <1>1, <1>t, <2>2 DEF Own, Restrained
        <3> QED
            BY <3>1, <3>2 DEF Seen
    <2> QED
        BY <2>1, <2>2
<1>6. Rights(u) \subseteq cmd[p].rights \cup others[p]
    BY <1>3, <1>4
<1>7. ASSUME alone[p]
      PROVE  /\ Rights(u) = cmd[p].rights
             /\ cmd[p].rights # {} => exists'[u].now
             /\ cmd[p].name = "createuser" => exists'[u].now /\ provider'[u].now
             /\ cmd[p].name = "dropuser" => ~exists'[u].now
    <2>1. Rights(u) = cmd[p].rights
        BY <1>3, <1>4, <1>7
    <2>2. cmd[p].rights # {} => exists'[u].now
        BY <1>2, <1>3, <1>5, <1>7
    <2>3. cmd[p].name = "createuser" => exists'[u].now /\ provider'[u].now
        BY <1>2, <1>7, <1>t DEF Own, Informed, Finished, InTransaction, Seen
    <2>4. cmd[p].name = "dropuser" => ~exists'[u].now
        BY <1>2, <1>t DEF Own, Finished, Seen
    <2> QED
        BY <2>1, <2>2, <2>3, <2>4
<1> QED
    BY <1>6, <1>7

\* Of the steps from a COMMIT only a commit is answered with "ok".
LEMMA OnlyCommitsSucceed ==
    ASSUME AInv, Next, NEW p \in Admin, answer[p] = "none", answer'[p] = "ok", pc[p] = "commit"
    PROVE  Commit(p)
<1>t. TypedAdmins
    BY DEF AInv
<1>c. ASSUME NEW q \in Admin, NEW a, Conclude(q, a) PROVE q = p /\ a = "ok"
    BY <1>t, <1>c DEF Conclude, TypedAdmins
<1>1. ASSUME answer' = answer PROVE FALSE
    BY <1>1
<1>2. PICK q \in Admin :
          \/ StartProgram(q)
          \/ \E line \in Typed : Enter(q, line)
          \/ Quit(q) \/ Begin(q) \/ Look(q) \/ CreateRole(q) \/ DropRole(q) \/ CheckRole(q)
          \/ \E r \in Right, granted \in BOOLEAN : ChangeRole(q, r, granted)
          \/ Changed(q) \/ AddWciUser(q) \/ Commit(q) \/ Fails(q) \/ DoubtfullyFails(q)
    BY DEF Next
<1>3. CASE StartProgram(q)
    BY <1>t, <1>3 DEF StartProgram, TypedAdmins
<1>4. ASSUME NEW line \in Typed, Enter(q, line) PROVE FALSE
    <2>1. pc[q] = "prompt" /\ q # p
        BY <1>4 DEF Enter
    <2> QED
        BY <1>c, <1>t, <1>4, <2>1 DEF Enter, TypedAdmins
<1>5. CASE Quit(q)
    BY <1>t, <1>5 DEF Quit, TypedAdmins
<1>6. CASE Begin(q) \/ Look(q) \/ CreateRole(q) \/ DropRole(q) \/ CheckRole(q)
           \/ (\E r \in Right, granted \in BOOLEAN : ChangeRole(q, r, granted))
           \/ Changed(q) \/ AddWciUser(q)
    <2>1. answer' = answer
        BY <1>6 DEF Begin, Look, CreateRole, DropRole, CheckRole, ChangeRole, Changed, AddWciUser
    <2> QED
        BY <1>1, <2>1
<1>7. CASE Commit(q)
    BY <1>c, <1>7 DEF Commit
<1>8. CASE Fails(q)
    BY <1>1, <1>c, <1>8 DEF Fails
<1>9. CASE DoubtfullyFails(q)
    BY <1>c, <1>9 DEF DoubtfullyFails
<1> QED
    BY <1>2, <1>3, <1>4, <1>5, <1>6, <1>7, <1>8, <1>9

\* When the program says that it has created, changed or dropped a user, the
\* user has what was asked for, for any administrators, attempts and commands.
THEOREM RightsAreAsAskedCorrect == Spec => RightsAreAsAsked
<1> DEFINE Asked == \A p \in Admin : answer[p] = "none" /\ answer'[p] = "ok" /\ pc[p] = "commit" =>
           /\ cmd[p].name # "dropuser" => Rights(Name(p)) \subseteq cmd[p].rights \cup others[p]
           /\ alone[p] =>
                  /\ Rights(Name(p)) = cmd[p].rights
                  /\ cmd[p].rights # {} => exists'[Name(p)].now
                  /\ cmd[p].name = "createuser" => exists'[Name(p)].now /\ provider'[Name(p)].now
                  /\ cmd[p].name = "dropuser" => ~exists'[Name(p)].now
<1>1. Init => AInv
    BY AdminInit
<1>2. AInv /\ [Next]_vars => AInv'
    BY AdminStep
<1>3. AInv /\ [Next]_vars => [Asked]_vars
    <2>1. ASSUME AInv, Next PROVE Asked
        BY <2>1, OnlyCommitsSucceed, CommitIsAsAsked
    <2> QED
        BY <2>1
<1> QED
    BY <1>1, <1>2, <1>3, PTL DEF Spec, RightsAreAsAsked

\* Whoever is a committed member of a group is a role that exists, although
\* roles are dropped and their memberships given by programs that do not wait.
THEOREM MembersExistCorrect == Spec => []MembersExist
<1>1. AInv => MembersExist
    BY DEF AInv
<1>2. Init => AInv
    BY AdminInit
<1>3. AInv /\ [Next]_vars => AInv'
    BY AdminStep
<1> QED
    BY <1>1, <1>2, <1>3, PTL DEF Spec

-----------------------------------------------------------------------------
(* Configuration *)

\* What the constants are: a source that is missing or malformed says so.
ConstantsAreRight == Missing # Malformed /\ Malformed # {}

\* The value of an option when the first n sources have been read.
After(n) == [o \in Option |->
    IF n >= 1 /\ Sets(1, o) THEN "line"
    ELSE IF n >= 2 /\ Sets(2, o) THEN "config"
    ELSE IF n >= 3 /\ Sets(3, o) THEN "home"
    ELSE IF n >= 4 /\ Sets(4, o) THEN "global" ELSE Default(o)]

\* The sources that have been read when at is next.
Read == IF at = "config" THEN 1 ELSE IF at = "home" THEN 2 ELSE IF at = "global" THEN 3 ELSE 4

\* What stays as it was when the program was started.
Inputs ==
    /\ program \in {"wdb", "wdbConfiguration"}
    /\ program = "wdbConfiguration" => content["line"] = {}
    /\ content["line"] # Missing
    /\ ~named => content["config"] = Missing

Helped == asked \cap {"help", "version"} # {}

\* The inductive invariant: the sources read so far were understood, but for ports
\* that others were given before, and each option has the first value that they
\* gave it.
Reading ==
    /\ stored = After(Read)
    /\ \A i \in 1..Read : content[Layers[i]] # Malformed /\ ~FirstPortFails(i)
Failed ==
    \/ TooManyOptions \/ badPort
    \/ \E l \in Layer : content[l] = Malformed
    \/ named /\ content["config"] = Missing
    \/ \E i \in 1..4 : FirstPortFails(i)
Progress ==
    /\ at \in {"construct", "line", "config", "home", "global", "notify", "end"}
    /\ at = "config" => named
    /\ at \in {"config", "home", "global", "notify"} => Reading
    /\ at = "end" /\ result = "ok" /\ ~Helped => Reading
    /\ at = "end" /\ result # "ok" => Failed
IInv == Inputs /\ Progress

\* No default is mistaken for a value from a source.
LEMMA DefaultIsOther == \A o \in Option : Default(o) \notin Layer
BY DEF Default, Layer, Option

\* An option has its default as long as no source has set it.
LEMMA DefaultStays ==
    ASSUME NEW n \in 1..4, NEW o \in Option
    PROVE  After(n)[o] = Default(o) <=> \A i \in 1..n : ~Sets(i, o)
BY DefaultIsOther DEF After, Layer

\* The port of the next source is parsed if no source before it has one.
LEMMA PortIsParsed ==
    ASSUME NEW n \in 1..3, stored = After(n), content[Layers[n + 1]] # Missing
    PROVE  PortFails(content[Layers[n + 1]]) <=> FirstPortFails(n + 1)
<1>1. stored["port"] = Default("port") <=> \A j \in 1..n : ~Sets(j, "port")
    BY DefaultStays DEF Option
<1>2. Layers[n + 1] # "line" /\ 1 .. (n + 1) - 1 = 1..n
    BY DEF Layers
<1> QED BY <1>1, <1>2 DEF PortFails, FirstPortFails

\* Reading one more source (store, wdbConfiguration.cpp).
LEMMA NextSource ==
    ASSUME NEW given, NEW by, NEW n \in 1..3, by = Layers[n + 1], by # "line",
           content[by] # Missing, given = content[by], stored = After(n)
    PROVE  Stored(given, by) = After(n + 1)
<1>1. \A o \in Option : Sets(n + 1, o) <=> o \in given
    BY DEF Sets
<1>2. ASSUME NEW o \in Option PROVE After(n)[o] = Default(o) <=> ~\E i \in 1..n : Sets(i, o)
    BY DefaultStays
<1>3. ASSUME NEW o \in Option
      PROVE  Stored(given, by)[o] = After(n + 1)[o]
    BY <1>1, <1>2 DEF Stored, After, Layers
<1> QED BY <1>3 DEF Stored, After

\* A source that is missing sets nothing.
LEMMA NoSource ==
    ASSUME NEW n \in 1..3, content[Layers[n + 1]] = Missing
    PROVE  After(n + 1) = After(n)
BY DEF After, Sets, Layers

\* The file after the first n sources is read, or missing.
LEMMA FileRead ==
    ASSUME NEW n \in 1..3, NEW file, file = Layers[n + 1], stored = After(n),
           stored' = IF content[file] = Missing THEN stored ELSE Stored(content[file], file)
    PROVE  stored' = After(n + 1)
<1>1. file # "line"
    BY DEF Layers
<1>2. CASE content[file] = Missing
    BY <1>2, NoSource
<1>3. CASE content[file] # Missing
    BY <1>1, <1>3, NextSource
<1> QED BY <1>2, <1>3

\* When all have been read, each option has its setting.
LEMMA AllSources == After(4) = Settings
<1>1. ASSUME NEW o \in Option PROVE After(4)[o] = Settings[o]
    <2>1. CASE \A i \in 1..4 : ~Sets(i, o)
        BY <2>1 DEF After, Settings
    <2>2. ASSUME NEW i \in 1..4, Sets(i, o), \A j \in 1..i - 1 : ~Sets(j, o)
          PROVE  After(4)[o] = Settings[o]
        <3>1. \A k \in 1..4 : Sets(k, o) /\ (\A j \in 1..k - 1 : ~Sets(j, o)) => k = i
            BY <2>2
        <3>2. (CHOOSE k \in 1..4 : Sets(k, o) /\ \A j \in 1..k - 1 : ~Sets(j, o)) = i
            BY <2>2, <3>1
        <3>3. Settings[o] = Layers[i]
            BY <2>2, <3>2 DEF Settings
        <3>4. After(4)[o] = Layers[i]
            BY <2>2 DEF After, Layers
        <3> QED BY <3>3, <3>4
    <2>3. CASE \E i \in 1..4 : Sets(i, o)
        <3>1. \/ Sets(1, o)
              \/ ~Sets(1, o) /\ Sets(2, o)
              \/ ~Sets(1, o) /\ ~Sets(2, o) /\ Sets(3, o)
              \/ ~Sets(1, o) /\ ~Sets(2, o) /\ ~Sets(3, o) /\ Sets(4, o)
            BY <2>3
        <3>2. \E i \in 1..4 : Sets(i, o) /\ \A j \in 1..i - 1 : ~Sets(j, o)
            BY <3>1
        <3> QED BY <2>2, <3>2
    <2> QED BY <2>1, <2>3
<1> QED BY <1>1 DEF After, Settings

\* A program that starts has understood all its sources, but for ports that it does
\* not use, and uses for every option the first value they give, the most important
\* source first, whatever they contain (wdbConfiguration.cpp, adminConfiguration.cpp).
THEOREM SettingsAreFirstGivenCorrect ==
    ASSUME ConstantsAreRight PROVE ConfigurationSpec => []SettingsAreFirstGiven
<1>1. ConfigurationInit => IInv
    BY DEF ConfigurationInit, IInv, Inputs, Progress
<1>2. IInv /\ [ConfigurationNext]_configurationVars => IInv'
    <2> SUFFICES ASSUME IInv, [ConfigurationNext]_configurationVars PROVE IInv'
        OBVIOUS
    <2>0. UNCHANGED inputs
        BY DEF ConfigurationNext, configurationVars, inputs, Construct, ParseLine, ParseConfig, ParseDefaultFile, Finish, Stop
    <2>1. Inputs' /\ (Failed' <=> Failed) /\ (Helped' <=> Helped)
        BY <2>0 DEF IInv, Inputs, inputs, Failed, Helped, TooManyOptions, FirstPortFails, Sets
    <2>2. /\ \A n \in 1..4 : After(n)' = After(n)
          /\ \A o : Default(o)' = Default(o)
          /\ \A i \in 1..4 : FirstPortFails(i)' <=> FirstPortFails(i)
        BY <2>0 DEF inputs, After, Default, Sets, FirstPortFails
    <2>3. CASE Construct
        BY <2>1, <2>3 DEF Construct, Stop, IInv, Progress, Failed, Helped
    <2>4. CASE ParseLine
        <3>0. program = "wdb" /\ content["line"] # Malformed => (FirstPortFails(1) <=> "bad port" \in Line)
            <4>1. Layers[1] = "line" /\ \A j \in 1 .. 1 - 1 : FALSE
                BY DEF Layers
            <4>2. content["line"] # Missing
                BY DEF IInv, Inputs
            <4> QED BY <4>1, <4>2 DEF FirstPortFails, Line
        <3>1. CASE Line = Malformed \/ "bad port" \in Line
            <4>1. program = "wdb"
                BY <3>1 DEF ConstantsAreRight, Line, IInv, Inputs
            <4>2. CASE content["line"] = Malformed
                <5>1. Failed
                    BY <4>2 DEF Failed, Layer
                <5> QED BY <2>1, <2>4, <3>1, <5>1 DEF ParseLine, Stop, IInv, Progress
            <4>3. CASE content["line"] # Malformed
                <5>1. FirstPortFails(1)
                    BY <3>0, <3>1, <4>1, <4>3 DEF Line
                <5>2. Failed
                    BY <5>1 DEF Failed
                <5> QED BY <2>1, <2>4, <3>1, <5>2 DEF ParseLine, Stop, IInv, Progress
            <4> QED BY <4>2, <4>3
        <3>2. CASE ~(Line = Malformed \/ "bad port" \in Line)
            <4>1. content["line"] # Malformed
                <5>1. CASE program = "wdb"
                    BY <3>2, <5>1 DEF Line
                <5>2. CASE program = "wdbConfiguration"
                    BY <5>2 DEF IInv, Inputs, ConstantsAreRight
                <5> QED BY <5>1, <5>2 DEF IInv, Inputs
            <4>9. ~FirstPortFails(1)
                <5>1. CASE program = "wdb"
                    BY <3>0, <3>2, <4>1, <5>1
                <5>2. CASE program = "wdbConfiguration"
                    BY <5>2 DEF FirstPortFails, Layers
                <5> QED BY <5>1, <5>2 DEF IInv, Inputs
            <4>2. stored' = After(1)
                <5>1. stored' = [o \in Option |-> IF o \in Line THEN "line" ELSE Default(o)]
                    BY <2>4, <3>2 DEF ParseLine
                <5>2. \A o : o \in Line <=> Sets(1, o)
                    BY DEF Line, Sets, Layers, IInv, Inputs
                <5> QED BY <5>1, <5>2 DEF After
            <4>3. ~named => /\ After(2) = After(1) /\ content["config"] # Malformed
                            /\ ~FirstPortFails(2)
                <5> SUFFICES ASSUME ~named
                             PROVE  /\ After(1 + 1) = After(1) /\ content["config"] # Malformed
                                    /\ ~FirstPortFails(2)
                    OBVIOUS
                <5>1. content["config"] = Missing /\ Layers[1 + 1] = "config"
                    BY DEF IInv, Inputs, Layers
                <5>2. ~FirstPortFails(2)
                    <6>1. ~FirstPortFails(1 + 1)
                        BY <5>1 DEF FirstPortFails
                    <6> QED BY <6>1
                <5> QED BY <5>1, <5>2, NoSource DEF ConstantsAreRight
            <4>4. at' = (IF named THEN "config" ELSE "home") /\ result' = result
                BY <2>4, <3>2 DEF ParseLine
            <4>5. Read' = IF named THEN 1 ELSE 2
                BY <4>4 DEF Read
            <4>6. \A i \in 1..Read' : content[Layers[i]] # Malformed /\ ~FirstPortFails(i)
                BY <4>1, <4>3, <4>5, <4>9 DEF Layers
            <4>7. stored' = After(Read')
                BY <4>2, <4>3, <4>5
            <4>8. Reading'
                BY <2>0, <2>2, <4>5, <4>6, <4>7 DEF Reading, inputs
            <4> QED BY <2>0, <2>1, <4>4, <4>8 DEF IInv, Progress, inputs
        <3> QED BY <3>1, <3>2
    <2>5. ASSUME NEW n \in 1..3, Read = n, Reading, stored' = After(n + 1), Read' = n + 1,
                 content[Layers[n + 1]] # Malformed, ~FirstPortFails(n + 1)
          PROVE  Reading'
        <3>1. \A i \in 1..n + 1 : content[Layers[i]] # Malformed /\ ~FirstPortFails(i)
            BY <2>5 DEF Reading
        <3>2. stored' = After(n + 1)'
            BY <2>2, <2>5
        <3>3. content' = content
            BY <2>0 DEF inputs
        <3>4. ASSUME NEW i \in 1..n + 1
              PROVE  content'[Layers[i]] # Malformed /\ ~FirstPortFails(i)'
            BY <2>2, <3>1, <3>3
        <3>5. \A i \in 1..n + 1 : content'[Layers[i]] # Malformed /\ ~FirstPortFails(i)'
            BY <3>4
        <3> QED BY <2>5, <3>2, <3>5 DEF Reading, Layers
    <2>6. CASE ParseConfig
        <3>0. Layers[1 + 1] = "config" /\ stored = After(1) /\ at = "config" /\ named
            BY <2>6 DEF ParseConfig, IInv, Progress, Reading, Read, Layers
        <3>3. content["config"] # Missing => (PortFails(content["config"]) <=> FirstPortFails(1 + 1))
            BY <3>0, PortIsParsed
        <3>1. CASE content["config"] \in {Missing, Malformed} \/ PortFails(content["config"])
            <4>1. Failed
                BY <3>0, <3>1, <3>3 DEF Failed, Layer
            <4> QED BY <2>1, <2>6, <3>1, <4>1 DEF ParseConfig, Stop, IInv, Progress
        <3>2. CASE ~(content["config"] \in {Missing, Malformed} \/ PortFails(content["config"]))
            <4>1. at = "config" /\ at' = "home" /\ result' = result /\ Reading /\ Read = 1 /\ Read' = 2
                BY <2>6, <3>2 DEF ParseConfig, IInv, Progress, Read
            <4>2. Layers[1 + 1] = "config" /\ stored = After(1)
                BY <4>1 DEF Layers, Reading
            <4>3. stored' = After(1 + 1)
                BY <2>6, <3>2, <4>2, FileRead DEF ParseConfig
            <4>4. Reading'
                BY <2>5, <3>2, <3>3, <4>1, <4>2, <4>3
            <4> QED BY <2>1, <4>1, <4>4 DEF IInv, Progress
        <3> QED BY <3>1, <3>2
    <2>7. ASSUME NEW file, NEW next, ParseDefaultFile(file, next),
                 <<file, next>> \in {<<"home", "global">>, <<"global", "notify">>}
          PROVE  IInv'
        <3>0. PICK n \in 1..3 : Read = n /\ Layers[n + 1] = file
            BY <2>7 DEF ParseDefaultFile, Read, Layers
        <3>3. content[file] # Missing => (PortFails(content[file]) <=> FirstPortFails(n + 1))
            <4>1. stored = After(n)
                BY <2>7, <3>0 DEF ParseDefaultFile, IInv, Progress, Reading
            <4> QED BY <3>0, <4>1, PortIsParsed
        <3>4. content[file] = Missing => ~FirstPortFails(n + 1)
            BY <3>0 DEF FirstPortFails
        <3>1. CASE content[file] = Malformed \/ (content[file] # Missing /\ PortFails(content[file]))
            <4>1. Failed
                BY <2>7, <3>1, <3>3 DEF Failed, Layer
            <4> QED BY <2>1, <2>7, <3>1, <4>1 DEF ParseDefaultFile, Stop, IInv, Progress
        <3>2. CASE ~(content[file] = Malformed \/ (content[file] # Missing /\ PortFails(content[file])))
            <4>1. /\ at = file /\ at' = next /\ result' = result
                  /\ stored' = IF content[file] = Missing THEN stored ELSE Stored(content[file], file)
                BY <2>7, <3>2 DEF ParseDefaultFile
            <4>2. Read = n /\ Read' = n + 1 /\ Layers[n + 1] = file
                BY <2>7, <3>0, <4>1 DEF Read, Layers
            <4>3. Reading /\ stored = After(n)
                BY <2>7, <4>1, <4>2 DEF IInv, Progress, Reading
            <4>4. stored' = After(n + 1)
                BY <4>1, <4>2, <4>3, FileRead
            <4>5. Reading'
                BY <2>5, <3>2, <3>3, <3>4, <4>2, <4>3, <4>4
            <4> QED BY <2>1, <2>7, <4>1, <4>5 DEF IInv, Progress
        <3> QED BY <3>1, <3>2
    <2>8. CASE Finish
        <3>1. Reading /\ Read = 4 /\ Read' = 4 /\ stored' = stored /\ at' = "end" /\ result' = "ok"
            BY <2>8 DEF Finish, Stop, IInv, Progress, Read
        <3>2. Reading'
            BY <2>0, <2>2, <3>1 DEF Reading, inputs
        <3> QED BY <2>1, <3>1, <3>2 DEF IInv, Progress
    <2>9. CASE UNCHANGED configurationVars
        <3>1. Read' = Read /\ (Reading => Reading')
            BY <2>2, <2>9 DEF configurationVars, Reading, Read
        <3> QED BY <2>1, <2>9, <3>1 DEF configurationVars, IInv, Progress
    <2> QED BY <2>3, <2>4, <2>6, <2>7, <2>8, <2>9 DEF ConfigurationNext
<1>3. IInv => SettingsAreFirstGiven
    <2> SUFFICES ASSUME IInv PROVE SettingsAreFirstGiven
        OBVIOUS
    <2>1. at = "end" /\ result # "ok" => Failed
        BY DEF IInv, Progress
    <2>2. ASSUME at = "end", result = "ok", ~Helped
          PROVE  /\ \A l \in Layer : content[l] # Malformed
                 /\ \A i \in 1..4 : ~FirstPortFails(i)
                 /\ stored = Settings
                 /\ stored["user"] # "" => PqDatabaseConnection = PsqlDatabaseConnection
        <3>1. Reading /\ Read = 4
            BY <2>2 DEF IInv, Progress, Read
        <3>2. \A l \in Layer : content[l] # Malformed
            BY <3>1 DEF Reading, Layer, Layers
        <3>3. stored = Settings
            BY <3>1, AllSources DEF Reading
        <3>4. ASSUME stored["user"] # "" PROVE PqDatabaseConnection = PsqlDatabaseConnection
            BY <3>4 DEF PqDatabaseConnection, PsqlDatabaseConnection, Option
        <3> QED BY <3>1, <3>2, <3>3, <3>4 DEF Reading
    <2> QED BY <2>1, <2>2 DEF SettingsAreFirstGiven, Helped, Failed
<1> QED BY <1>1, <1>2, <1>3, PTL DEF ConfigurationSpec
=============================================================================
