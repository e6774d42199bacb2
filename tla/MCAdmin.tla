------------------------------- MODULE MCAdmin -------------------------------
(***************************************************************************)
(* Instances for TLC of the modules about administration: a program that   *)
(* reads its configuration, or administrators that manage users.           *)
(***************************************************************************)
EXTENDS AdminProgram, Configuration, TLC

VARIABLE part

MCInit ==
    /\ part \in {"configuration", "users"}
    /\ Init
    /\ part # "users" => \A u \in User : ~exists[u].now
    /\ ConfigurationInit
    /\ part # "configuration" =>
           /\ program = "wdb" /\ ~named /\ env = {}
           /\ \A l \in Layer : content[l] = IF l = "config" THEN Missing ELSE {}

MCNext ==
    /\ UNCHANGED part
    /\ \/ part = "users" /\ Next /\ UNCHANGED configurationVars
       \/ part = "configuration" /\ ConfigurationNext /\ UNCHANGED vars
MCSpec == MCInit /\ [][MCNext]_<<part, vars, configurationVars>>

MCTyped == {<<"createuser", " ", "u1">>, <<"createuser", " ", "u1", " ", "write", " ", "noread">>,
            <<"changeuser", " ", "u1", " ">>, <<"changeuser", " ", "u1", " ", "write", " ", "read">>,
            <<"createuser", " ", "u1", " ", "read">>, <<"changeuser">>,
            <<" ", "dropuser", " ", "u1">>, <<"dropuser", " ", " ", "u1">>, <<"vacuum">>,
            <<"createdb", " ", "u1">>, <<"stats", " ", "io">>, <<"stats", " ", "u1">>,
            <<"shutdown">>}

Symmetry == Permutations(Admin)
=============================================================================
