----------------------------- MODULE BlobStore -----------------------------
(***************************************************************************)
(* What the grid store promises to the rest of wdb, which knows neither    *)
(* files nor locks: a grid is stored at most once under its identifier,    *)
(* then dropped, then gone; and a read of a stored grid returns all of it. *)
(* Only the reader of a grid that was dropped meanwhile may be refused.    *)
(***************************************************************************)

CONSTANTS FileId, Reader, NoFile

VARIABLES
    stage,   \* the stage of the life of every grid
    asked,   \* the grid that a reader has asked for
    got      \* what the last read of a reader returned

vars == <<stage, asked, got>>

\* The stages that a grid can reach within one transaction.
Later(s) ==
    CASE s = "free"    -> {"free", "stored", "dropped", "gone"}
      [] s = "stored"  -> {"stored", "dropped"}
      [] s = "dropped" -> {"dropped", "gone"}
      [] OTHER         -> {"gone"}

Init ==
    /\ stage = [f \in FileId |-> "free"]
    /\ asked = [r \in Reader |-> NoFile]
    /\ got = [r \in Reader |-> "nothing"]

\* A transaction ends: any number of grids move on.
Transact ==
    /\ DOMAIN stage' = FileId
    /\ \A f \in FileId : stage'[f] \in Later(stage[f])
    /\ UNCHANGED <<asked, got>>

Ask(r, f) ==
    /\ stage[f] = "stored"
    /\ asked[r] = NoFile
    /\ asked' = [asked EXCEPT ![r] = f]
    /\ UNCHANGED <<stage, got>>

Answer(r) ==
    /\ asked[r] # NoFile
    /\ \/ got' = [got EXCEPT ![r] = "whole"]
       \/ stage[asked[r]] # "stored" /\ got' = [got EXCEPT ![r] = "absent"]
    /\ asked' = [asked EXCEPT ![r] = NoFile]
    /\ UNCHANGED stage

Next ==
    \/ Transact
    \/ \E r \in Reader, f \in FileId : Ask(r, f)
    \/ \E r \in Reader : Answer(r)

Spec == Init /\ [][Next]_vars
=============================================================================
