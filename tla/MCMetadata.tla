----------------------------- MODULE MCMetadata -----------------------------
(***************************************************************************)
(* Instances for TLC of the modules about metadata: the WCI session, data  *)
(* providers and materialized views.  One of them moves in a behaviour,    *)
(* the others stay where they begin.                                       *)
(***************************************************************************)
EXTENDS WciSession, MaterializedView, DataProvider, TLC

VARIABLE part

MCInit ==
    /\ part \in {"provider", "view", "session"}
    /\ ProviderInit
    /\ ViewInit
    /\ part # "view" => whole /\ nextCopy = 1
    /\ Init
    /\ part # "session" => \A x \in DOMAIN place : place[x] = NoGeometry

MCNext ==
    /\ UNCHANGED part
    /\ \/ part = "provider" /\ ProviderNext /\ UNCHANGED <<viewVars, vars>>
       \/ part = "view" /\ ViewNext /\ UNCHANGED <<providerVars, vars>>
       \/ part = "session" /\ Next /\ UNCHANGED <<providerVars, viewVars>>
MCSpec == MCInit /\ [][MCNext]_<<part, providerVars, viewVars, vars>>

Symmetry == Permutations(ProviderName) \cup Permutations(Day)
            \cup Permutations(Backend) \cup Permutations(Source)

\* The tables, views and sessions hold rows of their types, whatever the calls.
TypesAreRight == ProviderTypeOK /\ ViewTypeOK /\ TypeOK
=============================================================================
