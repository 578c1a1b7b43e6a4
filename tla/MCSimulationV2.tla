--------------------------- MODULE MCSimulationV2 ---------------------------
(***************************************************************************)
(* Instances of SimulationV2 for TLC: one simulation of two steps, the     *)
(* shortest life with a first, a last and an InProgress document.          *)
(***************************************************************************)
EXTENDS SimulationV2, TLC

CONSTANTS s1, p1, p2, r1, r2

OneSim == {s1}
TwoSteps == s1 :> 2

\* Two requests on two replicas, and the same two on one replica.
TwoReplicas == r1 :> p1 @@ r2 :> p2
OneReplica == r1 :> p1 @@ r2 :> p1

\* The two replicas can be exchanged, each with its request.
Exchange ==
    {f \in Permutations({r1, r2, p1, p2}) :
        \A r \in {r1, r2} : f[r] \in {r1, r2} /\ TwoReplicas[f[r]] = f[TwoReplicas[r]]}
=============================================================================
