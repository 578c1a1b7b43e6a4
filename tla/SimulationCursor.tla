-------------------------- MODULE SimulationCursor --------------------------
(***************************************************************************)
(* What the v2 service promises about one rolling simulation, with every   *)
(* mechanism left out: an id is issued once, its snapshots are consumed    *)
(* one at a time from index 0 to Steps[s] - 1, and once the simulation is  *)
(* removed (deleted, or reaped as idle) it never comes back.               *)
(*                                                                         *)
(* SimulationV2 implements this specification over a compare-and-swap      *)
(* store shared by several replicas.                                       *)
(***************************************************************************)
EXTENDS Naturals

CONSTANTS Sims,   \* the identifiers that can be issued
          Steps   \* Steps[s]: how many snapshots simulation s serves

VARIABLES phase,  \* phase[s]: "unborn", "live" or "removed"
          cursor  \* cursor[s]: the snapshots consumed so far

cursorVars == <<phase, cursor>>

CursorInit ==
    /\ phase = [s \in Sims |-> "unborn"]
    /\ cursor = [s \in Sims |-> 0]

\* An id is issued at most once, with its cursor at the first snapshot.
Issue(s) ==
    /\ phase[s] = "unborn"
    /\ phase' = [phase EXCEPT ![s] = "live"]
    /\ UNCHANGED cursor

\* Exactly one client is handed the snapshot at the cursor.
Consume(s) ==
    /\ phase[s] = "live"
    /\ cursor[s] < Steps[s]
    /\ cursor' = [cursor EXCEPT ![s] = @ + 1]
    /\ UNCHANGED phase

\* A delete removes one simulation, a sweep any number of idle ones.
Remove(gone) ==
    /\ \A s \in gone : phase[s] = "live"
    /\ phase' = [s \in Sims |-> IF s \in gone THEN "removed" ELSE phase[s]]
    /\ UNCHANGED cursor

CursorNext ==
    \/ \E s \in Sims : Issue(s) \/ Consume(s)
    \/ \E gone \in SUBSET Sims : Remove(gone)

CursorSpec == CursorInit /\ [][CursorNext]_cursorVars
=============================================================================
