------------------------- MODULE RestartableCursor --------------------------
(***************************************************************************)
(* What the v1 service promises about one session, with every mechanism    *)
(* left out: its snapshots are consumed one at a time, in order, up to a   *)
(* horizon; a parameter change starts over with a new horizon, also after  *)
(* the last snapshot; and a removed session never comes back.              *)
(*                                                                         *)
(* SessionV1 implements this specification over a compare-and-swap store   *)
(* shared by several replicas.                                             *)
(***************************************************************************)
EXTENDS Naturals

CONSTANT Horizons  \* the step counts a session can be given

VARIABLES phase,    \* "unborn", "live" or "removed"
          horizon,  \* the steps of the current tape
          cursor    \* the snapshots of it consumed so far

cursorVars == <<phase, horizon, cursor>>

CursorInit ==
    /\ phase = "unborn"
    /\ horizon = 0
    /\ cursor = 0

Issue(h) ==
    /\ phase = "unborn"
    /\ phase' = "live"
    /\ horizon' = h
    /\ UNCHANGED cursor

\* Exactly one client is handed the snapshot at the cursor.
Consume ==
    /\ phase = "live"
    /\ cursor < horizon
    /\ cursor' = cursor + 1
    /\ UNCHANGED <<phase, horizon>>

Restart(h) ==
    /\ phase = "live"
    /\ horizon' = h
    /\ cursor' = 0
    /\ UNCHANGED phase

Remove ==
    /\ phase = "live"
    /\ phase' = "removed"
    /\ UNCHANGED <<horizon, cursor>>

CursorNext ==
    \/ \E h \in Horizons : Issue(h) \/ Restart(h)
    \/ Consume
    \/ Remove

CursorSpec == CursorInit /\ [][CursorNext]_cursorVars
=============================================================================
