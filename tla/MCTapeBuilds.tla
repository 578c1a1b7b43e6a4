---------------------------- MODULE MCTapeBuilds ----------------------------
(***************************************************************************)
(* TapeBuilds as TLC checks it.  Liveness is checked with it, so nothing   *)
(* is declared interchangeable.                                            *)
(***************************************************************************)
EXTENDS TapeBuilds
=============================================================================
