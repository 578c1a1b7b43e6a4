---------------------------- MODULE MCWarehouse -----------------------------
(***************************************************************************)
(* Instances of Warehouse for TLC.  Records of two sizes: even steps carry *)
(* one row, odd steps two.                                                 *)
(***************************************************************************)
EXTENDS Warehouse

OneOrTwoRows == [r \in Records |-> 1 + (r[2] % 2)]
=============================================================================
