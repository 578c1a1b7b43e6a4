--------------------------- MODULE MCRedisStores ---------------------------
(***************************************************************************)
(* An instance of RedisStores for TLC.                                     *)
(***************************************************************************)
EXTENDS RedisStores, TLC

\* Both simulations behave alike.
Interchangeable == Permutations(Simulations)
=============================================================================
