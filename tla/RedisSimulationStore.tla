------------------------ MODULE RedisSimulationStore ------------------------
(***************************************************************************)
(* InRedisSimulationStore: a v2 simulation is a document key, a revision   *)
(* key and a member of an index scored by its deadline, and each operation *)
(* is one script on all three.                                             *)
(*                                                                         *)
(* A document is its revision; reading changes nothing and is left out, so *)
(* a caller of save_cas holds any revision that the document has had.  The *)
(* codes of a refused script change nothing and are not modelled.  Ids are *)
(* random, so create never meets one that is taken.                        *)
(***************************************************************************)
EXTENDS Redis, FiniteSets

CONSTANTS Simulations,
          Retention,   \* retention_secs
          Batch        \* CLEANUP_BATCH

ASSUME SimulationStoreAssumption ==
    /\ Retention \in Nat \ {0}
    /\ Batch \in Nat \ {0}

VARIABLES
    document,  \* document[s]: {prefix}{s}
    revision,  \* revision[s]: {prefix}{s}:ver
    index,     \* index[s]: the score of s in {prefix}index
    fate       \* ghost: what became of s, as far as the managers know

simulationKeys == <<document, revision, index, fate>>

SimulationTypeOK ==
    /\ document \in [Simulations -> Keys(Retention)]
    /\ revision \in [Simulations -> Keys(Retention)]
    /\ index \in [Simulations -> Nat \cup {Absent}]
    /\ fate \in [Simulations -> {"new", "issued", "deleted", "reported", "unheard"}]

SimulationInit ==
    /\ document = [s \in Simulations |-> Absent]
    /\ revision = [s \in Simulations |-> Absent]
    /\ index = [s \in Simulations |-> Absent]
    /\ fate = [s \in Simulations |-> "new"]

\* The score of a simulation written now.
Deadline == Seconds(now) + Retention

\* Both keys and the index entry, as a script writes them.
Write(s, version) ==
    /\ document' = [document EXCEPT ![s] = SetEx(version, Retention)]
    /\ revision' = [revision EXCEPT ![s] = SetEx(version, Retention)]
    /\ index' = [index EXCEPT ![s] = Deadline]

\* CREATE_SCRIPT
CreateSimulation(s) ==
    /\ fate[s] = "new"
    /\ Write(s, 0)
    /\ fate' = [fate EXCEPT ![s] = "issued"]

\* GET ... or '0'
Revision(s) == IF revision[s] = Absent THEN 0 ELSE revision[s].value

\* Bug: a save refreshes the keys and leaves the index as it was.
SaveSimulationAtOldDeadline(s) ==
    /\ document[s] # Absent
    /\ \E held \in 0 .. document[s].value :
          /\ held < MaxVersion
          /\ Revision(s) = held
          /\ document' = [document EXCEPT ![s] = SetEx(held + 1, Retention)]
          /\ revision' = [revision EXCEPT ![s] = SetEx(held + 1, Retention)]
    /\ UNCHANGED <<index, fate>>

\* SAVE_CAS_SCRIPT, called with a revision that the document has had.
SaveSimulation(s) ==
    /\ document[s] # Absent
    /\ \E held \in 0 .. document[s].value :
          /\ held < MaxVersion
          /\ Revision(s) = held
          /\ Write(s, held + 1)
    /\ UNCHANGED fate

\* The three keys of the members of gone are removed.
Remove(gone) ==
    /\ document' = [s \in Simulations |-> IF s \in gone THEN Absent ELSE document[s]]
    /\ revision' = [s \in Simulations |-> IF s \in gone THEN Absent ELSE revision[s]]
    /\ index' = [s \in Simulations |-> IF s \in gone THEN Absent ELSE index[s]]

\* DELETE_SCRIPT, on behalf of a client that knows the id.
DeleteSimulation(s) ==
    /\ fate[s] # "new"
    /\ Remove({s})
    /\ fate' = [fate EXCEPT ![s] = IF fate[s] = "issued" THEN "deleted" ELSE fate[s]]

Due == {s \in Simulations : index[s] # Absent /\ index[s] <= Seconds(now)}

\* What one pass takes: at most a batch of the due ids, the earliest first.
Passes ==
    {gone \in SUBSET Due :
        /\ gone # {}
        /\ Cardinality(gone) = Batch \/ (gone = Due /\ Cardinality(gone) < Batch)
        /\ \A s \in gone, o \in Due \ gone : index[s] <= index[o]}

\* Bug: only ids whose document is still there are reported.
CleanupReportingLive ==
    \E gone \in Passes, heard \in BOOLEAN :
        /\ Remove(gone)
        /\ fate' = [s \in Simulations |->
                       IF s \in gone /\ document[s] # Absent
                       THEN IF heard THEN "reported" ELSE "unheard"
                       ELSE fate[s]]

\* CLEANUP_SCRIPT.  Its reply may be lost with the connection, or time out.
Cleanup ==
    \E gone \in Passes, heard \in BOOLEAN :
        /\ Remove(gone)
        /\ fate' = [s \in Simulations |->
                       IF s \in gone THEN IF heard THEN "reported" ELSE "unheard"
                                     ELSE fate[s]]

SimulationNext ==
    \/ \E s \in Simulations :
          CreateSimulation(s) \/ SaveSimulation(s) \/ DeleteSimulation(s)
    \/ Cleanup

\* Redis drops the keys whose time is up at t; the index has no time to live.
ExpireSimulations(t) ==
    /\ document' = [s \in Simulations |-> Surviving(document[s], t)]
    /\ revision' = [s \in Simulations |-> Surviving(revision[s], t)]
    /\ UNCHANGED <<index, fate>>
=============================================================================
