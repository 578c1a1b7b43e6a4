---------------------------- MODULE RedisStores ----------------------------
(***************************************************************************)
(* The two stores of a deployment on the one Redis server they share: v1   *)
(* sessions and v2 simulations, under prefixes that keep their keys apart, *)
(* with one clock.                                                         *)
(***************************************************************************)
EXTENDS RedisSimulationStore, RedisSessionStore

ASSUME PrefixAssumption ==
    /\ Simulations \cap Sessions = {}
    /\ Absent \notin [version : Nat, until : Nat]

vars == <<now, simulationKeys, sessionKeys>>

TypeOK ==
    /\ now \in 0 .. MaxTime
    /\ SimulationTypeOK
    /\ SessionTypeOK

Init ==
    /\ now = 0
    /\ SimulationInit
    /\ SessionInit

Tick ==
    /\ now < MaxTime
    /\ now' = now + 1
    /\ ExpireSimulations(now')
    /\ ExpireSessions(now')

Next ==
    \/ SimulationNext /\ UNCHANGED <<now, sessionKeys>>
    \/ SessionNext /\ UNCHANGED <<now, simulationKeys>>
    \/ Tick

Spec == Init /\ [][Next]_vars

-----------------------------------------------------------------------------
(* Properties                                                              *)

\* The types, and no torn document, though its keys expire one by one and v1 writes them one
\* by one: a v2 document has a revision key and an index entry that say the
\* same, and leaves no revision key behind; a v1 document that a client knows
\* of never outlives its revision key, so a missing one never reads as '0'.
KeysAgree ==
    /\ TypeOK
    /\ \A s \in Simulations :
          /\ revision[s] = document[s]
          /\ document[s] # Absent => index[s] = Seconds(document[s].expires)
    /\ \A u \in Sessions :
          Known(u) /\ session[u] # Absent =>
              /\ sessionVersion[u] # Absent
              /\ sessionVersion[u].value = session[u].value
              /\ sessionVersion[u].expires >= session[u].expires

\* Redis expires a document without telling anyone, and still every simulation
\* that came to an end unasked stays in the index until a cleanup has taken it
\* and answered with its id, so that the caches can let it go.  A reply that
\* is lost is the one way for an end to go unheard.
EndsAreReported ==
    \A s \in Simulations : fate[s] = "issued" => index[s] # Absent

\* The document behind the keys of each id.
Ids == Simulations \cup Sessions

Documents ==
    [d \in Ids |->
        LET key == IF d \in Simulations THEN document[d] ELSE session[d]
        IN  IF key = Absent THEN Absent
                            ELSE [version |-> key.value, until |-> key.expires]]

CreatedIds ==
    {s \in Simulations : fate[s] # "new"} \cup {u \in Sessions : phase[u] # "new"}

DeletedIds ==
    {s \in Simulations : fate[s] = "deleted"} \cup {u \in Sessions : phase[u] = "deleted"}

Store == INSTANCE DocumentStore WITH
    Keep <- [d \in Ids |->
                (IF d \in Simulations THEN Retention ELSE SessionTtl) * TicksPerSecond],
    Early <- [d \in Ids |-> IF d \in Simulations THEN TicksPerSecond - 1 ELSE 0],
    clock <- now,
    docs <- Documents,
    created <- CreatedIds,
    deleted <- DeletedIds

\* With several keys per document, commands that come between one another,
\* expiry and cleanup, the stores are stores of whole documents: revisions go
\* up by one, only from the current one; what is gone stays gone; and nothing
\* goes before its retention is over, except that cleanup, which counts whole
\* seconds, may be less than a second early.
ImplementsStore == Store!StoreSpec
=============================================================================
