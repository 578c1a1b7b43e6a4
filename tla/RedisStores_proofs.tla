------------------------- MODULE RedisStores_proofs -------------------------
(***************************************************************************)
(* Theorems about RedisStores: the keys of a document agree, every end is  *)
(* reported, and the stores implement DocumentStore, for any retention, any*)
(* fineness of the clock, and any number of simulations and sessions.      *)
(***************************************************************************)
EXTENDS RedisStores, TLAPS

SimulationInvariant ==
    \A s \in Simulations :
        /\ revision[s] = document[s]
        /\ document[s] # Absent => index[s] = Seconds(document[s].expires)
        /\ (index[s] # Absent) <=> (fate[s] = "issued")

\* Before its revision is seeded a session is at 0, and one whose revision is
\* about to be deleted has no document any more.
SessionInvariant ==
    \A u \in Sessions :
        /\ Known(u) /\ session[u] # Absent =>
              /\ sessionVersion[u] # Absent
              /\ sessionVersion[u].value = session[u].value
              /\ sessionVersion[u].expires >= session[u].expires
        /\ phase[u] = "creating" /\ session[u] # Absent => session[u].value = 0
        /\ u \in deleting => phase[u] = "deleted" /\ session[u] = Absent

InductiveInvariant ==
    /\ TypeOK
    /\ SimulationInvariant
    /\ SessionInvariant

-----------------------------------------------------------------------------
(* The clock and the keys                                                  *)

\* A time to live is some ticks long.
LEMMA TtlIsPositive ==
    ASSUME NEW seconds \in Nat \ {0}
    PROVE  seconds * TicksPerSecond \in Nat \ {0}
BY RedisAssumption, SMT

\* The deadline in the index is the second in which the document expires.
LEMMA DeadlineIsExpiry ==
    ASSUME now \in Nat, NEW seconds \in Nat \ {0}
    PROVE  Seconds(now + seconds * TicksPerSecond) = Seconds(now) + seconds
BY RedisAssumption, SMT DEF Seconds

\* A time in whole seconds is at most a second, less a tick, ahead.
LEMMA SecondsAreEarly ==
    ASSUME NEW t \in Nat, NEW e \in Nat, Seconds(e) <= Seconds(t)
    PROVE  t + (TicksPerSecond - 1) >= e
BY RedisAssumption, SMT DEF Seconds

\* The second of a time is a number.
LEMMA SecondsType ==
    ASSUME NEW t \in Nat
    PROVE  Seconds(t) \in Nat
BY RedisAssumption, SMT DEF Seconds

\* SetEx yields a key.
LEMMA SetExType ==
    ASSUME now \in Nat, NEW v \in 0 .. MaxVersion, NEW seconds \in Nat \ {0}
    PROVE  /\ SetEx(v, seconds) \in Keys(seconds)
           /\ SetEx(v, seconds) # Absent
           /\ SetEx(v, seconds).value = v
           /\ SetEx(v, seconds).expires = now + seconds * TicksPerSecond
<1> DEFINE e == now + seconds * TicksPerSecond
<1>1. seconds * TicksPerSecond \in Nat \ {0}
  BY TtlIsPositive
<1>2. e \in now + 1 .. now + seconds * TicksPerSecond /\ e \in Nat
  BY <1>1
<1>3. v \in Nat
  BY RedisAssumption
<1>4. SetEx(v, seconds) = [value |-> v, expires |-> e]
  BY DEF SetEx
<1> HIDE DEF e
<1>5. [value |-> v, expires |-> e] \in Keys(seconds)
  BY <1>2 DEF Keys
<1>6. [value |-> v, expires |-> e] # Absent
  BY <1>2, <1>3, RedisAssumption
<1> QED BY <1>4, <1>5, <1>6 DEF e

\* What the clock reaches is dropped, and no other key is.
LEMMA SurvivingType ==
    ASSUME now \in Nat, now' = now + 1, NEW seconds \in Nat \ {0},
           NEW key \in Keys(seconds)
    PROVE  /\ Surviving(key, now') \in Keys(seconds)'
           /\ Surviving(key, now') \in {key, Absent}
           /\ key # Absent =>
                 (Surviving(key, now') = key <=> key.expires > now')
<1>1. CASE key = Absent
  BY <1>1 DEF Surviving, Keys
<1>2. CASE key # Absent
  <2>1. key \in [value : 0 .. MaxVersion,
                 expires : now + 1 .. now + seconds * TicksPerSecond]
    BY <1>2 DEF Keys
  <2>2. seconds * TicksPerSecond \in Nat
    BY TtlIsPositive
  <2>3. key.expires \in Nat
    BY <2>1, <2>2
  <2>4. CASE key.expires <= now'
    BY <1>2, <2>3, <2>4 DEF Surviving, Keys
  <2>5. CASE ~(key.expires <= now')
    <3>1. Surviving(key, now') = key
      BY <2>5 DEF Surviving
    <3>2. key.expires \in now' + 1 .. now' + seconds * TicksPerSecond
      BY <2>1, <2>2, <2>3, <2>5
    <3>3. key = [value |-> key.value, expires |-> key.expires]
          /\ key.value \in 0 .. MaxVersion
      BY <2>1
    <3>4. key \in Keys(seconds)'
      BY <3>2, <3>3 DEF Keys
    <3> QED BY <1>2, <2>3, <2>5, <3>1, <3>4
  <2> QED BY <2>4, <2>5
<1> QED BY <1>1, <1>2

-----------------------------------------------------------------------------
(* The simulations                                                         *)

SimulationPart == now \in 0 .. MaxTime /\ SimulationTypeOK /\ SimulationInvariant

\* What a script writes are two equal keys and the second they expire in.
LEMMA WriteStep ==
    ASSUME SimulationPart, NEW s \in Simulations, NEW v \in 0 .. MaxVersion,
           Write(s, v), now' = now,
           fate' = [fate EXCEPT ![s] = "issued"]
    PROVE  SimulationPart'
<1> USE DEF SimulationPart
<1>1. now \in Nat /\ Retention \in Nat \ {0}
  BY RedisAssumption, SimulationStoreAssumption
<1> DEFINE key == SetEx(v, Retention)
<1>2. key \in Keys(Retention) /\ key # Absent
  BY <1>1, SetExType
<1>3. key.expires = now + Retention * TicksPerSecond
  BY <1>1, SetExType
<1>4. Deadline = Seconds(key.expires) /\ Deadline \in Nat
  BY <1>1, <1>3, DeadlineIsExpiry, SecondsType DEF Deadline
<1>5. /\ document' = [document EXCEPT ![s] = key]
      /\ revision' = [revision EXCEPT ![s] = key]
      /\ index' = [index EXCEPT ![s] = Deadline]
  BY DEF Write
<1> HIDE DEF key
<1>6. Keys(Retention)' = Keys(Retention)
  BY DEF Keys
<1>7. SimulationTypeOK'
  BY <1>2, <1>4, <1>5, <1>6 DEF SimulationTypeOK
<1>8. Deadline # Absent
  BY <1>4, RedisAssumption
<1>9. SimulationInvariant'
  <2> SUFFICES ASSUME NEW o \in Simulations
               PROVE  /\ revision'[o] = document'[o]
                      /\ document'[o] # Absent =>
                            index'[o] = Seconds(document'[o].expires)
                      /\ (index'[o] # Absent) <=> (fate'[o] = "issued")
    BY DEF SimulationInvariant, Seconds
  <2>1. CASE o = s
    BY <1>2, <1>4, <1>5, <1>8, <2>1 DEF SimulationTypeOK
  <2>2. CASE o # s
    BY <1>5, <2>2 DEF SimulationTypeOK, SimulationInvariant
  <2> QED BY <2>1, <2>2
<1> QED BY <1>7, <1>9

\* create_cas
LEMMA CreateSimulationStep ==
    ASSUME SimulationPart, NEW s \in Simulations, CreateSimulation(s), now' = now
    PROVE  SimulationPart'
<1>1. 0 \in 0 .. MaxVersion
  BY RedisAssumption
<1> QED BY <1>1, WriteStep DEF CreateSimulation

\* The document that save_cas finds is of a simulation that has not ended.
LEMMA SaveSimulationStep ==
    ASSUME SimulationPart, NEW s \in Simulations, SaveSimulation(s), now' = now
    PROVE  SimulationPart'
<1> USE DEF SimulationPart
<1>1. PICK held \in 0 .. document[s].value : held < MaxVersion /\ Write(s, held + 1)
  BY DEF SaveSimulation
<1>2. document[s] # Absent /\ fate' = fate
  BY DEF SaveSimulation
<1>3. document[s].value \in 0 .. MaxVersion
  BY <1>2 DEF SimulationTypeOK, Keys
<1>4. held + 1 \in 0 .. MaxVersion
  BY <1>1, <1>3, RedisAssumption
<1>5. index[s] = Seconds(document[s].expires)
  BY <1>2 DEF SimulationInvariant
<1>6. document[s].expires \in Nat
  <2>1. Retention * TicksPerSecond \in Nat
    BY TtlIsPositive, SimulationStoreAssumption
  <2> QED BY <1>2, <2>1 DEF SimulationTypeOK, Keys
<1>7. index[s] # Absent
  BY <1>5, <1>6, SecondsType, RedisAssumption
<1>8. fate' = [fate EXCEPT ![s] = "issued"]
  BY <1>2, <1>7 DEF SimulationTypeOK, SimulationInvariant
<1> QED BY <1>1, <1>4, <1>8, WriteStep

\* Ids that leave the store leave all three keys, and are no longer issued.
LEMMA RemoveStep ==
    ASSUME SimulationPart, NEW gone \in SUBSET Simulations, Remove(gone), now' = now,
           fate' \in [Simulations -> {"new", "issued", "deleted", "reported", "unheard"}],
           \A s \in Simulations \ gone : fate'[s] = fate[s],
           \A s \in gone : fate'[s] # "issued"
    PROVE  SimulationPart'
<1> USE DEF SimulationPart
<1>1. Keys(Retention)' = Keys(Retention) /\ Absent \in Keys(Retention)
  BY DEF Keys
<1>2. SimulationTypeOK'
  BY <1>1 DEF SimulationTypeOK, Remove
<1>3. SimulationInvariant'
  <2> SUFFICES ASSUME NEW s \in Simulations
               PROVE  /\ revision'[s] = document'[s]
                      /\ document'[s] # Absent =>
                            index'[s] = Seconds(document'[s].expires)
                      /\ (index'[s] # Absent) <=> (fate'[s] = "issued")
    BY DEF SimulationInvariant, Seconds
  <2>1. CASE s \in gone
    BY <2>1 DEF Remove
  <2>2. CASE s \notin gone
    BY <2>2 DEF Remove, SimulationInvariant
  <2> QED BY <2>1, <2>2
<1> QED BY <1>2, <1>3

\* delete
LEMMA DeleteSimulationStep ==
    ASSUME SimulationPart, NEW s \in Simulations, DeleteSimulation(s), now' = now
    PROVE  SimulationPart'
<1>1. fate' \in [Simulations -> {"new", "issued", "deleted", "reported", "unheard"}]
  BY DEF DeleteSimulation, SimulationPart, SimulationTypeOK
<1>2. fate'[s] # "issued" /\ \A o \in Simulations \ {s} : fate'[o] = fate[o]
  BY DEF DeleteSimulation, SimulationPart, SimulationTypeOK
<1> QED BY <1>1, <1>2, RemoveStep DEF DeleteSimulation

\* A pass takes ids that are due, and therefore issued.
LEMMA CleanupStep ==
    ASSUME SimulationPart, Cleanup, now' = now
    PROVE  SimulationPart'
<1>1. PICK gone \in Passes, heard \in BOOLEAN :
        /\ Remove(gone)
        /\ fate' = [s \in Simulations |->
                       IF s \in gone THEN IF heard THEN "reported" ELSE "unheard"
                                     ELSE fate[s]]
  BY DEF Cleanup
<1>2. gone \in SUBSET Simulations
  BY DEF Passes, Due
<1>3. fate' \in [Simulations -> {"new", "issued", "deleted", "reported", "unheard"}]
  BY <1>1 DEF SimulationPart, SimulationTypeOK
<1>4. /\ \A s \in Simulations \ gone : fate'[s] = fate[s]
      /\ \A s \in gone : fate'[s] # "issued"
  BY <1>1, <1>2
<1> QED BY <1>1, <1>2, <1>3, <1>4, RemoveStep

\* Equal keys expire together, and the index does not expire.
LEMMA ExpireSimulationsStep ==
    ASSUME SimulationPart, now < MaxTime, now' = now + 1, ExpireSimulations(now')
    PROVE  SimulationPart'
<1> USE DEF SimulationPart
<1>1. now \in Nat /\ now' \in 0 .. MaxTime /\ Retention \in Nat \ {0}
  BY RedisAssumption, SimulationStoreAssumption
<1>2. /\ document' = [s \in Simulations |-> Surviving(document[s], now')]
      /\ revision' = [s \in Simulations |-> Surviving(revision[s], now')]
      /\ index' = index /\ fate' = fate
  BY DEF ExpireSimulations
<1>3. \A s \in Simulations :
        /\ document[s] \in Keys(Retention)
        /\ revision[s] \in Keys(Retention)
  BY DEF SimulationTypeOK
<1>4. \A s \in Simulations :
        /\ Surviving(document[s], now') \in Keys(Retention)'
        /\ Surviving(revision[s], now') \in Keys(Retention)'
        /\ Surviving(document[s], now') \in {document[s], Absent}
  BY <1>1, <1>3, SurvivingType
<1>5. SimulationTypeOK'
  BY <1>2, <1>4 DEF SimulationTypeOK
<1>6. SimulationInvariant'
  BY <1>2, <1>4 DEF SimulationInvariant, Seconds
<1> QED BY <1>1, <1>5, <1>6

\* A step of the session store is none of the simulations' business.
LEMMA SimulationsUnchanged ==
    ASSUME SimulationPart, UNCHANGED <<now, simulationKeys>>
    PROVE  SimulationPart'
BY DEF SimulationPart, SimulationTypeOK, SimulationInvariant, simulationKeys, Keys, Seconds

-----------------------------------------------------------------------------
(* The sessions                                                            *)

SessionPart == now \in 0 .. MaxTime /\ SessionTypeOK /\ SessionInvariant

\* What is true of the keys and the phase of one session.
Agrees(u) ==
    /\ Known(u) /\ session[u] # Absent =>
          /\ sessionVersion[u] # Absent
          /\ sessionVersion[u].value = session[u].value
          /\ sessionVersion[u].expires >= session[u].expires
    /\ phase[u] = "creating" /\ session[u] # Absent => session[u].value = 0
    /\ u \in deleting => phase[u] = "deleted" /\ session[u] = Absent

\* A command on one session leaves the others as they were.
LEMMA SessionCommand ==
    ASSUME SessionPart, now' = now, SessionTypeOK', NEW u \in Sessions,
           \A o \in Sessions \ {u} :
               /\ session'[o] = session[o]
               /\ sessionVersion'[o] = sessionVersion[o]
               /\ phase'[o] = phase[o]
               /\ o \in deleting' => o \in deleting,
           Agrees(u)'
    PROVE  SessionPart'
<1>1. ASSUME NEW o \in Sessions
      PROVE  Agrees(o)'
  <2>1. CASE o = u
    BY <2>1
  <2>2. CASE o # u
    BY <2>2 DEF SessionPart, SessionInvariant, Agrees, Known
  <2> QED BY <2>1, <2>2
<1>2. SessionInvariant'
  BY <1>1 DEF SessionInvariant, Agrees
<1> QED BY <1>2 DEF SessionPart

\* A key of a session, and what is known of it.
LEMMA SessionKey ==
    ASSUME SessionPart, NEW v \in 0 .. MaxVersion
    PROVE  /\ SetEx(v, SessionTtl) \in Keys(SessionTtl)
           /\ SetEx(v, SessionTtl) # Absent
           /\ SetEx(v, SessionTtl).value = v
           /\ SetEx(v, SessionTtl).expires = now + SessionTtl * TicksPerSecond
           /\ SetEx(v, SessionTtl).expires \in Nat
           /\ \A key \in Keys(SessionTtl) : key # Absent =>
                 /\ key.value \in 0 .. MaxVersion
                 /\ key.expires \in now + 1 .. now + SessionTtl * TicksPerSecond
                 /\ key.expires \in Nat
<1>1. now \in Nat /\ SessionTtl \in Nat \ {0}
  BY SessionStoreAssumption, RedisAssumption DEF SessionPart
<1>2. SessionTtl * TicksPerSecond \in Nat
  BY <1>1, TtlIsPositive
<1>3. \A key \in Keys(SessionTtl) : key # Absent =>
         /\ key.value \in 0 .. MaxVersion
         /\ key.expires \in now + 1 .. now + SessionTtl * TicksPerSecond
         /\ key.expires \in Nat
  BY <1>1, <1>2 DEF Keys
<1>4. /\ SetEx(v, SessionTtl) \in Keys(SessionTtl)
      /\ SetEx(v, SessionTtl) # Absent
      /\ SetEx(v, SessionTtl).value = v
      /\ SetEx(v, SessionTtl).expires = now + SessionTtl * TicksPerSecond
  BY <1>1, SetExType
<1> QED BY <1>3, <1>4

\* create, first command: no client knows the session yet.
LEMMA CreateSessionStep ==
    ASSUME SessionPart, NEW u \in Sessions, CreateSession(u), now' = now
    PROVE  SessionPart'
<1> USE DEF CreateSession
<1>1. 0 \in 0 .. MaxVersion
  BY RedisAssumption
<1> DEFINE key == SetEx(0, SessionTtl)
<1>2. key \in Keys(SessionTtl) /\ key.value = 0
  BY <1>1, SessionKey
<1> HIDE DEF key
<1>3. session' = [session EXCEPT ![u] = key]
  BY DEF key
<1>4. SessionTypeOK'
  BY <1>2, <1>3 DEF SessionPart, SessionTypeOK, Keys
<1>5. Agrees(u)'
  BY <1>2, <1>3 DEF Agrees, Known, SessionPart, SessionTypeOK, SessionInvariant
<1> QED BY <1>3, <1>4, <1>5, SessionCommand DEF SessionPart, SessionTypeOK

\* create, second command: the revision is at 0, as the document is, and it
\* was written no earlier, so it expires no earlier.
LEMMA SeedVersionStep ==
    ASSUME SessionPart, NEW u \in Sessions, SeedVersion(u), now' = now
    PROVE  SessionPart'
<1> USE DEF SeedVersion
<1>1. 0 \in 0 .. MaxVersion
  BY RedisAssumption
<1> DEFINE key == SetEx(0, SessionTtl)
<1>2. /\ key \in Keys(SessionTtl) /\ key # Absent /\ key.value = 0
      /\ key.expires = now + SessionTtl * TicksPerSecond
      /\ key.expires \in Nat
      /\ session[u] # Absent =>
            session[u].expires \in now + 1 .. now + SessionTtl * TicksPerSecond
  BY <1>1, SessionKey DEF SessionPart, SessionTypeOK
<1>3. now + SessionTtl * TicksPerSecond \in Nat
  BY <1>2
<1> HIDE DEF key
<1>4. sessionVersion' = [sessionVersion EXCEPT ![u] = key]
  BY DEF key
<1>5. SessionTypeOK'
  BY <1>2, <1>4 DEF SessionPart, SessionTypeOK, Keys
<1>6. session[u] # Absent => key.expires >= session[u].expires /\ session[u].value = 0
  BY <1>2, <1>3 DEF SessionPart, SessionInvariant
<1>7. Agrees(u)'
  BY <1>2, <1>4, <1>6 DEF Agrees, Known, SessionPart, SessionTypeOK, SessionInvariant
<1> QED BY <1>4, <1>5, <1>7, SessionCommand DEF SessionPart, SessionTypeOK

\* A create that failed leaves a session that nobody knows.
LEMMA AbandonCreateStep ==
    ASSUME SessionPart, NEW u \in Sessions, AbandonCreate(u), now' = now
    PROVE  SessionPart'
<1> USE DEF AbandonCreate
<1>1. 0 \in 0 .. MaxVersion
  BY RedisAssumption
<1> DEFINE key == SetEx(0, SessionTtl)
<1>2. key \in Keys(SessionTtl)
  BY <1>1, SessionKey
<1> HIDE DEF key
<1>3. sessionVersion' \in {sessionVersion, [sessionVersion EXCEPT ![u] = key]}
  BY DEF key
<1>4. SessionTypeOK'
  BY <1>2, <1>3 DEF SessionPart, SessionTypeOK, Keys
<1>5. Agrees(u)'
  BY DEF Agrees, Known, SessionPart, SessionTypeOK, SessionInvariant
<1>6. \A o \in Sessions \ {u} : sessionVersion'[o] = sessionVersion[o]
  BY <1>3 DEF SessionPart, SessionTypeOK
<1> QED BY <1>4, <1>5, <1>6, SessionCommand DEF SessionPart, SessionTypeOK

\* save_cas writes equal keys; a session that is being deleted has no document
\* to save over.
LEMMA SaveSessionStep ==
    ASSUME SessionPart, NEW u \in Sessions, SaveSession(u), now' = now
    PROVE  SessionPart'
<1>1. PICK held \in 0 .. session[u].value :
        /\ held < MaxVersion
        /\ session' = [session EXCEPT ![u] = SetEx(held + 1, SessionTtl)]
        /\ sessionVersion' = [sessionVersion EXCEPT ![u] = SetEx(held + 1, SessionTtl)]
  BY DEF SaveSession
<1>2. Known(u) /\ session[u] # Absent /\ phase' = phase /\ deleting' = deleting
  BY DEF SaveSession
<1>3. 0 \in 0 .. MaxVersion
  BY RedisAssumption
<1>4. session[u].value \in 0 .. MaxVersion
  BY <1>2, <1>3, SessionKey DEF SessionPart, SessionTypeOK
<1>5. held + 1 \in 0 .. MaxVersion
  BY <1>1, <1>4, RedisAssumption
<1> DEFINE key == SetEx(held + 1, SessionTtl)
<1>6. key \in Keys(SessionTtl) /\ key # Absent /\ key.expires \in Nat
  BY <1>5, SessionKey
<1> HIDE DEF key
<1>7. /\ session' = [session EXCEPT ![u] = key]
      /\ sessionVersion' = [sessionVersion EXCEPT ![u] = key]
  BY <1>1 DEF key
<1>8. SessionTypeOK'
  BY <1>2, <1>6, <1>7 DEF SessionPart, SessionTypeOK, Keys
<1>9. Agrees(u)'
  BY <1>2, <1>6, <1>7 DEF Agrees, Known, SessionPart, SessionTypeOK, SessionInvariant
<1> QED BY <1>2, <1>7, <1>8, <1>9, SessionCommand DEF SessionPart, SessionTypeOK

\* delete, first command.
LEMMA DeleteSessionStep ==
    ASSUME SessionPart, NEW u \in Sessions, DeleteSession(u), now' = now
    PROVE  SessionPart'
<1> USE DEF DeleteSession
<1>1. SessionTypeOK'
  BY DEF SessionPart, SessionTypeOK, Keys
<1>2. Agrees(u)'
  BY DEF Agrees, Known, SessionPart, SessionTypeOK
<1> QED BY <1>1, <1>2, SessionCommand DEF SessionPart, SessionTypeOK

\* delete, second command: the document is gone already.
LEMMA DeleteVersionStep ==
    ASSUME SessionPart, NEW u \in Sessions, DeleteVersion(u), now' = now
    PROVE  SessionPart'
<1> USE DEF DeleteVersion
<1>1. SessionTypeOK'
  BY DEF SessionPart, SessionTypeOK, Keys
<1>2. Agrees(u)'
  BY DEF Agrees, Known, SessionPart, SessionTypeOK, SessionInvariant
<1> QED BY <1>1, <1>2, SessionCommand DEF SessionPart, SessionTypeOK

\* A delete that failed leaves a revision without a document.
LEMMA AbandonDeleteStep ==
    ASSUME SessionPart, NEW u \in Sessions, AbandonDelete(u), now' = now
    PROVE  SessionPart'
<1> USE DEF AbandonDelete
<1>1. SessionTypeOK'
  BY DEF SessionPart, SessionTypeOK, Keys
<1>2. Agrees(u)'
  BY DEF Agrees, Known, SessionPart, SessionTypeOK, SessionInvariant
<1> QED BY <1>1, <1>2, SessionCommand DEF SessionPart, SessionTypeOK

\* A revision that expires no earlier than its document does not go first.
LEMMA ExpireSessionsStep ==
    ASSUME SessionPart, now < MaxTime, now' = now + 1, ExpireSessions(now')
    PROVE  SessionPart'
<1> USE DEF SessionPart
<1>1. now \in Nat /\ now' \in 0 .. MaxTime /\ SessionTtl \in Nat \ {0}
  BY RedisAssumption, SessionStoreAssumption
<1>2. /\ session' = [u \in Sessions |-> Surviving(session[u], now')]
      /\ sessionVersion' = [u \in Sessions |-> Surviving(sessionVersion[u], now')]
      /\ phase' = phase /\ deleting' = deleting
  BY DEF ExpireSessions
<1>3. \A u \in Sessions :
        session[u] \in Keys(SessionTtl) /\ sessionVersion[u] \in Keys(SessionTtl)
  BY DEF SessionTypeOK
<1>4. \A u \in Sessions :
        /\ Surviving(session[u], now') \in Keys(SessionTtl)'
        /\ Surviving(session[u], now') \in {session[u], Absent}
        /\ session[u] # Absent =>
              (Surviving(session[u], now') = session[u] <=> session[u].expires > now')
        /\ Surviving(sessionVersion[u], now') \in Keys(SessionTtl)'
        /\ sessionVersion[u] # Absent =>
              (Surviving(sessionVersion[u], now') = sessionVersion[u]
                  <=> sessionVersion[u].expires > now')
  BY <1>1, <1>3, SurvivingType
<1>5. SessionTypeOK'
  BY <1>2, <1>4 DEF SessionTypeOK
<1>6. ASSUME NEW u \in Sessions
      PROVE  Agrees(u)'
  <2>1. Agrees(u)
    BY DEF SessionInvariant, Agrees
  <2>2. CASE session'[u] = Absent
    BY <1>2, <2>1, <2>2 DEF Agrees, Known
  <2>3. CASE session'[u] # Absent
    <3>1. session'[u] = session[u] /\ session[u] # Absent /\ session[u].expires > now'
      BY <1>2, <1>4, <2>3
    <3>2. 0 \in 0 .. MaxVersion
      BY RedisAssumption
    <3>3. session[u].expires \in Nat
      BY <1>3, <3>1, <3>2, SessionKey
    <3>4. sessionVersion[u] # Absent => sessionVersion[u].expires \in Nat
      BY <1>3, <3>2, SessionKey
    <3>5. Known(u) => sessionVersion'[u] = sessionVersion[u]
      BY <1>1, <1>2, <1>4, <2>1, <3>1, <3>3, <3>4 DEF Agrees
    <3> QED BY <1>2, <2>1, <3>1, <3>5 DEF Agrees, Known
  <2> QED BY <2>2, <2>3
<1>7. SessionInvariant'
  BY <1>6 DEF SessionInvariant, Agrees
<1> QED BY <1>1, <1>5, <1>7

\* A step of the simulation store is none of the sessions' business.
LEMMA SessionsUnchanged ==
    ASSUME SessionPart, UNCHANGED <<now, sessionKeys>>
    PROVE  SessionPart'
BY DEF SessionPart, SessionTypeOK, SessionInvariant, sessionKeys, Keys, Known

-----------------------------------------------------------------------------
(* The invariant and what follows from it                                  *)

\* At first there are no keys and nobody knows of any.
LEMMA InitInvariant == Init => InductiveInvariant
<1> SUFFICES ASSUME Init PROVE InductiveInvariant
  OBVIOUS
<1> USE DEF Init, SimulationInit, SessionInit
<1>1. TypeOK
  BY RedisAssumption DEF TypeOK, SimulationTypeOK, SessionTypeOK, Keys
<1>2. SimulationInvariant
  BY DEF SimulationInvariant
<1>3. SessionInvariant
  BY DEF SessionInvariant, Known
<1> QED BY <1>1, <1>2, <1>3 DEF InductiveInvariant

\* Every step of the server and of its clients keeps the invariant.
LEMMA NextInvariant == InductiveInvariant /\ [Next]_vars => InductiveInvariant'
<1> SUFFICES ASSUME InductiveInvariant, [Next]_vars PROVE InductiveInvariant'
  OBVIOUS
<1>1. SimulationPart /\ SessionPart
  BY DEF InductiveInvariant, TypeOK, SimulationPart, SessionPart
<1>2. CASE SimulationNext /\ UNCHANGED <<now, sessionKeys>>
  <2>1. SimulationPart'
    BY <1>1, <1>2, CreateSimulationStep, SaveSimulationStep, DeleteSimulationStep,
       CleanupStep DEF SimulationNext
  <2>2. SessionPart'
    BY <1>1, <1>2, SessionsUnchanged
  <2> QED BY <2>1, <2>2 DEF InductiveInvariant, TypeOK, SimulationPart, SessionPart
<1>3. CASE SessionNext /\ UNCHANGED <<now, simulationKeys>>
  <2>1. SessionPart'
    BY <1>1, <1>3, CreateSessionStep, SeedVersionStep, AbandonCreateStep,
       SaveSessionStep, DeleteSessionStep, DeleteVersionStep, AbandonDeleteStep
       DEF SessionNext
  <2>2. SimulationPart'
    BY <1>1, <1>3, SimulationsUnchanged
  <2> QED BY <2>1, <2>2 DEF InductiveInvariant, TypeOK, SimulationPart, SessionPart
<1>4. CASE Tick
  <2>1. SimulationPart' /\ SessionPart'
    BY <1>1, <1>4, ExpireSimulationsStep, ExpireSessionsStep DEF Tick
  <2> QED BY <2>1 DEF InductiveInvariant, TypeOK, SimulationPart, SessionPart
<1>5. CASE UNCHANGED vars
  BY <1>1, <1>5, SimulationsUnchanged, SessionsUnchanged
     DEF vars, InductiveInvariant, TypeOK, SimulationPart, SessionPart
<1> QED BY <1>2, <1>3, <1>4, <1>5 DEF Next

\* The invariant holds of every behaviour of the two stores.
THEOREM Invariance == Spec => []InductiveInvariant
BY InitInvariant, NextInvariant, PTL DEF Spec

\* Type correctness: no key outlives its time to live.
THEOREM TypeCorrect == Spec => []TypeOK
<1>1. InductiveInvariant => TypeOK
  BY DEF InductiveInvariant
<1> QED BY <1>1, Invariance, PTL

\* The keys of a document never contradict one another (the scripts of the v2
\* store, and the pairs of commands of the v1 store, with keys expiring).
THEOREM KeysNeverTorn == Spec => []KeysAgree
<1>1. InductiveInvariant => KeysAgree
  BY DEF InductiveInvariant, SimulationInvariant, SessionInvariant, KeysAgree
<1> QED BY <1>1, Invariance, PTL

\* A simulation that ended unasked waits in the index for a cleanup
\* (CLEANUP_SCRIPT), whether its document has expired or not.
THEOREM EndsReported == Spec => []EndsAreReported
<1>1. InductiveInvariant => EndsAreReported
  BY DEF InductiveInvariant, SimulationInvariant, EndsAreReported
<1> QED BY <1>1, Invariance, PTL

-----------------------------------------------------------------------------
(* The implementation of DocumentStore                                     *)

\* The document that a key shows.
Shown(key) ==
    IF key = Absent THEN Absent ELSE [version |-> key.value, until |-> key.expires]

\* A simulation's document and a session's are those of their ids.
LEMMA DocumentsShown ==
    /\ Documents = [d \in Ids |-> IF d \in Simulations THEN Shown(document[d])
                                                     ELSE Shown(session[d])]
    /\ \A s \in Simulations : s \in Ids /\ Documents[s] = Shown(document[s])
    /\ \A u \in Sessions : u \in Ids /\ Documents[u] = Shown(session[u])
<1>1. Documents = [d \in Ids |-> IF d \in Simulations THEN Shown(document[d])
                                                     ELSE Shown(session[d])]
  BY DEF Documents, Shown
<1>2. \A u \in Sessions : u \notin Simulations
  BY PrefixAssumption
<1> QED BY <1>1, <1>2 DEF Ids

\* A key shows a document unless it is absent.
LEMMA ShownKey ==
    ASSUME now \in Nat, NEW seconds \in Nat \ {0}, NEW key \in Keys(seconds)
    PROVE  /\ Shown(key) = Absent <=> key = Absent
           /\ key # Absent => /\ Shown(key).version = key.value
                              /\ Shown(key).until = key.expires
                              /\ key.value \in Nat
                              /\ key.expires \in Nat
<1>1. seconds * TicksPerSecond \in Nat
  BY TtlIsPositive
<1>2. key # Absent => key.value \in Nat /\ key.expires \in Nat
  BY <1>1, RedisAssumption DEF Keys
<1>3. key # Absent => [version |-> key.value, until |-> key.expires] # Absent
  BY <1>2, PrefixAssumption
<1> QED BY <1>2, <1>3 DEF Shown

\* A key that is written shows the document that DocumentStore writes.
LEMMA WrittenShown ==
    ASSUME now \in Nat, NEW v \in 0 .. MaxVersion
    PROVE  /\ \A s \in Simulations :
                 Shown(SetEx(v, Retention)) = Store!Written(s, v)
           /\ \A u \in Sessions :
                 Shown(SetEx(v, SessionTtl)) = Store!Written(u, v)
<1>1. \A u \in Sessions : u \notin Simulations
  BY PrefixAssumption
<1>2. /\ SetEx(v, Retention) # Absent
      /\ SetEx(v, SessionTtl) # Absent
  BY SetExType, SimulationStoreAssumption, SessionStoreAssumption
<1> QED BY <1>1, <1>2 DEF Shown, SetEx, Store!Written, Ids

\* Before anything is created there are no documents.
LEMMA InitRefinement == Init => Store!StoreInit
<1> SUFFICES ASSUME Init PROVE Store!StoreInit
  OBVIOUS
<1>1. Documents = [d \in Ids |-> Absent]
  BY DEF Documents, Ids, Init, SimulationInit, SessionInit
<1>2. CreatedIds = {} /\ DeletedIds = {}
  BY DEF CreatedIds, DeletedIds, Init, SimulationInit, SessionInit
<1> QED BY <1>1, <1>2 DEF Store!StoreInit, Init

\* A command on the keys of one id changes at most its document.
LEMMA OneDocument ==
    ASSUME NEW d \in Ids,
           \A s \in Simulations \ {d} : document'[s] = document[s],
           \A u \in Sessions \ {d} : session'[u] = session[u]
    PROVE  /\ d \in Simulations =>
                 Documents' = [Documents EXCEPT ![d] = Shown(document'[d])]
           /\ d \in Sessions =>
                 Documents' = [Documents EXCEPT ![d] = Shown(session'[d])]
<1>1. \A u \in Sessions : u \notin Simulations
  BY PrefixAssumption
<1>2. Documents' = [o \in Ids |-> IF o \in Simulations THEN Shown(document'[o])
                                                     ELSE Shown(session'[o])]
  BY DEF Documents, Shown
<1>3. Documents = [o \in Ids |-> IF o \in Simulations THEN Shown(document[o])
                                                    ELSE Shown(session[o])]
  BY DocumentsShown
<1> QED BY <1>1, <1>2, <1>3 DEF Ids

\* A simulation is created with its document at revision 0.
LEMMA CreateSimulationRefines ==
    ASSUME InductiveInvariant, NEW s \in Simulations, CreateSimulation(s),
           UNCHANGED <<now, sessionKeys>>
    PROVE  Store!Create(s)
<1> USE DEF CreateSimulation, Write, sessionKeys, InductiveInvariant, TypeOK,
            SimulationTypeOK
<1>1. now \in Nat /\ 0 \in 0 .. MaxVersion
  BY RedisAssumption
<1>2. Documents' = [Documents EXCEPT ![s] = Shown(document'[s])]
  BY OneDocument DEF Ids
<1>3. Shown(document'[s]) = Store!Written(s, 0)
  BY <1>1, WrittenShown
<1>4. s \notin CreatedIds /\ CreatedIds' = CreatedIds \cup {s}
  BY PrefixAssumption DEF CreatedIds
<1>5. DeletedIds' = DeletedIds
  BY DEF DeletedIds
<1> QED BY <1>2, <1>3, <1>4, <1>5 DEF Store!Create

\* The revision that the script compares is that of the document.
LEMMA SaveSimulationRefines ==
    ASSUME InductiveInvariant, NEW s \in Simulations, SaveSimulation(s),
           UNCHANGED <<now, sessionKeys>>
    PROVE  Documents[s] # Absent /\ Store!SaveCas(s, Documents[s].version)
<1> USE DEF SaveSimulation, Write, sessionKeys, InductiveInvariant, TypeOK,
            SimulationTypeOK
<1>1. now \in Nat
  BY RedisAssumption
<1>2. PICK held \in 0 .. document[s].value :
        held < MaxVersion /\ Revision(s) = held /\ Write(s, held + 1)
  OBVIOUS
<1>3. document[s].value = held /\ document[s] # Absent
  BY <1>2 DEF Revision, SimulationInvariant
<1>4. /\ Documents[s] # Absent
      /\ Documents[s].version = held
      /\ held \in Nat
  BY <1>1, <1>3, ShownKey, DocumentsShown, SimulationStoreAssumption
<1>5. held + 1 \in 0 .. MaxVersion
  BY <1>2, <1>4, RedisAssumption
<1>6. Documents' = [Documents EXCEPT ![s] = Shown(document'[s])]
  BY <1>2, OneDocument DEF Ids
<1>7. document'[s] = SetEx(held + 1, Retention)
  BY <1>2
<1>8. Shown(document'[s]) = Store!Written(s, held + 1)
  BY <1>1, <1>5, <1>7, WrittenShown
<1>9. CreatedIds' = CreatedIds /\ DeletedIds' = DeletedIds
  BY DEF CreatedIds, DeletedIds
<1> QED BY <1>4, <1>6, <1>8, <1>9 DEF Store!SaveCas

\* Deleting what has come to an end before, one way or another, changes nothing.
LEMMA DeleteSimulationRefines ==
    ASSUME InductiveInvariant, NEW s \in Simulations, DeleteSimulation(s),
           UNCHANGED <<now, sessionKeys>>
    PROVE  Store!Delete(s) \/ UNCHANGED Store!storeVars
<1> USE DEF DeleteSimulation, Remove, sessionKeys, InductiveInvariant, TypeOK,
            SimulationTypeOK
<1>1. Documents' = [Documents EXCEPT ![s] = Absent]
  <2>1. Documents' = [Documents EXCEPT ![s] = Shown(document'[s])]
    BY OneDocument DEF Ids
  <2>2. Shown(document'[s]) = Absent
    BY DEF Shown
  <2> QED BY <2>1, <2>2
<1>2. CreatedIds' = CreatedIds
  BY DEF CreatedIds
<1>3. CASE fate[s] = "issued"
  <2>1. s \in CreatedIds
    BY DEF CreatedIds
  <2>2. DeletedIds' = DeletedIds \cup {s}
    BY <1>3, PrefixAssumption DEF DeletedIds
  <2> QED BY <1>1, <1>2, <2>1, <2>2 DEF Store!Delete
<1>4. CASE fate[s] # "issued"
  <2>1. now \in Nat
    BY RedisAssumption
  <2>2. index[s] = Absent
    BY <1>4 DEF SimulationInvariant
  <2>3. document[s] = Absent
    BY <2>1, <2>2, ShownKey, SecondsType, SimulationStoreAssumption, RedisAssumption
       DEF SimulationInvariant
  <2>4. Documents[s] = Absent
    BY <2>3, DocumentsShown DEF Shown
  <2>5. Documents' = Documents
    BY <1>1, <2>4, DocumentsShown
  <2>6. DeletedIds' = DeletedIds
    BY <1>4 DEF DeletedIds
  <2> QED BY <1>2, <2>5, <2>6 DEF Store!storeVars
<1> QED BY <1>3, <1>4

\* What a pass takes is past its retention, or less than a second short of it.
LEMMA CleanupRefines ==
    ASSUME InductiveInvariant, Cleanup, UNCHANGED <<now, sessionKeys>>
    PROVE  Store!Elapse
<1> USE DEF Remove, sessionKeys, InductiveInvariant, TypeOK, SimulationTypeOK
<1>1. PICK gone \in Passes, heard \in BOOLEAN :
        /\ Remove(gone)
        /\ fate' = [s \in Simulations |->
                       IF s \in gone THEN IF heard THEN "reported" ELSE "unheard"
                                     ELSE fate[s]]
  BY DEF Cleanup
<1>2. now \in Nat
  BY RedisAssumption
<1>3. gone \subseteq Simulations /\ \A s \in gone : index[s] # Absent
  BY DEF Passes, Due
<1>4. \A s \in gone : fate[s] = "issued"
  BY <1>3 DEF SimulationInvariant
<1>5. CreatedIds' = CreatedIds /\ DeletedIds' = DeletedIds
  BY <1>1, <1>4 DEF CreatedIds, DeletedIds
<1> DEFINE over == {d \in Ids : Store!Over(d, now')}
           ended == {s \in gone : document[s] # Absent}
<1>6. ASSUME NEW s \in ended
      PROVE  s \in over
  <2>1. s \in Simulations /\ s \in gone /\ document[s] # Absent
    BY <1>3
  <2>2. Seconds(document[s].expires) <= Seconds(now)
    BY <2>1 DEF Passes, Due, SimulationInvariant
  <2>3. /\ document[s].expires \in Nat
        /\ Shown(document[s]).until = document[s].expires
        /\ Shown(document[s]) # Absent
    BY <1>2, <2>1, ShownKey, SimulationStoreAssumption
  <2>4. now + (TicksPerSecond - 1) >= document[s].expires
    BY <1>2, <2>2, <2>3, SecondsAreEarly
  <2>5. s \in Ids /\ Documents[s] = Shown(document[s])
    BY <2>1, DocumentsShown
  <2>6. Store!Over(s, now')
    BY <2>1, <2>3, <2>4, <2>5 DEF Store!Over
  <2> QED BY <2>5, <2>6
<1>7. Documents' = [d \in Ids |-> IF d \in ended THEN Absent ELSE Documents[d]]
  <2>1. Documents' = [d \in Ids |-> IF d \in Simulations THEN Shown(document'[d])
                                                       ELSE Shown(session'[d])]
    BY DEF Documents, Shown
  <2>2. ASSUME NEW d \in Ids
        PROVE  Documents'[d] = IF d \in ended THEN Absent ELSE Documents[d]
    <3>1. CASE d \in Simulations
      BY <1>1, <2>1, <3>1, DocumentsShown DEF Shown
    <3>2. CASE d \notin Simulations
      BY <1>1, <1>3, <2>1, <3>2, DocumentsShown DEF Ids
    <3> QED BY <3>1, <3>2
  <2> QED BY <2>1, <2>2
<1>8. ended \in SUBSET over
  BY <1>6
<1> HIDE DEF ended
<1> QED BY <1>5, <1>7, <1>8 DEF Store!Elapse

\* A session is created with its document; the revision key, which comes
\* after it, is not seen.
LEMMA CreateSessionRefines ==
    ASSUME InductiveInvariant, NEW u \in Sessions, CreateSession(u),
           UNCHANGED <<now, simulationKeys>>
    PROVE  Store!Create(u)
<1> USE DEF CreateSession, simulationKeys, InductiveInvariant, TypeOK, SessionTypeOK
<1>1. now \in Nat /\ 0 \in 0 .. MaxVersion
  BY RedisAssumption
<1>2. Documents' = [Documents EXCEPT ![u] = Shown(session'[u])]
  BY OneDocument DEF Ids
<1>3. Shown(session'[u]) = Store!Written(u, 0)
  BY <1>1, WrittenShown
<1>4. u \notin CreatedIds /\ CreatedIds' = CreatedIds \cup {u}
  BY PrefixAssumption DEF CreatedIds
<1>5. DeletedIds' = DeletedIds
  BY DEF DeletedIds
<1> QED BY <1>2, <1>3, <1>4, <1>5 DEF Store!Create

\* The script of save_cas on a session that a client knows compares with the
\* revision of its document.
LEMMA SaveSessionRefines ==
    ASSUME InductiveInvariant, NEW u \in Sessions, SaveSession(u),
           UNCHANGED <<now, simulationKeys>>
    PROVE  Documents[u] # Absent /\ Store!SaveCas(u, Documents[u].version)
<1> USE DEF SaveSession, simulationKeys, InductiveInvariant, TypeOK, SessionTypeOK
<1>1. now \in Nat
  BY RedisAssumption
<1>2. PICK held \in 0 .. session[u].value :
        /\ held < MaxVersion
        /\ Version(u) = held
        /\ session' = [session EXCEPT ![u] = SetEx(held + 1, SessionTtl)]
  OBVIOUS
<1>3. session[u].value = held /\ session[u] # Absent
  BY <1>2 DEF Version, SessionInvariant
<1>4. /\ Documents[u] # Absent
      /\ Documents[u].version = held
      /\ held \in Nat
  <2>1. session[u] \in Keys(SessionTtl) /\ SessionTtl \in Nat \ {0}
    BY SessionStoreAssumption
  <2>2. Documents[u] = Shown(session[u])
    BY DocumentsShown
  <2>3. /\ Shown(session[u]) # Absent
        /\ Shown(session[u]).version = session[u].value
        /\ session[u].value \in Nat
    BY <1>1, <1>3, <2>1, ShownKey
  <2> QED BY <1>3, <2>2, <2>3
<1>5. held + 1 \in 0 .. MaxVersion
  BY <1>2, <1>4, RedisAssumption
<1>6. Documents' = [Documents EXCEPT ![u] = Shown(session'[u])]
  BY <1>2, OneDocument DEF Ids
<1>7. session'[u] = SetEx(held + 1, SessionTtl)
  BY <1>2
<1>8. Shown(session'[u]) = Store!Written(u, held + 1)
  BY <1>1, <1>5, <1>7, WrittenShown
<1>9. CreatedIds' = CreatedIds /\ DeletedIds' = DeletedIds
  BY DEF CreatedIds, DeletedIds
<1> QED BY <1>4, <1>6, <1>8, <1>9 DEF Store!SaveCas

\* The document of a session goes with the first of the two commands.
LEMMA DeleteSessionRefines ==
    ASSUME InductiveInvariant, NEW u \in Sessions, DeleteSession(u),
           UNCHANGED <<now, simulationKeys>>
    PROVE  Store!Delete(u)
<1> USE DEF DeleteSession, simulationKeys, InductiveInvariant, TypeOK, SessionTypeOK
<1>1. Documents' = [Documents EXCEPT ![u] = Absent]
  <2>1. Documents' = [Documents EXCEPT ![u] = Shown(session'[u])]
    BY OneDocument DEF Ids
  <2>2. Shown(session'[u]) = Absent
    BY DEF Shown
  <2> QED BY <2>1, <2>2
<1>2. u \in CreatedIds /\ CreatedIds' = CreatedIds
  BY DEF CreatedIds, Known
<1>3. DeletedIds' = DeletedIds \cup {u}
  BY PrefixAssumption DEF DeletedIds
<1> QED BY <1>1, <1>2, <1>3 DEF Store!Delete

\* The commands that leave the document alone do not show in the store.
LEMMA VersionCommandsStutter ==
    ASSUME InductiveInvariant, NEW u \in Sessions,
           SeedVersion(u) \/ AbandonCreate(u) \/ DeleteVersion(u) \/ AbandonDelete(u),
           UNCHANGED <<now, simulationKeys>>
    PROVE  UNCHANGED Store!storeVars
<1>1. session' = session /\ document' = document /\ fate' = fate /\ now' = now
  BY DEF SeedVersion, AbandonCreate, DeleteVersion, AbandonDelete, simulationKeys
<1>2. Documents' = Documents
  BY <1>1 DEF Documents
<1>3. CreatedIds' = CreatedIds /\ DeletedIds' = DeletedIds
  BY <1>1 DEF CreatedIds, DeletedIds, SeedVersion, AbandonCreate, DeleteVersion,
              AbandonDelete, InductiveInvariant, TypeOK, SessionTypeOK
<1> QED BY <1>1, <1>2, <1>3 DEF Store!storeVars

\* The documents that Redis drops are past their retention.
LEMMA TickRefines ==
    ASSUME InductiveInvariant, Tick
    PROVE  Store!Elapse
<1> USE DEF Tick, ExpireSimulations, ExpireSessions
<1>1. now \in Nat /\ now' = now + 1 /\ now' \in Nat
  BY RedisAssumption DEF InductiveInvariant, TypeOK
<1>2. CreatedIds' = CreatedIds /\ DeletedIds' = DeletedIds
  BY DEF CreatedIds, DeletedIds
<1> DEFINE key(d) == IF d \in Simulations THEN document[d] ELSE session[d]
           seconds(d) == IF d \in Simulations THEN Retention ELSE SessionTtl
           ended == {d \in Ids : key(d) # Absent /\ key(d).expires <= now'}
<1>3. ASSUME NEW d \in Ids
      PROVE  /\ key(d) \in Keys(seconds(d))
             /\ seconds(d) \in Nat \ {0}
             /\ Documents[d] = Shown(key(d))
             /\ Documents'[d] = Shown(Surviving(key(d), now'))
  <2>1. Documents' = [o \in Ids |-> IF o \in Simulations THEN Shown(document'[o])
                                                       ELSE Shown(session'[o])]
    BY DEF Documents, Shown
  <2>2. CASE d \in Simulations
    BY <2>1, <2>2, DocumentsShown, SimulationStoreAssumption
       DEF InductiveInvariant, TypeOK, SimulationTypeOK
  <2>3. CASE d \notin Simulations
    <3>1. d \in Sessions
      BY <2>3 DEF Ids
    <3> QED BY <2>1, <2>3, <3>1, DocumentsShown, SessionStoreAssumption
            DEF InductiveInvariant, TypeOK, SessionTypeOK
  <2> QED BY <2>2, <2>3
<1> HIDE DEF key, seconds
<1>4. ASSUME NEW d \in ended
      PROVE  Store!Over(d, now')
  <2>1. /\ Documents[d] # Absent
        /\ Documents[d].until = key(d).expires
        /\ key(d).expires \in Nat
    BY <1>1, <1>3, ShownKey
  <2>2. CASE d \in Simulations
    BY <1>1, <2>1, <2>2, RedisAssumption DEF Store!Over, Ids
  <2>3. CASE d \notin Simulations
    BY <1>1, <2>1, <2>3 DEF Store!Over, Ids
  <2> QED BY <2>2, <2>3
<1>5. ASSUME NEW d \in Ids
      PROVE  Documents'[d] = IF d \in ended THEN Absent ELSE Documents[d]
  BY <1>3 DEF Surviving, Shown
<1>6. Documents' = [d \in Ids |-> IF d \in ended THEN Absent ELSE Documents[d]]
  <2>1. Documents' = [d \in Ids |-> Documents'[d]]
    BY DEF Documents, Ids
  <2> QED BY <1>5, <2>1
<1>7. ended \in SUBSET {d \in Ids : Store!Over(d, now')}
  BY <1>4
<1> HIDE DEF ended
<1> QED BY <1>1, <1>2, <1>6, <1>7 DEF Store!Elapse

\* Every step of the stores is a step of DocumentStore or changes nothing in it.
LEMMA NextRefinement ==
    InductiveInvariant /\ [Next]_vars => [Store!StoreNext]_(Store!storeVars)
<1> SUFFICES ASSUME InductiveInvariant, [Next]_vars
             PROVE  Store!StoreNext \/ UNCHANGED Store!storeVars
  OBVIOUS
<1>1. CASE SimulationNext /\ UNCHANGED <<now, sessionKeys>>
  <2>1. CASE Cleanup
    BY <1>1, <2>1, CleanupRefines DEF Store!StoreNext
  <2>2. ASSUME NEW s \in Simulations,
               CreateSimulation(s) \/ SaveSimulation(s) \/ DeleteSimulation(s)
        PROVE  Store!StoreNext \/ UNCHANGED Store!storeVars
    <3>1. s \in Ids
      BY DEF Ids
    <3> QED BY <1>1, <2>2, <3>1, CreateSimulationRefines, SaveSimulationRefines,
            DeleteSimulationRefines DEF Store!StoreNext
  <2> QED BY <1>1, <2>1, <2>2 DEF SimulationNext
<1>2. CASE SessionNext /\ UNCHANGED <<now, simulationKeys>>
  <2>1. PICK u \in Sessions :
          \/ CreateSession(u) \/ SeedVersion(u) \/ AbandonCreate(u)
          \/ SaveSession(u)
          \/ DeleteSession(u) \/ DeleteVersion(u) \/ AbandonDelete(u)
    BY <1>2 DEF SessionNext
  <2>2. u \in Ids
    BY DEF Ids
  <2> QED BY <1>2, <2>1, <2>2, CreateSessionRefines, SaveSessionRefines,
          DeleteSessionRefines, VersionCommandsStutter DEF Store!StoreNext
<1>3. CASE Tick
  BY <1>3, TickRefines DEF Store!StoreNext
<1>4. CASE UNCHANGED vars
  BY <1>4 DEF vars, simulationKeys, sessionKeys, Store!storeVars, Documents,
              CreatedIds, DeletedIds
<1> QED BY <1>1, <1>2, <1>3, <1>4 DEF Next

\* The Redis stores are stores of whole documents (what InMemorySimulationStore
\* and InMemorySessionStore are by their locks): one revision at a time, from
\* the current one only, kept for its retention, gone for good once gone.
THEOREM StoresImplement == Spec => ImplementsStore
BY InitRefinement, NextRefinement, Invariance, PTL DEF Spec, ImplementsStore, Store!StoreSpec
=============================================================================
