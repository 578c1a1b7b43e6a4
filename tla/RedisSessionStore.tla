------------------------- MODULE RedisSessionStore -------------------------
(***************************************************************************)
(* InRedisSessionStore: a v1 session is a document key and a revision key. *)
(* save_cas is one script; create and delete are two commands each, which  *)
(* other connections come between and after the first of which the caller  *)
(* may fail or give up.                                                    *)
(*                                                                         *)
(* As in RedisSimulationStore, a document is its revision, reads and       *)
(* refusals are left out, and ids are random; a client learns its id when  *)
(* create has succeeded.  cleanup does nothing.  save, the blind upsert,   *)
(* is called by no manager and is not modelled.                            *)
(***************************************************************************)
EXTENDS Redis

CONSTANTS Sessions,
          SessionTtl   \* session_ttl, in seconds

ASSUME SessionStoreAssumption == SessionTtl \in Nat \ {0}

VARIABLES
    session,         \* session[u]: {prefix}{u}
    sessionVersion,  \* sessionVersion[u]: {prefix}{u}:ver
    phase,           \* phase[u]: where the life of u stands
    deleting         \* the sessions with a delete between its commands

sessionKeys == <<session, sessionVersion, phase, deleting>>

SessionTypeOK ==
    /\ session \in [Sessions -> Keys(SessionTtl)]
    /\ sessionVersion \in [Sessions -> Keys(SessionTtl)]
    /\ phase \in [Sessions -> {"new", "creating", "failed", "known", "deleted"}]
    /\ deleting \subseteq Sessions

SessionInit ==
    /\ session = [u \in Sessions |-> Absent]
    /\ sessionVersion = [u \in Sessions |-> Absent]
    /\ phase = [u \in Sessions |-> "new"]
    /\ deleting = {}

\* create: SET NX of the document
CreateSession(u) ==
    /\ phase[u] = "new"
    /\ session' = [session EXCEPT ![u] = SetEx(0, SessionTtl)]
    /\ phase' = [phase EXCEPT ![u] = "creating"]
    /\ UNCHANGED <<sessionVersion, deleting>>

\* create: SET of the revision, and the answer
SeedVersion(u) ==
    /\ phase[u] = "creating"
    /\ sessionVersion' = [sessionVersion EXCEPT ![u] = SetEx(0, SessionTtl)]
    /\ phase' = [phase EXCEPT ![u] = "known"]
    /\ UNCHANGED <<session, deleting>>

\* create fails or is abandoned between its commands, or its answer is lost.
AbandonCreate(u) ==
    /\ phase[u] = "creating"
    /\ phase' = [phase EXCEPT ![u] = "failed"]
    /\ sessionVersion' \in
          {sessionVersion, [sessionVersion EXCEPT ![u] = SetEx(0, SessionTtl)]}
    /\ UNCHANGED <<session, deleting>>

Known(u) == phase[u] \in {"known", "deleted"}

\* GET ... or '0'
Version(u) == IF sessionVersion[u] = Absent THEN 0 ELSE sessionVersion[u].value

\* Bug: the revision key keeps the time to live it had.
SaveSessionKeepingTtl(u) ==
    /\ Known(u)
    /\ session[u] # Absent
    /\ \E held \in 0 .. session[u].value :
          /\ held < MaxVersion
          /\ Version(u) = held
          /\ session' = [session EXCEPT ![u] = SetEx(held + 1, SessionTtl)]
          /\ sessionVersion' =
                [sessionVersion EXCEPT ![u] =
                    IF @ = Absent THEN SetEx(held + 1, SessionTtl)
                                  ELSE [@ EXCEPT !.value = held + 1]]
    /\ UNCHANGED <<phase, deleting>>

\* SAVE_CAS_SCRIPT, called with a revision that the document has had.
SaveSession(u) ==
    /\ Known(u)
    /\ session[u] # Absent
    /\ \E held \in 0 .. session[u].value :
          /\ held < MaxVersion
          /\ Version(u) = held
          /\ session' = [session EXCEPT ![u] = SetEx(held + 1, SessionTtl)]
          /\ sessionVersion' =
                [sessionVersion EXCEPT ![u] = SetEx(held + 1, SessionTtl)]
    /\ UNCHANGED <<phase, deleting>>

\* delete: DEL of the document
DeleteSession(u) ==
    /\ Known(u)
    /\ session' = [session EXCEPT ![u] = Absent]
    /\ phase' = [phase EXCEPT ![u] = "deleted"]
    /\ deleting' = deleting \cup {u}
    /\ UNCHANGED sessionVersion

\* delete: DEL of the revision
DeleteVersion(u) ==
    /\ u \in deleting
    /\ sessionVersion' = [sessionVersion EXCEPT ![u] = Absent]
    /\ deleting' = deleting \ {u}
    /\ UNCHANGED <<session, phase>>

\* delete fails or is abandoned between its commands.
AbandonDelete(u) ==
    /\ u \in deleting
    /\ deleting' = deleting \ {u}
    /\ UNCHANGED <<session, sessionVersion, phase>>

SessionNext ==
    \E u \in Sessions :
        \/ CreateSession(u) \/ SeedVersion(u) \/ AbandonCreate(u)
        \/ SaveSession(u)
        \/ DeleteSession(u) \/ DeleteVersion(u) \/ AbandonDelete(u)

\* Redis drops the keys whose time is up at t.
ExpireSessions(t) ==
    /\ session' = [u \in Sessions |-> Surviving(session[u], t)]
    /\ sessionVersion' = [u \in Sessions |-> Surviving(sessionVersion[u], t)]
    /\ UNCHANGED <<phase, deleting>>
=============================================================================
