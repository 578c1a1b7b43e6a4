---------------------------- MODULE SimulationV2 ----------------------------
(***************************************************************************)
(* The lifecycle of v2 rolling simulations: SimulationManager's create,    *)
(* advance, peek, delete and cleanup, the REST handler's expected_step     *)
(* check in front of advance, the SimulationStore they share, and each     *)
(* replica's snapshot cache.                                               *)
(*                                                                         *)
(* A request is a sequence of atomic steps separated by the code's awaits: *)
(*                                                                         *)
(*   check -> read -> lookup -> build -> commit -> evict -> done           *)
(*                                                                         *)
(* Every store operation is one atomic step, as it is in both backends (a  *)
(* map lock in memory, one Lua script in Redis).  Between two steps other  *)
(* requests, the sweeper, Redis's own expiry, a client disconnect and a    *)
(* process crash may all intervene.                                        *)
(*                                                                         *)
(* What a snapshot contains is a function of the immutable parameters and  *)
(* the step alone, so a cached snapshot is represented by its key.  Which  *)
(* entry the bounded cache drops is left open (Drop).  The single flight   *)
(* around tape builds is TapeBuilds.tla; here a build either delivers the  *)
(* snapshot (Build) or fails (BuildFails).                                 *)
(***************************************************************************)
EXTENDS Naturals, Sequences

CONSTANTS Sims,      \* simulation ids; random UUIDs, so never issued twice
          Steps,     \* Steps[s]: the total_steps of simulation s
          Replicas,  \* server processes sharing the store
          Requests,  \* requests that can be in flight at once
          Home,      \* Home[r]: the replica serving request r
          Absent,    \* no document stored (or none read yet)
          NoStep,    \* no expected_step supplied
          NoCall     \* a request slot that is not in use

Docs == [current_step : Nat,
         state        : {"Initialized", "InProgress", "Completed"},
         version      : Nat]

Calls == [op       : {"advance", "peek", "delete"},
          sim      : Sims,
          expected : Nat \cup {NoStep},
          start    : Nat,       \* ghost: snapshots consumed at invocation
          arrival  : {"stored", "removed"}]  \* ghost: the simulation then

ASSUME ParameterAssumption ==
    /\ Steps \in [Sims -> Nat \ {0}]
    /\ Home \in [Requests -> Replicas]
    /\ Absent \notin Docs
    /\ NoStep \notin Nat
    /\ NoCall \notin Calls

VARIABLES
    store,      \* store[s]: the stored document, or Absent
    index,      \* ids a cleanup can still report
    issued,     \* ids ever created
    snapshots,  \* snapshots[p]: the <<sim, step>> keys replica p has cached
    sweeping,   \* sweeping[p]: ids p's cleanup reaped and has yet to evict
    pc,         \* pc[r]: where request r is
    call,       \* call[r]: what request r asks
    doc,        \* doc[r]: the document r's manager call read
    result,     \* result[r]: the outcome of r, "none" while undecided
    served      \* ghost: served[s], the commits of s in the order they happened

vars == <<store, index, issued, snapshots, sweeping, pc, call, doc, result, served>>

Labels == {"idle", "check", "read", "lookup", "build", "commit", "delete",
           "evict", "done"}

Results == {"none", "served", "conflict", "notFound", "exhausted", "mismatch",
            "failed", "deleted"}

\* One committed advance: the step it consumed and the request that did it.
Commits == [step : Nat, by : Requests]

TypeOK ==
    /\ store \in [Sims -> Docs \cup {Absent}]
    /\ index \in SUBSET Sims
    /\ issued \in SUBSET Sims
    /\ snapshots \in [Replicas -> SUBSET (Sims \X Nat)]
    /\ sweeping \in [Replicas -> SUBSET Sims]
    /\ pc \in [Requests -> Labels]
    /\ call \in [Requests -> Calls \cup {NoCall}]
    /\ doc \in [Requests -> Docs \cup {Absent}]
    /\ result \in [Requests -> Results]
    /\ served \in [Sims -> Seq(Commits)]

-----------------------------------------------------------------------------
(* The document: SessionV2                                                 *)

NewDoc == [current_step |-> 0, state |-> "Initialized", version |-> 0]

IsComplete(s, d) == d.current_step >= Steps[s]

\* reject_terminal.  Its other branch, the Error state, is unreachable: no
\* code path writes it and validate_state refuses a document that carries it.
Terminal(s, d) == d.state = "Completed" \/ IsComplete(s, d)

\* validate: every document is checked before it is written.
Validates(s, d) ==
    /\ d.current_step <= Steps[s]
    /\ d.state = "Initialized" => d.current_step = 0
    /\ d.state = "Completed" => d.current_step = Steps[s]
    /\ d.state = "InProgress" => d.current_step \in 1 .. (Steps[s] - 1)

\* Bug: bump_version is forgotten.
AdvancedWithoutBump(s, d) ==
    LET next == d.current_step + 1
    IN  [current_step |-> next,
         state        |-> IF next >= Steps[s] THEN "Completed" ELSE "InProgress",
         version      |-> d.version]

\* The document an advance writes back: cursor + 1, the state that follows
\* from it, and bump_version.
Advanced(s, d) ==
    LET next == d.current_step + 1
    IN  [current_step |-> next,
         state        |-> IF next >= Steps[s] THEN "Completed" ELSE "InProgress",
         version      |-> d.version + 1]

-----------------------------------------------------------------------------
Init ==
    /\ store = [s \in Sims |-> Absent]
    /\ index = {}
    /\ issued = {}
    /\ snapshots = [p \in Replicas |-> {}]
    /\ sweeping = [p \in Replicas |-> {}]
    /\ pc = [r \in Requests |-> "idle"]
    /\ call = [r \in Requests |-> NoCall]
    /\ doc = [r \in Requests |-> Absent]
    /\ result = [r \in Requests |-> "none"]
    /\ served = [s \in Sims |-> <<>>]

\* Bug: ids are deterministic and come round again after a removal.
CreateReusingIds(s) ==
    /\ store[s] = Absent
    /\ store' = [store EXCEPT ![s] = NewDoc]
    /\ index' = index \cup {s}
    /\ issued' = issued \cup {s}
    /\ UNCHANGED <<snapshots, sweeping, pc, call, doc, result, served>>

\* create: one store write of a fresh document under a fresh random id.  The
\* document enters the expiry index in the same unit.
Create(s) ==
    /\ s \notin issued
    /\ Validates(s, NewDoc)
    /\ store' = [store EXCEPT ![s] = NewDoc]
    /\ index' = index \cup {s}
    /\ issued' = issued \cup {s}
    /\ UNCHANGED <<snapshots, sweeping, pc, call, doc, result, served>>

\* A client sends a request.  Only advance takes an expected_step.
Invoke(r, op, s, expected) ==
    /\ pc[r] = "idle"
    /\ s \in issued
    /\ expected # NoStep => op = "advance"
    /\ call' = [call EXCEPT ![r] = [op |-> op, sim |-> s, expected |-> expected,
                                    start |-> Len(served[s]),
                                    arrival |-> IF store[s] = Absent
                                                THEN "removed" ELSE "stored"]]
    /\ pc' = [pc EXCEPT ![r] = CASE op = "delete" -> "delete"
                                 [] expected # NoStep -> "check"
                                 [] OTHER -> "read"]
    /\ UNCHANGED <<store, index, issued, snapshots, sweeping, doc, result, served>>

\* Request r is decided: it goes to label l with outcome res.
Decide(r, l, res) ==
    /\ pc' = [pc EXCEPT ![r] = l]
    /\ result' = [result EXCEPT ![r] = res]

\* advance_simulation's precondition: a read of its own, made and forgotten
\* before the manager is called.
Check(r) ==
    LET s == call[r].sim
    IN  /\ pc[r] = "check"
        /\ \/ /\ store[s] = Absent
              /\ Decide(r, "done", "notFound")
           \/ /\ store[s] # Absent
              /\ store[s].current_step # call[r].expected
              /\ Decide(r, "done", "mismatch")
           \/ /\ store[s] # Absent
              /\ store[s].current_step = call[r].expected
              /\ Decide(r, "read", "none")
        /\ UNCHANGED <<store, index, issued, snapshots, sweeping, call, doc, served>>

\* Bug: the snapshot before the cursor is the one served.
ReadBehindCursor(r) ==
    LET d == store[call[r].sim]
    IN  /\ pc[r] = "read"
        /\ d # Absent /\ ~Terminal(call[r].sim, d)
        /\ doc' = [doc EXCEPT ![r] =
                      [d EXCEPT !.current_step = IF @ = 0 THEN 0 ELSE @ - 1]]
        /\ Decide(r, "lookup", "none")
        /\ UNCHANGED <<store, index, issued, snapshots, sweeping, call, served>>

\* The store read at the top of the manager's advance and peek.
Read(r) ==
    LET s == call[r].sim
    IN  /\ pc[r] = "read"
        /\ \/ /\ store[s] = Absent
              /\ Decide(r, "done", "notFound")
              /\ UNCHANGED doc
           \/ /\ store[s] # Absent
              /\ Terminal(s, store[s])
              /\ Decide(r, "done", "exhausted")
              /\ UNCHANGED doc
           \/ /\ store[s] # Absent
              /\ ~Terminal(s, store[s])
              /\ Decide(r, "lookup", "none")
              /\ doc' = [doc EXCEPT ![r] = store[s]]
        /\ UNCHANGED <<store, index, issued, snapshots, sweeping, call, served>>

\* Where a request goes with its snapshot in hand: a peek answers, an advance
\* commits.
HaveSnapshot(r) ==
    IF call[r].op = "peek" THEN Decide(r, "done", "served")
                           ELSE Decide(r, "commit", "none")

Key(r) == <<call[r].sim, doc[r].current_step>>

\* snapshot_at's cache lookup.
Lookup(r) ==
    /\ pc[r] = "lookup"
    /\ \/ /\ Key(r) \in snapshots[Home[r]]
          /\ HaveSnapshot(r)
       \/ /\ Key(r) \notin snapshots[Home[r]]
          /\ Decide(r, "build", "none")
    /\ UNCHANGED <<store, index, issued, snapshots, sweeping, call, doc, served>>

\* The tape and the snapshot are built, and the snapshot is cached.
Build(r) ==
    /\ pc[r] = "build"
    /\ snapshots' = [snapshots EXCEPT ![Home[r]] = @ \cup {Key(r)}]
    /\ HaveSnapshot(r)
    /\ UNCHANGED <<store, index, issued, sweeping, call, doc, served>>

\* The build surfaces an error; nothing has been written.
BuildFails(r) ==
    /\ pc[r] = "build"
    /\ Decide(r, "done", "failed")
    /\ UNCHANGED <<store, index, issued, snapshots, sweeping, call, doc, served>>
\* The part of a commit that writes, and where it leads.
Write(r) ==
    LET s == call[r].sim
        new == Advanced(s, doc[r])
    IN  /\ store' = [store EXCEPT ![s] = new]
        /\ index' = index \cup {s}
        /\ served' = [served EXCEPT ![s] =
                        Append(@, [step |-> doc[r].current_step, by |-> r])]
        /\ Decide(r, IF new.state = "Completed" THEN "evict" ELSE "done", "served")

\* Bug: a blind save of a document that is still there.
CommitWithoutCompare(r) ==
    /\ pc[r] = "commit"
    /\ store[call[r].sim] # Absent
    /\ Write(r)
    /\ UNCHANGED <<issued, snapshots, sweeping, call, doc>>

\* Bug: a conflict is swallowed and the snapshot answered all the same.
CommitServingTheLoser(r) ==
    /\ pc[r] = "commit"
    /\ store[call[r].sim] # Absent
    /\ IF store[call[r].sim].version = doc[r].version
       THEN Write(r)
       ELSE Decide(r, "done", "served") /\ UNCHANGED <<store, index, served>>
    /\ UNCHANGED <<issued, snapshots, sweeping, call, doc>>

\* Bug: the comparison is made with the revision about to be written.
CommitAgainstNewRevision(r) ==
    /\ pc[r] = "commit"
    /\ store[call[r].sim] # Absent
    /\ IF store[call[r].sim].version = doc[r].version + 1
       THEN Write(r)
       ELSE Decide(r, "done", "conflict") /\ UNCHANGED <<store, index, served>>
    /\ UNCHANGED <<issued, snapshots, sweeping, call, doc>>

\* save_cas, against the revision the request read.  The advance that serves
\* the last snapshot goes on to evict what is cached for the simulation.
Commit(r) ==
    LET s == call[r].sim
    IN  /\ pc[r] = "commit"
        /\ Validates(s, Advanced(s, doc[r]))
        /\ \/ /\ store[s] = Absent
              /\ Decide(r, "done", "notFound")
              /\ UNCHANGED <<store, index, served>>
           \/ /\ store[s] # Absent
              /\ store[s].version # doc[r].version
              /\ Decide(r, "done", "conflict")
              /\ UNCHANGED <<store, index, served>>
           \/ /\ store[s] # Absent
              /\ store[s].version = doc[r].version
              /\ Write(r)
        /\ UNCHANGED <<issued, snapshots, sweeping, call, doc>>

\* store.delete.  The eviction follows whether or not a document was found.
Delete(r) ==
    LET s == call[r].sim
    IN  /\ pc[r] = "delete"
        /\ Decide(r, "evict", IF store[s] = Absent THEN "notFound" ELSE "deleted")
        /\ store' = [store EXCEPT ![s] = Absent]
        /\ index' = index \ {s}
        /\ UNCHANGED <<issued, snapshots, sweeping, call, doc, served>>

\* evict(id): what this replica has cached for the simulation goes.
Evict(r) ==
    /\ pc[r] = "evict"
    /\ pc' = [pc EXCEPT ![r] = "done"]
    /\ snapshots' = [snapshots EXCEPT ![Home[r]] =
                       {k \in @ : k[1] # call[r].sim}]
    /\ UNCHANGED <<store, index, issued, sweeping, call, doc, result, served>>

\* The slots in R become free.
Free(R) ==
    /\ pc' = [r \in Requests |-> IF r \in R THEN "idle" ELSE pc[r]]
    /\ call' = [r \in Requests |-> IF r \in R THEN NoCall ELSE call[r]]
    /\ doc' = [r \in Requests |-> IF r \in R THEN Absent ELSE doc[r]]
    /\ result' = [r \in Requests |-> IF r \in R THEN "none" ELSE result[r]]

\* The response has been received and the slot is used again.
Return(r) ==
    /\ pc[r] = "done"
    /\ Free({r})
    /\ UNCHANGED <<store, index, issued, snapshots, sweeping, served>>

\* The client disconnects: the handler's future is dropped at an await.
Cancel(r) ==
    /\ pc[r] \notin {"idle", "done"}
    /\ Free({r})
    /\ UNCHANGED <<store, index, issued, snapshots, sweeping, served>>

\* Redis expires a document on its own; its index entry stays behind.
Lapse(s) ==
    /\ store[s] # Absent
    /\ store' = [store EXCEPT ![s] = Absent]
    /\ UNCHANGED <<index, issued, snapshots, sweeping, pc, call, doc, result, served>>

\* store.cleanup: documents past their deadline go and their ids are reported.
\* Time is left out: any indexed id may be past its deadline.
Sweep(p, expired) ==
    /\ sweeping[p] = {}
    /\ expired # {}
    /\ expired \subseteq index
    /\ store' = [s \in Sims |-> IF s \in expired THEN Absent ELSE store[s]]
    /\ index' = index \ expired
    /\ sweeping' = [sweeping EXCEPT ![p] = expired]
    /\ UNCHANGED <<issued, snapshots, pc, call, doc, result, served>>

\* The rest of the manager's cleanup: every reported id is evicted.
EvictSwept(p) ==
    /\ sweeping[p] # {}
    /\ snapshots' = [snapshots EXCEPT ![p] = {k \in @ : k[1] \notin sweeping[p]}]
    /\ sweeping' = [sweeping EXCEPT ![p] = {}]
    /\ UNCHANGED <<store, index, issued, pc, call, doc, result, served>>

\* The bounded cache drops an entry.
Drop(p) ==
    /\ \E k \in snapshots[p] : snapshots' = [snapshots EXCEPT ![p] = @ \ {k}]
    /\ UNCHANGED <<store, index, issued, sweeping, pc, call, doc, result, served>>

\* Replica p crashes and restarts with empty caches; the store survives.
Crash(p) ==
    /\ Free({r \in Requests : Home[r] = p})
    /\ snapshots' = [snapshots EXCEPT ![p] = {}]
    /\ sweeping' = [sweeping EXCEPT ![p] = {}]
    /\ UNCHANGED <<store, index, issued, served>>

\* The steps a request takes by itself once it has been sent.
RequestStep(r) ==
    \/ Check(r) \/ Read(r) \/ Lookup(r) \/ Build(r) \/ BuildFails(r)
    \/ Commit(r) \/ Delete(r) \/ Evict(r)

Next ==
    \/ \E s \in Sims : Create(s) \/ Lapse(s)
    \/ \E r \in Requests, op \in {"advance", "peek", "delete"}, s \in Sims :
          \E expected \in (0 .. Steps[s]) \cup {NoStep} : Invoke(r, op, s, expected)
    \/ \E r \in Requests : RequestStep(r) \/ Return(r) \/ Cancel(r)
    \/ \E p \in Replicas : EvictSwept(p) \/ Drop(p) \/ Crash(p)
    \/ \E p \in Replicas, expired \in SUBSET Sims : Sweep(p, expired)

Spec == Init /\ [][Next]_vars

-----------------------------------------------------------------------------
(* Safety                                                                  *)

\* A stored document and the history of commits agree: the cursor is the
\* number of advances that ever committed, every commit bumped the revision
\* exactly once, and the lifecycle state is the one the cursor implies.
DocumentMatchesHistory ==
    \A s \in Sims : store[s] # Absent =>
        /\ store[s].current_step = Len(served[s])
        /\ store[s].version = Len(served[s])
        /\ Validates(s, store[s])

\* The types, and the agreement of documents and history.
WellFormed == TypeOK /\ DocumentMatchesHistory

\* The document an advance is about to write is never one that validate
\* refuses: an advance that reached its commit cannot fail on the lifecycle.
AdvancePassesValidation ==
    \A r \in Requests :
        pc[r] = "commit" => Validates(call[r].sim, Advanced(call[r].sim, doc[r]))

\* Serve-then-advance: over its whole life a simulation with steps = N has
\* each of the indices 0 .. N-1 consumed once, in order, and nothing else,
\* however many requests on however many replicas race for the cursor.
EachStepConsumedOnce ==
    \A s \in Sims :
        /\ Len(served[s]) <= Steps[s]
        /\ \A i \in 1 .. Len(served[s]) : served[s][i].step = i - 1

\* No lost advance: an advance that answers with a snapshot is the one whose
\* commit consumed that step, so no two clients are told they consumed it.
AnswerIsOwnCommit ==
    \A r \in Requests :
        (call[r] # NoCall /\ call[r].op = "advance" /\ result[r] = "served") =>
            LET n == doc[r].current_step + 1
            IN  /\ n <= Len(served[call[r].sim])
                /\ served[call[r].sim][n].by = r

\* A 409 is never spurious: whoever gets one lost to an advance that committed
\* after it read the simulation, so the system as a whole made progress.
ConflictMeansProgress ==
    \A r \in Requests :
        (call[r] # NoCall /\ result[r] = "conflict") =>
            doc[r].version < Len(served[call[r].sim])

\* An answer is current: the step it serves was at the cursor at some moment
\* between the request's arrival and its answer.  It is the read of the document that
\* makes it so: what is cached is found by simulation and step.
AnswerIsCurrent ==
    \A r \in Requests :
        (call[r] # NoCall /\ result[r] = "served") =>
            doc[r].current_step \in call[r].start .. Len(served[call[r].sim])

\* Every path reads the store before the cache: a request that arrives after
\* the simulation was removed is never answered from what is still cached.
NothingServedAfterRemoval ==
    \A r \in Requests :
        (call[r] # NoCall /\ call[r].arrival = "removed") => result[r] \in {"none", "notFound"}

\* A removed simulation stays removed: no advance that was in flight when it
\* was deleted or reaped writes it back.
StaysRemoved ==
    [][\A s \in issued : store[s] = Absent => store'[s] = Absent]_vars

\* The service is a set of cursors, each consumed by one client at a time.
Cursor == INSTANCE SimulationCursor WITH
    phase  <- [s \in Sims |-> IF s \notin issued THEN "unborn"
                              ELSE IF store[s] = Absent THEN "removed" ELSE "live"],
    cursor <- [s \in Sims |-> Len(served[s])]

ImplementsCursor == Cursor!CursorSpec

-----------------------------------------------------------------------------
(* The inductive invariant behind the safety properties                    *)

\* Nothing exists of a simulation whose id has not been issued.
UnissuedIsBlank ==
    \A s \in Sims \ issued : store[s] = Absent /\ served[s] = <<>>

\* Request r holds a document that was the stored one at some moment after it
\* arrived.
HoldsDocument(r) ==
    /\ doc[r] \in Docs
    /\ doc[r].version = doc[r].current_step
    /\ doc[r].current_step < Steps[call[r].sim]
    /\ call[r].start <= doc[r].current_step
    /\ doc[r].current_step <= Len(served[call[r].sim])
    /\ call[r].arrival = "stored"

\* The step request r consumed is recorded as its own commit.
OwnsCommit(r) ==
    /\ doc[r].current_step < Len(served[call[r].sim])
    /\ served[call[r].sim][doc[r].current_step + 1].by = r

RequestIdle(r) == call[r] = NoCall /\ doc[r] = Absent /\ result[r] = "none"

RequestActive(r) ==
    /\ call[r] \in Calls
    /\ call[r].sim \in issued
    /\ call[r].start <= Len(served[call[r].sim])
    /\ call[r].arrival = "removed" =>
          store[call[r].sim] = Absent /\ result[r] \in {"none", "notFound"}
    /\ pc[r] \notin {"evict", "done"} => result[r] = "none"
    /\ pc[r] \in {"lookup", "build", "commit"} => HoldsDocument(r)
    /\ pc[r] \in {"check", "read", "lookup", "build"} => call[r].op # "delete"
    /\ pc[r] = "commit" => call[r].op = "advance"
    /\ result[r] \in {"served", "conflict"} => HoldsDocument(r)
    /\ result[r] = "conflict" => doc[r].current_step < Len(served[call[r].sim])
    /\ result[r] = "served" /\ call[r].op = "advance" => OwnsCommit(r)

RequestsConsistent ==
    \A r \in Requests : IF pc[r] = "idle" THEN RequestIdle(r) ELSE RequestActive(r)

InductiveInvariant ==
    /\ TypeOK
    /\ DocumentMatchesHistory
    /\ EachStepConsumedOnce
    /\ UnissuedIsBlank
    /\ RequestsConsistent

-----------------------------------------------------------------------------
(* What a comment says and the code does not do                            *)

\* An advance that carries expected_step consumes that step or none.
ExpectedStepHonoured ==
    \A r \in Requests :
        (call[r] # NoCall /\ result[r] = "served") =>
            call[r].expected \in {NoStep, doc[r].current_step}
=============================================================================
