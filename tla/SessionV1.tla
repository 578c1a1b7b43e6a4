------------------------------ MODULE SessionV1 -----------------------------
(***************************************************************************)
(* The lifecycle of one v1 session: SessionManager's create, advance,      *)
(* peek, update (PATCH), reinitialize (PUT) and delete, the handlers'      *)
(* reads in front of advance and PATCH, the SessionStore shared by all     *)
(* replicas, and the walk cache of each replica's Simulator.               *)
(*                                                                         *)
(*   advance: (check ->) read -> probe -> (build ->) serve -> save -> done *)
(*   peek:               read -> probe -> (build ->) serve -> done         *)
(*   build:    build, or (symbols ->) range -> prices                      *)
(*   PATCH:     merge -> read -> save -> done                              *)
(*   PUT:                read -> save -> done                              *)
(*   DELETE:           delete -> forget -> done                            *)
(*                                                                         *)
(* Each label is an await at which other requests, a crash, a disconnect   *)
(* or an expiry may intervene.  Sessions meet only in the walk cache,      *)
(* where a new walk can push out another session's (Drop), so one session  *)
(* is modelled.  Every session made over the API carries a seed, so a walk *)
(* is a function of its parameters with the prices it replays, and is      *)
(* represented by them.                                                    *)
(***************************************************************************)
EXTENDS PriceHistory

CONSTANTS Replicas,   \* server processes sharing the store
          Requests,   \* requests that can be in flight at once
          Home,       \* Home[r]: the replica serving request r
          Seeds,      \* seeds of a session
          Horizons,   \* step counts of a session
          Tables,     \* the price table as it grows
          Frame,      \* the time frame of the historical sources
          Loads,      \* what the clients of a behaviour may do
          Absent,     \* no session stored (or none read yet)
          Keep,       \* a field that a PATCH leaves out
          NoWalk,     \* no walk cached (or none in hand)
          NoSymbol,   \* a historical source that leaves the symbol open
          NoStep,     \* no expected_step supplied
          NoCall      \* a request slot that is not in use

\* A generated source has no prices and no symbol.
Methods == [source : {"generated", "historical"}, prices : Seq(Nat),
            symbol : Nat \cup {NoSymbol}]

Params == [steps : Horizons, seed : Seeds, method : Methods]

Changes == [steps : Horizons \cup {Keep}, seed : Seeds \cup {Keep},
            method : Methods \cup {Keep}]

States == {"Initialized", "InProgress", "Reinitialized", "Completed"}

\* total_steps is parameters.steps in every session: each constructor and
\* reinitialize set it so and nothing else writes either.
Sessions == [params : Params, current_step : Nat, state : States, version : Nat]

\* A walk, by the parameters of the session it was built for and by these with
\* the price series it replays.
Walks == [asked : Params, params : Params]

Calls == [op : {"advance", "peek", "patch", "put", "delete"},
          change : Changes, expected : Nat \cup {NoStep}]

\* How many requests are in flight at most, the parameters clients create and
\* replace with, their partial updates, the expected_step values they send, the
\* bound: no update is sent of a session that was written more often than this, and
\* the tables that the warehouse goes through.
LoadRecords == [width : Nat, puts : SUBSET Params, patches : SUBSET Changes,
                expected : SUBSET (Nat \cup {NoStep}), updates : Nat,
                tables : 1 .. Len(Tables)]

ASSUME SessionAssumption ==
    /\ IsFiniteSet(Requests) /\ IsFiniteSet(Replicas)
    /\ Home \in [Requests -> Replicas]
    /\ Horizons \subseteq Nat \ {0}
    /\ Loads \subseteq LoadRecords
    /\ Absent \notin Sessions /\ NoWalk \notin Walks /\ NoCall \notin Calls
    /\ \A i \in 1 .. Len(Tables) : /\ IsFiniteSet(Tables[i])
                                    /\ Tables[i] \subseteq [symbol : Nat, at : Nat, close : Int]
    /\ \A i \in 1 .. Len(Tables) - 1 : Tables[i] \subseteq Tables[i + 1]
    /\ Frame \in DOMAIN Interval
    /\ NoSymbol \notin Nat /\ NoStep \notin Nat /\ Keep \notin Horizons \cup Seeds \cup Methods

VARIABLES
    load,     \* the load of this behaviour
    table,    \* the table the warehouse has come to, in Tables
    session,  \* the stored session, or Absent
    walks,    \* walks[p]: the walk replica p has cached, or NoWalk
    pc,       \* pc[r]: where request r is
    call,     \* call[r]: what request r asks
    params,   \* params[r]: the parameters an update is going to write
    copy,     \* copy[r]: the request's own copy of the session
    pick,     \* pick[r]: what it has selected from the price table so far
    walk,     \* walk[r]: the walk it built, then the one it served from
    result,   \* result[r]: the outcome of r, "none" while undecided
    log       \* ghost: every write of the session that took effect, in order

vars == <<load, table, session, walks, pc, call, params, copy, pick, walk, result, log>>

Labels == {"idle", "check", "merge", "read", "probe", "build", "symbols", "range",
           "prices", "serve", "save", "delete", "forget", "done"}

Results == {"none", "served", "updated", "conflict", "notFound", "exhausted",
            "mismatch", "failed", "deleted"}

NoPick == [symbol |-> NoSymbol, start |-> 0]

\* One effective write: what it was, the parameters it left, the change and the
\* request behind it, and the walk that was served.
Writes == [kind : {"create", "advance", "update"}, params : Params,
           change : Changes \cup {Keep}, by : Requests \cup {NoCall},
           walk : Walks \cup {NoWalk}]

TypeOK ==
    /\ load \in Loads
    /\ table \in 1 .. load.tables
    /\ session \in Sessions \cup {Absent}
    /\ walks \in [Replicas -> Walks \cup {NoWalk}]
    /\ pc \in [Requests -> Labels]
    /\ call \in [Requests -> Calls \cup {NoCall}]
    /\ params \in [Requests -> Params \cup {NoCall}]
    /\ copy \in [Requests -> Sessions \cup {Absent}]
    /\ DOMAIN pick = Requests /\ \A r \in Requests : pick[r].symbol \in Nat \cup {NoSymbol}
    /\ walk \in [Requests -> Walks \cup {NoWalk}]
    /\ result \in [Requests -> Results]
    /\ log \in Seq(Writes)

-----------------------------------------------------------------------------
(* Parameters, sessions and walks                                          *)

\* apply_update: a field that is left out keeps its value.
Apply(change, p) ==
    [f \in DOMAIN p |-> IF change[f] = Keep THEN p[f] ELSE change[f]]

\* create_random_walk fetches a historical series that is missing or shorter
\* than the walk.
MustFetch(p) == p.method.source = "historical" /\ Len(p.method.prices) < p.steps

\* The method with the series that was fetched for it.
Resolved(p, symbol, prices) ==
    [p EXCEPT !.method = [source |-> "historical", prices |-> prices, symbol |-> symbol]]

NewSession(p) ==
    [params |-> p, current_step |-> 0, state |-> "Initialized", version |-> 0]

\* advance_state, advance_step and bump_version.
Advanced(s) ==
    [s EXCEPT !.current_step = @ + 1,
              !.state = IF s.current_step + 1 = s.params.steps
                        THEN "Completed" ELSE "InProgress",
              !.version = @ + 1]

\* Bug: an update leaves the cursor where it was.
ReinitializedInPlace(s, p) ==
    [s EXCEPT !.params = p, !.state = "Reinitialized", !.version = @ + 1]

\* reinitialize and bump_version, for a PATCH as for a PUT.
Reinitialized(s, p) ==
    [params |-> p, current_step |-> 0, state |-> "Reinitialized",
     version |-> s.version + 1]

-----------------------------------------------------------------------------
Init ==
    /\ load \in Loads
    /\ table = 1
    /\ session = Absent
    /\ walks = [p \in Replicas |-> NoWalk]
    /\ pc = [r \in Requests |-> "idle"]
    /\ call = [r \in Requests |-> NoCall]
    /\ params = [r \in Requests |-> NoCall]
    /\ copy = [r \in Requests |-> Absent]
    /\ pick = [r \in Requests |-> NoPick]
    /\ walk = [r \in Requests |-> NoWalk]
    /\ result = [r \in Requests |-> "none"]
    /\ log = <<>>

Record(kind, p, change, by, w) ==
    log' = Append(log, [kind |-> kind, params |-> p, change |-> change, by |-> by, walk |-> w])

\* create_session: a fresh random id, so it happens once.
Create(p) ==
    /\ log = <<>>
    /\ session' = NewSession(p)
    /\ Record("create", p, Keep, NoCall, NoWalk)
    /\ UNCHANGED <<walks, pc, call, params, copy, pick, walk, result>>

\* A client sends a request.  A PUT carries its parameters whole.
Invoke(r, op, change, expected) ==
    /\ pc[r] = "idle"
    /\ log # <<>>
    /\ Cardinality({q \in Requests : pc[q] # "idle"}) < load.width
    /\ op \in {"patch", "put"} => Len(log) <= load.updates
    /\ call' = [call EXCEPT ![r] = [op |-> op, change |-> change, expected |-> expected]]
    /\ params' = [params EXCEPT ![r] = IF op = "put" THEN change ELSE NoCall]
    /\ pc' = [pc EXCEPT ![r] = CASE op = "patch" -> "merge"
                                 [] op = "delete" -> "delete"
                                 [] expected # NoStep -> "check"
                                 [] OTHER -> "read"]
    /\ UNCHANGED <<session, walks, copy, pick, walk, result, log>>

\* Request r goes to label l with outcome res.
Decide(r, l, res) ==
    /\ pc' = [pc EXCEPT ![r] = l]
    /\ result' = [result EXCEPT ![r] = res]

\* advance_step's precondition, read before the manager is called.
Check(r) ==
    /\ pc[r] = "check"
    /\ \/ session = Absent /\ Decide(r, "done", "notFound")
       \/ /\ session # Absent
          /\ IF session.current_step = call[r].expected
             THEN Decide(r, "read", "none") ELSE Decide(r, "done", "mismatch")
    /\ UNCHANGED <<session, walks, call, params, copy, pick, walk, log>>

\* Bug: the change is merged into the parameters of the creation.
MergeIntoFirst(r) ==
    /\ pc[r] = "merge"
    /\ session # Absent
    /\ params' = [params EXCEPT ![r] = Apply(call[r].change, log[1].params)]
    /\ Decide(r, "read", "none")
    /\ UNCHANGED <<session, walks, call, copy, pick, walk, log>>

\* The PATCH handler merges the change into the parameters it reads ...
Merge(r) ==
    /\ pc[r] = "merge"
    /\ \/ /\ session = Absent
          /\ Decide(r, "done", "notFound")
          /\ UNCHANGED params
       \/ /\ session # Absent
          /\ params' = [params EXCEPT ![r] = Apply(call[r].change, session.params)]
          /\ Decide(r, "read", "none")
    /\ UNCHANGED <<session, walks, call, copy, pick, walk, log>>

\* ... and the manager reads the session again.  Only an advance and a peek
\* refuse a finished one.
Read(r) ==
    /\ pc[r] = "read"
    /\ \/ /\ session = Absent
          /\ Decide(r, "done", "notFound")
          /\ UNCHANGED copy
       \/ /\ session # Absent
          /\ call[r].op \in {"patch", "put"}
          /\ copy' = [copy EXCEPT ![r] = Reinitialized(session, params[r])]
          /\ Decide(r, "save", "none")
       \/ /\ session # Absent
          /\ call[r].op \in {"advance", "peek"}
          /\ \/ session.state = "Completed"
             \/ call[r].op = "advance" /\ session.current_step >= session.params.steps
          /\ Decide(r, "done", "exhausted")
          /\ UNCHANGED copy
       \/ /\ session # Absent
          /\ call[r].op \in {"advance", "peek"}
          /\ session.state # "Completed"
          /\ call[r].op = "advance" => session.current_step < session.params.steps
          /\ copy' = [copy EXCEPT ![r] = session]
          /\ Decide(r, "probe", "none")
    /\ UNCHANGED <<session, walks, call, params, pick, walk, log>>

\* Bug: a Reinitialized session builds a new walk but keeps the old one cached.
ProbeKeepingTheWalk(r) ==
    /\ pc[r] = "probe"
    /\ pc' = [pc EXCEPT ![r] =
                IF copy[r].state = "Reinitialized" \/ walks[Home[r]] = NoWalk
                THEN "build" ELSE "serve"]
    /\ UNCHANGED <<session, walks, call, params, copy, pick, walk, result, log>>

\* The simulator's first critical section: a Reinitialized session drops the
\* cached walk, and whoever finds none builds one.
Probe(r) ==
    LET stale == copy[r].state = "Reinitialized"
    IN  /\ pc[r] = "probe"
        /\ walks' = IF stale THEN [walks EXCEPT ![Home[r]] = NoWalk] ELSE walks
        /\ pc' = [pc EXCEPT ![r] =
                    IF stale \/ walks[Home[r]] = NoWalk THEN "build" ELSE "serve"]
        /\ UNCHANGED <<session, call, params, copy, pick, walk, result, log>>

\* create_random_walk, outside the lock: a walk is built at once from what the
\* parameters hold, or its prices are selected first, query by query ...
Build(r) ==
    LET p == copy[r].params
    IN  /\ pc[r] = "build"
        /\ \/ /\ MustFetch(p)
              /\ pick' = [pick EXCEPT ![r] = [symbol |-> p.method.symbol, start |-> 0]]
              /\ Decide(r, IF p.method.symbol = NoSymbol THEN "symbols" ELSE "range", "none")
              /\ UNCHANGED walk
           \/ /\ ~MustFetch(p)
              /\ walk' = [walk EXCEPT ![r] = [asked |-> p, params |-> p]]
              /\ Decide(r, "serve", "none")
              /\ UNCHANGED pick
        /\ UNCHANGED <<session, walks, call, params, copy, log>>

\* ... the symbol, if it is left open ...
SelectSymbol(r) ==
    /\ pc[r] = "symbols"
    /\ \E symbol \in ChosenSymbols(Tables[table], copy[r].params.seed) :
           pick' = [pick EXCEPT ![r] = [symbol |-> symbol, start |-> 0]]
    /\ Decide(r, "range", "none")
    /\ UNCHANGED <<session, walks, call, params, copy, walk, log>>

\* ... where in its range to start, with the next draw of the same stream ...
SelectStart(r) ==
    LET p == copy[r].params
        range == DateRange(Tables[table], pick[r].symbol)
        draw == IF p.method.symbol = NoSymbol THEN 2 ELSE 1
    IN  /\ pc[r] = "range"
        /\ \E start \in Starts(range, Frame, p.steps, p.seed, draw) :
               pick' = [pick EXCEPT ![r] = [symbol |-> pick[r].symbol, start |-> start]]
        /\ Decide(r, "prices", "none")
        /\ UNCHANGED <<session, walks, call, params, copy, walk, log>>

\* ... and the bars from there, if there are enough of them and each decodes to a
\* price (pos_or_panic).
FetchPrices(r) ==
    LET p == copy[r].params
        prices == Bars(Tables[table], pick[r].symbol, Frame, pick[r].start, p.steps)
    IN  /\ pc[r] = "prices"
        /\ Len(prices) = p.steps
        /\ prices \in Seq(Nat)
        /\ walk' = [walk EXCEPT ![r] =
                       [asked |-> p, params |-> Resolved(p, pick[r].symbol, prices)]]
        /\ pick' = [pick EXCEPT ![r] = NoPick]
        /\ Decide(r, "serve", "none")
        /\ UNCHANGED <<session, walks, call, params, copy, log>>

\* The database does not answer, has too little, or the walk cannot be built.
FailToBuild(r) ==
    /\ pc[r] \in {"build", "symbols", "range", "prices"}
    /\ pick' = [pick EXCEPT ![r] = NoPick]
    /\ Decide(r, "done", "failed")
    /\ UNCHANGED <<session, walks, call, params, copy, walk, log>>

\* The walk request r serves from: the cached one if there is one, even when r
\* has just built its own (or_insert).
Entry(r) == IF walks[Home[r]] # NoWalk THEN walks[Home[r]] ELSE walk[r]

\* Bug: the resolved method is not written back.
WithItsOwnMethod(e, s) == s

\* The session with the entry's resolved method written back.
WithMethodOf(e, s) ==
    IF MustFetch(e.asked) THEN [s EXCEPT !.params.method = e.params.method] ELSE s

\* The second critical section.  A hit that has been evicted since the first
\* is an error, and so is a cursor beyond the end of the walk.  A walk is as long
\* as the steps it was asked for, which is what the library's generator is given.
Serve(r) ==
    LET e == Entry(r)
        s == WithMethodOf(e, copy[r])
    IN  /\ pc[r] = "serve"
        /\ \/ /\ e = NoWalk
              /\ Decide(r, "done", "failed")
              /\ UNCHANGED <<walks, copy, walk>>
           \/ /\ e # NoWalk
              /\ walks' = [walks EXCEPT ![Home[r]] = e]
              /\ walk' = [walk EXCEPT ![r] = e]
              /\ \/ /\ s.current_step >= e.params.steps
                    /\ Decide(r, "done", "exhausted")
                    /\ UNCHANGED copy
                 \/ /\ s.current_step < e.params.steps
                    /\ IF call[r].op = "advance"
                       THEN /\ copy' = [copy EXCEPT ![r] = Advanced(s)]
                            /\ Decide(r, "save", "none")
                       ELSE /\ copy' = [copy EXCEPT ![r] = s]
                            /\ Decide(r, "done", "served")
        /\ UNCHANGED <<session, call, params, pick, log>>

\* The part of a save that writes, and where it leads.
Write(r) ==
    LET advance == call[r].op = "advance"
    IN  /\ session' = copy[r]
        /\ Record(IF advance THEN "advance" ELSE "update", copy[r].params,
                  call[r].change, r, walk[r])
        /\ Decide(r, IF copy[r].state = "Completed" THEN "forget" ELSE "done",
                     IF advance THEN "served" ELSE "updated")

\* Bug: a blind save of a session that is still there.
SaveWithoutCompare(r) ==
    /\ pc[r] = "save"
    /\ session # Absent
    /\ Write(r)
    /\ UNCHANGED <<walks, call, params, copy, pick, walk>>

\* Bug: a conflict is swallowed.
SaveServingTheLoser(r) ==
    /\ pc[r] = "save"
    /\ session # Absent
    /\ IF session.version = copy[r].version - 1
       THEN Write(r)
       ELSE /\ Decide(r, "done", IF call[r].op = "advance" THEN "served" ELSE "updated")
            /\ UNCHANGED <<session, log>>
    /\ UNCHANGED <<walks, call, params, copy, pick, walk>>

\* Bug: the comparison is made with the revision about to be written.
SaveAgainstNewRevision(r) ==
    /\ pc[r] = "save"
    /\ session # Absent
    /\ IF session.version = copy[r].version
       THEN Write(r)
       ELSE Decide(r, "done", "conflict") /\ UNCHANGED <<session, log>>
    /\ UNCHANGED <<walks, call, params, copy, pick, walk>>

\* save_cas, against the revision the manager read.
Save(r) ==
    /\ pc[r] = "save"
    /\ \/ /\ session = Absent
          /\ Decide(r, "done", "notFound")
          /\ UNCHANGED <<session, log>>
       \/ /\ session # Absent
          /\ session.version # copy[r].version - 1
          /\ Decide(r, "done", "conflict")
          /\ UNCHANGED <<session, log>>
       \/ /\ session # Absent
          /\ session.version = copy[r].version - 1
          /\ Write(r)
    /\ UNCHANGED <<walks, call, params, copy, pick, walk>>

\* store.delete; the walk is forgotten whether or not a session was found.
Delete(r) ==
    /\ pc[r] = "delete"
    /\ Decide(r, "forget", IF session = Absent THEN "notFound" ELSE "deleted")
    /\ session' = Absent
    /\ UNCHANGED <<walks, call, params, copy, pick, walk, log>>

\* remove_session.
Forget(r) ==
    /\ pc[r] = "forget"
    /\ walks' = [walks EXCEPT ![Home[r]] = NoWalk]
    /\ pc' = [pc EXCEPT ![r] = "done"]
    /\ UNCHANGED <<session, call, params, copy, pick, walk, result, log>>

\* The slots in R become free.
Free(R) ==
    /\ pc' = [r \in Requests |-> IF r \in R THEN "idle" ELSE pc[r]]
    /\ call' = [r \in Requests |-> IF r \in R THEN NoCall ELSE call[r]]
    /\ params' = [r \in Requests |-> IF r \in R THEN NoCall ELSE params[r]]
    /\ copy' = [r \in Requests |-> IF r \in R THEN Absent ELSE copy[r]]
    /\ pick' = [r \in Requests |-> IF r \in R THEN NoPick ELSE pick[r]]
    /\ walk' = [r \in Requests |-> IF r \in R THEN NoWalk ELSE walk[r]]
    /\ result' = [r \in Requests |-> IF r \in R THEN "none" ELSE result[r]]

\* A request has been answered and its slot is used again, or its client
\* disconnects and the handler's future is dropped at an await.
Return(r) ==
    /\ pc[r] = "done"
    /\ Free({r})
    /\ UNCHANGED <<session, walks, log>>

Cancel(r) ==
    /\ pc[r] \notin {"idle", "done"}
    /\ Free({r})
    /\ UNCHANGED <<session, walks, log>>

\* The session's time to live runs out, or the sweep finds it idle.  Unlike a
\* v2 cleanup this leaves the walk cached.
Lapse ==
    /\ session # Absent
    /\ session' = Absent
    /\ UNCHANGED <<walks, pc, call, params, copy, pick, walk, result, log>>

\* enforce_capacity: another session's walk pushes this one's out.
Drop(p) ==
    /\ walks[p] # NoWalk
    /\ walks' = [walks EXCEPT ![p] = NoWalk]
    /\ UNCHANGED <<session, pc, call, params, copy, pick, walk, result, log>>

\* Replica p restarts with an empty cache; the store survives.
Crash(p) ==
    /\ Free({r \in Requests : Home[r] = p})
    /\ walks' = [walks EXCEPT ![p] = NoWalk]
    /\ UNCHANGED <<session, log>>

RequestStep(r) ==
    \/ Check(r) \/ Merge(r) \/ Read(r) \/ Probe(r)
    \/ Build(r) \/ SelectSymbol(r) \/ SelectStart(r) \/ FetchPrices(r) \/ FailToBuild(r)
    \/ Serve(r) \/ Save(r) \/ Delete(r) \/ Forget(r)

NoChange == [steps |-> Keep, seed |-> Keep, method |-> Keep]

Ask(r) ==
    \/ \E expected \in load.expected : Invoke(r, "advance", NoChange, expected)
    \/ \E op \in {"peek", "delete"} : Invoke(r, op, NoChange, NoStep)
    \/ \E change \in load.patches : Invoke(r, "patch", change, NoStep)
    \/ \E change \in load.puts : Invoke(r, "put", change, NoStep)

ServiceStep ==
    \/ \E p \in load.puts : Create(p)
    \/ \E r \in Requests : Ask(r) \/ RequestStep(r) \/ Return(r) \/ Cancel(r)
    \/ \E p \in Replicas : Drop(p) \/ Crash(p)
    \/ Lapse

\* Rows are added to the price table.
Grow ==
    /\ table < load.tables
    /\ table' = table + 1
    /\ UNCHANGED <<session, walks, pc, call, params, copy, pick, walk, result, log>>

Next ==
    /\ \/ ServiceStep /\ UNCHANGED table
       \/ Grow
    /\ UNCHANGED load

Spec == Init /\ [][Next]_vars

-----------------------------------------------------------------------------
(* Properties                                                              *)

\* Where in the log the current tape began: its create or its last update.
Restart == Max({i \in 1 .. Len(log) : log[i].kind # "advance"})

Consumed == IF log = <<>> THEN 0 ELSE Len(log) - Restart

Horizon == IF log = <<>> THEN 0 ELSE log[Restart].params.steps

\* The types, and the stored session and the history of writes agree: one
\* revision per write, the cursor is the number of advances since the tape began,
\* the horizon is the one it began with, and the state is the one these imply.
SessionMatchesHistory ==
    /\ TypeOK
    /\ session # Absent =>
           /\ session.version = Len(log) - 1
           /\ session.current_step = Consumed
           /\ session.params = log[Len(log)].params
           /\ session.params.steps = Horizon
           /\ session.state = CASE Consumed = Horizon -> "Completed"
                                [] Consumed \in 1 .. Horizon - 1 -> "InProgress"
                                [] Len(log) = 1 -> "Initialized"
                                [] OTHER -> "Reinitialized"

\* A request answered with a snapshot or an update is the one whose write took
\* the revision after the one it read: no write is lost, none is answered twice.
AnswerIsOwnWrite ==
    \A r \in Requests :
        (result[r] = "updated" \/ (result[r] = "served" /\ call[r].op = "advance")) =>
            /\ copy[r].version + 1 <= Len(log)
            /\ log[copy[r].version + 1].by = r
            /\ log[copy[r].version + 1].params = copy[r].params

\* A 409 is never spurious: a write took effect after the manager's read.
ConflictMeansProgress ==
    \A r \in Requests : result[r] = "conflict" => copy[r].version <= Len(log) - 1

\* The service is a cursor that only a parameter change sets back, and a
\* removed session stays removed, whatever was in flight.
Cursor == INSTANCE RestartableCursor WITH
    phase   <- IF log = <<>> THEN "unborn" ELSE IF session = Absent THEN "removed" ELSE "live",
    horizon <- Horizon,
    cursor  <- Consumed

ImplementsCursor == Cursor!CursorSpec

-----------------------------------------------------------------------------
(* What the comments say, and what holds only of one request at a time     *)

\* The walk a request serves from describes the parameters of the session it
\* read (simulator.rs, "a hit implies the parameters still describe this walk").
ServedWalkIsCurrent ==
    \A r \in Requests :
        result[r] = "served" => walk[r].params = copy[r].params

\* A PATCH that is answered has changed the fields it named and no other: it
\* does not clobber an update that took effect before it (manager.rs).
PatchKeepsOtherUpdates ==
    \A i \in 2 .. Len(log) :
        log[i].kind = "update" => log[i].params = Apply(log[i].change, log[i - 1].params)

\* An advance that carries expected_step consumes that step or none.
ExpectedStepHonoured ==
    \A r \in Requests :
        (result[r] = "served" /\ call[r].op = "advance") =>
            call[r].expected \in {NoStep, copy[r].current_step - 1}

OneAtATime == load.width = 1 /\ Cardinality(Replicas) = 1

\* Of requests that come one at a time to one replica, whatever is updated,
\* evicted, cancelled or lost between them, the walk cache keeps its promise ...
AloneWalkIsCurrent == OneAtATime => ServedWalkIsCurrent

\* ... a PATCH changes what it names, and an advance takes the step it expects.
AloneUpdatesAreHonoured == OneAtATime => PatchKeepsOtherUpdates /\ ExpectedStepHonoured

\* The advances between two updates serve one price series, although the table
\* grows, the walk is evicted and a peek's copy of the session is thrown away.
AloneTapeIsOneSeries ==
    OneAtATime =>
        \A i \in 2 .. Len(log) - 1 :
            (log[i].kind = "advance" /\ log[i + 1].kind = "advance") =>
                log[i].walk.params.method.prices = log[i + 1].walk.params.method.prices

\* A series reads the same in the table as it comes to be, if its symbol has no gaps.
IsSettled(method) ==
    LET last == Tables[Len(Tables)]
        ticks == TicksOf(last, method.symbol)
    IN  \/ ticks # Min(ticks) .. Max(ticks)
        \/ \E start \in ticks :
               Bars(last, method.symbol, Frame, start, Len(method.prices)) = method.prices

\* Of a symbol without gaps no bar is served that was still forming when it was
\* fetched: however the table grows, it still reads the same.
SeriesIsSettled ==
    \A r \in Requests :
        LET method == walk[r].params.method
        IN  walk[r] # NoWalk /\ method.source = "historical" => IsSettled(method)

(***************************************************************************)
(* What this takes: the rows of a symbol are added in the order of their   *)
(* ticks, a step is no shorter than a bar, as in every time frame but the  *)
(* month, whose step is 30 days, and the prices are not the client's own.  *)
(***************************************************************************)
SeriesAreSelected ==
    /\ \A i, j \in 1 .. Len(Tables) :
           i <= j => /\ Tables[i] \subseteq Tables[j]
                     /\ \A row \in Tables[j] \ Tables[i], old \in Tables[i] :
                            row.symbol = old.symbol => old.at < row.at
    /\ {Interval[Frame], Span[Frame], DayTicks} \subseteq Nat \ {0}
    /\ Interval[Frame] <= Span[Frame]
    /\ \A l \in Loads :
           \A method \in {p.method : p \in l.puts} \cup ({c.method : c \in l.patches} \ {Keep}) :
               method.source = "historical" => method.prices = <<>>

\* A walk that is built again, after an eviction or on another replica, replays
\* the series that the same parameters selected before (simulator.rs, "the seeded
\* selection stream reloads the identical series on any rebuild").
RebuildsAreIdentical ==
    LET built == ({walk[r] : r \in Requests} \cup {walks[p] : p \in Replicas}) \ {NoWalk}
    IN  \A v, w \in built : v.asked = w.asked => v.params = w.params
=============================================================================
