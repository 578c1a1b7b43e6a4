-------------------------- MODULE SessionV1_proofs ---------------------------
(***************************************************************************)
(* Proofs about SessionV1, for any number of replicas and requests, any    *)
(* parameters and any price table: the inductive invariant, the properties *)
(* of the session and its answers that follow from it, the implementation  *)
(* of RestartableCursor, and what holds of requests that come one at a time*)
(* to one replica: cached walks, merges and series stay current.           *)
(***************************************************************************)
EXTENDS SessionV1, Totals_proofs

\* The current tape began at some write, which only advances have followed.
HistoryIsTape ==
    log # <<>> =>
        /\ Restart \in 1 .. Len(log)
        /\ log[Restart].kind # "advance"
        /\ \A i \in Restart + 1 .. Len(log) : log[i].kind = "advance"

\* The labels between the read of a session and the answer or write made of it.
Serving == {"probe", "build", "symbols", "range", "prices", "serve"}

\* A copy that is served from was the stored session when it was read, and still
\* is unless a write came in between.
HoldsSession(r) ==
    /\ call[r].op \in {"advance", "peek"}
    /\ copy[r] \in Sessions
    /\ copy[r].version < Len(log)
    /\ (session # Absent /\ session.version = copy[r].version) => copy[r] = session
    /\ call[r].op = "advance" => copy[r].current_step < copy[r].params.steps

\* A copy that is to be written is what the request makes of the revision before.
HoldsWrite(r) ==
    /\ call[r].op \in {"advance", "patch", "put"}
    /\ copy[r] \in Sessions
    /\ copy[r].version \in 1 .. Len(log)
    /\ (session # Absent /\ session.version = copy[r].version - 1) =>
           IF call[r].op = "advance"
           THEN /\ session.current_step < session.params.steps
                /\ copy[r].params.steps = session.params.steps
                /\ copy[r].current_step = session.current_step + 1
                /\ copy[r].state = IF session.current_step + 1 = session.params.steps
                                   THEN "Completed" ELSE "InProgress"
           ELSE copy[r].current_step = 0 /\ copy[r].state = "Reinitialized"

\* An answer that came from a save says what became of it.
HoldsAnswer(r) ==
    /\ (result[r] = "updated" \/ (result[r] = "served" /\ call[r].op = "advance")) =>
            /\ copy[r] \in Sessions
            /\ copy[r].version + 1 <= Len(log)
            /\ log[copy[r].version + 1].by = r
            /\ log[copy[r].version + 1].params = copy[r].params
    /\ result[r] = "conflict" => copy[r] \in Sessions /\ copy[r].version <= Len(log) - 1

RequestConsistent(r) ==
    /\ pc[r] # "idle" => call[r] \in Calls
    /\ pc[r] \notin {"forget", "done"} => result[r] = "none"
    /\ pc[r] = "check" => call[r].op = "advance"
    /\ (pc[r] = "read" /\ call[r].op \in {"patch", "put"}) => params[r] \in Params
    /\ pc[r] \in Serving => HoldsSession(r)
    /\ pc[r] = "save" => HoldsWrite(r)
    /\ HoldsAnswer(r)

InductiveInvariant ==
    /\ SessionMatchesHistory
    /\ HistoryIsTape
    /\ \A r \in Requests : RequestConsistent(r)

-----------------------------------------------------------------------------
(* Parameters, sessions and walks                                          *)

\* A client's parameters are a change of every field.
LEMMA ParamsAreChanges == Params \subseteq Changes
  BY DEF Params, Changes

\* Parameters with some fields changed are parameters.
LEMMA AppliedParams ==
    ASSUME NEW change \in Changes, NEW p \in Params
    PROVE  Apply(change, p) \in Params
  <1>1. DOMAIN p = {"steps", "seed", "method"}
    BY DEF Params
  <1>2. Apply(change, p) =
            [steps  |-> IF change.steps = Keep THEN p.steps ELSE change.steps,
             seed   |-> IF change.seed = Keep THEN p.seed ELSE change.seed,
             method |-> IF change.method = Keep THEN p.method ELSE change.method]
    BY <1>1 DEF Apply
  <1> QED
    BY <1>2 DEF Params, Changes

\* What an advance writes is a session, one step and one revision further on.
LEMMA AdvancedSession ==
    ASSUME NEW s \in Sessions
    PROVE  /\ Advanced(s) \in Sessions
           /\ Advanced(s).version = s.version + 1
           /\ Advanced(s).current_step = s.current_step + 1
           /\ Advanced(s).params = s.params
           /\ Advanced(s).state = IF s.current_step + 1 = s.params.steps
                                  THEN "Completed" ELSE "InProgress"
  <1> DEFINE state == IF s.current_step + 1 = s.params.steps THEN "Completed" ELSE "InProgress"
  <1>1. state \in States
    BY DEF States
  <1>2. Advanced(s) = [s EXCEPT !.current_step = s.current_step + 1, !.state = state,
                                !.version = s.version + 1]
    BY DEF Advanced
  <1>3. s.current_step + 1 \in Nat /\ s.version + 1 \in Nat
    BY DEF Sessions
  <1> HIDE DEF state
  <1>4. Advanced(s) \in Sessions /\ Advanced(s).state = state
    BY <1>1, <1>2, <1>3 DEF Sessions
  <1>5. /\ Advanced(s).version = s.version + 1
        /\ Advanced(s).current_step = s.current_step + 1
        /\ Advanced(s).params = s.params
    BY <1>2 DEF Sessions
  <1> QED
    BY <1>4, <1>5 DEF state

\* What an update writes is a session at the start of its tape.
LEMMA ReinitializedSession ==
    ASSUME NEW s \in Sessions, NEW p \in Params
    PROVE  /\ Reinitialized(s, p) \in Sessions
           /\ Reinitialized(s, p).version = s.version + 1
           /\ Reinitialized(s, p).current_step = 0
           /\ Reinitialized(s, p).state = "Reinitialized"
           /\ Reinitialized(s, p).params = p
  BY DEF Reinitialized, Sessions, States

\* The write-back of a resolved method touches nothing else.
LEMMA WithMethodSession ==
    ASSUME NEW s \in Sessions, NEW e \in Walks
    PROVE  /\ WithMethodOf(e, s) \in Sessions
           /\ WithMethodOf(e, s).version = s.version
           /\ WithMethodOf(e, s).current_step = s.current_step
           /\ WithMethodOf(e, s).params.steps = s.params.steps
           /\ WithMethodOf(e, s).state = s.state
  <1>1. e.params \in Params /\ e.params.method \in Methods
    BY DEF Walks, Params
  <1>2. s.params \in Params /\ s \in Sessions
    BY DEF Sessions
  <1>3. [s.params EXCEPT !.method = e.params.method] \in Params
    BY <1>1, <1>2 DEF Params
  <1>4. CASE MustFetch(e.asked)
    <2>1. WithMethodOf(e, s) = [s EXCEPT !.params = [s.params EXCEPT !.method = e.params.method]]
      BY <1>4 DEF WithMethodOf
    <2>2. [s.params EXCEPT !.method = e.params.method].steps = s.params.steps
      BY <1>2 DEF Params
    <2> QED
      BY <2>1, <2>2, <1>3 DEF Sessions
  <1>5. CASE ~MustFetch(e.asked)
    BY <1>5 DEF WithMethodOf
  <1> QED
    BY <1>4, <1>5

\* A walk of prices that were fetched is a walk.
LEMMA FetchedWalk ==
    ASSUME NEW p \in Params, NEW symbol \in Nat \cup {NoSymbol}, NEW prices \in Seq(Nat)
    PROVE  [asked |-> p, params |-> Resolved(p, symbol, prices)] \in Walks
  <1>1. [source |-> "historical", prices |-> prices, symbol |-> symbol] \in Methods
    BY DEF Methods
  <1>2. Resolved(p, symbol, prices) \in Params
    BY <1>1 DEF Resolved, Params
  <1> QED
    BY <1>2 DEF Walks

-----------------------------------------------------------------------------
(* The history                                                             *)

\* The largest number of a set.
LEMMA Largest ==
    ASSUME NEW S \in SUBSET Int, NEW k \in S, \A i \in S : i <= k
    PROVE  Max(S) = k
  <1>1. \A i \in S : k >= i
    OBVIOUS
  <1>2. Max(S) \in S /\ \A i \in S : Max(S) >= i
    BY <1>1 DEF Max
  <1> DEFINE m == Max(S)
  <1>3. m \in S /\ m \in Int /\ k \in Int /\ m >= k
    BY <1>2
  <1>4. m <= k
    BY <1>3
  <1> HIDE DEF m
  <1>5. m = k
    BY <1>3, <1>4
  <1> QED
    BY <1>5 DEF m

\* An advance goes on with the tape.
LEMMA AdvanceExtendsTape ==
    ASSUME TypeOK, HistoryIsTape, log # <<>>, NEW w \in Writes, w.kind = "advance",
           log' = Append(log, w)
    PROVE  /\ HistoryIsTape'
           /\ Restart' = Restart
           /\ Horizon' = Horizon
           /\ Consumed' = Consumed + 1
  <1>1. log \in Seq(Writes)
    BY DEF TypeOK
  <1>2. Len(log') = Len(log) + 1 /\ log'[Len(log) + 1] = w
    BY <1>1
  <1>3. \A i \in 1 .. Len(log) : log'[i] = log[i]
    BY <1>1
  <1>4. {i \in 1 .. Len(log') : log'[i].kind # "advance"}
            = {i \in 1 .. Len(log) : log[i].kind # "advance"}
    BY <1>1, <1>2, <1>3
  <1>5. Restart' = Restart
    BY <1>4 DEF Restart
  <1>6. Restart \in 1 .. Len(log) /\ log' # <<>>
    BY <1>1, <1>2 DEF HistoryIsTape
  <1>7. HistoryIsTape'
    BY <1>1, <1>2, <1>3, <1>5, <1>6 DEF HistoryIsTape
  <1> QED
    BY <1>1, <1>2, <1>3, <1>5, <1>6, <1>7 DEF Horizon, Consumed

\* Any other write begins a new one.
LEMMA UpdateBeginsTape ==
    ASSUME TypeOK, NEW w \in Writes, w.kind # "advance", log' = Append(log, w)
    PROVE  /\ HistoryIsTape'
           /\ Restart' = Len(log')
           /\ Horizon' = w.params.steps
           /\ Consumed' = 0
  <1>1. log \in Seq(Writes)
    BY DEF TypeOK
  <1>2. Len(log') = Len(log) + 1 /\ log'[Len(log')] = w /\ Len(log') \in Nat /\ log' # <<>>
    BY <1>1
  <1> DEFINE S == {i \in 1 .. Len(log') : log'[i].kind # "advance"}
  <1>3. S \in SUBSET Int /\ Len(log') \in S /\ \A i \in S : i <= Len(log')
    BY <1>1, <1>2
  <1>4. Max(S) = Len(log')
    <2> HIDE DEF S
    <2> QED
      BY <1>3, Largest
  <1>5. Restart' = Len(log')
    BY <1>4 DEF Restart
  <1> QED
    BY <1>1, <1>2, <1>5 DEF HistoryIsTape, Horizon, Consumed

\* The numbers of the history are numbers.
LEMMA HistoryNumbers ==
    ASSUME TypeOK, HistoryIsTape
    PROVE  /\ Len(log) \in Nat
           /\ Consumed \in Nat
           /\ log # <<>> => Horizon \in Nat \ {0} /\ Len(log) >= 1
  <1>1. log \in Seq(Writes) /\ Len(log) \in Nat
    BY DEF TypeOK
  <1>2. CASE log = <<>>
    BY <1>1, <1>2 DEF Consumed
  <1>3. CASE log # <<>>
    <2>1. Restart \in 1 .. Len(log) /\ log[Restart] \in Writes
      BY <1>1, <1>3 DEF HistoryIsTape
    <2>2. log[Restart].params.steps \in Nat \ {0}
      BY <2>1, SessionAssumption DEF Writes, Params
    <2> QED
      BY <1>1, <1>3, <2>1, <2>2 DEF Consumed, Horizon
  <1> QED
    BY <1>2, <1>3

-----------------------------------------------------------------------------
(* The initial states and steps of one request                             *)

\* The initial states satisfy the inductive invariant.
LEMMA Initially == Init => InductiveInvariant
  <1> SUFFICES ASSUME Init PROVE InductiveInvariant
    OBVIOUS
  <1>1. load.tables \in 1 .. Len(Tables) /\ load \in Loads
    BY SessionAssumption DEF Init, LoadRecords
  <1>2. 1 \in 1 .. load.tables
    BY <1>1
  <1>3. log \in Seq(Writes)
    BY DEF Init
  <1>4. TypeOK
    BY <1>1, <1>2, <1>3 DEF Init, TypeOK, Labels, Results, NoPick
  <1>5. SessionMatchesHistory
    BY <1>4 DEF Init, SessionMatchesHistory
  <1>6. HistoryIsTape
    BY DEF Init, HistoryIsTape
  <1>7. \A r \in Requests : RequestConsistent(r)
    BY DEF Init, RequestConsistent, HoldsAnswer, Serving
  <1> QED
    BY <1>5, <1>6, <1>7 DEF InductiveInvariant

\* Without a write the history is what it was.
LEMMA SameHistory ==
    ASSUME UNCHANGED log
    PROVE  /\ Restart' = Restart
           /\ Consumed' = Consumed
           /\ Horizon' = Horizon
           /\ HistoryIsTape => HistoryIsTape'
  <1>1. Restart' = Restart
    BY DEF Restart
  <1> QED
    BY <1>1 DEF Consumed, Horizon, HistoryIsTape

\* The session and its history agree as long as neither is written.
LEMMA SessionKept ==
    ASSUME SessionMatchesHistory, TypeOK', UNCHANGED <<session, log>>
    PROVE  SessionMatchesHistory'
  BY SameHistory DEF SessionMatchesHistory

\* A step that touches request r alone, and neither the session nor the history,
\* has only r's own consistency to re-establish.
LEMMA LocalStep ==
    ASSUME InductiveInvariant, TypeOK', NEW r \in Requests,
           UNCHANGED <<session, log>>,
           \A q \in Requests \ {r} : /\ pc'[q] = pc[q]
                                     /\ call'[q] = call[q]
                                     /\ params'[q] = params[q]
                                     /\ copy'[q] = copy[q]
                                     /\ result'[q] = result[q],
           RequestConsistent(r)'
    PROVE  InductiveInvariant'
  <1>1. SessionMatchesHistory' /\ HistoryIsTape'
    BY SessionKept, SameHistory DEF InductiveInvariant
  <1>2. ASSUME NEW q \in Requests
        PROVE  RequestConsistent(q)'
    <2>1. CASE q = r
      BY <2>1
    <2>2. CASE q # r
      BY <2>2 DEF InductiveInvariant, RequestConsistent, HoldsSession, HoldsWrite,
                  HoldsAnswer
    <2> QED
      BY <2>1, <2>2
  <1> QED
    BY <1>1, <1>2 DEF InductiveInvariant

\* A request that was undecided and has gone to another label without writing is
\* consistent if what that label asks for holds.
LEMMA DecidedLocally ==
    ASSUME InductiveInvariant, NEW r \in Requests, NEW l \in Labels, NEW res \in Results,
           TypeOK', Decide(r, l, res), UNCHANGED <<session, call, log>>,
           \A q \in Requests \ {r} : params'[q] = params[q] /\ copy'[q] = copy[q],
           pc[r] # "idle", l # "idle",
           l \notin {"forget", "done"} => res = "none",
           l # "check",
           (l = "read" /\ call[r].op \in {"patch", "put"}) => params'[r] \in Params,
           l \in Serving => HoldsSession(r)',
           l = "save" => HoldsWrite(r)',
           res = "updated" => FALSE,
           res = "served" => call[r].op # "advance",
           res = "conflict" => copy'[r] \in Sessions /\ copy'[r].version <= Len(log) - 1
    PROVE  InductiveInvariant'
  <1>1. pc'[r] = l /\ result'[r] = res
    BY DEF Decide, InductiveInvariant, SessionMatchesHistory, TypeOK
  <1>2. \A q \in Requests \ {r} : pc'[q] = pc[q] /\ result'[q] = result[q]
    BY DEF Decide, InductiveInvariant, SessionMatchesHistory, TypeOK
  <1>3. call[r] \in Calls /\ call' = call
    BY DEF InductiveInvariant, RequestConsistent
  <1>4. HoldsAnswer(r)'
    BY <1>1, <1>3 DEF HoldsAnswer
  <1>5. RequestConsistent(r)'
    BY <1>1, <1>3, <1>4 DEF RequestConsistent
  <1> QED
    BY <1>2, <1>3, <1>5, LocalStep

-----------------------------------------------------------------------------
(* One lemma per action                                                    *)

\* What a client sends is a call, and a PUT brings its parameters.
LEMMA AskKeeps ==
    ASSUME InductiveInvariant, NEW r \in Requests, Ask(r), UNCHANGED <<load, table>>
    PROVE  InductiveInvariant'
  <1>1. PICK op \in {"advance", "peek", "patch", "put", "delete"},
             change \in Changes, expected \in Nat \cup {NoStep} :
            /\ Invoke(r, op, change, expected)
            /\ op = "put" => change \in Params
            /\ expected # NoStep => op = "advance"
    <2>1. load \in LoadRecords
      BY SessionAssumption DEF InductiveInvariant, SessionMatchesHistory, TypeOK
    <2>2. NoChange \in Changes
      BY DEF NoChange, Changes
    <2>3. load.puts \subseteq Params /\ load.patches \subseteq Changes
          /\ load.expected \subseteq Nat \cup {NoStep}
      BY <2>1 DEF LoadRecords
    <2> QED
      BY <2>2, <2>3, ParamsAreChanges DEF Ask
  <1>2. pc[r] = "idle" /\ result[r] = "none"
    BY <1>1 DEF Invoke, InductiveInvariant, RequestConsistent
  <1>3. call' = [call EXCEPT ![r] = [op |-> op, change |-> change, expected |-> expected]]
    BY <1>1 DEF Invoke
  <1>4. [op |-> op, change |-> change, expected |-> expected] \in Calls
    BY DEF Calls
  <1>5. params' = [params EXCEPT ![r] = IF op = "put" THEN change ELSE NoCall]
    BY <1>1 DEF Invoke
  <1>6. /\ pc' = [pc EXCEPT ![r] = pc'[r]]
        /\ pc'[r] \in {"merge", "delete", "check", "read"}
        /\ pc'[r] = "check" => op = "advance"
        /\ pc'[r] = "read" => op # "patch"
    BY <1>1 DEF Invoke, InductiveInvariant, SessionMatchesHistory, TypeOK
  <1>7. UNCHANGED <<session, walks, copy, pick, walk, result, log>>
    BY <1>1 DEF Invoke
  <1>8. TypeOK'
    BY <1>1, <1>3, <1>4, <1>5, <1>6, <1>7
       DEF InductiveInvariant, SessionMatchesHistory, TypeOK, Labels
  <1>9. call'[r] \in Calls /\ call'[r].op = op /\ params'[r] = (IF op = "put" THEN change ELSE NoCall)
    BY <1>3, <1>4, <1>5 DEF InductiveInvariant, SessionMatchesHistory, TypeOK
  <1>10. RequestConsistent(r)'
    BY <1>1, <1>2, <1>6, <1>7, <1>9 DEF RequestConsistent, Serving, HoldsAnswer
  <1> QED
    BY <1>3, <1>5, <1>6, <1>7, <1>8, <1>10, LocalStep
       DEF InductiveInvariant, SessionMatchesHistory, TypeOK

\* The precondition decides its own request and no more.
LEMMA CheckKeeps ==
    ASSUME InductiveInvariant, NEW r \in Requests, Check(r), UNCHANGED <<load, table>>
    PROVE  InductiveInvariant'
  <1>1. PICK l \in {"read", "done"}, res \in {"none", "notFound", "mismatch"} :
            Decide(r, l, res) /\ (l = "read" => res = "none")
    BY DEF Check
  <1>2. TypeOK'
    BY <1>1 DEF Check, Decide, InductiveInvariant, SessionMatchesHistory, TypeOK,
                Labels, Results
  <1>3. call[r].op = "advance"
    BY DEF Check, InductiveInvariant, RequestConsistent
  <1> QED
    BY <1>1, <1>2, <1>3, DecidedLocally DEF Check, Labels, Results, Serving

\* A merge of the stored parameters with a change leaves parameters.
LEMMA MergeKeeps ==
    ASSUME InductiveInvariant, NEW r \in Requests, Merge(r), UNCHANGED <<load, table>>
    PROVE  InductiveInvariant'
  <1> USE DEF InductiveInvariant, SessionMatchesHistory, TypeOK
  <1>1. call[r] \in Calls /\ call[r].change \in Changes
    BY DEF Merge, RequestConsistent, Calls
  <1>2. CASE session = Absent
    <2>1. Decide(r, "done", "notFound") /\ UNCHANGED params
      BY <1>2 DEF Merge
    <2>2. TypeOK'
      BY <2>1 DEF Merge, Decide, Labels, Results
    <2> QED
      BY <2>1, <2>2, DecidedLocally DEF Merge, Labels, Results, Serving
  <1>3. CASE session # Absent
    <2>1. Apply(call[r].change, session.params) \in Params
      BY <1>1, <1>3, AppliedParams DEF Sessions
    <2>2. /\ Decide(r, "read", "none")
          /\ params' = [params EXCEPT ![r] = Apply(call[r].change, session.params)]
      BY <1>3 DEF Merge
    <2>3. params'[r] \in Params /\ \A q \in Requests \ {r} : params'[q] = params[q]
      BY <2>1, <2>2
    <2>4. TypeOK'
      BY <2>1, <2>2 DEF Merge, Decide, Labels, Results
    <2> QED
      BY <2>2, <2>3, <2>4, DecidedLocally DEF Merge, Labels, Results, Serving
  <1> QED
    BY <1>2, <1>3

\* What a request reads it holds, and what an update makes of it it may write.
LEMMA ReadKeeps ==
    ASSUME InductiveInvariant, NEW r \in Requests, Read(r), UNCHANGED <<load, table>>
    PROVE  InductiveInvariant'
  <1> USE DEF InductiveInvariant, SessionMatchesHistory, TypeOK
  <1>1. call[r] \in Calls /\ pc[r] = "read"
    BY DEF Read, RequestConsistent
  <1>2. CASE /\ UNCHANGED copy
             /\ \E res \in {"notFound", "exhausted"} : Decide(r, "done", res)
    <2>1. PICK res \in {"notFound", "exhausted"} : Decide(r, "done", res)
      BY <1>2
    <2>2. TypeOK'
      BY <1>2, <2>1 DEF Read, Decide, Labels, Results
    <2>3. /\ UNCHANGED <<session, call, log>>
          /\ \A q \in Requests \ {r} : params'[q] = params[q] /\ copy'[q] = copy[q]
      BY <1>2 DEF Read
    <2>4. InductiveInvariant
      OBVIOUS
    <2>5. /\ "done" \in Labels /\ res \in Results
          /\ res \notin {"updated", "served", "conflict"}
      BY <2>1 DEF Labels, Results
    <2> HIDE DEF InductiveInvariant, SessionMatchesHistory, TypeOK
    <2> QED
      BY <1>1, <2>1, <2>2, <2>3, <2>4, <2>5, DecidedLocally DEF Serving
  <1>3. CASE /\ session # Absent
             /\ call[r].op \in {"patch", "put"}
             /\ copy' = [copy EXCEPT ![r] = Reinitialized(session, params[r])]
             /\ Decide(r, "save", "none")
    <2>1. session \in Sessions /\ params[r] \in Params
      BY <1>1, <1>3 DEF RequestConsistent
    <2>2. copy'[r] = Reinitialized(session, params[r])
      BY <1>3
    <2>3. /\ copy'[r] \in Sessions
          /\ copy'[r].version = session.version + 1
          /\ copy'[r].current_step = 0
          /\ copy'[r].state = "Reinitialized"
      BY <2>1, <2>2, ReinitializedSession
    <2>4. session.version = Len(log) - 1 /\ session.version \in Nat /\ Len(log) \in Nat
      BY <1>3, <2>1 DEF Sessions
    <2>5. HoldsWrite(r)'
      BY <1>3, <2>3, <2>4 DEF Read, HoldsWrite
    <2>6. TypeOK'
      BY <1>3, <2>3 DEF Read, Decide, Labels, Results
    <2> QED
      BY <1>1, <1>3, <2>5, <2>6, DecidedLocally DEF Read, Labels, Results, Serving
  <1>4. CASE /\ session # Absent
             /\ call[r].op \in {"advance", "peek"}
             /\ call[r].op = "advance" => session.current_step < session.params.steps
             /\ copy' = [copy EXCEPT ![r] = session]
             /\ Decide(r, "probe", "none")
    <2>1. copy'[r] = session /\ session \in Sessions
      BY <1>4
    <2>2. session.version = Len(log) - 1 /\ session.version \in Nat /\ Len(log) \in Nat
      BY <1>4, <2>1 DEF Sessions
    <2>3. HoldsSession(r)'
      BY <1>4, <2>1, <2>2 DEF Read, HoldsSession
    <2>4. TypeOK'
      BY <1>4, <2>1 DEF Read, Decide, Labels, Results
    <2> QED
      BY <1>1, <1>4, <2>3, <2>4, DecidedLocally DEF Read, Labels, Results, Serving
  <1> QED
    BY <1>2, <1>3, <1>4 DEF Read

\* A step on the way from the read to the walk keeps the copy.
LEMMA ServingKeeps ==
    ASSUME InductiveInvariant, TypeOK', NEW r \in Requests, pc[r] \in Serving,
           NEW l \in Serving, Decide(r, l, "none"),
           UNCHANGED <<session, call, params, copy, log>>
    PROVE  InductiveInvariant'
  <1>1. HoldsSession(r)'
    BY DEF InductiveInvariant, RequestConsistent, HoldsSession
  <1> QED
    BY <1>1, DecidedLocally DEF Serving, Labels, Results

\* The first section of the simulator may drop the cached walk.
LEMMA ProbeKeeps ==
    ASSUME InductiveInvariant, NEW r \in Requests, Probe(r), UNCHANGED <<load, table>>
    PROVE  InductiveInvariant'
  <1> USE DEF InductiveInvariant, SessionMatchesHistory, TypeOK
  <1>1. Home[r] \in Replicas
    BY SessionAssumption
  <1>2. PICK l \in {"build", "serve"} : pc' = [pc EXCEPT ![r] = l]
    BY DEF Probe
  <1>3. result[r] = "none" /\ result' = [result EXCEPT ![r] = "none"]
    BY DEF Probe, RequestConsistent
  <1>4. TypeOK'
    BY <1>1, <1>2 DEF Probe, Labels
  <1> QED
    BY <1>2, <1>3, <1>4, ServingKeeps DEF Probe, Decide, Serving

\* A walk is built for the parameters that were read.
LEMMA BuildKeeps ==
    ASSUME InductiveInvariant, NEW r \in Requests, Build(r), UNCHANGED <<load, table>>
    PROVE  InductiveInvariant'
  <1> USE DEF InductiveInvariant, SessionMatchesHistory, TypeOK
  <1>1. copy[r] \in Sessions /\ copy[r].params \in Params
    BY DEF Build, RequestConsistent, HoldsSession, Serving, Sessions
  <1>2. copy[r].params.method.symbol \in Nat \cup {NoSymbol}
    BY <1>1 DEF Params, Methods
  <1>3. [asked |-> copy[r].params, params |-> copy[r].params] \in Walks
    BY <1>1 DEF Walks
  <1>4. PICK l \in {"symbols", "range", "serve"} : Decide(r, l, "none")
    BY DEF Build
  <1>5. /\ DOMAIN pick' = Requests
        /\ \A q \in Requests : pick'[q].symbol \in Nat \cup {NoSymbol}
    BY <1>2 DEF Build
  <1>6. walk' \in [Requests -> Walks \cup {NoWalk}]
    BY <1>3 DEF Build
  <1>7. TypeOK'
    BY <1>4, <1>5, <1>6 DEF Build, Decide, Labels, Results
  <1> QED
    BY <1>4, <1>7, ServingKeeps DEF Build, Serving

\* A symbol of the table is a number.
LEMMA SelectSymbolKeeps ==
    ASSUME InductiveInvariant, NEW r \in Requests, SelectSymbol(r), UNCHANGED <<load, table>>
    PROVE  InductiveInvariant'
  <1> USE DEF InductiveInvariant, SessionMatchesHistory, TypeOK
  <1>1. table \in 1 .. Len(Tables)
    <2>1. load \in LoadRecords
      BY SessionAssumption
    <2>2. load.tables \in 1 .. Len(Tables)
      BY <2>1 DEF LoadRecords
    <2> QED
      BY <2>2
  <1>2. PICK symbol \in Nat : pick' = [pick EXCEPT ![r] = [symbol |-> symbol, start |-> 0]]
    <2>1. Tables[table] \subseteq [symbol : Nat, at : Nat, close : Int]
      BY <1>1, SessionAssumption
    <2>2. SymbolsIn(Tables[table]) \subseteq Nat
      BY <2>1 DEF SymbolsIn
    <2>3. ChosenSymbols(Tables[table], copy[r].params.seed) \subseteq Nat
      BY <2>2 DEF ChosenSymbols
    <2> QED
      BY <2>3 DEF SelectSymbol
  <1>3. TypeOK'
    BY <1>2 DEF SelectSymbol, Decide, Labels, Results
  <1> QED
    BY <1>3, ServingKeeps DEF SelectSymbol, Serving

\* The start of a series is chosen for the symbol that was selected.
LEMMA SelectStartKeeps ==
    ASSUME InductiveInvariant, NEW r \in Requests, SelectStart(r), UNCHANGED <<load, table>>
    PROVE  InductiveInvariant'
  <1> USE DEF InductiveInvariant, SessionMatchesHistory, TypeOK
  <1>1. PICK start : pick' = [pick EXCEPT ![r] = [symbol |-> pick[r].symbol, start |-> start]]
    BY DEF SelectStart
  <1>2. TypeOK'
    BY <1>1 DEF SelectStart, Decide, Labels, Results
  <1> QED
    BY <1>2, ServingKeeps DEF SelectStart, Serving

\* The prices that were fetched make a walk.
LEMMA FetchPricesKeeps ==
    ASSUME InductiveInvariant, NEW r \in Requests, FetchPrices(r), UNCHANGED <<load, table>>
    PROVE  InductiveInvariant'
  <1> USE DEF InductiveInvariant, SessionMatchesHistory, TypeOK
  <1>1. copy[r].params \in Params
    BY DEF FetchPrices, RequestConsistent, HoldsSession, Serving, Sessions
  <1>2. PICK prices \in Seq(Nat) :
            walk' = [walk EXCEPT ![r] =
                        [asked |-> copy[r].params,
                         params |-> Resolved(copy[r].params, pick[r].symbol, prices)]]
    BY DEF FetchPrices
  <1>3. walk' \in [Requests -> Walks \cup {NoWalk}]
    BY <1>1, <1>2, FetchedWalk
  <1>4. NoPick.symbol = NoSymbol
    BY DEF NoPick
  <1>5. TypeOK'
    BY <1>3, <1>4 DEF FetchPrices, Decide, Labels, Results
  <1> QED
    BY <1>5, ServingKeeps DEF FetchPrices, Serving

\* A walk that cannot be built ends its request.
LEMMA FailToBuildKeeps ==
    ASSUME InductiveInvariant, NEW r \in Requests, FailToBuild(r), UNCHANGED <<load, table>>
    PROVE  InductiveInvariant'
  <1> USE DEF InductiveInvariant, SessionMatchesHistory, TypeOK
  <1>1. NoPick.symbol = NoSymbol
    BY DEF NoPick
  <1>2. TypeOK'
    BY <1>1 DEF FailToBuild, Decide, Labels, Results
  <1> QED
    BY <1>2, DecidedLocally DEF FailToBuild, Labels, Results, Serving

\* What an advance is served it may write: the session it read, a step further on.
LEMMA ServeKeeps ==
    ASSUME InductiveInvariant, NEW r \in Requests, Serve(r), UNCHANGED <<load, table>>
    PROVE  InductiveInvariant'
  <1> USE DEF InductiveInvariant, SessionMatchesHistory, TypeOK
  <1> DEFINE e == Entry(r)
             s == WithMethodOf(e, copy[r])
  <1>1. HoldsSession(r) /\ Home[r] \in Replicas /\ pc[r] = "serve"
    BY SessionAssumption DEF Serve, RequestConsistent, Serving
  <1>2. e \in Walks \cup {NoWalk}
    BY <1>1 DEF Entry
  <1>3. CASE /\ Decide(r, "done", "failed")
             /\ UNCHANGED <<walks, copy, walk>>
    <2>1. TypeOK'
      BY <1>3 DEF Serve, Decide, Labels, Results
    <2> QED
      BY <1>1, <1>3, <2>1, DecidedLocally DEF Serve, Labels, Results, Serving
  <1>4. ASSUME e # NoWalk
        PROVE  /\ s \in Sessions
               /\ s.version = copy[r].version
               /\ s.current_step = copy[r].current_step
               /\ s.params.steps = copy[r].params.steps
    BY <1>1, <1>2, <1>4, WithMethodSession DEF HoldsSession
  <1> HIDE DEF e, s
  <1>5. CASE /\ e # NoWalk
             /\ walks' = [walks EXCEPT ![Home[r]] = e]
             /\ walk' = [walk EXCEPT ![r] = e]
             /\ UNCHANGED copy
             /\ Decide(r, "done", "exhausted")
    <2>1. TypeOK'
      BY <1>1, <1>2, <1>5 DEF Serve, Decide, Labels, Results
    <2> QED
      BY <1>1, <1>5, <2>1, DecidedLocally DEF Serve, Labels, Results, Serving
  <1>6. CASE /\ e # NoWalk
             /\ walks' = [walks EXCEPT ![Home[r]] = e]
             /\ walk' = [walk EXCEPT ![r] = e]
             /\ call[r].op = "advance"
             /\ copy' = [copy EXCEPT ![r] = Advanced(s)]
             /\ Decide(r, "save", "none")
    <2>1. copy'[r] = Advanced(s)
      BY <1>6
    <2>2. /\ copy'[r] \in Sessions
          /\ copy'[r].version = copy[r].version + 1
          /\ copy'[r].current_step = copy[r].current_step + 1
          /\ copy'[r].params.steps = copy[r].params.steps
          /\ copy'[r].state = IF copy[r].current_step + 1 = copy[r].params.steps
                              THEN "Completed" ELSE "InProgress"
      BY <1>4, <1>6, <2>1, AdvancedSession
    <2>3. copy[r].version \in Nat /\ copy[r].version < Len(log) /\ Len(log) \in Nat
          /\ copy[r].current_step < copy[r].params.steps
      BY <1>1, <1>6 DEF HoldsSession, Sessions
    <2>4. (session # Absent /\ session.version = copy'[r].version - 1) => copy[r] = session
      BY <1>1, <2>2, <2>3 DEF HoldsSession, Sessions
    <2>5. copy'[r].version \in 1 .. Len(log)
      BY <2>2, <2>3
    <2>6. UNCHANGED <<session, call, log>>
      BY DEF Serve
    <2>7. HoldsWrite(r)'
      BY <1>6, <2>2, <2>3, <2>4, <2>5, <2>6 DEF HoldsWrite
    <2>8. TypeOK'
      BY <1>1, <1>2, <1>6, <2>2 DEF Serve, Decide, Labels, Results
    <2> QED
      BY <1>1, <1>6, <2>7, <2>8, DecidedLocally DEF Serve, Labels, Results, Serving
  <1>7. CASE /\ e # NoWalk
             /\ walks' = [walks EXCEPT ![Home[r]] = e]
             /\ walk' = [walk EXCEPT ![r] = e]
             /\ call[r].op # "advance"
             /\ copy' = [copy EXCEPT ![r] = s]
             /\ Decide(r, "done", "served")
    <2>1. TypeOK'
      BY <1>1, <1>2, <1>4, <1>7 DEF Serve, Decide, Labels, Results
    <2> QED
      BY <1>1, <1>7, <2>1, DecidedLocally DEF Serve, Labels, Results, Serving
  <1> QED
    BY <1>3, <1>5, <1>6, <1>7 DEF Serve, e, s

\* A request keeps what it holds while the session is written by another one.
LEMMA OthersKept ==
    ASSUME InductiveInvariant, NEW r \in Requests, NEW q \in Requests \ {r},
           NEW w \in Writes, log' = Append(log, w),
           session' \in Sessions, session'.version = Len(log),
           UNCHANGED <<pc[q], call[q], params[q], copy[q], result[q]>>
    PROVE  RequestConsistent(q)'
  <1> USE DEF InductiveInvariant, SessionMatchesHistory, TypeOK
  <1>1. /\ Len(log') = Len(log) + 1 /\ Len(log) \in Nat
        /\ \A i \in 1 .. Len(log) : log'[i] = log[i]
    OBVIOUS
  <1>2. RequestConsistent(q) /\ pc'[q] = pc[q] /\ call'[q] = call[q]
        /\ params'[q] = params[q] /\ copy'[q] = copy[q] /\ result'[q] = result[q]
    OBVIOUS
  <1>3. HoldsSession(q) => HoldsSession(q)'
    BY <1>1, <1>2 DEF HoldsSession, Sessions
  <1>4. HoldsWrite(q) => HoldsWrite(q)'
    BY <1>1, <1>2 DEF HoldsWrite, Sessions
  <1>5. HoldsAnswer(q)'
    <2>1. ASSUME copy[q] \in Sessions, copy[q].version + 1 <= Len(log)
          PROVE  /\ copy[q].version + 1 <= Len(log')
                 /\ log'[copy[q].version + 1] = log[copy[q].version + 1]
      BY <1>1, <2>1 DEF Sessions
    <2>2. ASSUME copy[q] \in Sessions, copy[q].version <= Len(log) - 1
          PROVE  copy[q].version <= Len(log') - 1
      BY <1>1, <2>2 DEF Sessions
    <2>3. HoldsAnswer(q)
      BY <1>2 DEF RequestConsistent
    <2>4. result[q] = "conflict" => copy[q] \in Sessions /\ copy[q].version <= Len(log') - 1
      BY <2>2, <2>3 DEF HoldsAnswer
    <2>5. (result[q] = "updated" \/ (result[q] = "served" /\ call[q].op = "advance")) =>
              /\ copy[q] \in Sessions
              /\ copy[q].version + 1 <= Len(log')
              /\ log'[copy[q].version + 1].by = q
              /\ log'[copy[q].version + 1].params = copy[q].params
      BY <2>1, <2>3 DEF HoldsAnswer
    <2> QED
      BY <1>2, <2>4, <2>5 DEF HoldsAnswer
  <1> QED
    BY <1>2, <1>3, <1>4, <1>5 DEF RequestConsistent

\* The write of a request whose comparison succeeded.
LEMMA WriteKeeps ==
    ASSUME InductiveInvariant, NEW r \in Requests, pc[r] = "save", session # Absent,
           session.version = copy[r].version - 1, Write(r),
           UNCHANGED <<load, table, walks, call, params, copy, pick, walk>>
    PROVE  InductiveInvariant'
  <1> USE DEF InductiveInvariant, SessionMatchesHistory, TypeOK
  <1> DEFINE w == [kind |-> IF call[r].op = "advance" THEN "advance" ELSE "update",
                   params |-> copy[r].params, change |-> call[r].change, by |-> r,
                   walk |-> walk[r]]
             l == IF copy[r].state = "Completed" THEN "forget" ELSE "done"
             res == IF call[r].op = "advance" THEN "served" ELSE "updated"
  <1>1. HoldsWrite(r) /\ call[r] \in Calls /\ call[r].change \in Changes
    BY DEF RequestConsistent, Calls
  <1>2. session' = copy[r] /\ log' = Append(log, w) /\ Decide(r, l, res)
    BY DEF Write, Record
  <1>3. w \in Writes
    BY <1>1 DEF HoldsWrite, Sessions, Writes
  <1>4. /\ copy[r] \in Sessions /\ session \in Sessions
        /\ copy[r].version = Len(log) /\ Len(log) \in Nat \ {0} /\ log # <<>>
    BY <1>1 DEF HoldsWrite, Sessions
  <1>5. /\ Len(log') = Len(log) + 1 /\ log'[Len(log) + 1] = w
        /\ \A i \in 1 .. Len(log) : log'[i] = log[i]
    BY <1>2, <1>3
  <1>6. log' \in Seq(Writes)
    BY <1>2, <1>3
  <1>7. TypeOK'
    BY <1>2, <1>4, <1>6 DEF Decide, Labels, Results
  <1>8. w.params = copy[r].params /\ w.by = r
        /\ w.kind = (IF call[r].op = "advance" THEN "advance" ELSE "update")
    OBVIOUS
  <1> HIDE DEF w
  <1>9. /\ session'.version = Len(log') - 1
        /\ session'.params = log'[Len(log')].params
        /\ Len(log') # 1
    BY <1>2, <1>4, <1>5, <1>8
  <1>10. ASSUME call[r].op = "advance"
         PROVE  SessionMatchesHistory' /\ HistoryIsTape'
    <2>1. /\ HistoryIsTape' /\ Horizon' = Horizon /\ Consumed' = Consumed + 1
      BY <1>2, <1>3, <1>4, <1>8, <1>10, AdvanceExtendsTape
    <2>2. /\ Consumed \in Nat /\ Horizon \in Nat
          /\ session.current_step = Consumed /\ session.params.steps = Horizon
      BY <1>4, HistoryNumbers
    <2>3. /\ Consumed < Horizon
          /\ session'.current_step = Consumed'
          /\ session'.params.steps = Horizon'
          /\ session'.state = IF Consumed' = Horizon' THEN "Completed" ELSE "InProgress"
      BY <1>1, <1>2, <1>10, <2>1, <2>2 DEF HoldsWrite
    <2>4. Consumed' # Horizon' => Consumed' \in 1 .. Horizon' - 1
      BY <2>1, <2>2, <2>3
    <2>5. session'.state = CASE Consumed' = Horizon' -> "Completed"
                             [] Consumed' \in 1 .. Horizon' - 1 -> "InProgress"
                             [] Len(log') = 1 -> "Initialized"
                             [] OTHER -> "Reinitialized"
      BY <1>9, <2>1, <2>2, <2>3, <2>4
    <2> QED
      BY <1>7, <1>9, <2>1, <2>3, <2>5
  <1>11. ASSUME call[r].op # "advance"
         PROVE  SessionMatchesHistory' /\ HistoryIsTape'
    <2>1. /\ HistoryIsTape' /\ Horizon' = copy[r].params.steps /\ Consumed' = 0
      BY <1>2, <1>3, <1>8, <1>11, UpdateBeginsTape
    <2>2. Horizon' \in Nat \ {0}
      BY <1>4, <2>1, SessionAssumption DEF Sessions, Params
    <2>3. session'.current_step = 0 /\ session'.state = "Reinitialized"
      BY <1>1, <1>2, <1>11 DEF HoldsWrite
    <2>4. session'.state = CASE Consumed' = Horizon' -> "Completed"
                             [] Consumed' \in 1 .. Horizon' - 1 -> "InProgress"
                             [] Len(log') = 1 -> "Initialized"
                             [] OTHER -> "Reinitialized"
      BY <1>9, <2>1, <2>2, <2>3
    <2> QED
      BY <1>2, <1>7, <1>9, <2>1, <2>3, <2>4
  <1>12. SessionMatchesHistory' /\ HistoryIsTape'
    BY <1>10, <1>11
  <1>13. ASSUME NEW q \in Requests PROVE RequestConsistent(q)'
    <2>1. CASE q # r
      <3>1. UNCHANGED <<pc[q], call[q], params[q], copy[q], result[q]>>
        BY <1>2, <2>1 DEF Decide
      <3> QED
        BY <1>2, <1>3, <1>4, <2>1, <3>1, OthersKept
    <2>2. CASE q = r
      <3>1. pc'[r] = l /\ result'[r] = res /\ copy' = copy /\ call' = call
        BY <1>2 DEF Decide
      <3>2. HoldsAnswer(r)'
        BY <1>4, <1>5, <1>8, <3>1 DEF HoldsAnswer
      <3> QED
        BY <1>1, <2>2, <3>1, <3>2 DEF RequestConsistent, Serving
    <2> QED
      BY <2>1, <2>2
  <1> QED
    BY <1>12, <1>13

\* A save writes, finds somebody else's write or finds nothing.
LEMMA SaveKeeps ==
    ASSUME InductiveInvariant, NEW r \in Requests, Save(r), UNCHANGED <<load, table>>
    PROVE  InductiveInvariant'
  <1> USE DEF InductiveInvariant, SessionMatchesHistory, TypeOK
  <1>1. pc[r] = "save" /\ HoldsWrite(r)
    BY DEF Save, RequestConsistent
  <1>2. CASE session = Absent
    <2>1. Decide(r, "done", "notFound") /\ UNCHANGED <<session, log>>
      BY <1>2 DEF Save
    <2>2. TypeOK'
      BY <2>1 DEF Save, Decide, Labels, Results
    <2> QED
      BY <1>1, <2>1, <2>2, DecidedLocally DEF Save, Labels, Results, Serving
  <1>3. CASE session # Absent /\ session.version # copy[r].version - 1
    <2>1. Decide(r, "done", "conflict") /\ UNCHANGED <<session, log>>
      BY <1>3 DEF Save
    <2>2. copy[r] \in Sessions /\ copy[r].version <= Len(log) - 1
      BY <1>1, <1>3 DEF HoldsWrite, Sessions
    <2>3. TypeOK'
      BY <2>1 DEF Save, Decide, Labels, Results
    <2> QED
      BY <1>1, <2>1, <2>2, <2>3, DecidedLocally DEF Save, Labels, Results, Serving
  <1>4. CASE session # Absent /\ session.version = copy[r].version - 1
    BY <1>1, <1>4, WriteKeeps DEF Save
  <1> QED
    BY <1>2, <1>3, <1>4

\* What requests hold of a session survives its removal.
LEMMA RemovalKeeps ==
    ASSUME InductiveInvariant, session' = Absent, UNCHANGED log, TypeOK',
           NEW q \in Requests,
           UNCHANGED <<pc[q], call[q], params[q], copy[q], result[q]>>
    PROVE  RequestConsistent(q)' /\ SessionMatchesHistory' /\ HistoryIsTape'
  <1>1. SessionMatchesHistory' /\ HistoryIsTape'
    BY SameHistory DEF InductiveInvariant, SessionMatchesHistory
  <1>2. RequestConsistent(q)'
    BY DEF InductiveInvariant, RequestConsistent, HoldsSession, HoldsWrite, HoldsAnswer
  <1> QED
    BY <1>1, <1>2

\* A delete removes the session and decides its own request.
LEMMA DeleteKeeps ==
    ASSUME InductiveInvariant, NEW r \in Requests, Delete(r), UNCHANGED <<load, table>>
    PROVE  InductiveInvariant'
  <1> USE DEF InductiveInvariant, SessionMatchesHistory, TypeOK
  <1>1. PICK res \in {"notFound", "deleted"} : Decide(r, "forget", res)
    BY DEF Delete
  <1>2. TypeOK'
    BY <1>1 DEF Delete, Decide, Labels, Results
  <1>3. SessionMatchesHistory' /\ HistoryIsTape'
    BY <1>2, SameHistory DEF Delete
  <1>4. ASSUME NEW q \in Requests PROVE RequestConsistent(q)'
    <2>1. CASE q # r
      <3>1. UNCHANGED <<pc[q], call[q], params[q], copy[q], result[q]>>
        BY <1>1, <2>1 DEF Delete, Decide
      <3> QED
        BY <1>2, <3>1, RemovalKeeps DEF Delete
    <2>2. CASE q = r
      BY <1>1, <2>2 DEF Delete, Decide, RequestConsistent, HoldsAnswer, Serving
    <2> QED
      BY <2>1, <2>2
  <1> QED
    BY <1>3, <1>4

\* Forgetting a walk leaves the answer as it is.
LEMMA ForgetKeeps ==
    ASSUME InductiveInvariant, NEW r \in Requests, Forget(r), UNCHANGED <<load, table>>
    PROVE  InductiveInvariant'
  <1> USE DEF InductiveInvariant, SessionMatchesHistory, TypeOK
  <1>1. Home[r] \in Replicas
    BY SessionAssumption
  <1>2. TypeOK'
    BY <1>1 DEF Forget, Labels
  <1>3. pc'[r] = "done"
    BY DEF Forget
  <1>4. RequestConsistent(r)'
    BY <1>3 DEF Forget, RequestConsistent, HoldsAnswer, Serving
  <1>5. \A q \in Requests \ {r} : pc'[q] = pc[q]
    BY DEF Forget
  <1> QED
    BY <1>2, <1>4, <1>5, LocalStep DEF Forget

\* Requests whose slots become free hold nothing any more; the others what they held.
LEMMA FreeKeeps ==
    ASSUME InductiveInvariant, NEW R \in SUBSET Requests, Free(R),
           walks' \in [Replicas -> Walks \cup {NoWalk}],
           UNCHANGED <<load, table, session, log>>
    PROVE  InductiveInvariant'
  <1> USE DEF InductiveInvariant, SessionMatchesHistory, TypeOK
  <1>1. NoPick.symbol = NoSymbol
    BY DEF NoPick
  <1>2. TypeOK'
    <2>1. /\ pc' \in [Requests -> Labels]
          /\ call' \in [Requests -> Calls \cup {NoCall}]
          /\ params' \in [Requests -> Params \cup {NoCall}]
      BY DEF Free, Labels
    <2>2. /\ copy' \in [Requests -> Sessions \cup {Absent}]
          /\ walk' \in [Requests -> Walks \cup {NoWalk}]
          /\ result' \in [Requests -> Results]
      BY DEF Free, Results
    <2>3. DOMAIN pick' = Requests /\ \A r \in Requests : pick'[r].symbol \in Nat \cup {NoSymbol}
      BY <1>1 DEF Free
    <2> QED
      BY <2>1, <2>2, <2>3
  <1>3. SessionMatchesHistory' /\ HistoryIsTape'
    BY <1>2, SessionKept, SameHistory
  <1>4. ASSUME NEW q \in Requests PROVE RequestConsistent(q)'
    <2>1. CASE q \in R
      BY <2>1 DEF Free, RequestConsistent, HoldsAnswer, Serving
    <2>2. CASE q \notin R
      <3>1. UNCHANGED <<pc[q], call[q], params[q], copy[q], result[q]>>
        BY <2>2 DEF Free
      <3> QED
        BY <3>1 DEF RequestConsistent, HoldsSession, HoldsWrite, HoldsAnswer
    <2> QED
      BY <2>1, <2>2
  <1> QED
    BY <1>3, <1>4

\* A session is created before anything is asked of it.
LEMMA CreateKeeps ==
    ASSUME InductiveInvariant, NEW p \in load.puts, Create(p), UNCHANGED <<load, table>>
    PROVE  InductiveInvariant'
  <1> USE DEF InductiveInvariant, SessionMatchesHistory, TypeOK
  <1> DEFINE w == [kind |-> "create", params |-> p, change |-> Keep, by |-> NoCall,
                   walk |-> NoWalk]
  <1>1. p \in Params
    <2>1. load \in LoadRecords
      BY SessionAssumption
    <2> QED
      BY <2>1 DEF LoadRecords
  <1>2. session' = NewSession(p) /\ log = <<>> /\ log' = Append(log, w)
    BY DEF Create, Record
  <1>3. w \in Writes
    BY <1>1 DEF Writes
  <1>4. /\ session' \in Sessions
        /\ session'.version = 0 /\ session'.current_step = 0
        /\ session'.state = "Initialized" /\ session'.params = p
    BY <1>1, <1>2 DEF NewSession, Sessions, States
  <1>5. Len(log) = 0 /\ Len(log') = 1 /\ log'[1] = w
    BY <1>2
  <1>6. w.params = p /\ w.kind = "create"
    OBVIOUS
  <1> HIDE DEF w
  <1>7. TypeOK'
    <2>1. log' \in Seq(Writes)
      BY <1>2, <1>3
    <2> QED
      BY <1>4, <2>1 DEF Create
  <1>8. HistoryIsTape' /\ Horizon' = p.steps /\ Consumed' = 0
    BY <1>2, <1>3, <1>6, UpdateBeginsTape
  <1>9. p.steps \in Nat \ {0}
    BY <1>1, SessionAssumption DEF Params
  <1>10. session'.state = CASE Consumed' = Horizon' -> "Completed"
                            [] Consumed' \in 1 .. Horizon' - 1 -> "InProgress"
                            [] Len(log') = 1 -> "Initialized"
                            [] OTHER -> "Reinitialized"
    BY <1>4, <1>5, <1>8, <1>9
  <1>11. SessionMatchesHistory'
    BY <1>4, <1>5, <1>6, <1>7, <1>8, <1>10
  <1>12. \A q \in Requests : RequestConsistent(q)'
    <2>1. ASSUME NEW q \in Requests PROVE RequestConsistent(q)'
      <3>1. UNCHANGED <<pc[q], call[q], params[q], copy[q], result[q]>>
        BY DEF Create
      <3> QED
        BY <1>2, <1>3, <1>4, <1>5, <3>1 DEF RequestConsistent, HoldsSession, HoldsWrite, HoldsAnswer, Sessions
    <2> QED
      BY <2>1
  <1> QED
    BY <1>8, <1>11, <1>12

\* Steps that leave the requests, the session and the history alone.
LEMMA QuietKeeps ==
    ASSUME InductiveInvariant, TypeOK',
           UNCHANGED <<session, pc, call, params, copy, result, log>>
    PROVE  InductiveInvariant'
  <1>1. SessionMatchesHistory' /\ HistoryIsTape'
    BY SessionKept, SameHistory DEF InductiveInvariant
  <1>2. \A q \in Requests : RequestConsistent(q)'
    BY DEF InductiveInvariant, RequestConsistent, HoldsSession, HoldsWrite, HoldsAnswer
  <1> QED
    BY <1>1, <1>2 DEF InductiveInvariant

\* An expiry is a removal that no request takes part in.
LEMMA LapseKeeps ==
    ASSUME InductiveInvariant, Lapse, UNCHANGED <<load, table>>
    PROVE  InductiveInvariant'
  <1>1. TypeOK'
    BY DEF Lapse, InductiveInvariant, SessionMatchesHistory, TypeOK
  <1>2. SessionMatchesHistory' /\ HistoryIsTape'
    BY <1>1, SameHistory DEF Lapse, InductiveInvariant, SessionMatchesHistory
  <1>3. \A q \in Requests : RequestConsistent(q)'
    BY <1>1, RemovalKeeps DEF Lapse
  <1> QED
    BY <1>2, <1>3 DEF InductiveInvariant

\* Each step of each request, of a replica and of the warehouse keeps the invariant.
LEMMA Preserved == InductiveInvariant /\ [Next]_vars => InductiveInvariant'
  <1> SUFFICES ASSUME InductiveInvariant, [Next]_vars PROVE InductiveInvariant'
    OBVIOUS
  <1>1. CASE UNCHANGED vars
    <2>1. TypeOK'
      BY <1>1 DEF vars, InductiveInvariant, SessionMatchesHistory, TypeOK
    <2> QED
      BY <1>1, <2>1, QuietKeeps DEF vars
  <1>2. CASE Grow /\ UNCHANGED load
    <2>1. table' \in 1 .. load.tables
      <3>1. load.tables \in Nat
        BY SessionAssumption
           DEF InductiveInvariant, SessionMatchesHistory, TypeOK, LoadRecords
      <3> QED
        BY <1>2, <3>1 DEF Grow, InductiveInvariant, SessionMatchesHistory, TypeOK
    <2>2. TypeOK'
      BY <1>2, <2>1 DEF Grow, InductiveInvariant, SessionMatchesHistory, TypeOK
    <2> QED
      BY <1>2, <2>2, QuietKeeps DEF Grow
  <1>3. CASE ServiceStep /\ UNCHANGED <<load, table>>
    <2>1. ASSUME NEW p \in load.puts, Create(p) PROVE InductiveInvariant'
      BY <1>3, <2>1, CreateKeeps
    <2>2. ASSUME NEW r \in Requests, Ask(r) PROVE InductiveInvariant'
      BY <1>3, <2>2, AskKeeps
    <2>3. ASSUME NEW r \in Requests, RequestStep(r) PROVE InductiveInvariant'
      BY <1>3, <2>3, CheckKeeps, MergeKeeps, ReadKeeps, ProbeKeeps, BuildKeeps,
         SelectSymbolKeeps, SelectStartKeeps, FetchPricesKeeps, FailToBuildKeeps,
         ServeKeeps, SaveKeeps, DeleteKeeps, ForgetKeeps DEF RequestStep
    <2>4. ASSUME NEW r \in Requests, Return(r) \/ Cancel(r) PROVE InductiveInvariant'
      <3>1. Free({r}) /\ UNCHANGED <<session, walks, log>>
        BY <2>4 DEF Return, Cancel
      <3>2. walks' \in [Replicas -> Walks \cup {NoWalk}] /\ {r} \in SUBSET Requests
        BY <3>1 DEF InductiveInvariant, SessionMatchesHistory, TypeOK
      <3> QED
        BY <1>3, <3>1, <3>2, FreeKeeps
    <2>5. ASSUME NEW p \in Replicas, Drop(p) PROVE InductiveInvariant'
      <3>1. TypeOK'
        BY <1>3, <2>5 DEF Drop, InductiveInvariant, SessionMatchesHistory, TypeOK
      <3> QED
        BY <2>5, <3>1, QuietKeeps DEF Drop
    <2>6. ASSUME NEW p \in Replicas, Crash(p) PROVE InductiveInvariant'
      <3> DEFINE R == {r \in Requests : Home[r] = p}
      <3>1. Free(R) /\ UNCHANGED <<session, log>> /\ R \in SUBSET Requests
        BY <2>6 DEF Crash
      <3>2. walks' \in [Replicas -> Walks \cup {NoWalk}]
        BY <2>6 DEF Crash, InductiveInvariant, SessionMatchesHistory, TypeOK
      <3> HIDE DEF R
      <3> QED
        BY <1>3, <3>1, <3>2, FreeKeeps
    <2>7. ASSUME Lapse PROVE InductiveInvariant'
      BY <1>3, <2>7, LapseKeeps
    <2> QED
      BY <1>3, <2>1, <2>2, <2>3, <2>4, <2>5, <2>6, <2>7 DEF ServiceStep
  <1> QED
    BY <1>1, <1>2, <1>3 DEF Next

-----------------------------------------------------------------------------
(* The theorems                                                            *)

\* The inductive invariant holds in every reachable state of the session, its
\* requests and the walk caches.
THEOREM Invariance == Spec => []InductiveInvariant
  BY Initially, Preserved, PTL DEF Spec

\* The stored session agrees with the history of writes: one revision for each,
\* and cursor, horizon, parameters and state as they were left (model.rs).
THEOREM SessionsMatchHistory == Spec => []SessionMatchesHistory
  <1>1. InductiveInvariant => SessionMatchesHistory
    BY DEF InductiveInvariant
  <1> QED
    BY <1>1, Invariance, PTL

\* No write is lost, and none is answered to two requests (get_next_step,
\* update_session, reinitialize_session).
THEOREM AnswersAreOwnWrites == Spec => []AnswerIsOwnWrite
  <1>1. InductiveInvariant => AnswerIsOwnWrite
    BY DEF InductiveInvariant, RequestConsistent, HoldsAnswer, AnswerIsOwnWrite
  <1> QED
    BY <1>1, Invariance, PTL

\* A 409 is never spurious: a write took effect after the read (save_cas).
THEOREM ConflictsMeanProgress == Spec => []ConflictMeansProgress
  <1>1. InductiveInvariant => ConflictMeansProgress
    BY DEF InductiveInvariant, RequestConsistent, HoldsAnswer, ConflictMeansProgress
  <1> QED
    BY <1>1, Invariance, PTL

-----------------------------------------------------------------------------
(* The implementation of RestartableCursor                                 *)

\* The service starts with no session.
LEMMA RefineInit == Init => Cursor!CursorInit
  BY DEF Init, Cursor!CursorInit, Horizon, Consumed

\* A step that leaves the session and the history alone is a stutter.
LEMMA Stutters ==
    ASSUME UNCHANGED <<session, log>>
    PROVE  UNCHANGED Cursor!cursorVars
  BY SameHistory DEF Cursor!cursorVars

\* A session that is there goes, and does not come back.
LEMMA RemovalRefines ==
    ASSUME InductiveInvariant, session # Absent, session' = Absent, UNCHANGED log
    PROVE  Cursor!Remove
  <1>1. log # <<>>
    BY DEF InductiveInvariant, SessionMatchesHistory, TypeOK, Sessions
  <1> QED
    BY <1>1, SameHistory DEF Cursor!Remove

\* A creation issues the cursor.
LEMMA CreateRefines ==
    ASSUME InductiveInvariant, NEW p \in load.puts, Create(p)
    PROVE  \E h \in Horizons : Cursor!Issue(h)
  <1> USE DEF InductiveInvariant, SessionMatchesHistory, TypeOK
  <1> DEFINE w == [kind |-> "create", params |-> p, change |-> Keep, by |-> NoCall,
                   walk |-> NoWalk]
  <1>1. p \in Params
    <2>1. load \in LoadRecords
      BY SessionAssumption
    <2> QED
      BY <2>1 DEF LoadRecords
  <1>2. session' = NewSession(p) /\ log = <<>> /\ log' = Append(log, w)
    BY DEF Create, Record
  <1>3. w \in Writes /\ w.params = p /\ w.kind = "create"
    BY <1>1 DEF Writes
  <1>4. session' # Absent /\ log' # <<>>
    BY <1>1, <1>2, SessionAssumption DEF NewSession, Sessions, States
  <1> HIDE DEF w
  <1>5. Horizon' = p.steps /\ Consumed' = 0 /\ Consumed = 0
    BY <1>2, <1>3, UpdateBeginsTape DEF Consumed
  <1>6. p.steps \in Horizons
    BY <1>1 DEF Params
  <1> QED
    BY <1>2, <1>4, <1>5, <1>6 DEF Cursor!Issue

\* A write that succeeds consumes a snapshot or restarts the cursor.
LEMMA WriteRefines ==
    ASSUME InductiveInvariant, NEW r \in Requests, pc[r] = "save", session # Absent,
           session.version = copy[r].version - 1, Write(r)
    PROVE  Cursor!CursorNext
  <1> USE DEF InductiveInvariant, SessionMatchesHistory, TypeOK
  <1> DEFINE w == [kind |-> IF call[r].op = "advance" THEN "advance" ELSE "update",
                   params |-> copy[r].params, change |-> call[r].change, by |-> r,
                   walk |-> walk[r]]
  <1>1. HoldsWrite(r) /\ call[r] \in Calls /\ call[r].change \in Changes
    BY DEF RequestConsistent, Calls
  <1>2. session' = copy[r] /\ log' = Append(log, w)
    BY DEF Write, Record
  <1>3. /\ w \in Writes /\ w.params = copy[r].params
        /\ w.kind = (IF call[r].op = "advance" THEN "advance" ELSE "update")
    BY <1>1 DEF HoldsWrite, Sessions, Writes
  <1>4. copy[r] \in Sessions /\ log # <<>> /\ log' # <<>> /\ session' # Absent
    BY <1>1, <1>2, <1>3, SessionAssumption DEF HoldsWrite, Sessions
  <1> HIDE DEF w
  <1>5. CASE call[r].op = "advance"
    <2>1. Horizon' = Horizon /\ Consumed' = Consumed + 1
      BY <1>2, <1>3, <1>4, <1>5, AdvanceExtendsTape
    <2>2. Consumed < Horizon
      BY <1>1, <1>5 DEF HoldsWrite
    <2>3. Cursor!Consume
      BY <1>4, <2>1, <2>2 DEF Cursor!Consume
    <2> QED
      BY <2>3 DEF Cursor!CursorNext
  <1>6. CASE call[r].op # "advance"
    <2>1. Horizon' = copy[r].params.steps /\ Consumed' = 0
      BY <1>2, <1>3, <1>6, UpdateBeginsTape
    <2>2. copy[r].params.steps \in Horizons
      BY <1>4 DEF Sessions, Params
    <2>3. Cursor!Restart(copy[r].params.steps)
      BY <1>4, <2>1 DEF Cursor!Restart
    <2> QED
      BY <2>2, <2>3 DEF Cursor!CursorNext
  <1> QED
    BY <1>5, <1>6

\* Every step of the service is one of the cursor or a stutter.
LEMMA RefineNext ==
    InductiveInvariant /\ [Next]_vars => [Cursor!CursorNext]_(Cursor!cursorVars)
  <1> SUFFICES ASSUME InductiveInvariant, [Next]_vars
               PROVE  Cursor!CursorNext \/ UNCHANGED Cursor!cursorVars
    OBVIOUS
  <1>1. ASSUME UNCHANGED <<session, log>> PROVE UNCHANGED Cursor!cursorVars
    BY <1>1, Stutters
  <1>2. ASSUME session # Absent, session' = Absent, UNCHANGED log PROVE Cursor!CursorNext
    BY <1>2, RemovalRefines DEF Cursor!CursorNext
  <1>3. ASSUME NEW p \in load.puts, Create(p) PROVE Cursor!CursorNext
    BY <1>3, CreateRefines DEF Cursor!CursorNext
  <1>4. ASSUME NEW r \in Requests, Save(r) PROVE Cursor!CursorNext \/ UNCHANGED <<session, log>>
    BY <1>4, WriteRefines DEF Save
  <1>5. ASSUME NEW r \in Requests, RequestStep(r)
        PROVE  \/ Save(r) \/ UNCHANGED <<session, log>>
               \/ session # Absent /\ session' = Absent /\ UNCHANGED log
    BY <1>5 DEF RequestStep, Check, Merge, Read, Probe, Build, SelectSymbol, SelectStart,
                FetchPrices, FailToBuild, Serve, Delete, Forget
  <1>6. ASSUME NEW r \in Requests, Ask(r) PROVE UNCHANGED <<session, log>>
    BY <1>6 DEF Ask, Invoke
  <1>7. ASSUME NEW r \in Requests, Return(r) \/ Cancel(r) PROVE UNCHANGED <<session, log>>
    BY <1>7 DEF Return, Cancel
  <1>8. ASSUME NEW p \in Replicas, Drop(p) \/ Crash(p) PROVE UNCHANGED <<session, log>>
    BY <1>8 DEF Drop, Crash
  <1>9. CASE Lapse
    BY <1>2, <1>9 DEF Lapse
  <1>10. CASE Grow \/ UNCHANGED vars
    BY <1>1, <1>10 DEF Grow, vars
  <1>11. CASE ServiceStep
    BY <1>1, <1>2, <1>3, <1>4, <1>5, <1>6, <1>7, <1>8, <1>9, <1>11 DEF ServiceStep
  <1> QED
    BY <1>10, <1>11 DEF Next

\* The v1 service implements RestartableCursor: each snapshot is handed out once, a
\* parameter change starts over, and a removed session never comes back.
THEOREM Implementation == Spec => ImplementsCursor
  <1>1. InductiveInvariant /\ InductiveInvariant' /\ [Next]_vars
          => [Cursor!CursorNext]_(Cursor!cursorVars)
    BY RefineNext
  <1> QED
    BY <1>1, RefineInit, Invariance, PTL DEF Spec, ImplementsCursor, Cursor!CursorSpec
-----------------------------------------------------------------------------
(* Requests that come one at a time to one replica                         *)

\* A walk replays what its parameters hold or what was fetched for them, and nothing
\* is left to fetch.
WellBuilt(w) ==
    /\ w.params = IF MustFetch(w.asked)
                  THEN [w.asked EXCEPT !.method = w.params.method] ELSE w.asked
    /\ ~MustFetch(w.params)

\* A cached walk is the session's: of a new session it is what its parameters ask for,
\* of one in progress it is what its advances have been served from.  A walk of a
\* reinitialized or completed session may be another one, and will not be served.
Describes(w, s) ==
    /\ s.state = "Initialized" => w.asked = s.params
    /\ s.state = "InProgress" => w.params = s.params

AwaitedStep(r, cursor) ==
    call[r].op = "advance" => call[r].expected \in {NoStep, cursor}

\* What the request has read is the stored session, unless that has lapsed.
AloneRead(r) ==
    LET cached == walks[Home[r]]
    IN  /\ session \in {Absent, copy[r]}
        /\ copy[r].state # "Completed"
        /\ copy[r].state = "InProgress" => ~MustFetch(copy[r].params)
        /\ cached # NoWalk => WellBuilt(cached) /\ Describes(cached, copy[r])
        /\ copy[r].state = "Reinitialized" => pc[r] = "probe" \/ cached = NoWalk
        /\ pc[r] \in {"symbols", "range", "prices"} => MustFetch(copy[r].params)
        /\ pc[r] = "serve" /\ walk[r] # NoWalk =>
                WellBuilt(walk[r]) /\ walk[r].asked = copy[r].params
        /\ AwaitedStep(r, copy[r].current_step)

\* What an advance is going to write is what the walk it served from replays, and
\* that of a session in progress does not change.
AloneAdvance(r) ==
    /\ walk[r] # NoWalk /\ WellBuilt(walk[r])
    /\ copy[r].params = walk[r].params
    /\ walks[Home[r]] \in {NoWalk, walk[r]}
    /\ session # Absent /\ session.state = "InProgress" => copy[r].params = session.params
    /\ AwaitedStep(r, copy[r].current_step - 1)

AloneRequest(r) ==
    /\ pc[r] \in {"idle", "check", "merge", "read", "probe"} => walk[r] = NoWalk
    /\ pc[r] = "merge" => call[r].op = "patch"
    /\ pc[r] = "read" /\ session # Absent =>
            /\ call[r].op \in {"patch", "put"} => params[r] = Apply(call[r].change, session.params)
            /\ AwaitedStep(r, session.current_step)
    /\ pc[r] \in Serving => AloneRead(r)
    /\ pc[r] = "save" =>
            IF call[r].op = "advance" THEN AloneAdvance(r)
            ELSE session # Absent => copy[r].params = Apply(call[r].change, session.params)
    /\ result[r] = "served" =>
            walk[r].params = copy[r].params /\ AwaitedStep(r, copy[r].current_step - 1)

AloneInvariant ==
    /\ log = <<>> => /\ \A r \in Requests : pc[r] = "idle"
                     /\ \A p \in Replicas : walks[p] = NoWalk
    /\ \A q, r \in Requests : pc[q] # "idle" /\ pc[r] # "idle" => q = r
    /\ \A p \in Replicas :
            walks[p] # NoWalk =>
                WellBuilt(walks[p]) /\ (session # Absent => Describes(walks[p], session))
    /\ session # Absent /\ session.state = "InProgress" => ~MustFetch(session.params)
    /\ \A r \in Requests : AloneRequest(r)
    /\ \A i \in 1 .. Len(log) :
            log[i].kind = "advance" => log[i].params = log[i].walk.params
    /\ PatchKeepsOtherUpdates
    /\ \A i \in 1 .. Len(log) - 1 :
            (log[i].kind = "advance" /\ log[i + 1].kind = "advance") =>
                log[i].params = log[i + 1].params

\* Beside a request in flight every other one is idle.
LEMMA OthersAreIdle ==
    ASSUME InductiveInvariant, AloneInvariant, NEW r \in Requests, pc[r] # "idle",
           NEW q \in Requests, q # r
    PROVE  pc[q] = "idle" /\ walk[q] = NoWalk /\ result[q] = "none"
  <1>1. pc[q] = "idle"
    BY DEF AloneInvariant
  <1> QED
    BY <1>1 DEF AloneInvariant, AloneRequest, InductiveInvariant, RequestConsistent

LEMMA IdleRequestIsAlone ==
    ASSUME NEW q, pc'[q] = "idle", walk'[q] = NoWalk, result'[q] = "none"
    PROVE  AloneRequest(q)'
  BY DEF AloneRequest, Serving

\* The cached walks are as good as before if some are dropped or the session goes.
LEMMA CachedKept ==
    ASSUME AloneInvariant, session' \in {session, Absent},
           \A p \in Replicas : walks'[p] \in {walks[p], NoWalk}
    PROVE  \A p \in Replicas :
               walks'[p] # NoWalk =>
                   WellBuilt(walks'[p]) /\ (session' # Absent => Describes(walks'[p], session'))
  BY DEF AloneInvariant

\* The history of one request at a time, while it is not written.
LEMMA HistoryKept ==
    ASSUME AloneInvariant, log' = log
    PROVE  /\ \A i \in 1 .. Len(log') :
                 log'[i].kind = "advance" => log'[i].params = log'[i].walk.params
           /\ PatchKeepsOtherUpdates'
           /\ \A i \in 1 .. Len(log') - 1 :
                 (log'[i].kind = "advance" /\ log'[i + 1].kind = "advance") =>
                     log'[i].params = log'[i + 1].params
  BY DEF AloneInvariant, PatchKeepsOtherUpdates

\* A step of the request in flight that does not write has only its own state to
\* show, and that of the walks it caches.
LEMMA AloneStep ==
    ASSUME InductiveInvariant, AloneInvariant, NEW r \in Requests, pc[r] # "idle",
           \A q \in Requests \ {r} :
               pc'[q] = pc[q] /\ walk'[q] = walk[q] /\ result'[q] = result[q],
           session' \in {session, Absent}, log' = log,
           \A p \in Replicas :
               walks'[p] # NoWalk =>
                   WellBuilt(walks'[p]) /\ (session' # Absent => Describes(walks'[p], session')),
           AloneRequest(r)'
    PROVE  AloneInvariant'
  <1>1. \A q \in Requests \ {r} : pc[q] = "idle" /\ walk[q] = NoWalk /\ result[q] = "none"
    BY OthersAreIdle
  <1>2. \A q \in Requests : AloneRequest(q)'
    BY <1>1, IdleRequestIsAlone
  <1>3. \A q, s \in Requests : pc'[q] # "idle" /\ pc'[s] # "idle" => q = s
    BY <1>1
  <1>4. (session # Absent /\ session.state = "InProgress" => ~MustFetch(session.params))'
    BY DEF AloneInvariant
  <1>5. log # <<>>
    BY DEF AloneInvariant
  <1> QED
    BY <1>2, <1>3, <1>4, <1>5, HistoryKept DEF AloneInvariant

\* The same of a step after which the request goes to another label, with the
\* walks as they were or fewer.
LEMMA AloneDecided ==
    ASSUME InductiveInvariant, AloneInvariant, NEW r \in Requests, pc[r] # "idle",
           NEW l, NEW res, Decide(r, l, res), res # "served", UNCHANGED <<session, call, log>>,
           \A q \in Requests \ {r} : walk'[q] = walk[q],
           \A p \in Replicas : walks'[p] \in {walks[p], NoWalk},
           l \in {"idle", "check", "merge", "read", "probe"} => walk'[r] = NoWalk,
           l # "merge",
           l = "read" /\ session # Absent =>
               /\ call[r].op \in {"patch", "put"} =>
                      params'[r] = Apply(call[r].change, session.params)
               /\ AwaitedStep(r, session.current_step),
           l \in Serving => AloneRead(r)',
           l = "save" => /\ call[r].op # "advance"
                         /\ session # Absent =>
                                copy'[r].params = Apply(call[r].change, session.params)
    PROVE  AloneInvariant'
  <1>1. /\ pc'[r] = l /\ result'[r] = res
        /\ \A q \in Requests \ {r} : pc'[q] = pc[q] /\ result'[q] = result[q]
    BY DEF Decide, InductiveInvariant, SessionMatchesHistory, TypeOK
  <1>2. AwaitedStep(r, session.current_step) => AwaitedStep(r, session.current_step)'
    BY DEF AwaitedStep
  <1>3. AloneRequest(r)'
    BY <1>1, <1>2 DEF AloneRequest
  <1>4. \A p \in Replicas :
            walks'[p] # NoWalk =>
                WellBuilt(walks'[p]) /\ (session' # Absent => Describes(walks'[p], session'))
    BY CachedKept
  <1> QED
    BY <1>1, <1>3, <1>4, AloneStep

\* Nothing is required of a request once the session is gone, or of a walk.
LEMMA LossKeepsAlone ==
    ASSUME InductiveInvariant, AloneInvariant, session' \in {session, Absent},
           \A p \in Replicas : walks'[p] \in {walks[p], NoWalk},
           UNCHANGED <<pc, call, params, copy, walk, result, log>>
    PROVE  AloneInvariant'
  <1>1. ASSUME NEW r \in Requests
        PROVE  AloneRequest(r)'
    <2>1. AloneRequest(r) /\ Home[r] \in Replicas
      BY SessionAssumption DEF AloneInvariant
    <2>2. walks'[Home[r]] \in {walks[Home[r]], NoWalk}
      BY <2>1
    <2>3. AloneRead(r) => AloneRead(r)'
      BY <2>2 DEF AloneRead, AwaitedStep
    <2>4. AloneAdvance(r) => AloneAdvance(r)'
      BY <2>2 DEF AloneAdvance, AwaitedStep
    <2> QED
      BY <2>1, <2>3, <2>4 DEF AloneRequest, AwaitedStep
  <1> QED
    BY <1>1, CachedKept, HistoryKept DEF AloneInvariant

-----------------------------------------------------------------------------
(* One lemma per action, of requests that come one at a time               *)

\* One request may be sent at a time, and a PUT changes every field.
LEMMA AskAlone ==
    ASSUME OneAtATime, InductiveInvariant, AloneInvariant, NEW r \in Requests, Ask(r)
    PROVE  AloneInvariant'
  <1>1. PICK op \in {"advance", "peek", "patch", "put", "delete"},
             change \in Changes, expected \in Nat \cup {NoStep} :
            /\ Invoke(r, op, change, expected)
            /\ op = "put" => change \in Params
    <2>1. load \in LoadRecords
      BY SessionAssumption DEF InductiveInvariant, SessionMatchesHistory, TypeOK
    <2>2. NoChange \in Changes
      BY DEF NoChange, Changes
    <2>3. load.puts \subseteq Params /\ load.patches \subseteq Changes
          /\ load.expected \subseteq Nat \cup {NoStep}
      BY <2>1 DEF LoadRecords
    <2> QED
      BY <2>2, <2>3, ParamsAreChanges DEF Ask
  <1> DEFINE busy == {q \in Requests : pc[q] # "idle"}
  <1>2. busy = {}
    <2>1. IsFiniteSet(busy)
      <3>1. busy \in SUBSET Requests /\ IsFiniteSet(Requests)
        BY SessionAssumption
      <3> QED
        BY <3>1, FS_Subset
    <2>2. Cardinality(busy) < 1
      BY <1>1 DEF Invoke, OneAtATime
    <2> HIDE DEF busy
    <2>3. Cardinality(busy) = 0
      BY <2>1, <2>2, FS_CardinalityType
    <2> QED
      BY <2>1, <2>3, FS_EmptySet
  <1>3. /\ session' = session /\ walks' = walks /\ walk' = walk /\ log' = log /\ log # <<>>
        /\ call'[r] = [op |-> op, change |-> change, expected |-> expected]
        /\ params'[r] = IF op = "put" THEN change ELSE NoCall
        /\ pc'[r] = CASE op = "patch" -> "merge"
                      [] op = "delete" -> "delete"
                      [] expected # NoStep -> "check"
                      [] OTHER -> "read"
        /\ result' = result
        /\ \A q \in Requests \ {r} : pc'[q] = pc[q]
    BY <1>1 DEF Invoke, InductiveInvariant, SessionMatchesHistory, TypeOK
  <1>4. \A q \in Requests : pc[q] = "idle" /\ walk[q] = NoWalk /\ result[q] = "none"
    BY <1>2 DEF AloneInvariant, AloneRequest, InductiveInvariant, RequestConsistent
  <1>5. pc'[r] = "read" /\ session # Absent =>
            /\ op = "put" => change = Apply(change, session.params)
            /\ expected = NoStep /\ op # "patch"
    <2>1. ASSUME session # Absent, op = "put"
          PROVE  change = Apply(change, session.params)
      <3>1. session.params \in Params /\ change \in Params
        BY <1>1, <2>1 DEF InductiveInvariant, SessionMatchesHistory, TypeOK, Sessions
      <3>2. \A f \in {"steps", "seed", "method"} : change[f] # Keep
        BY <3>1, SessionAssumption DEF Params
      <3>3. DOMAIN session.params = {"steps", "seed", "method"}
        BY <3>1 DEF Params
      <3>4. Apply(change, session.params) = [f \in {"steps", "seed", "method"} |-> change[f]]
        BY <3>2, <3>3 DEF Apply
      <3> QED
        BY <3>1, <3>4 DEF Params
    <2> QED
      BY <1>3, <2>1
  <1>6. AloneRequest(r)'
    <2>1. walk'[r] = NoWalk /\ result'[r] = "none"
      BY <1>3, <1>4
    <2>2. pc'[r] \in {"merge", "delete", "check", "read"}
      BY <1>3
    <2>3. pc'[r] = "merge" => call'[r].op = "patch"
      BY <1>3
    <2>4. pc'[r] = "read" /\ session # Absent =>
              /\ call'[r].op \in {"patch", "put"} =>
                     params'[r] = Apply(call'[r].change, session.params)
              /\ AwaitedStep(r, session.current_step)'
      BY <1>3, <1>5 DEF AwaitedStep
    <2> QED
      BY <1>3, <2>1, <2>2, <2>3, <2>4 DEF AloneRequest, Serving
  <1>7. \A q \in Requests : AloneRequest(q)'
    <2>1. \A q \in Requests \ {r} :
              pc'[q] = "idle" /\ walk'[q] = NoWalk /\ result'[q] = "none"
      BY <1>3, <1>4
    <2> QED
      BY <1>6, <2>1, IdleRequestIsAlone
  <1>8. \A q, s \in Requests : pc'[q] # "idle" /\ pc'[s] # "idle" => q = s
    BY <1>3, <1>4
  <1> QED
    BY <1>3, <1>7, <1>8, CachedKept, HistoryKept DEF AloneInvariant

LEMMA CheckAlone ==
    ASSUME InductiveInvariant, AloneInvariant, NEW r \in Requests, Check(r)
    PROVE  AloneInvariant'
  <1>1. pc[r] = "check" /\ walk'[r] = NoWalk
    BY DEF Check, AloneInvariant, AloneRequest
  <1>2. CASE Decide(r, "done", "notFound") \/ Decide(r, "done", "mismatch")
    BY <1>1, <1>2, AloneDecided DEF Check, Serving
  <1>3. CASE session # Absent /\ session.current_step = call[r].expected
             /\ Decide(r, "read", "none")
    <2>1. call[r].op = "advance"
      BY <1>1 DEF InductiveInvariant, RequestConsistent
    <2> QED
      BY <1>1, <1>3, <2>1, AloneDecided DEF Check, Serving, AwaitedStep
  <1> QED
    BY <1>2, <1>3 DEF Check

LEMMA MergeAlone ==
    ASSUME InductiveInvariant, AloneInvariant, NEW r \in Requests, Merge(r)
    PROVE  AloneInvariant'
  <1>1. pc[r] = "merge" /\ walk'[r] = NoWalk /\ call[r].op = "patch"
    BY DEF Merge, AloneInvariant, AloneRequest
  <1>2. CASE Decide(r, "done", "notFound")
    BY <1>1, <1>2, AloneDecided DEF Merge, Serving
  <1>3. CASE session # Absent /\ Decide(r, "read", "none")
             /\ params' = [params EXCEPT ![r] = Apply(call[r].change, session.params)]
    <2>1. params'[r] = Apply(call[r].change, session.params)
      BY <1>3 DEF InductiveInvariant, SessionMatchesHistory, TypeOK
    <2> QED
      BY <1>1, <1>3, <2>1, AloneDecided DEF Merge, Serving, AwaitedStep
  <1> QED
    BY <1>2, <1>3 DEF Merge

LEMMA ReadAlone ==
    ASSUME InductiveInvariant, AloneInvariant, NEW r \in Requests, Read(r)
    PROVE  AloneInvariant'
  <1>1. /\ pc[r] = "read" /\ walk' = walk /\ walk[r] = NoWalk
        /\ session # Absent =>
            /\ call[r].op \in {"patch", "put"} =>
                   params[r] = Apply(call[r].change, session.params)
            /\ AwaitedStep(r, session.current_step)
    BY DEF Read, AloneInvariant, AloneRequest
  <1>2. CASE Decide(r, "done", "notFound") \/ Decide(r, "done", "exhausted")
    BY <1>1, <1>2, AloneDecided DEF Read, Serving
  <1>3. CASE /\ session # Absent /\ call[r].op \in {"patch", "put"}
             /\ copy' = [copy EXCEPT ![r] = Reinitialized(session, params[r])]
             /\ Decide(r, "save", "none")
    <2>1. copy'[r].params = params[r]
      BY <1>3 DEF InductiveInvariant, SessionMatchesHistory, TypeOK, Reinitialized
    <2> QED
      BY <1>1, <1>3, <2>1, AloneDecided DEF Read, Serving
  <1>4. CASE /\ session # Absent /\ session.state # "Completed"
             /\ copy' = [copy EXCEPT ![r] = session]
             /\ Decide(r, "probe", "none")
    <2>1. copy'[r] = session /\ pc'[r] = "probe"
      BY <1>4 DEF Decide, InductiveInvariant, SessionMatchesHistory, TypeOK
    <2>2. Home[r] \in Replicas
      BY SessionAssumption
    <2>3. /\ walks[Home[r]] # NoWalk =>
                WellBuilt(walks[Home[r]]) /\ Describes(walks[Home[r]], session)
          /\ session.state = "InProgress" => ~MustFetch(session.params)
      BY <1>4, <2>2 DEF AloneInvariant
    <2>4. session' = session /\ walks' = walks /\ call' = call /\ log' = log
      BY DEF Read
    <2>5. AwaitedStep(r, session.current_step) => AwaitedStep(r, copy[r].current_step)'
      BY <2>1, <2>4 DEF AwaitedStep
    <2>6. AloneRead(r)'
      BY <1>1, <1>4, <2>1, <2>3, <2>4, <2>5 DEF AloneRead
    <2> QED
      BY <1>1, <1>4, <2>4, <2>6, AloneDecided
  <1> QED
    BY <1>2, <1>3, <1>4 DEF Read

\* A reinitialized session drops the walk, so that it is built before it is served.
LEMMA ProbeAlone ==
    ASSUME InductiveInvariant, AloneInvariant, NEW r \in Requests, Probe(r)
    PROVE  AloneInvariant'
  <1> DEFINE stale == copy[r].state = "Reinitialized"
             l == IF stale \/ walks[Home[r]] = NoWalk THEN "build" ELSE "serve"
  <1>1. pc[r] = "probe" /\ walk[r] = NoWalk /\ AloneRead(r) /\ Home[r] \in Replicas
    BY SessionAssumption DEF Probe, AloneInvariant, AloneRequest, Serving
  <1>2. /\ session' = session /\ call' = call /\ copy' = copy /\ walk' = walk
        /\ result' = result /\ log' = log
        /\ pc'[r] = l /\ \A q \in Requests \ {r} : pc'[q] = pc[q]
        /\ \A p \in Replicas : walks'[p] \in {walks[p], NoWalk}
        /\ stale => walks'[Home[r]] = NoWalk
    BY <1>1 DEF Probe, InductiveInvariant, SessionMatchesHistory, TypeOK
  <1>3. walks'[Home[r]] \in {walks[Home[r]], NoWalk}
    BY <1>1, <1>2
  <1>4. AloneRead(r)'
    BY <1>1, <1>2, <1>3 DEF AloneRead, AwaitedStep
  <1>5. result[r] = "none"
    BY <1>1 DEF InductiveInvariant, RequestConsistent
  <1>6. AloneRequest(r)'
    BY <1>1, <1>2, <1>4, <1>5 DEF AloneRequest, Serving
  <1>7. \A p \in Replicas :
            walks'[p] # NoWalk =>
                WellBuilt(walks'[p]) /\ (session' # Absent => Describes(walks'[p], session'))
    BY <1>2, CachedKept
  <1> QED
    BY <1>1, <1>2, <1>6, <1>7, AloneStep

\* While a walk is built nothing that was read changes but by being lost.
LEMMA BuildingAlone ==
    ASSUME InductiveInvariant, AloneInvariant, NEW r \in Requests,
           pc[r] \in Serving \ {"probe"}, NEW l \in {"symbols", "range", "prices", "serve"},
           Decide(r, l, "none"), UNCHANGED <<session, walks, call, copy, log>>,
           \A q \in Requests \ {r} : walk'[q] = walk[q],
           l # "serve" => MustFetch(copy[r].params),
           l = "serve" => WellBuilt(walk'[r]) /\ walk'[r].asked = copy[r].params
    PROVE  AloneInvariant'
  <1>1. AloneRead(r)
    BY DEF AloneInvariant, AloneRequest
  <1>2. pc'[r] = l
    BY DEF Decide, InductiveInvariant, SessionMatchesHistory, TypeOK
  <1>3. AloneRead(r)'
    BY <1>1, <1>2 DEF AloneRead, AwaitedStep, Serving
  <1>4. pc[r] # "idle"
    BY DEF Serving
  <1> QED
    BY <1>3, <1>4, AloneDecided

LEMMA BuildAlone ==
    ASSUME InductiveInvariant, AloneInvariant, NEW r \in Requests, Build(r)
    PROVE  AloneInvariant'
  <1> DEFINE p == copy[r].params
  <1>1. pc[r] \in Serving \ {"probe"}
    BY DEF Build, Serving
  <1>2. CASE MustFetch(p) /\ walk' = walk
             /\ Decide(r, IF p.method.symbol = NoSymbol THEN "symbols" ELSE "range", "none")
    BY <1>1, <1>2, BuildingAlone DEF Build
  <1>3. CASE /\ ~MustFetch(p) /\ Decide(r, "serve", "none")
             /\ walk' = [walk EXCEPT ![r] = [asked |-> p, params |-> p]]
    <2>1. /\ walk'[r] = [asked |-> p, params |-> p]
          /\ \A q \in Requests \ {r} : walk'[q] = walk[q]
      BY <1>3 DEF InductiveInvariant, SessionMatchesHistory, TypeOK
    <2>2. WellBuilt(walk'[r]) /\ walk'[r].asked = copy[r].params
      BY <1>3, <2>1 DEF WellBuilt
    <2> QED
      BY <1>1, <1>3, <2>1, <2>2, BuildingAlone DEF Build
  <1> QED
    BY <1>2, <1>3 DEF Build

LEMMA SelectAlone ==
    ASSUME InductiveInvariant, AloneInvariant, NEW r \in Requests,
           SelectSymbol(r) \/ SelectStart(r)
    PROVE  AloneInvariant'
  <1>1. pc[r] \in {"symbols", "range"} /\ pc[r] \in Serving \ {"probe"}
    BY DEF SelectSymbol, SelectStart, Serving
  <1>2. MustFetch(copy[r].params)
    BY <1>1 DEF AloneInvariant, AloneRequest, AloneRead
  <1> QED
    BY <1>1, <1>2, BuildingAlone DEF SelectSymbol, SelectStart

\* The series that was fetched is as long as the walk.
LEMMA FetchPricesAlone ==
    ASSUME InductiveInvariant, InductiveInvariant', AloneInvariant, NEW r \in Requests,
           FetchPrices(r)
    PROVE  AloneInvariant'
  <1> DEFINE p == copy[r].params
             prices == Bars(Tables[table], pick[r].symbol, Frame, pick[r].start, p.steps)
             w == [asked |-> p, params |-> Resolved(p, pick[r].symbol, prices)]
  <1>1. pc[r] = "prices" /\ pc[r] \in Serving \ {"probe"}
    BY DEF FetchPrices, Serving
  <1>2. MustFetch(p) /\ p \in Params
    BY <1>1 DEF AloneInvariant, AloneRequest, AloneRead, InductiveInvariant,
                RequestConsistent, HoldsSession, Serving, Sessions
  <1>3. /\ walk'[r] = w
        /\ \A q \in Requests \ {r} : walk'[q] = walk[q]
    BY DEF FetchPrices, InductiveInvariant, SessionMatchesHistory, TypeOK
  <1>4. Len(prices) = p.steps
    BY DEF FetchPrices
  <1> HIDE DEF prices
  <1>5. /\ w.params.steps = p.steps
        /\ w.params.method = [source |-> "historical", prices |-> prices,
                              symbol |-> pick[r].symbol]
        /\ w.params = [p EXCEPT !.method = w.params.method]
    BY <1>2 DEF Resolved, Params
  <1>6. p.steps \in Nat
    BY <1>2, SessionAssumption DEF Params
  <1>7. ~MustFetch(w.params)
    BY <1>4, <1>5, <1>6 DEF MustFetch
  <1>8. WellBuilt(w) /\ w.asked = p
    BY <1>2, <1>5, <1>7 DEF WellBuilt
  <1> HIDE DEF w
  <1> QED
    BY <1>1, <1>3, <1>8, BuildingAlone DEF FetchPrices

LEMMA FailToBuildAlone ==
    ASSUME InductiveInvariant, AloneInvariant, NEW r \in Requests, FailToBuild(r)
    PROVE  AloneInvariant'
  BY AloneDecided DEF FailToBuild, Serving

\* The method that is written back makes the parameters those of the walk.
LEMMA WrittenBack ==
    ASSUME NEW s \in Sessions, NEW e \in Walks, WellBuilt(e),
           e.asked = s.params \/ e.params = s.params
    PROVE  WithMethodOf(e, s).params = e.params
  <1>1. s.params \in Params /\ e.asked \in Params /\ e.params \in Params
    BY DEF Sessions, Walks
  <1>2. CASE MustFetch(e.asked)
    <2>1. WithMethodOf(e, s).params = [s.params EXCEPT !.method = e.params.method]
      BY <1>2 DEF WithMethodOf, Sessions
    <2>2. CASE e.asked = s.params
      BY <1>2, <2>1, <2>2 DEF WellBuilt
    <2>3. CASE e.params = s.params
      BY <1>1, <2>1, <2>3 DEF Params
    <2> QED
      BY <2>2, <2>3
  <1>3. CASE ~MustFetch(e.asked)
    BY <1>3 DEF WithMethodOf, WellBuilt
  <1> QED
    BY <1>2, <1>3

\* What a request serves from is the walk of the session that it has read.
LEMMA ServeAlone ==
    ASSUME OneAtATime, InductiveInvariant, AloneInvariant, NEW r \in Requests, Serve(r)
    PROVE  AloneInvariant'
  <1> DEFINE e == Entry(r)
             c == copy[r]
             s == WithMethodOf(e, c)
             cached == walks[Home[r]]
  <1>1. /\ pc[r] = "serve" /\ AloneRead(r) /\ HoldsSession(r) /\ result[r] = "none"
        /\ Home[r] \in Replicas /\ c \in Sessions
    BY SessionAssumption DEF Serve, AloneInvariant, AloneRequest, InductiveInvariant,
                             RequestConsistent, HoldsSession, Serving
  <1>2. CASE e = NoWalk
    BY <1>1, <1>2, AloneDecided DEF Serve, Serving
  <1>3. CASE e # NoWalk
    <2>1. e \in Walks
      BY <1>1, <1>3 DEF Entry, InductiveInvariant, SessionMatchesHistory, TypeOK
    <2>2. /\ WellBuilt(e)
          /\ e.asked = c.params \/ e.params = c.params
          /\ Describes(e, c)
      <3>1. CASE cached # NoWalk
        <4>1. e = cached /\ WellBuilt(cached) /\ Describes(cached, c)
              /\ c.state # "Reinitialized" /\ c.state # "Completed"
          BY <1>1, <3>1 DEF Entry, AloneRead
        <4>2. c.state \in {"Initialized", "InProgress"}
          BY <1>1, <4>1 DEF Sessions, States
        <4> QED
          BY <4>1, <4>2 DEF Describes
      <3>2. CASE cached = NoWalk
        <4>1. e = walk[r] /\ WellBuilt(e) /\ e.asked = c.params
          BY <1>1, <1>3, <3>2 DEF Entry, AloneRead
        <4>2. c.state = "InProgress" => ~MustFetch(e.asked)
          BY <1>1, <4>1 DEF AloneRead
        <4> QED
          BY <4>1, <4>2 DEF Describes, WellBuilt
      <3> QED
        BY <3>1, <3>2
    <2>3. /\ s.params = e.params /\ s \in Sessions /\ s.version = c.version
          /\ s.current_step = c.current_step
      BY <1>1, <2>1, <2>2, WrittenBack, WithMethodSession
    <2>4. /\ walks' = [walks EXCEPT ![Home[r]] = e] /\ walk' = [walk EXCEPT ![r] = e]
          /\ session' = session /\ call' = call /\ log' = log
      BY <1>3 DEF Serve
    <2>5. /\ walks'[Home[r]] = e /\ walk'[r] = e
          /\ \A q \in Requests \ {r} : walk'[q] = walk[q]
          /\ \A p \in Replicas : p # Home[r] => walks'[p] = walks[p]
      BY <1>1, <2>4 DEF InductiveInvariant, SessionMatchesHistory, TypeOK
    <2>6. session \in {Absent, c}
      BY <1>1 DEF AloneRead
    <2>7. \A p \in Replicas :
              walks'[p] # NoWalk =>
                  WellBuilt(walks'[p]) /\ (session' # Absent => Describes(walks'[p], session'))
      BY <2>2, <2>4, <2>5, <2>6 DEF AloneInvariant
    <2>8. \/ Decide(r, "done", "exhausted")
          \/ Decide(r, "save", "none") /\ call[r].op = "advance"
             /\ copy' = [copy EXCEPT ![r] = Advanced(s)]
          \/ Decide(r, "done", "served") /\ call[r].op # "advance"
             /\ copy' = [copy EXCEPT ![r] = s]
      BY <1>3 DEF Serve
    <2> HIDE DEF e, s, c
    <2>9. AloneRequest(r)'
      <3>1. CASE Decide(r, "done", "exhausted")
        <4>1. pc'[r] = "done" /\ result'[r] = "exhausted"
          BY <3>1 DEF Decide, InductiveInvariant, SessionMatchesHistory, TypeOK
        <4> QED
          BY <4>1 DEF AloneRequest, Serving
      <3>2. CASE Decide(r, "done", "served") /\ call[r].op # "advance"
                 /\ copy' = [copy EXCEPT ![r] = s]
        <4>1. pc'[r] = "done" /\ result'[r] = "served" /\ copy'[r] = s
          BY <3>2 DEF Decide, InductiveInvariant, SessionMatchesHistory, TypeOK
        <4> QED
          BY <2>3, <2>4, <2>5, <3>2, <4>1 DEF AloneRequest, Serving, AwaitedStep
      <3>3. CASE Decide(r, "save", "none") /\ call[r].op = "advance"
                 /\ copy' = [copy EXCEPT ![r] = Advanced(s)]
        <4>1. pc'[r] = "save" /\ result'[r] = "none" /\ copy'[r] = Advanced(s)
          BY <3>3 DEF Decide, InductiveInvariant, SessionMatchesHistory, TypeOK
        <4>2. copy'[r].params = e.params /\ copy'[r].current_step = c.current_step + 1
          BY <2>3, <4>1, AdvancedSession
        <4>3. c.current_step \in Nat
          BY <1>1 DEF c, Sessions
        <4>4. AwaitedStep(r, c.current_step)
          BY <1>1 DEF AloneRead, c
        <4>5. AwaitedStep(r, copy[r].current_step - 1)'
          BY <2>4, <4>2, <4>3, <4>4 DEF AwaitedStep
        <4>6. session # Absent /\ session.state = "InProgress" => e.params = session.params
          BY <2>2, <2>6 DEF Describes
        <4>7. AloneAdvance(r)'
          BY <1>3, <2>2, <2>4, <2>5, <4>2, <4>5, <4>6 DEF AloneAdvance, e
        <4> QED
          BY <2>4, <3>3, <4>1, <4>7 DEF AloneRequest, Serving
      <3> QED
        BY <2>8, <3>1, <3>2, <3>3
    <2>10. \A q \in Requests \ {r} : pc'[q] = pc[q] /\ result'[q] = result[q]
      BY <2>8 DEF Decide, InductiveInvariant, SessionMatchesHistory, TypeOK
    <2> QED
      BY <1>1, <2>4, <2>5, <2>7, <2>9, <2>10, AloneStep
  <1> QED
    BY <1>2, <1>3

\* A write leaves the session with the parameters of the walk it was served from, or
\* with the ones that its request asked for.
LEMMA WriteAlone ==
    ASSUME OneAtATime, InductiveInvariant, AloneInvariant, NEW r \in Requests,
           pc[r] = "save", session # Absent, session.version = copy[r].version - 1, Write(r),
           UNCHANGED <<walks, call, params, copy, pick, walk>>
    PROVE  AloneInvariant'
  <1> DEFINE c == copy[r]
             advance == call[r].op = "advance"
             w == [kind |-> IF advance THEN "advance" ELSE "update", params |-> c.params,
                   change |-> call[r].change, by |-> r, walk |-> walk[r]]
             last == Len(log)
  <1>1. /\ HoldsWrite(r) /\ AloneRequest(r) /\ c \in Sessions /\ Home[r] \in Replicas
        /\ log \in Seq(Writes) /\ last \in Nat /\ log # <<>>
    <2>1. HoldsWrite(r) /\ c \in Sessions /\ log \in Seq(Writes) /\ last \in Nat
      BY DEF InductiveInvariant, RequestConsistent, HoldsWrite, SessionMatchesHistory, TypeOK
    <2> QED
      BY <2>1, SessionAssumption DEF AloneInvariant
  <1>2. session' = c /\ log' = Append(log, w)
    BY DEF Write, Record
  <1>3. /\ pc'[r] \in {"forget", "done"}
        /\ result'[r] = IF advance THEN "served" ELSE "updated"
        /\ \A q \in Requests \ {r} : pc'[q] = pc[q] /\ result'[q] = result[q]
    BY DEF Write, Decide, InductiveInvariant, SessionMatchesHistory, TypeOK
  <1>4. /\ advance => AloneAdvance(r) /\ c.state \in {"InProgress", "Completed"}
        /\ ~advance => /\ c.params = Apply(call[r].change, session.params)
                       /\ c.state = "Reinitialized"
    BY <1>1 DEF AloneRequest, HoldsWrite
  <1>5. /\ Len(log') = last + 1 /\ log'[last + 1] = w /\ log' # <<>>
        /\ \A i \in 1 .. last : log'[i] = log[i]
        /\ last >= 1
    BY <1>1, <1>2
  <1>6. session.params = log[last].params
    BY DEF InductiveInvariant, SessionMatchesHistory
  <1>7. ASSUME advance, log[last].kind = "advance"
        PROVE  c.params = log[last].params
    <2>1. Restart \in 1 .. last /\ Restart # last
      BY <1>1, <1>7 DEF InductiveInvariant, HistoryIsTape
    <2>2. Consumed = last - Restart
      BY <1>1 DEF Consumed
    <2>3. Consumed >= 1 /\ Consumed \in Nat
      BY <1>1, <2>1, <2>2
    <2>4. Consumed < Horizon
      BY <1>1, <1>7 DEF HoldsWrite, InductiveInvariant, SessionMatchesHistory
    <2>5. Horizon \in Nat
      BY <1>1, HistoryNumbers DEF InductiveInvariant, SessionMatchesHistory
    <2>6. Consumed # Horizon /\ Consumed \in 1 .. Horizon - 1
      BY <2>3, <2>4, <2>5
    <2>7. session.state = CASE Consumed = Horizon -> "Completed"
                            [] Consumed \in 1 .. Horizon - 1 -> "InProgress"
                            [] Len(log) = 1 -> "Initialized"
                            [] OTHER -> "Reinitialized"
      BY DEF InductiveInvariant, SessionMatchesHistory
    <2>8. Len(log) # 1
      <3>1. \A k \in 1 .. 1 : k = 1
        OBVIOUS
      <3> QED
        BY <2>1, <3>1
    <2>9. session.state = "InProgress"
      BY <2>6, <2>7, <2>8
    <2> QED
      BY <1>4, <1>6, <1>7, <2>9 DEF AloneAdvance
  <1> HIDE DEF w, last
  <1>8. /\ w.kind = (IF advance THEN "advance" ELSE "update") /\ w.params = c.params
        /\ w.change = call[r].change /\ w.walk = walk[r]
    BY DEF w
  <1>9. \A i \in 1 .. Len(log') :
            log'[i].kind = "advance" => log'[i].params = log'[i].walk.params
    <2>1. \A i \in 1 .. last : log[i].kind = "advance" => log[i].params = log[i].walk.params
      BY DEF AloneInvariant, last
    <2>2. w.kind = "advance" => w.params = w.walk.params
      BY <1>4, <1>8 DEF AloneAdvance
    <2> QED
      BY <1>1, <1>5, <2>1, <2>2
  <1>10. PatchKeepsOtherUpdates'
    <2>1. \A i \in 2 .. last :
              log[i].kind = "update" => log[i].params = Apply(log[i].change, log[i - 1].params)
      BY DEF AloneInvariant, PatchKeepsOtherUpdates, last
    <2>2. w.kind = "update" => w.params = Apply(w.change, log[last].params)
      BY <1>4, <1>6, <1>8
    <2>3. ASSUME NEW i \in 2 .. last + 1, log'[i].kind = "update"
          PROVE  log'[i].params = Apply(log'[i].change, log'[i - 1].params)
      <3>1. CASE i = last + 1
        <4>1. log'[i] = w /\ log'[i - 1] = log[last]
          BY <1>1, <1>5, <3>1
        <4> QED
          BY <2>2, <2>3, <4>1
      <3>2. CASE i # last + 1
        <4>1. i \in 2 .. last /\ log'[i] = log[i] /\ log'[i - 1] = log[i - 1]
          BY <1>1, <1>5, <3>2
        <4> QED
          BY <2>1, <2>3, <4>1
      <3> QED
        BY <3>1, <3>2
    <2> QED
      BY <1>5, <2>3 DEF PatchKeepsOtherUpdates
  <1>11. \A i \in 1 .. Len(log') - 1 :
             (log'[i].kind = "advance" /\ log'[i + 1].kind = "advance") =>
                 log'[i].params = log'[i + 1].params
    <2>1. \A i \in 1 .. last - 1 :
              (log[i].kind = "advance" /\ log[i + 1].kind = "advance") =>
                  log[i].params = log[i + 1].params
      BY DEF AloneInvariant, last
    <2>2. ASSUME NEW i \in 1 .. last, log'[i].kind = "advance", log'[i + 1].kind = "advance"
          PROVE  log'[i].params = log'[i + 1].params
      <3>1. CASE i = last
        <4>1. log'[i] = log[last] /\ log'[i + 1] = w
          BY <1>1, <1>5, <3>1
        <4> QED
          BY <1>7, <1>8, <2>2, <4>1
      <3>2. CASE i # last
        <4>1. i \in 1 .. last - 1 /\ log'[i] = log[i] /\ log'[i + 1] = log[i + 1]
          BY <1>1, <1>5, <3>2
        <4> QED
          BY <2>1, <2>2, <4>1
      <3> QED
        BY <3>1, <3>2
    <2>3. Len(log') - 1 = last
      BY <1>1, <1>5
    <2> QED
      BY <2>2, <2>3
  <1>12. \A p \in Replicas :
             walks[p] # NoWalk => WellBuilt(walks[p]) /\ Describes(walks[p], c)
    <2>1. ASSUME NEW p \in Replicas
          PROVE  p = Home[r]
      <3>1. IsFiniteSet(Replicas) /\ Cardinality(Replicas) = 1
        BY SessionAssumption DEF OneAtATime
      <3>2. PICK x : Replicas = {x}
        BY <3>1, FS_Singleton
      <3> QED
        BY <1>1, <3>2
    <2>2. \A p \in Replicas : walks[p] # NoWalk => WellBuilt(walks[p])
      BY DEF AloneInvariant
    <2>3. walks[Home[r]] # NoWalk => Describes(walks[Home[r]], c)
      BY <1>4 DEF AloneAdvance, Describes
    <2> QED
      BY <2>1, <2>2, <2>3
  <1>13. c.state = "InProgress" => ~MustFetch(c.params)
    BY <1>4 DEF AloneAdvance, WellBuilt
  <1>14. AloneRequest(r)'
    <2>1. AwaitedStep(r, copy[r].current_step - 1) => AwaitedStep(r, copy[r].current_step - 1)'
      BY DEF AwaitedStep
    <2> QED
      BY <1>3, <1>4, <2>1 DEF AloneRequest, AloneAdvance, Serving
  <1>15. \A q \in Requests \ {r} : pc[q] = "idle" /\ walk[q] = NoWalk /\ result[q] = "none"
    BY OthersAreIdle
  <1>16. \A q \in Requests : AloneRequest(q)'
    BY <1>3, <1>14, <1>15, IdleRequestIsAlone
  <1>17. \A q, s \in Requests : pc'[q] # "idle" /\ pc'[s] # "idle" => q = s
    BY <1>3, <1>15
  <1> QED
    BY <1>2, <1>5, <1>9, <1>10, <1>11, <1>12, <1>13, <1>16, <1>17 DEF AloneInvariant

LEMMA SaveAlone ==
    ASSUME OneAtATime, InductiveInvariant, AloneInvariant, NEW r \in Requests, Save(r)
    PROVE  AloneInvariant'
  <1>1. CASE /\ Decide(r, "done", "notFound") \/ Decide(r, "done", "conflict")
             /\ UNCHANGED <<session, log>>
    BY <1>1, AloneDecided DEF Save, Serving
  <1>2. CASE session # Absent /\ session.version = copy[r].version - 1 /\ Write(r)
    BY <1>2, WriteAlone DEF Save
  <1> QED
    BY <1>1, <1>2 DEF Save

LEMMA DeleteAlone ==
    ASSUME InductiveInvariant, AloneInvariant, NEW r \in Requests, Delete(r)
    PROVE  AloneInvariant'
  <1>1. /\ pc[r] = "delete" /\ session' = Absent /\ walks' = walks /\ walk' = walk
        /\ log' = log
        /\ pc'[r] = "forget" /\ result'[r] \in {"notFound", "deleted"}
        /\ \A q \in Requests \ {r} : pc'[q] = pc[q] /\ result'[q] = result[q]
    BY DEF Delete, Decide, InductiveInvariant, SessionMatchesHistory, TypeOK
  <1>2. AloneRequest(r)'
    BY <1>1 DEF AloneRequest, Serving
  <1> QED
    BY <1>1, <1>2, CachedKept, AloneStep

LEMMA ForgetAlone ==
    ASSUME InductiveInvariant, AloneInvariant, NEW r \in Requests, Forget(r)
    PROVE  AloneInvariant'
  <1>1. /\ pc[r] = "forget" /\ session' = session /\ walk' = walk /\ log' = log
        /\ call' = call /\ copy' = copy /\ result' = result
        /\ pc'[r] = "done" /\ \A q \in Requests \ {r} : pc'[q] = pc[q]
        /\ \A p \in Replicas : walks'[p] \in {walks[p], NoWalk}
    BY DEF Forget, InductiveInvariant, SessionMatchesHistory, TypeOK
  <1>2. AloneRequest(r)'
    BY <1>1 DEF AloneInvariant, AloneRequest, AwaitedStep, Serving
  <1> QED
    BY <1>1, <1>2, CachedKept, AloneStep

\* Slots that become free ask for nothing, and the others go on.
LEMMA FreeAlone ==
    ASSUME InductiveInvariant, AloneInvariant, NEW R \in SUBSET Requests, Free(R),
           UNCHANGED <<session, log>>,
           \A p \in Replicas : walks'[p] \in {walks[p], NoWalk},
           \A r \in Requests \ R : walks'[Home[r]] = walks[Home[r]]
    PROVE  AloneInvariant'
  <1>1. \A r \in R : pc'[r] = "idle" /\ walk'[r] = NoWalk /\ result'[r] = "none"
    BY DEF Free
  <1>2. ASSUME NEW r \in Requests \ R
        PROVE  AloneRequest(r)'
    <2>1. /\ pc'[r] = pc[r] /\ call'[r] = call[r] /\ params'[r] = params[r]
          /\ copy'[r] = copy[r] /\ walk'[r] = walk[r] /\ result'[r] = result[r]
          /\ walks'[Home[r]] = walks[Home[r]]
      BY DEF Free
    <2>2. AloneRequest(r)
      BY DEF AloneInvariant
    <2> QED
      BY <2>1, <2>2 DEF AloneRequest, AloneRead, AloneAdvance, AwaitedStep
  <1>3. \A r \in Requests : AloneRequest(r)'
    BY <1>1, <1>2, IdleRequestIsAlone
  <1>4. \A r \in Requests : pc'[r] \in {pc[r], "idle"}
    BY DEF Free
  <1>5. \A q, s \in Requests : pc'[q] # "idle" /\ pc'[s] # "idle" => q = s
    BY <1>4 DEF AloneInvariant
  <1>6. log' = <<>> => /\ \A r \in Requests : pc'[r] = "idle"
                       /\ \A p \in Replicas : walks'[p] = NoWalk
    BY <1>4 DEF AloneInvariant
  <1>7. (session # Absent /\ session.state = "InProgress" => ~MustFetch(session.params))'
    BY DEF AloneInvariant
  <1> QED
    BY <1>3, <1>5, <1>6, <1>7, CachedKept, HistoryKept DEF AloneInvariant

LEMMA CreateAlone ==
    ASSUME InductiveInvariant, AloneInvariant, NEW p \in load.puts, Create(p)
    PROVE  AloneInvariant'
  <1> DEFINE w == [kind |-> "create", params |-> p, change |-> Keep, by |-> NoCall,
                   walk |-> NoWalk]
  <1>1. /\ log = <<>> /\ log' = Append(log, w) /\ session' = NewSession(p)
        /\ pc' = pc /\ walks' = walks /\ walk' = walk /\ result' = result
    BY DEF Create, Record
  <1>2. /\ \A r \in Requests : pc[r] = "idle"
        /\ \A q \in Replicas : walks[q] = NoWalk
    BY <1>1 DEF AloneInvariant
  <1>3. \A r \in Requests : AloneRequest(r)'
    <2>1. \A r \in Requests : walk[r] = NoWalk /\ result[r] = "none"
      BY <1>2 DEF AloneInvariant, AloneRequest, InductiveInvariant, RequestConsistent
    <2> QED
      BY <1>1, <1>2, <2>1, IdleRequestIsAlone
  <1>4. log' = <<w>> /\ Len(log') = 1 /\ log'[1].kind = "create"
    BY <1>1
  <1>5. session'.state = "Initialized"
    BY <1>1 DEF NewSession
  <1> HIDE DEF w
  <1> QED
    BY <1>1, <1>2, <1>3, <1>4, <1>5 DEF AloneInvariant, PatchKeepsOtherUpdates

LEMMA AloneInitially == Init => AloneInvariant
  BY DEF Init, AloneInvariant, AloneRequest, Serving, PatchKeepsOtherUpdates

LEMMA AlonePreserved ==
    OneAtATime /\ InductiveInvariant /\ InductiveInvariant' /\ AloneInvariant /\ [Next]_vars
        => AloneInvariant'
  <1> SUFFICES ASSUME OneAtATime, InductiveInvariant, InductiveInvariant', AloneInvariant,
                      [Next]_vars
               PROVE  AloneInvariant'
    OBVIOUS
  <1>1. CASE UNCHANGED vars
    BY <1>1, LossKeepsAlone DEF vars
  <1>2. CASE Grow
    BY <1>2, LossKeepsAlone DEF Grow
  <1>3. CASE ServiceStep
    <2>1. ASSUME NEW p \in load.puts, Create(p) PROVE AloneInvariant'
      BY <2>1, CreateAlone
    <2>2. ASSUME NEW r \in Requests, Ask(r) PROVE AloneInvariant'
      BY <2>2, AskAlone
    <2>3. ASSUME NEW r \in Requests, RequestStep(r) PROVE AloneInvariant'
      BY <2>3, CheckAlone, MergeAlone, ReadAlone, ProbeAlone, BuildAlone, SelectAlone,
         FetchPricesAlone, FailToBuildAlone, ServeAlone, SaveAlone, DeleteAlone, ForgetAlone
         DEF RequestStep
    <2>4. ASSUME NEW r \in Requests, Return(r) \/ Cancel(r) PROVE AloneInvariant'
      BY <2>4, FreeAlone DEF Return, Cancel
    <2>5. ASSUME NEW p \in Replicas, Drop(p) PROVE AloneInvariant'
      <3>1. \A q \in Replicas : walks'[q] \in {walks[q], NoWalk}
        BY <2>5 DEF Drop, InductiveInvariant, SessionMatchesHistory, TypeOK
      <3> QED
        BY <2>5, <3>1, LossKeepsAlone DEF Drop
    <2>6. ASSUME NEW p \in Replicas, Crash(p) PROVE AloneInvariant'
      <3> DEFINE R == {r \in Requests : Home[r] = p}
      <3>1. /\ \A q \in Replicas : walks'[q] \in {walks[q], NoWalk}
            /\ \A q \in Replicas : q # p => walks'[q] = walks[q]
        BY <2>6 DEF Crash, InductiveInvariant, SessionMatchesHistory, TypeOK
      <3>2. \A r \in Requests \ R : walks'[Home[r]] = walks[Home[r]]
        BY <3>1, SessionAssumption
      <3> QED
        BY <2>6, <3>1, <3>2, FreeAlone DEF Crash
    <2>7. ASSUME Lapse PROVE AloneInvariant'
      BY <2>7, LossKeepsAlone DEF Lapse
    <2> QED
      BY <1>3, <2>1, <2>2, <2>3, <2>4, <2>5, <2>6, <2>7 DEF ServiceStep
  <1> QED
    BY <1>1, <1>2, <1>3 DEF Next

\* The invariant of requests that come one at a time holds as long as they do.
THEOREM AloneInvariance == Spec => [](OneAtATime => AloneInvariant)
  <1>1. (OneAtATime => AloneInvariant) /\ InductiveInvariant /\ InductiveInvariant'
            /\ [Next]_vars => (OneAtATime => AloneInvariant)'
    <2>1. [Next]_vars => (OneAtATime' <=> OneAtATime)
      BY DEF Next, vars, OneAtATime
    <2> QED
      BY <2>1, AlonePreserved
  <1> QED
    BY <1>1, AloneInitially, Invariance, PTL DEF Spec

\* A request alone serves from the walk of the session that it read, whatever has been
\* updated, evicted, cancelled or lost before it (get_next_step, "a hit implies the
\* parameters still describe this walk").
THEOREM AloneWalksAreCurrent == Spec => []AloneWalkIsCurrent
  <1>1. (OneAtATime => AloneInvariant) => AloneWalkIsCurrent
    BY DEF AloneInvariant, AloneRequest, AloneWalkIsCurrent, ServedWalkIsCurrent
  <1> QED
    BY <1>1, AloneInvariance, PTL

\* Alone, a PATCH changes what it names and an advance takes the step it expects.
THEOREM AloneUpdatesHonoured == Spec => []AloneUpdatesAreHonoured
  <1>1. (OneAtATime => AloneInvariant) => AloneUpdatesAreHonoured
    BY DEF AloneInvariant, AloneRequest, AwaitedStep, AloneUpdatesAreHonoured,
           ExpectedStepHonoured
  <1> QED
    BY <1>1, AloneInvariance, PTL

\* Alone, the advances between two updates serve one price series, however often the
\* walk is built again from a table that has grown.
THEOREM AloneTapesAreOneSeries == Spec => []AloneTapeIsOneSeries
  <1>1. ASSUME InductiveInvariant, OneAtATime => AloneInvariant
        PROVE  AloneTapeIsOneSeries
    <2> SUFFICES ASSUME OneAtATime, NEW i \in 2 .. Len(log) - 1,
                        log[i].kind = "advance", log[i + 1].kind = "advance"
                 PROVE  log[i].walk.params.method.prices = log[i + 1].walk.params.method.prices
      BY DEF AloneTapeIsOneSeries
    <2>1. Len(log) \in Nat
      BY DEF InductiveInvariant, SessionMatchesHistory, TypeOK
    <2>2. i \in 1 .. Len(log) /\ i + 1 \in 1 .. Len(log) /\ i \in 1 .. Len(log) - 1
      BY <2>1
    <2> QED
      BY <1>1, <2>2 DEF AloneInvariant
  <1> QED
    BY <1>1, AloneInvariance, Invariance, PTL

-----------------------------------------------------------------------------
(* The bars of a table that grows                                          *)

\* Division keeps the order.
LEMMA QuotientsGrow ==
    ASSUME NEW m \in Nat, NEW n \in Nat, m <= n, NEW d \in Nat \ {0}
    PROVE  m \div d \in Nat /\ m \div d <= n \div d
  OBVIOUS

LEMMA Quotient ==
    ASSUME NEW n \in Nat, NEW d \in Nat \ {0}
    PROVE  /\ n \div d \in Nat
           /\ (n \div d) * d <= n
           /\ n < (n \div d) * d + d
  OBVIOUS

\* So many bars after that of an instant begin so many times their length later at most.
LEMMA BarsAhead ==
    ASSUME NEW from \in Nat, NEW d \in Nat \ {0}, NEW k \in Nat, NEW n \in Nat
    PROVE  /\ n >= from + k * d => n \div d >= from \div d + k
           /\ n \div d < from \div d + k => n < from + k * d
  <1> DEFINE f == from \div d
             q == n \div d
  <1>1. /\ f \in Nat /\ f * d <= from /\ from < f * d + d
        /\ q \in Nat /\ q * d <= n /\ n < q * d + d
    BY Quotient
  <1> HIDE DEF f, q
  <1>2. ASSUME q < f + k PROVE n < from + k * d
    <2>1. q + 1 <= f + k /\ q + 1 \in Nat /\ f + k \in Nat
      BY <1>1, <1>2
    <2>2. (q + 1) * d <= (f + k) * d
      BY <2>1, ProductsGrow
    <2>3. (q + 1) * d = q * d + d /\ (f + k) * d = f * d + k * d
      BY <1>1
    <2>4. q * d \in Nat /\ f * d \in Nat /\ k * d \in Nat
      BY <1>1, ProductIsNatural
    <2> QED
      BY <1>1, <2>2, <2>3, <2>4
  <1>3. k * d \in Nat
    BY ProductIsNatural
  <1>4. ASSUME n >= from + k * d PROVE q >= f + k
    BY <1>1, <1>2, <1>3, <1>4
  <1> QED
    BY <1>2, <1>4 DEF f, q

\* The smaller of two numbers.
LEMMA Smallest ==
    ASSUME NEW m \in Int, NEW n \in Int, m <= n
    PROVE  Min({m, n}) = m
  <1>1. m \in {m, n} /\ \A y \in {m, n} : m <= y
    OBVIOUS
  <1>2. Min({m, n}) \in {m, n} /\ \A y \in {m, n} : Min({m, n}) <= y
    BY <1>1, Zenon DEF Min
  <1> DEFINE least == Min({m, n})
  <1>3. least \in {m, n} /\ least <= m
    BY <1>2
  <1> HIDE DEF least
  <1>4. least = m
    BY <1>3
  <1> QED
    BY <1>4 DEF least

\* The lowest numbers of a set that has no gaps at first.
LEMMA NthOfRun ==
    ASSUME NEW S \in SUBSET Nat, IsFiniteSet(S), NEW f \in Nat, NEW k \in Nat,
           f .. f + k \subseteq S, \A n \in S : f <= n, NEW i \in 1 .. k
    PROVE  Nth(S, i) = f + i - 1 /\ Cardinality(S) >= k
  <1> DEFINE Lower(n) == {m \in S : m < n}
  <1>1. Cardinality(S) \in Nat /\ Cardinality(f .. f + k) = k + 1
    BY FS_Interval, FS_CardinalityType
  <1>2. Cardinality(f .. f + k) <= Cardinality(S)
    BY FS_Subset
  <1>3. ASSUME NEW n \in f .. f + k PROVE Cardinality(Lower(n)) = n - f
    <2>1. n \in Nat /\ n - 1 \in Int /\ f <= n /\ n <= f + k
      OBVIOUS
    <2>2. \A m \in f .. n - 1 : m \in S
      BY <2>1
    <2>3. \A m \in S : m \in Nat /\ (m \in f .. n - 1 <=> m < n)
      BY <2>1
    <2>4. Lower(n) = f .. n - 1
      BY <2>2, <2>3
    <2>5. Cardinality(f .. n - 1) = n - f
      <3> DEFINE h == n - 1
      <3>1. h \in Int /\ f \in Int /\ n = h + 1 /\ f <= h + 1
        BY <2>1
      <3> HIDE DEF h
      <3>2. Cardinality(f .. h) = h - f + 1
        BY <3>1, FS_Interval
      <3> QED
        BY <3>1, <3>2 DEF h
    <2> QED
      BY <2>4, <2>5
  <1>4. ASSUME NEW n \in S, n > f + k PROVE Cardinality(Lower(n)) >= k + 1
    <2>1. f .. f + k \in SUBSET Lower(n) /\ Lower(n) \in SUBSET S
      BY <1>4
    <2>2. IsFiniteSet(Lower(n)) /\ Cardinality(Lower(n)) \in Nat
      BY <2>1, FS_Subset, FS_CardinalityType
    <2> HIDE DEF Lower
    <2>3. Cardinality(f .. f + k) <= Cardinality(Lower(n))
      BY <2>1, <2>2, FS_Subset
    <2> QED
      BY <1>1, <2>3
  <1>5. f + i - 1 \in S /\ f + i - 1 \in f .. f + k
    OBVIOUS
  <1>6. Cardinality(Lower(f + i - 1)) = i - 1
    <2> HIDE DEF Lower
    <2> QED
      BY <1>3, <1>5
  <1>7. ASSUME NEW n \in S, Cardinality(Lower(n)) = i - 1 PROVE n = f + i - 1
    <2> HIDE DEF Lower
    <2>1. n \in f .. f + k
      BY <1>4, <1>7
    <2> QED
      BY <1>3, <1>7, <2>1
  <1>8. Nth(S, i) = f + i - 1
    BY <1>5, <1>6, <1>7 DEF Nth
  <1> QED
    BY <1>1, <1>2, <1>8

\* The bars that follow one another from an instant on.
RunOfBars(rows, symbol, frame, from, steps) ==
    [i \in 1 .. steps |->
        Latest({row \in RowsOf(rows, symbol, from) :
                    BarOf(row, frame) = from \div Interval[frame] + i - 1}).close]

\* As long as a row follows at every tick, the first bars are those of the ticks from
\* the first row on, as many as are asked for.
LEMMA BarsOfRun ==
    ASSUME NEW rows, IsFiniteSet(rows), NEW symbol, NEW frame, NEW from \in Nat,
           NEW steps \in Nat, Interval[frame] \in Nat \ {0},
           \A row \in rows : row.at \in Nat,
           from .. from + steps * Interval[frame] \subseteq TicksOf(rows, symbol)
    PROVE  Bars(rows, symbol, frame, from, steps) = RunOfBars(rows, symbol, frame, from, steps)
  <1> DEFINE d == Interval[frame]
             first == from \div d
             later == RowsOf(rows, symbol, from)
             bars == {BarOf(row, frame) : row \in later}
  <1>1. \A row \in later : /\ row.at \in Nat /\ row.at >= from
                           /\ BarOf(row, frame) \in Nat /\ BarOf(row, frame) >= first
    BY QuotientsGrow DEF RowsOf, BarOf
  <1>2. bars \in SUBSET Nat /\ \A n \in bars : first <= n
    BY <1>1
  <1>3. IsFiniteSet(bars)
    <2> DEFINE bar == [row \in later |-> BarOf(row, frame)]
    <2>1. IsFiniteSet(later)
      BY FS_Subset DEF RowsOf
    <2>2. IsFiniteSet({bar[row] : row \in later})
      BY <2>1, ImageIsFinite
    <2>3. {bar[row] : row \in later} = bars
      OBVIOUS
    <2> QED
      BY <2>2, <2>3
  <1>4. ASSUME NEW n \in first .. first + steps
        PROVE  n \in bars
    <2> DEFINE at == IF n = first THEN from ELSE n * d
    <2>1. first \in Nat /\ first * d <= from /\ from < first * d + d
      BY Quotient
    <2>2. n \in Nat /\ n <= first + steps /\ steps * d \in Nat /\ n * d \in Nat
      BY <2>1, ProductIsNatural
    <2>3. at \in from .. from + steps * d
      <3>1. CASE n = first
        BY <2>2, <3>1
      <3>2. CASE n # first
        <4>1. first + 1 <= n /\ first + 1 \in Nat /\ first + steps \in Nat
          BY <2>1, <2>2, <3>2
        <4>2. (first + 1) * d <= n * d /\ n * d <= (first + steps) * d
          BY <2>2, <4>1, ProductsGrow
        <4>3. (first + 1) * d = first * d + d /\ (first + steps) * d = first * d + steps * d
          BY <2>1
        <4>4. first * d \in Nat
          BY <2>1, ProductIsNatural
        <4> QED
          BY <2>1, <2>2, <3>2, <4>2, <4>3, <4>4
      <3> QED
        BY <3>1, <3>2
    <2>4. at \div d = n
      <3>1. (n * d) \div d = n
        BY <2>2
      <3> QED
        BY <3>1
    <2>5. PICK row \in rows : row.symbol = symbol /\ row.at = at
      BY <2>3 DEF TicksOf, RowsOf
    <2>6. row \in later /\ BarOf(row, frame) = n
      BY <2>3, <2>4, <2>5 DEF RowsOf, BarOf
    <2> QED
      BY <2>6
  <1>5. first \in Nat /\ first .. first + steps \subseteq bars
    BY <1>4, Quotient
  <1> HIDE DEF bars
  <1>6. \A i \in 1 .. steps : Nth(bars, i) = first + i - 1
    BY <1>2, <1>3, <1>5, NthOfRun
  <1>7. Cardinality(bars) \in Nat /\ Cardinality(bars) >= steps
    <2>1. Cardinality(first .. first + steps) = steps + 1
      BY <1>5, FS_Interval
    <2>2. Cardinality(first .. first + steps) <= Cardinality(bars)
      BY <1>3, <1>5, FS_Subset
    <2> QED
      BY <1>3, <2>1, <2>2, FS_CardinalityType
  <1>8. Min({steps, Cardinality(bars)}) = steps
    BY <1>7, Smallest
  <1>9. Bars(rows, symbol, frame, from, steps) =
            [i \in 1 .. Min({steps, Cardinality(bars)}) |->
                Latest({row \in later : BarOf(row, frame) = Nth(bars, i)}).close]
    BY DEF Bars, bars
  <1> HIDE DEF later, first
  <1>10. Bars(rows, symbol, frame, from, steps) =
            [i \in 1 .. steps |->
                Latest({row \in later : BarOf(row, frame) = first + i - 1}).close]
    BY <1>6, <1>8, <1>9
  <1> QED
    BY <1>10 DEF later, first, RunOfBars

-----------------------------------------------------------------------------
\* The tables hold rows at ticks.
LEMMA TableRows ==
    ASSUME NEW t \in 1 .. Len(Tables)
    PROVE  /\ IsFiniteSet(Tables[t])
           /\ \A row \in Tables[t] : row.at \in Nat
           /\ \A symbol : TicksOf(Tables[t], symbol) \in SUBSET Nat
  BY SessionAssumption DEF TicksOf, RowsOf

\* There is a row at or before an instant, and one after so many bars of time.
HasRoom(rows, symbol, from, steps) ==
    /\ from \in Nat
    /\ \E first, last \in TicksOf(rows, symbol) :
           first <= from /\ from + steps * Interval[Frame] <= last

SameBars(t, u, symbol, from, steps) ==
    Bars(Tables[t], symbol, Frame, from, steps) = Bars(Tables[u], symbol, Frame, from, steps)

HasNoGaps(ticks) == \A first, last \in ticks : first .. last \subseteq ticks

\* Between the first and the last row that a symbol without gaps had when a series was
\* selected there is one at every tick, then and ever after.
LEMMA BarsAreSettled ==
    ASSUME SeriesAreSelected,
           NEW t \in 1 .. Len(Tables), NEW u \in 1 .. Len(Tables), t <= u,
           NEW symbol, HasNoGaps(TicksOf(Tables[u], symbol)),
           NEW from, NEW steps \in Nat, HasRoom(Tables[t], symbol, from, steps)
    PROVE  /\ from \in TicksOf(Tables[u], symbol)
           /\ SameBars(t, u, symbol, from, steps)
           /\ Len(Bars(Tables[u], symbol, Frame, from, steps)) = steps
  <1> DEFINE d == Interval[Frame]
             run == from .. from + steps * d
  <1> PICK first \in TicksOf(Tables[t], symbol), last \in TicksOf(Tables[t], symbol) :
              from \in Nat /\ first <= from /\ from + steps * Interval[Frame] <= last
    BY DEF HasRoom
  <1>0. d \in Nat \ {0}
    BY DEF SeriesAreSelected
  <1>1. first \in Nat /\ last \in Nat /\ steps * d \in Nat
    BY <1>0, TableRows, ProductIsNatural
  <1>2. PICK row \in Tables[t] : row.symbol = symbol /\ row.at = last
    BY DEF TicksOf, RowsOf
  <1>3. TicksOf(Tables[t], symbol) \subseteq TicksOf(Tables[u], symbol)
    BY DEF SeriesAreSelected, TicksOf, RowsOf
  <1>4. \A tick \in first .. last : tick \in TicksOf(Tables[u], symbol)
    BY <1>3 DEF HasNoGaps
  <1>5. ASSUME NEW other \in Tables[u], other.symbol = symbol, other.at <= last
        PROVE  other \in Tables[t]
    <2>1. other \notin Tables[t] => last < other.at
      BY <1>2, <1>5 DEF SeriesAreSelected
    <2>2. other.at \in Nat
      BY TableRows
    <2> QED
      BY <1>1, <1>5, <2>1, <2>2
  <1>6. \A tick \in run : tick \in first .. last
    <2> DEFINE end == from + steps * d
    <2>1. end \in Nat /\ end <= last
      <3>1. end \in Nat
        BY <1>1
      <3>2. end <= last
        OBVIOUS
      <3> QED
        BY <3>1, <3>2
    <2> HIDE DEF end
    <2>2. \A tick \in from .. end : tick \in first .. last
      BY <1>1, <2>1
    <2> QED
      BY <2>2 DEF end
  <1>7. run \subseteq TicksOf(Tables[u], symbol)
    BY <1>4, <1>6
  <1>8. run \subseteq TicksOf(Tables[t], symbol)
    <2> SUFFICES ASSUME NEW tick \in run PROVE tick \in TicksOf(Tables[t], symbol)
      OBVIOUS
    <2>1. PICK other \in Tables[u] : other.symbol = symbol /\ other.at = tick
      BY <1>7 DEF TicksOf, RowsOf
    <2>2. tick \in Nat /\ tick <= last
      BY <1>1
    <2> QED
      BY <1>5, <2>1, <2>2 DEF TicksOf, RowsOf
  <1> DEFINE bar(rows, i) == {other \in RowsOf(rows, symbol, from) :
                                  BarOf(other, Frame) = from \div d + i - 1}
  <1>9. ASSUME NEW i \in 1 .. steps
        PROVE  bar(Tables[t], i) = bar(Tables[u], i)
    <2>1. from \div d \in Nat
      BY <1>0, Quotient
    <2>2. ASSUME NEW other \in bar(Tables[u], i) PROVE other \in Tables[t]
      <3>1. other \in Tables[u] /\ other.symbol = symbol /\ other.at \in Nat
        BY TableRows DEF RowsOf
      <3>2. other.at \div d = from \div d + i - 1
        BY DEF RowsOf, BarOf
      <3>3. other.at \div d < from \div d + steps
        BY <2>1, <3>2
      <3>4. other.at < from + steps * d
        BY <1>0, <3>1, <3>3, BarsAhead
      <3>5. steps * d \in Nat /\ from + steps * d <= last
        BY <1>1
      <3>6. other.at <= last
        BY <1>1, <3>1, <3>4, <3>5
      <3> QED
        BY <1>5, <3>1, <3>6
    <2>3. Tables[t] \subseteq Tables[u]
      BY DEF SeriesAreSelected
    <2> QED
      BY <2>2, <2>3 DEF RowsOf
  <1>10. ASSUME NEW v \in {t, u}
         PROVE  Bars(Tables[v], symbol, Frame, from, steps)
                    = [i \in 1 .. steps |-> Latest(bar(Tables[v], i)).close]
    <2>1. run \subseteq TicksOf(Tables[v], symbol) /\ v \in 1 .. Len(Tables)
      BY <1>7, <1>8
    <2> DEFINE rows == Tables[v]
    <2>2. /\ IsFiniteSet(rows) /\ \A other \in rows : other.at \in Nat
          /\ from .. from + steps * Interval[Frame] \subseteq TicksOf(rows, symbol)
      BY <2>1, TableRows
    <2> HIDE DEF rows
    <2>3. Bars(rows, symbol, Frame, from, steps) = RunOfBars(rows, symbol, Frame, from, steps)
      BY <1>0, <2>2, BarsOfRun
    <2> QED
      BY <2>3 DEF rows, RunOfBars
  <1>11. [i \in 1 .. steps |-> Latest(bar(Tables[t], i)).close]
            = [i \in 1 .. steps |-> Latest(bar(Tables[u], i)).close]
    <2> HIDE DEF bar
    <2> QED
      BY <1>9
  <1>12. Len([i \in 1 .. steps |-> Latest(bar(Tables[u], i)).close]) = steps
    <2> HIDE DEF bar
    <2> QED
      OBVIOUS
  <1>13. from \in run
    BY <1>1
  <1> QED
    BY <1>7, <1>10, <1>11, <1>12, <1>13 DEF SameBars

LEMMA TicksAreFinite ==
    ASSUME NEW t \in 1 .. Len(Tables), NEW symbol
    PROVE  IsFiniteSet(TicksOf(Tables[t], symbol))
  <1> DEFINE all == RowsOf(Tables[t], symbol, 0)
             at == [row \in all |-> row.at]
  <1>1. IsFiniteSet(all)
    BY TableRows, FS_Subset DEF RowsOf
  <1>2. {at[row] : row \in all} = TicksOf(Tables[t], symbol)
    BY DEF TicksOf
  <1>3. DOMAIN at = all /\ at = [row \in all |-> at[row]]
    OBVIOUS
  <1> HIDE DEF all, at
  <1>4. IsFiniteSet({at[row] : row \in all})
    BY <1>1, <1>3, ImageIsFinite
  <1> QED
    BY <1>2, <1>4

LEMMA Extremes ==
    ASSUME NEW S \in SUBSET Nat, IsFiniteSet(S), S # {}
    PROVE  Min(S) \in S /\ Max(S) \in S
  <1>1. PICK n \in S : \A m \in S : n <= m
    BY SmallestExists
  <1>2. PICK top \in S : \A m \in S : m <= top
    BY LargestExists
  <1>3. \A m \in S : top >= m
    BY <1>2
  <1>4. Max(S) \in S
    BY <1>3, Zenon DEF Max
  <1>5. Min(S) \in S
    BY <1>1, Zenon DEF Min
  <1> QED
    BY <1>4, <1>5

\* The draws of a seed are in their ranges.
DrawsAreInRange ==
    \A seed \in Seeds, k \in {1, 2}, n \in Nat : Draw(seed, k, n) \in 0 .. n

\* A start that is selected leaves the bars room.
LEMMA StartsHaveRoom ==
    ASSUME SeriesAreSelected, DrawsAreInRange, NEW t \in 1 .. Len(Tables), NEW symbol,
           NEW steps \in Nat \ {0}, NEW seed \in Seeds, NEW k \in {1, 2},
           NEW from \in Starts(DateRange(Tables[t], symbol), Frame, steps, seed, k)
    PROVE  HasRoom(Tables[t], symbol, from, steps)
  <1> DEFINE ticks == TicksOf(Tables[t], symbol)
             range == DateRange(Tables[t], symbol)
             latest == range.last - steps * Span[Frame]
  <1>1. /\ Span[Frame] \in Nat \ {0} /\ DayTicks \in Nat \ {0}
        /\ Interval[Frame] \in Nat \ {0} /\ Interval[Frame] <= Span[Frame]
    BY DEF SeriesAreSelected
  <1>2. steps * Interval[Frame] <= steps * Span[Frame] /\ steps * Interval[Frame] \in Nat
    BY <1>1, ProductsGrow, ProductIsNatural
  <1>3. steps * Span[Frame] \in Nat /\ steps * Span[Frame] > 0
    BY <1>1, ProductIsNatural
  <1>4. ticks \in SUBSET Nat /\ IsFiniteSet(ticks)
    BY TableRows, TicksAreFinite
  <1>5. /\ ~ (latest < range.first)
        /\ from = range.first + DayTicks * Draw(seed, k, (latest - range.first) \div DayTicks)
    BY DEF Starts, Duration
  <1> HIDE DEF ticks
  <1>6. range = IF ticks = {} THEN [first |-> 0, last |-> 0]
                ELSE [first |-> Min(ticks), last |-> Max(ticks)]
    BY DEF DateRange, ticks
  <1> HIDE DEF range
  <1>7. ticks # {}
    BY <1>3, <1>5, <1>6
  <1>8. range.first \in ticks /\ range.last \in ticks
    BY <1>4, <1>6, <1>7, Extremes
  <1>9. range.first \in Nat /\ range.last \in Nat /\ latest \in Nat /\ range.first <= latest
    <2>1. range.first \in Nat /\ range.last \in Nat
      BY <1>4, <1>8
    <2> DEFINE length == steps * Span[Frame]
    <2>2. length \in Nat /\ ~ (range.last - length < range.first)
      BY <1>3, <1>5
    <2> HIDE DEF length
    <2>3. range.last - length \in Nat /\ range.first <= range.last - length
      BY <2>1, <2>2
    <2> QED
      BY <2>1, <2>3 DEF length
  <1> DEFINE width == latest - range.first
             drawn == Draw(seed, k, width \div DayTicks)
  <1>10. width \in Nat /\ range.first + width = latest
    BY <1>9
  <1>11. from = range.first + DayTicks * drawn
    BY <1>5
  <1> HIDE DEF latest, width
  <1>12. width \div DayTicks \in Nat /\ (width \div DayTicks) * DayTicks <= width
    BY <1>1, <1>10, Quotient
  <1>13. drawn \in 0 .. width \div DayTicks
    BY <1>12 DEF DrawsAreInRange
  <1> HIDE DEF drawn
  <1>14. DayTicks * drawn \in Nat /\ DayTicks * drawn <= width
    <2>1. drawn \in Nat /\ drawn <= width \div DayTicks
      BY <1>12, <1>13
    <2>2. drawn * DayTicks <= (width \div DayTicks) * DayTicks
      BY <1>1, <1>12, <2>1, ProductsGrow
    <2>3. DayTicks * drawn = drawn * DayTicks /\ DayTicks * drawn \in Nat
      BY <1>1, <2>1, ProductIsNatural
    <2>4. (width \div DayTicks) * DayTicks \in Nat
      BY <1>1, <1>12, ProductIsNatural
    <2> QED
      BY <1>10, <1>12, <2>2, <2>3, <2>4
  <1>15. from \in Nat /\ range.first <= from /\ from <= latest
    BY <1>9, <1>10, <1>11, <1>14
  <1>16. latest + steps * Span[Frame] = range.last
    BY <1>3, <1>9 DEF latest
  <1>17. from + steps * Interval[Frame] <= range.last
    BY <1>2, <1>3, <1>9, <1>15, <1>16
  <1> QED
    BY <1>8, <1>15, <1>17 DEF HasRoom, ticks

-----------------------------------------------------------------------------
(* The series that sessions replay                                         *)

\* A method has a series that is settled, or none.
SettledMethod(m) == m.source = "historical" => m.prices = <<>> \/ IsSettled(m)

SettledSession(s) == s # Absent => SettledMethod(s.params.method)

SettledWalk(w) ==
    w # NoWalk /\ w.params.method.source = "historical" => IsSettled(w.params.method)

SettledRequest(r) ==
    /\ pc[r] = "merge" /\ call[r].change.method # Keep => SettledMethod(call[r].change.method)
    /\ pc[r] = "read" /\ call[r].op \in {"patch", "put"} => SettledMethod(params[r].method)
    /\ SettledSession(copy[r])
    /\ SettledWalk(walk[r])
    /\ pc[r] = "prices" =>
           \E t \in 1 .. table :
               HasRoom(Tables[t], pick[r].symbol, pick[r].start, copy[r].params.steps)

SettledInvariant ==
    /\ SettledSession(session)
    /\ \A p \in Replicas : SettledWalk(walks[p])
    /\ \A r \in Requests : SettledRequest(r)

Selecting == SeriesAreSelected /\ DrawsAreInRange

\* A fetched series is settled.
LEMMA FetchedSeriesIsSettled ==
    ASSUME Selecting, NEW t \in 1 .. Len(Tables), NEW u \in 1 .. Len(Tables), t <= u,
           NEW symbol, NEW from, NEW steps \in Nat, HasRoom(Tables[t], symbol, from, steps)
    PROVE  \A m : /\ m.symbol = symbol
                  /\ m.prices = Bars(Tables[u], symbol, Frame, from, steps)
                  => IsSettled(m)
  <1> DEFINE last == Len(Tables)
             ticks == TicksOf(Tables[last], symbol)
  <1>1. CASE ticks # Min(ticks) .. Max(ticks)
    BY <1>1 DEF IsSettled
  <1>2. last \in 1 .. Len(Tables) /\ u <= last /\ t <= last
    OBVIOUS
  <1>3. HasRoom(Tables[u], symbol, from, steps)
    <2>1. Tables[t] \subseteq Tables[u]
      BY DEF Selecting, SeriesAreSelected
    <2> QED
      BY <2>1 DEF HasRoom, TicksOf, RowsOf
  <1>4. ticks # {}
    <2>1. Tables[u] \subseteq Tables[last]
      BY <1>2 DEF Selecting, SeriesAreSelected
    <2> QED
      BY <1>3, <2>1 DEF HasRoom, TicksOf, RowsOf
  <1>5. ticks \in SUBSET Nat /\ Min(ticks) \in ticks /\ Max(ticks) \in ticks
    <2>1. ticks \in SUBSET Nat /\ IsFiniteSet(ticks)
      BY <1>2, TableRows, TicksAreFinite
    <2> QED
      BY <1>4, <2>1, Extremes
  <1>6. ASSUME ticks = Min(ticks) .. Max(ticks) PROVE HasNoGaps(ticks)
    <2> DEFINE lo == Min(ticks)
               hi == Max(ticks)
    <2>1. lo \in Nat /\ hi \in Nat /\ ticks = lo .. hi
      BY <1>5, <1>6
    <2> HIDE DEF lo, hi, ticks
    <2> QED
      BY <2>1 DEF HasNoGaps
  <1>7. ASSUME HasNoGaps(ticks)
        PROVE  /\ from \in ticks
               /\ SameBars(u, last, symbol, from, steps)
               /\ Len(Bars(Tables[last], symbol, Frame, from, steps)) = steps
    <2>1. SeriesAreSelected
      BY DEF Selecting
    <2> QED
      BY <1>2, <1>3, <1>7, <2>1, BarsAreSettled
  <1>8. CASE ticks = Min(ticks) .. Max(ticks)
    <2>1. /\ from \in ticks
          /\ SameBars(u, last, symbol, from, steps)
          /\ Len(Bars(Tables[last], symbol, Frame, from, steps)) = steps
      BY <1>6, <1>7, <1>8
    <2>2. ASSUME NEW m, m.symbol = symbol,
                 m.prices = Bars(Tables[u], symbol, Frame, from, steps)
          PROVE  IsSettled(m)
      <3>1. m.prices = Bars(Tables[last], symbol, Frame, from, steps) /\ Len(m.prices) = steps
        BY <2>1, <2>2 DEF SameBars
      <3>2. Bars(Tables[last], m.symbol, Frame, from, Len(m.prices)) = m.prices
        BY <2>2, <3>1, Zenon
      <3> QED
        BY <2>1, <2>2, <3>2 DEF IsSettled
    <2> QED
      BY <2>2
  <1> QED
    BY <1>1, <1>8

\* The warehouse is at one of its tables.
LEMMA TableNumber ==
    ASSUME InductiveInvariant
    PROVE  table \in 1 .. Len(Tables) /\ table \in 1 .. table
  <1>1. load \in LoadRecords /\ table \in 1 .. load.tables
    BY SessionAssumption DEF InductiveInvariant, SessionMatchesHistory, TypeOK
  <1>2. load.tables \in 1 .. Len(Tables)
    BY <1>1 DEF LoadRecords
  <1> QED
    BY <1>1, <1>2

\* A step that touches one request has only this one, the stored session and the cached
\* walks to show.
LEMMA SettledStep ==
    ASSUME SettledInvariant, NEW r \in Requests, table' = table,
           SettledSession(session'), \A p \in Replicas : SettledWalk(walks'[p]),
           \A q \in Requests \ {r} : /\ pc'[q] = pc[q]
                                     /\ call'[q] = call[q]
                                     /\ params'[q] = params[q]
                                     /\ copy'[q] = copy[q]
                                     /\ pick'[q] = pick[q]
                                     /\ walk'[q] = walk[q],
           SettledRequest(r)'
    PROVE  SettledInvariant'
  <1>1. ASSUME NEW q \in Requests
        PROVE  SettledRequest(q)'
    <2>1. CASE q = r
      BY <2>1
    <2>2. CASE q # r
      BY <2>2 DEF SettledInvariant, SettledRequest
    <2> QED
      BY <2>1, <2>2
  <1> QED
    BY <1>1 DEF SettledInvariant

\* The same of a request that goes on with what it was asked.
LEMMA SettledDecided ==
    ASSUME InductiveInvariant, SettledInvariant, NEW r \in Requests, NEW l, NEW res,
           Decide(r, l, res), UNCHANGED <<table, call>>,
           SettledSession(session'), \A p \in Replicas : SettledWalk(walks'[p]),
           \A q \in Requests \ {r} : /\ params'[q] = params[q]
                                     /\ copy'[q] = copy[q]
                                     /\ pick'[q] = pick[q]
                                     /\ walk'[q] = walk[q],
           l # "merge",
           l = "read" /\ call[r].op \in {"patch", "put"} => SettledMethod(params'[r].method),
           SettledSession(copy'[r]), SettledWalk(walk'[r]),
           l = "prices" =>
               \E t \in 1 .. table :
                   HasRoom(Tables[t], pick'[r].symbol, pick'[r].start, copy'[r].params.steps)
    PROVE  SettledInvariant'
  <1>1. pc'[r] = l /\ \A q \in Requests \ {r} : pc'[q] = pc[q]
    BY DEF Decide, InductiveInvariant, SessionMatchesHistory, TypeOK
  <1>2. SettledRequest(r)'
    BY <1>1 DEF SettledRequest
  <1> QED
    BY <1>1, <1>2, SettledStep

\* Clients send no prices.
LEMMA AskSettled ==
    ASSUME Selecting, InductiveInvariant, SettledInvariant, NEW r \in Requests, Ask(r),
           table' = table
    PROVE  SettledInvariant'
  <1>1. load \in Loads
    BY DEF InductiveInvariant, SessionMatchesHistory, TypeOK
  <1>2. PICK op, change, expected :
            /\ Invoke(r, op, change, expected)
            /\ op \in {"patch", "put"} /\ change.method # Keep => SettledMethod(change.method)
            /\ op = "put" => SettledMethod(change.method)
    <2>1. \A change \in load.puts : SettledMethod(change.method)
      BY <1>1 DEF Selecting, SeriesAreSelected, SettledMethod
    <2>2. \A change \in load.patches : change.method # Keep => SettledMethod(change.method)
      BY <1>1 DEF Selecting, SeriesAreSelected, SettledMethod
    <2> QED
      BY <2>1, <2>2 DEF Ask
  <1>3. /\ pc' = [pc EXCEPT ![r] = pc'[r]]
        /\ pc'[r] \in {"merge", "delete", "check", "read"}
        /\ pc'[r] = "merge" => op = "patch"
    BY <1>2 DEF Invoke, InductiveInvariant, SessionMatchesHistory, TypeOK
  <1>4. /\ call' = [call EXCEPT ![r] = [op |-> op, change |-> change, expected |-> expected]]
        /\ params' = [params EXCEPT ![r] = IF op = "put" THEN change ELSE NoCall]
        /\ pc'[r] = "read" => op # "patch"
    BY <1>2 DEF Invoke, InductiveInvariant, SessionMatchesHistory, TypeOK
  <1>5. UNCHANGED <<session, walks, copy, pick, walk>>
    BY <1>2 DEF Invoke
  <1>6. /\ call'[r].op = op /\ call'[r].change = change
        /\ op = "put" => params'[r] = change
        /\ \A q \in Requests \ {r} :
               pc'[q] = pc[q] /\ call'[q] = call[q] /\ params'[q] = params[q]
    BY <1>3, <1>4 DEF InductiveInvariant, SessionMatchesHistory, TypeOK
  <1>7. SettledRequest(r)'
    BY <1>2, <1>3, <1>4, <1>5, <1>6 DEF SettledRequest, SettledInvariant
  <1> QED
    BY <1>5, <1>6, <1>7, SettledStep DEF SettledInvariant

LEMMA CheckSettled ==
    ASSUME InductiveInvariant, SettledInvariant, NEW r \in Requests, Check(r), table' = table
    PROVE  SettledInvariant'
  <1>1. PICK l \in {"read", "done"}, res \in Results : Decide(r, l, res)
    BY DEF Check, Results
  <1>2. call[r].op = "advance"
    BY DEF Check, InductiveInvariant, RequestConsistent
  <1> QED
    BY <1>1, <1>2, SettledDecided DEF Check, SettledInvariant, SettledRequest

\* A change is merged into parameters that are settled.
LEMMA MergeSettled ==
    ASSUME InductiveInvariant, SettledInvariant, NEW r \in Requests, Merge(r), table' = table
    PROVE  SettledInvariant'
  <1>1. /\ pc[r] = "merge"
        /\ UNCHANGED <<session, walks, call, copy, pick, walk, log>>
        /\ SettledSession(copy[r]) /\ SettledWalk(walk[r])
    BY DEF Merge, SettledInvariant, SettledRequest
  <1>2. CASE session = Absent
    <2>1. Decide(r, "done", "notFound") /\ UNCHANGED params
      BY <1>2 DEF Merge
    <2> QED
      BY <1>1, <2>1, SettledDecided DEF SettledInvariant
  <1>3. CASE session # Absent
    <2>1. /\ params' = [params EXCEPT ![r] = Apply(call[r].change, session.params)]
          /\ Decide(r, "read", "none")
      BY <1>3 DEF Merge
    <2>2. session.params \in Params /\ SettledMethod(session.params.method)
      BY <1>3 DEF InductiveInvariant, SessionMatchesHistory, TypeOK, Sessions,
                  SettledInvariant, SettledSession
    <2>3. Apply(call[r].change, session.params).method
            = IF call[r].change.method = Keep THEN session.params.method
              ELSE call[r].change.method
      BY <2>2 DEF Apply, Params
    <2>4. params'[r] = Apply(call[r].change, session.params)
          /\ \A q \in Requests \ {r} : params'[q] = params[q]
      BY <2>1 DEF InductiveInvariant, SessionMatchesHistory, TypeOK
    <2>5. SettledMethod(params'[r].method)
      BY <1>1, <2>2, <2>3, <2>4 DEF SettledInvariant, SettledRequest
    <2> QED
      BY <1>1, <2>1, <2>4, <2>5, SettledDecided DEF SettledInvariant
  <1> QED
    BY <1>2, <1>3

\* A copy is the stored session, or what the update makes of it.
LEMMA ReadSettled ==
    ASSUME InductiveInvariant, SettledInvariant, NEW r \in Requests, Read(r), table' = table
    PROVE  SettledInvariant'
  <1>1. /\ UNCHANGED <<session, walks, call, params, pick, walk, log>>
        /\ SettledSession(copy[r]) /\ SettledWalk(walk[r])
    BY DEF Read, SettledInvariant, SettledRequest
  <1>2. PICK l \in {"done", "save", "probe"}, res \in Results : Decide(r, l, res)
    BY DEF Read, Results
  <1>3. /\ copy'[r] \in {copy[r], session, Reinitialized(session, params[r])}
        /\ copy'[r] = Reinitialized(session, params[r]) =>
               copy'[r] \in {copy[r], session} \/ call[r].op \in {"patch", "put"}
        /\ \A q \in Requests \ {r} : copy'[q] = copy[q]
    BY DEF Read, InductiveInvariant, SessionMatchesHistory, TypeOK
  <1>4. call[r].op \in {"patch", "put"} => SettledSession(Reinitialized(session, params[r]))
    BY DEF Read, SettledInvariant, SettledRequest, SettledSession, Reinitialized
  <1>5. SettledSession(copy'[r])
    BY <1>1, <1>3, <1>4 DEF SettledInvariant
  <1> QED
    BY <1>1, <1>2, <1>3, <1>5, SettledDecided DEF SettledInvariant

LEMMA ProbeSettled ==
    ASSUME InductiveInvariant, SettledInvariant, NEW r \in Requests, Probe(r), table' = table
    PROVE  SettledInvariant'
  <1>1. UNCHANGED <<session, call, params, copy, pick, walk>>
    BY DEF Probe
  <1>2. \A p \in Replicas : walks'[p] \in {walks[p], NoWalk}
    BY DEF Probe, InductiveInvariant, SessionMatchesHistory, TypeOK
  <1>3. pc'[r] \in {"build", "serve"} /\ \A q \in Requests \ {r} : pc'[q] = pc[q]
    BY DEF Probe, InductiveInvariant, SessionMatchesHistory, TypeOK
  <1>4. \A p \in Replicas : SettledWalk(walks'[p])
    BY <1>2 DEF SettledInvariant, SettledWalk
  <1>5. SettledRequest(r)'
    BY <1>1, <1>3 DEF SettledRequest, SettledInvariant
  <1> QED
    BY <1>1, <1>3, <1>4, <1>5, SettledStep DEF SettledInvariant

\* A series that is long enough to be replayed is not empty.
LEMMA BuildSettled ==
    ASSUME InductiveInvariant, SettledInvariant, NEW r \in Requests, Build(r), table' = table
    PROVE  SettledInvariant'
  <1> DEFINE p == copy[r].params
             built == [asked |-> p, params |-> p]
  <1>1. /\ UNCHANGED <<session, walks, call, params, copy>>
        /\ SettledSession(copy[r]) /\ SettledWalk(walk[r])
    BY DEF Build, SettledInvariant, SettledRequest
  <1>2. PICK l \in {"symbols", "range", "serve"} : Decide(r, l, "none")
    BY DEF Build
  <1>3. \A q \in Requests \ {r} : pick'[q] = pick[q] /\ walk'[q] = walk[q]
    BY DEF Build, InductiveInvariant, SessionMatchesHistory, TypeOK
  <1>4. walk'[r] = walk[r] \/ (~MustFetch(p) /\ walk'[r] = built)
    BY DEF Build, InductiveInvariant, SessionMatchesHistory, TypeOK
  <1>5. copy[r] # Absent /\ p.steps \in Nat \ {0}
    <2>1. HoldsSession(r)
      BY DEF Build, InductiveInvariant, RequestConsistent, Serving
    <2>2. copy[r] \in Sessions
      BY <2>1 DEF HoldsSession
    <2> QED
      BY <2>2, SessionAssumption DEF Sessions, Params
  <1>6. ASSUME ~MustFetch(p) PROVE SettledWalk(built)
    <2>1. SettledMethod(p.method)
      BY <1>1, <1>5 DEF SettledSession
    <2>2. p.method.source = "historical" => p.method.prices # <<>>
      <3>1. Len(<<>>) = 0
        OBVIOUS
      <3> QED
        BY <1>5, <1>6, <3>1 DEF MustFetch
    <2> QED
      BY <2>1, <2>2 DEF SettledMethod, SettledWalk
  <1> HIDE DEF built
  <1>7. SettledWalk(walk'[r])
    BY <1>1, <1>4, <1>6
  <1> QED
    BY <1>1, <1>2, <1>3, <1>7, SettledDecided DEF SettledInvariant

LEMMA SelectSymbolSettled ==
    ASSUME InductiveInvariant, SettledInvariant, NEW r \in Requests, SelectSymbol(r),
           table' = table
    PROVE  SettledInvariant'
  <1>1. /\ UNCHANGED <<session, walks, call, params, copy, walk>>
        /\ SettledSession(copy[r]) /\ SettledWalk(walk[r])
    BY DEF SelectSymbol, SettledInvariant, SettledRequest
  <1>2. \A q \in Requests \ {r} : pick'[q] = pick[q]
    BY DEF SelectSymbol, InductiveInvariant, SessionMatchesHistory, TypeOK
  <1>3. Decide(r, "range", "none")
    BY DEF SelectSymbol
  <1>4. call[r].op \in {"advance", "peek"}
    BY DEF SelectSymbol, InductiveInvariant, RequestConsistent, Serving, HoldsSession
  <1> QED
    BY <1>1, <1>2, <1>3, <1>4, SettledDecided DEF SettledInvariant

\* The start of a series is selected with room for its steps in the table at that time.
LEMMA SelectStartSettled ==
    ASSUME Selecting, InductiveInvariant, SettledInvariant, NEW r \in Requests, SelectStart(r),
           table' = table
    PROVE  SettledInvariant'
  <1> DEFINE p == copy[r].params
             range == DateRange(Tables[table], pick[r].symbol)
             draw == IF p.method.symbol = NoSymbol THEN 2 ELSE 1
  <1>1. /\ UNCHANGED <<session, walks, call, params, copy, walk>>
        /\ SettledSession(copy[r]) /\ SettledWalk(walk[r])
    BY DEF SelectStart, SettledInvariant, SettledRequest
  <1>2. PICK start \in Starts(range, Frame, p.steps, p.seed, draw) :
            pick' = [pick EXCEPT ![r] = [symbol |-> pick[r].symbol, start |-> start]]
    BY DEF SelectStart
  <1>3. /\ pick'[r] = [symbol |-> pick[r].symbol, start |-> start]
        /\ \A q \in Requests \ {r} : pick'[q] = pick[q]
    BY <1>2 DEF InductiveInvariant, SessionMatchesHistory, TypeOK
  <1>4. Decide(r, "prices", "none")
    BY DEF SelectStart
  <1>5. p.steps \in Nat \ {0} /\ p.seed \in Seeds
    <2>1. HoldsSession(r)
      BY DEF SelectStart, InductiveInvariant, RequestConsistent, Serving
    <2>2. copy[r] \in Sessions
      BY <2>1 DEF HoldsSession
    <2> QED
      BY <2>2, SessionAssumption DEF Sessions, Params
  <1>6. table \in 1 .. Len(Tables) /\ table \in 1 .. table
    BY TableNumber
  <1>7. HasRoom(Tables[table], pick[r].symbol, start, p.steps)
    <2>1. draw \in {1, 2} /\ SeriesAreSelected /\ DrawsAreInRange
      BY DEF Selecting
    <2> HIDE DEF draw, p
    <2> QED
      BY <1>2, <1>5, <1>6, <2>1, StartsHaveRoom
  <1>8. \E t \in 1 .. table :
            HasRoom(Tables[t], pick'[r].symbol, pick'[r].start, copy'[r].params.steps)
    BY <1>1, <1>3, <1>6, <1>7
  <1> QED
    BY <1>1, <1>3, <1>4, <1>8, SettledDecided DEF SettledInvariant

\* The prices that are fetched from there are settled, although rows may have been added.
LEMMA FetchPricesSettled ==
    ASSUME Selecting, InductiveInvariant, SettledInvariant, NEW r \in Requests, FetchPrices(r),
           table' = table
    PROVE  SettledInvariant'
  <1> DEFINE p == copy[r].params
             prices == Bars(Tables[table], pick[r].symbol, Frame, pick[r].start, p.steps)
             fetched == Resolved(p, pick[r].symbol, prices)
  <1>1. /\ UNCHANGED <<session, walks, call, params, copy>>
        /\ SettledSession(copy[r])
    BY DEF FetchPrices, SettledInvariant, SettledRequest
  <1>2. /\ walk'[r] = [asked |-> p, params |-> fetched]
        /\ \A q \in Requests \ {r} : pick'[q] = pick[q] /\ walk'[q] = walk[q]
    BY DEF FetchPrices, InductiveInvariant, SessionMatchesHistory, TypeOK
  <1>3. Decide(r, "serve", "none")
    BY DEF FetchPrices
  <1>4. copy[r] \in Sessions /\ p.steps \in Nat
    <2>1. HoldsSession(r)
      BY DEF FetchPrices, InductiveInvariant, RequestConsistent, Serving
    <2>2. copy[r] \in Sessions
      BY <2>1 DEF HoldsSession
    <2> QED
      BY <2>2, SessionAssumption DEF Sessions, Params
  <1>5. table \in 1 .. Len(Tables)
    BY TableNumber
  <1>6. PICK t \in 1 .. table :
            HasRoom(Tables[t], pick[r].symbol, pick[r].start, p.steps)
    BY DEF FetchPrices, SettledInvariant, SettledRequest
  <1>7. t \in 1 .. Len(Tables) /\ t <= table
    BY <1>5
  <1>8. IsSettled(fetched.method)
    <2>1. \A m : m.symbol = pick[r].symbol /\ m.prices = prices => IsSettled(m)
      BY <1>4, <1>5, <1>6, <1>7, FetchedSeriesIsSettled
    <2>2. p \in Params
      BY <1>4 DEF Sessions
    <2> HIDE DEF prices, p
    <2>3. fetched.method = [source |-> "historical", prices |-> prices, symbol |-> pick[r].symbol]
      BY <2>2 DEF Resolved, Params
    <2> QED
      BY <2>1, <2>3
  <1>9. SettledWalk(walk'[r])
    <2> HIDE DEF fetched
    <2> QED
      BY <1>2, <1>8 DEF SettledWalk
  <1>10. call[r].op \in {"advance", "peek"}
    BY DEF FetchPrices, InductiveInvariant, RequestConsistent, Serving, HoldsSession
  <1> QED
    BY <1>1, <1>2, <1>3, <1>9, <1>10, SettledDecided DEF SettledInvariant

LEMMA FailToBuildSettled ==
    ASSUME InductiveInvariant, SettledInvariant, NEW r \in Requests, FailToBuild(r),
           table' = table
    PROVE  SettledInvariant'
  <1>1. /\ UNCHANGED <<session, walks, call, params, copy, walk>>
        /\ SettledSession(copy[r]) /\ SettledWalk(walk[r])
    BY DEF FailToBuild, SettledInvariant, SettledRequest
  <1>2. \A q \in Requests \ {r} : pick'[q] = pick[q]
    BY DEF FailToBuild, InductiveInvariant, SessionMatchesHistory, TypeOK
  <1>3. Decide(r, "done", "failed")
    BY DEF FailToBuild
  <1> QED
    BY <1>1, <1>2, <1>3, SettledDecided DEF SettledInvariant

\* A session is served from a walk of a settled series, and keeps its method or takes the walk's.
LEMMA ServeSettled ==
    ASSUME InductiveInvariant, SettledInvariant, NEW r \in Requests, Serve(r), table' = table
    PROVE  SettledInvariant'
  <1> DEFINE e == Entry(r)
             s == WithMethodOf(e, copy[r])
  <1>1. /\ UNCHANGED <<session, call, params, pick>>
        /\ SettledSession(copy[r]) /\ SettledWalk(walk[r])
    BY DEF Serve, SettledInvariant, SettledRequest
  <1>2. Home[r] \in Replicas /\ copy[r] \in Sessions
    BY SessionAssumption
       DEF Serve, InductiveInvariant, RequestConsistent, Serving, HoldsSession
  <1>3. SettledWalk(e)
    BY <1>1, <1>2 DEF Entry, SettledInvariant
  <1>4. PICK l \in {"done", "save"}, res \in Results : Decide(r, l, res)
    BY DEF Serve, Results
  <1>5. /\ copy'[r] \in {copy[r], s, Advanced(s)}
        /\ copy'[r] # copy[r] => e # NoWalk
        /\ walk'[r] \in {walk[r], e}
        /\ \A q \in Requests \ {r} : copy'[q] = copy[q] /\ walk'[q] = walk[q]
        /\ \A p \in Replicas : walks'[p] \in {walks[p], e}
    BY DEF Serve, InductiveInvariant, SessionMatchesHistory, TypeOK
  <1>6. e # NoWalk => SettledMethod(s.params.method)
    <2>1. s.params.method \in {copy[r].params.method, e.params.method}
      BY <1>2 DEF WithMethodOf, Sessions, Params
    <2>2. SettledMethod(copy[r].params.method)
      BY <1>1, <1>2, SessionAssumption DEF SettledSession
    <2> HIDE DEF e, s
    <2>3. e # NoWalk => SettledMethod(e.params.method)
      BY <1>3 DEF SettledWalk, SettledMethod
    <2> QED
      BY <2>1, <2>2, <2>3
  <1>7. Advanced(s).params = s.params
    BY <1>2 DEF Advanced, WithMethodOf, Sessions
  <1>8. SettledSession(copy'[r])
    <2> HIDE DEF e, s
    <2> QED
      BY <1>1, <1>5, <1>6, <1>7 DEF SettledSession
  <1>9. SettledWalk(walk'[r]) /\ \A p \in Replicas : SettledWalk(walks'[p])
    <2> HIDE DEF e
    <2> QED
      BY <1>1, <1>3, <1>5 DEF SettledInvariant
  <1> QED
    BY <1>1, <1>4, <1>5, <1>8, <1>9, SettledDecided DEF SettledInvariant

LEMMA SaveSettled ==
    ASSUME InductiveInvariant, SettledInvariant, NEW r \in Requests, Save(r), table' = table
    PROVE  SettledInvariant'
  <1>1. /\ UNCHANGED <<walks, call, params, copy, pick, walk>>
        /\ SettledSession(copy[r]) /\ SettledWalk(walk[r])
    BY DEF Save, SettledInvariant, SettledRequest
  <1>2. PICK l \in {"done", "forget"}, res \in Results : Decide(r, l, res)
    BY DEF Save, Write, Results
  <1>3. session' \in {session, copy[r]}
    BY DEF Save, Write
  <1>4. SettledSession(session')
    BY <1>1, <1>3 DEF SettledInvariant
  <1> QED
    BY <1>1, <1>2, <1>4, SettledDecided DEF SettledInvariant

LEMMA DeleteSettled ==
    ASSUME InductiveInvariant, SettledInvariant, NEW r \in Requests, Delete(r), table' = table
    PROVE  SettledInvariant'
  <1>1. /\ UNCHANGED <<walks, call, params, copy, pick, walk>> /\ session' = Absent
        /\ SettledSession(copy[r]) /\ SettledWalk(walk[r])
    BY DEF Delete, SettledInvariant, SettledRequest
  <1>2. PICK res \in Results : Decide(r, "forget", res)
    BY DEF Delete, Results
  <1>3. SettledSession(session')
    BY <1>1 DEF SettledSession
  <1> QED
    BY <1>1, <1>2, <1>3, SettledDecided DEF SettledInvariant

\* Requests whose slots become free, walks that are dropped and a session that goes
\* leave nothing to show.
LEMMA LossKeepsSettled ==
    ASSUME InductiveInvariant, SettledInvariant, session' \in {session, Absent},
           \A p \in Replicas : walks'[p] \in {walks[p], NoWalk},
           table' \in {table, table + 1},
           \A r \in Requests :
               \/ pc'[r] = "idle" /\ copy'[r] = Absent /\ walk'[r] = NoWalk
               \/ /\ pc'[r] \in {pc[r], "done"} /\ call'[r] = call[r] /\ params'[r] = params[r]
                  /\ copy'[r] = copy[r] /\ pick'[r] = pick[r] /\ walk'[r] = walk[r]
    PROVE  SettledInvariant'
  <1>1. SettledSession(session')
    BY DEF SettledInvariant, SettledSession
  <1>2. \A p \in Replicas : SettledWalk(walks'[p])
    BY DEF SettledInvariant, SettledWalk
  <1>3. ASSUME NEW r \in Requests
        PROVE  SettledRequest(r)'
    <2>1. SettledRequest(r)
      BY DEF SettledInvariant
    <2>2. CASE pc'[r] = "idle" /\ copy'[r] = Absent /\ walk'[r] = NoWalk
      BY <2>2 DEF SettledRequest, SettledSession, SettledWalk
    <2>3. CASE /\ pc'[r] \in {pc[r], "done"} /\ call'[r] = call[r] /\ params'[r] = params[r]
               /\ copy'[r] = copy[r] /\ pick'[r] = pick[r] /\ walk'[r] = walk[r]
      <3>1. \A t \in 1 .. table : t \in 1 .. table'
        BY TableNumber
      <3> QED
        BY <2>1, <2>3, <3>1 DEF SettledRequest
    <2> QED
      BY <2>2, <2>3
  <1> QED
    BY <1>1, <1>2, <1>3 DEF SettledInvariant

LEMMA CreateSettled ==
    ASSUME Selecting, InductiveInvariant, SettledInvariant, NEW p \in load.puts, Create(p),
           table' = table
    PROVE  SettledInvariant'
  <1>1. load \in Loads
    BY DEF InductiveInvariant, SessionMatchesHistory, TypeOK
  <1>2. SettledMethod(p.method)
    BY <1>1 DEF Selecting, SeriesAreSelected, SettledMethod
  <1>3. SettledSession(session')
    BY <1>2 DEF Create, NewSession, SettledSession
  <1>4. UNCHANGED <<walks, pc, call, params, copy, pick, walk>>
    BY DEF Create
  <1>5. \A r \in Requests : SettledRequest(r)'
    BY <1>4 DEF SettledInvariant, SettledRequest
  <1> QED
    BY <1>3, <1>4, <1>5 DEF SettledInvariant

LEMMA SettledInitially == Init => SettledInvariant
  BY DEF Init, SettledInvariant, SettledSession, SettledWalk, SettledRequest

LEMMA SettledPreserved ==
    Selecting /\ InductiveInvariant /\ SettledInvariant /\ [Next]_vars => SettledInvariant'
  <1> SUFFICES ASSUME Selecting, InductiveInvariant, SettledInvariant, [Next]_vars
               PROVE  SettledInvariant'
    OBVIOUS
  <1>1. CASE UNCHANGED vars
    BY <1>1, LossKeepsSettled DEF vars
  <1>2. CASE Grow
    BY <1>2, LossKeepsSettled DEF Grow
  <1>3. CASE ServiceStep /\ table' = table
    <2>1. ASSUME NEW p \in load.puts, Create(p) PROVE SettledInvariant'
      BY <1>3, <2>1, CreateSettled
    <2>2. ASSUME NEW r \in Requests, Ask(r) PROVE SettledInvariant'
      BY <1>3, <2>2, AskSettled
    <2>3. ASSUME NEW r \in Requests, Forget(r) PROVE SettledInvariant'
      <3>1. /\ UNCHANGED <<session, call, params, copy, pick, walk>>
            /\ \A q \in Requests : pc'[q] \in {pc[q], "done"}
            /\ \A p \in Replicas : walks'[p] \in {walks[p], NoWalk}
        BY <2>3 DEF Forget, InductiveInvariant, SessionMatchesHistory, TypeOK
      <3> QED
        BY <1>3, <3>1, LossKeepsSettled
    <2>4. ASSUME NEW r \in Requests, RequestStep(r) PROVE SettledInvariant'
      BY <1>3, <2>3, <2>4, CheckSettled, MergeSettled, ReadSettled, ProbeSettled, BuildSettled,
         SelectSymbolSettled, SelectStartSettled, FetchPricesSettled, FailToBuildSettled,
         ServeSettled, SaveSettled, DeleteSettled DEF RequestStep
    <2>5. ASSUME NEW R, Free(R), session' = session,
                 \A p \in Replicas : walks'[p] \in {walks[p], NoWalk}
          PROVE  SettledInvariant'
      <3>1. \A r \in Requests :
               \/ pc'[r] = "idle" /\ copy'[r] = Absent /\ walk'[r] = NoWalk
               \/ /\ pc'[r] \in {pc[r], "done"} /\ call'[r] = call[r] /\ params'[r] = params[r]
                  /\ copy'[r] = copy[r] /\ pick'[r] = pick[r] /\ walk'[r] = walk[r]
        BY <2>5 DEF Free
      <3> QED
        BY <1>3, <2>5, <3>1, LossKeepsSettled
    <2>6. ASSUME NEW r \in Requests, Return(r) \/ Cancel(r) PROVE SettledInvariant'
      BY <2>5, <2>6 DEF Return, Cancel
    <2>7. ASSUME NEW p \in Replicas, Drop(p) PROVE SettledInvariant'
      <3>1. \A q \in Replicas : walks'[q] \in {walks[q], NoWalk}
        BY <2>7 DEF Drop, InductiveInvariant, SessionMatchesHistory, TypeOK
      <3> QED
        BY <1>3, <2>7, <3>1, LossKeepsSettled DEF Drop
    <2>8. ASSUME NEW p \in Replicas, Crash(p) PROVE SettledInvariant'
      <3>1. \A q \in Replicas : walks'[q] \in {walks[q], NoWalk}
        BY <2>8 DEF Crash, InductiveInvariant, SessionMatchesHistory, TypeOK
      <3> QED
        BY <2>5, <2>8, <3>1 DEF Crash
    <2>9. ASSUME Lapse PROVE SettledInvariant'
      BY <1>3, <2>9, LossKeepsSettled DEF Lapse
    <2> QED
      BY <1>3, <2>1, <2>2, <2>4, <2>6, <2>7, <2>8, <2>9 DEF ServiceStep
  <1> QED
    BY <1>1, <1>2, <1>3 DEF Next

\* Whatever is requested at the same time, updated, evicted, lost or built again, every
\* series that is replayed is settled, as long as the table grows in the order of time
\* and the bars are no longer than the steps (get_historical_data, select_random_date).
THEOREM SeriesSettle == Spec => [](Selecting => SeriesIsSettled)
  <1>1. (Selecting => SettledInvariant) /\ InductiveInvariant /\ [Next]_vars
            => (Selecting => SettledInvariant)'
    <2>1. Selecting' <=> Selecting
      BY DEF Selecting, SeriesAreSelected, DrawsAreInRange
    <2> QED
      BY <2>1, SettledPreserved
  <1>2. (Selecting => SettledInvariant) => (Selecting => SeriesIsSettled)
    BY DEF SettledInvariant, SettledRequest, SettledWalk, SeriesIsSettled
  <1> QED
    BY <1>1, <1>2, SettledInitially, Invariance, PTL DEF Spec
=============================================================================
