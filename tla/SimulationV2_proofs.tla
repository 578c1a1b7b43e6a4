------------------------ MODULE SimulationV2_proofs -------------------------
(***************************************************************************)
(* Proofs about SimulationV2, for any number of simulations, replicas and  *)
(* requests: the inductive invariant, the safety properties that follow    *)
(* from it, and the implementation of SimulationCursor.                    *)
(***************************************************************************)
EXTENDS SimulationV2, TLAPS

\* What an advance writes is a document, one step and one revision further on.
LEMMA AdvancedDocument ==
    ASSUME NEW s \in Sims, NEW d \in Docs
    PROVE  /\ Advanced(s, d) \in Docs
           /\ Advanced(s, d).current_step = d.current_step + 1
           /\ Advanced(s, d).version = d.version + 1
  BY DEF Advanced, Docs

\* An advance that starts before the horizon writes a document validate accepts.
LEMMA AdvancedValidates ==
    ASSUME NEW s \in Sims, NEW d \in Docs, d.current_step < Steps[s]
    PROVE  Validates(s, Advanced(s, d))
  BY ParameterAssumption DEF Advanced, Docs, Validates

\* The initial states satisfy the inductive invariant.
LEMMA InitInvariant == Init => InductiveInvariant
  <1> SUFFICES ASSUME Init PROVE InductiveInvariant
    OBVIOUS
  <1>1. TypeOK
    BY DEF Init, TypeOK, Labels, Results
  <1>2. DocumentMatchesHistory
    BY DEF Init, DocumentMatchesHistory
  <1>3. EachStepConsumedOnce
    <2>1. \A s \in Sims : served[s] = <<>> /\ Steps[s] \in Nat
      BY ParameterAssumption DEF Init
    <2>2. Len(<<>>) = 0
      OBVIOUS
    <2>3. \A s \in Sims : Len(served[s]) = 0
      BY <2>1, <2>2
    <2>4. ASSUME NEW s \in Sims
          PROVE  /\ Len(served[s]) <= Steps[s]
                 /\ \A i \in 1 .. Len(served[s]) : served[s][i].step = i - 1
      BY <2>1, <2>3
    <2> QED
      BY <2>4 DEF EachStepConsumedOnce
  <1>4. UnissuedIsBlank
    BY DEF Init, UnissuedIsBlank
  <1>5. RequestsConsistent
    BY DEF Init, RequestsConsistent, RequestIdle
  <1> QED
    BY <1>1, <1>2, <1>3, <1>4, <1>5 DEF InductiveInvariant

\* A step that touches request r alone, and neither the store nor the history,
\* has only r's own consistency to re-establish.
LEMMA LocalStep ==
    ASSUME InductiveInvariant, TypeOK',
           NEW r \in Requests,
           UNCHANGED <<store, issued, served>>,
           \A q \in Requests \ {r} : /\ pc'[q] = pc[q]
                                     /\ call'[q] = call[q]
                                     /\ doc'[q] = doc[q]
                                     /\ result'[q] = result[q],
           IF pc'[r] = "idle" THEN RequestIdle(r)' ELSE RequestActive(r)'
    PROVE  InductiveInvariant'
  <1>1. DocumentMatchesHistory' /\ EachStepConsumedOnce' /\ UnissuedIsBlank'
    BY DEF InductiveInvariant, DocumentMatchesHistory, EachStepConsumedOnce,
           UnissuedIsBlank, Validates
  <1>2. ASSUME NEW q \in Requests
        PROVE  (IF pc[q] = "idle" THEN RequestIdle(q) ELSE RequestActive(q))'
    <2>1. CASE q = r
      BY <2>1
    <2>2. CASE q # r
      BY <2>2 DEF InductiveInvariant, RequestsConsistent, RequestIdle,
                  RequestActive, HoldsDocument, OwnsCommit
    <2> QED
      BY <2>1, <2>2
  <1>3. RequestsConsistent'
    BY <1>2 DEF RequestsConsistent
  <1> QED
    BY <1>1, <1>3 DEF InductiveInvariant

-----------------------------------------------------------------------------
(* One lemma per action                                                    *)

\* Creating a simulation under a fresh id keeps the invariant.
LEMMA CreateStep ==
    ASSUME InductiveInvariant, NEW s \in Sims, Create(s)
    PROVE  InductiveInvariant'
  <1> USE DEF Create, InductiveInvariant
  <1>1. NewDoc \in Docs /\ NewDoc # Absent
    BY ParameterAssumption DEF NewDoc, Docs
  <1>2. TypeOK'
    BY <1>1 DEF TypeOK
  <1>3. served[s] = <<>> /\ served' = served
    BY DEF UnissuedIsBlank
  <1>4. DocumentMatchesHistory'
    BY <1>1, <1>3 DEF DocumentMatchesHistory, TypeOK, NewDoc, Validates
  <1>5. EachStepConsumedOnce'
    BY <1>3 DEF EachStepConsumedOnce
  <1>6. UnissuedIsBlank'
    BY <1>3 DEF UnissuedIsBlank, TypeOK
  <1>7. RequestsConsistent'
    BY <1>3 DEF RequestsConsistent, RequestIdle, RequestActive, HoldsDocument,
                OwnsCommit, TypeOK
  <1> QED
    BY <1>2, <1>4, <1>5, <1>6, <1>7

\* A new request starts with nothing read and nothing decided.
LEMMA InvokeStep ==
    ASSUME InductiveInvariant, NEW r \in Requests,
           NEW op \in {"advance", "peek", "delete"}, NEW s \in Sims,
           NEW expected \in (0 .. Steps[s]) \cup {NoStep},
           Invoke(r, op, s, expected)
    PROVE  InductiveInvariant'
  <1> USE DEF Invoke, InductiveInvariant
  <1>1. Len(served[s]) \in Nat /\ expected \in Nat \cup {NoStep}
    BY ParameterAssumption DEF TypeOK
  <1>2. call'[r] = [op |-> op, sim |-> s, expected |-> expected,
                    start |-> Len(served[s]),
                    arrival |-> IF store[s] = Absent THEN "removed" ELSE "stored"]
    BY DEF TypeOK
  <1>3. call'[r] \in Calls
    BY <1>1, <1>2 DEF Calls
  <1>4. pc'[r] \in {"delete", "check", "read"}
    BY DEF TypeOK
  <1>5. TypeOK'
    BY <1>2, <1>3, <1>4 DEF TypeOK, Labels
  <1>6. result'[r] = "none"
    BY DEF RequestsConsistent, RequestIdle
  <1>7. RequestActive(r)'
    BY <1>1, <1>2, <1>3, <1>4, <1>6 DEF RequestActive, HoldsDocument, OwnsCommit
  <1>8. \A q \in Requests \ {r} : pc'[q] = pc[q] /\ call'[q] = call[q]
                                 /\ doc'[q] = doc[q] /\ result'[q] = result[q]
    BY DEF TypeOK
  <1> QED
    BY <1>4, <1>5, <1>7, <1>8, LocalStep

\* The expected_step precondition decides its own request and no more.
LEMMA CheckStep ==
    ASSUME InductiveInvariant, NEW r \in Requests, Check(r)
    PROVE  InductiveInvariant'
  <1> USE DEF Check, Decide, InductiveInvariant
  <1>1. RequestActive(r) /\ result[r] = "none"
    BY DEF RequestsConsistent, RequestActive
  <1>2. TypeOK'
    BY DEF TypeOK, Labels, Results
  <1>3. RequestActive(r)' /\ pc'[r] # "idle"
    BY <1>1 DEF RequestActive, HoldsDocument, OwnsCommit, TypeOK
  <1>4. \A q \in Requests \ {r} : pc'[q] = pc[q] /\ call'[q] = call[q]
                                 /\ doc'[q] = doc[q] /\ result'[q] = result[q]
    BY DEF TypeOK
  <1> QED
    BY <1>2, <1>3, <1>4, LocalStep

\* What the manager reads is the stored document, below its horizon.
LEMMA ReadStep ==
    ASSUME InductiveInvariant, NEW r \in Requests, Read(r)
    PROVE  InductiveInvariant'
  <1> USE DEF Read, Decide, InductiveInvariant
  <1> DEFINE s == call[r].sim
  <1>1. RequestActive(r) /\ result[r] = "none" /\ s \in Sims
    BY DEF RequestsConsistent, RequestActive, Calls
  <1>2. TypeOK'
    BY <1>1 DEF TypeOK, Labels, Results
  <1>3. \A q \in Requests \ {r} : pc'[q] = pc[q] /\ call'[q] = call[q]
                                 /\ doc'[q] = doc[q] /\ result'[q] = result[q]
    BY DEF TypeOK
  <1>4. RequestActive(r)' /\ pc'[r] # "idle"
    <2>1. CASE store[s] = Absent \/ Terminal(s, store[s])
      BY <1>1, <2>1 DEF RequestActive, HoldsDocument, OwnsCommit, TypeOK
    <2>2. CASE store[s] # Absent /\ ~Terminal(s, store[s])
      <3>1. /\ pc'[r] = "lookup" /\ result'[r] = "none" /\ doc'[r] = store[s]
            /\ call' = call /\ served' = served /\ store' = store /\ issued' = issued
        BY <2>2 DEF TypeOK
      <3>2. /\ store[s] \in Docs
            /\ store[s].version = Len(served[s])
            /\ store[s].current_step = Len(served[s])
        BY <1>1, <2>2 DEF TypeOK, DocumentMatchesHistory
      <3>3. Steps[s] \in Nat /\ Len(served[s]) \in Nat
        BY <1>1, ParameterAssumption DEF TypeOK
      <3>4. call[r].arrival = "stored" /\ call[r].start <= Len(served[s])
        BY <1>1, <2>2 DEF RequestActive, Calls
      <3>5. HoldsDocument(r)'
        BY <2>2, <3>1, <3>2, <3>3, <3>4
           DEF HoldsDocument, Terminal, IsComplete, Docs
      <3> QED
        BY <1>1, <3>1, <3>4, <3>5 DEF RequestActive
    <2> QED
      BY <2>1, <2>2
  <1> QED
    BY <1>2, <1>3, <1>4, LocalStep

\* What holding a snapshot decides keeps a request that holds its document
\* consistent.
LEMMA HaveSnapshotStep ==
    ASSUME InductiveInvariant, NEW r \in Requests,
           pc[r] \in {"lookup", "build"},
           HaveSnapshot(r),
           UNCHANGED <<store, index, issued, sweeping, call, doc, served>>,
           snapshots' \in [Replicas -> SUBSET (Sims \X Nat)]
    PROVE  InductiveInvariant'
  <1> USE DEF HaveSnapshot, Decide, InductiveInvariant
  <1>1. /\ RequestActive(r) /\ result[r] = "none" /\ HoldsDocument(r)
        /\ call[r] \in Calls
    BY DEF RequestsConsistent, RequestActive
  <1>2. TypeOK'
    BY DEF TypeOK, Labels, Results
  <1>3. \A q \in Requests \ {r} : pc'[q] = pc[q] /\ call'[q] = call[q]
                                 /\ doc'[q] = doc[q] /\ result'[q] = result[q]
    BY DEF TypeOK
  <1>4. HoldsDocument(r)'
    BY <1>1 DEF HoldsDocument
  <1>5. \/ call[r].op = "peek" /\ pc'[r] = "done" /\ result'[r] = "served"
        \/ call[r].op # "peek" /\ pc'[r] = "commit" /\ result'[r] = "none"
    BY DEF TypeOK
  <1>6. call[r].op \in {"advance", "peek"}
    BY <1>1 DEF RequestActive, Calls
  <1>7. RequestActive(r)' /\ pc'[r] # "idle"
    BY <1>1, <1>4, <1>5, <1>6 DEF RequestActive, HoldsDocument
  <1> QED
    BY <1>2, <1>3, <1>7, LocalStep

\* The cache lookup keeps the invariant, hit or miss.
LEMMA LookupStep ==
    ASSUME InductiveInvariant, NEW r \in Requests, Lookup(r)
    PROVE  InductiveInvariant'
  <1> USE DEF Lookup
  <1>1. CASE Key(r) \in snapshots[Home[r]]
    <2>1. HaveSnapshot(r) /\ pc[r] = "lookup"
      BY <1>1
    <2>2. snapshots' \in [Replicas -> SUBSET (Sims \X Nat)]
      BY DEF InductiveInvariant, TypeOK
    <2> QED
      BY <2>1, <2>2, HaveSnapshotStep
  <1>2. CASE Key(r) \notin snapshots[Home[r]]
    <2> USE <1>2 DEF Decide, InductiveInvariant
    <2>1. RequestActive(r) /\ result[r] = "none" /\ HoldsDocument(r)
      BY DEF RequestsConsistent, RequestActive
    <2>2. TypeOK'
      BY DEF TypeOK, Labels, Results
    <2>3. RequestActive(r)' /\ pc'[r] # "idle"
      BY <2>1 DEF RequestActive, HoldsDocument, TypeOK
    <2>4. \A q \in Requests \ {r} : pc'[q] = pc[q] /\ call'[q] = call[q]
                                   /\ doc'[q] = doc[q] /\ result'[q] = result[q]
      BY DEF TypeOK
    <2> QED
      BY <2>2, <2>3, <2>4, LocalStep
  <1> QED
    BY <1>1, <1>2

\* Building and caching a snapshot keeps the invariant.
LEMMA BuildStep ==
    ASSUME InductiveInvariant, NEW r \in Requests, Build(r)
    PROVE  InductiveInvariant'
  <1> USE DEF Build
  <1>1. HoldsDocument(r) /\ call[r] \in Calls
    BY DEF InductiveInvariant, RequestsConsistent, RequestActive
  <1>2. Key(r) \in Sims \X Nat
    BY <1>1 DEF Key, HoldsDocument, Calls, Docs
  <1>3. snapshots' \in [Replicas -> SUBSET (Sims \X Nat)]
    BY <1>2 DEF InductiveInvariant, TypeOK
  <1> QED
    BY <1>3, HaveSnapshotStep

\* A failed build decides its own request and no more.
LEMMA BuildFailsStep ==
    ASSUME InductiveInvariant, NEW r \in Requests, BuildFails(r)
    PROVE  InductiveInvariant'
  <1> USE DEF BuildFails, Decide, InductiveInvariant
  <1>1. RequestActive(r) /\ result[r] = "none" /\ HoldsDocument(r)
    BY DEF RequestsConsistent, RequestActive
  <1>2. TypeOK'
    BY DEF TypeOK, Labels, Results
  <1>3. RequestActive(r)' /\ pc'[r] # "idle"
    BY <1>1 DEF RequestActive, HoldsDocument, TypeOK
  <1>4. \A q \in Requests \ {r} : pc'[q] = pc[q] /\ call'[q] = call[q]
                                 /\ doc'[q] = doc[q] /\ result'[q] = result[q]
    BY DEF TypeOK
  <1> QED
    BY <1>2, <1>3, <1>4, LocalStep

\* Appending a commit extends a simulation's history and keeps what it holds.
LEMMA AppendCommit ==
    ASSUME NEW h \in Seq(Commits), NEW c \in Commits
    PROVE  /\ Append(h, c) \in Seq(Commits)
           /\ Len(Append(h, c)) = Len(h) + 1
           /\ \A i \in 1 .. Len(h) : Append(h, c)[i] = h[i]
           /\ Append(h, c)[Len(h) + 1] = c
  OBVIOUS

\* A commit that loses (the document is gone, or its revision moved) only
\* decides the request.
LEMMA CommitRefused ==
    ASSUME InductiveInvariant, NEW r \in Requests, Commit(r),
           \/ store[call[r].sim] = Absent
           \/ store[call[r].sim].version # doc[r].version
    PROVE  InductiveInvariant'
  <1> USE DEF Commit, Write, Decide, InductiveInvariant
  <1> DEFINE s == call[r].sim
  <1>1. /\ RequestActive(r) /\ result[r] = "none" /\ HoldsDocument(r)
        /\ pc[r] = "commit" /\ call[r] \in Calls /\ s \in Sims
    BY DEF RequestsConsistent, RequestActive, Calls
  <1>2. /\ UNCHANGED <<store, index, served, issued, snapshots, sweeping, call, doc>>
        /\ pc' = [pc EXCEPT ![r] = "done"]
        /\ \/ store[s] = Absent /\ result' = [result EXCEPT ![r] = "notFound"]
           \/ /\ store[s] # Absent /\ store[s].version # doc[r].version
              /\ result' = [result EXCEPT ![r] = "conflict"]
    OBVIOUS
  <1>3. TypeOK'
    BY <1>2 DEF TypeOK, Labels, Results
  <1>4. \A q \in Requests \ {r} : pc'[q] = pc[q] /\ call'[q] = call[q]
                                 /\ doc'[q] = doc[q] /\ result'[q] = result[q]
    BY <1>2 DEF TypeOK
  <1>5. pc'[r] = "done" /\ result'[r] \in {"notFound", "conflict"}
    BY <1>2 DEF TypeOK
  <1>6. HoldsDocument(r)'
    BY <1>1, <1>2 DEF HoldsDocument
  <1>7. result'[r] = "conflict" => doc[r].current_step < Len(served[s])
    <2> SUFFICES ASSUME result'[r] = "conflict"
                 PROVE  doc[r].current_step < Len(served[s])
      OBVIOUS
    <2>1. store[s] # Absent /\ store[s].version # doc[r].version
      BY <1>2 DEF TypeOK
    <2>2. store[s].version = Len(served[s])
      BY <1>1, <2>1 DEF DocumentMatchesHistory
    <2>3. Len(served[s]) \in Nat /\ doc[r].current_step \in Nat
      BY <1>1 DEF TypeOK, HoldsDocument, Docs
    <2> QED
      BY <1>1, <2>1, <2>2, <2>3 DEF HoldsDocument
  <1>8. RequestActive(r)'
    BY <1>1, <1>2, <1>5, <1>6, <1>7 DEF RequestActive, HoldsDocument
  <1> QED
    BY <1>2, <1>3, <1>4, <1>5, <1>8, LocalStep

\* A commit that wins: the stored document was still the one the request read,
\* so its cursor is exactly the length of the history it extends.
LEMMA CommitWins ==
    ASSUME InductiveInvariant, NEW r \in Requests, Commit(r),
           store[call[r].sim] # Absent,
           store[call[r].sim].version = doc[r].version
    PROVE  InductiveInvariant'
  <1> USE DEF Commit, Write, Decide, InductiveInvariant
  <1> DEFINE s == call[r].sim
             new == Advanced(s, doc[r])
             mine == [step |-> doc[r].current_step, by |-> r]
  <1>1. /\ RequestActive(r) /\ HoldsDocument(r) /\ pc[r] = "commit"
        /\ call[r] \in Calls /\ s \in Sims /\ s \in issued /\ doc[r] \in Docs
        /\ call[r].op = "advance" /\ call[r].arrival = "stored"
    BY DEF RequestsConsistent, RequestActive, Calls, HoldsDocument
  <1>2. /\ store' = [store EXCEPT ![s] = new]
        /\ index' = index \cup {s}
        /\ served' = [served EXCEPT ![s] = Append(@, mine)]
        /\ pc' = [pc EXCEPT ![r] = IF new.state = "Completed" THEN "evict" ELSE "done"]
        /\ result' = [result EXCEPT ![r] = "served"]
        /\ UNCHANGED <<issued, snapshots, sweeping, call, doc>>
        /\ Validates(s, new)
    OBVIOUS
  <1> HIDE DEF Commit, Write, Decide
  <1>3. /\ new \in Docs /\ new # Absent
        /\ new.current_step = doc[r].current_step + 1
        /\ new.version = doc[r].version + 1
    BY <1>1, AdvancedDocument, ParameterAssumption
  <1> HIDE DEF new
  <1>4. /\ doc[r].current_step = Len(served[s])
        /\ doc[r].version = Len(served[s])
        /\ Len(served[s]) \in Nat /\ Len(served[s]) < Steps[s]
        /\ Steps[s] \in Nat
    <2>1. store[s].version = Len(served[s])
      BY <1>1 DEF DocumentMatchesHistory
    <2>2. Len(served[s]) \in Nat /\ Steps[s] \in Nat
      BY <1>1, ParameterAssumption DEF TypeOK
    <2> QED
      BY <1>1, <2>1, <2>2 DEF HoldsDocument
  <1>5. mine \in Commits /\ mine.step = Len(served[s]) /\ mine.by = r
    BY <1>1, <1>4 DEF Commits, Docs
  <1> HIDE DEF mine
  <1>6. /\ served'[s] \in Seq(Commits)
        /\ Len(served'[s]) = Len(served[s]) + 1
        /\ \A i \in 1 .. Len(served[s]) : served'[s][i] = served[s][i]
        /\ served'[s][Len(served[s]) + 1] = mine
    <2>1. served[s] \in Seq(Commits) /\ served'[s] = Append(served[s], mine)
      BY <1>1, <1>2 DEF TypeOK
    <2> QED
      BY <1>5, <2>1, AppendCommit
  <1>7. \A u \in Sims \ {s} : served'[u] = served[u] /\ store'[u] = store[u]
    BY <1>2 DEF TypeOK
  <1>8. store'[s] = new
    BY <1>1, <1>2 DEF TypeOK
  <1>9. pc'[r] \in {"evict", "done"} /\ result'[r] = "served"
    BY <1>2 DEF TypeOK
  <1>10. TypeOK'
    <2>1. served' \in [Sims -> Seq(Commits)]
      BY <1>2, <1>6, <1>7 DEF TypeOK
    <2>2. store' \in [Sims -> Docs \cup {Absent}]
      BY <1>2, <1>3 DEF TypeOK
    <2>3. pc' \in [Requests -> Labels] /\ result' \in [Requests -> Results]
      BY <1>2 DEF TypeOK, Labels, Results
    <2>4. index' \in SUBSET Sims
      BY <1>1, <1>2 DEF TypeOK
    <2> QED
      BY <1>2, <2>1, <2>2, <2>3, <2>4 DEF TypeOK
  <1>11. DocumentMatchesHistory'
    <2> SUFFICES ASSUME NEW u \in Sims, store'[u] # Absent
                 PROVE  /\ store'[u].current_step = Len(served'[u])
                        /\ store'[u].version = Len(served'[u])
                        /\ Validates(u, store'[u])
      BY DEF DocumentMatchesHistory, Validates
    <2>1. CASE u = s
      BY <1>2, <1>3, <1>4, <1>6, <1>8, <2>1
    <2>2. CASE u # s
      BY <1>7, <2>2 DEF DocumentMatchesHistory
    <2> QED
      BY <2>1, <2>2
  <1>12. EachStepConsumedOnce'
    <2> SUFFICES ASSUME NEW u \in Sims
                 PROVE  /\ Len(served'[u]) <= Steps[u]
                        /\ \A i \in 1 .. Len(served'[u]) : served'[u][i].step = i - 1
      BY DEF EachStepConsumedOnce
    <2>1. CASE u = s
      <3>1. Len(served'[s]) <= Steps[s]
        BY <1>4, <1>6
      <3>2. ASSUME NEW i \in 1 .. Len(served'[s])
            PROVE  served'[s][i].step = i - 1
        <4>1. CASE i = Len(served[s]) + 1
          BY <1>4, <1>5, <1>6, <4>1
        <4>2. CASE i # Len(served[s]) + 1
          <5>1. i \in 1 .. Len(served[s])
            BY <1>4, <1>6, <4>2
          <5> QED
            BY <1>1, <1>6, <5>1 DEF EachStepConsumedOnce
        <4> QED
          BY <4>1, <4>2
      <3> QED
        BY <2>1, <3>1, <3>2
    <2>2. CASE u # s
      BY <1>7, <2>2 DEF EachStepConsumedOnce
    <2> QED
      BY <2>1, <2>2
  <1>13. UnissuedIsBlank'
    BY <1>1, <1>2, <1>7 DEF UnissuedIsBlank
  <1>14. \A u \in Sims : /\ Len(served[u]) \in Nat /\ Len(served'[u]) \in Nat
                         /\ Len(served[u]) <= Len(served'[u])
                         /\ \A i \in 1 .. Len(served[u]) : served'[u][i] = served[u][i]
    <2>1. \A u \in Sims : Len(served[u]) \in Nat /\ Len(served'[u]) \in Nat
      BY <1>10 DEF TypeOK
    <2> QED
      BY <1>6, <1>7, <2>1
  <1>15. RequestActive(r)'
    <2>1. HoldsDocument(r)'
      BY <1>1, <1>2, <1>4, <1>6 DEF HoldsDocument
    <2>2. OwnsCommit(r)'
      BY <1>2, <1>4, <1>5, <1>6 DEF OwnsCommit
    <2>3. call[r].start <= Len(served'[s])
      BY <1>1, <1>4, <1>6 DEF HoldsDocument, Calls
    <2> QED
      BY <1>1, <1>2, <1>9, <2>1, <2>2, <2>3 DEF RequestActive
  <1>16. ASSUME NEW q \in Requests, q # r
         PROVE  (IF pc[q] = "idle" THEN RequestIdle(q) ELSE RequestActive(q))'
    <2>1. pc'[q] = pc[q] /\ result'[q] = result[q] /\ call' = call /\ doc' = doc
          /\ issued' = issued
      BY <1>2, <1>16 DEF TypeOK
    <2>2. CASE pc[q] = "idle"
      BY <2>1, <2>2 DEF RequestsConsistent, RequestIdle
    <2>3. CASE pc[q] # "idle"
      <3> DEFINE u == call[q].sim
      <3>1. RequestActive(q) /\ call[q] \in Calls /\ u \in Sims /\ call[q].start \in Nat
        BY <2>3 DEF RequestsConsistent, RequestActive, Calls
      <3>2. call[q].arrival = "removed" => store'[u] = Absent
        BY <1>7, <3>1 DEF RequestActive
      <3>3. HoldsDocument(q) => HoldsDocument(q)'
        BY <1>14, <2>1, <3>1 DEF HoldsDocument, Docs
      <3>4. HoldsDocument(q) /\ OwnsCommit(q) => OwnsCommit(q)'
        <4> SUFFICES ASSUME HoldsDocument(q), OwnsCommit(q) PROVE OwnsCommit(q)'
          OBVIOUS
        <4>1. /\ doc[q].current_step \in Nat
              /\ doc[q].current_step + 1 \in 1 .. Len(served[u])
          BY <1>14, <3>1 DEF HoldsDocument, OwnsCommit, Docs
        <4>2. served'[u][doc[q].current_step + 1] = served[u][doc[q].current_step + 1]
          BY <1>14, <3>1, <4>1
        <4>3. doc[q].current_step < Len(served'[u])
          BY <1>14, <3>1, <4>1
        <4> QED
          BY <2>1, <4>2, <4>3 DEF OwnsCommit
      <3>5. HoldsDocument(q) /\ doc[q].current_step < Len(served[u])
              => doc[q].current_step < Len(served'[u])
        BY <1>14, <3>1 DEF HoldsDocument, Docs
      <3>6. call[q].start <= Len(served'[u])
        BY <1>14, <3>1 DEF RequestActive
      <3> QED
        BY <2>1, <2>3, <3>1, <3>2, <3>3, <3>4, <3>5, <3>6 DEF RequestActive
    <2> QED
      BY <2>2, <2>3
  <1>17. RequestsConsistent'
    BY <1>9, <1>15, <1>16 DEF RequestsConsistent
  <1> QED
    BY <1>10, <1>11, <1>12, <1>13, <1>17

\* A commit keeps the invariant, refused or not.
LEMMA CommitStep ==
    ASSUME InductiveInvariant, NEW r \in Requests, Commit(r)
    PROVE  InductiveInvariant'
  BY CommitRefused, CommitWins

\* Removing documents, and nothing else a request depends on, keeps the
\* invariant: what a request holds it read earlier.
LEMMA Removal ==
    ASSUME InductiveInvariant, TypeOK',
           UNCHANGED <<issued, served>>,
           \A s \in Sims : store'[s] \in {store[s], Absent}
    PROVE  /\ DocumentMatchesHistory' /\ EachStepConsumedOnce' /\ UnissuedIsBlank'
           /\ \A q \in Requests :
                 (/\ pc'[q] = pc[q] /\ call'[q] = call[q]
                  /\ doc'[q] = doc[q] /\ result'[q] = result[q])
                 => (IF pc[q] = "idle" THEN RequestIdle(q) ELSE RequestActive(q))'
  <1> USE DEF InductiveInvariant
  <1>1. DocumentMatchesHistory'
    BY DEF DocumentMatchesHistory, Validates
  <1>2. EachStepConsumedOnce' /\ UnissuedIsBlank'
    BY DEF EachStepConsumedOnce, UnissuedIsBlank
  <1>3. ASSUME NEW q \in Requests, pc'[q] = pc[q], call'[q] = call[q],
               doc'[q] = doc[q], result'[q] = result[q]
        PROVE  (IF pc[q] = "idle" THEN RequestIdle(q) ELSE RequestActive(q))'
    <2>1. CASE pc[q] = "idle"
      BY <1>3, <2>1 DEF RequestsConsistent, RequestIdle
    <2>2. CASE pc[q] # "idle"
      <3>1. RequestActive(q) /\ call[q].sim \in Sims
        BY <2>2 DEF RequestsConsistent, RequestActive, Calls
      <3> QED
        BY <1>3, <2>2, <3>1 DEF RequestActive, HoldsDocument, OwnsCommit
    <2> QED
      BY <2>1, <2>2
  <1> QED
    BY <1>1, <1>2, <1>3

\* A delete removes the document and leaves the history alone.
LEMMA DeleteStep ==
    ASSUME InductiveInvariant, NEW r \in Requests, Delete(r)
    PROVE  InductiveInvariant'
  <1> USE DEF Delete, Decide, InductiveInvariant
  <1>1. /\ RequestActive(r) /\ result[r] = "none" /\ pc[r] = "delete"
        /\ call[r] \in Calls /\ call[r].sim \in Sims
    BY DEF RequestsConsistent, RequestActive, Calls
  <1>2. TypeOK'
    BY <1>1 DEF TypeOK, Labels, Results
  <1>3. \A s \in Sims : store'[s] \in {store[s], Absent}
    BY DEF TypeOK
  <1>4. \A q \in Requests \ {r} : pc'[q] = pc[q] /\ call'[q] = call[q]
                                 /\ doc'[q] = doc[q] /\ result'[q] = result[q]
    BY DEF TypeOK
  <1>5. /\ pc'[r] = "evict"
        /\ store'[call[r].sim] = Absent
        /\ result'[r] = IF store[call[r].sim] = Absent THEN "notFound" ELSE "deleted"
    BY <1>1 DEF TypeOK
  <1>6. RequestActive(r)'
    BY <1>1, <1>5 DEF RequestActive
  <1>7. RequestsConsistent'
    BY <1>2, <1>3, <1>4, <1>5, <1>6, Removal DEF RequestsConsistent
  <1> QED
    BY <1>2, <1>3, <1>7, Removal

\* An eviction ends its request and touches the cache only.
LEMMA EvictStep ==
    ASSUME InductiveInvariant, NEW r \in Requests, Evict(r)
    PROVE  InductiveInvariant'
  <1> USE DEF Evict, InductiveInvariant
  <1>1. RequestActive(r)
    BY DEF RequestsConsistent
  <1>2. TypeOK'
    BY DEF TypeOK, Labels
  <1>3. \A q \in Requests \ {r} : pc'[q] = pc[q] /\ call'[q] = call[q]
                                 /\ doc'[q] = doc[q] /\ result'[q] = result[q]
    BY DEF TypeOK
  <1>4. RequestActive(r)' /\ pc'[r] # "idle"
    BY <1>1 DEF RequestActive, HoldsDocument, OwnsCommit, TypeOK
  <1> QED
    BY <1>2, <1>3, <1>4, LocalStep

\* Freeing request slots, whatever the reason, loses nothing: the store and the
\* history are not touched.
LEMMA FreeStep ==
    ASSUME InductiveInvariant, NEW R \in SUBSET Requests, Free(R),
           UNCHANGED <<store, index, issued, served>>,
           snapshots' \in [Replicas -> SUBSET (Sims \X Nat)],
           sweeping' \in [Replicas -> SUBSET Sims]
    PROVE  InductiveInvariant'
  <1> USE DEF Free, InductiveInvariant
  <1>1. TypeOK'
    BY DEF TypeOK, Labels, Results
  <1>2. \A q \in Requests \ R : pc'[q] = pc[q] /\ call'[q] = call[q]
                               /\ doc'[q] = doc[q] /\ result'[q] = result[q]
    BY DEF TypeOK
  <1>3. \A q \in R : pc'[q] = "idle" /\ RequestIdle(q)'
    BY DEF RequestIdle
  <1>4. RequestsConsistent'
    BY <1>1, <1>2, <1>3, Removal DEF RequestsConsistent, TypeOK
  <1> QED
    BY <1>1, <1>4, Removal DEF TypeOK

\* Steps that touch neither a request nor the history: they remove documents,
\* or change what is cached, reported or waiting to be evicted.
LEMMA BackgroundStep ==
    ASSUME InductiveInvariant, TypeOK',
           UNCHANGED <<issued, pc, call, doc, result, served>>,
           \A s \in Sims : store'[s] \in {store[s], Absent}
    PROVE  InductiveInvariant'
  <1>1. RequestsConsistent'
    BY Removal DEF RequestsConsistent
  <1> QED
    BY <1>1, Removal DEF InductiveInvariant

\* Every step of the specification keeps the inductive invariant.
LEMMA NextInvariant == InductiveInvariant /\ [Next]_vars => InductiveInvariant'
  <1> SUFFICES ASSUME InductiveInvariant, [Next]_vars PROVE InductiveInvariant'
    OBVIOUS
  <1> USE DEF InductiveInvariant
  <1>1. ASSUME NEW s \in Sims, Create(s) PROVE InductiveInvariant'
    BY <1>1, CreateStep
  <1>2. ASSUME NEW s \in Sims, Lapse(s) PROVE InductiveInvariant'
    <2>1. TypeOK'
      BY <1>2 DEF Lapse, TypeOK
    <2>2. \A u \in Sims : store'[u] \in {store[u], Absent}
      BY <1>2 DEF Lapse, TypeOK
    <2> QED
      BY <1>2, <2>1, <2>2, BackgroundStep DEF Lapse
  <1>3. ASSUME NEW r \in Requests, NEW op \in {"advance", "peek", "delete"},
               NEW s \in Sims, NEW expected \in (0 .. Steps[s]) \cup {NoStep},
               Invoke(r, op, s, expected)
        PROVE  InductiveInvariant'
    BY <1>3, InvokeStep
  <1>4. ASSUME NEW r \in Requests, RequestStep(r) PROVE InductiveInvariant'
    BY <1>4, CheckStep, ReadStep, LookupStep, BuildStep, BuildFailsStep,
       CommitStep, DeleteStep, EvictStep DEF RequestStep
  <1>5. ASSUME NEW r \in Requests, Return(r) \/ Cancel(r) PROVE InductiveInvariant'
    <2>1. /\ Free({r}) /\ {r} \in SUBSET Requests
          /\ UNCHANGED <<store, index, issued, snapshots, sweeping, served>>
      BY <1>5 DEF Return, Cancel
    <2> QED
      BY <2>1, FreeStep DEF TypeOK
  <1>6. ASSUME NEW p \in Replicas, EvictSwept(p) \/ Drop(p) PROVE InductiveInvariant'
    <2>1. TypeOK' /\ store' = store
      BY <1>6 DEF EvictSwept, Drop, TypeOK
    <2> QED
      BY <1>6, <2>1, BackgroundStep DEF EvictSwept, Drop
  <1>7. ASSUME NEW p \in Replicas, Crash(p) PROVE InductiveInvariant'
    <2>1. /\ snapshots' \in [Replicas -> SUBSET (Sims \X Nat)]
          /\ sweeping' \in [Replicas -> SUBSET Sims]
      BY <1>7 DEF Crash, TypeOK
    <2> DEFINE R == {r \in Requests : Home[r] = p}
    <2>2. Free(R) /\ R \in SUBSET Requests
      BY <1>7 DEF Crash
    <2> HIDE DEF R
    <2> QED
      BY <1>7, <2>1, <2>2, FreeStep DEF Crash
  <1>8. ASSUME NEW p \in Replicas, NEW expired \in SUBSET Sims, Sweep(p, expired)
        PROVE  InductiveInvariant'
    <2>1. TypeOK'
      BY <1>8 DEF Sweep, TypeOK
    <2>2. \A u \in Sims : store'[u] \in {store[u], Absent}
      BY <1>8 DEF Sweep
    <2> QED
      BY <1>8, <2>1, <2>2, BackgroundStep DEF Sweep
  <1>9. CASE UNCHANGED vars
    <2>1. TypeOK' /\ store' = store
      BY <1>9 DEF vars, TypeOK
    <2> QED
      BY <1>9, <2>1, BackgroundStep DEF vars
  <1> QED
    BY <1>1, <1>2, <1>3, <1>4, <1>5, <1>6, <1>7, <1>8, <1>9 DEF Next

-----------------------------------------------------------------------------
(* Theorems                                                                *)

\* Every reachable state of the v2 lifecycle satisfies the inductive invariant.
THEOREM Invariance == Spec => []InductiveInvariant
  BY InitInvariant, NextInvariant, PTL DEF Spec

\* Type correctness of the store, the caches, the requests and the history.
THEOREM TypeCorrectness == Spec => []TypeOK
  <1>1. InductiveInvariant => TypeOK
    BY DEF InductiveInvariant
  <1> QED
    BY <1>1, Invariance, PTL

\* save_cas against the revision that was read serves every index of a
\* simulation to exactly one advance, in order, and stops at the horizon.
THEOREM StepsConsumedOnce == Spec => []EachStepConsumedOnce
  <1>1. InductiveInvariant => EachStepConsumedOnce
    BY DEF InductiveInvariant
  <1> QED
    BY <1>1, Invariance, PTL

\* Cursor, revision and lifecycle state of a stored document never drift from
\* the history of commits.
THEOREM DocumentsMatchHistory == Spec => []DocumentMatchesHistory
  <1>1. InductiveInvariant => DocumentMatchesHistory
    BY DEF InductiveInvariant
  <1> QED
    BY <1>1, Invariance, PTL

\* The types and the agreement of documents and history, together.
THEOREM AlwaysWellFormed == Spec => []WellFormed
  <1>1. InductiveInvariant => WellFormed
    BY DEF InductiveInvariant, WellFormed
  <1> QED
    BY <1>1, Invariance, PTL

\* validate never refuses the document an advance writes back.
THEOREM AdvancesPassValidation == Spec => []AdvancePassesValidation
  <1>1. InductiveInvariant => AdvancePassesValidation
    <2> SUFFICES ASSUME InductiveInvariant, NEW r \in Requests, pc[r] = "commit"
                 PROVE  Validates(call[r].sim, Advanced(call[r].sim, doc[r]))
      BY DEF AdvancePassesValidation
    <2>1. HoldsDocument(r) /\ call[r].sim \in Sims
      BY DEF InductiveInvariant, RequestsConsistent, RequestActive, Calls
    <2> QED
      BY <2>1, AdvancedValidates DEF HoldsDocument
  <1> QED
    BY <1>1, Invariance, PTL

\* An advance that answers with a snapshot is the one that consumed its step.
THEOREM AnswersAreOwnCommits == Spec => []AnswerIsOwnCommit
  <1>1. InductiveInvariant => AnswerIsOwnCommit
    <2> SUFFICES ASSUME InductiveInvariant, NEW r \in Requests, call[r] # NoCall,
                        call[r].op = "advance", result[r] = "served"
                 PROVE  /\ doc[r].current_step + 1 <= Len(served[call[r].sim])
                        /\ served[call[r].sim][doc[r].current_step + 1].by = r
      BY DEF AnswerIsOwnCommit
    <2>1. RequestActive(r) /\ call[r].sim \in Sims
      BY DEF InductiveInvariant, RequestsConsistent, RequestIdle, RequestActive, Calls
    <2>2. OwnsCommit(r) /\ doc[r].current_step \in Nat
      BY <2>1 DEF RequestActive, HoldsDocument, Docs
    <2>3. Len(served[call[r].sim]) \in Nat
      BY <2>1 DEF InductiveInvariant, TypeOK
    <2> QED
      BY <2>2, <2>3 DEF OwnsCommit
  <1> QED
    BY <1>1, Invariance, PTL

\* Every conflict is caused by an advance that committed in the meantime.
THEOREM ConflictsMeanProgress == Spec => []ConflictMeansProgress
  <1>1. InductiveInvariant => ConflictMeansProgress
    <2> SUFFICES ASSUME InductiveInvariant, NEW r \in Requests, call[r] # NoCall,
                        result[r] = "conflict"
                 PROVE  doc[r].version < Len(served[call[r].sim])
      BY DEF ConflictMeansProgress
    <2>1. RequestActive(r)
      BY DEF InductiveInvariant, RequestsConsistent, RequestIdle
    <2> QED
      BY <2>1 DEF RequestActive, HoldsDocument
  <1> QED
    BY <1>1, Invariance, PTL

\* The step an answer serves was at the cursor while the request was running.
THEOREM AnswersAreCurrent == Spec => []AnswerIsCurrent
  <1>1. InductiveInvariant => AnswerIsCurrent
    <2> SUFFICES ASSUME InductiveInvariant, NEW r \in Requests, call[r] # NoCall,
                        result[r] = "served"
                 PROVE  doc[r].current_step \in call[r].start .. Len(served[call[r].sim])
      BY DEF AnswerIsCurrent
    <2>1. RequestActive(r) /\ call[r].sim \in Sims /\ call[r].start \in Nat
      BY DEF InductiveInvariant, RequestsConsistent, RequestIdle, RequestActive, Calls
    <2>2. HoldsDocument(r) /\ doc[r].current_step \in Nat
      BY <2>1 DEF RequestActive, HoldsDocument, Docs
    <2>3. Len(served[call[r].sim]) \in Nat
      BY <2>1 DEF InductiveInvariant, TypeOK
    <2> QED
      BY <2>1, <2>2, <2>3 DEF HoldsDocument
  <1> QED
    BY <1>1, Invariance, PTL

\* No cache answers for a simulation that was gone before the request arrived.
THEOREM RemovedIsNotServed == Spec => []NothingServedAfterRemoval
  <1>1. InductiveInvariant => NothingServedAfterRemoval
    BY DEF InductiveInvariant, RequestsConsistent, RequestIdle, RequestActive,
           NothingServedAfterRemoval
  <1> QED
    BY <1>1, Invariance, PTL

-----------------------------------------------------------------------------
(* The store only ever moves forward: what a step does to one document     *)

LEMMA StoreEvolves ==
    ASSUME InductiveInvariant, [Next]_vars, NEW s \in Sims
    PROVE  \/ store'[s] = store[s]
           \/ store'[s] = Absent
           \/ s \notin issued /\ store[s] = Absent
           \/ store[s] # Absent /\ store'[s] # Absent
  <1> USE DEF InductiveInvariant, TypeOK
  <1>1. ASSUME NEW u \in Sims, Create(u) \/ Lapse(u)
        PROVE  \/ store'[s] = store[s]
               \/ store'[s] = Absent
               \/ s \notin issued /\ store[s] = Absent
    BY <1>1 DEF Create, Lapse, UnissuedIsBlank
  <1>2. ASSUME NEW r \in Requests, RequestStep(r)
        PROVE  \/ store'[s] = store[s]
               \/ store'[s] = Absent
               \/ store[s] # Absent /\ store'[s] # Absent
    <2>1. CASE Commit(r)
      <3>1. HoldsDocument(r) /\ call[r].sim \in Sims
        BY <2>1 DEF Commit, Write, RequestsConsistent, RequestActive, Calls
      <3>2. Advanced(call[r].sim, doc[r]) # Absent
        BY <3>1, AdvancedDocument, ParameterAssumption DEF HoldsDocument
      <3> QED
        BY <2>1, <3>1, <3>2 DEF Commit, Write
    <2>2. CASE ~Commit(r)
      BY <1>2, <2>2 DEF RequestStep, Check, Read, Lookup, Build, BuildFails,
                        Delete, Evict
    <2> QED
      BY <2>1, <2>2
  <1>3. ASSUME NEW p \in Replicas, NEW expired \in SUBSET Sims, Sweep(p, expired)
        PROVE  store'[s] \in {store[s], Absent}
    BY <1>3 DEF Sweep
  <1>4. ASSUME \/ \E r \in Requests : Return(r) \/ Cancel(r)
               \/ \E r \in Requests, op \in {"advance", "peek", "delete"}, u \in Sims :
                     \E expected \in (0 .. Steps[u]) \cup {NoStep} :
                        Invoke(r, op, u, expected)
               \/ \E p \in Replicas : EvictSwept(p) \/ Drop(p) \/ Crash(p)
               \/ UNCHANGED vars
        PROVE  store' = store
    BY <1>4 DEF Return, Cancel, Invoke, EvictSwept, Drop, Crash, vars
  <1> QED
    BY <1>1, <1>2, <1>3, <1>4 DEF Next

\* A deleted or reaped simulation is never written back by a request that was
\* in flight when it went.
THEOREM RemovedStaysRemoved == Spec => StaysRemoved
  <1>1. InductiveInvariant /\ [Next]_vars
          => [\A s \in issued : store[s] = Absent => store'[s] = Absent]_vars
    <2> SUFFICES ASSUME InductiveInvariant, [Next]_vars, NEW s \in issued,
                        store[s] = Absent
                 PROVE  store'[s] = Absent
      OBVIOUS
    <2>1. s \in Sims
      BY DEF InductiveInvariant, TypeOK
    <2> QED
      BY <2>1, StoreEvolves
  <1> QED
    BY <1>1, Invariance, PTL DEF Spec, StaysRemoved

-----------------------------------------------------------------------------
(* Refinement                                                              *)

\* The cursor view of a state: which phase a simulation is in, and how many of
\* its snapshots are consumed.
PhaseOf == [s \in Sims |-> IF s \notin issued THEN "unborn"
                           ELSE IF store[s] = Absent THEN "removed" ELSE "live"]
CursorOf == [s \in Sims |-> Len(served[s])]

\* Taking documents away is the abstract removal of the live ones among them.
LEMMA RemovalIsRemove ==
    ASSUME InductiveInvariant, NEW gone \in SUBSET Sims,
           UNCHANGED <<issued, served>>,
           store' = [s \in Sims |-> IF s \in gone THEN Absent ELSE store[s]]
    PROVE  Cursor!CursorNext
  <1>0. PICK live \in SUBSET Sims :
               live = {s \in gone : s \in issued /\ store[s] # Absent}
    OBVIOUS
  <1>1. \A s \in live : PhaseOf[s] = "live"
    BY <1>0 DEF PhaseOf
  <1>2. \A s \in Sims \ issued : store[s] = Absent
    BY DEF InductiveInvariant, UnissuedIsBlank
  <1>3. PhaseOf' = [s \in Sims |-> IF s \in live THEN "removed" ELSE PhaseOf[s]]
    BY <1>0, <1>2 DEF PhaseOf
  <1>4. CursorOf' = CursorOf
    BY DEF CursorOf
  <1>5. Cursor!Remove(live)
    BY <1>1, <1>3, <1>4 DEF Cursor!Remove, PhaseOf, CursorOf
  <1> QED
    BY <1>5 DEF Cursor!CursorNext

LEMMA RefineInit == Init => Cursor!CursorInit
  BY DEF Init, Cursor!CursorInit

LEMMA RefineNext ==
    InductiveInvariant /\ InductiveInvariant' /\ [Next]_vars
      => [Cursor!CursorNext]_(Cursor!cursorVars)
  <1> SUFFICES ASSUME InductiveInvariant, InductiveInvariant', [Next]_vars
               PROVE  Cursor!CursorNext \/ UNCHANGED Cursor!cursorVars
    OBVIOUS
  <1>1. ASSUME UNCHANGED <<store, issued, served>>
        PROVE  UNCHANGED Cursor!cursorVars
    BY <1>1 DEF Cursor!cursorVars
  <1>2. ASSUME NEW s \in Sims, Create(s) PROVE Cursor!CursorNext
    <2>1. NewDoc # Absent
      BY ParameterAssumption DEF NewDoc, Docs
    <2>2. /\ s \notin issued /\ issued' = issued \cup {s}
          /\ store' = [store EXCEPT ![s] = NewDoc] /\ served' = served
      BY <1>2 DEF Create
    <2>3. /\ PhaseOf[s] = "unborn"
          /\ PhaseOf' = [PhaseOf EXCEPT ![s] = "live"]
          /\ CursorOf' = CursorOf
      BY <2>1, <2>2 DEF PhaseOf, CursorOf, InductiveInvariant, TypeOK
    <2>4. Cursor!Issue(s)
      BY <2>3 DEF Cursor!Issue, PhaseOf, CursorOf
    <2> QED
      BY <2>4 DEF Cursor!CursorNext
  <1>3. ASSUME NEW s \in Sims, Lapse(s) PROVE Cursor!CursorNext
    <2>1. store' = [u \in Sims |-> IF u \in {s} THEN Absent ELSE store[u]]
      BY <1>3 DEF Lapse, InductiveInvariant, TypeOK
    <2> QED
      BY <1>3, <2>1, RemovalIsRemove DEF Lapse
  <1>4. ASSUME NEW p \in Replicas, NEW expired \in SUBSET Sims, Sweep(p, expired)
        PROVE  Cursor!CursorNext
    BY <1>4, RemovalIsRemove DEF Sweep
  <1>5. ASSUME NEW r \in Requests, Delete(r) PROVE Cursor!CursorNext
    <2>1. call[r].sim \in Sims
      BY <1>5 DEF Delete, InductiveInvariant, RequestsConsistent, RequestActive, Calls
    <2>2. store' = [u \in Sims |-> IF u \in {call[r].sim} THEN Absent ELSE store[u]]
      BY <1>5, <2>1 DEF Delete, InductiveInvariant, TypeOK
    <2> QED
      BY <1>5, <2>1, <2>2, RemovalIsRemove DEF Delete
  <1>6. ASSUME NEW r \in Requests, Commit(r)
        PROVE  Cursor!CursorNext \/ UNCHANGED Cursor!cursorVars
    <2>0. call[r].sim \in Sims
      BY <1>6 DEF Commit, Write, InductiveInvariant, RequestsConsistent, RequestActive, Calls
    <2>s. PICK s \in Sims : s = call[r].sim
      BY <2>0
    <2> DEFINE new == Advanced(s, doc[r])
               mine == [step |-> doc[r].current_step, by |-> r]
    <2>1. /\ HoldsDocument(r) /\ call[r].sim = s /\ s \in issued /\ doc[r] \in Docs
      BY <1>6, <2>s DEF Commit, Write, InductiveInvariant, RequestsConsistent, RequestActive,
                  Calls, HoldsDocument
    <2>2. CASE UNCHANGED <<store, served>>
      BY <1>1, <1>6, <2>2 DEF Commit, Write
    <2>3. CASE ~UNCHANGED <<store, served>>
      <3>1. /\ store[s] # Absent /\ store[s].version = doc[r].version
            /\ store' = [store EXCEPT ![s] = new]
            /\ served' = [served EXCEPT ![s] = Append(@, mine)]
            /\ issued' = issued
        BY <1>6, <2>1, <2>3 DEF Commit, Write
      <3>2. new # Absent
        BY <2>1, AdvancedDocument, ParameterAssumption
      <3> HIDE DEF new
      <3>3. PhaseOf[s] = "live" /\ PhaseOf' = PhaseOf
        BY <2>1, <3>1, <3>2 DEF PhaseOf, InductiveInvariant, TypeOK
      <3>4. /\ served[s] \in Seq(Commits) /\ mine \in Commits
            /\ served \in [Sims -> Seq(Commits)]
        BY <2>1 DEF InductiveInvariant, TypeOK, Commits, Docs
      <3> HIDE DEF mine
      <3>5. Len(Append(served[s], mine)) = Len(served[s]) + 1
        BY <3>4, AppendCommit
      <3>6. CursorOf' = [CursorOf EXCEPT ![s] = @ + 1]
        BY <2>1, <3>1, <3>4, <3>5 DEF CursorOf
      <3>7. Len(served[s]) < Steps[s]
        <4>1. store[s].version = Len(served[s])
          BY <2>1, <3>1 DEF InductiveInvariant, DocumentMatchesHistory
        <4> QED
          BY <2>1, <3>1, <4>1 DEF HoldsDocument
      <3>8. CursorOf[s] < Steps[s]
        BY <2>1, <3>7 DEF CursorOf
      <3>9. Cursor!Consume(s)
        BY <3>3, <3>6, <3>8 DEF Cursor!Consume, PhaseOf, CursorOf
      <3> QED
        BY <2>1, <3>9 DEF Cursor!CursorNext
    <2> QED
      BY <2>2, <2>3
  <1>7. ASSUME NEW r \in Requests, RequestStep(r), ~Commit(r), ~Delete(r)
        PROVE  UNCHANGED <<store, issued, served>>
    BY <1>7 DEF RequestStep, Check, Read, Lookup, Build, BuildFails, Evict
  <1>8. ASSUME \/ \E r \in Requests : Return(r) \/ Cancel(r)
               \/ \E r \in Requests, op \in {"advance", "peek", "delete"}, u \in Sims :
                     \E expected \in (0 .. Steps[u]) \cup {NoStep} :
                        Invoke(r, op, u, expected)
               \/ \E p \in Replicas : EvictSwept(p) \/ Drop(p) \/ Crash(p)
               \/ UNCHANGED vars
        PROVE  UNCHANGED <<store, issued, served>>
    BY <1>8 DEF Return, Cancel, Invoke, EvictSwept, Drop, Crash, vars
  <1>9. ASSUME NEW r \in Requests, RequestStep(r)
        PROVE  Cursor!CursorNext \/ UNCHANGED Cursor!cursorVars
    BY <1>1, <1>5, <1>6, <1>7, <1>9
  <1> QED
    BY <1>1, <1>2, <1>3, <1>4, <1>8, <1>9 DEF Next

\* The whole service, caches, replicas, retries and crashes included, is a
\* collection of cursors consumed one client at a time.
THEOREM Implementation == Spec => ImplementsCursor
  <1>1. InductiveInvariant /\ InductiveInvariant' /\ [Next]_vars
          => [Cursor!CursorNext]_(Cursor!cursorVars)
    BY RefineNext
  <1> QED
    BY <1>1, RefineInit, Invariance, PTL DEF Spec, ImplementsCursor, Cursor!CursorSpec
=============================================================================
