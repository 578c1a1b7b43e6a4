------------------------- MODULE TapeBuilds_proofs --------------------------
(***************************************************************************)
(* Proofs about TapeBuilds, for any number of simulations and callers and  *)
(* any capacity: the cache's bounds, single flight, and what happens to    *)
(* the entries of the builds map.                                          *)
(***************************************************************************)
EXTENDS TapeBuilds, SequenceTheorems, FiniteSetTheorems, TLAPS

\* A caller that is inside tape_for asks for a simulation; one that owns a build
\* has a task and an entry, and no two own the same one.
CallersConsistent ==
    \A c \in Callers :
        /\ pc[c] \in {"join", "wait", "build"} => sim[c] \in Sims
        /\ task[c] # "none" <=> pc[c] = "build"
        /\ pc[c] = "build" => sim[c] \in builds
        /\ \A d \in Callers : (pc[c] = "build" /\ pc[d] = "build" /\ sim[c] = sim[d]) => c = d

\* A task whose owner is gone keeps its simulation's entry to itself.
DetachedConsistent ==
    \A s \in Sims :
        /\ detached[s] <= 1
        /\ detached[s] > 0 => s \in builds /\ \A c \in Callers : ~(pc[c] = "build" /\ sim[c] = s)

InductiveInvariant ==
    /\ TypeOK
    /\ CallersConsistent
    /\ DetachedConsistent
    /\ WaiterHasEntry

-----------------------------------------------------------------------------
(* The cache as a sequence without repetitions                             *)

Elements(q) == {q[i] : i \in 1 .. Len(q)}

Distinct(q) == \A i, j \in 1 .. Len(q) : q[i] = q[j] => i = j

\* The first occurrence of an element is its only one.
LEMMA RemoveOnly ==
    ASSUME NEW q \in Seq(Sims), Distinct(q), NEW p \in 1 .. Len(q)
    PROVE  RemoveFirst(q, q[p]) = RemoveAt(q, p)
  <1> DEFINE I == {i \in 1 .. Len(q) : q[i] = q[p]}
  <1>1. I = {p}
    BY DEF Distinct
  <1>2. Min(I) = p
    BY <1>1 DEF Min
  <1>3. SelectInSeq(q, LAMBDA v : v = q[p]) = Min(I)
    BY <1>1 DEF SelectInSeq
  <1> HIDE DEF I
  <1> QED
    BY <1>2, <1>3 DEF RemoveFirst

\* What dropping a simulation's tape does to the cache.
LEMMA WithoutElements ==
    ASSUME NEW q \in Seq(Sims), Distinct(q), NEW s \in Sims
    PROVE  /\ Without(q, s) \in Seq(Sims)
           /\ Distinct(Without(q, s))
           /\ Elements(Without(q, s)) = Elements(q) \ {s}
           /\ Len(Without(q, s)) <= Len(q)
           /\ s \in Elements(q) => Len(Without(q, s)) = Len(q) - 1
  <1>1. CASE ~\E i \in 1 .. Len(q) : q[i] = s
    BY <1>1 DEF Without, RemoveFirst, Elements
  <1>2. CASE \E i \in 1 .. Len(q) : q[i] = s
    <2>1. PICK p \in 1 .. Len(q) : q[p] = s
      BY <1>2
    <2> DEFINE w == RemoveAt(q, p)
    <2>2. Without(q, s) = w
      BY <2>1, RemoveOnly DEF Without
    <2>3. Len(q) \in Nat /\ \A i \in 1 .. Len(q) : q[i] \in Sims
      OBVIOUS
    <2> DEFINE left == SubSeq(q, 1, p - 1)
               right == SubSeq(q, p + 1, Len(q))
    <2>4. /\ left \in Seq(Sims) /\ Len(left) = p - 1
          /\ \A i \in 1 .. p - 1 : left[i] = q[i]
      BY <2>1, <2>3
    <2>5. /\ right \in Seq(Sims) /\ Len(right) = Len(q) - p
          /\ \A i \in 1 .. Len(q) - p : right[i] = q[p + i]
      BY <2>1, <2>3
    <2>6. w = left \o right
      BY DEF RemoveAt
    <2> HIDE DEF left, right, w
    <2>7. /\ w \in Seq(Sims) /\ Len(w) = Len(q) - 1
          /\ \A i \in 1 .. Len(q) - 1 :
                w[i] = IF i <= p - 1 THEN left[i] ELSE right[i - (p - 1)]
      <3>1. /\ w \in Seq(Sims) /\ Len(w) = Len(left) + Len(right)
            /\ \A i \in 1 .. Len(left) + Len(right) :
                  w[i] = IF i <= Len(left) THEN left[i] ELSE right[i - Len(left)]
        BY <2>4, <2>5, <2>6, ConcatProperties
      <3>2. Len(left) + Len(right) = Len(q) - 1
        BY <2>1, <2>3, <2>4, <2>5
      <3> QED
        BY <2>4, <3>1, <3>2
    <2>8. \A i \in 1 .. Len(q) - 1 : w[i] = IF i < p THEN q[i] ELSE q[i + 1]
      BY <2>1, <2>3, <2>4, <2>5, <2>7
    <2>10. Distinct(w)
      <3> SUFFICES ASSUME NEW i \in 1 .. Len(q) - 1, NEW j \in 1 .. Len(q) - 1, w[i] = w[j]
                   PROVE  i = j
        BY <2>7 DEF Distinct
      <3>1. (IF i < p THEN i ELSE i + 1) = (IF j < p THEN j ELSE j + 1)
        BY <2>1, <2>3, <2>8 DEF Distinct
      <3> QED
        BY <2>1, <2>3, <3>1
    <2>11. Elements(w) \subseteq Elements(q) \ {s}
      <3> SUFFICES ASSUME NEW i \in 1 .. Len(q) - 1
                   PROVE  w[i] \in Elements(q) /\ w[i] # s
        BY <2>7 DEF Elements
      <3>1. PICK j \in 1 .. Len(q) : j # p /\ w[i] = q[j]
        BY <2>1, <2>3, <2>8
      <3> QED
        BY <2>1, <3>1 DEF Elements, Distinct
    <2>9. Elements(q) \ {s} \subseteq Elements(w)
      <3> SUFFICES ASSUME NEW i \in 1 .. Len(q), i # p
                   PROVE  \E j \in 1 .. Len(w) : w[j] = q[i]
        BY <2>1 DEF Elements
      <3>1. CASE i < p
        BY <2>1, <2>3, <2>7, <2>8, <3>1
      <3>2. CASE i > p
        <4>1. i - 1 \in 1 .. Len(w) /\ w[i - 1] = q[i]
          BY <2>1, <2>3, <2>7, <2>8, <3>2
        <4> QED
          BY <4>1
      <3> QED
        BY <2>1, <3>1, <3>2
    <2> QED
      BY <2>2, <2>3, <2>7, <2>9, <2>10, <2>11
  <1> QED
    BY <1>1, <1>2

\* The n most recent tapes.
LEMMA MostRecentElements ==
    ASSUME NEW q \in Seq(Sims), Distinct(q), NEW n \in Nat
    PROVE  /\ MostRecent(q, n) \in Seq(Sims)
           /\ Distinct(MostRecent(q, n))
           /\ Len(MostRecent(q, n)) <= n
           /\ Elements(MostRecent(q, n)) \subseteq Elements(q)
           /\ Len(q) <= n => MostRecent(q, n) = q
  <1>1. CASE Len(q) <= n
    BY <1>1 DEF MostRecent
  <1>2. CASE Len(q) > n
    <2> DEFINE from == Len(q) - n + 1
               w == SubSeq(q, from, Len(q))
    <2>1. MostRecent(q, n) = w
      BY <1>2 DEF MostRecent
    <2>2. Len(q) \in Nat /\ \A i \in 1 .. Len(q) : q[i] \in Sims
      OBVIOUS
    <2>3. /\ w \in Seq(Sims) /\ Len(w) = n
          /\ \A i \in 1 .. n : w[i] = q[from + i - 1]
      BY <1>2, <2>2, SubSeqProperties
    <2> HIDE DEF w
    <2>4. Distinct(w) /\ Elements(w) \subseteq Elements(q)
      <3> DEFINE Origin(i) == from + i - 1
      <3>1. ASSUME NEW i \in 1 .. n
            PROVE  Origin(i) \in 1 .. Len(q) /\ w[i] = q[Origin(i)]
        BY <1>2, <2>2, <2>3
      <3>2. \A i, j \in 1 .. n : Origin(i) = Origin(j) => i = j
        BY <1>2, <2>2
      <3> HIDE DEF Origin
      <3>3. Elements(w) \subseteq Elements(q)
        BY <2>3, <3>1 DEF Elements
      <3>4. ASSUME NEW i \in 1 .. n, NEW j \in 1 .. n, w[i] = w[j]
            PROVE  i = j
        <4>1. q[Origin(i)] = q[Origin(j)] /\ Origin(i) \in 1 .. Len(q) /\ Origin(j) \in 1 .. Len(q)
          BY <3>1, <3>4
        <4> QED
          BY <3>2, <4>1 DEF Distinct
      <3> QED
        BY <2>3, <3>3, <3>4 DEF Distinct
    <2> QED
      BY <1>2, <2>1, <2>3, <2>4
  <1> QED
    BY <1>1, <1>2

\* A tape that comes in anew as the most recent one.
LEMMA AppendElements ==
    ASSUME NEW q \in Seq(Sims), Distinct(q), NEW s \in Sims, s \notin Elements(q)
    PROVE  /\ Append(q, s) \in Seq(Sims)
           /\ Distinct(Append(q, s))
           /\ Len(Append(q, s)) = Len(q) + 1
           /\ Elements(Append(q, s)) = Elements(q) \cup {s}
  BY DEF Elements, Distinct

CacheOK(q) == q \in Seq(Sims) /\ Len(q) <= MaxTapes /\ Distinct(q)

\* cache_tape, on a cache that is well formed: the bound holds, the new tape is
\* in, and nothing else goes while there is room.
LEMMA FiledElements ==
    ASSUME CacheOK(tapes), NEW s \in Sims
    PROVE  /\ CacheOK(Filed(s))
           /\ s \in Elements(Filed(s))
           /\ Len(tapes) < MaxTapes => Elements(tapes) \subseteq Elements(Filed(s))
  <1> DEFINE w == Without(tapes, s)
             m == MostRecent(w, MaxTapes - 1)
  <1>1. /\ w \in Seq(Sims) /\ Distinct(w) /\ Elements(w) = Elements(tapes) \ {s}
        /\ Len(w) <= Len(tapes)
    BY WithoutElements DEF CacheOK
  <1>2. MaxTapes - 1 \in Nat /\ Len(tapes) \in Nat
    BY TapeAssumption DEF CacheOK
  <1> HIDE DEF w
  <1>3. /\ m \in Seq(Sims) /\ Distinct(m) /\ Len(m) <= MaxTapes - 1
        /\ Elements(m) \subseteq Elements(w)
        /\ Len(w) <= MaxTapes - 1 => m = w
    BY <1>1, <1>2, MostRecentElements
  <1>4. Filed(s) = Append(m, s)
    BY DEF Filed, w
  <1> HIDE DEF m
  <1>5. /\ Append(m, s) \in Seq(Sims) /\ Distinct(Append(m, s))
        /\ Len(Append(m, s)) = Len(m) + 1
        /\ Elements(Append(m, s)) = Elements(m) \cup {s}
    BY <1>1, <1>3, AppendElements
  <1>6. Len(w) \in Nat /\ Len(m) \in Nat
    BY <1>1, <1>3
  <1> QED
    BY <1>1, <1>2, <1>3, <1>4, <1>5, <1>6, TapeAssumption DEF CacheOK

\* A hit moves its tape to the recent end, an eviction takes it out.
LEMMA TouchedElements ==
    ASSUME CacheOK(tapes), NEW s \in Sims, Cached(s)
    PROVE  CacheOK(Touched(s)) /\ CacheOK(Without(tapes, s))
  <1> DEFINE w == Without(tapes, s)
  <1>1. s \in Elements(tapes)
    BY DEF Cached, Elements
  <1>2. /\ w \in Seq(Sims) /\ Distinct(w) /\ Elements(w) = Elements(tapes) \ {s}
        /\ Len(w) = Len(tapes) - 1
    BY <1>1, WithoutElements DEF CacheOK
  <1>3. Touched(s) = Append(w, s)
    BY DEF Touched
  <1> HIDE DEF w
  <1>4. /\ Append(w, s) \in Seq(Sims) /\ Distinct(Append(w, s))
        /\ Len(Append(w, s)) = Len(w) + 1
    BY <1>2, AppendElements
  <1>5. Len(w) \in Nat /\ Len(tapes) \in Nat
    BY <1>2 DEF CacheOK
  <1> QED
    BY <1>2, <1>3, <1>4, <1>5, TapeAssumption DEF CacheOK, w
-----------------------------------------------------------------------------
(* The invariant                                                           *)

\* The cache is not looked at by the other parts of the invariant.
LEMMA CacheTypes ==
    /\ TypeOK => CacheOK(tapes)
    /\ CacheOK(tapes)' /\ UNCHANGED <<builds, pc, sim, task, inbox, detached>> /\ TypeOK => TypeOK'
  BY DEF TypeOK, CacheOK, Distinct

LEMMA Initially == Init => InductiveInvariant
  <1> SUFFICES ASSUME Init PROVE InductiveInvariant
    OBVIOUS
  <1>1. TypeOK
    <2>1. <<>> \in Seq(Sims) /\ Len(<<>>) = 0
      OBVIOUS
    <2> QED
      BY <2>1, TapeAssumption DEF Init, TypeOK
  <1>2. CallersConsistent /\ DetachedConsistent /\ WaiterHasEntry
    BY DEF Init, CallersConsistent, DetachedConsistent, WaiterHasEntry
  <1> QED
    BY <1>1, <1>2 DEF InductiveInvariant

LEMMA AskKeeps ==
    ASSUME InductiveInvariant, NEW c \in Callers, NEW s \in Sims, Ask(c, s)
    PROVE  InductiveInvariant'
  <1>1. CacheOK(tapes')
    BY CacheTypes, TouchedElements DEF Ask, InductiveInvariant
  <1>2. TypeOK'
    BY <1>1 DEF Ask, InductiveInvariant, TypeOK, CacheOK, Distinct
  <1>3. CallersConsistent' /\ DetachedConsistent' /\ WaiterHasEntry'
    BY DEF Ask, InductiveInvariant, TypeOK, CallersConsistent, DetachedConsistent, WaiterHasEntry
  <1> QED
    BY <1>2, <1>3 DEF InductiveInvariant

LEMMA SubscribeKeeps ==
    ASSUME InductiveInvariant, NEW c \in Callers, Subscribe(c)
    PROVE  InductiveInvariant'
  <1>1. TypeOK'
    BY DEF Subscribe, InductiveInvariant, TypeOK
  <1>2. CallersConsistent' /\ DetachedConsistent' /\ WaiterHasEntry'
    BY DEF Subscribe, InductiveInvariant, TypeOK, CallersConsistent, DetachedConsistent,
           WaiterHasEntry
  <1> QED
    BY <1>1, <1>2 DEF InductiveInvariant

\* The new owner finds no entry, so there is neither an owner nor a detached task.
LEMMA OwnKeeps ==
    ASSUME InductiveInvariant, NEW c \in Callers, Own(c)
    PROVE  InductiveInvariant'
  <1>1. sim[c] \in Sims /\ sim[c] \notin builds /\ pc[c] = "join"
    BY DEF Own, InductiveInvariant, CallersConsistent
  <1>2. TypeOK'
    BY <1>1 DEF Own, InductiveInvariant, TypeOK
  <1>3. CallersConsistent'
    BY <1>1 DEF Own, InductiveInvariant, TypeOK, CallersConsistent
  <1>4. DetachedConsistent' /\ WaiterHasEntry'
    BY <1>1 DEF Own, InductiveInvariant, TypeOK, DetachedConsistent, WaiterHasEntry
  <1> QED
    BY <1>2, <1>3, <1>4 DEF InductiveInvariant

LEMMA TaskEndsKeeps ==
    ASSUME InductiveInvariant, NEW c \in Callers, TaskEnds(c)
    PROVE  InductiveInvariant'
  <1>1. sim[c] \in Sims /\ pc[c] = "build"
    BY DEF TaskEnds, InductiveInvariant, CallersConsistent
  <1>2. CacheOK(tapes')
    BY <1>1, CacheTypes, FiledElements DEF TaskEnds, InductiveInvariant
  <1>3. TypeOK'
    BY <1>2 DEF TaskEnds, InductiveInvariant, TypeOK, CacheOK, Distinct
  <1>4. CallersConsistent' /\ DetachedConsistent' /\ WaiterHasEntry'
    BY <1>1 DEF TaskEnds, InductiveInvariant, TypeOK, CallersConsistent, DetachedConsistent,
                WaiterHasEntry
  <1> QED
    BY <1>3, <1>4 DEF InductiveInvariant

LEMMA DetachedTaskEndsKeeps ==
    ASSUME InductiveInvariant, NEW s \in Sims, DetachedTaskEnds(s)
    PROVE  InductiveInvariant'
  <1>1. CacheOK(tapes')
    BY CacheTypes, FiledElements DEF DetachedTaskEnds, InductiveInvariant
  <1>2. TypeOK'
    BY <1>1 DEF DetachedTaskEnds, InductiveInvariant, TypeOK, CacheOK, Distinct
  <1>3. CallersConsistent' /\ DetachedConsistent' /\ WaiterHasEntry'
    BY DEF DetachedTaskEnds, InductiveInvariant, TypeOK, CallersConsistent, DetachedConsistent,
           WaiterHasEntry
  <1> QED
    BY <1>2, <1>3 DEF InductiveInvariant

\* The owner takes its entry along and answers whoever waits for it.
LEMMA PublishKeeps ==
    ASSUME InductiveInvariant, NEW c \in Callers, Publish(c)
    PROVE  InductiveInvariant'
  <1>1. sim[c] \in Sims /\ pc[c] = "build" /\ task[c] \in {"tape", "error"}
    BY DEF Publish, InductiveInvariant, CallersConsistent
  <1>2. TypeOK'
    BY <1>1 DEF Publish, InductiveInvariant, TypeOK
  <1>3. CallersConsistent'
    BY <1>1 DEF Publish, InductiveInvariant, TypeOK, CallersConsistent
  <1>4. DetachedConsistent'
    BY <1>1 DEF Publish, InductiveInvariant, TypeOK, DetachedConsistent
  <1>5. WaiterHasEntry'
    BY <1>1 DEF Publish, Subscribers, InductiveInvariant, TypeOK, WaiterHasEntry
  <1> QED
    BY <1>2, <1>3, <1>4, <1>5 DEF InductiveInvariant

LEMMA ReceiveOrReturnKeeps ==
    ASSUME InductiveInvariant, NEW c \in Callers, Receive(c) \/ Return(c)
    PROVE  InductiveInvariant'
  <1>1. TypeOK'
    BY DEF Receive, Return, InductiveInvariant, TypeOK
  <1>2. /\ pc[c] # "build" /\ task[c] = "none"
        /\ pc'[c] \notin {"wait", "join", "build"}
        /\ UNCHANGED <<builds, task, detached>>
        /\ \A d \in Callers \ {c} : pc'[d] = pc[d] /\ sim'[d] = sim[d] /\ inbox'[d] = inbox[d]
    BY DEF Receive, Return, InductiveInvariant, TypeOK, CallersConsistent
  <1>3. CallersConsistent'
    BY <1>2 DEF InductiveInvariant, CallersConsistent
  <1>4. DetachedConsistent'
    BY <1>2 DEF InductiveInvariant, DetachedConsistent
  <1>5. WaiterHasEntry'
    BY <1>2 DEF InductiveInvariant, WaiterHasEntry
  <1> QED
    BY <1>1, <1>3, <1>4, <1>5 DEF InductiveInvariant

\* A dropped owner leaves its entry, and its task if that is still running.
LEMMA CancelKeeps ==
    ASSUME InductiveInvariant, NEW c \in Callers, Cancel(c)
    PROVE  InductiveInvariant'
  <1>1. sim[c] \in Sims /\ pc[c] \in {"wait", "build"}
    BY DEF Cancel, InductiveInvariant, CallersConsistent
  <1>2. TypeOK'
    BY <1>1 DEF Cancel, InductiveInvariant, TypeOK
  <1>3. CallersConsistent' /\ WaiterHasEntry'
    BY <1>1 DEF Cancel, InductiveInvariant, TypeOK, CallersConsistent, WaiterHasEntry
  <1>4. DetachedConsistent'
    <2>1. CASE task[c] = "running"
      <3>1. pc[c] = "build" /\ sim[c] \in builds /\ detached[sim[c]] = 0
        BY <1>1, <2>1 DEF InductiveInvariant, TypeOK, CallersConsistent, DetachedConsistent
      <3> QED
        BY <1>1, <2>1, <3>1
        DEF Cancel, InductiveInvariant, TypeOK, CallersConsistent, DetachedConsistent
    <2>2. CASE task[c] # "running"
      BY <1>1, <2>2 DEF Cancel, InductiveInvariant, TypeOK, DetachedConsistent
    <2> QED
      BY <2>1, <2>2
  <1> QED
    BY <1>2, <1>3, <1>4 DEF InductiveInvariant

LEMMA EvictKeeps ==
    ASSUME InductiveInvariant, NEW s \in Sims, Evict(s)
    PROVE  InductiveInvariant'
  <1>1. CacheOK(tapes')
    BY CacheTypes, TouchedElements DEF Evict, InductiveInvariant
  <1>2. TypeOK'
    BY <1>1 DEF Evict, InductiveInvariant, TypeOK, CacheOK, Distinct
  <1>3. CallersConsistent' /\ DetachedConsistent' /\ WaiterHasEntry'
    BY DEF Evict, InductiveInvariant, CallersConsistent, DetachedConsistent, WaiterHasEntry
  <1> QED
    BY <1>2, <1>3 DEF InductiveInvariant

LEMMA Preserved == InductiveInvariant /\ [Next]_vars => InductiveInvariant'
  <1> SUFFICES ASSUME InductiveInvariant, [Next]_vars
               PROVE  InductiveInvariant'
    OBVIOUS
  <1>1. ASSUME NEW c \in Callers, NEW s \in Sims, Ask(c, s)
        PROVE  InductiveInvariant'
    BY <1>1, AskKeeps
  <1>2. ASSUME NEW c \in Callers, CallerStep(c) \/ Return(c) \/ Cancel(c)
        PROVE  InductiveInvariant'
    BY <1>2, SubscribeKeeps, OwnKeeps, TaskEndsKeeps, PublishKeeps, ReceiveOrReturnKeeps,
       CancelKeeps DEF CallerStep
  <1>3. ASSUME NEW s \in Sims, DetachedTaskEnds(s) \/ Evict(s)
        PROVE  InductiveInvariant'
    BY <1>3, DetachedTaskEndsKeeps, EvictKeeps
  <1>4. CASE UNCHANGED vars
    BY <1>4 DEF vars, InductiveInvariant, TypeOK, CallersConsistent, DetachedConsistent,
                WaiterHasEntry
  <1> QED
    BY <1>1, <1>2, <1>3, <1>4 DEF Next

-----------------------------------------------------------------------------
(* The theorems                                                            *)

\* The invariant holds of every behaviour of tape_for and its caller's disconnects.
THEOREM Invariance == Spec => []InductiveInvariant
  BY Initially, Preserved, PTL DEF Spec

\* Single flight: never two builds of one simulation, detached tasks included.
THEOREM SingleFlight == Spec => []OneBuildAtATime
  <1>1. InductiveInvariant => OneBuildAtATime
    <2> SUFFICES ASSUME InductiveInvariant, NEW s \in Sims
                 PROVE  Cardinality(Building(s)) + detached[s] <= 1
      BY DEF OneBuildAtATime, InductiveInvariant
    <2>1. detached[s] \in Nat /\ detached[s] <= 1
      BY DEF InductiveInvariant, TypeOK, DetachedConsistent
    <2>2. \A c \in Building(s) : pc[c] = "build" /\ sim[c] = s /\ c \in Callers
      BY DEF Building, InductiveInvariant, CallersConsistent
    <2>3. CASE Building(s) = {}
      BY <2>1, <2>3, FS_EmptySet
    <2>4. CASE Building(s) # {}
      <3>1. PICK c \in Building(s) : Building(s) = {c}
        BY <2>2, <2>4 DEF InductiveInvariant, CallersConsistent
      <3>2. Cardinality(Building(s)) = 1
        BY <3>1, FS_Singleton
      <3>3. detached[s] = 0
        BY <2>1, <2>2, <3>1 DEF InductiveInvariant, DetachedConsistent
      <3> QED
        BY <3>2, <3>3
    <2> QED
      BY <2>3, <2>4
  <1> QED
    BY <1>1, Invariance, PTL

\* A caller that waits and has not been answered has an entry that can answer it.
THEOREM WaitersHaveEntries == Spec => []WaiterHasEntry
  <1>1. InductiveInvariant => WaiterHasEntry
    BY DEF InductiveInvariant
  <1> QED
    BY <1>1, Invariance, PTL

\* Only Cancel parts an entry from its owner: Publish takes both away.
THEOREM OrphansAreDisconnected == Spec => OnlyADisconnectOrphans
  <1> DEFINE Step == \A s \in Sims : (~Orphaned(s) /\ Orphaned(s)') =>
                        \E c \in Callers : sim[c] = s /\ pc[c] = "build" /\ pc'[c] = "idle"
  <1>1. InductiveInvariant /\ [Next]_vars => [Step]_vars
    <2> SUFFICES ASSUME InductiveInvariant, Next, NEW s \in Sims, ~Orphaned(s), Orphaned(s)'
                 PROVE  \E c \in Callers : sim[c] = s /\ pc[c] = "build" /\ pc'[c] = "idle"
      OBVIOUS
    <2>1. CASE s \notin builds
      <3>1. PICK c \in Callers : Own(c)
        BY <2>1 DEF Next, CallerStep, Ask, Subscribe, TaskEnds, Publish, Receive, Return,
                    Cancel, DetachedTaskEnds, Evict, Orphaned
      <3>2. sim[c] = s /\ pc'[c] = "build" /\ sim'[c] = s
        BY <2>1, <3>1 DEF Own, Orphaned, InductiveInvariant, TypeOK
      <3> QED
        BY <3>2 DEF Orphaned
    <2>2. CASE s \in builds
      <3>1. PICK c \in Callers : pc[c] = "build" /\ sim[c] = s
        BY <2>2 DEF Orphaned
      <3>2. s \in builds' /\ ~(pc'[c] = "build" /\ sim'[c] = s)
        BY DEF Orphaned
      <3>3. \E d \in Callers : Publish(d) \/ Cancel(d)
        BY <3>1, <3>2 DEF Next, CallerStep, Ask, Subscribe, Own, TaskEnds, Receive, Return,
                          DetachedTaskEnds, Evict, InductiveInvariant, TypeOK
      <3>4. PICK d \in Callers : Publish(d) \/ Cancel(d)
        BY <3>3
      <3>5. d = c
        BY <3>1, <3>2, <3>4 DEF Publish, Cancel, InductiveInvariant, TypeOK
      <3>6. ~Publish(d)
        BY <3>1, <3>2, <3>5 DEF Publish
      <3>7. pc'[c] = "idle"
        BY <3>4, <3>5, <3>6 DEF Cancel, InductiveInvariant, TypeOK
      <3> QED
        BY <3>1, <3>7
    <2> QED
      BY <2>1, <2>2
  <1> QED
    BY <1>1, Invariance, PTL DEF Spec, OnlyADisconnectOrphans

\* cache_tape files the new tape for good and spares the others while there is room.
THEOREM FiledTapesAreKept == Spec => FilingKeepsTheNewTape
  <1> DEFINE Step == \A c \in Callers : (task[c] = "running" /\ task'[c] = "tape") =>
                        /\ Cached(sim[c])'
                        /\ Len(tapes) < MaxTapes => \A s \in Sims : Cached(s) => Cached(s)'
  <1>1. InductiveInvariant /\ [Next]_vars => [Step]_vars
    <2> SUFFICES ASSUME InductiveInvariant, Next, NEW c \in Callers,
                        task[c] = "running", task'[c] = "tape"
                 PROVE  /\ Cached(sim[c])'
                        /\ Len(tapes) < MaxTapes => \A s \in Sims : Cached(s) => Cached(s)'
      OBVIOUS
    <2>1. TaskEnds(c) /\ tapes' = Filed(sim[c]) /\ sim' = sim /\ sim[c] \in Sims
      <3>1. \E d \in Callers : TaskEnds(d)
        BY DEF Next, CallerStep, Ask, Subscribe, Own, Publish, Receive, Return, Cancel,
               DetachedTaskEnds, Evict, InductiveInvariant, TypeOK
      <3>2. PICK d \in Callers : TaskEnds(d)
        BY <3>1
      <3>3. d = c
        BY <3>2 DEF TaskEnds, InductiveInvariant, TypeOK
      <3>4. tapes' = Filed(sim[c]) /\ sim' = sim
        BY <3>2, <3>3 DEF TaskEnds, InductiveInvariant, TypeOK
      <3> QED
        BY <3>2, <3>3, <3>4 DEF InductiveInvariant, CallersConsistent
    <2>2. \A s \in Sims : (Cached(s) <=> s \in Elements(tapes))
                          /\ (Cached(s)' <=> s \in Elements(tapes'))
      BY DEF Cached, Elements
    <2>3. CacheOK(tapes)
      BY CacheTypes DEF InductiveInvariant
    <2>4. /\ sim[c] \in Elements(tapes')
          /\ Len(tapes) < MaxTapes => Elements(tapes) \subseteq Elements(tapes')
      BY <2>1, <2>3, FiledElements
    <2>5. Cached(sim[c])'
      BY <2>1, <2>4 DEF Cached, Elements
    <2> QED
      BY <2>2, <2>4, <2>5
  <1> QED
    BY <1>1, Invariance, PTL DEF Spec, FilingKeepsTheNewTape
=============================================================================
