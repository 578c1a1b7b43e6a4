----------------------- MODULE SnapshotSeries_proofs ------------------------
(***************************************************************************)
(* The bounds of the rolling snapshots, for every configuration, schedule  *)
(* and walk: what start-up and creation check is enough for every step     *)
(* that is priced later, and for the cache that the steps are kept in; and *)
(* the expirations of the steps, for every calendar: the scans find all    *)
(* that a rule asks for, and the nearest; and the rows of the tapes, for   *)
(* every walk: none of them depends on what comes after it.                *)
(***************************************************************************)
EXTENDS SnapshotSeries, Totals_proofs, SequenceTheorems

-----------------------------------------------------------------------------
(* The configuration                                                       *)

\* What a replica that started runs with: positive caps, and rows of a batch for
\* the largest snapshot if it files any.
LEMMA ConfigurationType ==
    ASSUME NEW caps \in Configurations
    PROVE  /\ \A name \in DOMAIN Defaults \ {Enabled} : caps[name] \in Nat \ {0}
           /\ caps[Enabled] =>
                caps.OCS_MAX_SNAPSHOT_CONTRACTS <= caps.OCS_SNAPSHOT_BATCH_ROWS
  <1>1. PICK env \in Environments : StartsUp(env) /\ caps = Loaded(env)
    BY DEF Configurations
  <1>2. IsEnvironment(env)
    BY SeriesAssumption
  <1>3. ASSUME NEW name \in DOMAIN Defaults, name # Enabled
        PROVE  caps[name] \in Nat \ {0}
    <2>1. Defaults[name] \in Nat \ {0}
      BY <1>3, SettingsAssumption
    <2>2. CASE name \in Limits
      <3>1. caps[name] = Limit(env, name)
        BY <1>1, <1>3, <2>2 DEF Loaded
      <3> QED
        BY <1>2, <1>3, <2>1, <3>1 DEF Limit, IsSet, IsNumber, IsEnvironment
    <2>3. CASE name \notin Limits
      <3>1. name \in Counts /\ caps[name] = Value(env, name)
        BY <1>1, <1>3, <2>3 DEF Loaded, Counts
      <3>2. Accepts(env, name) /\ Ceilings[name] \in Nat
        BY <1>1, <3>1, SettingsAssumption DEF StartsUp
      <3> QED
        BY <2>1, <3>1, <3>2 DEF Value, Accepts
    <2> QED
      BY <2>2, <2>3
  <1>4. /\ caps[Enabled] = Value(env, Enabled)
        /\ caps.OCS_MAX_SNAPSHOT_CONTRACTS = Value(env, "OCS_MAX_SNAPSHOT_CONTRACTS")
        /\ caps.OCS_SNAPSHOT_BATCH_ROWS = Value(env, "OCS_SNAPSHOT_BATCH_ROWS")
    BY <1>1, SettingsAssumption DEF Loaded, Limits, Enabled
  <1> QED
    BY <1>1, <1>3, <1>4 DEF StartsUp, BoundsAgree

-----------------------------------------------------------------------------
(* The parameters                                                          *)

\* What a stored simulation was created from.
LEMMA AcceptedFrom ==
    ASSUME NEW p \in Accepted
    PROVE  /\ \E caps \in Configurations : ValidParameters(p, caps)
           /\ p.start \in Int
           /\ {"start", "interval", "seed", "steps", "initial_price", "method"} \subseteq DOMAIN p
           /\ \E request :
                  /\ IsRequest(request) /\ Readable(request)
                  /\ p.method = request.method
                  /\ "chain_size" \in DOMAIN p <=> "chain_size" \in DOMAIN request
                  /\ "chain_size" \in DOMAIN request => p.chain_size = request.chain_size
                  /\ p.schedule = [zone  |-> request.zone,
                                   time  |-> request.time,
                                   rules |-> [i \in DOMAIN request.rules |->
                                                 Rule(request.rules[i])]]
  <1>1. PICK s \in Simulations, caps \in Configurations :
            \E request \in Offered[s] :
                Readable(request) /\ p \in Resolutions(request) /\ ValidParameters(p, caps)
    BY DEF Accepted, Creatable
  <1>2. PICK request \in Offered[s] : Readable(request) /\ p \in Resolutions(request)
    BY <1>1
  <1>3. IsRequest(request)
    BY SeriesAssumption
  <1>4. PICK now, seed : /\ p = Resolved(request, now, seed)
                         /\ now \in IF "start" \in DOMAIN request THEN {request.start} ELSE Clock
    BY <1>2 DEF Resolutions
  <1>5. now \in Int
    BY <1>3, <1>4, SeriesAssumption DEF IsRequest, RequiredFields
  <1> DEFINE base == [field \in DOMAIN request
                                 \ {"time_frame", "zone", "time", "calendar", "rules"} |->
                         request[field]]
             schedule == [zone  |-> request.zone,
                          time  |-> request.time,
                          rules |-> [i \in DOMAIN request.rules |-> Rule(request.rules[i])]]
             defaults == [start    |-> now,
                          seed     |-> seed,
                          interval |-> DerivedInterval(request.time_frame),
                          schedule |-> schedule]
  <1>6. p = WithDefaults(base, defaults)
    BY <1>4 DEF Resolved
  <1>7. /\ DOMAIN base = DOMAIN request \ {"time_frame", "zone", "time", "calendar", "rules"}
        /\ \A field \in DOMAIN base : base[field] = request[field]
    OBVIOUS
  <1>8. /\ DOMAIN defaults = {"start", "seed", "interval", "schedule"}
        /\ defaults.start = now /\ defaults.schedule = schedule
    OBVIOUS
  <1> HIDE DEF base, defaults, schedule
  <1>9. /\ DOMAIN p = DOMAIN base \cup DOMAIN defaults
        /\ \A field \in DOMAIN p :
               p[field] = IF field \in DOMAIN base THEN base[field] ELSE defaults[field]
    BY <1>6, Zenon DEF WithDefaults, Default
  <1>10. p.method = request.method
    BY <1>3, <1>7, <1>9 DEF IsRequest, RequiredFields
  <1>11. /\ "chain_size" \in DOMAIN p <=> "chain_size" \in DOMAIN request
         /\ "chain_size" \in DOMAIN request => p.chain_size = request.chain_size
    BY <1>7, <1>8, <1>9
  <1>12. p.schedule = schedule
    <2>1. "schedule" \notin DOMAIN base
      BY <1>3, <1>7 DEF IsRequest, RequiredFields, RequestFields
    <2> QED
      BY <1>8, <1>9, <2>1
  <1>13. {"start", "interval", "seed", "steps", "initial_price", "method"} \subseteq DOMAIN p
    BY <1>3, <1>7, <1>8, <1>9 DEF IsRequest, RequiredFields
  <1>14. p.start \in Int
    <2>1. "start" \in DOMAIN base => base["start"] \in Int
      BY <1>3, <1>7 DEF IsRequest, RequiredFields
    <2> QED
      BY <1>5, <1>8, <1>9, <2>1
  <1> QED
    BY <1>1, <1>2, <1>3, <1>10, <1>11, <1>12, <1>14, <1>13 DEF schedule

\* What a stored simulation inherits of the types of its request.
LEMMA AcceptedParameters ==
    ASSUME NEW p \in Accepted
    PROVE  /\ \E caps \in Configurations : ValidParameters(p, caps)
           /\ Default(p, "chain_size", DefaultChainSize) \in Nat
           /\ IsMethod(p.method)
           /\ p.schedule.rules \in Seq(ToSet(p.schedule.rules))
  <1>1. PICK request :
            /\ IsRequest(request)
            /\ p.method = request.method
            /\ "chain_size" \in DOMAIN p <=> "chain_size" \in DOMAIN request
            /\ "chain_size" \in DOMAIN request => p.chain_size = request.chain_size
            /\ p.schedule = [zone  |-> request.zone,
                             time  |-> request.time,
                             rules |-> [i \in DOMAIN request.rules |->
                                           Rule(request.rules[i])]]
    BY AcceptedFrom, Zenon
  <1>2. Default(p, "chain_size", DefaultChainSize) \in Nat
    BY <1>1, ParametersAssumption DEF Default, IsRequest, RequiredFields
  <1>3. p.schedule.rules \in Seq(ToSet(p.schedule.rules))
    <2> DEFINE rules == request.rules
               resolved == [i \in DOMAIN rules |-> Rule(rules[i])]
    <2>1. rules \in Seq(ToSet(rules))
      BY <1>1 DEF IsRequest, RequiredFields
    <2>2. DOMAIN rules = 1 .. Len(rules) /\ Len(rules) \in Nat
      BY <2>1
    <2>3. \A i \in 1 .. Len(rules) : resolved[i] \in ToSet(resolved)
      BY <2>2 DEF ToSet
    <2>4. resolved = [i \in 1 .. Len(rules) |-> resolved[i]]
      BY <2>2
    <2>5. p.schedule.rules = resolved
      BY <1>1
    <2> HIDE DEF resolved
    <2>6. resolved \in Seq(ToSet(resolved))
      BY <2>2, <2>3, <2>4
    <2> QED
      BY <2>5, <2>6
  <1> QED
    BY <1>1, <1>2, <1>3, AcceptedFrom DEF IsRequest, RequiredFields

-----------------------------------------------------------------------------
(* The planner                                                             *)

\* A place of the scan gives at most one instant.
LEMMA OneInstantAPlace ==
    ASSUME NEW schedule, NEW rule, NEW now, NEW index
    PROVE  /\ IsFiniteSet(InstantsAt(schedule, rule, now, index))
           /\ Cardinality(InstantsAt(schedule, rule, now, index)) \in 0 .. 1
  <1> DEFINE dates == Candidate(rule, LocalDate(schedule.zone, now), index)
             At(date) == InstantFor(schedule.zone, date * DayTicks + schedule.time)
             instants == InstantsAt(schedule, rule, now, index)
  <1>1. dates = {} \/ \E date : dates = {date}
    BY DEF Candidate, DayCandidate, PeriodCandidate
  <1>2. instants = {i \in {At(date) : date \in dates} : i > now}
    BY DEF InstantsAt
  <1> HIDE DEF dates, At, instants
  <1>3. instants = {} \/ \E i : instants = {i}
    BY <1>1, <1>2
  <1>4. CASE instants = {}
    BY <1>4, FS_EmptySet DEF instants
  <1>5. ASSUME NEW i, instants = {i}
        PROVE  IsFiniteSet(instants) /\ Cardinality(instants) = 1
    BY <1>5, FS_Singleton, Zenon
  <1> QED
    BY <1>3, <1>4, <1>5 DEF instants

\* The scan of a rule ends with the places before the first at which it may stop.
LEMMA ScanEnds ==
    ASSUME NEW schedule, NEW rule, NEW now, rule.count \in Nat
    PROVE  \E last \in 0 .. ScanBudget(rule) :
               /\ ProjectRule(schedule, rule, now) = Found(schedule, rule, now, last)
               /\ Stops(schedule, rule, now, last)
               /\ \A fewer \in 0 .. last - 1 : ~Stops(schedule, rule, now, fewer)
  <1> DEFINE stopping == {n \in 0 .. ScanBudget(rule) : Stops(schedule, rule, now, n)}
             First(n) == /\ Stops(schedule, rule, now, n)
                         /\ \A fewer \in 0 .. n - 1 : ~Stops(schedule, rule, now, fewer)
             last == CHOOSE n \in 0 .. ScanBudget(rule) : First(n)
  <1>1. ScanBudget(rule) \in Nat
    BY DEF ScanBudget
  <1>2. ScanBudget(rule) \in stopping /\ stopping \in SUBSET Nat
    BY <1>1 DEF Stops
  <1>3. PICK n \in stopping : \A m \in stopping : n <= m
    BY <1>2, SmallestExists
  <1>4. n \in 0 .. ScanBudget(rule) /\ First(n)
    BY <1>1, <1>3
  <1>5. last \in 0 .. ScanBudget(rule) /\ First(last)
    BY <1>4, Zenon
  <1>6. ProjectRule(schedule, rule, now) = Found(schedule, rule, now, last)
    BY DEF ProjectRule
  <1> QED
    BY <1>5, <1>6

LEMMA FoundIsFinite ==
    ASSUME NEW schedule, NEW rule, NEW now, NEW places \in Nat
    PROVE  IsFiniteSet(Found(schedule, rule, now, places))
  <1> DEFINE A(n) == InstantsAt(schedule, rule, now, n)
             f == [index \in 0 .. places - 1 |-> A(index)]
  <1>1. IsFiniteSet(0 .. places - 1)
    BY FS_Interval
  <1>2. IsFiniteSet({f[index] : index \in 0 .. places - 1})
    BY <1>1, ImageIsFinite
  <1>3. {f[index] : index \in 0 .. places - 1} = {A(index) : index \in 0 .. places - 1}
    BY Zenon
  <1>4. \A T \in {A(index) : index \in 0 .. places - 1} : IsFiniteSet(T)
    BY OneInstantAPlace
  <1>5. Found(schedule, rule, now, places) = UNION {A(index) : index \in 0 .. places - 1}
    BY DEF Found
  <1> HIDE DEF A
  <1> QED
    BY <1>2, <1>3, <1>4, <1>5, FS_UNION

\* So it never has more instants than the rule asks for.
LEMMA ScanIsBounded ==
    ASSUME NEW schedule, NEW rule, NEW now, rule.count \in Nat
    PROVE  /\ IsFiniteSet(ProjectRule(schedule, rule, now))
           /\ Cardinality(ProjectRule(schedule, rule, now)) <= rule.count
  <1> DEFINE F(n) == Found(schedule, rule, now, n)
             A(n) == InstantsAt(schedule, rule, now, n)
  <1>1. PICK last \in 0 .. ScanBudget(rule) :
            /\ ProjectRule(schedule, rule, now) = F(last)
            /\ \A fewer \in 0 .. last - 1 : ~Stops(schedule, rule, now, fewer)
    BY ScanEnds
  <1>2. ScanBudget(rule) \in Nat
    BY DEF ScanBudget
  <1>3. CASE last = 0
    <2>1. F(last) = {}
      BY <1>3 DEF Found
    <2> QED
      BY <1>1, <2>1, FS_EmptySet
  <1>4. CASE last # 0
    <2>1. last - 1 \in Nat /\ last - 1 \in 0 .. last - 1 /\ last \in Nat
      BY <1>2, <1>4
    <2>2. ~Stops(schedule, rule, now, last - 1)
      BY <1>1, <2>1
    <2>3. IsFiniteSet(F(last - 1)) /\ Cardinality(F(last - 1)) \in Nat
      BY <2>1, FoundIsFinite, FS_CardinalityType
    <2>4. Cardinality(F(last - 1)) < rule.count
      BY <2>2, <2>3 DEF Stops
    <2>5. F(last) = F(last - 1) \cup A(last - 1)
      <3>1. 0 .. last - 1 = (0 .. (last - 1) - 1) \cup {last - 1}
        BY <2>1
      <3> QED
        BY <3>1, Zenon DEF Found
    <2>6. IsFiniteSet(A(last - 1)) /\ Cardinality(A(last - 1)) \in 0 .. 1
      BY OneInstantAPlace
    <2> HIDE DEF F, A
    <2>7. /\ IsFiniteSet(F(last - 1) \cap A(last - 1))
          /\ Cardinality(F(last - 1) \cap A(last - 1)) \in Nat
      BY <2>3, FS_Intersection, FS_CardinalityType
    <2>8. /\ IsFiniteSet(F(last))
          /\ Cardinality(F(last)) = Cardinality(F(last - 1)) + Cardinality(A(last - 1))
                                      - Cardinality(F(last - 1) \cap A(last - 1))
      BY <2>3, <2>5, <2>6, FS_Union
    <2> QED
      BY <1>1, <2>3, <2>4, <2>6, <2>7, <2>8
  <1> QED
    BY <1>3, <1>4

\* The contracts of a snapshot are no more than its parameters were validated for:
\* merged expirations are counted once.
LEMMA ContractsAreBounded ==
    ASSUME NEW p \in Accepted, NEW n
    PROVE  /\ Contracts(p, n) \in Nat /\ Contracts(p, n) <= SnapshotWork(p)
           /\ SnapshotWork(p) \in Nat
  <1> DEFINE rules == p.schedule.rules
             now == SimulatedAt(p, n)
             w == [i \in DOMAIN rules |-> rules[i].count]
             F == [i \in DOMAIN rules |-> ProjectRule(p.schedule, rules[i], now)]
             found == [rule \in ToSet(rules) |-> ProjectRule(p.schedule, rule, now)]
             inventory == DOMAIN Inventory(p, n)
  <1>1. /\ rules \in Seq(ToSet(rules))
        /\ \A i \in DOMAIN rules : rules[i].count \in Nat
    <2>1. PICK caps \in Configurations : ValidParameters(p, caps)
      BY AcceptedParameters
    <2>2. \A rule \in ToSet(rules) : rule.count \in 1 .. MaxTargetCount
      BY <2>1 DEF ValidParameters, ValidSchedule, ValidRule
    <2>3. rules \in Seq(ToSet(rules))
      BY AcceptedParameters
    <2> QED
      BY <2>2, <2>3, PlannerAssumption DEF ToSet
  <1>2. IsFiniteSet(DOMAIN rules)
    <2>1. DOMAIN rules = 1 .. Len(rules) /\ Len(rules) \in Nat
      BY <1>1
    <2> QED
      BY <2>1, FS_Interval
  <1>3. inventory = UNION {F[i] : i \in DOMAIN rules}
    <2>1. inventory = UNION Range(found)
      BY DEF Inventory, ActiveAt
    <2>2. Range(found) = {F[i] : i \in DOMAIN rules}
      BY Zenon DEF Range, ToSet
    <2> QED
      BY <2>1, <2>2
  <1>4. \A i \in DOMAIN rules :
            w[i] \in Nat /\ IsFiniteSet(F[i]) /\ Cardinality(F[i]) <= w[i]
    BY <1>1, ScanIsBounded
  <1>5. TotalCount(rules) = Total(w, DOMAIN rules)
    BY DEF TotalCount, TotalOf
  <1> HIDE DEF F, w, rules, inventory, found
  <1>6. /\ Cardinality(inventory) \in Nat
        /\ Cardinality(inventory) <= Total(w, DOMAIN rules)
        /\ Total(w, DOMAIN rules) \in Nat
    <2>1. /\ Cardinality(UNION {F[i] : i \in DOMAIN rules}) \in Nat
          /\ Cardinality(UNION {F[i] : i \in DOMAIN rules}) <= Total(w, DOMAIN rules)
      BY <1>2, <1>4, UnionIsBounded
    <2>2. Total(w, DOMAIN rules) \in Nat
      BY <1>2, <1>4, TotalIsNatural
    <2> QED
      BY <1>3, <2>1, <2>2
  <1>7. StrikesPerChain(p) \in Nat
    BY AcceptedParameters DEF StrikesPerChain
  <1>8. /\ Contracts(p, n) = StrikesPerChain(p) * Cardinality(inventory)
        /\ SnapshotWork(p) = StrikesPerChain(p) * Total(w, DOMAIN rules)
    BY <1>5 DEF Contracts, SnapshotWork, inventory, rules
  <1> QED
    BY <1>6, <1>7, <1>8, ProductsGrow, ProductIsNatural

-----------------------------------------------------------------------------
(* The tape                                                                *)

LEMMA RowsFailByValidation ==
    ASSUME NEW p, NEW walk, NEW volatilities
    PROVE  RowsFrom(p, walk, volatilities).error # "internal"
  BY DEF RowsFrom, Failed

\* An internal error of an accepted simulation is a refusal of its kernel.
LEMMA InternalErrors ==
    ASSUME NEW p \in Accepted, Tape(p, p.method).error = "internal"
    PROVE  KernelRefuses(p.method, p.steps) /\ SeriesIsUsable(p, p.method)
  <1> DEFINE m == p.method
             walk == Generated(m, p.seed, p.initial_price, p.steps)
             rows == RowsFrom(p, walk, StepVolatilities(p, m, walk))
  <1>1. MethodMatches(p, m)
    BY DEF MethodMatches
  <1>2. rows.error # "internal" /\ Failed("validation").error # "internal"
    BY RowsFailByValidation DEF Failed
  <1>3. SeriesIsUsable(p, m)
    BY <1>1, <1>2 DEF Tape
  <1>4. CASE ~KernelRefuses(m, p.steps)
    <2>1. Tape(p, m) \in {Failed("validation"), rows}
      BY <1>1, <1>4 DEF Tape
    <2> HIDE DEF rows, m
    <2> QED
      BY <1>2, <2>1 DEF m
  <1> QED
    BY <1>3, <1>4

LEMMA KernelsAccept ==
    ASSUME NEW p \in Accepted, KernelRefuses(p.method, p.steps),
           SeriesIsUsable(p, p.method)
    PROVE  p.method.kind = "JumpDiffusion" /\ Mul(p.method.intensity, p.method.dt) >= One
  <1> DEFINE m == p.method
  <1>1. PICK caps \in Configurations : ValidParameters(p, caps)
    BY AcceptedParameters
  <1>2. IsMethod(m) /\ ValidMethod(m, caps)
    BY <1>1, AcceptedParameters DEF ValidParameters
  <1>3. p.steps \in Nat
    BY <1>1 DEF ValidParameters
  <1>4. m.kind # "Historical" => FieldsAreValid(m)
    BY <1>2 DEF ValidMethod
  <1> HIDE DEF m
  <1>5. CASE m.kind = "Garch"
    <2>1. /\ {m.alpha, m.beta} \subseteq Int \cup {NotFinite}
          /\ {"alpha", "beta"} \subseteq DOMAIN m \ {"kind"}
      BY <1>2, <1>5 DEF IsMethod, WalkFields
    <2>2. m.alpha \in Int /\ m.beta \in Int /\ m.alpha + m.beta < One
      BY <1>2, <1>4, <1>5, <2>1 DEF FieldsAreValid, Finite, ValidMethod
    <2>3. KernelRefuses(m, p.steps)
      BY DEF m
    <2>4. m.alpha + m.beta >= One
      BY <1>5, <2>3 DEF KernelRefuses
    <2> QED
      BY <2>2, <2>4, DecimalsAssumption
  <1>6. CASE m.kind = "Heston"
    <2>1. "rho" \in DOMAIN m
      BY <1>2, <1>6 DEF IsMethod, WalkFields
    <2>2. m.rho \in -One..One
      BY <1>4, <1>6, <2>1 DEF FieldsAreValid, CorrelationFields, Within
    <2>3. KernelRefuses(m, p.steps)
      BY DEF m
    <2> QED
      BY <1>6, <2>2, <2>3 DEF KernelRefuses
  <1>7. CASE m.kind = "LogReturns"
    <2>1. "autocorrelation" \in DOMAIN m
      BY <1>2, <1>7 DEF IsMethod, WalkFields
    <2>2. m.autocorrelation \in -One..One
      BY <1>4, <1>7, <2>1 DEF FieldsAreValid, CorrelationFields, Within
    <2>3. KernelRefuses(m, p.steps)
      BY DEF m
    <2> QED
      BY <1>7, <2>2, <2>3 DEF KernelRefuses
  <1>8. CASE m.kind = "Historical"
    <2>1. Len(m.prices) \in Nat
      BY <1>2, <1>8 DEF IsMethod
    <2>2. KernelRefuses(m, p.steps) /\ Len(m.prices) >= p.steps
      BY <1>8 DEF SeriesIsUsable, m
    <2> QED
      BY <1>3, <1>8, <2>1, <2>2 DEF KernelRefuses
  <1> QED
    BY <1>5, <1>6, <1>7, <1>8 DEF KernelRefuses, m

-----------------------------------------------------------------------------
(* The cache                                                               *)

\* Its entries are numbered apart, from 1 to their number at most, and its running
\* total is theirs.
Exact(c) ==
    /\ IsFiniteSet(DOMAIN c.entries)
    /\ \A key \in DOMAIN c.entries :
            /\ c.entries[key].contracts \in Nat
            /\ c.entries[key].accessed \in 1 .. Cardinality(DOMAIN c.entries)
    /\ \A k, l \in DOMAIN c.entries :
            c.entries[k].accessed = c.entries[l].accessed => k = l
    /\ c.resident = Weight(c.entries, DOMAIN c.entries)

\* The weight is a total of natural numbers, which splits over disjoint keys.
LEMMA WeightSplits ==
    ASSUME NEW c, Exact(c), NEW keys
    PROVE  /\ Weight(c.entries, DOMAIN c.entries \ keys) \in Nat
           /\ Weight(c.entries, DOMAIN c.entries \cap keys) \in Nat
           /\ c.resident = Weight(c.entries, DOMAIN c.entries \ keys)
                             + Weight(c.entries, DOMAIN c.entries \cap keys)
  <1> DEFINE D == DOMAIN c.entries
             w == [key \in D |-> c.entries[key].contracts]
             out == D \cap keys
             rest == D \ keys
  <1>1. IsFiniteSet(rest) /\ IsFiniteSet(out) /\ rest \cap out = {} /\ rest \cup out = D
    BY FS_Subset DEF Exact
  <1>2. \A key \in rest \cup out : w[key] \in Nat
    BY <1>1 DEF Exact
  <1>3. ASSUME NEW S \in SUBSET D
        PROVE  Weight(c.entries, S) = Total(w, S)
    BY TotalsAgree DEF Weight
  <1>4. /\ Weight(c.entries, rest) = Total(w, rest)
        /\ Weight(c.entries, out) = Total(w, out)
        /\ c.resident = Total(w, rest \cup out)
    BY <1>1, <1>3 DEF Exact
  <1> HIDE DEF w, rest, out
  <1>5. /\ Total(w, rest \cup out) = Total(w, rest) + Total(w, out)
        /\ Total(w, rest) \in Nat /\ Total(w, out) \in Nat
    BY <1>1, <1>2, TotalOfUnion
  <1> QED
    BY <1>4, <1>5 DEF rest, out

\* Some of the entries, numbered in the order of their numbers.
LEMMA KeptAreNumbered ==
    ASSUME NEW c, Exact(c), NEW keys \in SUBSET DOMAIN c.entries
    PROVE  /\ DOMAIN Kept(c.entries, keys) = keys
           /\ \A key \in keys :
                /\ Kept(c.entries, keys)[key].contracts = c.entries[key].contracts
                /\ Kept(c.entries, keys)[key].accessed \in 1 .. Cardinality(keys)
           /\ \A k, l \in keys :
                Kept(c.entries, keys)[k].accessed = Kept(c.entries, keys)[l].accessed => k = l
  <1> DEFINE at(key) == c.entries[key].accessed
             upto(key) == {k \in keys : at(k) <= at(key)}
  <1>1. IsFiniteSet(keys) /\ \A key \in keys : at(key) \in Nat
    BY FS_Subset, FS_CardinalityType DEF Exact
  <1>2. \A key \in keys : /\ Kept(c.entries, keys)[key].accessed = Cardinality(upto(key))
                          /\ Kept(c.entries, keys)[key].contracts = c.entries[key].contracts
    BY DEF Kept
  <1>3. ASSUME NEW key \in keys
        PROVE  /\ IsFiniteSet(upto(key))
               /\ Cardinality(upto(key)) \in 1 .. Cardinality(keys)
    <2>1. upto(key) \in SUBSET keys /\ key \in upto(key)
      BY <1>1
    <2> HIDE DEF upto
    <2>2. /\ IsFiniteSet(upto(key)) /\ Cardinality(upto(key)) <= Cardinality(keys)
          /\ Cardinality(upto(key)) \in Nat /\ Cardinality(keys) \in Nat
      BY <1>1, <2>1, FS_Subset, FS_CardinalityType
    <2>3. Cardinality(upto(key)) # 0
      BY <2>1, <2>2, FS_EmptySet
    <2> QED
      BY <2>2, <2>3
  <1>4. ASSUME NEW k \in keys, NEW l \in keys, at(k) < at(l)
        PROVE  Cardinality(upto(k)) # Cardinality(upto(l))
    <2>1. upto(k) \in SUBSET upto(l)
      BY <1>1, <1>4
    <2>2. l \in upto(l) /\ l \notin upto(k)
      BY <1>1, <1>4
    <2>3. IsFiniteSet(upto(l))
      BY <1>3
    <2> HIDE DEF upto
    <2> QED
      BY <2>1, <2>2, <2>3, FS_Subset
  <1>5. ASSUME NEW k \in keys, NEW l \in keys, Cardinality(upto(k)) = Cardinality(upto(l))
        PROVE  k = l
    <2>1. ~(at(k) < at(l)) /\ ~(at(l) < at(k))
      BY <1>4, <1>5
    <2>2. at(k) = at(l)
      BY <1>1, <2>1
    <2> QED
      BY <2>2 DEF Exact
  <1> HIDE DEF upto
  <1>6. \A k, l \in keys :
            Kept(c.entries, keys)[k].accessed = Kept(c.entries, keys)[l].accessed => k = l
    BY <1>2, <1>5
  <1>7. \A key \in keys : Kept(c.entries, keys)[key].accessed \in 1 .. Cardinality(keys)
    BY <1>2, <1>3
  <1>8. DOMAIN Kept(c.entries, keys) = keys
    BY DEF Kept
  <1> QED
    BY <1>2, <1>6, <1>7, <1>8

\* A cache stays exact when entries go, and is no heavier.
LEMMA RemovedIsExact ==
    ASSUME NEW c, Exact(c), NEW keys
    PROVE  /\ Exact(Removed(c, keys))
           /\ DOMAIN Removed(c, keys).entries = DOMAIN c.entries \ keys
           /\ Removed(c, keys).resident = Weight(c.entries, DOMAIN c.entries \ keys)
           /\ Removed(c, keys).resident <= c.resident
           /\ Cardinality(DOMAIN Removed(c, keys).entries) <= Cardinality(DOMAIN c.entries)
  <1> DEFINE rest == DOMAIN c.entries \ keys
             less == Removed(c, keys)
  <1>1. /\ less.entries = Kept(c.entries, rest)
        /\ less.resident = c.resident - Weight(c.entries, DOMAIN c.entries \cap keys)
    BY DEF Removed
  <1>2. /\ Weight(c.entries, rest) \in Nat
        /\ Weight(c.entries, DOMAIN c.entries \cap keys) \in Nat
        /\ c.resident = Weight(c.entries, rest)
                          + Weight(c.entries, DOMAIN c.entries \cap keys)
    BY WeightSplits
  <1>3. rest \in SUBSET DOMAIN c.entries
    OBVIOUS
  <1> HIDE DEF less, rest
  <1>4. /\ less.resident = Weight(c.entries, rest) /\ less.resident <= c.resident
    BY <1>1, <1>2
  <1>5. IsFiniteSet(rest) /\ Cardinality(rest) <= Cardinality(DOMAIN c.entries)
    BY <1>3, FS_Subset DEF Exact
  <1>6. /\ DOMAIN Kept(c.entries, rest) = rest
        /\ \A key \in rest :
                /\ Kept(c.entries, rest)[key].contracts = c.entries[key].contracts
                /\ Kept(c.entries, rest)[key].accessed \in 1 .. Cardinality(rest)
        /\ \A k, l \in rest :
                Kept(c.entries, rest)[k].accessed = Kept(c.entries, rest)[l].accessed => k = l
    BY <1>3, KeptAreNumbered
  <1>7. Weight(less.entries, rest) = Weight(c.entries, rest)
    <2>1. \A key \in rest : less.entries[key].contracts = c.entries[key].contracts
      BY <1>1, <1>6
    <2> QED
      BY <2>1, TotalsAgree DEF Weight
  <1>8. \A key \in rest : less.entries[key].contracts \in Nat
    BY <1>1, <1>3, <1>6 DEF Exact
  <1>9. Exact(less)
    BY <1>1, <1>4, <1>5, <1>6, <1>7, <1>8 DEF Exact
  <1> QED
    BY <1>1, <1>4, <1>5, <1>6, <1>9 DEF less, rest

\* The oldest entries are as many as the numbers up to theirs: what is left by an
\* eviction of the surplus fits.
LEMMA EvictToFits ==
    ASSUME NEW c, Exact(c), NEW max \in Nat
    PROVE  /\ Exact(EvictTo(c, max))
           /\ DOMAIN EvictTo(c, max).entries \subseteq DOMAIN c.entries
           /\ EvictTo(c, max).resident <= c.resident
           /\ Cardinality(DOMAIN EvictTo(c, max).entries) \in Nat
           /\ Cardinality(DOMAIN EvictTo(c, max).entries) <= max
  <1> DEFINE D == DOMAIN c.entries
             all == Cardinality(D)
             surplus == Max({0, all - max})
             oldest == Oldest(c, surplus)
             left == D \ oldest
             less == Removed(c, oldest)
  <1>1. EvictTo(c, max) = less
    BY DEF EvictTo
  <1>2. all \in Nat
    BY FS_CardinalityType DEF Exact
  <1>3. surplus = IF all <= max THEN 0 ELSE all - max
    <2> HIDE DEF all
    <2>1. \A x, y \in {0, all - max} : (\A z \in {0, all - max} : x >= z) /\
                                       (\A z \in {0, all - max} : y >= z) => x = y
      BY <1>2
    <2>2. \E x \in {0, all - max} : \A z \in {0, all - max} : x >= z
      BY <1>2
    <2>3. /\ surplus \in {0, all - max}
          /\ \A z \in {0, all - max} : surplus >= z
      BY <2>2, Zenon DEF Max
    <2> HIDE DEF surplus
    <2> QED
      BY <1>2, <2>3
  <1>4. /\ Exact(less) /\ DOMAIN less.entries = left /\ less.resident <= c.resident
        /\ Cardinality(left) <= all
    BY RemovedIsExact, Zenon
  <1>5. IsFiniteSet(left) /\ Cardinality(left) \in Nat
    BY FS_Subset, FS_CardinalityType DEF Exact
  <1>6. Cardinality(left) <= max
    <2>1. CASE all <= max
      <3> HIDE DEF left, all
      <3> QED
        BY <1>2, <1>4, <1>5, <2>1
    <2>2. CASE all > max
      <3> DEFINE at == [key \in left |-> c.entries[key].accessed]
                 numbers == (all - max) + 1 .. all
      <3>1. surplus = all - max
        BY <1>2, <1>3, <2>2
      <3> HIDE DEF surplus
      <3>2. \A key \in left : /\ key \in D
                              /\ ~(c.entries[key].accessed <= surplus)
        BY DEF Oldest
      <3>3. \A key \in left : at[key] \in numbers
        BY <1>2, <2>2, <3>1, <3>2 DEF Exact
      <3>4. \A k, l \in left : at[k] = at[l] => k = l
        BY <3>2 DEF Exact
      <3> HIDE DEF numbers, left
      <3>5. at \in [left -> numbers]
        BY <3>3
      <3>6. at \in Injection(left, numbers)
        BY <3>4, <3>5, Fun_IsInj, Zenon
      <3>7. IsFiniteSet(numbers) /\ Cardinality(numbers) = max
        <4> HIDE DEF all
        <4>1. /\ IsFiniteSet(numbers)
              /\ Cardinality(numbers) =
                    IF (all - max) + 1 > all THEN 0 ELSE all - ((all - max) + 1) + 1
          BY <1>2, <2>2, FS_Interval DEF numbers
        <4> QED
          BY <1>2, <2>2, <4>1
      <3> QED
        BY <3>6, <3>7, FS_Injection
    <2> QED
      BY <1>2, <2>1, <2>2
  <1> QED
    BY <1>1, <1>4, <1>5, <1>6

\* The weight fits once enough of the oldest are gone, and it does when all are.
LEMMA EvictToContractsFits ==
    ASSUME NEW c, Exact(c), NEW max \in Nat
    PROVE  /\ Exact(EvictToContracts(c, max))
           /\ DOMAIN EvictToContracts(c, max).entries \subseteq DOMAIN c.entries
           /\ EvictToContracts(c, max).resident <= max
           /\ Cardinality(DOMAIN EvictToContracts(c, max).entries)
                <= Cardinality(DOMAIN c.entries)
  <1> DEFINE all == Cardinality(DOMAIN c.entries)
             less(count) == Removed(c, Oldest(c, count))
             counts == {count \in 0 .. all : count = all \/ less(count).resident <= max}
             least == Min(counts)
  <1>1. EvictToContracts(c, max) = less(least)
    BY DEF EvictToContracts
  <1>2. all \in Nat
    BY FS_CardinalityType DEF Exact
  <1>3. counts \in SUBSET Nat /\ all \in counts
    BY <1>2
  <1>4. least \in counts
    <2> HIDE DEF counts
    <2>1. \E n \in counts : \A m \in counts : n <= m
      BY <1>3, SmallestExists
    <2> QED
      BY <2>1, Zenon DEF Min
  <1> HIDE DEF least
  <1>5. /\ Exact(less(least))
        /\ DOMAIN less(least).entries = DOMAIN c.entries \ Oldest(c, least)
        /\ less(least).resident = Weight(c.entries, DOMAIN c.entries \ Oldest(c, least))
        /\ Cardinality(DOMAIN less(least).entries) <= all
    BY RemovedIsExact, Zenon
  <1>6. CASE least = all
    <2>1. DOMAIN c.entries \ Oldest(c, least) = {}
      BY <1>2, <1>6 DEF Oldest, Exact
    <2>2. less(least).resident = 0
      BY <1>5, <2>1, TotalOfNone, Zenon DEF Weight
    <2> HIDE DEF less
    <2> QED
      BY <1>1, <1>5, <2>2
  <1>7. CASE least # all
    <2>1. less(least).resident <= max
      BY <1>4, <1>7
    <2> HIDE DEF less
    <2> QED
      BY <1>1, <1>5, <2>1
  <1> QED
    BY <1>6, <1>7

LEMMA AppendedIsExact ==
    ASSUME NEW c, Exact(c), NEW key, key \notin DOMAIN c.entries, NEW contracts \in Nat
    PROVE  /\ Exact(Appended(c, key, contracts))
           /\ DOMAIN Appended(c, key, contracts).entries = DOMAIN c.entries \cup {key}
           /\ Appended(c, key, contracts).resident = c.resident + contracts
           /\ Cardinality(DOMAIN Appended(c, key, contracts).entries)
                = Cardinality(DOMAIN c.entries) + 1
  <1> DEFINE D == DOMAIN c.entries
             more == Appended(c, key, contracts)
             w == [k \in D |-> c.entries[k].contracts]
             v == [k \in D \cup {key} |-> more.entries[k].contracts]
  <1>1. /\ DOMAIN more.entries = D \cup {key}
        /\ more.entries[key].contracts = contracts
        /\ more.entries[key].accessed = Cardinality(D) + 1
        /\ \A k \in D : more.entries[k] = c.entries[k]
        /\ more.resident = c.resident + contracts
    BY DEF Appended
  <1> HIDE DEF more
  <1>2. /\ IsFiniteSet(D \cup {key}) /\ Cardinality(D) \in Nat
        /\ Cardinality(D \cup {key}) = Cardinality(D) + 1
    BY FS_AddElement, FS_CardinalityType DEF Exact
  <1>3. \A k \in DOMAIN more.entries :
            /\ more.entries[k].contracts \in Nat
            /\ more.entries[k].accessed \in 1 .. Cardinality(D) + 1
    BY <1>1, <1>2 DEF Exact
  <1>4. \A k, l \in DOMAIN more.entries :
            more.entries[k].accessed = more.entries[l].accessed => k = l
    BY <1>1, <1>2 DEF Exact
  <1>5. more.resident = Weight(more.entries, D \cup {key})
    <2>1. Weight(more.entries, D \cup {key}) = Total(v, D \cup {key})
      BY DEF Weight
    <2>2. v[key] = contracts /\ \A k \in D : v[k] = w[k]
      BY <1>1
    <2>3. \A k \in D \cup {key} : v[k] \in Nat
      BY <1>1, <1>3
    <2>4. c.resident = Total(w, D)
      BY DEF Exact, Weight
    <2>5. IsFiniteSet(D)
      BY DEF Exact
    <2> HIDE DEF v, w, D
    <2>6. Total(v, D \cup {key}) = Total(v, D) + v[key]
      BY <2>3, <2>5, TotalAdds DEF D
    <2>7. Total(v, D) = Total(w, D)
      BY <2>2, TotalsAgree
    <2> QED
      BY <1>1, <2>1, <2>2, <2>4, <2>6, <2>7 DEF D
  <1>6. Exact(more)
    BY <1>1, <1>2, <1>3, <1>4, <1>5 DEF Exact
  <1> QED
    BY <1>1, <1>2, <1>6 DEF more

\* An exact cache within the bounds of the running replica.
Bounded(c) ==
    /\ Exact(c)
    /\ c.resident <= Budget
    /\ Cardinality(DOMAIN c.entries) <= Capacity

LEMMA BoundsArePositive ==
    ASSUME settings \in Configurations
    PROVE  Capacity \in Nat \ {0} /\ Budget \in Nat \ {0}
  <1>1. {"OCS_MAX_CACHED_SNAPSHOTS", "OCS_MAX_CACHED_SNAPSHOT_CONTRACTS"}
            \subseteq DOMAIN Defaults \ {Enabled}
    BY SettingsAssumption DEF Enabled
  <1> QED
    BY <1>1, ConfigurationType DEF Capacity, Budget

\* The size and the running total of an exact cache are numbers.
LEMMA ExactType ==
    ASSUME NEW c, Exact(c)
    PROVE  Cardinality(DOMAIN c.entries) \in Nat /\ c.resident \in Nat
  <1>1. Cardinality(DOMAIN c.entries) \in Nat
    BY FS_CardinalityType DEF Exact
  <1>2. c.resident \in Nat
    <2>1. /\ Weight(c.entries, DOMAIN c.entries \ {}) \in Nat
          /\ Weight(c.entries, DOMAIN c.entries \cap {}) \in Nat
          /\ c.resident = Weight(c.entries, DOMAIN c.entries \ {})
                            + Weight(c.entries, DOMAIN c.entries \cap {})
      BY WeightSplits
    <2> QED
      BY <2>1
  <1> QED
    BY <1>1, <1>2

\* An insertion keeps the bounds, whether the key is in the cache already or not.
LEMMA InsertedIsBounded ==
    ASSUME settings \in Configurations, NEW c, Bounded(c), NEW key, NEW contracts \in Nat
    PROVE  Bounded(Inserted(c, key, contracts))
  <1> DEFINE old == Removed(c, {key})
             fewer == EvictTo(old, Capacity - 1)
             lighter == EvictToContracts(fewer, Budget - contracts)
             new == Appended(lighter, key, contracts)
  <1>1. Inserted(c, key, contracts) = IF contracts > Budget THEN old ELSE new
    BY DEF Inserted, Filed
  <1>2. Capacity \in Nat \ {0} /\ Budget \in Nat \ {0}
    BY BoundsArePositive
  <1>3. Exact(c)
    BY DEF Bounded
  <1>4. /\ Exact(old) /\ DOMAIN old.entries = DOMAIN c.entries \ {key}
        /\ old.resident <= c.resident
        /\ Cardinality(DOMAIN old.entries) <= Cardinality(DOMAIN c.entries)
    BY <1>3, RemovedIsExact, Zenon
  <1> HIDE DEF old
  <1>5. CASE contracts > Budget
    <2>1. /\ Cardinality(DOMAIN c.entries) \in Nat /\ c.resident \in Nat
          /\ Cardinality(DOMAIN old.entries) \in Nat /\ old.resident \in Nat
      BY <1>3, <1>4, ExactType
    <2> QED
      BY <1>1, <1>2, <1>4, <1>5, <2>1 DEF Bounded
  <1>6. CASE contracts <= Budget
    <2>1. Capacity - 1 \in Nat /\ Budget - contracts \in Nat
      BY <1>2, <1>6
    <2>2. /\ Exact(fewer) /\ DOMAIN fewer.entries \subseteq DOMAIN old.entries
          /\ Cardinality(DOMAIN fewer.entries) <= Capacity - 1
      BY <1>4, <2>1, EvictToFits
    <2> HIDE DEF fewer
    <2>3. /\ Exact(lighter) /\ DOMAIN lighter.entries \subseteq DOMAIN fewer.entries
          /\ lighter.resident <= Budget - contracts
          /\ Cardinality(DOMAIN lighter.entries) <= Cardinality(DOMAIN fewer.entries)
      BY <2>1, <2>2, EvictToContractsFits
    <2> HIDE DEF lighter
    <2>4. key \notin DOMAIN lighter.entries
      BY <1>4, <2>2, <2>3
    <2>5. /\ Exact(new) /\ new.resident = lighter.resident + contracts
          /\ Cardinality(DOMAIN new.entries) = Cardinality(DOMAIN lighter.entries) + 1
      BY <2>3, <2>4, AppendedIsExact
    <2>6. /\ Cardinality(DOMAIN lighter.entries) \in Nat /\ lighter.resident \in Nat
          /\ Cardinality(DOMAIN fewer.entries) \in Nat
      BY <2>2, <2>3, ExactType
    <2> HIDE DEF new
    <2>7. new.resident <= Budget /\ Cardinality(DOMAIN new.entries) <= Capacity
      BY <1>2, <2>2, <2>3, <2>5, <2>6
    <2> QED
      BY <1>1, <1>2, <1>6, <2>5, <2>7 DEF Bounded
  <1> QED
    BY <1>2, <1>5, <1>6

\* An access changes the order of the entries alone.
LEMMA TouchedIsBounded ==
    ASSUME settings \in Configurations, NEW c, Bounded(c), NEW key \in DOMAIN c.entries
    PROVE  Bounded(Touched(c, key))
  <1> DEFINE old == Removed(c, {key})
             w == c.entries[key].contracts
             new == Touched(c, key)
  <1>1. Exact(c) /\ w \in Nat /\ IsFiniteSet(DOMAIN c.entries)
    BY DEF Bounded, Exact
  <1>2. /\ Exact(old) /\ DOMAIN old.entries = DOMAIN c.entries \ {key}
        /\ old.resident = c.resident - Weight(c.entries, DOMAIN c.entries \cap {key})
    <2>1. old.resident = c.resident - Weight(c.entries, DOMAIN c.entries \cap {key})
      BY DEF Removed
    <2> QED
      BY <1>1, <2>1, RemovedIsExact, Zenon
  <1>3. Weight(c.entries, DOMAIN c.entries \cap {key}) = w
    <2> DEFINE v == [k \in {key} |-> c.entries[k].contracts]
    <2>1. DOMAIN c.entries \cap {key} = {key} /\ v[key] = w
      OBVIOUS
    <2>2. Weight(c.entries, {key}) = Total(v, {key})
      BY DEF Weight
    <2> HIDE DEF v
    <2>3. Total(v, {key}) = v[key]
      BY <1>1, <2>1, TotalOfOne
    <2> QED
      BY <2>1, <2>2, <2>3
  <1>4. new = Appended(old, key, w)
    BY DEF Touched
  <1> HIDE DEF old, w, new
  <1>5. /\ Exact(new) /\ new.resident = old.resident + w
        /\ Cardinality(DOMAIN new.entries) = Cardinality(DOMAIN old.entries) + 1
    BY <1>1, <1>2, <1>4, AppendedIsExact
  <1>6. Cardinality(DOMAIN old.entries) = Cardinality(DOMAIN c.entries) - 1
    BY <1>1, <1>2, FS_RemoveElement
  <1>7. c.resident \in Nat /\ Cardinality(DOMAIN c.entries) \in Nat
    BY <1>1, ExactType
  <1>8. new.resident = c.resident
    BY <1>1, <1>2, <1>3, <1>5, <1>7
  <1>9. Cardinality(DOMAIN new.entries) = Cardinality(DOMAIN c.entries)
    BY <1>5, <1>6, <1>7
  <1> QED
    BY <1>5, <1>8, <1>9 DEF Bounded, new

\* So does a removal.
LEMMA RemovedIsBounded ==
    ASSUME settings \in Configurations, NEW c, Bounded(c), NEW keys
    PROVE  Bounded(Removed(c, keys))
  <1>1. Capacity \in Nat \ {0} /\ Budget \in Nat \ {0} /\ Exact(c)
    BY BoundsArePositive DEF Bounded
  <1> DEFINE less == Removed(c, keys)
  <1>2. /\ Exact(less) /\ less.resident <= c.resident
        /\ Cardinality(DOMAIN less.entries) <= Cardinality(DOMAIN c.entries)
    BY <1>1, RemovedIsExact, Zenon
  <1> HIDE DEF less
  <1>3. /\ c.resident \in Nat /\ less.resident \in Nat
        /\ Cardinality(DOMAIN c.entries) \in Nat /\ Cardinality(DOMAIN less.entries) \in Nat
    BY <1>1, <1>2, ExactType
  <1>4. Bounded(less)
    BY <1>1, <1>2, <1>3 DEF Bounded
  <1> QED
    BY <1>4 DEF less

LEMMA EmptyIsExact ==
    Exact(EmptyCache) /\ EmptyCache.resident = 0 /\ Cardinality(DOMAIN EmptyCache.entries) = 0
  <1>1. DOMAIN EmptyCache.entries = {} /\ EmptyCache.resident = 0
    BY DEF EmptyCache
  <1>2. Weight(EmptyCache.entries, {}) = 0
    BY TotalOfNone DEF Weight
  <1> QED
    BY <1>1, <1>2, FS_EmptySet DEF Exact

-----------------------------------------------------------------------------
(* The behaviour                                                           *)

\* The snapshot that a request builds is a step of accepted parameters.
Asked(r) ==
    /\ held[r][2] \in Accepted
    /\ held[r][1][2] \in 0 .. (held[r][2].steps - 1)

SeriesInvariant ==
    /\ settings \in Configurations \cup {Nothing}
    /\ parameters \in [Simulations -> Accepted \cup {Nothing}]
    /\ step \in [Simulations -> Nat]
    /\ \A r \in Requests : held[r] # Nothing => Asked(r)
    /\ IF settings = Nothing THEN cache = EmptyCache ELSE Bounded(cache)

\* The entry of the table for a step of a simulation.
LEMMA SeriesEntry ==
    ASSUME NEW p \in Accepted, NEW n \in 0 .. (p.steps - 1)
    PROVE  /\ p.steps \in Nat
           /\ Series[p][n].contracts = Contracts(p, n)
           /\ Series[p][n].contracts \in Nat
           /\ Series[p][n].contracts <= SnapshotWork(p)
  <1>1. p.steps \in Nat
    <2>1. PICK caps \in Configurations : ValidParameters(p, caps)
      BY AcceptedParameters
    <2> QED
      BY <2>1 DEF ValidParameters
  <1>2. Series[p][n].contracts = Contracts(p, n)
    BY DEF Series
  <1> QED
    BY <1>1, <1>2, ContractsAreBounded

LEMMA SeriesInitially == Init => SeriesInvariant
  BY DEF Init, SeriesInvariant

\* What a step must show of the cache if the replica goes on.
LEMMA CachePreserved ==
    ASSUME SeriesInvariant, settings # Nothing, settings' = settings, Bounded(cache')
    PROVE  (IF settings = Nothing THEN cache = EmptyCache ELSE Bounded(cache))'
  BY DEF Bounded, Capacity, Budget

LEMMA EndedPreserves ==
    ASSUME SeriesInvariant, settings # Nothing, NEW s, Ended(s)
    PROVE  Bounded(cache')
  <1>1. settings \in Configurations /\ Bounded(cache)
    BY DEF SeriesInvariant
  <1>2. Bounded(Removed(cache, {key \in DOMAIN cache.entries : key[1] = s}))
    BY <1>1, RemovedIsBounded, Zenon
  <1> QED
    BY <1>1, <1>2, Zenon DEF Ended

\* A held request goes on with the same request.
LEMMA AskedPreserved ==
    ASSUME SeriesInvariant, held' = held
    PROVE  (\A r \in Requests : held[r] # Nothing => Asked(r))'
  BY DEF SeriesInvariant, Asked

LEMMA BootPreserves == SeriesInvariant /\ Boot => SeriesInvariant'
  <1> SUFFICES ASSUME SeriesInvariant, Boot
               PROVE  SeriesInvariant'
    OBVIOUS
  <1>1. /\ settings' \in Configurations /\ cache' = EmptyCache /\ held' = held
        /\ parameters' = parameters /\ step' = step
    BY DEF Boot, SeriesInvariant, Configurations
  <1>2. (Capacity \in Nat \ {0} /\ Budget \in Nat \ {0})'
    <2>1. {"OCS_MAX_CACHED_SNAPSHOTS", "OCS_MAX_CACHED_SNAPSHOT_CONTRACTS"}
              \subseteq DOMAIN Defaults \ {Enabled}
      BY SettingsAssumption DEF Enabled
    <2> QED
      BY <1>1, <2>1, ConfigurationType DEF Capacity, Budget
  <1>3. Bounded(cache)'
    BY <1>1, <1>2, EmptyIsExact DEF Bounded
  <1>4. (\A r \in Requests : held[r] # Nothing => Asked(r))'
    BY <1>1, AskedPreserved
  <1> QED
    BY <1>1, <1>3, <1>4 DEF SeriesInvariant

LEMMA StopPreserves == SeriesInvariant /\ Stop => SeriesInvariant'
  BY DEF SeriesInvariant, Stop

LEMMA CreatePreserves ==
    ASSUME SeriesInvariant, settings # Nothing, NEW s \in Simulations, Create(s)
    PROVE  SeriesInvariant'
  <1>1. settings \in Configurations /\ Bounded(cache)
    BY DEF SeriesInvariant
  <1>2. PICK p \in Creatable[s][settings] : parameters' = [parameters EXCEPT ![s] = p]
    BY DEF Create
  <1>3. p \in Accepted
    BY <1>1, <1>2 DEF Accepted
  <1>4. parameters' \in [Simulations -> Accepted \cup {Nothing}]
    BY <1>2, <1>3 DEF SeriesInvariant
  <1>5. settings' = settings /\ step' = step /\ held' = held /\ cache' = cache
    BY DEF Create
  <1>6. (IF settings = Nothing THEN cache = EmptyCache ELSE Bounded(cache))'
    BY <1>1, <1>5, CachePreserved
  <1>7. (\A r \in Requests : held[r] # Nothing => Asked(r))'
    BY <1>5, AskedPreserved
  <1> QED
    BY <1>4, <1>5, <1>6, <1>7 DEF SeriesInvariant

LEMMA AdvancePreserves ==
    ASSUME SeriesInvariant, settings # Nothing, NEW s \in Simulations, Advance(s)
    PROVE  SeriesInvariant'
  <1>1. settings \in Configurations /\ Bounded(cache)
    BY DEF SeriesInvariant
  <1>2. /\ settings' = settings /\ parameters' = parameters /\ held' = held
        /\ step' = [step EXCEPT ![s] = @ + 1]
    BY DEF Advance
  <1>3. step' \in [Simulations -> Nat]
    BY <1>2 DEF SeriesInvariant
  <1>4. Bounded(cache')
    <2>1. CASE Ended(s)
      BY <2>1, EndedPreserves
    <2>2. CASE cache' = cache
      BY <1>1, <2>2
    <2> QED
      BY <2>1, <2>2 DEF Advance
  <1>5. (IF settings = Nothing THEN cache = EmptyCache ELSE Bounded(cache))'
    BY <1>2, <1>4, CachePreserved
  <1>6. (\A r \in Requests : held[r] # Nothing => Asked(r))'
    BY <1>2, AskedPreserved
  <1> QED
    BY <1>2, <1>3, <1>5, <1>6 DEF SeriesInvariant

LEMMA DeletePreserves ==
    ASSUME SeriesInvariant, settings # Nothing, NEW s \in Simulations, Delete(s)
    PROVE  SeriesInvariant'
  <1>1. settings \in Configurations /\ Bounded(cache) /\ parameters[s] \in Accepted
    BY DEF SeriesInvariant, Delete
  <1>2. /\ settings' = settings /\ held' = held
        /\ parameters' = [parameters EXCEPT ![s] = Nothing]
        /\ step' = [step EXCEPT ![s] = parameters[s].steps]
    BY DEF Delete
  <1>3. parameters[s].steps \in Nat
    <2>1. PICK caps \in Configurations : ValidParameters(parameters[s], caps)
      BY <1>1, AcceptedParameters
    <2> QED
      BY <2>1 DEF ValidParameters
  <1>4. /\ parameters' \in [Simulations -> Accepted \cup {Nothing}]
        /\ step' \in [Simulations -> Nat]
    BY <1>2, <1>3 DEF SeriesInvariant
  <1>5. (IF settings = Nothing THEN cache = EmptyCache ELSE Bounded(cache))'
    BY <1>2, EndedPreserves, CachePreserved DEF Delete
  <1>6. (\A r \in Requests : held[r] # Nothing => Asked(r))'
    BY <1>2, AskedPreserved
  <1> QED
    BY <1>2, <1>4, <1>5, <1>6 DEF SeriesInvariant

LEMMA LookupPreserves ==
    ASSUME SeriesInvariant, settings # Nothing, NEW r \in Requests, NEW s \in Simulations,
           parameters[s] # Nothing, NEW n \in 0 .. (parameters[s].steps - 1), Lookup(r, s, n)
    PROVE  SeriesInvariant'
  <1> DEFINE key == <<s, n>>
  <1>1. settings \in Configurations /\ Bounded(cache) /\ parameters[s] \in Accepted
    BY DEF SeriesInvariant
  <1>2. settings' = settings /\ parameters' = parameters /\ step' = step
    BY DEF Lookup
  <1>3. CASE key \in DOMAIN cache.entries
    <2>1. cache' = Touched(cache, key) /\ held' = held
      BY <1>3 DEF Lookup
    <2>2. Bounded(Touched(cache, key))
      BY <1>1, <1>3, TouchedIsBounded
    <2>3. (IF settings = Nothing THEN cache = EmptyCache ELSE Bounded(cache))'
      BY <1>2, <2>1, <2>2, CachePreserved
    <2>4. (\A q \in Requests : held[q] # Nothing => Asked(q))'
      BY <2>1, AskedPreserved
    <2> QED
      BY <1>2, <2>3, <2>4 DEF SeriesInvariant
  <1>4. CASE key \notin DOMAIN cache.entries
    <2>1. cache' = cache /\ held' = [held EXCEPT ![r] = <<key, parameters[s]>>]
      BY <1>4 DEF Lookup
    <2>2. (IF settings = Nothing THEN cache = EmptyCache ELSE Bounded(cache))'
      BY <1>1, <1>2, <2>1, CachePreserved
    <2>3. ASSUME NEW q \in Requests, held'[q] # Nothing
          PROVE  Asked(q)'
      <3>1. CASE held'[q] = held[q]
        BY <2>3, <3>1 DEF SeriesInvariant, Asked
      <3>2. CASE held'[q] = <<key, parameters[s]>>
        BY <1>1, <3>2 DEF Asked
      <3> QED
        BY <2>1, <3>1, <3>2
    <2> QED
      BY <1>2, <2>2, <2>3 DEF SeriesInvariant
  <1> QED
    BY <1>3, <1>4

LEMMA FilePreserves ==
    ASSUME SeriesInvariant, settings # Nothing, NEW r \in Requests, File(r)
    PROVE  SeriesInvariant'
  <1> DEFINE key == held[r][1]
             snapshot == Series[held[r][2]][key[2]]
  <1>1. settings \in Configurations /\ Bounded(cache) /\ Asked(r)
    BY DEF SeriesInvariant, File
  <1>2. /\ settings' = settings /\ parameters' = parameters /\ step' = step
        /\ held' = [held EXCEPT ![r] = Nothing]
        /\ cache' = IF snapshot.built THEN Inserted(cache, key, snapshot.contracts)
                                      ELSE cache
    BY DEF File
  <1>3. snapshot.contracts \in Nat
    BY <1>1, SeriesEntry DEF Asked
  <1> HIDE DEF snapshot
  <1>4. Bounded(Inserted(cache, key, snapshot.contracts))
    BY <1>1, <1>3, InsertedIsBounded
  <1>5. Bounded(cache')
    BY <1>1, <1>2, <1>4
  <1>6. (IF settings = Nothing THEN cache = EmptyCache ELSE Bounded(cache))'
    BY <1>2, <1>5, CachePreserved
  <1>7. ASSUME NEW q \in Requests, held'[q] # Nothing
        PROVE  Asked(q)'
    <2>1. held'[q] = held[q]
      BY <1>2, <1>7
    <2> QED
      BY <1>7, <2>1 DEF SeriesInvariant, Asked
  <1> QED
    BY <1>2, <1>6, <1>7 DEF SeriesInvariant

LEMMA SeriesPreserved == SeriesInvariant /\ [Next]_vars => SeriesInvariant'
  <1> SUFFICES ASSUME SeriesInvariant, [Next]_vars
               PROVE  SeriesInvariant'
    OBVIOUS
  <1>1. CASE Boot
    BY <1>1, BootPreserves
  <1>2. CASE Stop
    BY <1>2, StopPreserves
  <1>3. ASSUME settings # Nothing, NEW s \in Simulations, Create(s) \/ Advance(s) \/ Delete(s)
        PROVE  SeriesInvariant'
    BY <1>3, CreatePreserves, AdvancePreserves, DeletePreserves
  <1>4. ASSUME settings # Nothing, NEW r \in Requests, File(r)
        PROVE  SeriesInvariant'
    BY <1>4, FilePreserves
  <1>5. ASSUME settings # Nothing, NEW r \in Requests, NEW s \in Simulations,
               parameters[s] # Nothing, NEW n \in 0 .. (parameters[s].steps - 1),
               Lookup(r, s, n)
        PROVE  SeriesInvariant'
    BY <1>5, LookupPreserves
  <1>6. CASE UNCHANGED vars
    BY <1>6 DEF vars, SeriesInvariant, Asked, Bounded, Capacity, Budget
  <1> QED
    BY <1>1, <1>2, <1>3, <1>4, <1>5, <1>6 DEF Next, Serve

THEOREM SeriesInvariance == Spec => []SeriesInvariant
  BY SeriesInitially, SeriesPreserved, PTL DEF Spec

-----------------------------------------------------------------------------
(* What it implies                                                         *)

\* A cache that several requests fill is exact and within its two bounds.
THEOREM CacheExact == Spec => []CacheIsExact
  <1>1. SeriesInvariant => CacheIsExact
    <2> SUFFICES ASSUME SeriesInvariant
                 PROVE  CacheIsExact
      OBVIOUS
    <2>1. settings = Nothing => Exact(cache)
      BY EmptyIsExact DEF SeriesInvariant
    <2>2. settings # Nothing => Bounded(cache)
      BY DEF SeriesInvariant
    <2>3. cache.resident = Weight(cache.entries, DOMAIN cache.entries)
      BY <2>1, <2>2 DEF Bounded, Exact
    <2> QED
      BY <2>2, <2>3 DEF SeriesInvariant, CacheIsExact, Bounded
  <1> QED
    BY <1>1, SeriesInvariance, PTL

\* What a replica that serves a simulation knows of it.
LEMMA Served ==
    ASSUME SeriesInvariant, NEW s \in Simulations, Serves(s)
    PROVE  /\ settings \in Configurations
           /\ Series[parameters[s]][step[s]].contracts \in Nat
           /\ Series[parameters[s]][step[s]].contracts <= settings.OCS_MAX_SNAPSHOT_CONTRACTS
           /\ settings.OCS_MAX_SNAPSHOT_CONTRACTS \in Nat
  <1> DEFINE p == parameters[s]
  <1>1. /\ settings \in Configurations /\ p \in Accepted /\ step[s] \in Nat
        /\ step[s] < p.steps /\ ValidParameters(p, settings)
    BY DEF SeriesInvariant, Serves, Live, Loadable
  <1> HIDE DEF p
  <1>2. p.steps \in Nat
    <2>1. PICK caps \in Configurations : ValidParameters(p, caps)
      BY <1>1, AcceptedParameters
    <2> QED
      BY <2>1 DEF ValidParameters
  <1>3. step[s] \in 0 .. (p.steps - 1)
    BY <1>1, <1>2
  <1>4. /\ Series[p][step[s]].contracts \in Nat
        /\ Series[p][step[s]].contracts <= SnapshotWork(p)
        /\ Series[p][step[s]].contracts = Contracts(p, step[s])
    BY <1>1, <1>3, SeriesEntry
  <1>5. SnapshotWork(p) \in Nat /\ SnapshotWork(p) <= settings.OCS_MAX_SNAPSHOT_CONTRACTS
    BY <1>1, ContractsAreBounded DEF ValidParameters
  <1>6. settings.OCS_MAX_SNAPSHOT_CONTRACTS \in Nat
    <2>1. "OCS_MAX_SNAPSHOT_CONTRACTS" \in DOMAIN Defaults \ {Enabled}
      BY SettingsAssumption DEF Enabled
    <2> QED
      BY <1>1, <2>1, ConfigurationType
  <1> QED
    BY <1>1, <1>4, <1>5, <1>6 DEF p

\* No snapshot outgrows the cap that the replica runs with, although expirations are
\* merged as the simulation goes and the cap was another one when it was created.
THEOREM WorkBounded == Spec => []WorkIsBounded
  <1>1. SeriesInvariant => WorkIsBounded
    BY Served DEF WorkIsBounded
  <1> QED
    BY <1>1, SeriesInvariance, PTL

\* None outgrows the rows of a batch, because start-up compared the two settings.
THEOREM RowsFit == Spec => []RowsFitTheWarehouse
  <1>1. ASSUME SeriesInvariant, NEW s \in Simulations, Serves(s), settings[Enabled]
        PROVE  Series[parameters[s]][step[s]].contracts <= settings.OCS_SNAPSHOT_BATCH_ROWS
    <2>1. settings.OCS_MAX_SNAPSHOT_CONTRACTS <= settings.OCS_SNAPSHOT_BATCH_ROWS
      BY <1>1, Served, ConfigurationType
    <2>2. settings.OCS_SNAPSHOT_BATCH_ROWS \in Nat
      <3>1. "OCS_SNAPSHOT_BATCH_ROWS" \in DOMAIN Defaults \ {Enabled}
        BY SettingsAssumption DEF Enabled
      <3> QED
        BY <1>1, <3>1, Served, ConfigurationType
    <2> QED
      BY <1>1, <2>1, <2>2, Served
  <1>2. SeriesInvariant => RowsFitTheWarehouse
    BY <1>1 DEF RowsFitTheWarehouse
  <1> QED
    BY <1>2, SeriesInvariance, PTL

\* What creation accepts has no internal error later, save a jump diffusion outside of
\* its domain.
THEOREM RefusalsForeseen == Spec => []RefusalsAreForeseen
  <1>1. ASSUME SeriesInvariant, NEW s \in Simulations, Live(s),
               Tapes[parameters[s]].error = "internal"
        PROVE  LET m == parameters[s].method
               IN  m.kind = "JumpDiffusion" /\ Mul(m.intensity, m.dt) >= One
    <2>1. parameters[s] \in Accepted
      BY <1>1 DEF SeriesInvariant, Live
    <2>2. Tape(parameters[s], parameters[s].method).error = "internal"
      BY <1>1, <2>1 DEF Tapes
    <2> QED
      BY <2>1, <2>2, InternalErrors, KernelsAccept
  <1>2. SeriesInvariant => RefusalsAreForeseen
    BY <1>1 DEF RefusalsAreForeseen
  <1> QED
    BY <1>2, SeriesInvariance, PTL

-----------------------------------------------------------------------------
(* Expirations in time                                                     *)

\* The quotient of a division, between its neighbouring multiples.
LEMMA DivBounds ==
    ASSUME NEW a \in Int, NEW b \in Nat \ {0}
    PROVE  a \div b \in Int /\ (a \div b) * b <= a /\ a < (a \div b) * b + b
  OBVIOUS

LEMMA ProductsOfDates ==
    ASSUME NEW d \in Int, NEW e \in Int, d <= e
    PROVE  d * DayTicks \in Int /\ e * DayTicks \in Int /\ d * DayTicks <= e * DayTicks
  <1> DEFINE n == e - d
  <1>1. n \in Nat /\ e = d + n /\ DayTicks \in Nat
    BY PlannerAssumption
  <1>2. n * DayTicks \in Nat
    <2> HIDE DEF n
    <2> QED
      BY <1>1, ProductIsNatural
  <1>3. e * DayTicks = d * DayTicks + n * DayTicks
    BY <1>1
  <1>4. d * DayTicks \in Int
    BY <1>1
  <1> QED
    BY <1>2, <1>3, <1>4

\* The smallest element of a set of integers.
LEMMA MinIs ==
    ASSUME NEW S \in SUBSET Int, NEW m \in S, \A x \in S : m <= x
    PROVE  Min(S) = m
  <1>1. \A n \in S : (\A x \in S : n <= x) => n = m
    BY DEF Min
  <1> QED
    BY <1>1 DEF Min

\* An expiration is resolved to the first instant at which the zone's clocks have
\* reached its local time: the earlier of two readings, the end of a gap.
LEMMA ReachedIsResolved ==
    ASSUME NEW zone, IsZone(zone), NEW local \in Int
    PROVE  /\ InstantFor(zone, local) = Reached(zone, local)
           /\ InstantFor(zone, local) \in (local - DayTicks) .. (local + DayTicks)
           /\ Local(zone, InstantFor(zone, local)) >= local
           /\ \A u \in Int : Local(zone, u) >= local => InstantFor(zone, local) <= u
  <1> DEFINE s == zone.shift
             a == zone.after
             b == zone.before
             instant == IF local < s + b THEN local - b
                        ELSE IF local < s + a THEN s ELSE local - a
             window == {u \in (local - 2 * DayTicks) .. (local + 2 * DayTicks) :
                           Local(zone, u) >= local}
  <1>1. /\ s \in Int /\ a \in Int /\ b \in Int /\ DayTicks \in Nat
        /\ -DayTicks <= a /\ a <= DayTicks /\ -DayTicks <= b /\ b <= DayTicks
    BY PlannerAssumption DEF IsZone
  <1>2. \A u \in Int : Local(zone, u) = IF u < s THEN u + b ELSE u + a
    BY DEF Local, Offset
  <1>3. instant \in Int /\ instant \in (local - DayTicks) .. (local + DayTicks)
    BY <1>1
  <1>4. Local(zone, instant) >= local
    BY <1>1, <1>2, <1>3
  <1>5. \A u \in Int : Local(zone, u) >= local => instant <= u
    BY <1>1, <1>2
  <1>6. Reached(zone, local) = instant
    <2>1. window \in SUBSET Int /\ instant \in window
      BY <1>1, <1>3, <1>4
    <2>2. \A u \in window : instant <= u
      BY <1>5, <2>1
    <2> HIDE DEF instant
    <2>3. Min(window) = instant
      BY <2>1, <2>2, MinIs
    <2> QED
      BY <2>3 DEF Reached
  <1>7. InstantFor(zone, local) = instant
    <2> DEFINE readings == {u \in {local - b, local - a} : Local(zone, u) = local}
    <2>1. readings = Readings(zone, local)
      BY DEF Readings
    <2>2. readings \in SUBSET Int
      BY <1>1
    <2>3. CASE local >= s + b /\ local < s + a
      <3>1. Local(zone, local - b) # local /\ Local(zone, local - a) # local
        BY <1>1, <1>2, <2>3
      <3>2. readings = {}
        BY <3>1
      <3> QED
        BY <2>1, <2>3, <3>2, <1>1 DEF InstantFor
    <2>4. CASE ~(local >= s + b /\ local < s + a)
      <3>1. instant \in {local - b, local - a} /\ Local(zone, instant) = local
        BY <1>1, <1>2, <1>3, <2>4
      <3>2. instant \in readings /\ \A u \in readings : instant <= u
        BY <1>1, <1>5, <2>2, <3>1
      <3> HIDE DEF instant, readings
      <3>3. Min(readings) = instant
        BY <2>2, <3>2, MinIs
      <3> QED
        BY <2>1, <3>2, <3>3 DEF InstantFor
    <2> QED
      BY <2>3, <2>4
  <1> HIDE DEF instant
  <1> QED
    BY <1>3, <1>4, <1>5, <1>6, <1>7

\* The instant at which the schedule's rules expire on a date.
ExpiryOn(schedule, date) == InstantFor(schedule.zone, date * DayTicks + schedule.time)

IsTimed(schedule) == IsZone(schedule.zone) /\ schedule.time \in 0 .. DayTicks - 1

\* A later date never expires earlier, and three days later it expires later.
LEMMA ExpiriesInOrder ==
    ASSUME NEW schedule, IsTimed(schedule), NEW d \in Int, NEW e \in Int, d <= e
    PROVE  /\ ExpiryOn(schedule, d) \in Int /\ ExpiryOn(schedule, e) \in Int
           /\ ExpiryOn(schedule, d) <= ExpiryOn(schedule, e)
           /\ d + 3 <= e => ExpiryOn(schedule, d) < ExpiryOn(schedule, e)
  <1> DEFINE x == d * DayTicks + schedule.time
             y == e * DayTicks + schedule.time
             zone == schedule.zone
  <1>1. DayTicks \in Nat \ {0} /\ schedule.time \in Int /\ IsZone(zone)
    BY PlannerAssumption DEF IsTimed
  <1>2. x \in Int /\ y \in Int /\ x <= y
    BY <1>1, ProductsOfDates
  <1>3. ASSUME d + 3 <= e PROVE x + 3 * DayTicks <= y
    <2>1. (d + 3) * DayTicks <= e * DayTicks
      BY <1>3, ProductsOfDates
    <2>2. (d + 3) * DayTicks = d * DayTicks + 3 * DayTicks
      BY <1>1
    <2> QED
      BY <1>1, <1>2, <2>1, <2>2
  <1> HIDE DEF x, y, zone
  <1>4. /\ InstantFor(zone, x) \in (x - DayTicks) .. (x + DayTicks)
        /\ InstantFor(zone, y) \in (y - DayTicks) .. (y + DayTicks)
        /\ Local(zone, InstantFor(zone, y)) >= y
        /\ \A u \in Int : Local(zone, u) >= x => InstantFor(zone, x) <= u
    BY <1>1, <1>2, ReachedIsResolved
  <1>5. InstantFor(zone, x) \in Int /\ InstantFor(zone, y) \in Int
    BY <1>4
  <1>6. Local(zone, InstantFor(zone, y)) \in Int
    BY <1>1, <1>5 DEF Local, Offset, IsZone
  <1>7. InstantFor(zone, x) <= InstantFor(zone, y)
    BY <1>2, <1>4, <1>5, <1>6
  <1>8. d + 3 <= e => InstantFor(zone, x) < InstantFor(zone, y)
    BY <1>1, <1>2, <1>3, <1>4
  <1> QED
    BY <1>5, <1>7, <1>8 DEF ExpiryOn, x, y, zone

\* The scan starts at the zone's date: what expires on an earlier one is past, what
\* expires three days later is not.
LEMMA ScanStarts ==
    ASSUME NEW schedule, IsTimed(schedule), NEW now \in Int, NEW d \in Int
    PROVE  /\ LocalDate(schedule.zone, now) \in Int
           /\ d < LocalDate(schedule.zone, now) => ExpiryOn(schedule, d) <= now
           /\ d >= LocalDate(schedule.zone, now) + 3 => ExpiryOn(schedule, d) > now
  <1> DEFINE zone == schedule.zone
             start == LocalDate(zone, now)
             x == d * DayTicks + schedule.time
  <1>1. /\ DayTicks \in Nat \ {0} /\ schedule.time \in 0 .. DayTicks - 1 /\ IsZone(zone)
    BY PlannerAssumption DEF IsTimed
  <1>2. /\ Local(zone, now) \in Int
        /\ Local(zone, now) <= now + DayTicks /\ now - DayTicks <= Local(zone, now)
    BY <1>1 DEF Local, Offset, IsZone
  <1>3. /\ start \in Int
        /\ start * DayTicks <= Local(zone, now)
        /\ Local(zone, now) < start * DayTicks + DayTicks
    BY <1>1, <1>2, DivBounds DEF LocalDate
  <1> HIDE DEF start, zone
  <1>4. x \in Int /\ d * DayTicks \in Int /\ start * DayTicks \in Int
    BY <1>1, <1>3
  <1>5. /\ InstantFor(zone, x) \in (x - DayTicks) .. (x + DayTicks)
        /\ \A u \in Int : Local(zone, u) >= x => InstantFor(zone, x) <= u
    BY <1>1, <1>4, ReachedIsResolved
  <1>6. ASSUME d < start PROVE InstantFor(zone, x) <= now
    <2>1. (d + 1) * DayTicks <= start * DayTicks
      BY <1>3, <1>6, ProductsOfDates
    <2>2. (d + 1) * DayTicks = d * DayTicks + DayTicks
      BY <1>1
    <2>3. x <= Local(zone, now)
      BY <1>1, <1>2, <1>3, <1>4, <2>1, <2>2
    <2> QED
      BY <1>2, <1>4, <1>5, <2>3
  <1>7. ASSUME d >= start + 3 PROVE InstantFor(zone, x) > now
    <2>1. (start + 3) * DayTicks <= d * DayTicks
      BY <1>3, <1>7, ProductsOfDates
    <2>2. (start + 3) * DayTicks = start * DayTicks + 3 * DayTicks
      BY <1>1, <1>3
    <2> QED
      BY <1>1, <1>2, <1>3, <1>4, <1>5, <2>1, <2>2
  <1> QED
    BY <1>3, <1>6, <1>7 DEF ExpiryOn, start, zone

-----------------------------------------------------------------------------
(* The scan of a rule                                                      *)

\* What the places of a scan give, place by place.
LEMMA FoundAre ==
    ASSUME NEW schedule, NEW rule, NEW now, NEW places, NEW i
    PROVE  i \in Found(schedule, rule, now, places) <=>
               /\ i > now
               /\ \E k \in 0 .. places - 1 :
                      \E d \in Candidate(rule, LocalDate(schedule.zone, now), k) :
                          i = ExpiryOn(schedule, d)
  BY DEF Found, InstantsAt, ExpiryOn

\* A scan that sees as many dates as the rule asks for, each of them three days after
\* the start and after one another, finds enough.
LEMMA EnoughAreFound ==
    ASSUME NEW schedule, IsTimed(schedule), NEW rule, NEW now \in Int, NEW places \in Nat,
           NEW count \in Nat, NEW date \in [1 .. count -> Int],
           \A j \in 1 .. count :
               /\ date[j] >= LocalDate(schedule.zone, now) + 3
               /\ \E k \in 0 .. places - 1 :
                      date[j] \in Candidate(rule, LocalDate(schedule.zone, now), k),
           \A i, j \in 1 .. count : i < j => date[i] + 3 <= date[j],
           IsFiniteSet(Found(schedule, rule, now, places))
    PROVE  Cardinality(Found(schedule, rule, now, places)) >= count
  <1> DEFINE found == Found(schedule, rule, now, places)
             expiry == [j \in 1 .. count |-> ExpiryOn(schedule, date[j])]
  <1>1. \A j \in 1 .. count : expiry[j] \in found
    <2> TAKE j \in 1 .. count
    <2>1. ExpiryOn(schedule, date[j]) > now
      BY ScanStarts
    <2> QED
      BY <2>1, FoundAre
  <1>2. \A i, j \in 1 .. count :
            i < j => expiry[i] < expiry[j] /\ expiry[i] \in Int /\ expiry[j] \in Int
    <2> TAKE i, j \in 1 .. count
    <2> HAVE i < j
    <2>1. date[i] + 3 <= date[j] /\ date[i] \in Int /\ date[j] \in Int
      OBVIOUS
    <2> QED
      BY <2>1, ExpiriesInOrder
  <1>3. expiry \in Injection(1 .. count, found)
    <2>1. \A i, j \in 1 .. count : expiry[i] = expiry[j] => i = j
      <3> SUFFICES ASSUME NEW i \in 1 .. count, NEW j \in 1 .. count, expiry[i] = expiry[j]
                   PROVE  i = j
        OBVIOUS
      <3>1. ~(i < j) /\ ~(j < i)
        <4> HIDE DEF expiry
        <4> QED
          BY <1>2
      <3> QED
        BY <3>1
    <2>2. expiry \in [1 .. count -> found]
      BY <1>1
    <2> HIDE DEF expiry, found
    <2> QED
      BY <2>1, <2>2, Fun_IsInj
  <1>4. IsFiniteSet(1 .. count) /\ Cardinality(1 .. count) = count
    BY FS_Interval
  <1>5. IsFiniteSet(found) /\ Cardinality(found) \in Nat
    BY FS_CardinalityType
  <1> HIDE DEF expiry, found
  <1>6. Cardinality(1 .. count) <= Cardinality(found)
    BY <1>3, <1>5, FS_Injection
  <1> QED
    BY <1>4, <1>5, <1>6 DEF found

\* The largest element of a finite set of integers.
LEMMA MaxIs ==
    ASSUME NEW S \in SUBSET Int, IsFiniteSet(S), S # {}
    PROVE  Max(S) \in S /\ \A x \in S : x <= Max(S)
  <1>1. PICK n \in S : \A x \in S : x <= n
    BY LargestExists
  <1> QED
    BY <1>1, Zenon DEF Max

\* A scan with enough in reach stops at as many as the rule asks for.
LEMMA ScanIsFull ==
    ASSUME NEW schedule, NEW rule, NEW now, rule.count \in Nat,
           NEW enough \in 0 .. ScanBudget(rule),
           Cardinality(Found(schedule, rule, now, enough)) >= rule.count
    PROVE  \E places \in 0 .. enough :
               /\ ProjectRule(schedule, rule, now) = Found(schedule, rule, now, places)
               /\ Cardinality(Found(schedule, rule, now, places)) = rule.count
  <1>1. PICK last \in 0 .. ScanBudget(rule) :
            /\ ProjectRule(schedule, rule, now) = Found(schedule, rule, now, last)
            /\ Stops(schedule, rule, now, last)
            /\ \A fewer \in 0 .. last - 1 : ~Stops(schedule, rule, now, fewer)
    BY ScanEnds
  <1>2. ScanBudget(rule) \in Nat
    BY DEF ScanBudget
  <1>3. Stops(schedule, rule, now, enough)
    BY DEF Stops
  <1>4. last <= enough
    BY <1>1, <1>2, <1>3
  <1>5. Cardinality(Found(schedule, rule, now, last)) \in Nat
    BY <1>1, <1>2, FoundIsFinite, FS_CardinalityType
  <1>6. Cardinality(Found(schedule, rule, now, last)) >= rule.count
    <2>1. CASE last = ScanBudget(rule)
      <3>1. last = enough
        BY <1>2, <1>4, <2>1
      <3> QED
        BY <3>1
    <2>2. CASE last # ScanBudget(rule)
      BY <1>1, <2>2 DEF Stops
    <2> QED
      BY <2>1, <2>2
  <1>7. Cardinality(Found(schedule, rule, now, last)) <= rule.count
    BY <1>1, ScanIsBounded
  <1> QED
    BY <1>1, <1>2, <1>4, <1>5, <1>6, <1>7

\* If every date seen is one that the rule expires on, and a later one that it expires
\* on is seen or comes after all of those, then what was found is the nearest.
LEMMA FoundAreNearest ==
    ASSUME NEW schedule, IsTimed(schedule), NEW rule, NEW now \in Int, NEW places \in Nat,
           Found(schedule, rule, now, places) # {},
           \A k \in 0 .. places - 1 :
               \A d \in Candidate(rule, LocalDate(schedule.zone, now), k) :
                   d \in Int /\ ExpiresOn(rule, d),
           \A d \in Int :
               d >= LocalDate(schedule.zone, now) /\ ExpiresOn(rule, d) =>
                   \/ \E k \in 0 .. places - 1 :
                          d \in Candidate(rule, LocalDate(schedule.zone, now), k)
                   \/ \A k \in 0 .. places - 1 :
                          \A e \in Candidate(rule, LocalDate(schedule.zone, now), k) : e <= d
    PROVE  LET found == Found(schedule, rule, now, places)
           IN  found = {i \in Expirations(schedule, rule, now, Max(found)) : i <= Max(found)}
  <1> DEFINE found == Found(schedule, rule, now, places)
             start == LocalDate(schedule.zone, now)
             last == Max(found)
             Seen(d) == \E k \in 0 .. places - 1 : d \in Candidate(rule, start, k)
             dates == ((now \div DayTicks) - 2) .. ((last \div DayTicks) + 2)
  <1>1. \A d : Seen(d) => d \in Int /\ ExpiresOn(rule, d)
    OBVIOUS
  <1>2. \A i : i \in found <=> i > now /\ \E d : Seen(d) /\ i = ExpiryOn(schedule, d)
    BY FoundAre
  <1>3. found \in SUBSET Int /\ IsFiniteSet(found)
    BY <1>1, <1>2, FoundIsFinite, ExpiriesInOrder
  <1>4. last \in found /\ \A i \in found : i <= last
    BY <1>3, MaxIs
  <1>5. \A d \in Int : d >= start /\ ExpiresOn(rule, d) => Seen(d) \/ \A e : Seen(e) => e <= d
    OBVIOUS
  <1>6. /\ DayTicks \in Nat \ {0} /\ last \in Int /\ start \in Int
        /\ schedule.time \in 0 .. DayTicks - 1 /\ IsZone(schedule.zone)
    BY <1>3, <1>4, ScanStarts, PlannerAssumption DEF IsTimed
  <1>7. \A i : i \in Expirations(schedule, rule, now, last) <=>
                  i > now /\ \E d \in dates : ExpiresOn(rule, d) /\ i = ExpiryOn(schedule, d)
    <2>1. \A d \in Int : Reached(schedule.zone, d * DayTicks + schedule.time)
                            = ExpiryOn(schedule, d)
      <3> TAKE d \in Int
      <3>1. d * DayTicks + schedule.time \in Int
        BY <1>6
      <3> QED
        BY <1>6, <3>1, ReachedIsResolved DEF ExpiryOn
    <2>2. dates \subseteq Int
      BY <1>6, DivBounds
    <2> HIDE DEF last
    <2> QED
      BY <2>1, <2>2 DEF Expirations
  <1> HIDE DEF found, last, start, Seen
  <1>8. ASSUME NEW i \in found
        PROVE  i \in Expirations(schedule, rule, now, last)
    <2>1. PICK d : Seen(d) /\ i = ExpiryOn(schedule, d)
      BY <1>2
    <2>2. d \in Int /\ ExpiresOn(rule, d) /\ i \in Int /\ i <= last /\ i > now
      BY <1>1, <1>2, <1>3, <1>4, <2>1
    <2>3. d * DayTicks \in Int
      BY <1>6, <2>2
    <2>4. /\ d * DayTicks + schedule.time - DayTicks <= i
          /\ i <= d * DayTicks + schedule.time + DayTicks
      <3> DEFINE x == d * DayTicks + schedule.time
      <3>1. x \in Int
        BY <1>6, <2>3
      <3> HIDE DEF x
      <3>2. InstantFor(schedule.zone, x) \in (x - DayTicks) .. (x + DayTicks)
        BY <1>6, <3>1, ReachedIsResolved
      <3>3. i = InstantFor(schedule.zone, x)
        BY <2>1 DEF ExpiryOn, x
      <3>4. i \in (x - DayTicks) .. (x + DayTicks)
        BY <3>2, <3>3
      <3>5. x - DayTicks <= i /\ i <= x + DayTicks
        BY <1>6, <2>2, <3>1, <3>4
      <3> QED
        BY <1>6, <2>2, <2>3, <3>5 DEF x
    <2>5. d >= (now \div DayTicks) - 2
      <3> DEFINE q == now \div DayTicks
      <3>1. q \in Int /\ q * DayTicks <= now
        BY <1>6, DivBounds
      <3> HIDE DEF q
      <3> SUFFICES ASSUME d + 2 <= q PROVE FALSE
        BY <2>2, <3>1 DEF q
      <3>2. (d + 2) * DayTicks <= q * DayTicks
        BY <2>2, <3>1, ProductsOfDates
      <3>3. (d + 2) * DayTicks = d * DayTicks + 2 * DayTicks
        BY <1>6, <2>2
      <3>4. q * DayTicks \in Int
        BY <1>6, <3>1
      <3> QED
        BY <1>6, <2>2, <2>3, <2>4, <3>1, <3>2, <3>3, <3>4
    <2>6. d <= (last \div DayTicks) + 2
      <3> DEFINE q == last \div DayTicks
      <3>1. q \in Int /\ last < q * DayTicks + DayTicks
        BY <1>6, DivBounds
      <3> HIDE DEF q
      <3> SUFFICES ASSUME q + 2 <= d PROVE FALSE
        BY <2>2, <3>1 DEF q
      <3>2. (q + 2) * DayTicks <= d * DayTicks
        BY <2>2, <3>1, ProductsOfDates
      <3>3. (q + 2) * DayTicks = q * DayTicks + 2 * DayTicks
        BY <1>6, <3>1
      <3>4. q * DayTicks \in Int
        BY <1>6, <3>1
      <3> QED
        BY <1>6, <2>2, <2>3, <2>4, <3>1, <3>2, <3>3, <3>4
    <2>7. d \in dates
      <3>1. now \div DayTicks \in Int /\ last \div DayTicks \in Int
        BY <1>6, DivBounds
      <3> QED
        BY <2>2, <2>5, <2>6, <3>1
    <2> QED
      BY <1>7, <2>1, <2>2, <2>7
  <1>9. ASSUME NEW i \in Expirations(schedule, rule, now, last), i <= last
        PROVE  i \in found
    <2>1. PICK d \in dates : i > now /\ ExpiresOn(rule, d) /\ i = ExpiryOn(schedule, d)
      BY <1>7
    <2>2. d \in Int
      <3>1. now \div DayTicks \in Int /\ last \div DayTicks \in Int
        BY <1>6, DivBounds
      <3> QED
        BY <2>1, <3>1
    <2>3. i \in Int
      BY <2>1, <2>2, ExpiriesInOrder
    <2>4. d >= start
      <3>1. d < start => i <= now
        BY <2>1, <2>2, ScanStarts DEF start
      <3> QED
        BY <1>6, <2>1, <2>2, <2>3, <3>1
    <2>5. CASE Seen(d)
      BY <1>2, <2>1, <2>5
    <2>6. CASE ~Seen(d)
      <3>1. PICK e : Seen(e) /\ last = ExpiryOn(schedule, e)
        BY <1>2, <1>4
      <3>2. e \in Int /\ e <= d
        BY <1>1, <1>5, <2>1, <2>2, <2>4, <2>6, <3>1
      <3>3. last <= i
        BY <2>1, <2>2, <3>1, <3>2, ExpiriesInOrder
      <3>4. i = last
        BY <1>6, <1>9, <2>3, <3>3
      <3> QED
        BY <1>4, <3>4
    <2> QED
      BY <2>5, <2>6
  <1>10. found = {i \in Expirations(schedule, rule, now, last) : i <= last}
    BY <1>4, <1>8, <1>9
  <1> QED
    BY <1>10 DEF found, last

\* The rule has as many expirations as it asks for, and they are the nearest ones.
IsNearest(schedule, rule, now, found) ==
    /\ Cardinality(found) = rule.count
    /\ found = {i \in Expirations(schedule, rule, now, Max(found)) : i <= Max(found)}

\* A rule by days finds one weekday a week at least, which 8 places for each expiration
\* have room for; and it looks at every date.
LEMMA DayRulesAreNearest ==
    ASSUME NEW schedule, IsTimed(schedule), NEW rule, ByDay(rule), rule.count \in Nat \ {0},
           rule.kind = "weekly" => rule.weekdays \subseteq 0 .. 4 /\ rule.weekdays # {},
           NEW now \in Int
    PROVE  IsNearest(schedule, rule, now, ProjectRule(schedule, rule, now))
  <1> DEFINE start == LocalDate(schedule.zone, now)
             count == rule.count
  <1>1. start \in Int
    BY ScanStarts, PlannerAssumption
  <1>2. /\ rule.kind \in {"daily", "weekly"}
        /\ ScanBudget(rule) = 8 * count + 32
        /\ \A k : Candidate(rule, start, k) = DayCandidate(rule, start, k)
    BY DEF ByDay, ScanBudget, Candidate
  <1> HIDE DEF start
  <1>3. PICK w \in 0 .. 4 : rule.kind = "weekly" => w \in rule.weekdays
    BY <1>2
  <1>4. PICK first \in (start + 3) .. (start + 9) : first % 7 = w
    <2> DEFINE f == start + 3 + ((w - (start + 3)) % 7)
    <2>1. f \in (start + 3) .. (start + 9) /\ f % 7 = w
      BY <1>1, <1>3
    <2> QED
      BY <2>1
  <1> DEFINE date == [j \in 1 .. count |-> first + 7 * (j - 1)]
  <1>5. date \in [1 .. count -> Int]
    BY <1>1, <1>4
  <1>6. ASSUME NEW j \in 1 .. count
        PROVE  /\ date[j] >= start + 3
               /\ \E k \in 0 .. ScanBudget(rule) - 1 : date[j] \in Candidate(rule, start, k)
    <2> DEFINE k == first + 7 * (j - 1) - start
    <2>1. k \in 0 .. ScanBudget(rule) - 1 /\ k \in Int /\ start + k = first + 7 * (j - 1)
      BY <1>1, <1>2, <1>4
    <2>2. (first + 7 * (j - 1)) % 7 = w /\ w < 5
      BY <1>1, <1>3, <1>4
    <2>3. date[j] = first + 7 * (j - 1)
      OBVIOUS
    <2> HIDE DEF k
    <2>4. Candidate(rule, start, k) = {start + k}
      BY <1>2, <1>3, <2>1, <2>2 DEF DayCandidate, Eligible, Weekday
    <2>5. date[j] >= start + 3
      BY <1>1, <1>4
    <2> QED
      BY <2>1, <2>3, <2>4, <2>5
  <1>7. \A i, j \in 1 .. count : i < j => date[i] + 3 <= date[j]
    BY <1>1, <1>4
  <1>8. ScanBudget(rule) \in Nat
    BY <1>2
  <1> HIDE DEF date
  <1>9. Cardinality(Found(schedule, rule, now, ScanBudget(rule))) >= count
    BY <1>5, <1>6, <1>7, <1>8, FoundIsFinite, EnoughAreFound DEF start
  <1>10. PICK places \in 0 .. ScanBudget(rule) :
            /\ ProjectRule(schedule, rule, now) = Found(schedule, rule, now, places)
            /\ Cardinality(Found(schedule, rule, now, places)) = count
    BY <1>8, <1>9, ScanIsFull
  <1>11. places \in Nat /\ Found(schedule, rule, now, places) # {}
    BY <1>8, <1>10, FS_EmptySet
  <1>12. ASSUME NEW k \in 0 .. places - 1, NEW d \in Candidate(rule, start, k)
         PROVE  d = start + k /\ d \in Int /\ ExpiresOn(rule, d)
    <2>1. k \in Int
      BY <1>11
    <2>2. d = start + k /\ Eligible(d) /\ (rule.kind = "weekly" => Weekday(d) \in rule.weekdays)
      BY <1>2, <1>12 DEF DayCandidate
    <2>3. d \in Int
      BY <1>1, <2>1, <2>2
    <2>4. d % 7 \in 0 .. 4
      BY <2>2, <2>3 DEF Eligible, Weekday
    <2> QED
      BY <1>2, <2>2, <2>3, <2>4 DEF ExpiresOn, Weekday
  <1>13. ASSUME NEW d \in Int, d >= start, ExpiresOn(rule, d)
         PROVE  \/ \E k \in 0 .. places - 1 : d \in Candidate(rule, start, k)
                \/ \A k \in 0 .. places - 1 : \A e \in Candidate(rule, start, k) : e <= d
    <2> DEFINE k == d - start
    <2>1. k \in Nat /\ start + k = d
      BY <1>1, <1>13
    <2>2. Eligible(d) /\ (rule.kind = "weekly" => Weekday(d) \in rule.weekdays)
      <3>1. d % 7 \in 0 .. 4
        BY <1>13, Zenon DEF ExpiresOn
      <3>2. Eligible(d)
        BY <3>1 DEF Eligible, Weekday
      <3>3. ASSUME rule.kind = "weekly" PROVE d % 7 \in rule.weekdays
        BY <1>13, <3>3 DEF ExpiresOn
      <3> QED
        BY <3>2, <3>3 DEF Weekday
    <2>3. d \in Candidate(rule, start, k)
      BY <1>2, <2>1, <2>2 DEF DayCandidate
    <2>4. CASE k < places
      BY <1>11, <2>1, <2>3, <2>4
    <2>5. CASE k >= places
      <3> SUFFICES ASSUME NEW j \in 0 .. places - 1, NEW e \in Candidate(rule, start, j)
                   PROVE  e <= d
        OBVIOUS
      <3>1. e = start + j /\ j \in Int /\ j < places
        BY <1>11, <1>12
      <3> QED
        BY <1>1, <1>11, <2>1, <2>5, <3>1
    <2> QED
      BY <1>11, <2>1, <2>4, <2>5
  <1> DEFINE found == Found(schedule, rule, now, places)
  <1>14. found = {i \in Expirations(schedule, rule, now, Max(found)) : i <= Max(found)}
    BY <1>11, <1>12, <1>13, FoundAreNearest DEF start
  <1> QED
    BY <1>10, <1>14 DEF IsNearest

-----------------------------------------------------------------------------
(* The calendar                                                            *)

NextOf(ym) == AddMonths(ym[1], ym[2], 1)

\* The calendar has the date, in the month ym, and the month after that.
IsIn(date, ym) ==
    /\ ym \in DOMAIN FirstOf /\ NextOf(ym) \in DOMAIN FirstOf
    /\ FirstOf[ym] <= date /\ date < FirstOf[NextOf(ym)]

LEMMA MonthType ==
    ASSUME NEW ym \in DOMAIN FirstOf
    PROVE  /\ ym[1] \in Nat /\ ym[1] \in Years /\ ym[2] \in 1 .. 12
           /\ ym = <<ym[1], ym[2]>>
           /\ MonthNumber(ym) \in Nat /\ FirstOf[ym] \in Nat
  <1>1. ym \in Nat \X (1 .. 12)
    BY PlannerAssumption
  <1>2. ym[1] \in Nat /\ ym[2] \in 1 .. 12 /\ ym = <<ym[1], ym[2]>>
    BY <1>1
  <1>3. FirstOf[ym] \in Nat
    BY PlannerAssumption
  <1>4. MonthNumber(ym) \in Nat
    BY <1>2 DEF MonthNumber
  <1> QED
    BY <1>2, <1>3, <1>4 DEF Years

\* The month that is some months later.
LEMMA MonthsLater ==
    ASSUME NEW year \in Nat, NEW month \in 1 .. 12, NEW k \in Nat
    PROVE  LET to == AddMonths(year, month, k)
           IN  /\ to[1] \in Nat /\ to[2] \in 1 .. 12 /\ to = <<to[1], to[2]>>
               /\ MonthNumber(to) = 12 * year + month + k
               /\ year <= to[1]
  <1> DEFINE total == (month - 1) + k
             q == total \div 12
             r == total % 12
  <1>1. total \in Nat /\ q \in Nat /\ r \in 0 .. 11 /\ total = 12 * q + r
    OBVIOUS
  <1>2. AddMonths(year, month, k) = <<year + q, r + 1>>
    BY DEF AddMonths
  <1> HIDE DEF q, r
  <1> QED
    BY <1>1, <1>2 DEF MonthNumber

\* Months with the same number are the same, and an earlier one starts earlier.
LEMMA MonthsInOrder ==
    ASSUME NEW a \in DOMAIN FirstOf, NEW b \in DOMAIN FirstOf
    PROVE  /\ MonthNumber(a) = MonthNumber(b) => a = b
           /\ MonthNumber(a) <= MonthNumber(b) => FirstOf[a] <= FirstOf[b]
           /\ MonthNumber(a) < MonthNumber(b) => FirstOf[a] + 28 <= FirstOf[b]
  <1>1. ASSUME MonthNumber(a) = MonthNumber(b) PROVE a = b
    <2>1. a[1] = b[1] /\ a[2] = b[2]
      BY <1>1, MonthType DEF MonthNumber
    <2> QED
      BY <2>1, MonthType
  <1>2. MonthNumber(a) < MonthNumber(b) => FirstOf[a] + 28 <= FirstOf[b]
    BY CalendarAssumption
  <1>3. MonthNumber(a) \in Nat /\ MonthNumber(b) \in Nat /\ FirstOf[a] \in Nat /\ FirstOf[b] \in Nat
    BY MonthType
  <1> QED
    BY <1>1, <1>2, <1>3

\* No month is missing between two of the calendar.
LEMMA MonthBetween ==
    ASSUME NEW a \in DOMAIN FirstOf, NEW b \in DOMAIN FirstOf, NEW year \in Nat,
           NEW month \in 1 .. 12, a[1] <= year, year <= b[1]
    PROVE  <<year, month>> \in DOMAIN FirstOf
  <1>1. a[1] \in Years /\ b[1] \in Years /\ a[1] \in Nat /\ b[1] \in Nat
    BY MonthType
  <1>2. year \in a[1] .. b[1]
    BY <1>1
  <1>3. year \in Years
    BY <1>1, <1>2, CalendarAssumption
  <1> QED
    BY <1>3, CalendarAssumption

LEMMA NextMonth ==
    ASSUME NEW a \in DOMAIN FirstOf, NEW b \in DOMAIN FirstOf, MonthNumber(a) < MonthNumber(b)
    PROVE  /\ NextOf(a) \in DOMAIN FirstOf /\ MonthNumber(NextOf(a)) = MonthNumber(a) + 1
           /\ FirstOf[NextOf(a)] <= FirstOf[b]
  <1> DEFINE to == NextOf(a)
  <1>1. /\ a[1] \in Nat /\ a[2] \in 1 .. 12 /\ b[1] \in Nat /\ b[2] \in 1 .. 12
    BY MonthType
  <1>2. /\ to[1] \in Nat /\ to[2] \in 1 .. 12 /\ to = <<to[1], to[2]>> /\ a[1] <= to[1]
        /\ MonthNumber(to) = 12 * a[1] + a[2] + 1
    BY <1>1, MonthsLater DEF NextOf
  <1> HIDE DEF to
  <1>3. MonthNumber(to) = MonthNumber(a) + 1 /\ MonthNumber(to) <= MonthNumber(b)
    BY <1>1, <1>2 DEF MonthNumber
  <1>4. to[1] <= b[1]
    BY <1>1, <1>2, <1>3 DEF MonthNumber
  <1>5. to \in DOMAIN FirstOf
    BY <1>2, <1>4, MonthBetween
  <1>6. FirstOf[to] <= FirstOf[b]
    BY <1>3, <1>5, MonthsInOrder
  <1> QED
    BY <1>3, <1>5, <1>6 DEF to

\* A date of the calendar is in one month.
LEMMA MonthIs ==
    ASSUME NEW date \in Int, NEW ym, IsIn(date, ym)
    PROVE  MonthOf(date) = ym
  <1> DEFINE Has(a) == FirstOf[a] <= date /\ date < FirstOf[AddMonths(a[1], a[2], 1)]
  <1>1. ym \in DOMAIN FirstOf /\ NextOf(ym) \in DOMAIN FirstOf /\ Has(ym)
    BY DEF IsIn, NextOf
  <1>2. FirstOf[ym] \in Nat /\ FirstOf[NextOf(ym)] \in Nat /\ MonthNumber(ym) \in Nat
    BY <1>1, MonthType
  <1>3. MonthNumber(NextOf(ym)) = MonthNumber(ym) + 1
    <2>1. ym[1] \in Nat /\ ym[2] \in 1 .. 12
      BY <1>1, MonthType
    <2> QED
      BY <2>1, MonthsLater DEF NextOf, MonthNumber
  <1>4. ASSUME NEW a \in DOMAIN FirstOf, Has(a) PROVE a = ym
    <2>1. MonthNumber(a) \in Nat /\ FirstOf[a] \in Nat
      BY MonthType
    <2>2. ~(MonthNumber(a) > MonthNumber(ym))
      <3> SUFFICES ASSUME MonthNumber(a) >= MonthNumber(NextOf(ym)) PROVE FALSE
        BY <1>2, <1>3, <2>1
      <3>1. FirstOf[NextOf(ym)] <= FirstOf[a]
        BY <1>1, <1>2, <1>3, <2>1, MonthsInOrder
      <3> QED
        BY <1>1, <1>2, <1>4, <2>1, <3>1 DEF NextOf
    <2>3. ~(MonthNumber(a) < MonthNumber(ym))
      <3> SUFFICES ASSUME MonthNumber(a) < MonthNumber(ym) PROVE FALSE
        OBVIOUS
      <3>1. NextOf(a) \in DOMAIN FirstOf /\ FirstOf[NextOf(a)] <= FirstOf[ym]
        BY <1>1, NextMonth
      <3>2. FirstOf[NextOf(a)] \in Nat
        BY <3>1, MonthType
      <3>3. date < FirstOf[NextOf(a)]
        BY <1>4 DEF NextOf
      <3> HIDE DEF Has
      <3> QED
        BY <1>1, <1>2, <3>1, <3>2, <3>3 DEF Has
    <2>4. MonthNumber(a) = MonthNumber(ym)
      BY <1>2, <2>1, <2>2, <2>3
    <2> QED
      BY <1>1, <2>4, MonthsInOrder
  <1>5. MonthOf(date) = CHOOSE a \in DOMAIN FirstOf : Has(a)
    BY DEF MonthOf
  <1> HIDE DEF Has
  <1> QED
    BY <1>1, <1>4, <1>5, Zenon

\* A date from the first of one month on and before the first of another is in one.
LEMMA MonthExists ==
    ASSUME NEW a \in DOMAIN FirstOf, NEW b \in DOMAIN FirstOf, NEW date \in Int,
           FirstOf[a] <= date, date < FirstOf[b]
    PROVE  \E ym \in DOMAIN FirstOf :
               /\ IsIn(date, ym)
               /\ MonthNumber(a) <= MonthNumber(ym) /\ MonthNumber(ym) < MonthNumber(b)
  <1> DEFINE reached == {MonthNumber(ym) : ym \in {c \in DOMAIN FirstOf : FirstOf[c] <= date}}
             after == {MonthNumber(ym) : ym \in {c \in DOMAIN FirstOf : date < FirstOf[c]}}
  <1>1. \A ym \in DOMAIN FirstOf : MonthNumber(ym) \in Nat /\ FirstOf[ym] \in Nat
    BY MonthType
  <1>2. after \in SUBSET Nat /\ MonthNumber(b) \in after
    BY <1>1
  <1>3. PICK n \in after : \A m \in after : n <= m
    BY <1>2, SmallestExists
  <1>4. PICK late \in DOMAIN FirstOf : date < FirstOf[late] /\ n = MonthNumber(late)
    BY <1>3
  <1>5. MonthNumber(a) < n
    <2> SUFFICES ASSUME MonthNumber(late) <= MonthNumber(a) PROVE FALSE
      BY <1>1, <1>4
    <2>1. FirstOf[late] <= FirstOf[a]
      BY MonthsInOrder
    <2> QED
      BY <1>1, <1>4, <2>1
  <1> DEFINE year == (n - 2) \div 12
             month == ((n - 2) % 12) + 1
             ym == <<year, month>>
  <1>6. /\ n \in Nat /\ MonthNumber(a) \in Nat /\ MonthNumber(a) >= 1
        /\ a[1] \in Nat /\ a[2] \in 1 .. 12 /\ late[1] \in Nat /\ late[2] \in 1 .. 12
    BY <1>1, <1>4, MonthType DEF MonthNumber
  <1>7. year \in Nat /\ month \in 1 .. 12 /\ 12 * year + month = n - 1
    BY <1>5, <1>6
  <1>8. a[1] <= year /\ year <= late[1]
    <2> HIDE DEF year, month
    <2> QED
      BY <1>4, <1>5, <1>6, <1>7 DEF MonthNumber
  <1> HIDE DEF year, month
  <1>9. ym \in DOMAIN FirstOf /\ MonthNumber(ym) = n - 1
    <2>1. <<year, month>> \in DOMAIN FirstOf
      BY <1>7, <1>8, MonthBetween
    <2> QED
      BY <1>7, <2>1 DEF MonthNumber
  <1> HIDE DEF ym
  <1>10. NextOf(ym) \in DOMAIN FirstOf /\ MonthNumber(NextOf(ym)) = n
    BY <1>4, <1>6, <1>9, NextMonth
  <1>11. NextOf(ym) = late
    BY <1>4, <1>10, MonthsInOrder
  <1>12. FirstOf[ym] <= date
    <2> SUFFICES ASSUME date < FirstOf[ym] PROVE FALSE
      BY <1>1, <1>9
    <2>1. MonthNumber(ym) \in after
      BY <1>9
    <2> QED
      BY <1>3, <1>6, <1>9, <2>1
  <1>13. n <= MonthNumber(b)
    BY <1>2, <1>3
  <1>14. IsIn(date, ym)
    BY <1>4, <1>9, <1>10, <1>11, <1>12 DEF IsIn
  <1> QED
    BY <1>1, <1>5, <1>6, <1>9, <1>13, <1>14

\* The last of a weekday in a month is in the month's last week, and alone in it.
LEMMA LastIs ==
    ASSUME NEW ym, NextOf(ym) \in DOMAIN FirstOf, NEW weekday \in 0 .. 6
    PROVE  LET last == LastWeekday(ym[1], ym[2], weekday)
               end  == FirstOf[NextOf(ym)]
           IN  /\ last \in Int /\ last % 7 = weekday /\ end - 7 <= last /\ last < end
               /\ \A d \in Int : d % 7 = weekday /\ end - 7 <= d /\ d < end => d = last
  <1> DEFINE end == FirstOf[NextOf(ym)]
             last == LastWeekday(ym[1], ym[2], weekday)
  <1>1. end \in Nat
    BY MonthType
  <1>2. last = (end - 1) - ((((end - 1) % 7) + 7 - weekday) % 7)
    BY DEF LastWeekday, NextOf, Weekday
  <1> HIDE DEF end, last
  <1>3. last \in Int /\ last % 7 = weekday /\ end - 7 <= last /\ last < end
    BY <1>1, <1>2
  <1>4. \A d \in Int : d % 7 = weekday /\ end - 7 <= d /\ d < end => d = last
    BY <1>1, <1>3
  <1> QED
    BY <1>3, <1>4 DEF end, last

-----------------------------------------------------------------------------
(* Rules by months and years                                               *)

IsPeriodic(rule) ==
    /\ rule.kind \in {"monthly", "yearly"}
    /\ rule.count \in Nat \ {0}
    /\ rule.weekday \in 0 .. 4
    /\ rule.kind = "yearly" => rule.month \in 1 .. 12

\* The month that a place of the scan of such a rule looks at.
PeriodMonth(rule, ym, index) ==
    IF rule.kind = "monthly" THEN AddMonths(ym[1], ym[2], index)
                             ELSE <<AddYears(ym[1], index), rule.month>>

\* The calendar has the months of all places up to the rule's count, and two more.
LEMMA PeriodMonths ==
    ASSUME NEW rule, IsPeriodic(rule), NEW ym \in DOMAIN FirstOf,
           ym[1] + (rule.count + 1) \in Years, NEW k \in 0 .. rule.count
    PROVE  LET to == PeriodMonth(rule, ym, k)
           IN  /\ to \in DOMAIN FirstOf
               /\ NextOf(to) \in DOMAIN FirstOf
               /\ NextOf(NextOf(to)) \in DOMAIN FirstOf
               /\ MonthNumber(to) = IF rule.kind = "monthly" THEN MonthNumber(ym) + k
                                    ELSE 12 * (ym[1] + k) + rule.month
               /\ MonthNumber(NextOf(to)) = MonthNumber(to) + 1
               /\ rule.kind = "yearly" => to[2] = rule.month
  <1> DEFINE to == PeriodMonth(rule, ym, k)
             final == <<ym[1] + (rule.count + 1), 12>>
  <1>1. /\ ym[1] \in Nat /\ ym[2] \in 1 .. 12 /\ k \in Nat /\ rule.count \in Nat \ {0}
        /\ k <= rule.count
    BY MonthType DEF IsPeriodic
  <1>2. final \in DOMAIN FirstOf /\ MonthNumber(final) = 12 * (ym[1] + rule.count + 1) + 12
    <2>1. final \in DOMAIN FirstOf
      BY CalendarAssumption
    <2> QED
      BY <1>1, <2>1 DEF MonthNumber
  <1>3. /\ to[1] \in Nat /\ to[2] \in 1 .. 12 /\ to = <<to[1], to[2]>> /\ ym[1] <= to[1]
        /\ MonthNumber(to) = IF rule.kind = "monthly" THEN 12 * ym[1] + ym[2] + k
                             ELSE 12 * (ym[1] + k) + rule.month
        /\ rule.kind = "yearly" => to[2] = rule.month
    <2>1. CASE rule.kind = "monthly"
      BY <1>1, <2>1, MonthsLater DEF PeriodMonth
    <2>2. CASE rule.kind = "yearly"
      <3>1. to = <<ym[1] + k, rule.month>> /\ rule.month \in 1 .. 12
        BY <2>2 DEF PeriodMonth, AddYears, IsPeriodic
      <3> HIDE DEF to
      <3> QED
        BY <1>1, <2>2, <3>1 DEF MonthNumber
    <2> QED
      BY <2>1, <2>2 DEF IsPeriodic
  <1> HIDE DEF to, final
  <1>4. MonthNumber(to) = 12 * to[1] + to[2]
    BY DEF MonthNumber
  <1>5. MonthNumber(to) + 2 <= MonthNumber(final) /\ to[1] <= ym[1] + (rule.count + 1)
    <2>1. CASE rule.kind = "monthly"
      BY <1>1, <1>2, <1>3, <1>4, <2>1
    <2>2. CASE rule.kind = "yearly"
      <3>1. rule.month \in 1 .. 12
        BY <2>2 DEF IsPeriodic
      <3> QED
        BY <1>1, <1>2, <1>3, <1>4, <2>2, <3>1
    <2> QED
      BY <2>1, <2>2 DEF IsPeriodic
  <1>6. to \in DOMAIN FirstOf
    <2>1. to[1] <= final[1]
      BY <1>5 DEF final
    <2> QED
      BY <1>2, <1>3, <2>1, MonthBetween
  <1>7. MonthNumber(to) \in Nat /\ MonthNumber(final) \in Nat
    BY <1>2, <1>6, MonthType
  <1>8. NextOf(to) \in DOMAIN FirstOf /\ MonthNumber(NextOf(to)) = MonthNumber(to) + 1
    BY <1>2, <1>5, <1>6, <1>7, NextMonth
  <1>9. NextOf(NextOf(to)) \in DOMAIN FirstOf
    BY <1>2, <1>5, <1>7, <1>8, NextMonth
  <1>10. MonthNumber(ym) = 12 * ym[1] + ym[2]
    BY DEF MonthNumber
  <1> QED
    BY <1>1, <1>3, <1>6, <1>8, <1>9, <1>10 DEF to

\* The date of such a place.
LastOf(rule, ym, index) ==
    LET to == PeriodMonth(rule, ym, index) IN LastWeekday(to[1], to[2], rule.weekday)

\* It is one that the rule expires on, the only one in its month, and no other place
\* gives it.
LEMMA PlaceOfPeriod ==
    ASSUME NEW rule, IsPeriodic(rule), NEW start \in Int, NEW ym, IsIn(start, ym),
           ym[1] + (rule.count + 1) \in Years, NEW k \in 0 .. rule.count
    PROVE  LET to   == PeriodMonth(rule, ym, k)
               last == LastOf(rule, ym, k)
           IN  /\ last \in Int /\ Candidate(rule, start, k) = {last}
               /\ FirstOf[to] + 21 <= last
               /\ FirstOf[NextOf(to)] - 7 <= last /\ last < FirstOf[NextOf(to)]
               /\ ExpiresOn(rule, last)
               /\ \A d \in Int : IsIn(d, to) /\ ExpiresOn(rule, d) => d = last
  <1> DEFINE to == PeriodMonth(rule, ym, k)
             last == LastOf(rule, ym, k)
             end == FirstOf[NextOf(to)]
  <1>1. ym \in DOMAIN FirstOf
    BY DEF IsIn
  <1>2. /\ to \in DOMAIN FirstOf /\ NextOf(to) \in DOMAIN FirstOf
        /\ NextOf(NextOf(to)) \in DOMAIN FirstOf
        /\ MonthNumber(NextOf(to)) = MonthNumber(to) + 1
        /\ rule.kind = "yearly" => to[2] = rule.month
    BY <1>1, PeriodMonths
  <1>3. rule.weekday \in 0 .. 4 /\ rule.weekday \in 0 .. 6
    BY DEF IsPeriodic
  <1>4. last = LastWeekday(to[1], to[2], rule.weekday)
    BY DEF LastOf
  <1>5. Candidate(rule, start, k) = {last}
    <2>1. MonthOf(start) = ym
      BY MonthIs
    <2>2. ~ByDay(rule)
      BY DEF IsPeriodic, ByDay
    <2>3. to = IF rule.kind = "monthly" THEN AddMonths(ym[1], ym[2], k)
               ELSE <<AddYears(ym[1], k), rule.month>>
      BY DEF PeriodMonth
    <2> HIDE DEF to, last
    <2>4. last % 7 = rule.weekday
      BY <1>2, <1>3, <1>4, LastIs
    <2>5. Eligible(last)
      BY <1>3, <2>4 DEF Eligible, Weekday
    <2> QED
      BY <1>4, <2>1, <2>2, <2>3, <2>5 DEF Candidate, PeriodCandidate
  <1> HIDE DEF to, last
  <1>6. /\ last \in Int /\ last % 7 = rule.weekday /\ end - 7 <= last /\ last < end
        /\ \A d \in Int : d % 7 = rule.weekday /\ end - 7 <= d /\ d < end => d = last
    BY <1>2, <1>3, <1>4, LastIs
  <1>7. /\ MonthNumber(to) \in Nat /\ FirstOf[to] \in Nat /\ end \in Nat
        /\ MonthNumber(NextOf(to)) \in Nat /\ FirstOf[NextOf(NextOf(to))] \in Nat
        /\ NextOf(to)[1] \in Nat /\ NextOf(to)[2] \in 1 .. 12
    BY <1>2, MonthType
  <1>8. FirstOf[to] + 28 <= end
    BY <1>2, <1>7, MonthsInOrder
  <1>9. end + 28 <= FirstOf[NextOf(NextOf(to))]
    <2>1. MonthNumber(NextOf(NextOf(to))) = MonthNumber(NextOf(to)) + 1
      BY <1>7, MonthsLater DEF NextOf, MonthNumber
    <2> QED
      BY <1>2, <1>7, <2>1, MonthsInOrder
  <1> HIDE DEF end
  <1>10. IsIn(last, to)
    BY <1>2, <1>6, <1>7, <1>8 DEF IsIn, end
  <1>11. IsIn(last + 7, NextOf(to))
    BY <1>2, <1>6, <1>7, <1>9 DEF IsIn, end
  <1>12. MonthOf(last) = to /\ MonthOf(last + 7) = NextOf(to) /\ to # NextOf(to)
    <2>1. last + 7 \in Int
      BY <1>6
    <2> QED
      BY <1>2, <1>6, <1>7, <1>10, <1>11, <2>1, MonthIs
  <1>13. ExpiresOn(rule, last)
    <2>1. last % 7 \in 0 .. 4
      BY <1>3, <1>6
    <2> QED
      BY <1>2, <1>6, <1>12, <2>1 DEF ExpiresOn, IsPeriodic
  <1>14. ASSUME NEW d \in Int, IsIn(d, to), ExpiresOn(rule, d) PROVE d = last
    <2>1. MonthOf(d) = to /\ FirstOf[to] <= d /\ d < end
      BY <1>14, MonthIs DEF IsIn, end
    <2>2. d % 7 = rule.weekday /\ MonthOf(d + 7) # MonthOf(d)
      BY <1>14 DEF ExpiresOn, IsPeriodic
    <2>3. ~(d + 7 < end)
      <3> SUFFICES ASSUME d + 7 < end PROVE FALSE
        OBVIOUS
      <3>1. d + 7 \in Int /\ IsIn(d + 7, to)
        BY <1>2, <1>7, <1>14, <2>1 DEF IsIn, end
      <3> QED
        BY <2>1, <2>2, <3>1, MonthIs
    <2> QED
      BY <1>6, <1>7, <2>1, <2>2, <2>3
  <1> QED
    BY <1>5, <1>6, <1>7, <1>8, <1>13, <1>14 DEF to, last, end

\* Later places give later dates, in later months.
LEMMA PlacesInOrder ==
    ASSUME NEW rule, IsPeriodic(rule), NEW start \in Int, NEW ym, IsIn(start, ym),
           ym[1] + (rule.count + 1) \in Years,
           NEW k \in 0 .. rule.count, NEW l \in 0 .. rule.count, k < l
    PROVE  /\ MonthNumber(PeriodMonth(rule, ym, k)) < MonthNumber(PeriodMonth(rule, ym, l))
           /\ FirstOf[NextOf(PeriodMonth(rule, ym, k))] <= FirstOf[PeriodMonth(rule, ym, l)]
           /\ LastOf(rule, ym, k) + 3 <= LastOf(rule, ym, l)
  <1> DEFINE a == PeriodMonth(rule, ym, k)
             b == PeriodMonth(rule, ym, l)
  <1>1. ym \in DOMAIN FirstOf
    BY DEF IsIn
  <1>2. /\ ym[1] \in Nat /\ MonthNumber(ym) \in Nat /\ k \in Nat /\ l \in Nat
    BY <1>1, MonthType DEF IsPeriodic
  <1>3. /\ a \in DOMAIN FirstOf /\ b \in DOMAIN FirstOf
        /\ MonthNumber(a) = IF rule.kind = "monthly" THEN MonthNumber(ym) + k
                            ELSE 12 * (ym[1] + k) + rule.month
        /\ MonthNumber(b) = IF rule.kind = "monthly" THEN MonthNumber(ym) + l
                            ELSE 12 * (ym[1] + l) + rule.month
    BY <1>1, PeriodMonths
  <1> HIDE DEF a, b
  <1>4. MonthNumber(a) < MonthNumber(b)
    <2>1. CASE rule.kind = "monthly"
      BY <1>2, <1>3, <2>1
    <2>2. CASE rule.kind = "yearly"
      <3>1. rule.month \in Nat
        BY <2>2 DEF IsPeriodic
      <3> QED
        BY <1>2, <1>3, <2>2, <3>1
    <2> QED
      BY <2>1, <2>2 DEF IsPeriodic
  <1>5. NextOf(a) \in DOMAIN FirstOf /\ FirstOf[NextOf(a)] <= FirstOf[b]
    BY <1>3, <1>4, NextMonth
  <1>6. /\ LastOf(rule, ym, k) \in Int /\ LastOf(rule, ym, k) < FirstOf[NextOf(a)]
        /\ LastOf(rule, ym, l) \in Int /\ FirstOf[b] + 21 <= LastOf(rule, ym, l)
    BY PlaceOfPeriod DEF a, b
  <1>7. FirstOf[NextOf(a)] \in Nat /\ FirstOf[b] \in Nat
    BY <1>3, <1>5, MonthType
  <1>8. LastOf(rule, ym, k) + 3 <= LastOf(rule, ym, l)
    BY <1>5, <1>6, <1>7
  <1> QED
    BY <1>4, <1>5, <1>8 DEF a, b

\* A date that such a rule expires on, up to the month of its last place, is given by a
\* place.
LEMMA DatesHavePlaces ==
    ASSUME NEW rule, IsPeriodic(rule), NEW start \in Int, NEW ym, IsIn(start, ym),
           ym[1] + (rule.count + 1) \in Years,
           NEW d \in Int, start <= d, ExpiresOn(rule, d),
           d < FirstOf[NextOf(PeriodMonth(rule, ym, rule.count))]
    PROVE  \E k \in 0 .. rule.count : d = LastOf(rule, ym, k) /\ IsIn(d, PeriodMonth(rule, ym, k))
  <1> DEFINE final == PeriodMonth(rule, ym, rule.count)
  <1>1. ym \in DOMAIN FirstOf /\ FirstOf[ym] <= start
    BY DEF IsIn
  <1>2. rule.count \in Nat /\ rule.count \in 0 .. rule.count
    BY DEF IsPeriodic
  <1>3. /\ final \in DOMAIN FirstOf
        /\ NextOf(final) \in DOMAIN FirstOf /\ MonthNumber(NextOf(final)) = MonthNumber(final) + 1
        /\ MonthNumber(final) = IF rule.kind = "monthly" THEN MonthNumber(ym) + rule.count
                                ELSE 12 * (ym[1] + rule.count) + rule.month
    BY <1>1, <1>2, PeriodMonths
  <1>4. FirstOf[ym] \in Nat /\ FirstOf[ym] <= d
    BY <1>1, MonthType
  <1>5. PICK in \in DOMAIN FirstOf :
            /\ IsIn(d, in)
            /\ MonthNumber(ym) <= MonthNumber(in) /\ MonthNumber(in) < MonthNumber(NextOf(final))
    BY <1>1, <1>3, <1>4, MonthExists DEF final
  <1>6. MonthOf(d) = in
    BY <1>5, MonthIs
  <1>7. /\ in[1] \in Nat /\ in[2] \in 1 .. 12 /\ MonthNumber(in) \in Nat
        /\ ym[1] \in Nat /\ ym[2] \in 1 .. 12 /\ MonthNumber(ym) \in Nat
        /\ MonthNumber(final) \in Nat
    BY <1>1, <1>3, <1>5, MonthType
  <1>8. /\ MonthNumber(in) = 12 * in[1] + in[2] /\ MonthNumber(ym) = 12 * ym[1] + ym[2]
        /\ MonthNumber(in) <= MonthNumber(final)
    BY <1>3, <1>5, <1>7 DEF MonthNumber
  <1> HIDE DEF final
  <1>9. \E k \in 0 .. rule.count :
            MonthNumber(in) = IF rule.kind = "monthly" THEN MonthNumber(ym) + k
                              ELSE 12 * (ym[1] + k) + rule.month
    <2>1. CASE rule.kind = "monthly"
      <3> DEFINE k == MonthNumber(in) - MonthNumber(ym)
      <3>1. k \in 0 .. rule.count /\ MonthNumber(in) = MonthNumber(ym) + k
        BY <1>2, <1>3, <1>5, <1>7, <1>8, <2>1
      <3> QED
        BY <2>1, <3>1
    <2>2. CASE rule.kind = "yearly"
      <3> DEFINE k == in[1] - ym[1]
      <3>1. in[2] = rule.month /\ rule.month \in 1 .. 12
        BY <1>6, <2>2 DEF ExpiresOn, IsPeriodic
      <3>2. k \in 0 .. rule.count
        BY <1>2, <1>3, <1>5, <1>7, <1>8, <2>2, <3>1
      <3>3. MonthNumber(in) = 12 * (ym[1] + k) + rule.month
        BY <1>7, <1>8, <3>1
      <3> QED
        BY <2>2, <3>2, <3>3
    <2> QED
      BY <2>1, <2>2 DEF IsPeriodic
  <1>10. PICK k \in 0 .. rule.count :
            MonthNumber(in) = IF rule.kind = "monthly" THEN MonthNumber(ym) + k
                              ELSE 12 * (ym[1] + k) + rule.month
    BY <1>9
  <1>11. /\ PeriodMonth(rule, ym, k) \in DOMAIN FirstOf
         /\ MonthNumber(PeriodMonth(rule, ym, k)) = MonthNumber(in)
    BY <1>1, <1>10, PeriodMonths
  <1>12. PeriodMonth(rule, ym, k) = in
    BY <1>11, MonthsInOrder
  <1>13. d = LastOf(rule, ym, k)
    BY <1>5, <1>12, PlaceOfPeriod
  <1> QED
    BY <1>5, <1>12, <1>13

\* A rule by months or years finds one expiration in every period after the first: one
\* place more than it asks for is enough, and two fit its budget.
LEMMA PeriodRulesAreNearest ==
    ASSUME NEW schedule, IsTimed(schedule), NEW rule, IsPeriodic(rule), NEW now \in Int,
           Covers(LocalDate(schedule.zone, now), rule.count + 1)
    PROVE  IsNearest(schedule, rule, now, ProjectRule(schedule, rule, now))
  <1> DEFINE start == LocalDate(schedule.zone, now)
             count == rule.count
  <1>1. start \in Int
    BY ScanStarts, PlannerAssumption
  <1>2. /\ count \in Nat \ {0} /\ ScanBudget(rule) = count + 2
        /\ rule.kind \in {"monthly", "yearly"}
    BY DEF ByDay, ScanBudget, IsPeriodic
  <1>3. PICK ym \in DOMAIN FirstOf :
            /\ ym[1] + (count + 1) \in Years
            /\ FirstOf[ym] <= start /\ start < FirstOf[NextOf(ym)]
    BY DEF Covers, NextOf
  <1> HIDE DEF start
  <1>4. /\ ym[1] \in Nat /\ ym[2] \in 1 .. 12 /\ MonthNumber(ym) \in Nat
        /\ MonthNumber(ym) = 12 * ym[1] + ym[2]
    BY MonthType DEF MonthNumber
  <1>5. /\ IsIn(start, ym) /\ MonthNumber(NextOf(ym)) = MonthNumber(ym) + 1
        /\ FirstOf[NextOf(ym)] \in Nat /\ NextOf(ym) \in DOMAIN FirstOf
    <2> DEFINE final == <<ym[1] + (count + 1), 12>>
    <2>1. final \in DOMAIN FirstOf
      BY <1>3, CalendarAssumption
    <2>2. MonthNumber(final) = 12 * (ym[1] + (count + 1)) + 12
      BY DEF MonthNumber
    <2> HIDE DEF final
    <2>3. MonthNumber(ym) < MonthNumber(final)
      BY <1>2, <1>4, <2>2
    <2>4. NextOf(ym) \in DOMAIN FirstOf /\ MonthNumber(NextOf(ym)) = MonthNumber(ym) + 1
      BY <2>1, <2>3, NextMonth
    <2> QED
      BY <1>3, <2>4, MonthType DEF IsIn
  <1> DEFINE date == [j \in 1 .. count |-> LastOf(rule, ym, j)]
  <1>6. ASSUME NEW k \in 0 .. count
        PROVE  /\ LastOf(rule, ym, k) \in Int /\ Candidate(rule, start, k) = {LastOf(rule, ym, k)}
               /\ ExpiresOn(rule, LastOf(rule, ym, k))
               /\ LastOf(rule, ym, k) < FirstOf[NextOf(PeriodMonth(rule, ym, k))]
    BY <1>1, <1>3, <1>5, <1>6, PlaceOfPeriod
  <1>7. ASSUME NEW k \in 0 .. count, NEW l \in 0 .. count, k < l
        PROVE  LastOf(rule, ym, k) + 3 <= LastOf(rule, ym, l)
    BY <1>1, <1>3, <1>5, <1>7, PlacesInOrder
  <1>8. ASSUME NEW k \in 1 .. count PROVE LastOf(rule, ym, k) >= start + 3
    <2> DEFINE to == PeriodMonth(rule, ym, k)
    <2>1. k \in 0 .. count /\ k >= 1 /\ k \in Nat
      BY <1>2, <1>8
    <2>2. /\ to \in DOMAIN FirstOf /\ FirstOf[to] + 21 <= LastOf(rule, ym, k)
          /\ MonthNumber(to) = IF rule.kind = "monthly" THEN MonthNumber(ym) + k
                               ELSE 12 * (ym[1] + k) + rule.month
      BY <1>1, <1>3, <1>5, <2>1, PeriodMonths, PlaceOfPeriod
    <2> HIDE DEF to
    <2>3. MonthNumber(NextOf(ym)) <= MonthNumber(to)
      <3>1. CASE rule.kind = "monthly"
        BY <1>4, <1>5, <2>1, <2>2, <3>1
      <3>2. CASE rule.kind = "yearly"
        <4>1. rule.month \in 1 .. 12
          BY <3>2 DEF IsPeriodic
        <4> QED
          BY <1>4, <1>5, <2>1, <2>2, <3>2, <4>1
      <3> QED
        BY <1>2, <3>1, <3>2
    <2>4. FirstOf[NextOf(ym)] <= FirstOf[to] /\ FirstOf[to] \in Nat
      BY <1>5, <2>2, <2>3, MonthsInOrder, MonthType
    <2> QED
      BY <1>1, <1>3, <1>5, <1>6, <2>1, <2>2, <2>4
  <1>9. count + 1 \in Nat /\ count + 1 \in 0 .. ScanBudget(rule)
    BY <1>2
  <1>10. Cardinality(Found(schedule, rule, now, count + 1)) >= count
    <2>1. date \in [1 .. count -> Int]
      BY <1>2, <1>6
    <2>2. ASSUME NEW j \in 1 .. count
          PROVE  /\ date[j] >= start + 3
                 /\ \E k \in 0 .. (count + 1) - 1 : date[j] \in Candidate(rule, start, k)
      <3>1. j \in 0 .. count /\ j \in 0 .. (count + 1) - 1
        BY <1>2, <2>2
      <3>2. date[j] \in Candidate(rule, start, j)
        BY <1>6, <3>1
      <3> QED
        BY <1>8, <3>1, <3>2
    <2>3. \A i, j \in 1 .. count : i < j => date[i] + 3 <= date[j]
      <3> TAKE i, j \in 1 .. count
      <3>1. i \in 0 .. count /\ j \in 0 .. count
        BY <1>2
      <3> QED
        BY <1>7, <3>1
    <2> HIDE DEF date
    <2> QED
      BY <1>2, <1>9, <2>1, <2>2, <2>3, FoundIsFinite, EnoughAreFound DEF start
  <1>11. PICK places \in 0 .. count + 1 :
            /\ ProjectRule(schedule, rule, now) = Found(schedule, rule, now, places)
            /\ Cardinality(Found(schedule, rule, now, places)) = count
    BY <1>2, <1>9, <1>10, ScanIsFull
  <1>12. /\ places \in Nat /\ Found(schedule, rule, now, places) # {}
         /\ \A k \in 0 .. places - 1 : k \in 0 .. count
    BY <1>2, <1>11, FS_EmptySet
  <1>13. ASSUME NEW k \in 0 .. places - 1, NEW d \in Candidate(rule, start, k)
         PROVE  d \in Int /\ ExpiresOn(rule, d) /\ d = LastOf(rule, ym, k)
    <2>1. k \in 0 .. count
      BY <1>12
    <2> QED
      BY <1>6, <1>13, <2>1
  <1>14. ASSUME NEW d \in Int, d >= start, ExpiresOn(rule, d)
         PROVE  \/ \E k \in 0 .. places - 1 : d \in Candidate(rule, start, k)
                \/ \A k \in 0 .. places - 1 : \A e \in Candidate(rule, start, k) : e <= d
    <2> DEFINE end == FirstOf[NextOf(PeriodMonth(rule, ym, count))]
    <2>1. end \in Nat
      <3>1. count \in 0 .. count
        BY <1>2
      <3> QED
        BY <1>3, <3>1, PeriodMonths, MonthType
    <2>2. CASE d < end
      <3>1. PICK l \in 0 .. count : d = LastOf(rule, ym, l)
        BY <1>1, <1>3, <1>5, <1>14, <2>2, DatesHavePlaces
      <3>2. CASE l < places
        <4>1. l \in 0 .. places - 1 /\ d \in Candidate(rule, start, l)
          BY <1>2, <1>6, <1>12, <3>1, <3>2
        <4> QED
          BY <4>1
      <3>3. CASE l >= places
        <4> SUFFICES ASSUME NEW k \in 0 .. places - 1, NEW e \in Candidate(rule, start, k)
                     PROVE  e <= d
          OBVIOUS
        <4>1. e \in Int /\ e = LastOf(rule, ym, k) /\ k \in 0 .. count /\ k < l
          BY <1>2, <1>12, <1>13, <3>3
        <4> QED
          BY <1>7, <3>1, <4>1
      <3> QED
        BY <1>2, <1>12, <3>2, <3>3
    <2>3. CASE d >= end
      <3> SUFFICES ASSUME NEW k \in 0 .. places - 1, NEW e \in Candidate(rule, start, k)
                   PROVE  e <= d
        OBVIOUS
      <3>1. e \in Int /\ e = LastOf(rule, ym, k) /\ k \in 0 .. count
        BY <1>12, <1>13
      <3>2. count \in 0 .. count /\ LastOf(rule, ym, count) \in Int /\ LastOf(rule, ym, count) < end
        BY <1>2, <1>6
      <3>3. e <= LastOf(rule, ym, count)
        <4>1. CASE k = count
          BY <3>1, <3>2, <4>1
        <4>2. CASE k < count
          BY <1>7, <3>1, <3>2, <4>2
        <4> QED
          BY <1>2, <3>1, <4>1, <4>2
      <3> HIDE DEF end
      <3> QED
        BY <2>1, <2>3, <3>1, <3>2, <3>3
    <2> HIDE DEF end
    <2> QED
      BY <2>1, <2>2, <2>3
  <1> DEFINE found == Found(schedule, rule, now, places)
  <1>15. found = {i \in Expirations(schedule, rule, now, Max(found)) : i <= Max(found)}
    BY <1>12, <1>13, <1>14, FoundAreNearest DEF start
  <1> QED
    BY <1>11, <1>15 DEF IsNearest

-----------------------------------------------------------------------------
(* The inventory                                                           *)

\* What the checks of a rule's fields leave it to be.
LEMMA CheckedRule ==
    ASSUME NEW wire, IsWire(wire), FieldsFit(wire), ValidRule(Rule(wire))
    PROVE  LET rule == Rule(wire)
           IN  /\ rule.count \in Nat \ {0}
               /\ rule.kind = "weekly" => rule.weekdays \subseteq 0 .. 4 /\ rule.weekdays # {}
               /\ ~ByDay(rule) => IsPeriodic(rule)
  <1> DEFINE rule == Rule(wire)
  <1>1. wire.kind \in {"daily", "weekly", "monthly", "yearly"}
    BY DEF FieldsFit
  <1>2. rule.count \in Nat \ {0}
    BY PlannerAssumption DEF ValidRule
  <1>3. \A w \in NamedWeekdays(rule) : w < 5
    BY DEF ValidRule
  <1>4. CASE wire.kind = "daily"
    <2>1. rule = wire
      BY <1>4 DEF Rule
    <2> QED
      BY <1>2, <1>4, <2>1 DEF ByDay
  <1>5. CASE wire.kind = "weekly"
    <2>1. "weekdays" \in DOMAIN wire /\ "kind" \in DOMAIN wire /\ wire.weekdays \in Seq(0 .. 6)
      BY <1>5 DEF FieldsFit, Given, IsWire
    <2>2. rule = [wire EXCEPT !.weekdays = ToSet(@)]
      BY <1>5 DEF Rule
    <2>3. rule.kind = "weekly" /\ rule.weekdays = ToSet(wire.weekdays)
      BY <1>5, <2>1, <2>2
    <2>4. ToSet(wire.weekdays) \subseteq 0 .. 6
      BY <2>1 DEF ToSet
    <2> HIDE DEF rule
    <2>5. NamedWeekdays(rule) = rule.weekdays
      BY <2>3 DEF NamedWeekdays
    <2>6. rule.weekdays # {}
      BY <2>3 DEF ValidRule, rule
    <2> QED
      BY <1>2, <1>3, <2>3, <2>4, <2>5, <2>6 DEF ByDay, rule
  <1>6. CASE wire.kind = "monthly"
    <2>1. rule = wire
      BY <1>6 DEF Rule
    <2>2. wire.weekday \in 0 .. 6
      BY <1>6 DEF FieldsFit, Given, IsWire
    <2>3. NamedWeekdays(rule) = {rule.weekday}
      BY <1>6, <2>1 DEF NamedWeekdays
    <2> QED
      BY <1>2, <1>3, <1>6, <2>1, <2>2, <2>3 DEF ByDay, IsPeriodic
  <1>7. CASE wire.kind = "yearly"
    <2>1. rule = WithDefaults(wire, [month |-> 12])
      BY <1>7 DEF Rule
    <2>2. "weekday" \in DOMAIN wire /\ wire.weekday \in 0 .. 6 /\ "kind" \in DOMAIN wire
      BY <1>7 DEF FieldsFit, Given, IsWire
    <2>3. rule.kind = "yearly" /\ rule.weekday = wire.weekday
      BY <1>7, <2>1, <2>2 DEF WithDefaults, Default
    <2> HIDE DEF rule
    <2>4. NamedWeekdays(rule) = {rule.weekday}
      BY <2>3 DEF NamedWeekdays
    <2>5. rule.month \in 1 .. 12
      BY <2>3 DEF ValidRule, rule
    <2> QED
      BY <1>2, <1>3, <2>2, <2>3, <2>4, <2>5 DEF ByDay, IsPeriodic, rule
  <1> QED
    BY <1>1, <1>4, <1>5, <1>6, <1>7

\* The schedule of a simulation that was accepted.
LEMMA AcceptedSchedule ==
    ASSUME NEW p \in Accepted
    PROVE  /\ p.start \in Int /\ p.interval \in Int /\ IsTimed(p.schedule)
           /\ \A rule \in ToSet(p.schedule.rules) :
                  /\ rule.count \in Nat \ {0}
                  /\ rule.kind = "weekly" => rule.weekdays \subseteq 0 .. 4 /\ rule.weekdays # {}
                  /\ ~ByDay(rule) => IsPeriodic(rule)
           /\ \A rule, other \in ToSet(p.schedule.rules) : rule.id = other.id => rule = other
  <1>1. PICK caps \in Configurations : ValidParameters(p, caps)
    BY AcceptedFrom
  <1>2. ValidSchedule(p.schedule) /\ p.interval \in Int /\ p.start \in Int
    BY <1>1, AcceptedFrom, ParametersAssumption DEF ValidParameters
  <1>3. PICK request :
            /\ IsRequest(request) /\ Readable(request)
            /\ p.schedule = [zone  |-> request.zone,
                             time  |-> request.time,
                             rules |-> [i \in DOMAIN request.rules |-> Rule(request.rules[i])]]
    BY AcceptedFrom
  <1>4. IsTimed(p.schedule)
    <2>1. request.zone \in Zones /\ request.time \in Times
      BY <1>3 DEF Readable
    <2>2. p.schedule.zone = request.zone /\ p.schedule.time = request.time
      BY <1>3
    <2> QED
      BY <2>1, <2>2, ParametersAssumption DEF IsTimed
  <1>5. ASSUME NEW rule \in ToSet(p.schedule.rules)
        PROVE  /\ rule.count \in Nat \ {0}
               /\ rule.kind = "weekly" => rule.weekdays \subseteq 0 .. 4 /\ rule.weekdays # {}
               /\ ~ByDay(rule) => IsPeriodic(rule)
    <2>1. PICK i \in DOMAIN request.rules : rule = Rule(request.rules[i])
      BY <1>3 DEF ToSet
    <2>2. request.rules[i] \in ToSet(request.rules)
      BY DEF ToSet
    <2>3. IsWire(request.rules[i]) /\ FieldsFit(request.rules[i])
      BY <1>3, <2>2 DEF IsRequest, Readable
    <2>4. ValidRule(rule)
      BY <1>2 DEF ValidSchedule
    <2> QED
      BY <2>1, <2>3, <2>4, CheckedRule
  <1>6. ASSUME NEW rule \in ToSet(p.schedule.rules), NEW other \in ToSet(p.schedule.rules),
               rule.id = other.id
        PROVE  rule = other
    <2>1. PICK i, j \in DOMAIN p.schedule.rules :
              rule = p.schedule.rules[i] /\ other = p.schedule.rules[j]
      BY DEF ToSet
    <2> QED
      BY <1>2, <1>6, <2>1 DEF ValidSchedule
  <1> QED
    BY <1>2, <1>4, <1>5, <1>6

\* What an inventory labels with a rule is what the rule's scan found.
LEMMA Labelled ==
    ASSUME NEW schedule, NEW now, NEW rule \in ToSet(schedule.rules),
           \A one, other \in ToSet(schedule.rules) : one.id = other.id => one = other
    PROVE  LET inventory == ActiveAt(schedule, now)
           IN  {i \in DOMAIN inventory : rule.id \in inventory[i]}
                   = ProjectRule(schedule, rule, now)
  <1> DEFINE rules == ToSet(schedule.rules)
             found == [r \in rules |-> ProjectRule(schedule, r, now)]
             inventory == [instant \in UNION Range(found) |->
                              {r.id : r \in {q \in DOMAIN found : instant \in found[q]}}]
  <1>1. ActiveAt(schedule, now) = inventory
    BY DEF ActiveAt
  <1>2. /\ DOMAIN found = rules /\ \A r \in rules : found[r] = ProjectRule(schedule, r, now)
        /\ found[rule] \subseteq UNION Range(found)
    BY DEF Range
  <1>3. /\ DOMAIN inventory = UNION Range(found)
        /\ \A i \in UNION Range(found) :
               inventory[i] = {r.id : r \in {q \in DOMAIN found : i \in found[q]}}
    OBVIOUS
  <1> HIDE DEF found, inventory, rules
  <1>4. ASSUME NEW i \in DOMAIN inventory, rule.id \in inventory[i] PROVE i \in found[rule]
    <2>1. PICK r \in DOMAIN found : i \in found[r] /\ r.id = rule.id
      BY <1>3, <1>4
    <2>2. r = rule
      BY <1>2, <2>1 DEF rules
    <2> QED
      BY <2>1, <2>2
  <1>5. ASSUME NEW i \in found[rule] PROVE i \in DOMAIN inventory /\ rule.id \in inventory[i]
    <2>1. i \in UNION Range(found) /\ rule \in DOMAIN found
      BY <1>2 DEF rules
    <2> QED
      BY <1>3, <2>1
  <1>6. {i \in DOMAIN inventory : rule.id \in inventory[i]} = found[rule]
    BY <1>4, <1>5
  <1>7. found[rule] = ProjectRule(schedule, rule, now)
    BY <1>2 DEF rules
  <1> QED
    BY <1>1, <1>6, <1>7

\* No step of a simulation is ever short, and what it carries is the nearest.
THEOREM InventoryComplete == Spec => []InventoryIsComplete
  <1>1. ASSUME NEW p \in Accepted, NEW n \in 0 .. (p.steps - 1) PROVE Complete[p][n]
    <2> DEFINE now == SimulatedAt(p, n)
    <2>1. p.steps \in Nat
      <3>1. PICK caps \in Configurations : ValidParameters(p, caps)
        BY AcceptedFrom
      <3> QED
        BY <3>1 DEF ValidParameters
    <2>2. now \in Int
      <3>1. n \in Int /\ p.start \in Int /\ p.interval \in Int
        BY <2>1, AcceptedSchedule
      <3> QED
        BY <3>1 DEF SimulatedAt
    <2> SUFFICES ASSUME NEW rule \in ToSet(p.schedule.rules)
                 PROVE  HasNearest(p.schedule, rule, now, Inventory(p, n))
      BY DEF Complete
    <2>3. IsNearest(p.schedule, rule, now, ProjectRule(p.schedule, rule, now))
      <3>1. CASE ByDay(rule)
        BY <2>2, <3>1, AcceptedSchedule, DayRulesAreNearest
      <3>2. CASE ~ByDay(rule)
        <4>1. Covers(LocalDate(p.schedule.zone, now), rule.count + 1)
          BY <3>2, HorizonAssumption
        <4> QED
          BY <2>2, <3>2, <4>1, AcceptedSchedule, PeriodRulesAreNearest
      <3> QED
        BY <3>1, <3>2
    <2>4. {i \in DOMAIN Inventory(p, n) : rule.id \in Inventory(p, n)[i]}
              = ProjectRule(p.schedule, rule, now)
      BY AcceptedSchedule, Labelled DEF Inventory
    <2> QED
      BY <2>3, <2>4 DEF HasNearest, IsNearest
  <1>2. ASSUME SeriesInvariant, NEW s \in Simulations, Live(s)
        PROVE  Complete[parameters[s]][step[s]]
    <2>1. parameters[s] \in Accepted /\ step[s] \in Nat /\ step[s] < parameters[s].steps
      BY <1>2 DEF SeriesInvariant, Live
    <2>2. PICK caps \in Configurations : ValidParameters(parameters[s], caps)
      BY <2>1, AcceptedFrom
    <2>3. step[s] \in 0 .. (parameters[s].steps - 1)
      BY <2>1, <2>2 DEF ValidParameters
    <2> QED
      BY <1>1, <2>1, <2>3
  <1>3. SeriesInvariant => InventoryIsComplete
    BY <1>2 DEF InventoryIsComplete
  <1> QED
    BY <1>3, SeriesInvariance, PTL

-----------------------------------------------------------------------------
(* Rows and what comes after them                                          *)

\* The first points of the two walks are there, and the same.
SameStart(one, other, size) ==
    \A i \in 1..size : /\ i \in DOMAIN one.path /\ one.path[i] = other.path[i]
                        /\ i \in DOMAIN other.path /\ one.vols[i] = other.vols[i]

LEMMA BrownianStarts ==
    ASSUME NEW m, NEW seed, NEW price, NEW size \in Nat, NEW longer \in Nat, size <= longer
    PROVE  SameStart(Brownian(m, seed, price, size), Brownian(m, seed, price, longer), size)
  BY DEF SameStart, Brownian, Walked

LEMMA GeometricBrownianStarts ==
    ASSUME NEW m, NEW seed, NEW price, NEW size \in Nat, NEW longer \in Nat, size <= longer
    PROVE  SameStart(GeometricBrownian(m, seed, price, size), GeometricBrownian(m, seed, price, longer), size)
  BY DEF SameStart, GeometricBrownian, Walked

LEMMA LogReturnsStarts ==
    ASSUME NEW m, NEW seed, NEW price, NEW size \in Nat, NEW longer \in Nat, size <= longer
    PROVE  SameStart(LogReturns(m, seed, price, size), LogReturns(m, seed, price, longer), size)
  BY DEF SameStart, LogReturns, Walked

LEMMA MeanRevertingStarts ==
    ASSUME NEW m, NEW seed, NEW price, NEW size \in Nat, NEW longer \in Nat, size <= longer
    PROVE  SameStart(MeanReverting(m, seed, price, size), MeanReverting(m, seed, price, longer), size)
  BY DEF SameStart, MeanReverting, Walked, OuProcess

LEMMA JumpDiffusionStarts ==
    ASSUME NEW m, NEW seed, NEW price, NEW size \in Nat, NEW longer \in Nat, size <= longer
    PROVE  SameStart(JumpDiffusion(m, seed, price, size), JumpDiffusion(m, seed, price, longer), size)
  BY DEF SameStart, JumpDiffusion, Walked

LEMMA GarchStarts ==
    ASSUME NEW m, NEW seed, NEW price, NEW size \in Nat, NEW longer \in Nat, size <= longer
    PROVE  SameStart(Garch(m, seed, price, size), Garch(m, seed, price, longer), size)
  BY DEF SameStart, Garch, Walked

LEMMA HestonStarts ==
    ASSUME NEW m, NEW seed, NEW price, NEW size \in Nat, NEW longer \in Nat, size <= longer
    PROVE  SameStart(Heston(m, seed, price, size), Heston(m, seed, price, longer), size)
  BY DEF SameStart, Heston, Walked

LEMMA TelegraphStarts ==
    ASSUME NEW m, NEW seed, NEW price, NEW size \in Nat, NEW longer \in Nat, size <= longer
    PROVE  SameStart(Telegraph(m, seed, price, size), Telegraph(m, seed, price, longer), size)
  BY DEF SameStart, Telegraph, Walked

\* A longer walk starts as the shorter one, unless its volatilities are drawn first.
LEMMA WalkStarts ==
    ASSUME NEW m, m.kind \in DOMAIN WalkFields \ {"Custom"}, NEW seed, NEW price,
           NEW size \in Nat, NEW longer \in Nat, size <= longer
    PROVE  SameStart(Generated(m, seed, price, size), Generated(m, seed, price, longer), size)
  <1>1. m.kind \in {"Brownian", "GeometricBrownian", "LogReturns", "MeanReverting",
                    "JumpDiffusion", "Garch", "Heston", "Telegraph"}
    BY DEF WalkFields
  <1> QED
    BY <1>1, BrownianStarts, GeometricBrownianStarts, LogReturnsStarts, MeanRevertingStarts,
       JumpDiffusionStarts, GarchStarts, HestonStarts, TelegraphStarts DEF Generated

\* The rows of parameters that have a tape.
LEMMA TapeRows ==
    ASSUME NEW p, p.steps \in Nat, Tape(p, p.method).error = "none"
    PROVE  LET m    == p.method
               walk == Generated(m, p.seed, p.initial_price, p.steps)
           IN  /\ SeriesIsUsable(p, m)
               /\ Priceable(BaseVolatility(p, m))
               /\ \A i \in 1..p.steps :
                      Tape(p, m).rows[i] =
                          [simulated_at |-> SimulatedAt(p, i - 1), spot |-> walk.path[i],
                           volatility |-> StepVolatilities(p, m, walk)[i]]
  <1> DEFINE m == p.method
             walk == Generated(m, p.seed, p.initial_price, p.steps)
             vols == StepVolatilities(p, m, walk)
  <1>1. /\ Failed("internal").error # "none"
        /\ Failed("validation").error # "none"
    BY DEF Failed
  <1>2. /\ SeriesIsUsable(p, m) /\ Priceable(BaseVolatility(p, m))
        /\ Tape(p, m) = RowsFrom(p, walk, vols)
    BY <1>1 DEF Tape
  <1> HIDE DEF m, walk, vols
  <1>3. \A i \in 1..p.steps :
            RowsFrom(p, walk, vols).rows[i] =
                [simulated_at |-> SimulatedAt(p, i - 1), spot |-> walk.path[i],
                 volatility |-> vols[i]]
    <2>1. RowsFrom(p, walk, vols).error = "none"
      BY <1>2 DEF m
    <2>2. ~ \E i \in 1..p.steps : ~Priceable(vols[i])
      BY <1>1, <2>1 DEF RowsFrom
    <2> QED
      BY <2>2 DEF RowsFrom
  <1> QED
    BY <1>2, <1>3 DEF m, walk, vols

\* The first rows of two tapes agree if the clocks, the walks and the volatilities do.
LEMMA RowsAgree ==
    ASSUME NEW p, NEW q, NEW count \in Nat,
           p.steps \in Nat, q.steps \in Nat, count <= p.steps, count <= q.steps,
           p.start = q.start, p.interval = q.interval,
           LET one   == Generated(p.method, p.seed, p.initial_price, p.steps)
               other == Generated(q.method, q.seed, q.initial_price, q.steps)
           IN  Tape(p, p.method).error = "none" /\ Tape(q, q.method).error = "none" =>
                   \A i \in 1..count :
                       /\ one.path[i] = other.path[i]
                       /\ StepVolatilities(p, p.method, one)[i]
                              = StepVolatilities(q, q.method, other)[i]
    PROVE  SameRows(p, q, count)
  <1> SUFFICES ASSUME Tape(p, p.method).error = "none", Tape(q, q.method).error = "none",
                      NEW i \in 1..count
               PROVE  Tape(p, p.method).rows[i] = Tape(q, q.method).rows[i]
    BY DEF SameRows
  <1> DEFINE one   == Generated(p.method, p.seed, p.initial_price, p.steps)
             other == Generated(q.method, q.seed, q.initial_price, q.steps)
  <1>1. i \in 1..p.steps /\ i \in 1..q.steps
    OBVIOUS
  <1>2. SimulatedAt(p, i - 1) = SimulatedAt(q, i - 1)
    BY DEF SimulatedAt
  <1>3. /\ one.path[i] = other.path[i]
        /\ StepVolatilities(p, p.method, one)[i] = StepVolatilities(q, q.method, other)[i]
    OBVIOUS
  <1>4. Tape(p, p.method).rows[i] =
            [simulated_at |-> SimulatedAt(p, i - 1), spot |-> one.path[i],
             volatility |-> StepVolatilities(p, p.method, one)[i]]
    BY <1>1, TapeRows
  <1>5. Tape(q, q.method).rows[i] =
            [simulated_at |-> SimulatedAt(q, i - 1), spot |-> other.path[i],
             volatility |-> StepVolatilities(q, q.method, other)[i]]
    BY <1>1, TapeRows
  <1> HIDE DEF one, other
  <1> QED
    BY <1>2, <1>3, <1>4, <1>5

\* The rows of a walk model with a longer horizon.
LEMMA LongerWalk ==
    ASSUME NEW p \in Accepted, p.method.kind \in DOMAIN WalkFields \ {"Custom"},
           NEW steps \in Nat, p.steps \in Nat, p.steps <= steps
    PROVE  SameRows(p, Extended(p, steps), p.steps)
  <1> DEFINE q     == Extended(p, steps)
             m     == p.method
             one   == Generated(m, p.seed, p.initial_price, p.steps)
             other == Generated(m, p.seed, p.initial_price, steps)
  <1>1. {"start", "interval", "seed", "steps", "initial_price", "method"} \subseteq DOMAIN p
    BY AcceptedFrom
  <1>2. /\ q.steps = steps /\ q.method = m /\ q.seed = p.seed
        /\ q.initial_price = p.initial_price /\ q.start = p.start /\ q.interval = p.interval
    BY <1>1 DEF Extended
  <1>3. SameStart(one, other, p.steps)
    BY WalkStarts
  <1>4. ASSUME NEW i \in 1..p.steps
        PROVE  StepVolatilities(p, m, one)[i] = StepVolatilities(q, m, other)[i]
    <2>1. m.kind # "Historical"
      BY DEF WalkFields
    <2>2. BaseVolatility(p, m) = BaseVolatility(q, m)
      BY <2>1 DEF BaseVolatility
    <2>3. /\ i \in DOMAIN one.path /\ i \in DOMAIN other.path
          /\ one.vols[i] = other.vols[i]
      BY <1>3 DEF SameStart
    <2> HIDE DEF q, m, one, other
    <2>4. CASE m.kind \in StochasticVolatility
      BY <2>1, <2>3, <2>4 DEF StepVolatilities
    <2>5. CASE m.kind \notin StochasticVolatility
      <3>1. ASSUME NEW v, NEW walk, i \in DOMAIN walk.path
            PROVE  StepVolatilities(v, m, walk)[i] = BaseVolatility(v, m)
        BY <2>1, <2>5, <3>1 DEF StepVolatilities
      <3> QED
        BY <2>2, <2>3, <3>1
    <2> QED
      BY <2>4, <2>5
  <1>5. \A i \in 1..p.steps : one.path[i] = other.path[i]
    BY <1>3 DEF SameStart
  <1> HIDE DEF q, m
  <1>6. SameRows(p, q, p.steps)
    BY <1>2, <1>4, <1>5, RowsAgree DEF m
  <1> QED
    BY <1>6 DEF q

\* A prefix, place by place.
LEMMA PrefixIs ==
    ASSUME NEW s, NEW n \in Nat
    PROVE  SubSeq(s, 1, n) = [i \in 1..n |-> s[i]]
  <1> DEFINE S == {s[i] : i \in 1..n}
             front == SubSeq(s, 1, n)
  <1>1. \A i \in 1..n : s[i] \in S
    OBVIOUS
  <1> HIDE DEF S
  <1>2. /\ front \in Seq(S)
        /\ Len(front) = n
        /\ \A i \in 1..n : front[i] = s[i]
    <2>1. /\ front \in Seq(S)
          /\ Len(front) = IF 1 <= n THEN n - 1 + 1 ELSE 0
          /\ \A i \in 1 .. n - 1 + 1 : front[i] = s[1 + i - 1]
      BY <1>1, SubSeqProperties
    <2> QED
      BY <2>1
  <1> HIDE DEF front
  <1>3. front = [i \in 1..n |-> front[i]]
    BY <1>2
  <1>4. front = [i \in 1..n |-> s[i]]
    BY <1>2, <1>3
  <1> QED
    BY <1>4 DEF front

LEMMA LargerOf ==
    ASSUME NEW a \in Int, NEW b \in Int
    PROVE  Max({a, b}) = IF a < b THEN b ELSE a
  <1> DEFINE larger == IF a < b THEN b ELSE a
  <1>1. larger \in {a, b} /\ \A x \in {a, b} : x <= larger
    OBVIOUS
  <1>2. ASSUME NEW n \in {a, b}, \A x \in {a, b} : x <= n
        PROVE  n = larger
    BY <1>2
  <1> HIDE DEF larger
  <1>3. Max({a, b}) = larger
    BY <1>1, <1>2, Zenon DEF Max
  <1> QED
    BY <1>3 DEF larger

\* The estimate at the i-th price of a series, from the returns that it has seen.
Seen(i) == IF i <= 3 THEN 2 ELSE i - 1

EstimateAt(m, i) ==
    HistoricalVolatility([j \in 1..Seen(i) |-> Log(Ratio(m.prices, j))], m.timeframe)

\* The volatilities of a series are estimated from its prices so far.
LEMMA HistoricalRows ==
    ASSUME NEW p, NEW S, p.method.prices \in Seq(S), p.method.kind = "Historical",
           p.steps \in Nat, p.steps >= 3, Len(p.method.prices) >= p.steps,
           NEW i \in 1..p.steps
    PROVE  LET m    == p.method
               walk == Generated(m, p.seed, p.initial_price, p.steps)
           IN  /\ walk.path[i] = m.prices[i]
               /\ StepVolatilities(p, m, walk)[i] = EstimateAt(m, i)
  <1> DEFINE m      == p.method
             walk   == Generated(m, p.seed, p.initial_price, p.steps)
             prices == SubSeq(m.prices, 1, p.steps)
             seen   == Seen(i)
  <1>1. walk = Historical(m, p.steps)
    BY DEF Generated
  <1>2. /\ prices \in Seq(S) /\ Len(prices) = p.steps
        /\ \A j \in 1..p.steps : prices[j] = m.prices[j]
    BY SubSeqProperties
  <1>3. walk.path = prices
    BY <1>1 DEF Historical
  <1> HIDE DEF prices, walk, m
  <1>4. DOMAIN prices = 1..p.steps
    BY <1>2
  <1>5. Max({i - 1, 2}) = seen
    <2>1. Max({i - 1, 2}) = IF i - 1 < 2 THEN 2 ELSE i - 1
      BY LargerOf
    <2> QED
      BY <2>1 DEF Seen
  <1>6. SubSeq(Returns(prices), 1, seen) = [j \in 1..seen |-> Log(Ratio(m.prices, j))]
    <2> DEFINE returns == Returns(prices)
    <2>1. returns = [j \in 1..(p.steps - 1) |-> Log(Ratio(prices, j))]
      BY <1>2 DEF Returns
    <2>2. \A j \in 1..(p.steps - 1) : Ratio(prices, j) = Ratio(m.prices, j)
      BY <1>2 DEF Ratio
    <2>3. seen \in Nat /\ seen <= p.steps - 1
      BY DEF Seen
    <2> HIDE DEF returns, seen
    <2>4. SubSeq(returns, 1, seen) = [j \in 1..seen |-> returns[j]]
      BY <2>3, PrefixIs
    <2>5. \A j \in 1..seen : returns[j] = Log(Ratio(m.prices, j))
      BY <2>1, <2>2, <2>3
    <2>6. SubSeq(returns, 1, seen) = [j \in 1..seen |-> Log(Ratio(m.prices, j))]
      BY <2>4, <2>5
    <2> QED
      BY <2>6 DEF returns
  <1>7. StepVolatilities(p, m, walk)[i] = ExpandingWindow(prices, m.timeframe)[i]
    BY <1>2, <1>3 DEF StepVolatilities, StochasticVolatility, m
  <1>8. ExpandingWindow(prices, m.timeframe)[i] =
            HistoricalVolatility(SubSeq(Returns(prices), 1, seen), m.timeframe)
    BY <1>4, <1>5 DEF ExpandingWindow
  <1>9. walk.path[i] = m.prices[i]
    BY <1>2, <1>3
  <1> QED
    BY <1>6, <1>7, <1>8, <1>9 DEF EstimateAt, m, walk

\* The first rows of two series whose first prices are the same.
LEMMA SameHistory ==
    ASSUME NEW p, NEW q, NEW S, NEW count \in Nat, count >= 3,
           p.steps \in Nat, q.steps \in Nat, count <= p.steps, count <= q.steps,
           p.start = q.start, p.interval = q.interval,
           p.method.kind = "Historical", q.method.kind = "Historical",
           p.method.timeframe = q.method.timeframe,
           p.method.prices \in Seq(S), q.method.prices \in Seq(S),
           \A i \in 1..count : p.method.prices[i] = q.method.prices[i]
    PROVE  SameRows(p, q, count)
  <1> DEFINE one   == Generated(p.method, p.seed, p.initial_price, p.steps)
             other == Generated(q.method, q.seed, q.initial_price, q.steps)
  <1>1. ASSUME Tape(p, p.method).error = "none", Tape(q, q.method).error = "none",
               NEW i \in 1..count
        PROVE  /\ one.path[i] = other.path[i]
               /\ StepVolatilities(p, p.method, one)[i] = StepVolatilities(q, q.method, other)[i]
    <2>1. Len(p.method.prices) >= p.steps /\ Len(q.method.prices) >= q.steps
      <3>1. SeriesIsUsable(p, p.method) /\ SeriesIsUsable(q, q.method)
        BY <1>1, TapeRows
      <3> QED
        BY <3>1 DEF SeriesIsUsable
    <2>2. i \in 1..p.steps /\ i \in 1..q.steps /\ p.steps >= 3 /\ q.steps >= 3
      OBVIOUS
    <2>3. /\ one.path[i] = p.method.prices[i]
          /\ StepVolatilities(p, p.method, one)[i] = EstimateAt(p.method, i)
      BY <2>1, <2>2, HistoricalRows
    <2>4. /\ other.path[i] = q.method.prices[i]
          /\ StepVolatilities(q, q.method, other)[i] = EstimateAt(q.method, i)
      BY <2>1, <2>2, HistoricalRows
    <2>5. \A j \in 1..Seen(i) : Ratio(p.method.prices, j) = Ratio(q.method.prices, j)
      BY DEF Ratio, Seen
    <2>6. EstimateAt(p.method, i) = EstimateAt(q.method, i)
      <3>1. [j \in 1..Seen(i) |-> Log(Ratio(p.method.prices, j))]
                = [j \in 1..Seen(i) |-> Log(Ratio(q.method.prices, j))]
        BY <2>5
      <3> QED
        BY <3>1 DEF EstimateAt
    <2> HIDE DEF one, other
    <2> QED
      BY <2>3, <2>4, <2>6
  <1> QED
    BY <1>1, RowsAgree

\* A series that is shorter than its estimates has no tape.
LEMMA ShortHistories ==
    ASSUME NEW p \in Accepted, p.method.kind = "Historical", p.steps \in Nat,
           Tape(p, p.method).error = "none"
    PROVE  p.steps >= 3
  <1> SUFFICES ASSUME p.steps < 3
               PROVE  FALSE
    OBVIOUS
  <1> DEFINE m       == p.method
             prices  == SubSeq(m.prices, 1, p.steps)
             returns == Returns(prices)
  <1>1. PICK S : m.prices \in Seq(S)
    BY AcceptedParameters DEF IsMethod
  <1>2. /\ Priceable(BaseVolatility(p, m)) /\ Len(m.prices) >= p.steps
    BY TapeRows DEF SeriesIsUsable
  <1>3. Len(prices) = p.steps
    <2>1. prices = [i \in 1..p.steps |-> m.prices[i]]
      BY PrefixIs
    <2> QED
      BY <2>1
  <1>4. returns = [i \in 1..(p.steps - 1) |-> Log(Ratio(prices, i))]
    BY <1>3 DEF Returns
  <1> HIDE DEF prices
  <1>5. Len(returns) < 2
    <2>1. CASE p.steps = 0
      BY <1>4, <2>1
    <2>2. CASE p.steps \in 1..2
      BY <1>4, <2>2
    <2> QED
      BY <2>1, <2>2
  <1>6. Dispersion(returns) = 0
    BY <1>5 DEF Dispersion
  <1>7. YearFactor[m.timeframe.name] \in Int
    BY FactorAssumption
  <1>8. HistoricalVolatility(returns, m.timeframe) = 0
    BY <1>6, <1>7, DecimalsAssumption DEF HistoricalVolatility, Mul
  <1>9. BaseVolatility(p, m) = 0
    BY <1>8 DEF BaseVolatility, prices
  <1> QED
    BY <1>2, <1>9 DEF Priceable

\* The rows of a series with a longer horizon.
LEMMA LongerHistory ==
    ASSUME NEW p \in Accepted, p.method.kind = "Historical",
           NEW steps \in Nat, p.steps \in Nat, p.steps <= steps
    PROVE  SameRows(p, Extended(p, steps), p.steps)
  <1> DEFINE q == Extended(p, steps)
  <1>1. {"start", "interval", "seed", "steps", "initial_price", "method"} \subseteq DOMAIN p
    BY AcceptedFrom
  <1>2. q.steps = steps /\ q.method = p.method /\ q.start = p.start /\ q.interval = p.interval
    BY <1>1 DEF Extended
  <1>3. PICK S : p.method.prices \in Seq(S)
    BY AcceptedParameters DEF IsMethod
  <1>4. CASE p.steps >= 3
    <2> HIDE DEF q
    <2>1. /\ q.method.kind = "Historical" /\ q.method.timeframe = p.method.timeframe
          /\ q.method.prices \in Seq(S) /\ q.steps \in Nat /\ p.steps <= q.steps
          /\ p.steps <= p.steps
          /\ \A i \in 1..p.steps : p.method.prices[i] = q.method.prices[i]
      BY <1>2, <1>3
    <2>2. SameRows(p, q, p.steps)
      BY <1>2, <1>3, <1>4, <2>1, SameHistory, Zenon
    <2> QED
      BY <2>2 DEF q
  <1>5. CASE p.steps < 3
    BY <1>5, ShortHistories DEF SameRows
  <1> QED
    BY <1>4, <1>5

\* The rows of a series, and of one whose later prices are others.
LEMMA OtherFuture ==
    ASSUME NEW p \in Accepted, p.method.kind = "Historical", p.steps \in Nat,
           NEW known \in 3..p.steps, NEW price \in LaterPrices
    PROVE  SameRows(p, WithLaterPrices(p, known, price), known)
  <1> DEFINE q == WithLaterPrices(p, known, price)
             m == p.method
  <1>1. {"start", "interval", "seed", "steps", "initial_price", "method"} \subseteq DOMAIN p
    BY AcceptedFrom
  <1>2. {"kind", "timeframe", "prices"} \subseteq DOMAIN m
    BY AcceptedParameters DEF IsMethod
  <1>3. PICK S : m.prices \in Seq(S)
    BY AcceptedParameters DEF IsMethod
  <1>4. /\ q.steps = p.steps /\ q.start = p.start /\ q.interval = p.interval
        /\ q.method.kind = "Historical" /\ q.method.timeframe = m.timeframe
        /\ q.method.prices =
               [i \in DOMAIN m.prices |-> IF i <= known THEN m.prices[i] ELSE price]
    BY <1>1, <1>2 DEF WithLaterPrices
  <1>5. /\ m.prices \in Seq(S \cup LaterPrices)
        /\ q.method.prices \in Seq(S \cup LaterPrices)
    BY <1>3, <1>4
  <1> HIDE DEF q
  <1>6. SUFFICES SameRows(p, q, known)
    BY DEF q
  <1>7. CASE Len(m.prices) >= known
    <2>1. \A i \in 1..known : m.prices[i] = q.method.prices[i]
      BY <1>3, <1>4, <1>7
    <2>2. /\ known \in Nat /\ known >= 3 /\ known <= p.steps /\ known <= q.steps
          /\ q.steps \in Nat
      BY <1>4
    <2> QED
      BY <1>4, <1>5, <2>1, <2>2, SameHistory, Zenon
  <1>8. CASE Len(m.prices) < known
    <2>1. ~SeriesIsUsable(p, m)
      BY <1>3, <1>8 DEF SeriesIsUsable
    <2> QED
      BY <2>1, TapeRows DEF SameRows
  <1> QED
    BY <1>3, <1>7, <1>8

\* What is accepted is priced without a look ahead.
LEMMA AcceptedIsCausal ==
    ASSUME NEW p \in Accepted
    PROVE  Causal[p]
  <1>1. p.steps \in Nat
    <2>1. PICK caps \in Configurations : ValidParameters(p, caps)
      BY AcceptedParameters
    <2> QED
      BY <2>1 DEF ValidParameters
  <1>2. p.method.kind = "Historical" \/ p.method.kind \in DOMAIN WalkFields
    BY AcceptedParameters DEF IsMethod
  <1>3. ASSUME p.method.kind # "Custom", NEW steps \in p.steps..LongestHorizon
        PROVE  SameRows(p, Extended(p, steps), p.steps)
    <2>1. steps \in Nat /\ p.steps <= steps
      BY <1>1, SeriesAssumption
    <2> QED
      BY <1>1, <1>2, <1>3, <2>1, LongerWalk, LongerHistory
  <1>4. ASSUME p.method.kind = "Historical", NEW known \in 3..p.steps, NEW price \in LaterPrices
        PROVE  SameRows(p, WithLaterPrices(p, known, price), known)
    BY <1>1, <1>4, OtherFuture
  <1> QED
    BY <1>3, <1>4 DEF Causal

\* A step is priced from what was known at it, whatever the walk, the samples and the
\* series.
THEOREM RowsCausal == Spec => []RowsIgnoreTheFuture
  <1>1. SeriesInvariant => RowsIgnoreTheFuture
    BY AcceptedIsCausal DEF SeriesInvariant, RowsIgnoreTheFuture, Live
  <1> QED
    BY <1>1, SeriesInvariance, PTL
=============================================================================
