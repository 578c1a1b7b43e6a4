--------------------------- MODULE SnapshotSeries ---------------------------
(***************************************************************************)
(* The rolling snapshots of one replica: the parameters a simulation may be*)
(* created with under the replica's configuration, the tape and the        *)
(* expirations its steps are priced from, and the cache of built snapshots *)
(* with its two bounds, which several requests fill.  The replica may stop *)
(* and start again with another environment; the stored simulations stay.  *)
(*                                                                         *)
(* A snapshot is its simulation and step with the contracts it holds; the  *)
(* prices are left out.  The last accesses of the cached entries are       *)
(* numbered from the least recent one; no two are at the same instant.     *)
(*                                                                         *)
(* What a step of given parameters is priced from is tabulated (Tapes,     *)
(* Series, Complete and so on), so that it is evaluated once.              *)
(***************************************************************************)
EXTENDS FactorTape, Settings

CONSTANTS Simulations,     \* the simulations
          Requests,        \* the request slots
          Offered,         \* the requests that clients create each simulation with
          Environments,    \* the environments the replica is started with
          Clock, Seeds,    \* the times and seeds for requests that bring none
          LongestHorizon,  \* the horizon that the tapes are compared up to
          LaterPrices,     \* the prices that they are compared for
          Nothing          \* no parameters, no snapshot under construction, no settings

ASSUME SeriesAssumption ==
    /\ DOMAIN Offered = Simulations
    /\ \A s \in Simulations : \A request \in Offered[s] : IsRequest(request)
    /\ \A env \in Environments : IsEnvironment(env)
    /\ Clock \subseteq Int
    /\ LongestHorizon \in Nat

VARIABLES
    settings,    \* the configuration of the running replica
    parameters,  \* what each simulation was created with
    step,        \* the step each simulation is at
    held,        \* the <<simulation, step>> each request is building
    cache        \* the cached snapshots and the running total of their contracts

vars == <<settings, parameters, step, held, cache>>

(***************************************************************************)
(* The parameters and the snapshots they lead to.                          *)
(***************************************************************************)
Configurations == {Loaded(env) : env \in {e \in Environments : StartsUp(e)}}

\* All that a request may resolve to, if it can be read.
Resolutions(request) ==
    {Resolved(request, now, seed) :
        now \in IF "start" \in DOMAIN request THEN {request.start} ELSE Clock,
        seed \in IF "seed" \in DOMAIN request THEN {request.seed} ELSE Seeds}

\* What the client of a simulation may create it with.
Creatable ==
    [s \in Simulations |->
        [caps \in Configurations |->
            {p \in UNION {Resolutions(r) : r \in {r \in Offered[s] : Readable(r)}} :
                ValidParameters(p, caps)}]]

Accepted == UNION {Creatable[s][caps] : s \in Simulations, caps \in Configurations}

\* The calendar has every date that the steps of what is accepted look at.  Beyond its
\* own last date the code fails the step with a projection error.
ASSUME HorizonAssumption ==
    \A p \in Accepted : \A n \in 0..(p.steps - 1), rule \in ToSet(p.schedule.rules) :
        ~ByDay(rule) =>
            Covers(LocalDate(p.schedule.zone, SimulatedAt(p, n)), rule.count + 1)

\* The root of the periods a year has is a number.
ASSUME FactorAssumption ==
    \A p \in Accepted : p.method.kind = "Historical" => YearFactor[p.method.timeframe.name] \in Int

Inventory(p, n) == ActiveAt(p.schedule, SimulatedAt(p, n))

\* The contracts of the snapshot: a chain of strikes per live expiration.
Contracts(p, n) ==
    StrikesPerChain(p) * Cardinality(DOMAIN Inventory(p, n))

Tapes == [p \in Accepted |-> Tape(p, p.method)]

\* The snapshots of all parameters that are accepted, by step.
Series == [p \in Accepted |->
              [n \in 0..(p.steps - 1) |->
                  [built     |-> /\ Tapes[p].error = "none"
                                 /\ Projects(p.schedule, SimulatedAt(p, n)),
                   contracts |-> Contracts(p, n)]]]

(***************************************************************************)
(* SnapshotCache.                                                          *)
(***************************************************************************)
Capacity == settings.OCS_MAX_CACHED_SNAPSHOTS

Budget == settings.OCS_MAX_CACHED_SNAPSHOT_CONTRACTS

\* The contracts of the entries under the keys.
Weight(entries, keys) == Total([key \in keys |-> entries[key].contracts], keys)

\* The entries under the keys alone, in the order that they were accessed in.
Kept(entries, keys) ==
    [key \in keys |->
        [contracts |-> entries[key].contracts,
         accessed  |-> Cardinality({k \in keys : entries[k].accessed <= entries[key].accessed})]]

\* remove_entry, of each of the keys: the entry goes, and its weight with it.
Removed(c, keys) ==
    [entries  |-> Kept(c.entries, DOMAIN c.entries \ keys),
     resident |-> c.resident - Weight(c.entries, DOMAIN c.entries \cap keys)]

Oldest(c, count) == {key \in DOMAIN c.entries : c.entries[key].accessed <= count}

EvictTo(c, max) ==
    Removed(c, Oldest(c, Max({0, Cardinality(DOMAIN c.entries) - max})))

EvictToContracts(c, max) ==
    LET Enough(count) == Removed(c, Oldest(c, count)).resident <= max
        all           == Cardinality(DOMAIN c.entries)
    IN  Removed(c, Oldest(c, Min({count \in 0 .. all : count = all \/ Enough(count)})))

\* The entry becomes the most recent one.
Appended(c, key, contracts) ==
    [entries  |-> [k \in DOMAIN c.entries \cup {key} |->
                      IF k = key
                      THEN [contracts |-> contracts,
                            accessed  |-> Cardinality(DOMAIN c.entries) + 1]
                      ELSE c.entries[k]],
     resident |-> c.resident + contracts]

Filed(c, key, contracts) ==
    IF contracts > Budget THEN c
    ELSE Appended(EvictToContracts(EvictTo(c, Capacity - 1), Budget - contracts), key, contracts)

\* Bug: an entry that is replaced leaves its weight in the running total.
InsertedOver(c, key, contracts) ==
    Filed([c EXCEPT !.entries = Kept(@, DOMAIN @ \ {key})], key, contracts)

\* insert: the old entry of the key first, then nothing at all if the snapshot is
\* heavier than the budget, else room for one more entry and for its weight.
Inserted(c, key, contracts) == Filed(Removed(c, {key}), key, contracts)

\* get: the entry's last access is now.
Touched(c, key) == Appended(Removed(c, {key}), key, c.entries[key].contracts)

(***************************************************************************)
(* The behaviour.                                                          *)
(***************************************************************************)
EmptyCache == [entries |-> <<>>, resident |-> 0]

Init ==
    /\ settings = Nothing
    /\ parameters = [s \in Simulations |-> Nothing]
    /\ step = [s \in Simulations |-> 0]
    /\ held = [r \in Requests |-> Nothing]
    /\ cache = EmptyCache

\* The replica starts, if its environment lets it.
Boot ==
    /\ settings = Nothing
    /\ \E env \in {e \in Environments : StartsUp(e)} : settings' = Loaded(env)
    /\ UNCHANGED <<parameters, step, held, cache>>

\* It stops or dies, and its memory with it.
Stop ==
    /\ settings # Nothing
    /\ settings' = Nothing
    /\ held' = [r \in Requests |-> Nothing]
    /\ cache' = EmptyCache
    /\ UNCHANGED <<parameters, step>>

\* POST: the parameters are validated and never change.  An id is created once.
Create(s) ==
    /\ parameters[s] = Nothing
    /\ step[s] = 0
    /\ \E p \in Creatable[s][settings] : parameters' = [parameters EXCEPT ![s] = p]
    /\ UNCHANGED <<settings, step, held, cache>>

\* Bug: a document is taken as it is stored.
ReadableAsStored(s) == parameters[s] # Nothing

\* A document is validated again, by the configuration of the day, when it is read.
Loadable(s) == parameters[s] # Nothing /\ ValidParameters(parameters[s], settings)

\* The simulation is over: the replica that ended it drops its entries, another
\* one keeps them until they are the oldest.
Ended(s) ==
    cache' \in {cache, Removed(cache, {key \in DOMAIN cache.entries : key[1] = s})}

\* An advance that has its snapshot commits, here or on another replica.
Advance(s) ==
    /\ Loadable(s)
    /\ step[s] < parameters[s].steps
    /\ Series[parameters[s]][step[s]].built
    /\ step' = [step EXCEPT ![s] = @ + 1]
    /\ IF step'[s] = parameters[s].steps THEN Ended(s) ELSE UNCHANGED cache
    /\ UNCHANGED <<settings, parameters, held>>

\* A request wants the snapshot of the step it has read, which the cursor may have
\* passed since: it is in the cache, or it must be built.
Lookup(r, s, n) ==
    LET key == <<s, n>>
    IN  /\ held[r] = Nothing
        /\ Loadable(s)
        /\ n <= step[s] /\ n < parameters[s].steps
        /\ IF key \in DOMAIN cache.entries
           THEN cache' = Touched(cache, key) /\ UNCHANGED held
           ELSE held' = [held EXCEPT ![r] = <<key, parameters[s]>>] /\ UNCHANGED cache
        /\ UNCHANGED <<settings, parameters, step>>

\* The snapshot is built outside the lock and filed, whatever happened meanwhile.
File(r) ==
    /\ held[r] # Nothing
    /\ LET key      == held[r][1]
           snapshot == Series[held[r][2]][key[2]]
       IN  cache' = IF snapshot.built THEN Inserted(cache, key, snapshot.contracts)
                                      ELSE cache
    /\ held' = [held EXCEPT ![r] = Nothing]
    /\ UNCHANGED <<settings, parameters, step>>

\* The simulation is deleted or swept, and its id is not used again.
Delete(s) ==
    /\ parameters[s] # Nothing
    /\ parameters' = [parameters EXCEPT ![s] = Nothing]
    /\ step' = [step EXCEPT ![s] = parameters[s].steps]
    /\ Ended(s)
    /\ UNCHANGED <<settings, held>>

Serve ==
    \/ \E s \in Simulations : Create(s) \/ Advance(s) \/ Delete(s)
    \/ \E r \in Requests :
          \/ File(r)
          \/ \E s \in Simulations :
                parameters[s] # Nothing /\ \E n \in 0..(parameters[s].steps - 1) : Lookup(r, s, n)

Next ==
    \/ Boot
    \/ Stop
    \/ settings # Nothing /\ Serve

Spec == Init /\ [][Next]_vars

(***************************************************************************)
(* What an inventory should be, read off the calendar.                     *)
(***************************************************************************)
ExpiresOn(rule, date) ==
    /\ date % 7 \in 0..4
    /\ CASE rule.kind = "daily"   -> TRUE
         [] rule.kind = "weekly"  -> date % 7 \in rule.weekdays
         [] rule.kind = "monthly" -> date % 7 = rule.weekday /\ MonthOf(date + 7) # MonthOf(date)
         [] rule.kind = "yearly"  -> /\ date % 7 = rule.weekday
                                     /\ MonthOf(date)[2] = rule.month
                                     /\ MonthOf(date + 7) # MonthOf(date)

\* The first instant at which the zone's clocks have reached `local'.
Reached(zone, local) ==
    Min({u \in (local - 2 * DayTicks)..(local + 2 * DayTicks) : Local(zone, u) >= local})

\* The instants after `now' at which the rule expires, up to two days past `last'.
Expirations(schedule, rule, now, last) ==
    {i \in {Reached(schedule.zone, date * DayTicks + schedule.time) :
               date \in {d \in ((now \div DayTicks) - 2)..((last \div DayTicks) + 2) :
                            ExpiresOn(rule, d)}} : i > now}

HasNearest(schedule, rule, now, inventory) ==
    LET labelled == {i \in DOMAIN inventory : rule.id \in inventory[i]}
    IN  /\ Cardinality(labelled) = rule.count
        /\ LET last == Max(labelled)
           IN  labelled = {i \in Expirations(schedule, rule, now, last) : i <= last}

\* Whether the inventory is complete, by parameters and step.
Complete ==
    [p \in Accepted |->
        [n \in 0..(p.steps - 1) |->
            \A rule \in ToSet(p.schedule.rules) :
                HasNearest(p.schedule, rule, SimulatedAt(p, n), Inventory(p, n))]]

\* The rows of a longer walk, and of one whose later prices are others.
Extended(p, steps) == [p EXCEPT !.steps = steps]

WithLaterPrices(p, known, price) ==
    [p EXCEPT !.method.prices =
        [i \in DOMAIN @ |-> IF i <= known THEN @[i] ELSE price]]

\* Whether the first `count' rows of the two tapes, if both have them, agree.
SameRows(p, q, count) ==
    LET one   == Tape(p, p.method)
        other == Tape(q, q.method)
    IN  one.error = "none" /\ other.error = "none" =>
            \A i \in 1..count : one.rows[i] = other.rows[i]

Causal ==
    [p \in Accepted |->
        /\ p.method.kind # "Custom" =>
               \A steps \in p.steps..LongestHorizon : SameRows(p, Extended(p, steps), p.steps)
        /\ p.method.kind = "Historical" =>
               \A known \in 3..p.steps, price \in LaterPrices :
                   SameRows(p, WithLaterPrices(p, known, price), known)]

Live(s) == parameters[s] # Nothing /\ step[s] < parameters[s].steps

Serves(s) == settings # Nothing /\ Live(s) /\ Loadable(s)

(***************************************************************************)
(* Every step of a simulation that was accepted carries, for each rule, the*)
(* rule's nearest expirations after the simulated instant, as many as the  *)
(* rule asks for, whatever weekends, months, transitions and coincidences  *)
(* lie in between: "no step is ever short" (expiry.rs, project_rule).      *)
(***************************************************************************)
InventoryIsComplete ==
    \A s \in Simulations : Live(s) => Complete[parameters[s]][step[s]]

(***************************************************************************)
(* No snapshot prices more contracts than the cap that the replica runs    *)
(* with, of a simulation that it created or one that it found in the store *)
(* (validate_snapshot_work).                                               *)
(***************************************************************************)
WorkIsBounded ==
    \A s \in Simulations :
        Serves(s) =>
            Series[parameters[s]][step[s]].contracts <= settings.OCS_MAX_SNAPSHOT_CONTRACTS

(***************************************************************************)
(* A replica that files snapshots can file every one that it serves: it    *)
(* never prices one that is beyond the rows of a batch, which the          *)
(* warehouse would refuse "for every step, forever" (config/snapshot.rs).  *)
(***************************************************************************)
RowsFitTheWarehouse ==
    \A s \in Simulations :
        Serves(s) /\ settings[Enabled] =>
            Series[parameters[s]][step[s]].contracts <= settings.OCS_SNAPSHOT_BATCH_ROWS

(***************************************************************************)
(* A step is priced from what was known at it: a longer horizon only adds  *)
(* rows, except to a Custom walk, which draws its volatilities first; and  *)
(* the rows of a historical walk do not change with its later prices,      *)
(* except that the first two share the third one's estimate (factors.rs,   *)
(* "nothing later may reach an earlier step").                             *)
(***************************************************************************)
RowsIgnoreTheFuture ==
    \A s \in Simulations : Live(s) => Causal[parameters[s]]

(***************************************************************************)
(* What creation accepts does not fail later inside the simulation: a tape *)
(* is refused with a validation error, as the request documents it of      *)
(* volatilities out of range, and never with an internal one.  The domain  *)
(* of a jump diffusion, whose intensity times dt must be less than 1, is   *)
(* the one that creation does not check.                                   *)
(***************************************************************************)
RefusalsAreForeseen ==
    \A s \in Simulations :
        Live(s) /\ Tapes[parameters[s]].error = "internal" =>
            LET m == parameters[s].method
            IN  m.kind = "JumpDiffusion" /\ Mul(m.intensity, m.dt) >= One

(***************************************************************************)
(* The variables have their types, and whatever is filed, refreshed, filed *)
(* again by a second request, pushed out or evicted, the running total is  *)
(* the sum of the entries, and neither bound is passed.  The budget holds  *)
(* without exception because a snapshot heavier than all of it is served   *)
(* and not cached (series.rs, insert; .env.example says so too).  ADR      *)
(* 0001, section 9.3, says that such a snapshot "is still cached": by that *)
(* text this property would not hold.                                      *)
(***************************************************************************)
CacheIsExact ==
    /\ settings \in Configurations \cup {Nothing}
    /\ parameters \in [Simulations -> Accepted \cup {Nothing}]
    /\ step \in [Simulations -> Nat]
    /\ cache.resident = Weight(cache.entries, DOMAIN cache.entries)
    /\ settings # Nothing =>
            cache.resident <= Budget /\ Cardinality(DOMAIN cache.entries) <= Capacity
=============================================================================
