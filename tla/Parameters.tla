----------------------------- MODULE Parameters -----------------------------
(***************************************************************************)
(* What a v2 simulation is created with: from the request to the parameters*)
(* that are stored, and the checks that both of them pass.                 *)
(*                                                                         *)
(* A number of the wire is a decimal or NotFinite.  A field that a client  *)
(* left out is not in the record.  `caps' is the service's configuration.  *)
(***************************************************************************)
EXTENDS ExpiryPlanner, Decimals

CONSTANTS NotFinite,                \* an infinity, or not a number
          Symbols, Zones, Times, Calendars, \* what the respective texts may be
          FrameTicks,               \* the ticks of each time frame of a tick or more
          YearTicks,                \* the ticks of a year
          MinInterval, MaxInterval, \* the range of step_interval_seconds
          DefaultChainSize

ASSUME ParametersAssumption ==
    /\ {MinInterval, MaxInterval, DefaultChainSize} \subseteq Nat
    /\ NotFinite \notin Int
    /\ \A zone \in Zones : IsZone(zone)
    /\ Times \subseteq 0..(DayTicks - 1)

(***************************************************************************)
(* Single fields.                                                          *)
(***************************************************************************)
Finite(x) == x # NotFinite

Positive(x) == Finite(x) /\ x >= 0

StrictlyPositive(x) == Finite(x) /\ x > 0

Within(x, low, high) == Finite(x) /\ x \in low..high

TimeFrame(frame) == frame.name = "Custom" => StrictlyPositive(frame.periods)

\* derive_step_interval_seconds: none for a frame shorter than a tick, and one that
\* is out of range is refused like one that was asked for.
DerivedInterval(frame) ==
    IF frame.name = "Custom" THEN (2 * YearTicks + frame.periods) \div (2 * frame.periods)
    ELSE Default(FrameTicks, frame.name, 0)

(***************************************************************************)
(* The walk model.                                                         *)
(***************************************************************************)
\* The numbers that each model but the historical one is made of, besides dt.
WalkFields ==
    [Brownian          |-> {"drift", "volatility"},
     GeometricBrownian |-> {"drift", "volatility"},
     LogReturns        |-> {"drift", "volatility", "autocorrelation"},
     MeanReverting     |-> {"volatility", "speed", "mean"},
     JumpDiffusion     |-> {"drift", "volatility", "intensity", "jump_mean",
                            "jump_volatility"},
     Garch             |-> {"drift", "volatility", "alpha", "beta"},
     Heston            |-> {"drift", "volatility", "kappa", "theta", "xi", "rho"},
     Custom            |-> {"drift", "volatility", "vov", "vol_speed", "vol_mean"},
     Telegraph         |-> {"drift", "volatility", "lambda_up", "lambda_down",
                            "multiplier_up", "multiplier_down"}]

IsMethod(m) ==
    IF m.kind = "Historical"
    THEN /\ {"kind", "timeframe", "prices"} \subseteq DOMAIN m
         /\ m.prices \in Seq(Int \cup {NotFinite})
    ELSE /\ m.kind \in DOMAIN WalkFields
         /\ DOMAIN m = {"kind", "dt"} \cup WalkFields[m.kind]
         /\ \A field \in DOMAIN m \ {"kind"} : m[field] \in Int \cup {NotFinite}

RequestFields ==
    {"symbol", "steps", "start", "interval", "zone", "calendar", "time", "rules",
     "initial_price", "volatility", "risk_free_rate", "dividend_yield", "method",
     "time_frame", "chain_size", "strike_interval", "skew_slope", "smile_curve", "spread",
     "seed"}

\* The fields that are not an Option.
RequiredFields ==
    {"symbol", "steps", "zone", "time", "rules", "initial_price", "volatility",
     "risk_free_rate", "dividend_yield", "method", "time_frame"}

\* What the types of a request say of the fields that the bounds depend on.
IsRequest(request) ==
    /\ RequiredFields \subseteq DOMAIN request
    /\ DOMAIN request \subseteq RequestFields
    /\ "chain_size" \in DOMAIN request => request.chain_size \in Nat
    /\ "start" \in DOMAIN request => request.start \in Int
    /\ request.rules \in Seq(ToSet(request.rules))
    /\ \A wire \in ToSet(request.rules) : IsWire(wire)
    /\ IsMethod(request.method)

\* The fields but these are any decimal.
PositiveFields ==
    {"volatility", "speed", "mean", "intensity", "jump_volatility", "alpha", "beta",
     "kappa", "theta", "xi", "vov", "vol_speed", "vol_mean", "lambda_up", "lambda_down",
     "multiplier_up", "multiplier_down"}

CorrelationFields == {"autocorrelation", "rho"}

ValidSeries(m, caps) ==
    /\ Len(m.prices) <= caps.OCS_MAX_HISTORICAL_PRICES
    /\ Default(m, "symbol", CHOOSE symbol \in Symbols : TRUE) \in Symbols
    /\ \A i \in DOMAIN m.prices : StrictlyPositive(m.prices[i])
    /\ TimeFrame(m.timeframe)

FieldsAreValid(m) ==
    /\ StrictlyPositive(m.dt)
    /\ \A field \in DOMAIN m \ {"kind"} : Finite(m[field])
    /\ \A field \in DOMAIN m \cap PositiveFields : Positive(m[field])
    /\ \A field \in DOMAIN m \cap CorrelationFields : Within(m[field], -One, One)

\* Bug: a GARCH model that is not stationary is accepted.
ValidMethodOfAnyDomain(m, caps) ==
    IF m.kind = "Historical" THEN ValidSeries(m, caps) ELSE FieldsAreValid(m)

\* WalkType::try_from; validate_walk_type asks the same of a stored method.
ValidMethod(m, caps) ==
    IF m.kind = "Historical" THEN ValidSeries(m, caps)
    ELSE FieldsAreValid(m) /\ (m.kind = "Garch" => m.alpha + m.beta < One)

(***************************************************************************)
(* The parameters.                                                         *)
(***************************************************************************)
StrikesPerChain(p) == 2 * Default(p, "chain_size", DefaultChainSize) + 1

\* validate_snapshot_work: the contracts a snapshot prices at most.
SnapshotWork(p) == StrikesPerChain(p) * TotalCount(p.schedule.rules)

\* SimulationParametersV2::validate, of a request and of every stored document.
ValidParameters(p, caps) ==
    /\ p.steps \in 1..caps.OCS_MAX_STEPS
    /\ Default(p, "chain_size", 0) <= caps.OCS_MAX_CHAIN_SIZE
    /\ p.symbol \in Symbols
    /\ p.interval \in MinInterval..MaxInterval
    /\ p.initial_price > 0 /\ p.volatility > 0
    /\ Default(p, "strike_interval", 1) > 0
    /\ ValidMethod(p.method, caps)
    /\ ValidSchedule(p.schedule)
    /\ SnapshotWork(p) <= caps.OCS_MAX_SNAPSHOT_CONTRACTS
    /\ "volatility" \in DOMAIN p.method => p.method.volatility = p.volatility

\* What TryFrom<CreateSimulationRequest> checks of the fields it converts.
Readable(request) ==
    /\ TimeFrame(request.time_frame)
    /\ request.zone \in Zones /\ request.time \in Times
    /\ Default(request, "calendar", "weekdays_v1") \in Calendars
    /\ \A wire \in ToSet(request.rules) : FieldsFit(wire)
    /\ StrictlyPositive(request.initial_price) /\ StrictlyPositive(request.volatility)
    /\ Finite(request.risk_free_rate) /\ Positive(request.dividend_yield)
    /\ StrictlyPositive(Default(request, "strike_interval", One))
    /\ Positive(Default(request, "spread", 0))
    /\ \A field \in {"skew_slope", "smile_curve"} : Finite(Default(request, field, 0))

\* The parameters that a request resolves to at the time `now', with the seed that
\* is drawn for it should it bring none.
Resolved(request, now, seed) ==
    WithDefaults(
        [field \in DOMAIN request \ {"time_frame", "zone", "time", "calendar", "rules"} |->
            request[field]],
        [start    |-> now,
         seed     |-> seed,
         interval |-> DerivedInterval(request.time_frame),
         schedule |-> [zone  |-> request.zone,
                       time  |-> request.time,
                       rules |-> [i \in DOMAIN request.rules |-> Rule(request.rules[i])]]])

\* The simulated clock: a function of the parameters and the cursor alone.
SimulatedAt(p, n) == p.start + n * p.interval
=============================================================================
