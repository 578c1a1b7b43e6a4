-------------------------- MODULE MCSnapshotSeries --------------------------
(***************************************************************************)
(* The calendar of 2024 to 2030, in quarters of a day: 1 January 2024 is a *)
(* Monday.  The transitions are on 23 February 2024, the last Friday of its*)
(* month, at the local time the expirations are at.                        *)
(***************************************************************************)
EXTENDS SnapshotSeries

CONSTANTS s1, s2, Nowhere

DaysBefore == <<0, 31, 59, 90, 120, 151, 181, 212, 243, 273, 304, 334>>

Calendar ==
    [ym \in (0..6) \X (1..12) |->
        365 * ym[1] + ((ym[1] + 3) \div 4) + DaysBefore[ym[2]]
        + (IF ym[1] % 4 = 0 /\ ym[2] > 2 THEN 1 ELSE 0)]

Zone(shift, before, after) == [shift |-> shift, before |-> before, after |-> after]

Ahead == Zone(0, 2, 2)         \* the local date is ahead of UTC
Gap   == Zone(216, -1, 0)      \* the local time is missing
Fold  == Zone(216, 0, -1)      \* it occurs twice
Skip  == Zone(214, -2, 2)      \* a whole day is missing

KnownZones == {Ahead, Gap, Fold, Skip}

Daily(count) == [id |-> "daily", kind |-> "daily", count |-> count]
Weekly(weekdays, count) ==
    [id |-> "weekly", kind |-> "weekly", weekdays |-> weekdays, count |-> count]
Monthly(weekday, count) ==
    [id |-> "monthly", kind |-> "monthly", weekday |-> weekday, count |-> count]
Yearly(month, weekday, count) ==
    [id |-> "yearly", kind |-> "yearly", month |-> month, weekday |-> weekday,
     count |-> count]

\* A yearly rule that names no month.
Leaps(weekday, count) ==
    [id |-> "leaps", kind |-> "yearly", weekday |-> weekday, count |-> count]

RuleLists == {<<Daily(2), Weekly(<<4, 0, 4>>, 2)>>,
              <<Daily(1), Monthly(4, 2), Yearly(2, 4, 1)>>,
              <<Monthly(1, 2), Leaps(3, 2), Weekly(<<4>>, 1)>>}

Refused == {<<>>, <<Weekly(<<4, 5>>, 1)>>, <<Weekly(<<>>, 1)>>, <<Monthly(6, 1)>>,
            <<Yearly(13, 4, 1)>>, <<Daily(0)>>, <<Daily(4)>>, <<Daily(1), Daily(2)>>,
            <<Daily(3), Weekly(<<4>>, 3)>>, <<Daily(1) @@ [weekday |-> 4]>>,
            <<[id |-> "leaps", kind |-> "yearly", month |-> 12, count |-> 1]>>}

\* 23 February 2024 from midnight UTC to just after the expiration, and 30 December.
StartDates == {212, 215, 216, 1457}

(***************************************************************************)
(* Decimals in hundredths.                                                 *)
(***************************************************************************)
ExpHundredths(x) ==
    LET e(y) == 100 + y + ((y * y) \div 200)
    IN  IF x < 0 THEN 10000 \div e(-x) ELSE e(x)

LogHundredths(x) == ((x - 100) * 200) \div (x + 100)

RootHundredths(x) == CHOOSE r \in 0..(x + 100) : r * r <= 100 * x /\ 100 * x < (r + 1) * (r + 1)

Streams ==
    [seed \in 1..2 |->
        [k \in 1..16 |-> [normal  |-> 60 * ((((3 * k * k) + (seed * k)) % 5) - 2),
                          uniform |-> 10 * (((3 * k) + seed) % 10)]]]

Moves == [dt |-> 25, drift |-> 4, volatility |-> 20]

Pulled == [dt |-> 25, volatility |-> 20, speed |-> 100, mean |-> 400]

Methods ==
    {[kind |-> "Brownian"] @@ Moves, [kind |-> "GeometricBrownian"] @@ Moves,
     [kind |-> "LogReturns", autocorrelation |-> 50] @@ Moves,
     [kind |-> "MeanReverting"] @@ Pulled,
     [kind |-> "JumpDiffusion", intensity |-> 200, jump_mean |-> 30,
      jump_volatility |-> 10] @@ Moves,
     [kind |-> "JumpDiffusion", intensity |-> 400, jump_mean |-> 0,
      jump_volatility |-> 0] @@ Moves,
     [kind |-> "Garch", alpha |-> 30, beta |-> 60] @@ Moves,
     [kind |-> "Heston", kappa |-> 100, theta |-> 9, xi |-> 50, rho |-> -50] @@ Moves,
     [kind |-> "Custom", vov |-> 20, vol_speed |-> 100, vol_mean |-> 30] @@ Moves,
     [kind |-> "Telegraph", lambda_up |-> 300, lambda_down |-> 100,
      multiplier_up |-> 300, multiplier_down |-> 50] @@ Moves}

Prices(prices) ==
    [kind |-> "Historical", timeframe |-> [name |-> "Year"], prices |-> prices, symbol |-> "SPX"]

\* The third has a flat opening, the fourth a ratio out of range, the fifth is short.
Histories == {Prices(<<100, 110, 99, 120, 100>>), Prices(<<100, 130, 90, 90, 90>>),
              Prices(<<100, 100, 100, 130, 90>>), Prices(<<200, 1, 100, 100, 100>>),
              Prices(<<100, 120>>)}

RefusedMethods ==
    {[kind |-> "Garch", alpha |-> 50, beta |-> 50] @@ Moves,
     [kind |-> "Garch", alpha |-> -10, beta |-> 50] @@ Moves,
     [kind |-> "Brownian"] @@ [Moves EXCEPT !.dt = 0],
     [kind |-> "Brownian"] @@ [Moves EXCEPT !.drift = NotFinite],
     [kind |-> "Brownian"] @@ [Moves EXCEPT !.volatility = 30],
     [kind |-> "LogReturns", autocorrelation |-> 101] @@ Moves,
     Prices(<<100, 0, 100>>), Prices(<<100, 110, 120, 110, 100, 110>>),
     [Prices(<<100, 110, 120>>) EXCEPT !.symbol = "S P"],
     [Prices(<<100, 110, 120>>) EXCEPT !.timeframe = [name |-> "Custom", periods |-> 0]]}

(***************************************************************************)
(* The requests.                                                           *)
(***************************************************************************)
Frame(name) == [name |-> name]

TicksOf == [Day |-> 4, Year |-> 1460]

RootPeriods == [Year |-> 100]

Request(start, zone, time, rules) ==
    [symbol |-> "SPX", steps |-> 2, start |-> start, time_frame |-> Frame("Day"),
     zone |-> zone, time |-> time, rules |-> rules, chain_size |-> 1, seed |-> 1,
     initial_price |-> 100, volatility |-> 20, risk_free_rate |-> 5, dividend_yield |-> 0,
     method |-> [kind |-> "Brownian"] @@ Moves]

Usual == Request(212, Ahead, 3, <<Daily(2)>>)

Without(request, field) == Restrict(request, DOMAIN request \ {field})

Walking == {[Usual EXCEPT !.steps = 3, !.seed = 2, !.method = m] :
               m \in Methods \cup RefusedMethods}
           \cup {[Usual EXCEPT !.steps = 4, !.method = m] : m \in Histories}

\* Fields that are left out, or are what their check is for.
Odd == {Without(Usual, "start"), Without(Usual, "seed"), Without(Usual, "chain_size"),
        [Usual EXCEPT !.time_frame = [name |-> "Custom", periods |-> 365]],
        [Usual EXCEPT !.time_frame = Frame("Second")],
        [Usual EXCEPT !.time_frame = Frame("Second")] @@ [interval |-> 8],
        Usual @@ [interval |-> 9], [Usual EXCEPT !.steps = 0], [Usual EXCEPT !.steps = 5],
        [Usual EXCEPT !.chain_size = 3], [Usual EXCEPT !.symbol = "S P"],
        [Usual EXCEPT !.zone = Nowhere], [Usual EXCEPT !.time = 4],
        Usual @@ [calendar |-> "nyse"], [Usual EXCEPT !.initial_price = 0],
        [Usual EXCEPT !.volatility = NotFinite], [Usual EXCEPT !.risk_free_rate = NotFinite],
        [Usual EXCEPT !.dividend_yield = -1], Usual @@ [strike_interval |-> 0],
        Usual @@ [spread |-> -1], Usual @@ [skew_slope |-> NotFinite]}

OfferedParameters ==
    s1 :> {Request(start, zone, 3, rules) :
              start \in StartDates, zone \in KnownZones, rules \in RuleLists}
          \cup {Request(start, zone, 0, rules) :
              start \in StartDates, zone \in {Ahead, Skip}, rules \in RuleLists}
          \cup {Request(212, Ahead, 3, rules) : rules \in Refused}
          \cup {[Request(212, Ahead, 3, rules) EXCEPT !.chain_size = 2] : rules \in RuleLists}
          \cup Walking \cup Odd
    @@ s2 :> {Usual}

(***************************************************************************)
(* The environments.                                                       *)
(***************************************************************************)
UnsetValues ==
    [OCS_MAX_STEPS |-> 4, OCS_MAX_CHAIN_SIZE |-> 2, OCS_MAX_HISTORICAL_PRICES |-> 5,
     OCS_MAX_CACHED_SNAPSHOTS |-> 2, OCS_MAX_CACHED_SNAPSHOT_CONTRACTS |-> 14,
     OCS_MAX_SNAPSHOT_CONTRACTS |-> 15, OCS_SNAPSHOT_BATCH_ROWS |-> 15,
     OCS_SNAPSHOT_RETENTION_DAYS |-> 9, OCS_SNAPSHOT_PERSISTENCE_ENABLED |-> FALSE]

LargestValues == [name \in Counts |-> 100]

Lower == [OCS_MAX_SNAPSHOT_CONTRACTS |-> 9, OCS_SNAPSHOT_BATCH_ROWS |-> 9,
          OCS_SNAPSHOT_PERSISTENCE_ENABLED |-> TRUE, OCS_MAX_STEPS |-> Text]

\* Two that the replica starts with, and one for each check that stops it.
SomeEnvironments ==
    {[OCS_MAX_STEPS |-> Blank, OCS_SNAPSHOT_RETENTION_DAYS |-> Blank], Lower,
     [OCS_SNAPSHOT_PERSISTENCE_ENABLED |-> TRUE, OCS_SNAPSHOT_BATCH_ROWS |-> 14],
     [OCS_SNAPSHOT_PERSISTENCE_ENABLED |-> TRUE, OCS_MAX_SNAPSHOT_CONTRACTS |-> 20],
     [OCS_SNAPSHOT_PERSISTENCE_ENABLED |-> Text], [OCS_SNAPSHOT_RETENTION_DAYS |-> 101],
     [OCS_SNAPSHOT_RETENTION_DAYS |-> 0], [OCS_MAX_CACHED_SNAPSHOTS |-> Text]}
=============================================================================
