----------------------------- MODULE FactorTape -----------------------------
(***************************************************************************)
(* The factor tape of domain/factors.rs: the spot and the volatility that  *)
(* each step of a simulation is priced with, and the parameters that have  *)
(* no tape.                                                                *)
(***************************************************************************)
EXTENDS Walks, Parameters

CONSTANT YearFactor     \* the root of the periods a year has, by time frame

(***************************************************************************)
(* The volatility of historical prices.                                    *)
(***************************************************************************)
Ratio(prices, i) == Quotient(prices[i + 1], prices[i])

\* log_returns refuses a ratio that cannot be represented, or has no logarithm.
HaveReturns(prices) ==
    /\ \A i \in DOMAIN prices : prices[i] > 0
    /\ \A i \in 1..(Len(prices) - 1) : Ratio(prices, i) \in 1..MaxDecimal

Returns(prices) == [i \in 1..(Len(prices) - 1) |-> Log(Ratio(prices, i))]

HistoricalVolatility(returns, frame) == Mul(Dispersion(returns), YearFactor[frame.name])

\* Each point has seen the returns before it; the first two, which have seen too
\* few, are given the third one's estimate.
ExpandingWindow(prices, frame) ==
    LET returns == Returns(prices)
    IN  [i \in DOMAIN prices |->
            HistoricalVolatility(SubSeq(returns, 1, Max({i - 1, 2})), frame)]

(***************************************************************************)
(* FactorTape::build.                                                      *)
(***************************************************************************)
\* Upstream builds no chain at other volatilities.
Priceable(volatility) == volatility \in 1..One

\* The resolved method is the stored one, or fills in its series.
MethodMatches(p, m) ==
    IF p.method.kind = "Historical" THEN m.kind = "Historical" ELSE m = p.method

\* What the walk reads of a series is long enough and has a volatility.
SeriesIsUsable(p, m) ==
    m.kind = "Historical" => /\ Len(m.prices) >= p.steps
                             /\ HaveReturns(SubSeq(m.prices, 1, p.steps))

\* A simulation has one base volatility.
VolatilityAgrees(p, m) == m.kind # "Historical" => m.volatility = p.volatility

BaseVolatility(p, m) ==
    IF m.kind = "Historical"
    THEN HistoricalVolatility(Returns(SubSeq(m.prices, 1, p.steps)), m.timeframe)
    ELSE m.volatility

\* By step: the model's own, the estimates of a series, or the one of the model.
StepVolatilities(p, m, walk) ==
    CASE m.kind \in StochasticVolatility -> walk.vols
      [] m.kind = "Historical" /\ Len(walk.path) >= 3 ->
             ExpandingWindow(walk.path, m.timeframe)
      [] OTHER -> [i \in DOMAIN walk.path |-> BaseVolatility(p, m)]

Failed(error) == [rows |-> <<>>, error |-> error]

RowsFrom(p, walk, volatilities) ==
    IF \E i \in 1..p.steps : ~Priceable(volatilities[i]) THEN Failed("validation")
    ELSE [rows  |-> [i \in 1..p.steps |->
                       [simulated_at |-> SimulatedAt(p, i - 1), spot |-> walk.path[i],
                        volatility |-> volatilities[i]]],
          error |-> "none"]

Tape(p, m) ==
    IF ~MethodMatches(p, m) THEN Failed("internal")
    ELSE IF ~(/\ SeriesIsUsable(p, m)
              /\ VolatilityAgrees(p, m)
              /\ Priceable(BaseVolatility(p, m))) THEN Failed("validation")
    ELSE IF KernelRefuses(m, p.steps) THEN Failed("internal")
    ELSE LET walk == Generated(m, p.seed, p.initial_price, p.steps)
         IN  RowsFrom(p, walk, StepVolatilities(p, m, walk))
=============================================================================
