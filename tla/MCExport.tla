------------------------------ MODULE MCExport ------------------------------
(***************************************************************************)
(* An instance of StoredExport for TLC: five steps, the first with two     *)
(* rows, one with none, one too large to be persisted and one with values  *)
(* that do not fit.  A decimal has two digits after the point and three in *)
(* all, and a column four: as many more as the library's 28, 29 and 39.    *)
(***************************************************************************)
EXTENDS StoredExport, TLC

RowCounts == 0 :> 2 @@ 1 :> 1 @@ 2 :> 0 @@ 3 :> 3 @@ 4 :> 1

Ask(f, t, d, e) == [from |-> f, to |-> t, dataset |-> d, format |-> e]

SomeQueries ==
    {Ask(Unset, 3, "option_chains", "json"),
     Ask(1, 2, "option_chains", "csv"),
     Ask(2, 3, "underlying", "csv"),
     Ask(2, 1, "volatility", "json"),
     Ask(0, 5, "volatility", "json"),
     Ask(Unset, Unset, "volatility", "csv"),
     Ask(4, Unset, "option_chains", "csv")}

(***************************************************************************)
(* The snapshots: every value in every scale, between expirations and      *)
(* strikes in a number of shapes.                                          *)
(***************************************************************************)
Decimal(mantissa, scale) == [mantissa |-> mantissa, scale |-> scale]

Prices == {Decimal(m, k) : m \in {0, 10, 17, 250, 790}, k \in 0..2}

Fitting == {price \in Prices : FitsColumn(price)}

Greeks == {Decimal(-100, 2), Decimal(-7, 1), Decimal(0, 1)}

Representable == 0..8

Five == Decimal(5, 0)
Ten == Decimal(100, 1)

\* Both sides, a call alone, and no quote at all.
Full(strike, price, greek) ==
    [field \in {"implied_volatility", "call_bid", "call_ask", "call_mid",
                "put_bid", "put_ask", "put_mid"} |-> price]
    @@ [strike |-> strike, delta_put |-> greek, gamma |-> price]

Call(strike, price, greek) ==
    [strike |-> strike, implied_volatility |-> price, call_bid |-> price, delta_call |-> greek]

Unquoted(strike, price) == [strike |-> strike, implied_volatility |-> price]

Chain(at, days, labels, options) ==
    [expires_at |-> at, days |-> days, labels |-> labels, options |-> options]

Snapshot(at, price, chains) ==
    [simulated_at |-> at, spot |-> price, volatility |-> Decimal(20, 2), chains |-> chains]

TwoQuotes(price, greek) ==
    {<<Chain(1, price, <<"daily">>, {Full(Five, price, greek), Call(Ten, price, greek)})>>,
     <<Chain(1, price, <<"daily">>, {Full(Ten, price, greek)}),
       Chain(2, Ten, <<"daily", "weekly">>, {Unquoted(Five, price)})>>,
     <<Chain(1, price, <<"daily">>, {}),
       Chain(2, Ten, <<>>, {Unquoted(Five, price), Unquoted(Ten, price)})>>}

Priced ==
    0 :> UNION {{Snapshot(0, price, chains) : chains \in TwoQuotes(price, greek)} :
                   price \in Fitting, greek \in Greeks}
    @@ 1 :> {Snapshot(0, price, <<Chain(1, Five, <<"daily">>, {Call(Ten, price, greek)})>>) :
                   price \in Fitting, greek \in Greeks}
    @@ 2 :> {Snapshot(0, price, chains) :
                   price \in Fitting, chains \in {<<>>, <<Chain(1, Five, <<>>, {})>>}}
    @@ 3 :> {Snapshot(0, price, <<Chain(1, Five, <<>>, {Unquoted(Five, price), Unquoted(Ten, price),
                                                        Unquoted(Decimal(51, 1), price)})>>) :
                   price \in Fitting}
    @@ 4 :> {Snapshot(0, price, <<Chain(1, Five, <<>>, {Unquoted(Ten, Five)})>>) :
                   price \in Prices \ Fitting}
            \cup {Snapshot(0, Five, <<Chain(9, Five, <<>>, {Unquoted(Ten, Five)})>>)}
=============================================================================
