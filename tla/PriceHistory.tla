---------------------------- MODULE PriceHistory ----------------------------
(***************************************************************************)
(* The historical prices that v1 walks replay: what the queries on the     *)
(* ohlcv table answer, and which stretch of it a seed selects.             *)
(*                                                                         *)
(* The table is a set of rows, one per symbol and tick; a tick is what the *)
(* code calls a minute.  Of a row's prices only the close is used.         *)
(***************************************************************************)
EXTENDS Integers, SequencesExt

CONSTANTS Interval,      \* the ticks of a bar, by the time frames that can be queried
          Span,          \* the ticks of a step, by time frame
          DayTicks,      \* the ticks of a day
          Draw(_, _, _)  \* Draw(seed, k, n): the k-th draw of the seed, in 0..n

(***************************************************************************)
(* The queries.                                                            *)
(***************************************************************************)
SymbolsIn(table) == {row.symbol : row \in table}

RowsOf(table, symbol, from) == {row \in table : row.symbol = symbol /\ row.at >= from}

TicksOf(table, symbol) == {row.at : row \in RowsOf(table, symbol, 0)}

Latest(rows) == CHOOSE row \in rows : \A other \in rows : other.at <= row.at

BarOf(row, frame) == row.at \div Interval[frame]

\* The i-th number of a set, from the lowest.
Nth(numbers, i) ==
    CHOOSE n \in numbers : Cardinality({lower \in numbers : lower < n}) = i - 1

\* The closes of the bars from an instant on, at most `limit' of them: a bar
\* closes with its last row, and a bar without a row is left out.
Bars(table, symbol, frame, from, limit) ==
    LET rows == RowsOf(table, symbol, from)
        bars == {BarOf(row, frame) : row \in rows}
    IN  [i \in 1 .. Min({limit, Cardinality(bars)}) |->
            Latest({row \in rows : BarOf(row, frame) = Nth(bars, i)}).close]

\* min and max of no rows are the epoch.
DateRange(table, symbol) ==
    LET at == TicksOf(table, symbol)
    IN  IF at = {} THEN [first |-> 0, last |-> 0] ELSE [first |-> Min(at), last |-> Max(at)]

(***************************************************************************)
(* The selection.                                                          *)
(***************************************************************************)
Duration(frame, steps) == steps * Span[frame]

\* Bug: room is left for the steps between the bars, not for the last bar.
StartsWithoutRoom(range, frame, steps, seed, k) ==
    LET latest == range.last - Duration(frame, steps - 1)
    IN  IF latest < range.first THEN {}
        ELSE {range.first + DayTicks * Draw(seed, k, (latest - range.first) \div DayTicks)}

\* select_random_date: none if the range is too small, else so many whole days
\* into it that the steps still fit.
Starts(range, frame, steps, seed, k) ==
    LET latest == range.last - Duration(frame, steps)
    IN  IF latest < range.first THEN {}
        ELSE {range.first + DayTicks * Draw(seed, k, (latest - range.first) \div DayTicks)}

\* The symbol that the first draw of the seed selects, by its place in the order of
\* the symbols: none if there are none.
ChosenSymbols(table, seed) ==
    LET symbols == SymbolsIn(table)
    IN  {symbol \in symbols :
            Cardinality({other \in symbols : other < symbol})
                = Draw(seed, 1, Cardinality(symbols) - 1)}
=============================================================================
