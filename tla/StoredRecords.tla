--------------------------- MODULE StoredRecords ----------------------------
(***************************************************************************)
(* A snapshot as the warehouse holds it: the record the manager makes of a *)
(* priced snapshot, the columns and rows it is written as, what persist    *)
(* refuses to write, the record that is rebuilt from the rows, and the     *)
(* rows an export renders from either of them.                             *)
(*                                                                         *)
(* A decimal is mantissa / 10^scale.  A quote has the fields that upstream *)
(* priced; one that it did not is not in the quote's domain.               *)
(***************************************************************************)
EXTENDS Integers, SequencesExt

CONSTANTS DecimalScale,   \* the digits after the point, of a decimal and of a column
          MaxMantissa,    \* the largest mantissa of a decimal
          MaxColumn,      \* the largest value of a decimal column's integer
          Instants        \* the instants that a column can hold

(***************************************************************************)
(* Decimals and their columns.                                             *)
(***************************************************************************)
IsDecimal(d) == d \in [mantissa : -MaxMantissa..MaxMantissa, scale : 0..DecimalScale]

\* The powers of ten.
TenTo[k \in 0..DecimalScale] == IF k = 0 THEN 1 ELSE 10 * TenTo[k - 1]

Below(a, b) == a.mantissa * TenTo[b.scale] < b.mantissa * TenTo[a.scale]

SameValue(a, b) == a.mantissa * TenTo[b.scale] = b.mantissa * TenTo[a.scale]

ToStorageDecimal(d) == d.mantissa * TenTo[DecimalScale - d.scale]

FitsColumn(d) == ToStorageDecimal(d) \in -MaxColumn..MaxColumn

\* Bug: the column's integer is read as a mantissa as it is.
FromStorageVerbatim(raw) == [mantissa |-> raw, scale |-> DecimalScale]

\* The zeros that the scaling appended are stripped again.
FromStorageDecimal(raw) ==
    LET Divides(scale) == raw % TenTo[DecimalScale - scale] = 0
        scale == Min({k \in 0..DecimalScale : Divides(k)})
    IN  [mantissa |-> raw \div TenTo[DecimalScale - scale], scale |-> scale]

(***************************************************************************)
(* The record of a snapshot.  Strikes are held in a set ordered by strike. *)
(***************************************************************************)
Strikes(options) == SetToSortSeq(options, LAMBDA a, b : Below(a.strike, b.strike))

Expirations(snapshot) ==
    [i \in DOMAIN snapshot.chains |->
        [expires_at |-> snapshot.chains[i].expires_at,
         days       |-> snapshot.chains[i].days,
         labels     |-> snapshot.chains[i].labels,
         quotes     |-> Strikes(snapshot.chains[i].options)]]

\* snapshot_record
RecordOf(snapshot) ==
    [simulated_at |-> snapshot.simulated_at, spot |-> snapshot.spot,
     volatility   |-> snapshot.volatility, expirations |-> Expirations(snapshot)]

QuotesOf(record) == UNION {ToSet(e.quotes) : e \in ToSet(record.expirations)}

Ascends(sequence, Before(_, _)) ==
    \A i \in 1..(Len(sequence) - 1) : Before(sequence[i], sequence[i + 1])

\* SnapshotRecord::validate
IsOrdered(record) ==
    /\ Ascends(record.expirations, LAMBDA e, f : e.expires_at < f.expires_at)
    /\ \A e \in ToSet(record.expirations) :
           Ascends(e.quotes, LAMBDA q, r : Below(q.strike, r.strike))

\* What persist accepts, apart from the number of rows.
Storable(record) ==
    /\ IsOrdered(record)
    /\ record.simulated_at \in Instants
    /\ FitsColumn(record.spot) /\ FitsColumn(record.volatility)
    /\ \A e \in ToSet(record.expirations) : e.expires_at \in Instants /\ FitsColumn(e.days)
    /\ \A q \in QuotesOf(record) : \A field \in DOMAIN q : FitsColumn(q[field])

(***************************************************************************)
(* The rows.                                                               *)
(***************************************************************************)
MetaRow(record) ==
    [simulated_at     |-> record.simulated_at,
     underlying_price |-> ToStorageDecimal(record.spot),
     base_volatility  |-> ToStorageDecimal(record.volatility)]

\* An expiration is not a row of its own: it is repeated in each of its quotes'.
QuoteRow(e, quote) ==
    [expires_at |-> e.expires_at, days |-> ToStorageDecimal(e.days), labels |-> e.labels,
     columns |-> [field \in DOMAIN quote |-> ToStorageDecimal(quote[field])]]

QuoteRows(record) ==
    FlattenSeq([i \in DOMAIN record.expirations |->
                   LET e == record.expirations[i]
                   IN  [j \in DOMAIN e.quotes |-> QuoteRow(e, e.quotes[j])]])

Precedes(a, b) ==
    \/ a.expires_at < b.expires_at
    \/ a.expires_at = b.expires_at /\ a.columns.strike < b.columns.strike

\* ORDER BY expires_at, strike
InStorageOrder(rows) ==
    CHOOSE sequence \in [1..Cardinality(rows) -> rows] :
        \A i, j \in DOMAIN sequence : i < j => Precedes(sequence[i], sequence[j])

QuoteFrom(row) == [field \in DOMAIN row.columns |-> FromStorageDecimal(row.columns[field])]

\* A row is one more quote of the last expiration, or the first one of the next.
Taken(expirations, row) ==
    IF expirations # <<>> /\ Last(expirations).expires_at = row.expires_at
    THEN [expirations EXCEPT ![Len(expirations)].quotes = Append(@, QuoteFrom(row))]
    ELSE Append(expirations, [expires_at |-> row.expires_at,
                              days       |-> FromStorageDecimal(row.days),
                              labels     |-> row.labels,
                              quotes     |-> <<QuoteFrom(row)>>])

\* Consecutive rows of one instant are the quotes of one expiration.
ExpirationsFrom(rows) ==
    LET upto[n \in 0..Len(rows)] == IF n = 0 THEN <<>> ELSE Taken(upto[n - 1], rows[n])
    IN  upto[Len(rows)]

RecordFromRows(meta, rows) ==
    [simulated_at |-> meta.simulated_at,
     spot         |-> FromStorageDecimal(meta.underlying_price),
     volatility   |-> FromStorageDecimal(meta.base_volatility),
     expirations  |-> ExpirationsFrom(rows)]

SignedFields == {"delta_call", "delta_put", "gamma"}

\* A decimal that the rows need must be one, and be positive where a price is.
IsPrice(d) == IsDecimal(d) /\ d.mantissa >= 0

IsReadable(record) ==
    /\ IsPrice(record.spot) /\ IsPrice(record.volatility)
    /\ \A e \in ToSet(record.expirations) : IsPrice(e.days)
    /\ \A q \in QuotesOf(record) : \A field \in DOMAIN q :
           IF field \in SignedFields THEN IsDecimal(q[field]) ELSE IsPrice(q[field])

(***************************************************************************)
(* The rows of an export.                                                  *)
(***************************************************************************)
ExportRow(e, quote) ==
    [expires_at |-> e.expires_at, labels |-> e.labels, days |-> e.days, quote |-> quote]

Rendered(expirations) ==
    FlattenSeq([i \in DOMAIN expirations |->
                   LET e == expirations[i]
                   IN  [j \in DOMAIN e.quotes |-> ExportRow(e, e.quotes[j])]])

SameRow(a, b) ==
    /\ a.expires_at = b.expires_at /\ a.labels = b.labels
    /\ SameValue(a.days, b.days)
    /\ DOMAIN a.quote = DOMAIN b.quote
    /\ \A field \in DOMAIN a.quote : SameValue(a.quote[field], b.quote[field])

SameRows(as, bs) == Len(as) = Len(bs) /\ \A i \in DOMAIN as : SameRow(as[i], bs[i])
=============================================================================
