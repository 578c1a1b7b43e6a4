---------------------------- MODULE StoredExport ----------------------------
(***************************************************************************)
(* Export with the values its rows stand for: a step is priced as some     *)
(* snapshot, and row <<s, i>> of the quotes table is the i-th row that     *)
(* persist writes of it.                                                   *)
(***************************************************************************)
EXTENDS Export, StoredRecords

CONSTANT Snapshots   \* Snapshots[s]: what step s may have been priced as

ASSUME DecimalAssumption ==
    DecimalScale \in Nat /\ MaxMantissa \in Nat /\ MaxColumn \in Nat /\ Instants \subseteq Int

\* A record as it is priced: every quote has its strike, and all numbers are decimals,
\* positive ones where the types say so.
IsRecord(record) ==
    /\ record.expirations \in Seq(ToSet(record.expirations))
    /\ \A e \in ToSet(record.expirations) : e.expires_at \in Int /\ e.quotes \in Seq(ToSet(e.quotes))
    /\ \A q \in QuotesOf(record) : "strike" \in DOMAIN q
    /\ IsReadable(record)

ASSUME SnapshotAssumption ==
    \A s \in Steps : \A snapshot \in Snapshots[s] :
        LET record == RecordOf(snapshot)
        IN  /\ IsRecord(record)
            /\ Len(QuoteRows(record)) = Count[s]
            /\ s \notin Unstorable <=> Storable(record)

\* What is read back of a snapshot of which these of its rows are in the table.
ReadBack(snapshot, rows) ==
    LET written == QuoteRows(RecordOf(snapshot))
    IN  RecordFromRows(MetaRow(RecordOf(snapshot)),
                       InStorageOrder({written[row[2]] : row \in rows}))

\* The record can be read, and an export of it renders what a replay renders.
RendersAsPriced(snapshot, rows) ==
    LET record == ReadBack(snapshot, rows)
    IN  /\ IsReadable(record)
        /\ record.simulated_at = snapshot.simulated_at
        /\ SameValue(record.spot, snapshot.spot)
        /\ SameValue(record.volatility, snapshot.volatility)
        /\ SameRows(Rendered(record.expirations), Rendered(Expirations(snapshot)))

\* The rows of a step that do so.
AsPriced ==
    [s \in Steps \ Unstorable |->
        {rows \in SUBSET Rows(s) : \A snapshot \in Snapshots[s] : RendersAsPriced(snapshot, rows)}]

(***************************************************************************)
(* What persist accepted can be read again, and what an export takes of it *)
(* is, row for row and value for value, what replaying the step gives,     *)
(* however the values were scaled and whichever of them were not quoted    *)
(* (export.rs, "they must render the same rows").                          *)
(***************************************************************************)
ServedAsPriced ==
    \A r \in loaded : r.step \notin Unstorable /\ r.rows \in AsPriced[r.step]
=============================================================================
