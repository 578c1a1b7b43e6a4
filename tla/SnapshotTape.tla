---------------------------- MODULE SnapshotTape ----------------------------
(***************************************************************************)
(* The two warehouse tables that hold the persisted tape of one            *)
(* simulation: ClickHouseSnapshotRepository's persist with its completion  *)
(* protocol, the retention that ClickHouse applies by itself, and what its *)
(* range queries return.                                                   *)
(*                                                                         *)
(* A snapshot is determined by its step, so its quote rows are the pairs   *)
(* <<step, 1>> .. <<step, Count[step]>>, and a completion marker is its    *)
(* step: the quote_count it carries is Count[step].  Reads deduplicate     *)
(* (FINAL), so a table is a set of rows.                                   *)
(*                                                                         *)
(* A step reaches persist at most once (EachStepSentOnce of Warehouse).    *)
(* A process crash is the failure of the insert under way.                 *)
(***************************************************************************)
EXTENDS Naturals, FiniteSets

CONSTANTS Horizon,      \* parameters.steps
          Count,        \* Count[s]: the quote rows of step s
          Unstorable,   \* the steps with a value that no column holds
          BatchRows,    \* OCS_SNAPSHOT_BATCH_ROWS
          MaxReadRows,  \* OCS_SNAPSHOT_MAX_READ_ROWS
          Writers,      \* the replicas' warehouse writers
          NoStep        \* a writer with nothing in hand

Steps == 0 .. Horizon - 1

ASSUME TapeAssumption ==
    /\ Horizon \in Nat \ {0}
    /\ Count \in [Steps -> Nat]
    /\ BatchRows \in Nat
    /\ MaxReadRows \in Nat
    /\ NoStep \notin Steps

VARIABLES
    quotes,   \* simulation_option_quotes
    markers,  \* simulation_snapshots
    filed,    \* the steps that were handed to persist
    job,      \* job[w]: the step writer w persists, or NoStep
    batched   \* batched[w]: whether its quote batch has been accepted

tables == <<quotes, markers, filed, job, batched>>

Rows(s) == {<<s, i>> : i \in 1 .. Count[s]}

TapeTypeOK ==
    /\ quotes \in SUBSET UNION {Rows(s) : s \in Steps}
    /\ markers \in SUBSET Steps
    /\ filed \in SUBSET Steps
    /\ job \in [Writers -> Steps \cup {NoStep}]
    /\ batched \in [Writers -> BOOLEAN]

TapeInit ==
    /\ quotes = {}
    /\ markers = {}
    /\ filed = {}
    /\ job = [w \in Writers |-> NoStep]
    /\ batched = [w \in Writers |-> FALSE]

-----------------------------------------------------------------------------
(* The writers                                                             *)

\* persist takes a record that fits a batch, and all of whose values fit their
\* columns.  One with no rows goes straight to its marker.
Take(w, s) ==
    /\ job[w] = NoStep
    /\ s \notin filed
    /\ Count[s] <= BatchRows
    /\ s \notin Unstorable
    /\ filed' = filed \cup {s}
    /\ job' = [job EXCEPT ![w] = s]
    /\ batched' = [batched EXCEPT ![w] = (Count[s] = 0)]
    /\ UNCHANGED <<quotes, markers>>

\* Bug: the marker is written whether or not the batch was accepted.
WriteQuotesGoingOn(w) ==
    /\ job[w] # NoStep
    /\ ~batched[w]
    /\ \E landed \in SUBSET Rows(job[w]) : quotes' = quotes \cup landed
    /\ batched' = [batched EXCEPT ![w] = TRUE]
    /\ UNCHANGED <<markers, filed, job>>

\* write_quote_batch.  An insert that fails or times out may have landed in
\* part, or whole; persist gives up on the step.
WriteQuotes(w) ==
    /\ job[w] # NoStep
    /\ ~batched[w]
    /\ \/ /\ quotes' = quotes \cup Rows(job[w])
          /\ batched' = [batched EXCEPT ![w] = TRUE]
          /\ UNCHANGED job
       \/ /\ \E landed \in SUBSET Rows(job[w]) : quotes' = quotes \cup landed
          /\ job' = [job EXCEPT ![w] = NoStep]
          /\ UNCHANGED batched
    /\ UNCHANGED <<markers, filed>>

\* write_completion_marker, which may fail after it landed as well as before.
WriteMarker(w) ==
    /\ job[w] # NoStep
    /\ batched[w]
    /\ markers' \in {markers, markers \cup {job[w]}}
    /\ job' = [job EXCEPT ![w] = NoStep]
    /\ batched' = [batched EXCEPT ![w] = FALSE]
    /\ UNCHANGED <<quotes, filed>>

\* The TTL of either table, applied row by row as parts are merged.  Retention
\* is days and an insert is seconds, so no step under way is old enough.
Retire ==
    /\ \/ \E r \in quotes :
             /\ \A w \in Writers : job[w] # r[1]
             /\ quotes' = quotes \ {r}
             /\ UNCHANGED markers
       \/ \E s \in markers :
             /\ markers' = markers \ {s}
             /\ UNCHANGED quotes
    /\ UNCHANGED <<filed, job, batched>>

TapeNext ==
    \/ \E w \in Writers :
          \/ \E s \in Steps : Take(w, s)
          \/ WriteQuotes(w)
          \/ WriteMarker(w)
    \/ Retire

-----------------------------------------------------------------------------
(* The two queries of read_range, and what it makes of their answers       *)

MarkersIn(from, to) == {s \in markers : from <= s /\ s <= to}

QuotesIn(from, to) == {r \in quotes : from <= r[1] /\ r[1] <= to}

\* reject_if_over_budget
OverBudget(answer) == Cardinality(answer) > MaxReadRows

RowsOf(s, answer) == {r \in answer : r[1] = s}

\* Bug: the marker alone decides.
AssembleUnchecked(metas, answer) ==
    {[step |-> s, rows |-> RowsOf(s, answer)] : s \in metas}

\* assemble: a step is returned if its rows are as many as its marker says.
Assemble(metas, answer) ==
    {[step |-> s, rows |-> RowsOf(s, answer)] :
        s \in {t \in metas : Cardinality(RowsOf(t, answer)) = Count[t]}}
=============================================================================
