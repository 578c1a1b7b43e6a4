------------------------------- MODULE Export -------------------------------
(***************************************************************************)
(* GET /api/v2/simulations/{id}/export: the producer on a blocking thread, *)
(* which takes each step from the warehouse or replays it, the bounded     *)
(* channel, and the response body the client reads.                        *)
(*                                                                         *)
(* The producer:                                                           *)
(*                                                                         *)
(*   build -> row -> (metas -> quotes ->) row -> send -> row ... -> ended  *)
(*                                                                         *)
(* Its reads of the warehouse are two queries, between which writers and   *)
(* retention go on.  The parameters are read once, before anything is sent,*)
(* so the simulation itself plays no further part.  A chunk is the set of  *)
(* rows it carries; a row of the underlying or the volatility dataset is   *)
(* row 0 of its step.  The order of the rows within a step is the tables'  *)
(* sorting key on one side and the chain's on the other and is not         *)
(* modelled.                                                               *)
(***************************************************************************)
EXTENDS SnapshotTape, Sequences

CONSTANTS Queries,   \* the requests that clients send
          MaxRows,   \* max_export_rows
          Window,    \* SNAPSHOT_WINDOW_STEPS
          Capacity,  \* CHANNEL_CAPACITY
          Unset,     \* a bound that the client left out
          NoExport   \* no export under way

Datasets == {"underlying", "volatility", "option_chains"}

ASSUME ExportAssumption ==
    /\ Queries \subseteq [from : Nat \cup {Unset}, to : Nat \cup {Unset},
                          dataset : Datasets, format : {"json", "csv"}]
    /\ MaxRows \in Nat
    /\ Window \in Nat \ {0}
    /\ Capacity \in Nat \ {0}
    /\ Unset \notin Nat

\* Resolved requests.
Exports == [from : Steps, to : Steps, dataset : Datasets, format : {"json", "csv"}]

ASSUME NoExport \notin Exports

VARIABLES
    export,    \* the request being answered, or NoExport
    phase,     \* where the producer is
    next,      \* the next step of its range
    loaded,    \* StoredSteps: the records of the window not used yet
    covered,   \* StoredSteps: the steps below this one have been asked for
    window,    \* StoredSteps: how many steps a read asks for
    degraded,  \* StoredSteps: whether it has given up on the warehouse
    metas,     \* the markers that the read under way has fetched
    chunk,     \* the chunk the producer wants to send
    channel,   \* the chunks between the producer and the body
    body,      \* the chunks the client has received
    ending,    \* how the body stands for the client
    failures   \* ghost: the reads of this export that failed

producer == <<phase, next, chunk>>
stored == <<loaded, covered, window, degraded, metas, failures>>
client == <<channel, body, ending>>
vars == <<tables, export, producer, stored, client>>

Replay(d, s) == IF d = "option_chains" THEN Rows(s) ELSE {<<s, 0>>}

Chunks == [kind : {"none", "prologue", "rows", "epilogue", "error"},
           step : Nat, rows : SUBSET (Steps \X Nat)]

Bare(kind) == [kind |-> kind, step |-> 0, rows |-> {}]

TypeOK ==
    /\ TapeTypeOK
    /\ export \in Exports \cup {NoExport}
    /\ phase \in {"idle", "build", "row", "metas", "quotes", "send", "ended"}
    /\ next \in Nat
    /\ loaded \in SUBSET [step : Steps, rows : SUBSET (Steps \X Nat)]
    /\ covered \in 0 .. Horizon
    /\ window \in 1 .. Window
    /\ degraded \in BOOLEAN
    /\ metas \in SUBSET Steps
    /\ chunk \in Chunks
    /\ channel \in Seq(Chunks) /\ Len(channel) <= Capacity
    /\ body \in Seq(Chunks)
    /\ ending \in {"none", "open", "whole", "broken", "gone"}
    /\ failures \in Nat

Fresh ==
    /\ loaded' = {}
    /\ covered' = 0
    /\ window' = Window
    /\ degraded' = FALSE
    /\ metas' = {}
    /\ failures' = 0

Init ==
    /\ TapeInit
    /\ export = NoExport
    /\ phase = "idle" /\ next = 0 /\ chunk = Bare("none")
    /\ loaded = {} /\ covered = 0 /\ window = Window /\ degraded = FALSE
    /\ metas = {} /\ failures = 0
    /\ channel = <<>> /\ body = <<>> /\ ending = "none"

-----------------------------------------------------------------------------
(* The request                                                             *)

Or(bound, default) == IF bound = Unset THEN default ELSE bound

\* StepRange::resolve: a request it refuses is answered with 400 and leaves
\* nothing behind.
Resolve(q) ==
    {e \in Exports :
        /\ e.from = Or(q.from, 0) /\ e.to = Or(q.to, Horizon - 1)
        /\ e.from <= e.to
        /\ e.to - e.from + 1 <= MaxRows
        /\ e.dataset = q.dataset /\ e.format = q.format}

\* export_simulation: the channel is opened and the producer spawned.
Begin(q) ==
    /\ phase = "idle"
    /\ \E e \in Resolve(q) : export' = e /\ next' = e.from
    /\ phase' = "build"
    /\ chunk' = Bare("none")
    /\ Fresh
    /\ channel' = <<>> /\ body' = <<>> /\ ending' = "open"
    /\ UNCHANGED tables

-----------------------------------------------------------------------------
(* The producer                                                            *)

\* The producer has c in hand and goes on to send it.
Offer(c) == phase' = "send" /\ chunk' = c

\* The tape and the builder are made and the prologue is due, or produce fails.
Build ==
    /\ phase = "build"
    /\ Offer(Bare("prologue")) \/ Offer(Bare("error"))
    /\ UNCHANGED <<tables, export, next, stored, client>>

\* StoredSteps exists for option chains only.
UsesStore == export.dataset = "option_chains" /\ ~degraded

\* take: the step lies beyond the window, so another one is loaded.
Load ==
    /\ phase = "row" /\ next <= export.to
    /\ UsesStore
    /\ next >= covered
    /\ phase' = "metas"
    /\ loaded' = {}
    /\ UNCHANGED <<tables, export, next, chunk, covered, window, degraded, metas,
                   failures, client>>

\* window_end
WindowEnd ==
    IF next + window - 1 < export.to THEN next + window - 1 ELSE export.to

\* Bug: a refused window is asked for again as it is, at most once.
RefusedStubbornly ==
    /\ failures' = failures + 1
    /\ metas' = {}
    /\ IF failures < Window
       THEN phase' = "metas" /\ UNCHANGED <<window, degraded>>
       ELSE phase' = "row" /\ degraded' = TRUE /\ UNCHANGED window

\* A read refused as too wide is repeated with half the window; one that was
\* one step wide is given up, and with it the warehouse.
Refused ==
    /\ failures' = failures + 1
    /\ metas' = {}
    /\ \/ window > 1 /\ window' = window \div 2 /\ phase' = "metas" /\ UNCHANGED degraded
       \/ window = 1 /\ degraded' = TRUE /\ phase' = "row" /\ UNCHANGED window

\* Any other failure of a read: the export replays from here on.
Degrade ==
    /\ failures' = failures + 1
    /\ metas' = {}
    /\ degraded' = TRUE
    /\ phase' = "row"
    /\ UNCHANGED window

\* The first query: the markers of the window.
ReadMetas ==
    LET answer == MarkersIn(next, WindowEnd)
    IN  /\ phase = "metas"
        /\ \/ OverBudget(answer) /\ Refused
           \/ Degrade
           \/ /\ ~OverBudget(answer)
              /\ metas' = answer
              /\ phase' = "quotes"
              /\ UNCHANGED <<window, degraded, failures>>
        /\ UNCHANGED <<tables, export, next, chunk, loaded, covered, client>>

\* The second query: the quotes of the window, checked against the markers.
ReadQuotes ==
    LET answer == QuotesIn(next, WindowEnd)
    IN  /\ phase = "quotes"
        /\ \/ OverBudget(answer) /\ Refused /\ UNCHANGED <<loaded, covered>>
           \/ Degrade /\ UNCHANGED <<loaded, covered>>
           \/ /\ ~OverBudget(answer)
              /\ loaded' = Assemble(metas, answer)
              /\ covered' = WindowEnd + 1
              /\ metas' = {}
              /\ phase' = "row"
              /\ UNCHANGED <<window, degraded, failures>>
        /\ UNCHANGED <<tables, export, next, chunk, client>>

\* Bug: the front of the window is taken without looking at its step.
NextRowsFromFront ==
    IF UsesStore /\ loaded # {}
    THEN (CHOOSE r \in loaded : \A o \in loaded : r.step <= o.step).rows
    ELSE Replay(export.dataset, next)

\* The rows of the next step: the persisted record if the window holds one,
\* and a replay otherwise.
NextRows ==
    LET hit == {r \in loaded : r.step = next}
    IN  IF UsesStore /\ hit # {} THEN (CHOOSE r \in hit : TRUE).rows
                                 ELSE Replay(export.dataset, next)

\* produce's loop body once the window is settled.  A step without rows sends
\* no chunk; pricing or encoding may fail.
Row ==
    /\ phase = "row" /\ next <= export.to
    /\ UsesStore => next < covered
    /\ \/ /\ NextRows # {}
          /\ Offer([kind |-> "rows", step |-> next, rows |-> NextRows])
       \/ NextRows = {} /\ UNCHANGED <<phase, chunk>>
       \/ Offer(Bare("error"))
    /\ next' = next + 1
    /\ loaded' = {r \in loaded : r.step > next}
    /\ UNCHANGED <<tables, export, covered, window, degraded, metas, failures, client>>

\* The range is done; JSON has its array to close.
RangeEnds ==
    /\ phase = "row" /\ next > export.to
    /\ \/ export.format = "json" /\ Offer(Bare("epilogue"))
       \/ export.format = "csv" /\ phase' = "ended" /\ UNCHANGED chunk
    /\ UNCHANGED <<tables, export, next, stored, client>>

\* The producer's next phase after sending c.
After(c) == IF c.kind \in {"prologue", "rows"} THEN "row" ELSE "ended"

\* Bug: a send that fails is ignored.
SendRegardless ==
    /\ phase = "send"
    /\ \/ ending = "open" /\ Len(channel) < Capacity /\ channel' = Append(channel, chunk)
       \/ ending # "open" /\ UNCHANGED channel
    /\ phase' = IF ending = "open" THEN After(chunk) ELSE "send"
    /\ chunk' = IF ending = "open" THEN Bare("none") ELSE chunk
    /\ UNCHANGED <<tables, export, next, stored, body, ending>>

\* blocking_send waits for room, and fails once the body has been dropped.
Send ==
    /\ phase = "send"
    /\ \/ /\ ending = "open"
          /\ Len(channel) < Capacity
          /\ channel' = Append(channel, chunk)
          /\ phase' = After(chunk)
       \/ /\ ending # "open"
          /\ phase' = "ended"
          /\ UNCHANGED channel
    /\ chunk' = Bare("none")
    /\ UNCHANGED <<tables, export, next, stored, body, ending>>

Producer ==
    \/ Build \/ Load \/ ReadMetas \/ ReadQuotes \/ Row \/ RangeEnds \/ Send

-----------------------------------------------------------------------------
(* The response body                                                       *)

\* RowStream::poll_next: a chunk, or an error, which breaks the body off.
Receive ==
    /\ ending = "open"
    /\ channel # <<>>
    /\ \/ /\ Head(channel).kind # "error"
          /\ body' = Append(body, Head(channel))
          /\ channel' = Tail(channel)
          /\ UNCHANGED ending
       \/ /\ Head(channel).kind = "error"
          /\ ending' = "broken"
          /\ channel' = <<>>
          /\ UNCHANGED body
    /\ UNCHANGED <<tables, export, producer, stored>>

\* The sender is gone and the channel is empty: the stream ends.
StreamEnds ==
    /\ ending = "open"
    /\ channel = <<>>
    /\ phase = "ended"
    /\ ending' = "whole"
    /\ UNCHANGED <<tables, export, producer, stored, channel, body>>

\* The client disconnects and actix drops the body with its receiver.
Disconnect ==
    /\ ending = "open"
    /\ ending' = "gone"
    /\ channel' = <<>>
    /\ UNCHANGED <<tables, export, producer, stored, body>>

\* The export is over on both sides.
Forget ==
    /\ phase = "ended"
    /\ ending \in {"whole", "broken", "gone"}
    /\ export' = NoExport
    /\ phase' = "idle" /\ next' = 0 /\ chunk' = Bare("none")
    /\ Fresh
    /\ channel' = <<>> /\ body' = <<>> /\ ending' = "none"
    /\ UNCHANGED tables

Warehouse == TapeNext /\ UNCHANGED <<export, producer, stored, client>>

Next ==
    \/ \E q \in Queries : Begin(q)
    \/ Producer
    \/ Receive \/ StreamEnds \/ Disconnect
    \/ Forget
    \/ Warehouse

\* The blocking thread runs; neither the client nor a writer has to.
Fairness == WF_vars(Producer)

Spec == Init /\ [][Next]_vars /\ Fairness

-----------------------------------------------------------------------------
(* Properties                                                              *)

\* A marker never promises rows that are not there: when it appears, its whole
\* batch is in the table.  Rows lost later are lost to retention only.
MarkerFollowsRows ==
    [][\A s \in markers' \ markers : Rows(s) \subseteq quotes']_vars

\* The types, and what a window holds is whole snapshots, of steps of the range
\* still to come, though its two queries straddle writes and retention; and a
\* window covers no more steps than it may, so that is what the export keeps in
\* memory.
WindowHoldsWholeSteps ==
    /\ TypeOK
    /\ \A r \in loaded : r.rows = Rows(r.step) /\ next <= r.step /\ r.step < covered
    /\ Cardinality(loaded) <= window

\* However the warehouse fails, an export spends no more failed reads on it
\* than it takes to halve the window down to one step, and one to give up.
FailuresAreBounded == 2 ^ failures <= 2 * Window

\* A client that goes away stops the producer, wherever it is.
DisconnectStopsProducer == (ending \in {"broken", "gone"}) ~> (phase \in {"ended", "idle"})

\* The rows are the ones a replay would produce, each step once and in order,
\* whichever source they come from, and a body that ends unbroken is whole.
Replayed == INSTANCE ReplayedExport

ImplementsReplay == Replayed!ExportSpec
=============================================================================
