----------------------------- MODULE Warehouse ------------------------------
(***************************************************************************)
(* The queue one replica keeps in front of the snapshot warehouse:         *)
(* SimulationManager::file_snapshot, called by an advance once its cursor  *)
(* has committed, and the writer task that with_warehouse spawns.          *)
(*                                                                         *)
(* Advances run on several worker threads, so between the commit of one    *)
(* and its filing another may commit and file, and the two atomics         *)
(* file_snapshot consults (the row counter and the channel's capacity) are *)
(* read, reserved and used in separate steps:                              *)
(*                                                                         *)
(*   commit -> load -> reserve -> send -> idle     or     send -> undo     *)
(*                                                                         *)
(* A snapshot record is the pair <<simulation, step>>.  Everything from    *)
(* the commit to the send is synchronous once save_cas has returned, so a  *)
(* dropped future can lose a record only before the load.                  *)
(***************************************************************************)
EXTENDS Totals

CONSTANTS Sims,      \* simulations advanced on this replica
          Horizon,   \* total_steps of each of them
          Weight,    \* Weight[rec]: the quote rows of a record
          Largest,   \* max_snapshot_contracts: the most rows a record has
          Advances,  \* advance requests that can run at once
          Depth,     \* SNAPSHOT_QUEUE_DEPTH: records the channel holds
          Budget,    \* SNAPSHOT_QUEUE_CONTRACTS: rows that may be queued
          NoRecord   \* no record in hand

Records == Sims \X (0 .. Horizon - 1)

ASSUME WarehouseAssumption ==
    /\ Horizon \in Nat \ {0}
    /\ Depth \in Nat \ {0}
    /\ Budget \in Nat
    /\ Largest \in Nat
    /\ Weight \in [Records -> 0 .. Largest]
    /\ NoRecord \notin Records
    /\ IsFiniteSet(Advances) /\ Advances # {}

VARIABLES
    cursor,   \* cursor[s]: the stored cursor, that is, the commits so far
    pc,       \* pc[a]: where advance a is
    rec,      \* rec[a]: the record a serves, or NoRecord
    seen,     \* seen[a]: the counter value a loaded
    queue,    \* the channel
    queued,   \* queued_contracts
    writing,  \* the record the writer took, until its rows are released
    written,  \* whether persist has returned for that record
    rows      \* the steps complete in the warehouse

vars == <<cursor, pc, rec, seen, queue, queued, writing, written, rows>>

TypeOK ==
    /\ cursor \in [Sims -> 0 .. Horizon]
    /\ pc \in [Advances -> {"idle", "commit", "load", "reserve", "send", "undo"}]
    /\ rec \in [Advances -> Records \cup {NoRecord}]
    /\ seen \in [Advances -> Int]
    /\ queue \in Seq(Records)
    /\ queued \in Int
    /\ writing \in Records \cup {NoRecord}
    /\ written \in BOOLEAN
    /\ rows \in SUBSET Records

Init ==
    /\ cursor = [s \in Sims |-> 0]
    /\ pc = [a \in Advances |-> "idle"]
    /\ rec = [a \in Advances |-> NoRecord]
    /\ seen = [a \in Advances |-> 0]
    /\ queue = <<>>
    /\ queued = 0
    /\ writing = NoRecord
    /\ written = FALSE
    /\ rows = {}

-----------------------------------------------------------------------------
(* An advance                                                              *)

GoTo(a, l) == pc' = [pc EXCEPT ![a] = l]

\* Advance a is over; it holds nothing any more.
Leave(a) ==
    /\ GoTo(a, "idle")
    /\ rec' = [rec EXCEPT ![a] = NoRecord]
    /\ seen' = [seen EXCEPT ![a] = 0]

\* The advance reads the simulation and builds the snapshot at its cursor.
Read(a, s) ==
    /\ pc[a] = "idle"
    /\ cursor[s] < Horizon
    /\ GoTo(a, "commit")
    /\ rec' = [rec EXCEPT ![a] = <<s, cursor[s]>>]
    /\ UNCHANGED <<cursor, seen, queue, queued, writing, written, rows>>

\* Bug: the snapshot is filed before the cursor is durable.
FileBeforeCommit(a) ==
    /\ pc[a] = "commit"
    /\ GoTo(a, "load")
    /\ UNCHANGED <<cursor, rec, seen, queue, queued, writing, written, rows>>

\* Bug: the loser of the race files as well.
CommitFilingTheLoser(a) ==
    /\ pc[a] = "commit"
    /\ cursor' = IF cursor[rec[a][1]] = rec[a][2]
                 THEN [cursor EXCEPT ![rec[a][1]] = @ + 1] ELSE cursor
    /\ GoTo(a, "load")
    /\ UNCHANGED <<rec, seen, queue, queued, writing, written, rows>>

\* save_cas: a concurrent advance may have won, and the loser files nothing.
Commit(a) ==
    /\ pc[a] = "commit"
    /\ \/ /\ cursor[rec[a][1]] = rec[a][2]
          /\ cursor' = [cursor EXCEPT ![rec[a][1]] = @ + 1]
          /\ GoTo(a, "load")
          /\ UNCHANGED <<rec, seen>>
       \/ /\ cursor[rec[a][1]] # rec[a][2]
          /\ Leave(a)
          /\ UNCHANGED cursor
    /\ UNCHANGED <<queue, queued, writing, written, rows>>

\* The future is dropped while it awaits the store.  The write may have been
\* applied already; either way nothing is filed.
Cancel(a) ==
    /\ pc[a] \in {"commit", "load"}
    /\ Leave(a)
    /\ UNCHANGED <<cursor, queue, queued, writing, written, rows>>

\* file_snapshot loads the counter ...
Load(a) ==
    /\ pc[a] = "load"
    /\ seen' = [seen EXCEPT ![a] = queued]
    /\ GoTo(a, "reserve")
    /\ UNCHANGED <<cursor, rec, queue, queued, writing, written, rows>>

\* Bug: only the depth is checked.
ReserveIgnoringBudget(a) ==
    /\ pc[a] = "reserve"
    /\ Len(queue) < Depth
    /\ queued' = queued + Weight[rec[a]]
    /\ GoTo(a, "send")
    /\ UNCHANGED <<cursor, rec, seen, queue, writing, written, rows>>

\* ... drops the record if the channel is full or the budget would be passed,
\* and reserves its rows otherwise.
Reserve(a) ==
    /\ pc[a] = "reserve"
    /\ \/ /\ Len(queue) = Depth \/ seen[a] + Weight[rec[a]] > Budget
          /\ Leave(a)
          /\ UNCHANGED queued
       \/ /\ Len(queue) < Depth
          /\ seen[a] + Weight[rec[a]] <= Budget
          /\ queued' = queued + Weight[rec[a]]
          /\ GoTo(a, "send")
          /\ UNCHANGED <<rec, seen>>
    /\ UNCHANGED <<cursor, queue, writing, written, rows>>

\* try_send fails when another advance took the last place meanwhile.
Send(a) ==
    /\ pc[a] = "send"
    /\ \/ /\ Len(queue) < Depth
          /\ queue' = Append(queue, rec[a])
          /\ Leave(a)
       \/ /\ Len(queue) = Depth
          /\ GoTo(a, "undo")
          /\ UNCHANGED <<queue, rec, seen>>
    /\ UNCHANGED <<cursor, queued, writing, written, rows>>

\* Bug: a failed send keeps its reservation.
UndoWithoutRelease(a) ==
    /\ pc[a] = "undo"
    /\ Leave(a)
    /\ UNCHANGED <<cursor, queue, queued, writing, written, rows>>

\* The reservation of a record that was not sent is given back.
Undo(a) ==
    /\ pc[a] = "undo"
    /\ queued' = queued - Weight[rec[a]]
    /\ Leave(a)
    /\ UNCHANGED <<cursor, queue, writing, written, rows>>

-----------------------------------------------------------------------------
(* The writer                                                              *)

Receive ==
    /\ writing = NoRecord
    /\ queue # <<>>
    /\ writing' = Head(queue)
    /\ queue' = Tail(queue)
    /\ UNCHANGED <<cursor, pc, rec, seen, queued, written, rows>>

\* persist returns.  An error may hide a write that did land, and one that did
\* not is not retried.
Persist ==
    /\ writing # NoRecord
    /\ ~written
    /\ written' = TRUE
    /\ \/ rows' = rows \cup {writing}
       \/ UNCHANGED rows
    /\ UNCHANGED <<cursor, pc, rec, seen, queue, queued, writing>>

\* Bug: rows are released only when the write succeeded.
ReleaseOnSuccess ==
    /\ written
    /\ queued' = IF writing \in rows THEN queued - Weight[writing] ELSE queued
    /\ writing' = NoRecord
    /\ written' = FALSE
    /\ UNCHANGED <<cursor, pc, rec, seen, queue, rows>>

\* The rows are released only now, whatever persist answered.
Release ==
    /\ written
    /\ queued' = queued - Weight[writing]
    /\ writing' = NoRecord
    /\ written' = FALSE
    /\ UNCHANGED <<cursor, pc, rec, seen, queue, rows>>

\* The process dies: what was queued is gone, the store and the rows survive.
Crash ==
    /\ pc' = [a \in Advances |-> "idle"]
    /\ rec' = [a \in Advances |-> NoRecord]
    /\ seen' = [a \in Advances |-> 0]
    /\ queue' = <<>>
    /\ queued' = 0
    /\ writing' = NoRecord
    /\ written' = FALSE
    /\ UNCHANGED <<cursor, rows>>

File(a) == Load(a) \/ Reserve(a) \/ Send(a) \/ Undo(a)

Writer == Receive \/ Persist \/ Release

Next ==
    \/ \E a \in Advances, s \in Sims : Read(a, s)
    \/ \E a \in Advances : Commit(a) \/ Cancel(a) \/ File(a)
    \/ Writer
    \/ Crash

\* file_snapshot runs to its end once polled, and the writer is a loop whose
\* inserts are cut off by a timeout.  Nobody has to send an advance.
Fairness ==
    /\ \A a \in Advances : WF_vars(Commit(a)) /\ WF_vars(File(a))
    /\ WF_vars(Writer)

Spec == Init /\ [][Next]_vars /\ Fairness

-----------------------------------------------------------------------------
(* Properties                                                              *)

InQueue == {queue[i] : i \in 1 .. Len(queue)}

Reserved == {a \in Advances : pc[a] \in {"send", "undo"}}

\* The rows of the records that the advances in A hold.
Held(A) == Total([a \in A |-> Weight[rec[a]]], A)

Writing == {writing} \ {NoRecord}

\* The types, and the counter is exact: it is the rows reserved by the advances in
\* flight, of the records queued and of the record being written.  No path forgets
\* a release or releases twice, so it neither drifts nor wraps below zero.
CounterIsExact ==
    /\ TypeOK
    /\ queued = Total(Weight, InQueue) + Total(Weight, Writing) + Held(Reserved)

\* The budget is checked before it is reserved, so racing advances can pass it,
\* but by no more than one record for each other advance in flight.
OvershootIsBounded ==
    queued <= Budget + (Cardinality(Advances) - 1) * Largest

\* Everything queued or filed is a step whose advance committed: a writer that
\* lost the race leaves no rows.
FiledIsCommitted ==
    \A r \in InQueue \cup Writing \cup rows : r[2] < cursor[r[1]]

\* A step goes through the queue at most once: it is not sent by two advances,
\* nor sent again after it was filed.
EachStepSentOnce ==
    /\ \A i, j \in 1 .. Len(queue) : queue[i] = queue[j] => i = j
    /\ InQueue \cap (Writing \cup rows) = {}
    /\ \A a \in Advances : pc[a] \in {"load", "reserve", "send", "undo"} =>
          /\ rec[a] \notin InQueue \cup Writing \cup rows
          /\ \A b \in Advances \ {a} : rec[b] = rec[a] => pc[b] = "commit"

\* The queue drains: once the advances stop, every reserved row is released
\* and the writer is idle, however many inserts failed.
QueueDrains == <>[](queued = 0 /\ queue = <<>> /\ writing = NoRecord)
=============================================================================
