-------------------------- MODULE Warehouse_proofs --------------------------
(***************************************************************************)
(* Proofs about Warehouse, for any number of simulations and advances, any *)
(* horizon, depth, budget and weights: what reaches the channel and the    *)
(* warehouse is committed, and gets there once; the row counter is exact;  *)
(* and racing advances pass the budget by a bounded amount.                *)
(***************************************************************************)
EXTENDS Warehouse, Totals_proofs

\* Each advance holds a record just when it is at work, and a committed one once
\* its compare-and-swap has won.
AdvancesHoldRecords ==
    \A a \in Advances :
        /\ (pc[a] = "idle") <=> (rec[a] = NoRecord)
        /\ pc[a] \in {"load", "reserve", "send", "undo"} => rec[a][2] < cursor[rec[a][1]]

InductiveInvariant ==
    /\ TypeOK
    /\ AdvancesHoldRecords
    /\ written => writing # NoRecord
    /\ FiledIsCommitted
    /\ EachStepSentOnce

-----------------------------------------------------------------------------
(* The channel as a sequence                                               *)

Elements(q) == {q[i] : i \in 1 .. Len(q)}

Distinct(q) == \A i, j \in 1 .. Len(q) : q[i] = q[j] => i = j

\* What a send does to the channel.
LEMMA AppendElements ==
    ASSUME NEW q \in Seq(Records), NEW r \in Records
    PROVE  /\ Append(q, r) \in Seq(Records)
           /\ Elements(Append(q, r)) = Elements(q) \cup {r}
           /\ Distinct(q) /\ r \notin Elements(q) => Distinct(Append(q, r))
  BY DEF Elements, Distinct

\* What a receive does to the channel.
LEMMA TailElements ==
    ASSUME NEW q \in Seq(Records), q # <<>>
    PROVE  /\ Head(q) \in Records /\ Tail(q) \in Seq(Records)
           /\ Elements(q) = Elements(Tail(q)) \cup {Head(q)}
           /\ Distinct(q) => Distinct(Tail(q)) /\ Head(q) \notin Elements(Tail(q))
  <1>1. /\ Head(q) = q[1] /\ Tail(q) \in Seq(Records) /\ Len(q) \in Nat \ {0}
        /\ Len(Tail(q)) = Len(q) - 1
        /\ \A i \in 1 .. Len(q) - 1 : Tail(q)[i] = q[i + 1]
    OBVIOUS
  <1>2. Elements(q) \subseteq Elements(Tail(q)) \cup {Head(q)}
    <2> SUFFICES ASSUME NEW i \in 1 .. Len(q), i # 1
                 PROVE  q[i] \in Elements(Tail(q))
      BY <1>1 DEF Elements
    <2>1. i - 1 \in 1 .. Len(Tail(q)) /\ Tail(q)[i - 1] = q[i]
      BY <1>1
    <2> QED
      BY <2>1 DEF Elements
  <1>3. Elements(Tail(q)) \cup {Head(q)} \subseteq Elements(q)
    BY <1>1 DEF Elements
  <1>4. Distinct(q) => Distinct(Tail(q)) /\ Head(q) \notin Elements(Tail(q))
    BY <1>1 DEF Elements, Distinct
  <1> QED
    BY <1>1, <1>2, <1>3, <1>4

LEMMA QueueElements ==
    /\ InQueue = Elements(queue)
    /\ InQueue' = Elements(queue')
  BY DEF InQueue, Elements

-----------------------------------------------------------------------------
LEMMA Initially == Init => InductiveInvariant
  <1> SUFFICES ASSUME Init PROVE InductiveInvariant
    OBVIOUS
  <1>1. TypeOK
    <2>1. <<>> \in Seq(Records) /\ {} \in SUBSET Records /\ 0 \in 0 .. Horizon
      BY WarehouseAssumption
    <2>2. written \in BOOLEAN
      BY Zenon DEF Init
    <2>3. /\ cursor \in [Sims -> 0 .. Horizon] /\ seen \in [Advances -> Int]
          /\ rec \in [Advances -> Records \cup {NoRecord}]
          /\ pc \in [Advances -> {"idle", "commit", "load", "reserve", "send", "undo"}]
          /\ queued \in Int
      BY <2>1 DEF Init
    <2>4. queue \in Seq(Records) /\ writing \in Records \cup {NoRecord} /\ rows \in SUBSET Records
      BY <2>1 DEF Init
    <2> QED
      BY <2>2, <2>3, <2>4 DEF TypeOK
  <1>2. AdvancesHoldRecords
    BY DEF Init, AdvancesHoldRecords
  <1>3. InQueue = {} /\ Writing = {} /\ rows = {}
    BY DEF Init, InQueue, Writing
  <1>4. FiledIsCommitted /\ EachStepSentOnce
    BY <1>3 DEF Init, FiledIsCommitted, EachStepSentOnce
  <1> QED
    BY <1>1, <1>2, <1>4 DEF Init, InductiveInvariant

Filing == {"load", "reserve", "send", "undo"}

\* Nothing is sent twice while the channel and the warehouse stay as they are and
\* every advance that files was already filing the same record.
LEMMA StillSentOnce ==
    ASSUME EachStepSentOnce, UNCHANGED <<queue, writing, rows>>,
           \A b \in Advances : pc'[b] \in Filing => pc[b] \in Filing /\ rec'[b] = rec[b],
           \A b, c \in Advances :
              (pc'[b] \in Filing /\ rec'[c] = rec'[b] /\ pc'[c] # "commit") =>
                  rec[c] = rec[b] /\ pc[c] # "commit"
    PROVE  EachStepSentOnce'
  <1>1. InQueue' = InQueue /\ Writing' = Writing
    BY DEF InQueue, Writing
  <1>2. ASSUME NEW b \in Advances, pc'[b] \in Filing
        PROVE  /\ rec'[b] \notin InQueue' \cup Writing' \cup rows'
               /\ \A c \in Advances \ {b} : rec'[c] = rec'[b] => pc'[c] = "commit"
    BY <1>1, <1>2 DEF EachStepSentOnce, Filing
  <1> QED
    BY <1>1, <1>2 DEF EachStepSentOnce, Filing

\* An advance that reads, commits, leaves or moves on without touching the channel.
LEMMA ReadKeeps ==
    ASSUME InductiveInvariant, NEW a \in Advances, NEW s \in Sims, Read(a, s)
    PROVE  InductiveInvariant'
  <1>1. <<s, cursor[s]>> \in Records
    BY WarehouseAssumption DEF Read, InductiveInvariant, TypeOK, Records
  <1>2. TypeOK'
    BY <1>1 DEF Read, GoTo, InductiveInvariant, TypeOK
  <1>3. AdvancesHoldRecords'
    BY <1>1, WarehouseAssumption DEF Read, GoTo, InductiveInvariant, TypeOK, AdvancesHoldRecords
  <1>4. FiledIsCommitted' /\ (written => writing # NoRecord)'
    BY DEF Read, GoTo, InductiveInvariant, FiledIsCommitted, InQueue, Writing
  <1>5. EachStepSentOnce'
    BY <1>1, StillSentOnce DEF Read, GoTo, InductiveInvariant, TypeOK, Filing
  <1> QED
    BY <1>2, <1>3, <1>4, <1>5 DEF InductiveInvariant

LEMMA LeaveKeeps ==
    ASSUME InductiveInvariant, NEW a \in Advances, Leave(a), queued' \in Int,
           UNCHANGED <<cursor, queue, writing, written, rows>>
    PROVE  InductiveInvariant'
  <1>1. TypeOK'
    BY DEF Leave, GoTo, InductiveInvariant, TypeOK
  <1>2. AdvancesHoldRecords'
    BY DEF Leave, GoTo, InductiveInvariant, TypeOK, AdvancesHoldRecords
  <1>3. FiledIsCommitted' /\ (written => writing # NoRecord)'
    BY DEF Leave, GoTo, InductiveInvariant, FiledIsCommitted, InQueue, Writing
  <1>4. EachStepSentOnce'
    <2>1. \A b \in Advances : pc'[b] \in Filing => pc[b] \in Filing /\ rec'[b] = rec[b]
      BY DEF Leave, GoTo, InductiveInvariant, TypeOK, Filing
    <2>2. ASSUME NEW b \in Advances, NEW c \in Advances,
                 pc'[b] \in Filing, rec'[c] = rec'[b], pc'[c] # "commit"
          PROVE  rec[c] = rec[b] /\ pc[c] # "commit"
      <3>1. rec'[b] = rec[b] /\ rec[b] # NoRecord
        BY <2>1, <2>2 DEF InductiveInvariant, AdvancesHoldRecords, Filing
      <3>2. c # a
        BY <2>2, <3>1 DEF Leave, InductiveInvariant, TypeOK
      <3> QED
        BY <2>2, <3>1, <3>2 DEF Leave, GoTo, InductiveInvariant, TypeOK
    <2> QED
      BY <2>1, <2>2, StillSentOnce DEF InductiveInvariant
  <1> QED
    BY <1>1, <1>2, <1>3, <1>4 DEF InductiveInvariant

\* One that goes on with its record.
LEMMA MoveKeeps ==
    ASSUME InductiveInvariant, NEW a \in Advances,
           NEW l \in {"load", "reserve", "send", "undo"},
           pc[a] \in {"load", "reserve", "send", "undo"},
           GoTo(a, l),
           seen' \in [Advances -> Int], queued' \in Int,
           UNCHANGED <<cursor, rec, queue, writing, written, rows>>
    PROVE  InductiveInvariant'
  <1>1. TypeOK' /\ (written => writing # NoRecord)'
    BY DEF GoTo, InductiveInvariant, TypeOK
  <1>2. AdvancesHoldRecords'
    BY DEF GoTo, InductiveInvariant, TypeOK, AdvancesHoldRecords
  <1>3. FiledIsCommitted'
    BY DEF InductiveInvariant, FiledIsCommitted, InQueue, Writing
  <1>4. EachStepSentOnce'
    BY StillSentOnce DEF GoTo, InductiveInvariant, TypeOK, Filing
  <1> QED
    BY <1>1, <1>2, <1>3, <1>4 DEF InductiveInvariant

\* The winner of a compare-and-swap: nobody holds, queued or filed its step yet.
LEMMA CommitKeeps ==
    ASSUME InductiveInvariant, NEW a \in Advances, Commit(a)
    PROVE  InductiveInvariant'
  <1>1. CASE cursor[rec[a][1]] # rec[a][2]
    <2>1. Leave(a) /\ UNCHANGED <<cursor, queue, queued, writing, written, rows>>
      BY <1>1 DEF Commit
    <2> QED
      BY <2>1, LeaveKeeps DEF InductiveInvariant, TypeOK
  <1>2. CASE cursor[rec[a][1]] = rec[a][2]
    <2> DEFINE s == rec[a][1]
               n == rec[a][2]
    <2>1. /\ pc[a] = "commit" /\ pc' = [pc EXCEPT ![a] = "load"]
          /\ cursor' = [cursor EXCEPT ![s] = @ + 1]
          /\ UNCHANGED <<rec, seen, queue, queued, writing, written, rows>>
      BY <1>2 DEF Commit, Leave, GoTo
    <2>2. rec[a] \in Records /\ s \in Sims /\ n \in 0 .. Horizon - 1 /\ rec[a] = <<s, n>>
      BY <2>1, WarehouseAssumption DEF InductiveInvariant, TypeOK, AdvancesHoldRecords, Records
    <2>3. TypeOK' /\ (written => writing # NoRecord)'
      BY <1>2, <2>1, <2>2, WarehouseAssumption DEF InductiveInvariant, TypeOK
    <2>4. \A t \in Sims : cursor[t] <= cursor'[t]
      BY <2>1, <2>2, WarehouseAssumption DEF InductiveInvariant, TypeOK
    <2>5. \A r \in Records : r[2] < cursor[r[1]] => r[2] < cursor'[r[1]]
      <3> SUFFICES ASSUME NEW r \in Records, r[2] < cursor[r[1]]
                   PROVE  r[2] < cursor'[r[1]]
        OBVIOUS
      <3>1. r[1] \in Sims /\ r[2] \in Nat
        BY WarehouseAssumption DEF Records
      <3>2. cursor[r[1]] \in Nat /\ cursor'[r[1]] \in Nat
        BY <2>3, <3>1, WarehouseAssumption DEF InductiveInvariant, TypeOK
      <3> QED
        BY <2>4, <3>1, <3>2
    <2>6. FiledIsCommitted'
      <3>1. \A r \in InQueue \cup Writing \cup rows : r \in Records /\ r[2] < cursor[r[1]]
        <4>1. InQueue \subseteq Records
          BY DEF InductiveInvariant, TypeOK, InQueue
        <4>2. Writing \subseteq Records /\ rows \subseteq Records
          BY DEF InductiveInvariant, TypeOK, Writing
        <4> QED
          BY <4>1, <4>2 DEF InductiveInvariant, FiledIsCommitted
      <3>2. InQueue' = InQueue /\ Writing' = Writing /\ rows' = rows
        BY <2>1 DEF InQueue, Writing
      <3> QED
        BY <2>5, <3>1, <3>2 DEF FiledIsCommitted
    <2>7. AdvancesHoldRecords'
      <3>1. n < cursor'[s]
        BY <1>2, <2>1, <2>2 DEF InductiveInvariant, TypeOK
      <3>2. ASSUME NEW b \in Advances, pc[b] \in {"load", "reserve", "send", "undo"}
            PROVE  rec[b] \in Records /\ rec[b][2] < cursor'[rec[b][1]]
        BY <2>5, <3>2, WarehouseAssumption DEF InductiveInvariant, TypeOK, AdvancesHoldRecords
      <3> QED
        BY <2>1, <2>2, <3>1, <3>2, WarehouseAssumption
        DEF InductiveInvariant, TypeOK, AdvancesHoldRecords
    <2>8. rec[a] \notin InQueue \cup Writing \cup rows
      BY <1>2, <2>2 DEF InductiveInvariant, TypeOK, FiledIsCommitted
    <2>9. ASSUME NEW b \in Advances, pc[b] \in {"load", "reserve", "send", "undo"}
          PROVE  rec[b] # rec[a]
      BY <1>2, <2>2, <2>9, WarehouseAssumption DEF InductiveInvariant, TypeOK, AdvancesHoldRecords
    <2>10. ASSUME NEW b \in Advances, rec[b] = rec[a]
           PROVE  pc[b] = "commit"
      BY <2>2, <2>9, <2>10, WarehouseAssumption DEF InductiveInvariant, TypeOK, AdvancesHoldRecords
    <2>11. EachStepSentOnce'
      BY <2>1, <2>8, <2>9, <2>10
      DEF InductiveInvariant, TypeOK, EachStepSentOnce, InQueue, Writing
    <2> QED
      BY <2>3, <2>6, <2>7, <2>11 DEF InductiveInvariant
  <1> QED
    BY <1>1, <1>2

LEMMA SendKeeps ==
    ASSUME InductiveInvariant, NEW a \in Advances, Send(a)
    PROVE  InductiveInvariant'
  <1>1. CASE UNCHANGED queue
    <2>1. Len(queue) = Len(queue')
      BY <1>1
    <2>2. \/ GoTo(a, "undo") /\ UNCHANGED <<rec, seen>>
          \/ queue' = Append(queue, rec[a])
      BY DEF Send
    <2>3. queue' # Append(queue, rec[a])
      BY <2>1 DEF InductiveInvariant, TypeOK
    <2> QED
      BY <1>1, <2>2, <2>3, MoveKeeps DEF Send, InductiveInvariant, TypeOK
  <1>2. CASE queue' = Append(queue, rec[a]) /\ Leave(a)
    <2>1. rec[a] \in Records /\ pc[a] = "send"
      BY DEF Send, InductiveInvariant, TypeOK, AdvancesHoldRecords
    <2>2. /\ rec[a] \notin InQueue \cup Writing \cup rows
          /\ \A b \in Advances \ {a} : rec[b] = rec[a] => pc[b] = "commit"
          /\ rec[a][2] < cursor[rec[a][1]]
      BY <2>1 DEF InductiveInvariant, EachStepSentOnce, AdvancesHoldRecords
    <2>3. queue' \in Seq(Records) /\ InQueue' = InQueue \cup {rec[a]} /\ Distinct(queue')
      BY <1>2, <2>1, <2>2, AppendElements, QueueElements
      DEF InductiveInvariant, TypeOK, EachStepSentOnce, Distinct
    <2>4. UNCHANGED <<cursor, queued, writing, written, rows>>
      BY DEF Send
    <2>5. TypeOK' /\ (written => writing # NoRecord)'
      BY <1>2, <2>3, <2>4 DEF Leave, GoTo, InductiveInvariant, TypeOK
    <2>6. AdvancesHoldRecords'
      BY <1>2, <2>4 DEF Leave, GoTo, InductiveInvariant, TypeOK, AdvancesHoldRecords
    <2>7. FiledIsCommitted'
      BY <2>2, <2>3, <2>4 DEF InductiveInvariant, FiledIsCommitted, Writing
    <2>8. EachStepSentOnce'
      BY <1>2, <2>1, <2>2, <2>3, <2>4, WarehouseAssumption
      DEF Leave, GoTo, InductiveInvariant, TypeOK, AdvancesHoldRecords, EachStepSentOnce,
          Writing, Distinct
    <2> QED
      BY <2>5, <2>6, <2>7, <2>8 DEF InductiveInvariant
  <1> QED
    BY <1>1, <1>2 DEF Send

LEMMA ReceiveKeeps ==
    ASSUME InductiveInvariant, Receive
    PROVE  InductiveInvariant'
  <1>1. /\ queue \in Seq(Records) /\ queue # <<>> /\ Distinct(queue)
        /\ writing = NoRecord /\ writing' = Head(queue) /\ queue' = Tail(queue)
        /\ UNCHANGED <<cursor, pc, rec, seen, queued, written, rows>>
    BY DEF Receive, InductiveInvariant, TypeOK, EachStepSentOnce, Distinct
  <1>2. /\ writing' \in Records /\ queue' \in Seq(Records) /\ Distinct(queue')
        /\ InQueue = InQueue' \cup {writing'} /\ writing' \notin InQueue'
    BY <1>1, TailElements, QueueElements
  <1>3. Writing = {} /\ Writing' = {writing'} /\ ~written
    BY <1>1, <1>2, WarehouseAssumption DEF Writing, InductiveInvariant, TypeOK
  <1>4. TypeOK' /\ AdvancesHoldRecords' /\ (written => writing # NoRecord)'
    BY <1>1, <1>2, <1>3 DEF InductiveInvariant, TypeOK, AdvancesHoldRecords
  <1>5. FiledIsCommitted'
    BY <1>1, <1>2, <1>3 DEF InductiveInvariant, FiledIsCommitted
  <1>6. EachStepSentOnce'
    BY <1>1, <1>2, <1>3 DEF InductiveInvariant, EachStepSentOnce, Distinct
  <1> QED
    BY <1>4, <1>5, <1>6 DEF InductiveInvariant

LEMMA PersistKeeps ==
    ASSUME InductiveInvariant, Persist
    PROVE  InductiveInvariant'
  <1>1. /\ writing \in Records /\ rows' \subseteq rows \cup {writing}
        /\ UNCHANGED <<cursor, pc, rec, seen, queue, queued, writing>> /\ written'
    BY DEF Persist, InductiveInvariant, TypeOK
  <1>2. writing \in Writing /\ Writing' = Writing /\ InQueue' = InQueue
    BY <1>1, WarehouseAssumption DEF Writing, InQueue
  <1>3. rows' \subseteq Writing \cup rows
    BY <1>1, <1>2
  <1>4. TypeOK' /\ AdvancesHoldRecords' /\ (written => writing # NoRecord)'
    BY <1>1, WarehouseAssumption DEF Persist, InductiveInvariant, TypeOK, AdvancesHoldRecords
  <1>5. FiledIsCommitted'
    BY <1>1, <1>2, <1>3 DEF InductiveInvariant, FiledIsCommitted
  <1>6. EachStepSentOnce'
    BY <1>1, <1>2, <1>3 DEF InductiveInvariant, EachStepSentOnce
  <1> QED
    BY <1>4, <1>5, <1>6 DEF InductiveInvariant
LEMMA ReleaseKeeps ==
    ASSUME InductiveInvariant, Release
    PROVE  InductiveInvariant'
  <1>1. Writing' = {} /\ InQueue' = InQueue
    BY DEF Release, Writing, InQueue
  <1>2. Weight[writing] \in Nat
    BY WarehouseAssumption DEF Release, InductiveInvariant, TypeOK
  <1>3. TypeOK' /\ AdvancesHoldRecords' /\ (written => writing # NoRecord)'
    <2>1. ~written' /\ written' \in BOOLEAN
      BY Zenon DEF Release
    <2>2. /\ queued' \in Int /\ writing' = NoRecord
          /\ UNCHANGED <<cursor, pc, rec, seen, queue, rows>>
      BY <1>2 DEF Release, InductiveInvariant, TypeOK
    <2> QED
      BY <2>1, <2>2 DEF InductiveInvariant, TypeOK, AdvancesHoldRecords
  <1>4. FiledIsCommitted' /\ EachStepSentOnce'
    BY <1>1 DEF Release, InductiveInvariant, FiledIsCommitted, EachStepSentOnce
  <1> QED
    BY <1>3, <1>4 DEF InductiveInvariant

LEMMA CrashKeeps ==
    ASSUME InductiveInvariant, Crash
    PROVE  InductiveInvariant'
  <1>1. TypeOK'
    <2>1. <<>> \in Seq(Records)
      OBVIOUS
    <2>2. written' \in BOOLEAN
      BY Zenon DEF Crash
    <2>3. /\ seen' \in [Advances -> Int] /\ rec' \in [Advances -> Records \cup {NoRecord}]
          /\ pc' \in [Advances -> {"idle", "commit", "load", "reserve", "send", "undo"}]
          /\ queued' \in Int /\ queue' = <<>> /\ writing' = NoRecord
          /\ UNCHANGED <<cursor, rows>>
      BY DEF Crash
    <2> QED
      BY <2>1, <2>2, <2>3 DEF InductiveInvariant, TypeOK
  <1>2. InQueue' = {} /\ Writing' = {}
    BY DEF Crash, InQueue, Writing
  <1>3. FiledIsCommitted' /\ (written => writing # NoRecord)'
    BY <1>2 DEF Crash, InductiveInvariant, FiledIsCommitted
  <1>4. AdvancesHoldRecords' /\ EachStepSentOnce'
    BY <1>2 DEF Crash, AdvancesHoldRecords, EachStepSentOnce
  <1> QED
    BY <1>1, <1>3, <1>4 DEF InductiveInvariant

\* An advance at work holds a record, and the rows of a record are a number.
LEMMA WeightOfHeld ==
    ASSUME InductiveInvariant, NEW a \in Advances, pc[a] # "idle"
    PROVE  Weight[rec[a]] \in Nat
  BY WarehouseAssumption DEF InductiveInvariant, TypeOK, AdvancesHoldRecords

LEMMA FileKeeps ==
    ASSUME InductiveInvariant, NEW a \in Advances, File(a)
    PROVE  InductiveInvariant'
  <1>1. CASE Load(a)
    <2>1. seen' \in [Advances -> Int] /\ queued' \in Int
      BY <1>1 DEF Load, InductiveInvariant, TypeOK
    <2>2. /\ pc[a] \in {"load", "reserve", "send", "undo"} /\ GoTo(a, "reserve")
          /\ UNCHANGED <<cursor, rec, queue, writing, written, rows>>
      BY <1>1 DEF Load
    <2> QED
      BY <2>1, <2>2, MoveKeeps
  <1>2. CASE Reserve(a)
    <2>1. Weight[rec[a]] \in Nat /\ queued \in Int
      BY <1>2, WeightOfHeld DEF Reserve, InductiveInvariant, TypeOK
    <2>2. CASE Leave(a) /\ UNCHANGED queued
      BY <1>2, <2>1, <2>2, LeaveKeeps DEF Reserve
    <2>3. CASE GoTo(a, "send") /\ queued' = queued + Weight[rec[a]] /\ UNCHANGED <<rec, seen>>
      BY <1>2, <2>1, <2>3, MoveKeeps DEF Reserve, InductiveInvariant, TypeOK
    <2> QED
      BY <1>2, <2>2, <2>3 DEF Reserve
  <1>3. CASE Send(a)
    BY <1>3, SendKeeps
  <1>4. CASE Undo(a)
    <2>1. Weight[rec[a]] \in Nat /\ queued \in Int
      BY <1>4, WeightOfHeld DEF Undo, InductiveInvariant, TypeOK
    <2> QED
      BY <1>4, <2>1, LeaveKeeps DEF Undo
  <1> QED
    BY <1>1, <1>2, <1>3, <1>4 DEF File

LEMMA Preserved == InductiveInvariant /\ [Next]_vars => InductiveInvariant'
  <1> SUFFICES ASSUME InductiveInvariant, [Next]_vars
               PROVE  InductiveInvariant'
    OBVIOUS
  <1>1. ASSUME NEW a \in Advances, NEW s \in Sims, Read(a, s)
        PROVE  InductiveInvariant'
    BY <1>1, ReadKeeps
  <1>2. ASSUME NEW a \in Advances, Commit(a) \/ Cancel(a) \/ File(a)
        PROVE  InductiveInvariant'
    <2>1. CASE Cancel(a)
      BY <2>1, LeaveKeeps DEF Cancel, InductiveInvariant, TypeOK
    <2> QED
      BY <1>2, <2>1, CommitKeeps, FileKeeps
  <1>3. CASE Writer
    BY <1>3, ReceiveKeeps, PersistKeeps, ReleaseKeeps DEF Writer
  <1>4. CASE Crash
    BY <1>4, CrashKeeps
  <1>5. CASE UNCHANGED vars
    <2>1. TypeOK' /\ (written => writing # NoRecord)'
      BY <1>5, Zenon DEF vars, InductiveInvariant, TypeOK
    <2>2. (AdvancesHoldRecords /\ FiledIsCommitted /\ EachStepSentOnce)'
      BY <1>5 DEF vars, InductiveInvariant, AdvancesHoldRecords, FiledIsCommitted,
                  EachStepSentOnce, InQueue, Writing
    <2> QED
      BY <2>1, <2>2 DEF InductiveInvariant
  <1> QED
    BY <1>1, <1>2, <1>3, <1>4, <1>5 DEF Next

-----------------------------------------------------------------------------
(* The row counter                                                         *)

\* The advances that will reserve if the channel has room: the budget they loaded
\* was enough.
Pending == {a \in Advances : pc[a] = "reserve" /\ seen[a] + Weight[rec[a]] <= Budget}

Slack == Budget + (Cardinality(Advances) - 1) * Largest

\* What is reserved and what may be reserved next stay within the slack: an
\* advance becomes pending when the counter leaves room for its own record, and
\* each of the others adds at most one record more.
CounterInvariant ==
    /\ IsFiniteSet(InQueue)
    /\ queued = Total(Weight, InQueue) + Total(Weight, Writing) + Held(Reserved)
    /\ queued + Held(Pending) <= Slack

LEMMA SlackIsNatural == Slack \in Nat /\ Cardinality(Advances) \in Nat \ {0}
  <1>1. Cardinality(Advances) \in Nat /\ Cardinality(Advances) # 0
    BY WarehouseAssumption, FS_CardinalityType, FS_EmptySet
  <1> DEFINE others == Cardinality(Advances) - 1
  <1>2. others \in Nat
    BY <1>1
  <1>3. others * Largest \in Nat
    <2> HIDE DEF others
    <2> QED
      BY <1>2, ProductIsNatural, WarehouseAssumption
  <1> QED
    BY <1>1, <1>3, WarehouseAssumption DEF Slack

LEMMA RowsAreNatural ==
    ASSUME NEW S \in SUBSET Records
    PROVE  \A r \in S : Weight[r] \in Nat /\ Weight[r] <= Largest
  BY WarehouseAssumption

\* Nothing but a record has rows, so what advances hold is a number, and depends
\* only on the records they hold.
LEMMA HeldIsNatural ==
    ASSUME NEW A \in SUBSET Advances, NEW r, \A a \in A : r[a] \in Records
    PROVE  /\ IsFiniteSet(A)
           /\ Total([a \in A |-> Weight[r[a]]], A) \in Nat
           /\ Total([a \in A |-> Weight[r[a]]], A) <= Cardinality(A) * Largest
  <1> DEFINE w == [a \in A |-> Weight[r[a]]]
  <1>1. IsFiniteSet(A) /\ Largest \in Nat
    BY WarehouseAssumption, FS_Subset
  <1>2. \A a \in A : w[a] \in 0 .. Largest
    BY WarehouseAssumption
  <1>3. \A a \in A : w[a] \in Nat
    BY <1>2, WarehouseAssumption
  <1> HIDE DEF w
  <1>4. Total(w, A) \in Nat
    BY <1>1, <1>3, TotalIsNatural
  <1>5. Total(w, A) <= Cardinality(A) * Largest
    BY <1>1, <1>2, TotalIsBounded
  <1> QED
    BY <1>1, <1>4, <1>5 DEF w

LEMMA HeldAdds ==
    ASSUME NEW A \in SUBSET Advances, NEW a \in Advances, a \notin A,
           NEW r, \A b \in A \cup {a} : r[b] \in Records
    PROVE  Total([b \in A \cup {a} |-> Weight[r[b]]], A \cup {a})
             = Total([b \in A |-> Weight[r[b]]], A) + Weight[r[a]]
  <1> DEFINE w == [b \in A \cup {a} |-> Weight[r[b]]]
             v == [b \in A |-> Weight[r[b]]]
  <1>1. IsFiniteSet(A)
    BY WarehouseAssumption, FS_Subset
  <1>2. \A b \in A \cup {a} : w[b] \in Nat
    BY WarehouseAssumption
  <1>3. w[a] = Weight[r[a]] /\ \A b \in A : v[b] = w[b]
    OBVIOUS
  <1> HIDE DEF w, v
  <1>4. Total(w, A \cup {a}) = Total(w, A) + w[a]
    BY <1>1, <1>2, TotalAdds
  <1>5. Total(v, A) = Total(w, A)
    BY <1>3, TotalsAgree
  <1>6. Total(w, A \cup {a}) = Total(v, A) + Weight[r[a]]
    BY <1>3, <1>4, <1>5
  <1> QED
    BY <1>6, Zenon DEF w, v

LEMMA HeldAgrees ==
    ASSUME NEW A, NEW r, NEW q, \A a \in A : r[a] = q[a]
    PROVE  Total([a \in A |-> Weight[r[a]]], A) = Total([a \in A |-> Weight[q[a]]], A)
  <1>1. [a \in A |-> Weight[r[a]]] = [a \in A |-> Weight[q[a]]]
    OBVIOUS
  <1> QED
    BY <1>1

\* What the parts of the invariant give of each other's sets.
LEMMA Holders ==
    ASSUME InductiveInvariant
    PROVE  /\ Reserved \in SUBSET Advances /\ Pending \in SUBSET Advances
           /\ \A a \in Reserved \cup Pending : rec[a] \in Records
           /\ InQueue \in SUBSET Records /\ Writing \in SUBSET Records
           /\ IsFiniteSet(Writing) /\ queued \in Int
  <1>1. \A a \in Reserved \cup Pending : rec[a] \in Records
    BY DEF InductiveInvariant, TypeOK, AdvancesHoldRecords, Reserved, Pending
  <1>2. InQueue \in SUBSET Records /\ Writing \in SUBSET Records /\ queued \in Int
    BY DEF InductiveInvariant, TypeOK, InQueue, Writing
  <1>3. IsFiniteSet(Writing)
    BY FS_Singleton, FS_Subset, Zenon DEF Writing
  <1> QED
    BY <1>1, <1>2, <1>3 DEF Reserved, Pending

\* No reservation, queued record or record being written changes.
LEMMA CountSteady ==
    ASSUME CounterInvariant, Reserved' = Reserved, \A a \in Reserved : rec'[a] = rec[a],
           UNCHANGED <<queue, queued, writing>>
    PROVE  /\ IsFiniteSet(InQueue')
           /\ queued' = Total(Weight, InQueue') + Total(Weight, Writing') + Held(Reserved)'
  <1>1. InQueue' = InQueue /\ Writing' = Writing
    BY DEF InQueue, Writing
  <1>2. Held(Reserved)' = Held(Reserved)
    BY HeldAgrees DEF Held
  <1> QED
    BY <1>1, <1>2 DEF CounterInvariant

\* The counter does not grow and no advance becomes pending.
LEMMA PendingShrinks ==
    ASSUME InductiveInvariant, CounterInvariant,
           Pending' \in SUBSET Pending, \A a \in Pending' : rec'[a] = rec[a],
           queued' \in Int, queued' <= queued
    PROVE  queued' + Held(Pending)' <= Slack
  <1> DEFINE w == [a \in Pending |-> Weight[rec[a]]]
             v == [a \in Pending' |-> Weight[rec'[a]]]
  <1>1. /\ Pending \in SUBSET Advances /\ IsFiniteSet(Pending) /\ queued \in Int
        /\ \A a \in Pending : w[a] \in Nat
    BY Holders, WarehouseAssumption, FS_Subset
  <1>2. \A a \in Pending' : v[a] = w[a]
    OBVIOUS
  <1> HIDE DEF w, v
  <1>3. Total(v, Pending') = Total(w, Pending')
    BY <1>2, TotalsAgree
  <1>4. Total(w, Pending') <= Total(w, Pending)
    BY <1>1, TotalGrows
  <1>5. Total(w, Pending) \in Nat
    BY <1>1, TotalIsNatural
  <1>6. IsFiniteSet(Pending')
    BY <1>1, FS_Subset
  <1>7. Total(w, Pending') \in Nat
    BY <1>1, <1>6, TotalIsNatural
  <1>8. queued + Total(w, Pending) <= Slack
    BY DEF CounterInvariant, Held, w
  <1>9. queued' + Total(v, Pending') <= Slack
    BY <1>1, <1>3, <1>4, <1>5, <1>7, <1>8, SlackIsNatural
  <1> QED
    BY <1>9 DEF Held, v

LEMMA CounterAtInit == Init => CounterInvariant
  <1> SUFFICES ASSUME Init PROVE CounterInvariant
    OBVIOUS
  <1>1. InQueue = {} /\ Writing = {} /\ Reserved = {} /\ Pending = {} /\ queued = 0
    BY DEF Init, InQueue, Writing, Reserved, Pending
  <1>2. Held({}) = 0 /\ Total(Weight, {}) = 0 /\ IsFiniteSet({})
    BY TotalOfNone, FS_EmptySet DEF Held
  <1> QED
    BY <1>1, <1>2, SlackIsNatural DEF CounterInvariant

\* A step that neither reserves nor releases, and makes no advance pending.
LEMMA QuietStep ==
    ASSUME InductiveInvariant, CounterInvariant,
           Reserved' = Reserved, \A a \in Reserved : rec'[a] = rec[a],
           Pending' \in SUBSET Pending, \A a \in Pending' : rec'[a] = rec[a],
           UNCHANGED <<queue, queued, writing>>
    PROVE  CounterInvariant'
  <1>1. queued' \in Int /\ queued' <= queued
    BY Holders
  <1> QED
    BY <1>1, CountSteady, PendingShrinks DEF CounterInvariant

LEMMA LoadCounts ==
    ASSUME InductiveInvariant, CounterInvariant, NEW a \in Advances, Load(a)
    PROVE  CounterInvariant'
  <1>1. /\ pc[a] = "load" /\ pc' = [pc EXCEPT ![a] = "reserve"]
        /\ seen' = [seen EXCEPT ![a] = queued]
        /\ UNCHANGED <<rec, queue, queued, writing>>
    BY DEF Load, GoTo
  <1>2. Reserved' = Reserved
    BY <1>1 DEF InductiveInvariant, TypeOK, Reserved
  <1>3. CASE queued + Weight[rec[a]] > Budget
    <2>1. a \notin Pending'
      <3>1. queued \in Int /\ Weight[rec[a]] \in Nat /\ Budget \in Nat
        BY <1>1, WeightOfHeld, Holders, WarehouseAssumption
      <3>2. seen'[a] = queued /\ rec'[a] = rec[a]
        BY <1>1 DEF InductiveInvariant, TypeOK
      <3> QED
        BY <1>3, <3>1, <3>2 DEF Pending
    <2>2. \A b \in Advances \ {a} : pc'[b] = pc[b] /\ seen'[b] = seen[b] /\ rec'[b] = rec[b]
      BY <1>1 DEF InductiveInvariant, TypeOK
    <2>3. Pending' \in SUBSET Pending
      BY <2>1, <2>2 DEF Pending
    <2> QED
      BY <1>1, <1>2, <2>3, QuietStep
  <1>4. CASE queued + Weight[rec[a]] <= Budget
    <2>1. Pending' = Pending \cup {a} /\ a \notin Pending
      BY <1>1, <1>4 DEF InductiveInvariant, TypeOK, Pending
    <2>2. /\ Pending \in SUBSET Advances /\ queued \in Int /\ rec[a] \in Records
          /\ \A b \in Pending \cup {a} : rec[b] \in Records
      BY <1>1, Holders DEF InductiveInvariant, TypeOK, AdvancesHoldRecords
    <2>3. Held(Pending)' = Held(Pending) + Weight[rec[a]]
      BY <1>1, <2>1, <2>2, HeldAdds DEF Held
    <2>4. Cardinality(Pending) <= Cardinality(Advances) - 1 /\ Cardinality(Pending) \in Nat
      <3>1. IsFiniteSet(Advances \ {a}) /\ Cardinality(Advances \ {a}) = Cardinality(Advances) - 1
        BY WarehouseAssumption, FS_RemoveElement
      <3>2. Pending \in SUBSET (Advances \ {a})
        BY <2>1, <2>2
      <3> QED
        BY <3>1, <3>2, FS_Subset, FS_CardinalityType
    <2>5. Cardinality(Pending) * Largest <= (Cardinality(Advances) - 1) * Largest
      BY <2>4, SlackIsNatural, WarehouseAssumption, ProductsGrow
    <2>6. Held(Pending) <= Cardinality(Pending) * Largest /\ Held(Pending) \in Nat
      BY <2>2, HeldIsNatural DEF Held
    <2>7. Weight[rec[a]] \in Nat
      BY <2>2, WarehouseAssumption
    <2>8. queued' + Held(Pending)' <= Slack
      <3> DEFINE most == (Cardinality(Advances) - 1) * Largest
                 few == Cardinality(Pending) * Largest
      <3>1. Slack = Budget + most /\ most \in Int /\ few \in Int /\ few <= most
        BY <2>4, <2>5, SlackIsNatural, WarehouseAssumption DEF Slack
      <3>2. Held(Pending) <= few
        BY <2>6
      <3> HIDE DEF most, few
      <3> QED
        BY <1>1, <1>4, <2>2, <2>3, <2>6, <2>7, <3>1, <3>2, WarehouseAssumption
    <2> QED
      BY <1>1, <1>2, <2>8, CountSteady DEF CounterInvariant
  <1> QED
    BY <1>3, <1>4, WeightOfHeld, Holders, <1>1, WarehouseAssumption

LEMMA ReserveCounts ==
    ASSUME InductiveInvariant, CounterInvariant, NEW a \in Advances, Reserve(a)
    PROVE  CounterInvariant'
  <1>1. CASE Leave(a) /\ UNCHANGED queued
    <2>1. /\ pc[a] = "reserve" /\ pc' = [pc EXCEPT ![a] = "idle"]
          /\ rec' = [rec EXCEPT ![a] = NoRecord] /\ seen' = [seen EXCEPT ![a] = 0]
          /\ UNCHANGED <<queue, queued, writing>>
      BY <1>1 DEF Reserve, Leave, GoTo
    <2>2. Reserved' = Reserved /\ a \notin Reserved
      BY <2>1 DEF InductiveInvariant, TypeOK, Reserved
    <2>3. Pending' \in SUBSET Pending /\ a \notin Pending'
      BY <2>1 DEF InductiveInvariant, TypeOK, Pending
    <2>4. \A b \in Advances \ {a} : rec'[b] = rec[b]
      BY <2>1 DEF InductiveInvariant, TypeOK
    <2> QED
      BY <2>1, <2>2, <2>3, <2>4, Holders, QuietStep
  <1>2. CASE /\ seen[a] + Weight[rec[a]] <= Budget
             /\ queued' = queued + Weight[rec[a]]
             /\ GoTo(a, "send") /\ UNCHANGED <<rec, seen>>
    <2>1. /\ pc[a] = "reserve" /\ pc' = [pc EXCEPT ![a] = "send"]
          /\ UNCHANGED <<rec, seen, queue, writing>>
      BY <1>2 DEF Reserve, GoTo
    <2>2. Reserved' = Reserved \cup {a} /\ a \notin Reserved
      BY <2>1 DEF InductiveInvariant, TypeOK, Reserved
    <2>3. Pending' = Pending \ {a} /\ a \in Pending
      BY <1>2, <2>1 DEF InductiveInvariant, TypeOK, Pending
    <2>4. /\ Reserved \in SUBSET Advances /\ Pending' \in SUBSET Advances /\ queued \in Int
          /\ a \notin Pending' /\ Pending = Pending' \cup {a}
          /\ \A b \in Reserved \cup Pending' \cup {a} : rec[b] \in Records
      BY <2>2, <2>3, Holders
    <2>5. Held(Reserved)' = Held(Reserved) + Weight[rec[a]]
      BY <2>1, <2>2, <2>4, HeldAdds DEF Held
    <2>6. Held(Pending) = Held(Pending)' + Weight[rec[a]]
      BY <2>1, <2>4, HeldAdds DEF Held
    <2>7. InQueue' = InQueue /\ Writing' = Writing
      BY <2>1 DEF InQueue, Writing
    <2>8. Held(Reserved) \in Nat /\ Held(Pending)' \in Nat /\ Weight[rec[a]] \in Nat
      BY <2>1, <2>4, HeldIsNatural, WarehouseAssumption DEF Held
    <2>9. Total(Weight, InQueue) \in Nat /\ Total(Weight, Writing) \in Nat
      BY Holders, RowsAreNatural, TotalIsNatural DEF CounterInvariant
    <2> QED
      BY <1>2, <2>4, <2>5, <2>6, <2>7, <2>8, <2>9, SlackIsNatural DEF CounterInvariant
  <1> QED
    BY <1>1, <1>2 DEF Reserve

\* A reservation that ends: a sent record joins the channel, one that was not
\* sent gives its rows back.
LEMMA ReservationEnds ==
    ASSUME InductiveInvariant, CounterInvariant, NEW a \in Advances,
           pc[a] \in {"send", "undo"}, Leave(a)
    PROVE  /\ Held(Reserved) = Held(Reserved)' + Weight[rec[a]]
           /\ Held(Reserved)' \in Nat /\ rec[a] \in Records /\ Weight[rec[a]] \in Nat
           /\ Pending' \in SUBSET Pending /\ \A b \in Pending' : rec'[b] = rec[b]
  <1>1. /\ pc' = [pc EXCEPT ![a] = "idle"]
        /\ rec' = [rec EXCEPT ![a] = NoRecord] /\ seen' = [seen EXCEPT ![a] = 0]
    BY DEF Leave, GoTo
  <1>2. Reserved' = Reserved \ {a} /\ a \in Reserved
    BY <1>1 DEF InductiveInvariant, TypeOK, Reserved
  <1>3. \A b \in Advances \ {a} : rec'[b] = rec[b]
    BY <1>1 DEF InductiveInvariant, TypeOK
  <1>4. /\ Reserved' \in SUBSET Advances /\ a \notin Reserved' /\ Reserved = Reserved' \cup {a}
        /\ \A b \in Reserved' \cup {a} : rec[b] \in Records
        /\ \A b \in Reserved' : rec'[b] \in Records /\ rec'[b] = rec[b]
    BY <1>2, <1>3, Holders
  <1>5. Held(Reserved)' = Total([b \in Reserved' |-> Weight[rec[b]]], Reserved')
    BY <1>4, HeldAgrees DEF Held
  <1>6. Held(Reserved) = Total([b \in Reserved' |-> Weight[rec[b]]], Reserved') + Weight[rec[a]]
    BY <1>4, HeldAdds DEF Held
  <1>7. Held(Reserved)' \in Nat /\ Weight[rec[a]] \in Nat
    BY <1>4, <1>5, HeldIsNatural, WarehouseAssumption
  <1>8. Pending' \in SUBSET Pending /\ a \notin Pending'
    BY <1>1 DEF InductiveInvariant, TypeOK, Pending
  <1> QED
    BY <1>3, <1>4, <1>5, <1>6, <1>7, <1>8, Holders

LEMMA SendCounts ==
    ASSUME InductiveInvariant, CounterInvariant, NEW a \in Advances, Send(a)
    PROVE  CounterInvariant'
  <1>1. CASE queue' = Append(queue, rec[a]) /\ Leave(a)
    <2>1. /\ pc[a] = "send" /\ UNCHANGED <<queued, writing>> /\ queue \in Seq(Records)
      BY DEF Send, InductiveInvariant, TypeOK
    <2>2. rec[a] \in Records /\ rec[a] \notin InQueue
      BY <2>1, ReservationEnds, <1>1 DEF InductiveInvariant, EachStepSentOnce
    <2>3. InQueue' = InQueue \cup {rec[a]} /\ Writing' = Writing
      BY <1>1, <2>1, <2>2, AppendElements, QueueElements DEF Writing
    <2>4. IsFiniteSet(InQueue) /\ \A r \in InQueue \cup {rec[a]} : Weight[r] \in Nat
      BY <2>2, Holders, RowsAreNatural DEF CounterInvariant
    <2>5. Total(Weight, InQueue') = Total(Weight, InQueue) + Weight[rec[a]]
      BY <2>2, <2>3, <2>4, TotalAdds
    <2>6. IsFiniteSet(InQueue')
      BY <2>3, <2>4, FS_AddElement
    <2>7. Total(Weight, InQueue) \in Nat /\ Total(Weight, Writing) \in Nat
      BY Holders, RowsAreNatural, TotalIsNatural DEF CounterInvariant
    <2>8. queued' + Held(Pending)' <= Slack
      BY <1>1, <2>1, Holders, ReservationEnds, PendingShrinks
    <2>9. queued = Total(Weight, InQueue) + Total(Weight, Writing) + Held(Reserved)
      BY DEF CounterInvariant
    <2>10. /\ Held(Reserved) = Held(Reserved)' + Weight[rec[a]]
           /\ Held(Reserved)' \in Nat /\ Weight[rec[a]] \in Nat
      BY <1>1, <2>1, ReservationEnds
    <2>11. queued' = Total(Weight, InQueue') + Total(Weight, Writing') + Held(Reserved)'
      BY <2>1, <2>3, <2>5, <2>7, <2>9, <2>10
    <2> QED
      BY <2>6, <2>8, <2>11 DEF CounterInvariant
  <1>2. CASE GoTo(a, "undo") /\ UNCHANGED <<queue, rec, seen>>
    <2>1. /\ pc[a] = "send" /\ pc' = [pc EXCEPT ![a] = "undo"]
          /\ UNCHANGED <<rec, seen, queue, queued, writing>>
      BY <1>2 DEF Send, GoTo
    <2>2. Reserved' = Reserved /\ Pending' \in SUBSET Pending
      BY <2>1 DEF InductiveInvariant, TypeOK, Reserved, Pending
    <2> QED
      BY <2>1, <2>2, QuietStep
  <1> QED
    BY <1>1, <1>2 DEF Send

LEMMA UndoCounts ==
    ASSUME InductiveInvariant, CounterInvariant, NEW a \in Advances, Undo(a)
    PROVE  CounterInvariant'
  <1>1. /\ pc[a] = "undo" /\ Leave(a) /\ queued' = queued - Weight[rec[a]]
        /\ UNCHANGED <<queue, writing>>
    BY DEF Undo
  <1>2. InQueue' = InQueue /\ Writing' = Writing
    BY <1>1 DEF InQueue, Writing
  <1>3. /\ Held(Reserved) = Held(Reserved)' + Weight[rec[a]]
        /\ Held(Reserved)' \in Nat /\ Weight[rec[a]] \in Nat
        /\ Pending' \in SUBSET Pending /\ \A b \in Pending' : rec'[b] = rec[b]
    BY <1>1, ReservationEnds
  <1>4. Total(Weight, InQueue) \in Nat /\ Total(Weight, Writing) \in Nat
    BY Holders, RowsAreNatural, TotalIsNatural DEF CounterInvariant
  <1>5. queued' + Held(Pending)' <= Slack
    BY <1>1, <1>3, Holders, PendingShrinks
  <1> QED
    BY <1>1, <1>2, <1>3, <1>4, <1>5 DEF CounterInvariant

LEMMA ReceiveCounts ==
    ASSUME InductiveInvariant, CounterInvariant, Receive
    PROVE  CounterInvariant'
  <1>1. /\ queue \in Seq(Records) /\ queue # <<>> /\ Distinct(queue)
        /\ writing = NoRecord /\ writing' = Head(queue) /\ queue' = Tail(queue)
        /\ UNCHANGED <<pc, rec, seen, queued>>
    BY DEF Receive, InductiveInvariant, TypeOK, EachStepSentOnce, Distinct
  <1>2. /\ writing' \in Records /\ InQueue = InQueue' \cup {writing'} /\ writing' \notin InQueue'
    BY <1>1, TailElements, QueueElements
  <1>3. Writing = {} /\ Writing' = {writing'}
    BY <1>1, <1>2, WarehouseAssumption DEF Writing
  <1>4. IsFiniteSet(InQueue') /\ \A r \in InQueue' \cup {writing'} : Weight[r] \in Nat
    BY <1>2, Holders, RowsAreNatural, FS_Subset DEF CounterInvariant
  <1>5. Total(Weight, InQueue) = Total(Weight, InQueue') + Weight[writing']
    BY <1>2, <1>4, TotalAdds
  <1>6. Total(Weight, Writing') = Weight[writing'] /\ Total(Weight, Writing) = 0
    BY <1>3, <1>4, TotalOfOne, TotalOfNone
  <1>7. Total(Weight, InQueue') \in Nat
    BY <1>4, TotalIsNatural
  <1>8. Reserved' = Reserved /\ Pending' = Pending
    BY <1>1 DEF Reserved, Pending
  <1>9. Held(Reserved)' = Held(Reserved) /\ Held(Pending)' = Held(Pending)
    BY <1>1, <1>8 DEF Held
  <1>10. Held(Reserved) \in Nat
    BY Holders, HeldIsNatural DEF Held
  <1>11. Weight[writing'] \in Nat
    BY <1>4
  <1>12. queued' = Total(Weight, InQueue') + Total(Weight, Writing') + Held(Reserved)'
    BY <1>1, <1>5, <1>6, <1>7, <1>9, <1>10, <1>11 DEF CounterInvariant
  <1> QED
    BY <1>1, <1>4, <1>9, <1>12 DEF CounterInvariant

LEMMA ReleaseCounts ==
    ASSUME InductiveInvariant, CounterInvariant, Release
    PROVE  CounterInvariant'
  <1>1. /\ writing \in Records /\ writing' = NoRecord /\ queued' = queued - Weight[writing]
        /\ UNCHANGED <<pc, rec, seen, queue>>
    BY DEF Release, InductiveInvariant, TypeOK
  <1>2. Writing = {writing} /\ Writing' = {} /\ InQueue' = InQueue
    BY <1>1, WarehouseAssumption DEF Writing, InQueue
  <1>3. Weight[writing] \in Nat
    BY <1>1, WarehouseAssumption
  <1>4. Total(Weight, Writing) = Weight[writing] /\ Total(Weight, Writing') = 0
    BY <1>2, <1>3, TotalOfOne, TotalOfNone
  <1>5. Total(Weight, InQueue) \in Nat
    BY Holders, RowsAreNatural, TotalIsNatural DEF CounterInvariant
  <1>6. Reserved' = Reserved /\ Pending' = Pending
    BY <1>1 DEF Reserved, Pending
  <1>7. Held(Reserved)' = Held(Reserved) /\ Held(Reserved) \in Nat
    BY <1>1, <1>6, Holders, HeldIsNatural DEF Held
  <1>8. queued' + Held(Pending)' <= Slack
    BY <1>1, <1>3, <1>6, Holders, PendingShrinks
  <1> QED
    BY <1>1, <1>2, <1>3, <1>4, <1>5, <1>7, <1>8, Holders DEF CounterInvariant

LEMMA CounterPreserved ==
    InductiveInvariant /\ CounterInvariant /\ [Next]_vars => CounterInvariant'
  <1> SUFFICES ASSUME InductiveInvariant, CounterInvariant, [Next]_vars
               PROVE  CounterInvariant'
    OBVIOUS
  <1>1. ASSUME NEW a \in Advances, NEW s \in Sims, Read(a, s)
        PROVE  CounterInvariant'
    <2>1. /\ pc[a] = "idle" /\ pc' = [pc EXCEPT ![a] = "commit"]
          /\ rec' = [rec EXCEPT ![a] = <<s, cursor[s]>>]
          /\ UNCHANGED <<seen, queue, queued, writing>>
      BY <1>1 DEF Read, GoTo
    <2>2. \A b \in Advances \ {a} : rec'[b] = rec[b] /\ pc'[b] = pc[b]
      BY <2>1 DEF InductiveInvariant, TypeOK
    <2>3. pc'[a] = "commit"
      BY <2>1 DEF InductiveInvariant, TypeOK
    <2>4. Reserved' = Reserved /\ a \notin Reserved
      BY <2>1, <2>2, <2>3 DEF Reserved
    <2>5. Pending' \in SUBSET Pending /\ a \notin Pending'
      BY <2>1, <2>2, <2>3 DEF Pending
    <2> QED
      BY <2>1, <2>2, <2>4, <2>5, Holders, QuietStep
  <1>2. ASSUME NEW a \in Advances, Commit(a) \/ Cancel(a)
        PROVE  CounterInvariant'
    <2>1. /\ pc[a] \in {"commit", "load"} /\ pc'[a] \in {"idle", "load"}
          /\ UNCHANGED <<queue, queued, writing>>
          /\ \A b \in Advances \ {a} : rec'[b] = rec[b] /\ pc'[b] = pc[b] /\ seen'[b] = seen[b]
      BY <1>2 DEF Commit, Cancel, Leave, GoTo, InductiveInvariant, TypeOK
    <2>2. Reserved' = Reserved /\ a \notin Reserved
      BY <2>1 DEF Reserved
    <2>3. Pending' \in SUBSET Pending /\ a \notin Pending'
      BY <2>1 DEF Pending
    <2> QED
      BY <2>1, <2>2, <2>3, Holders, QuietStep
  <1>3. ASSUME NEW a \in Advances, File(a)
        PROVE  CounterInvariant'
    BY <1>3, LoadCounts, ReserveCounts, SendCounts, UndoCounts DEF File
  <1>4. CASE Writer
    <2>1. CASE Persist
      <3>1. UNCHANGED <<pc, rec, seen, queue, queued, writing>>
        BY <2>1 DEF Persist
      <3>2. Reserved' = Reserved /\ Pending' = Pending
        BY <3>1 DEF Reserved, Pending
      <3> QED
        BY <3>1, <3>2, QuietStep
    <2> QED
      BY <1>4, <2>1, ReceiveCounts, ReleaseCounts DEF Writer
  <1>5. CASE Crash
    <2>1. InQueue' = {} /\ Writing' = {} /\ Reserved' = {} /\ Pending' = {} /\ queued' = 0
      BY <1>5 DEF Crash, InQueue, Writing, Reserved, Pending
    <2>2. Held({})' = 0 /\ Total(Weight, {}) = 0 /\ IsFiniteSet({})
      BY TotalOfNone, FS_EmptySet DEF Held
    <2>3. Held(Reserved)' = 0 /\ Held(Pending)' = 0
      BY <2>1, <2>2 DEF Held
    <2> QED
      BY <2>1, <2>2, <2>3, SlackIsNatural DEF CounterInvariant
  <1>6. CASE UNCHANGED vars
    <2>1. UNCHANGED <<pc, rec, seen, queue, queued, writing>>
      BY <1>6 DEF vars
    <2>2. Reserved' = Reserved /\ Pending' = Pending
      BY <2>1 DEF Reserved, Pending
    <2> QED
      BY <2>1, <2>2, QuietStep
  <1> QED
    BY <1>1, <1>2, <1>3, <1>4, <1>5, <1>6 DEF Next

-----------------------------------------------------------------------------
(* The theorems                                                            *)

\* The invariant holds of every behaviour of the queue, crashes included.
THEOREM Invariance == Spec => []InductiveInvariant
  BY Initially, Preserved, PTL DEF Spec

\* file_snapshot and the writer task keep their variables' types.
THEOREM TypeCorrect == Spec => []TypeOK
  <1>1. InductiveInvariant => TypeOK
    BY DEF InductiveInvariant
  <1> QED
    BY <1>1, Invariance, PTL

\* Whatever reaches the channel, the writer or the warehouse is a step that an
\* advance committed before it filed it (file_snapshot runs after save_cas).
THEOREM OnlyCommittedIsFiled == Spec => []FiledIsCommitted
  <1>1. InductiveInvariant => FiledIsCommitted
    BY DEF InductiveInvariant
  <1> QED
    BY <1>1, Invariance, PTL

\* No step goes through the channel twice, whichever advances race.
THEOREM StepsSentOnce == Spec => []EachStepSentOnce
  <1>1. InductiveInvariant => EachStepSentOnce
    BY DEF InductiveInvariant
  <1> QED
    BY <1>1, Invariance, PTL

\* The counter's invariant holds with the other.
THEOREM CounterInvariance == Spec => []CounterInvariant
  BY Invariance, CounterAtInit, CounterPreserved, PTL DEF Spec

\* queued_contracts is, at every moment, the rows of the channel, of the record
\* being written and of the reservations in flight: nothing is released twice or
\* never, on any path of file_snapshot, of the writer and of a crash.
THEOREM CounterExact == Spec => []CounterIsExact
  <1>1. InductiveInvariant /\ CounterInvariant => CounterIsExact
    BY DEF InductiveInvariant, CounterInvariant, CounterIsExact
  <1> QED
    BY <1>1, Invariance, CounterInvariance, PTL

\* However many advances race between the check of the budget and the
\* reservation, they pass it by at most one record for each but one of them.
THEOREM OvershootBounded == Spec => []OvershootIsBounded
  <1>1. InductiveInvariant /\ CounterInvariant => OvershootIsBounded
    <2> SUFFICES ASSUME InductiveInvariant, CounterInvariant PROVE OvershootIsBounded
      OBVIOUS
    <2>1. Held(Pending) \in Nat /\ queued \in Int
      BY Holders, HeldIsNatural DEF Held
    <2>2. queued <= Slack
      BY <2>1, SlackIsNatural DEF CounterInvariant
    <2> QED
      BY <2>2 DEF OvershootIsBounded, Slack
  <1> QED
    BY <1>1, Invariance, CounterInvariance, PTL
=============================================================================
