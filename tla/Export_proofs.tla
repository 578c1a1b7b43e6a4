---------------------------- MODULE Export_proofs ----------------------------
(***************************************************************************)
(* Proofs about Export, for any number of steps, rows, writers, exports,   *)
(* windows and budgets: a marker follows its rows, a window holds whole    *)
(* snapshots, and the body is the one a replay would have produced.  With  *)
(* StoredExport, for any snapshots and decimals of any scale: the rows of  *)
(* a step that are read back render what a replay of the step renders.     *)
(***************************************************************************)
EXTENDS StoredExport, Totals_proofs

(***************************************************************************)
(* The inductive invariant.                                                *)
(***************************************************************************)
\* The batch of a writer that goes on to its marker is in the table.
BatchesLanded == \A w \in Writers : (job[w] # NoStep /\ batched[w]) => Rows(job[w]) \subseteq quotes

\* The window holds whole snapshots, of steps it covers; while the next one is read
\* it is empty.
WindowConsistent ==
    /\ \A r \in loaded : /\ r.rows = Rows(r.step)
                         /\ next <= r.step /\ r.step < covered /\ covered <= r.step + window
    /\ phase \in {"metas", "quotes"} => loaded = {} /\ UsesStore /\ next <= export.to
    /\ phase = "quotes" => metas \subseteq next .. WindowEnd

\* All that has been sent, received or not.
Sent == body \o channel

Tip == Sent[Len(Sent)]

\* The step after a chunk, and whether another one may come next.
After1(c) == IF c.kind = "prologue" THEN export.from ELSE c.step + 1

Follows(c, d) ==
    /\ c.kind \in {"prologue", "rows"}
    /\ \/ d.kind = "error"
       \/ /\ d.kind = "rows"
          /\ d.step \in After1(c) .. export.to
          /\ Replay(export.dataset, d.step) # {}
          /\ d.rows = Replay(export.dataset, d.step)
          /\ Replayed!Blank(After1(c), d.step)
       \/ /\ d = Bare("epilogue")
          /\ export.format = "json"
          /\ Replayed!Blank(After1(c), export.to + 1)

Starts(c) == c = Bare("prologue") \/ c.kind = "error"

\* What is in the producer's hand goes on from what it sent, and it knows where it is.
HandConsistent ==
    /\ phase = "send" => IF Sent = <<>> THEN Starts(chunk) ELSE Follows(Tip, chunk)
    /\ (phase = "build" \/ (phase = "send" /\ chunk.kind = "prologue")) => next = export.from
    /\ (phase = "send" /\ chunk.kind = "rows") => next = chunk.step + 1
    /\ phase \in {"row", "metas", "quotes"} =>
           /\ Sent # <<>> /\ Tip.kind \in {"prologue", "rows"}
           /\ After1(Tip) <= next /\ Replayed!Blank(After1(Tip), next)
    /\ phase = "ended" =>
           /\ Sent # <<>>
           /\ \/ Tip.kind = "error"
              \/ Tip = Bare("epilogue") /\ export.format = "json"
              \/ /\ Tip.kind \in {"prologue", "rows"} /\ export.format = "csv"
                 /\ Replayed!Blank(After1(Tip), export.to + 1)

\* The chunks of an open body and its channel go on from one another.
ChunksConsistent ==
    /\ phase = "build" => Sent = <<>>
    /\ Sent # <<>> => Starts(Sent[1])
    /\ \A i \in 1 .. Len(Sent) - 1 : Follows(Sent[i], Sent[i + 1])
    /\ \A i \in 1 .. Len(body) : body[i].kind # "error"

InductiveInvariant ==
    /\ TypeOK
    /\ BatchesLanded
    /\ WindowConsistent
    /\ IF phase = "idle" THEN ending = "none" ELSE ending # "none" /\ export \in Exports
    /\ ending = "open" => HandConsistent /\ ChunksConsistent

-----------------------------------------------------------------------------
(* Rows and cardinalities                                                  *)

\* A snapshot has as many rows as it counts.
LEMMA RowsCounted ==
    ASSUME NEW s \in Steps
    PROVE  IsFiniteSet(Rows(s)) /\ Cardinality(Rows(s)) = Count[s]
  <1> DEFINE f == [i \in 1 .. Count[s] |-> <<s, i>>]
  <1>1. Count[s] \in Nat
    BY TapeAssumption
  <1>2. IsFiniteSet(1 .. Count[s]) /\ Cardinality(1 .. Count[s]) = Count[s]
    BY <1>1, FS_Interval
  <1>3. f \in Bijection(1 .. Count[s], Rows(s))
    <2>1. f \in [1 .. Count[s] -> Rows(s)]
      BY DEF Rows
    <2>2. IsInjective(f)
      BY DEF IsInjective
    <2>3. \A row \in Rows(s) : \E i \in 1 .. Count[s] : f[i] = row
      BY DEF Rows
    <2> QED
      BY <2>1, <2>2, <2>3 DEF Bijection, Injection, Surjection
  <1> HIDE DEF f
  <1> QED
    BY <1>2, <1>3, FS_Bijection DEF ExistsBijection

\* Enough rows of a step are all of its rows.
LEMMA RowsComplete ==
    ASSUME NEW s \in Steps, NEW answer \in SUBSET UNION {Rows(t) : t \in Steps},
           Cardinality(RowsOf(s, answer)) = Count[s]
    PROVE  RowsOf(s, answer) = Rows(s)
  <1>1. RowsOf(s, answer) \in SUBSET Rows(s)
    BY DEF RowsOf, Rows
  <1> QED
    BY <1>1, RowsCounted, FS_Subset

\* A replayed step consists of rows.
LEMMA ReplayType ==
    ASSUME NEW d, NEW s \in Steps
    PROVE  Replay(d, s) \in SUBSET (Steps \X Nat)
  <1>1. s \in Nat /\ Count[s] \in Nat
    BY TapeAssumption DEF Steps
  <1> QED
    BY <1>1 DEF Replay, Rows

\* A window with one record per step it covers holds no more than its width.
LEMMA WindowBounded ==
    ASSUME TypeOK, WindowConsistent
    PROVE  Cardinality(loaded) <= window
  <1> DEFINE T == (covered - window) .. (covered - 1)
             f == [r \in loaded |-> r.step]
  <1>1. covered \in Nat /\ window \in Nat /\ window >= 1
    <2>1. Horizon \in Nat /\ Window \in Nat
      BY TapeAssumption, ExportAssumption
    <2> QED
      BY <2>1 DEF TypeOK
  <1>2. IsFiniteSet(T) /\ Cardinality(T) = window
    BY <1>1, FS_Interval
  <1>3. \A r \in loaded : r \in [step : Steps, rows : SUBSET (Steps \X Nat)] /\ r.step \in Nat
    BY DEF TypeOK, Steps
  <1>4. f \in [loaded -> T]
    BY <1>1, <1>3 DEF WindowConsistent
  <1>5. ASSUME NEW r \in loaded, NEW q \in loaded, r.step = q.step PROVE r = q
    BY <1>3, <1>5 DEF WindowConsistent
  <1>6. IsInjective(f)
    BY <1>5 DEF IsInjective
  <1>7. f \in Injection(loaded, T)
    BY <1>4, <1>6 DEF Injection
  <1> HIDE DEF T, f
  <1> QED
    BY <1>2, <1>7, FS_Injection

-----------------------------------------------------------------------------
(* The parts of a step                                                     *)

\* The initial states satisfy the inductive invariant.
LEMMA Initially == Init => InductiveInvariant
  <1> SUFFICES ASSUME Init PROVE InductiveInvariant
    OBVIOUS
  <1>1. Horizon \in Nat \ {0} /\ Window \in Nat \ {0} /\ Capacity \in Nat \ {0}
    BY TapeAssumption, ExportAssumption
  <1>2. TapeTypeOK
    BY DEF Init, TapeInit, TapeTypeOK
  <1>3. chunk \in Chunks
    BY DEF Init, Bare, Chunks
  <1>4. channel \in Seq(Chunks) /\ Len(channel) <= Capacity /\ body \in Seq(Chunks)
    BY <1>1 DEF Init
  <1>5. covered \in 0 .. Horizon /\ window \in 1 .. Window /\ next \in Nat /\ failures \in Nat
    BY <1>1 DEF Init
  <1>6. TypeOK
    BY <1>2, <1>3, <1>4, <1>5 DEF Init, TypeOK
  <1> QED
    BY <1>6 DEF Init, TapeInit, InductiveInvariant, BatchesLanded, WindowConsistent

\* What the writers and the retention do to the tables.
LEMMA TablesKeep ==
    ASSUME TypeOK, BatchesLanded, TapeNext
    PROVE  TapeTypeOK' /\ BatchesLanded'
  <1> USE DEF TypeOK, TapeTypeOK, BatchesLanded
  <1>1. ASSUME NEW w \in Writers, NEW s \in Steps, Take(w, s)
        PROVE  TapeTypeOK' /\ BatchesLanded'
    <2>1. Count[s] = 0 => Rows(s) = {}
      BY DEF Rows
    <2>2. TapeTypeOK'
      BY <1>1 DEF Take
    <2>3. BatchesLanded'
      BY <1>1, <2>1, TapeAssumption DEF Take
    <2> QED
      BY <2>2, <2>3
  <1>2. ASSUME NEW w \in Writers, WriteQuotes(w)
        PROVE  TapeTypeOK' /\ BatchesLanded'
    <2>1. job[w] \in Steps /\ quotes \subseteq quotes'
      BY <1>2 DEF WriteQuotes
    <2>2. TapeTypeOK'
      BY <1>2, <2>1 DEF WriteQuotes
    <2>3. BatchesLanded'
      BY <1>2, <2>1, TapeAssumption DEF WriteQuotes
    <2> QED
      BY <2>2, <2>3
  <1>3. ASSUME NEW w \in Writers, WriteMarker(w)
        PROVE  TapeTypeOK' /\ BatchesLanded'
    <2>1. job[w] \in Steps
      BY <1>3 DEF WriteMarker
    <2>2. TapeTypeOK'
      BY <1>3, <2>1 DEF WriteMarker
    <2>3. BatchesLanded'
      BY <1>3 DEF WriteMarker
    <2> QED
      BY <2>2, <2>3
  <1>4. ASSUME Retire PROVE TapeTypeOK' /\ BatchesLanded'
    <2>1. TapeTypeOK'
      BY <1>4 DEF Retire
    <2>2. BatchesLanded'
      BY <1>4 DEF Retire, Rows
    <2> QED
      BY <2>1, <2>2
  <1> QED
    BY <1>1, <1>2, <1>3, <1>4 DEF TapeNext

\* Tables that stay keep what is said of them.
LEMMA TablesStay ==
    ASSUME TypeOK, BatchesLanded, UNCHANGED tables
    PROVE  TapeTypeOK' /\ BatchesLanded'
  BY DEF tables, TypeOK, TapeTypeOK, BatchesLanded

\* The end of a window lies in the range and is no further than its width.
LEMMA WindowEndType ==
    ASSUME TypeOK, export \in Exports, next <= export.to
    PROVE  /\ WindowEnd \in Steps /\ WindowEnd <= export.to
           /\ next <= WindowEnd /\ WindowEnd < next + window
           /\ next \in Steps
  <1>1. /\ Horizon \in Nat /\ next \in Nat /\ window \in Nat /\ window >= 1
        /\ export.to \in 0 .. Horizon - 1
    BY TapeAssumption, ExportAssumption DEF TypeOK, Exports, Steps
  <1> QED
    BY <1>1 DEF WindowEnd, Steps

\* Half a window is a window.
LEMMA HalfType ==
    ASSUME window \in 1 .. Window, window > 1
    PROVE  window \div 2 \in 1 .. Window
  BY ExportAssumption

-----------------------------------------------------------------------------
(* The chunks sent                                                         *)

\* The types of what has been sent.
LEMMA SentType ==
    ASSUME TypeOK
    PROVE  /\ Sent \in Seq(Chunks)
           /\ Len(Sent) = Len(body) + Len(channel)
           /\ Len(Sent) \in Nat
           /\ Sent # <<>> => Tip \in Chunks /\ Len(Sent) >= 1
           /\ \A i \in 1 .. Len(Sent) :
                  Sent[i] = IF i <= Len(body) THEN body[i] ELSE channel[i - Len(body)]
  <1>1. body \in Seq(Chunks) /\ channel \in Seq(Chunks)
    BY DEF TypeOK
  <1>2. /\ Sent \in Seq(Chunks)
        /\ Len(Sent) = Len(body) + Len(channel)
        /\ \A i \in 1 .. Len(Sent) :
               Sent[i] = IF i <= Len(body) THEN body[i] ELSE channel[i - Len(body)]
    BY <1>1 DEF Sent
  <1>3. Len(Sent) \in Nat /\ (Sent # <<>> => Len(Sent) >= 1)
    BY <1>2
  <1>4. Sent # <<>> => Tip \in Chunks
    BY <1>2, <1>3 DEF Tip
  <1> QED
    BY <1>2, <1>3, <1>4

\* A chunk that is put into the channel is the last one sent.
LEMMA SentAppended ==
    ASSUME TypeOK, NEW c \in Chunks, channel' = Append(channel, c), body' = body
    PROVE  /\ Len(Sent') = Len(Sent) + 1
           /\ Sent'[Len(Sent) + 1] = c
           /\ \A i \in 1 .. Len(Sent) : Sent'[i] = Sent[i]
           /\ Sent' # <<>> /\ Tip' = c
  <1>1. body \in Seq(Chunks) /\ channel \in Seq(Chunks)
    BY DEF TypeOK
  <1>2. /\ channel' \in Seq(Chunks) /\ Len(channel') = Len(channel) + 1
        /\ channel'[Len(channel) + 1] = c
        /\ \A i \in 1 .. Len(channel) : channel'[i] = channel[i]
    BY <1>1
  <1>3. /\ Len(Sent') = Len(body) + Len(channel')
        /\ \A i \in 1 .. Len(Sent') :
               Sent'[i] = IF i <= Len(body) THEN body[i] ELSE channel'[i - Len(body)]
    BY <1>1, <1>2 DEF Sent
  <1>4. Len(body) \in Nat /\ Len(channel) \in Nat
    BY <1>1
  <1>5. Len(Sent') = Len(Sent) + 1
    BY <1>2, <1>3, <1>4, SentType
  <1>6. Sent'[Len(Sent) + 1] = c
    BY <1>2, <1>3, <1>4, <1>5, SentType
  <1>7. ASSUME NEW i \in 1 .. Len(Sent) PROVE Sent'[i] = Sent[i]
    <2>1. /\ Len(Sent) = Len(body) + Len(channel)
          /\ Sent[i] = IF i <= Len(body) THEN body[i] ELSE channel[i - Len(body)]
      BY SentType
    <2>2. i \in 1 .. Len(Sent')
      BY <1>4, <1>5, <2>1
    <2>3. Sent'[i] = IF i <= Len(body) THEN body[i] ELSE channel'[i - Len(body)]
      BY <1>3, <2>2
    <2>4. i > Len(body) => i - Len(body) \in 1 .. Len(channel)
      BY <1>4, <2>1
    <2> QED
      BY <1>2, <1>4, <2>1, <2>3, <2>4
  <1>8. Sent' # <<>>
    <2>1. Len(<<>>) = 0
      OBVIOUS
    <2> QED
      BY <1>5, <2>1, SentType
  <1>9. Tip' = c
    BY <1>5, <1>6 DEF Tip
  <1> QED
    BY <1>5, <1>6, <1>7, <1>8, <1>9

\* What the client receives has been sent before.
LEMMA SentReceived ==
    ASSUME TypeOK, channel # <<>>, body' = Append(body, Head(channel)), channel' = Tail(channel)
    PROVE  Sent' = Sent
  <1>1. body \in Seq(Chunks) /\ channel \in Seq(Chunks)
    BY DEF TypeOK
  <1>2. /\ Head(channel) \in Chunks /\ Tail(channel) \in Seq(Chunks)
        /\ Len(channel) \in Nat \ {0} /\ Len(Tail(channel)) = Len(channel) - 1
        /\ Head(channel) = channel[1]
        /\ \A i \in 1 .. Len(channel) - 1 : Tail(channel)[i] = channel[i + 1]
    BY <1>1
  <1>3. /\ body' \in Seq(Chunks) /\ Len(body') = Len(body) + 1 /\ Len(body) \in Nat
        /\ body'[Len(body) + 1] = channel[1]
        /\ \A i \in 1 .. Len(body) : body'[i] = body[i]
    BY <1>1, <1>2
  <1>4. /\ Sent' \in Seq(Chunks) /\ Len(Sent') = Len(body') + Len(channel')
        /\ \A i \in 1 .. Len(Sent') :
               Sent'[i] = IF i <= Len(body') THEN body'[i] ELSE channel'[i - Len(body')]
    BY <1>2, <1>3 DEF Sent
  <1>5. Len(Sent') = Len(Sent)
    BY <1>2, <1>3, <1>4, SentType
  <1>6. ASSUME NEW i \in 1 .. Len(Sent) PROVE Sent'[i] = Sent[i]
    <2>1. /\ Len(Sent) = Len(body) + Len(channel)
          /\ Sent[i] = IF i <= Len(body) THEN body[i] ELSE channel[i - Len(body)]
      BY SentType
    <2>2. Sent'[i] = IF i <= Len(body') THEN body'[i] ELSE channel'[i - Len(body')]
      BY <1>4, <1>5
    <2>3. CASE i <= Len(body)
      BY <1>3, <2>1, <2>2, <2>3
    <2>4. CASE i = Len(body) + 1
      <3>1. ~(i <= Len(body)) /\ i <= Len(body') /\ i - Len(body) = 1
        BY <1>3, <2>4
      <3> QED
        BY <1>3, <2>1, <2>2, <2>4, <3>1
    <2>5. CASE i > Len(body) + 1
      <3>1. /\ ~(i <= Len(body)) /\ ~(i <= Len(body'))
            /\ i - Len(body') \in 1 .. Len(channel) - 1
            /\ (i - Len(body')) + 1 = i - Len(body)
        BY <1>2, <1>3, <2>1, <2>5
      <3>2. Sent'[i] = Tail(channel)[i - Len(body')]
        BY <2>2, <3>1
      <3>3. Sent'[i] = channel[(i - Len(body')) + 1]
        BY <1>2, <3>1, <3>2
      <3> QED
        BY <2>1, <3>1, <3>3
    <2> QED
      BY <1>3, <2>3, <2>4, <2>5
  <1> QED
    BY <1>4, <1>5, <1>6, SentType

\* Chunks that are neither sent nor received go on from one another as before.
LEMMA ChunksStay ==
    ASSUME ChunksConsistent, UNCHANGED <<export, channel, body>>, phase' # "build"
    PROVE  ChunksConsistent'
  <1>1. Sent' = Sent
    BY DEF Sent
  <1> QED
    BY <1>1 DEF ChunksConsistent, Follows, After1, Replayed!Blank

\* A producer that stays at its step stays consistent with what it sent.
LEMMA HandStays ==
    ASSUME HandConsistent, UNCHANGED <<export, next, channel, body>>,
           phase \in {"row", "metas", "quotes"}, phase' \in {"row", "metas", "quotes"}
    PROVE  HandConsistent'
  <1>1. Sent' = Sent /\ Tip' = Tip
    BY DEF Sent, Tip
  <1> QED
    BY <1>1 DEF HandConsistent, After1, Replayed!Blank

\* A read of the warehouse, whatever its outcome, concerns the window alone.
LEMMA ReadKeeps ==
    ASSUME InductiveInvariant, WindowConsistent', BatchesLanded', TypeOK',
           UNCHANGED <<export, next, client>>,
           phase \in {"row", "metas", "quotes"}, phase' \in {"row", "metas", "quotes"}
    PROVE  InductiveInvariant'
  <1>1. export' = export /\ channel' = channel /\ body' = body /\ ending' = ending
    BY DEF client
  <1>2. ending' = "open" => HandConsistent' /\ ChunksConsistent'
    BY <1>1, HandStays, ChunksStay DEF InductiveInvariant
  <1> QED
    BY <1>1, <1>2 DEF InductiveInvariant

-----------------------------------------------------------------------------
(* One lemma per action                                                    *)

\* An export begins with nothing sent.
LEMMA BeginKeeps ==
    ASSUME InductiveInvariant, NEW q \in Queries, Begin(q)
    PROVE  InductiveInvariant'
  <1>1. PICK e \in Exports : export' = e /\ next' = e.from
    BY DEF Begin, Resolve
  <1>2. Horizon \in Nat \ {0} /\ Window \in Nat \ {0} /\ Capacity \in Nat \ {0}
    BY TapeAssumption, ExportAssumption
  <1>3. e.from \in Nat
    BY DEF Exports, Steps
  <1>4. TapeTypeOK' /\ BatchesLanded'
    BY TablesStay DEF Begin, InductiveInvariant
  <1>5. Bare("none") \in Chunks
    BY DEF Bare, Chunks
  <1>6. channel' = <<>> /\ body' = <<>> /\ <<>> \in Seq(Chunks) /\ Len(<<>>) = 0
    BY DEF Begin
  <1>7. covered' \in 0 .. Horizon /\ window' \in 1 .. Window /\ failures' \in Nat
        /\ loaded' = {} /\ degraded' = FALSE /\ metas' = {}
    BY <1>2 DEF Begin, Fresh
  <1>8. TypeOK'
    <2>1. channel' \in Seq(Chunks) /\ Len(channel') <= Capacity /\ body' \in Seq(Chunks)
      BY <1>2, <1>6
    <2>2. chunk' \in Chunks /\ phase' = "build" /\ ending' = "open"
      BY <1>5 DEF Begin
    <2>3. export' \in Exports /\ next' \in Nat
      BY <1>1, <1>3
    <2>4. loaded' \in SUBSET [step : Steps, rows : SUBSET (Steps \X Nat)]
      BY <1>7
    <2> QED
      BY <1>4, <1>7, <2>1, <2>2, <2>3, <2>4 DEF TypeOK
  <1>9. WindowConsistent'
    BY <1>7 DEF Begin, WindowConsistent
  <1>10. Sent' = <<>>
    BY <1>6 DEF Sent
  <1>11. HandConsistent'
    BY <1>1, <1>10 DEF Begin, HandConsistent
  <1>12. ChunksConsistent'
    BY <1>6, <1>10 DEF ChunksConsistent
  <1> QED
    BY <1>1, <1>4, <1>8, <1>9, <1>11, <1>12 DEF Begin, InductiveInvariant

\* The producer's first chunk is the prologue or an error.
LEMMA BuildKeeps ==
    ASSUME InductiveInvariant, Build
    PROVE  InductiveInvariant'
  <1>1. PICK c \in {Bare("prologue"), Bare("error")} : phase' = "send" /\ chunk' = c
    BY DEF Build, Offer
  <1>2. c \in Chunks /\ (c = Bare("prologue") \/ c.kind = "error") /\ c.kind # "rows"
    BY DEF Bare, Chunks
  <1>3. TapeTypeOK' /\ BatchesLanded'
    BY TablesStay DEF Build, InductiveInvariant
  <1>4. UNCHANGED <<export, next, loaded, covered, window, degraded, metas, failures,
                    channel, body, ending>>
    BY DEF Build, stored, client
  <1>5. TypeOK'
    BY <1>1, <1>2, <1>3, <1>4 DEF InductiveInvariant, TypeOK
  <1>6. WindowConsistent'
    BY <1>1, <1>4 DEF InductiveInvariant, WindowConsistent
  <1>7. Sent' = Sent
    BY <1>4 DEF Sent
  <1>8. ending = "open" => HandConsistent' /\ ChunksConsistent'
    <2> SUFFICES ASSUME ending = "open" PROVE HandConsistent' /\ ChunksConsistent'
      OBVIOUS
    <2>1. Sent = <<>> /\ next = export.from
      BY DEF InductiveInvariant, Build, ChunksConsistent, HandConsistent
    <2>2. HandConsistent'
      BY <1>1, <1>2, <1>4, <1>7, <2>1 DEF HandConsistent, Starts
    <2>3. ChunksConsistent'
      BY <1>1, <1>4, ChunksStay DEF InductiveInvariant
    <2> QED
      BY <2>2, <2>3
  <1> QED
    BY <1>1, <1>3, <1>4, <1>5, <1>6, <1>8 DEF InductiveInvariant, Build

\* A new window starts out empty.
LEMMA LoadKeeps ==
    ASSUME InductiveInvariant, Load
    PROVE  InductiveInvariant'
  <1>1. TapeTypeOK' /\ BatchesLanded'
    BY TablesStay DEF Load, InductiveInvariant
  <1>2. TypeOK'
    BY <1>1 DEF Load, client, InductiveInvariant, TypeOK
  <1>3. WindowConsistent'
    BY DEF Load, client, WindowConsistent, UsesStore
  <1> QED
    BY <1>1, <1>2, <1>3, ReadKeeps DEF Load

\* What a failed read leaves of the window.
LEMMA FailedRead ==
    ASSUME InductiveInvariant, phase \in {"metas", "quotes"}, Refused \/ Degrade,
           UNCHANGED <<tables, export, next, chunk, loaded, covered, client>>
    PROVE  InductiveInvariant'
  <1>1. TapeTypeOK' /\ BatchesLanded'
    BY TablesStay DEF InductiveInvariant
  <1>2. /\ window' \in 1 .. Window /\ metas' = {} /\ degraded' \in BOOLEAN
        /\ phase' \in {"metas", "row"} /\ failures' \in Nat
        /\ phase' = "metas" => degraded' = degraded
    <2>1. window \in 1 .. Window /\ failures \in Nat /\ degraded \in BOOLEAN
      BY DEF InductiveInvariant, TypeOK
    <2>2. CASE window > 1 /\ window' = window \div 2 /\ phase' = "metas" /\ UNCHANGED degraded
               /\ failures' = failures + 1 /\ metas' = {}
      <3>1. window' \in 1 .. Window
        BY <2>1, <2>2, HalfType
      <3> QED
        BY <2>1, <2>2, <3>1
    <2>3. CASE window' = window /\ degraded' = TRUE /\ phase' = "row"
               /\ failures' = failures + 1 /\ metas' = {}
      BY <2>1, <2>3
    <2> QED
      BY <2>2, <2>3 DEF Refused, Degrade
  <1>3. TypeOK'
    BY <1>1, <1>2 DEF client, InductiveInvariant, TypeOK
  <1>4. WindowConsistent'
    BY <1>2 DEF InductiveInvariant, WindowConsistent, UsesStore
  <1> QED
    BY <1>1, <1>2, <1>3, <1>4, ReadKeeps

\* The markers of a window are steps of it.
LEMMA ReadMetasKeeps ==
    ASSUME InductiveInvariant, ReadMetas
    PROVE  InductiveInvariant'
  <1>1. CASE Refused \/ Degrade
    BY <1>1, FailedRead DEF ReadMetas
  <1>2. CASE /\ metas' = MarkersIn(next, WindowEnd)
             /\ phase' = "quotes"
             /\ UNCHANGED <<window, degraded, failures>>
    <2>1. TapeTypeOK' /\ BatchesLanded'
      BY TablesStay DEF ReadMetas, InductiveInvariant
    <2>2. phase = "metas" /\ export \in Exports /\ next <= export.to
      BY DEF ReadMetas, InductiveInvariant, WindowConsistent
    <2>3. metas' \subseteq markers /\ markers \subseteq Steps
          /\ metas' \subseteq next .. WindowEnd
      <3>1. markers \subseteq Steps /\ Steps \subseteq Int
        BY DEF InductiveInvariant, TypeOK, TapeTypeOK, Steps
      <3>2. TypeOK
        BY DEF InductiveInvariant
      <3>3. WindowEnd \in Steps /\ next \in Steps
        BY <2>2, <3>2, WindowEndType
      <3>4. next \in Int /\ WindowEnd \in Int
        BY <3>3 DEF Steps
      <3>5. ASSUME NEW s \in metas' PROVE s \in markers /\ s \in next .. WindowEnd
        <4>1. s \in markers /\ next <= s /\ s <= WindowEnd
          BY <1>2 DEF MarkersIn
        <4>2. s \in Int
          BY <3>1, <4>1
        <4> QED
          BY <3>4, <4>1, <4>2
      <3> QED
        BY <3>1, <3>5
    <2>4. UNCHANGED <<export, next, chunk, loaded, covered, channel, body, ending>>
      BY DEF ReadMetas, client
    <2>5. TypeOK'
      BY <1>2, <2>1, <2>3, <2>4 DEF InductiveInvariant, TypeOK
    <2>6. WindowEnd' = WindowEnd
      BY <1>2, <2>4 DEF WindowEnd
    <2>7. WindowConsistent'
      BY <1>2, <2>2, <2>3, <2>4, <2>6 DEF InductiveInvariant, WindowConsistent, UsesStore
    <2> QED
      BY <1>2, <2>1, <2>2, <2>4, <2>5, <2>7, ReadKeeps DEF client
  <1> QED
    BY <1>1, <1>2 DEF ReadMetas

\* What is assembled from the two answers is whole, although the tables may have
\* changed between them.
LEMMA ReadQuotesKeeps ==
    ASSUME InductiveInvariant, ReadQuotes
    PROVE  InductiveInvariant'
  <1>1. CASE (Refused \/ Degrade) /\ UNCHANGED <<loaded, covered>>
    BY <1>1, FailedRead DEF ReadQuotes
  <1>2. CASE /\ loaded' = Assemble(metas, QuotesIn(next, WindowEnd))
             /\ covered' = WindowEnd + 1
             /\ metas' = {}
             /\ phase' = "row"
             /\ UNCHANGED <<window, degraded, failures>>
    <2>1. TapeTypeOK' /\ BatchesLanded'
      BY TablesStay DEF ReadQuotes, InductiveInvariant
    <2>2. phase = "quotes" /\ export \in Exports /\ next <= export.to
      BY DEF ReadQuotes, InductiveInvariant, WindowConsistent
    <2>3. /\ WindowEnd \in Steps /\ next <= WindowEnd /\ WindowEnd < next + window
          /\ next \in Nat /\ window \in Nat
      BY <2>2, WindowEndType, ExportAssumption DEF InductiveInvariant, TypeOK
    <2>4. UNCHANGED <<export, next, chunk, channel, body, ending>>
      BY DEF ReadQuotes, client
    <2>5. QuotesIn(next, WindowEnd) \in SUBSET UNION {Rows(t) : t \in Steps}
      BY DEF QuotesIn, InductiveInvariant, TypeOK, TapeTypeOK
    <2>6. metas \subseteq Steps /\ metas \subseteq next .. WindowEnd
      BY <2>2 DEF InductiveInvariant, TypeOK, WindowConsistent
    <2>7. ASSUME NEW r \in loaded'
          PROVE  /\ r \in [step : Steps, rows : SUBSET (Steps \X Nat)]
                 /\ r.rows = Rows(r.step) /\ r.step \in metas
      <3>1. PICK s \in metas : /\ r = [step |-> s, rows |-> RowsOf(s, QuotesIn(next, WindowEnd))]
                               /\ Cardinality(RowsOf(s, QuotesIn(next, WindowEnd))) = Count[s]
        BY <1>2 DEF Assemble
      <3>2. r.rows = Rows(s) /\ r.step = s /\ s \in Steps
        BY <2>5, <2>6, <3>1, RowsComplete
      <3>3. Rows(s) \in SUBSET (Steps \X Nat)
        BY <3>2, TapeAssumption DEF Rows, Steps
      <3> QED
        BY <3>1, <3>2, <3>3
    <2>8. covered' \in 0 .. Horizon
      BY <1>2, <2>3, TapeAssumption DEF Steps
    <2>9. TypeOK'
      BY <1>2, <2>1, <2>4, <2>7, <2>8 DEF InductiveInvariant, TypeOK
    <2>10. WindowConsistent'
      <3>1. ASSUME NEW r \in loaded'
            PROVE  /\ r.rows = Rows(r.step)
                   /\ next' <= r.step /\ r.step < covered' /\ covered' <= r.step + window'
        <4>1. r.step \in next .. WindowEnd /\ r.rows = Rows(r.step)
          BY <2>6, <2>7
        <4>2. WindowEnd \in Int
          BY <2>3 DEF Steps
        <4> QED
          BY <1>2, <2>3, <2>4, <4>1, <4>2
      <3> QED
        BY <1>2, <3>1 DEF WindowConsistent
    <2> QED
      BY <1>2, <2>1, <2>2, <2>4, <2>9, <2>10, ReadKeeps DEF client
  <1> QED
    BY <1>1, <1>2 DEF ReadQuotes

\* Whichever source the rows of the next step come from, they are its replay.
LEMMA NextRowsReplayed ==
    ASSUME InductiveInvariant
    PROVE  NextRows = Replay(export.dataset, next)
  <1> DEFINE hit == {r \in loaded : r.step = next}
  <1>1. CASE UsesStore /\ hit # {}
    <2>1. (CHOOSE r \in hit : TRUE) \in hit
      BY <1>1
    <2>2. (CHOOSE r \in hit : TRUE).rows = Rows(next)
      BY <2>1 DEF InductiveInvariant, WindowConsistent
    <2> QED
      BY <1>1, <2>2 DEF NextRows, UsesStore, Replay
  <1>2. CASE ~(UsesStore /\ hit # {})
    BY <1>2 DEF NextRows
  <1> QED
    BY <1>1, <1>2

\* Where the producer stands once something has been sent.
LEMMA TipType ==
    ASSUME TypeOK, export \in Exports, Sent # <<>>
    PROVE  After1(Tip) \in Nat /\ export.to \in Nat /\ next \in Nat
  <1>1. export.from \in Nat /\ export.to \in Nat
    BY TapeAssumption DEF Exports, Steps
  <1>2. Tip \in Chunks
    BY SentType
  <1>3. Tip.step \in Nat
    BY <1>2 DEF Chunks
  <1> QED
    BY <1>1, <1>3 DEF After1, TypeOK

\* The chunk of the next step goes on from what has been sent; a step without rows
\* is passed over.
LEMMA RowKeeps ==
    ASSUME InductiveInvariant, Row
    PROVE  InductiveInvariant'
  <1>1. /\ TypeOK /\ export \in Exports /\ phase = "row" /\ next <= export.to
        /\ next' = next + 1 /\ loaded' = {r \in loaded : r.step > next}
    BY DEF Row, InductiveInvariant
  <1>2. /\ UNCHANGED <<export, covered, window, degraded, metas, failures>>
        /\ channel' = channel /\ body' = body /\ ending' = ending
    BY DEF Row, client
  <1>3. TapeTypeOK' /\ BatchesLanded'
    BY TablesStay DEF Row, InductiveInvariant
  <1>4. next \in Steps /\ next \in Nat
    BY <1>1, WindowEndType DEF TypeOK
  <1> DEFINE R == Replay(export.dataset, next)
             c == [kind |-> "rows", step |-> next, rows |-> R]
  <1>5. \/ R # {} /\ phase' = "send" /\ chunk' = c
        \/ R = {} /\ phase' = "row" /\ chunk' = chunk
        \/ phase' = "send" /\ chunk' = Bare("error")
    BY <1>1, NextRowsReplayed DEF Row, Offer
  <1>6. c \in Chunks /\ Bare("error") \in Chunks
    BY <1>4, ReplayType DEF Chunks, Bare
  <1>7. TypeOK'
    <2>1. chunk' \in Chunks /\ phase' \in {"row", "send"} /\ next' \in Nat
      BY <1>1, <1>4, <1>5, <1>6 DEF TypeOK
    <2>2. loaded' \in SUBSET [step : Steps, rows : SUBSET (Steps \X Nat)]
      BY <1>1 DEF TypeOK
    <2> QED
      BY <1>1, <1>2, <1>3, <2>1, <2>2 DEF TypeOK
  <1>8. WindowConsistent'
    <2>1. ASSUME NEW r \in loaded'
          PROVE  /\ r.rows = Rows(r.step)
                 /\ next' <= r.step /\ r.step < covered' /\ covered' <= r.step + window'
      <3>1. r \in loaded /\ r.step > next
        BY <1>1
      <3>2. r.step \in Nat
        BY <1>1, <3>1, TapeAssumption DEF TypeOK, Steps
      <3>3. next' <= r.step
        BY <1>1, <1>4, <3>1, <3>2
      <3> QED
        BY <1>2, <3>1, <3>3 DEF InductiveInvariant, WindowConsistent
    <2>2. phase' \in {"row", "send"}
      BY <1>5
    <2> QED
      BY <2>1, <2>2 DEF WindowConsistent
  <1>9. Sent' = Sent /\ Tip' = Tip
    BY <1>2 DEF Sent, Tip
  <1>10. ending = "open" => HandConsistent' /\ ChunksConsistent'
    <2> SUFFICES ASSUME ending = "open" PROVE HandConsistent' /\ ChunksConsistent'
      OBVIOUS
    <2>1. /\ Sent # <<>> /\ Tip.kind \in {"prologue", "rows"}
          /\ After1(Tip) <= next /\ Replayed!Blank(After1(Tip), next)
      BY <1>1 DEF InductiveInvariant, HandConsistent
    <2>2. After1(Tip) \in Nat /\ export.to \in Nat
      BY <1>1, <2>1, TipType
    <2>3. After1(Tip') = After1(Tip) /\ (After1(Tip))' = After1(Tip)
      BY <1>2, <1>9 DEF After1
    <2>4. HandConsistent'
      <3>1. CASE R # {} /\ phase' = "send" /\ chunk' = c
        <4>1. next \in After1(Tip) .. export.to
          BY <1>1, <1>4, <2>1, <2>2
        <4>2. chunk'.kind = "rows" /\ chunk'.step = next /\ chunk'.rows = R
          BY <3>1
        <4>3. Follows(Tip, chunk')
          BY <2>1, <3>1, <4>1, <4>2 DEF Follows
        <4>4. Follows(Tip, chunk)'
          BY <1>2, <1>9, <4>3 DEF Follows, After1, Replayed!Blank
        <4> QED
          BY <1>1, <1>9, <2>1, <3>1, <4>2, <4>4 DEF HandConsistent
      <3>2. CASE R = {} /\ phase' = "row" /\ chunk' = chunk
        <4>1. Replayed!Blank(After1(Tip), next + 1)
          <5>1. ASSUME NEW s \in After1(Tip) .. (next + 1) - 1
                PROVE  Replay(export.dataset, s) = {}
            <6>1. s = next \/ s \in After1(Tip) .. next - 1
              BY <1>4, <2>2
            <6> QED
              BY <2>1, <3>2, <6>1 DEF Replayed!Blank
          <5> QED
            BY <5>1 DEF Replayed!Blank
        <4>2. After1(Tip) <= next + 1
          BY <1>4, <2>1, <2>2
        <4> QED
          BY <1>1, <1>2, <1>9, <2>1, <2>3, <3>2, <4>1, <4>2 DEF HandConsistent, Replayed!Blank
      <3>3. CASE phase' = "send" /\ chunk' = Bare("error")
        <4>1. chunk'.kind = "error"
          BY <3>3 DEF Bare
        <4>2. Follows(Tip, chunk)'
          BY <1>9, <2>1, <4>1 DEF Follows
        <4> QED
          BY <1>9, <2>1, <3>3, <4>1, <4>2 DEF HandConsistent
      <3> QED
        BY <1>5, <3>1, <3>2, <3>3
    <2>5. phase' # "build"
      BY <1>5
    <2>6. ChunksConsistent'
      BY <1>2, <2>5, ChunksStay DEF InductiveInvariant
    <2> QED
      BY <2>4, <2>6
  <1>11. phase' # "idle" /\ ending # "none"
    BY <1>1, <1>5 DEF InductiveInvariant
  <1> QED
    BY <1>1, <1>2, <1>3, <1>7, <1>8, <1>10, <1>11 DEF InductiveInvariant

\* The end of the range: no step is left out.
LEMMA RangeEndsKeeps ==
    ASSUME InductiveInvariant, RangeEnds
    PROVE  InductiveInvariant'
  <1>1. /\ TypeOK /\ export \in Exports /\ phase = "row" /\ next > export.to /\ ending # "none"
    BY DEF RangeEnds, InductiveInvariant
  <1>2. /\ UNCHANGED <<export, next, loaded, covered, window, degraded, metas, failures>>
        /\ channel' = channel /\ body' = body /\ ending' = ending
    BY DEF RangeEnds, stored, client
  <1>3. TapeTypeOK' /\ BatchesLanded'
    BY TablesStay DEF RangeEnds, InductiveInvariant
  <1>4. \/ export.format = "json" /\ phase' = "send" /\ chunk' = Bare("epilogue")
        \/ export.format = "csv" /\ phase' = "ended" /\ chunk' = chunk
    BY DEF RangeEnds, Offer
  <1>5. Bare("epilogue") \in Chunks /\ Bare("epilogue").kind = "epilogue"
    BY DEF Chunks, Bare
  <1>6. TypeOK'
    BY <1>1, <1>2, <1>3, <1>4, <1>5 DEF TypeOK
  <1>7. WindowConsistent'
    BY <1>2, <1>4 DEF InductiveInvariant, WindowConsistent
  <1>8. Sent' = Sent /\ Tip' = Tip
    BY <1>2 DEF Sent, Tip
  <1>9. ending = "open" => HandConsistent' /\ ChunksConsistent'
    <2> SUFFICES ASSUME ending = "open" PROVE HandConsistent' /\ ChunksConsistent'
      OBVIOUS
    <2>1. /\ Sent # <<>> /\ Tip.kind \in {"prologue", "rows"}
          /\ Replayed!Blank(After1(Tip), next)
      BY <1>1 DEF InductiveInvariant, HandConsistent
    <2>2. After1(Tip) \in Nat /\ export.to \in Nat /\ next \in Nat
      BY <1>1, <2>1, TipType
    <2>3. (After1(Tip))' = After1(Tip)
      BY <1>2, <1>8 DEF After1
    <2>4. Replayed!Blank(After1(Tip), export.to + 1)
      <3>1. After1(Tip) .. (export.to + 1) - 1 \subseteq After1(Tip) .. next - 1
        BY <1>1, <2>2
      <3> QED
        BY <2>1, <3>1 DEF Replayed!Blank
    <2>5. HandConsistent'
      <3>1. CASE export.format = "json" /\ phase' = "send" /\ chunk' = Bare("epilogue")
        <4>1. Follows(Tip, chunk')
          BY <2>1, <2>4, <3>1 DEF Follows
        <4>2. Follows(Tip, chunk)'
          BY <1>2, <1>8, <4>1 DEF Follows, After1, Replayed!Blank
        <4> QED
          BY <1>5, <1>8, <2>1, <3>1, <4>2 DEF HandConsistent
      <3>2. CASE export.format = "csv" /\ phase' = "ended" /\ chunk' = chunk
        <4>1. Replayed!Blank(After1(Tip), export.to + 1)'
          BY <1>2, <2>3, <2>4 DEF Replayed!Blank
        <4> QED
          BY <1>2, <1>8, <2>1, <3>2, <4>1 DEF HandConsistent
      <3> QED
        BY <1>4, <3>1, <3>2
    <2>6. phase' # "build"
      BY <1>4
    <2>7. ChunksConsistent'
      BY <1>2, <2>6, ChunksStay DEF InductiveInvariant
    <2> QED
      BY <2>5, <2>7
  <1>10. phase' # "idle"
    BY <1>4
  <1> QED
    BY <1>1, <1>2, <1>3, <1>6, <1>7, <1>9, <1>10 DEF InductiveInvariant

\* A chunk that is sent goes on from the last one.
LEMMA SendKeeps ==
    ASSUME InductiveInvariant, Send
    PROVE  InductiveInvariant'
  <1>1. TypeOK /\ export \in Exports /\ phase = "send" /\ ending # "none"
    BY DEF Send, InductiveInvariant
  <1>2. /\ UNCHANGED <<export, next, loaded, covered, window, degraded, metas, failures, body>>
        /\ ending' = ending /\ chunk' = Bare("none")
    BY DEF Send, stored
  <1>3. TapeTypeOK' /\ BatchesLanded'
    BY TablesStay DEF Send, InductiveInvariant
  <1>4. Bare("none") \in Chunks /\ chunk \in Chunks
    BY <1>1 DEF Chunks, Bare, TypeOK
  <1>5. CASE ending # "open"
    <2>1. phase' = "ended" /\ channel' = channel
      BY <1>5 DEF Send
    <2>2. TypeOK'
      BY <1>1, <1>2, <1>3, <1>4, <2>1 DEF TypeOK
    <2>3. WindowConsistent'
      BY <1>2, <2>1 DEF InductiveInvariant, WindowConsistent
    <2> QED
      BY <1>1, <1>2, <1>3, <1>5, <2>1, <2>2, <2>3 DEF InductiveInvariant
  <1>6. CASE ending = "open"
    <2>1. /\ phase' = After(chunk) /\ channel' = Append(channel, chunk)
          /\ Len(channel) < Capacity
      BY <1>6 DEF Send
    <2>2. /\ phase' \in {"row", "ended"}
          /\ phase' = "row" <=> chunk.kind \in {"prologue", "rows"}
      BY <2>1 DEF After
    <2>3. channel' \in Seq(Chunks) /\ Len(channel') <= Capacity
      <3>1. channel \in Seq(Chunks) /\ Capacity \in Nat
        BY <1>1, ExportAssumption DEF TypeOK
      <3>2. channel' \in Seq(Chunks) /\ Len(channel') = Len(channel) + 1 /\ Len(channel) \in Nat
        BY <1>4, <2>1, <3>1
      <3> QED
        BY <2>1, <3>1, <3>2
    <2>4. TypeOK'
      BY <1>1, <1>2, <1>3, <1>4, <2>2, <2>3 DEF TypeOK
    <2>5. WindowConsistent'
      BY <1>2, <2>2 DEF InductiveInvariant, WindowConsistent
    <2>6. /\ Len(Sent') = Len(Sent) + 1
          /\ Sent'[Len(Sent) + 1] = chunk
          /\ \A i \in 1 .. Len(Sent) : Sent'[i] = Sent[i]
          /\ Sent' # <<>> /\ Tip' = chunk
      BY <1>1, <1>2, <1>4, <2>1, SentAppended
    <2>7. /\ Len(Sent) \in Nat
          /\ Sent # <<>> => Len(Sent) >= 1
          /\ Sent = <<>> => Len(Sent) = 0
      BY <1>1, SentType
    <2>8. IF Sent = <<>> THEN Starts(chunk) ELSE Follows(Tip, chunk)
      BY <1>1, <1>6 DEF InductiveInvariant, HandConsistent
    <2>9. /\ chunk.kind = "prologue" => next = export.from
          /\ chunk.kind = "rows" => next = chunk.step + 1
      BY <1>1, <1>6 DEF InductiveInvariant, HandConsistent
    <2>10. HandConsistent'
      <3>1. CASE chunk.kind \in {"prologue", "rows"}
        <4>1. After1(chunk) = next /\ next \in Nat
          BY <1>1, <2>9, <3>1 DEF After1, TypeOK
        <4>2. Replayed!Blank(next, next)
          BY <4>1 DEF Replayed!Blank
        <4>3. After1(Tip)' = next'
          BY <1>2, <2>6, <4>1 DEF After1
        <4>4. next' <= next' /\ Replayed!Blank(next, next)'
          BY <1>2, <4>1, <4>2 DEF Replayed!Blank
        <4> QED
          BY <2>2, <2>6, <3>1, <4>3, <4>4 DEF HandConsistent
      <3>2. CASE chunk.kind \notin {"prologue", "rows"}
        <4>1. chunk.kind = "error" \/ (chunk = Bare("epilogue") /\ export.format = "json")
          BY <2>8, <3>2 DEF Starts, Follows, Bare
        <4> QED
          BY <1>2, <2>2, <2>6, <3>2, <4>1 DEF HandConsistent
      <3> QED
        BY <3>1, <3>2
    <2>11. ChunksConsistent'
      <3>1. Starts(Sent'[1])
        <4>1. CASE Sent = <<>>
          BY <2>6, <2>7, <2>8, <4>1
        <4>2. CASE Sent # <<>>
          <5>1. 1 \in 1 .. Len(Sent)
            BY <2>7, <4>2
          <5> QED
            BY <1>6, <2>6, <4>2, <5>1 DEF InductiveInvariant, ChunksConsistent
        <4> QED
          BY <4>1, <4>2
      <3>2. ASSUME NEW i \in 1 .. Len(Sent') - 1
            PROVE  Follows(Sent'[i], Sent'[i + 1])
        <4>1. i \in 1 .. Len(Sent)
          BY <2>6, <2>7
        <4>2. CASE i = Len(Sent)
          <5>1. Sent # <<>>
            BY <2>7, <4>1, <4>2
          <5>2. Follows(Tip, chunk) /\ Tip = Sent[i]
            BY <2>8, <4>2, <5>1 DEF Tip
          <5> QED
            BY <2>6, <4>1, <4>2, <5>2
        <4>3. CASE i # Len(Sent)
          <5>1. i \in 1 .. Len(Sent) - 1 /\ i + 1 \in 1 .. Len(Sent)
            BY <2>7, <4>1, <4>3
          <5>2. Follows(Sent[i], Sent[i + 1])
            BY <1>6, <5>1 DEF InductiveInvariant, ChunksConsistent
          <5> QED
            BY <2>6, <4>1, <5>1, <5>2
        <4> QED
          BY <4>2, <4>3
      <3>3. \A i \in 1 .. Len(Sent') - 1 : (Follows(Sent[i], Sent[i + 1]))'
        BY <1>2, <3>2 DEF Follows, After1, Replayed!Blank
      <3>4. phase' # "build"
        BY <2>2
      <3>5. \A i \in 1 .. Len(body') : body'[i].kind # "error"
        BY <1>2, <1>6 DEF InductiveInvariant, ChunksConsistent
      <3> QED
        BY <3>1, <3>3, <3>4, <3>5 DEF ChunksConsistent, Starts
    <2>12. phase' # "idle"
      BY <2>2
    <2> QED
      BY <1>1, <1>2, <1>3, <2>4, <2>5, <2>10, <2>11, <2>12 DEF InductiveInvariant
  <1> QED
    BY <1>5, <1>6

\* What the client receives was sent in that order.
LEMMA ReceiveKeeps ==
    ASSUME InductiveInvariant, Receive
    PROVE  InductiveInvariant'
  <1>1. TypeOK /\ export \in Exports /\ phase # "idle" /\ ending = "open" /\ channel # <<>>
    BY DEF Receive, InductiveInvariant
  <1>2. UNCHANGED <<tables, export, phase, next, chunk, loaded, covered, window, degraded,
                    metas, failures>>
    BY DEF Receive, producer, stored
  <1>3. TapeTypeOK' /\ BatchesLanded'
    BY <1>2, TablesStay DEF InductiveInvariant
  <1>4. WindowConsistent'
    <2>1. WindowEnd' = WindowEnd
      BY <1>2 DEF WindowEnd
    <2> QED
      BY <1>2, <2>1 DEF InductiveInvariant, WindowConsistent, UsesStore
  <1>5. /\ body \in Seq(Chunks) /\ channel \in Seq(Chunks) /\ Capacity \in Nat
        /\ Len(channel) <= Capacity
    BY <1>1, ExportAssumption DEF TypeOK
  <1>6. /\ Head(channel) \in Chunks /\ Tail(channel) \in Seq(Chunks)
        /\ Len(Tail(channel)) = Len(channel) - 1 /\ Len(channel) \in Nat
    BY <1>1, <1>5
  <1>7. CASE /\ Head(channel).kind # "error"
             /\ body' = Append(body, Head(channel))
             /\ channel' = Tail(channel)
             /\ ending' = ending
    <2>1. /\ channel' \in Seq(Chunks) /\ Len(channel') <= Capacity
          /\ body' \in Seq(Chunks) /\ Len(body) \in Nat /\ Len(body') = Len(body) + 1
          /\ body'[Len(body) + 1] = Head(channel)
          /\ \A i \in 1 .. Len(body) : body'[i] = body[i]
      BY <1>5, <1>6, <1>7
    <2>2. TypeOK'
      BY <1>1, <1>2, <1>3, <1>7, <2>1 DEF TypeOK
    <2>3. Sent' = Sent
      BY <1>1, <1>7, SentReceived
    <2>4. Tip' = Tip
      BY <2>3 DEF Tip
    <2>5. HandConsistent'
      BY <1>1, <1>2, <2>3, <2>4
      DEF InductiveInvariant, HandConsistent, Follows, After1, Replayed!Blank
    <2>6. ChunksConsistent'
      <3>1. ASSUME NEW i \in 1 .. Len(body') PROVE body'[i].kind # "error"
        <4>1. i \in 1 .. Len(body) \/ i = Len(body) + 1
          BY <2>1
        <4>2. \A j \in 1 .. Len(body) : body[j].kind # "error"
          BY <1>1 DEF InductiveInvariant, ChunksConsistent
        <4> QED
          BY <1>7, <2>1, <4>1, <4>2
      <3> QED
        BY <1>1, <1>2, <2>3, <3>1
        DEF InductiveInvariant, ChunksConsistent, Starts, Follows, After1, Replayed!Blank
    <2> QED
      BY <1>1, <1>2, <1>3, <1>4, <1>7, <2>2, <2>5, <2>6 DEF InductiveInvariant
  <1>8. CASE ending' = "broken" /\ channel' = <<>> /\ body' = body
    <2>1. channel' \in Seq(Chunks) /\ Len(channel') <= Capacity
      BY <1>5, <1>8
    <2>2. TypeOK'
      BY <1>1, <1>2, <1>3, <1>8, <2>1 DEF TypeOK
    <2> QED
      BY <1>1, <1>2, <1>3, <1>4, <1>8, <2>2 DEF InductiveInvariant
  <1> QED
    BY <1>7, <1>8 DEF Receive

\* A body that ends, or that the client drops, is not open any more.
LEMMA ClosingKeeps ==
    ASSUME InductiveInvariant, ending = "open", ending' \in {"whole", "gone"},
           channel' = <<>>, body' = body, UNCHANGED <<tables, export, producer, stored>>
    PROVE  InductiveInvariant'
  <1>1. TypeOK /\ export \in Exports /\ phase # "idle"
    BY DEF InductiveInvariant
  <1>2. UNCHANGED <<tables, export, phase, next, chunk, loaded, covered, window, degraded,
                    metas, failures>>
    BY DEF producer, stored
  <1>3. TapeTypeOK' /\ BatchesLanded'
    BY <1>2, TablesStay DEF InductiveInvariant
  <1>4. WindowConsistent'
    <2>1. WindowEnd' = WindowEnd
      BY <1>2 DEF WindowEnd
    <2> QED
      BY <1>2, <2>1 DEF InductiveInvariant, WindowConsistent, UsesStore
  <1>5. channel' \in Seq(Chunks) /\ Len(channel') <= Capacity
    BY ExportAssumption
  <1>6. TypeOK'
    BY <1>1, <1>2, <1>3, <1>5 DEF TypeOK
  <1> QED
    BY <1>1, <1>2, <1>3, <1>4, <1>6 DEF InductiveInvariant

\* Nothing is left of an export that is over.
LEMMA ForgetKeeps ==
    ASSUME InductiveInvariant, Forget
    PROVE  InductiveInvariant'
  <1>1. Horizon \in Nat \ {0} /\ Window \in Nat \ {0} /\ Capacity \in Nat \ {0}
    BY TapeAssumption, ExportAssumption
  <1>2. TapeTypeOK' /\ BatchesLanded'
    BY TablesStay DEF Forget, InductiveInvariant
  <1>3. /\ covered' \in 0 .. Horizon /\ window' \in 1 .. Window /\ failures' \in Nat
        /\ loaded' = {} /\ degraded' = FALSE /\ metas' = {}
    BY <1>1 DEF Forget, Fresh
  <1>4. channel' \in Seq(Chunks) /\ Len(channel') <= Capacity /\ body' \in Seq(Chunks)
    BY <1>1 DEF Forget
  <1>5. chunk' \in Chunks
    BY DEF Forget, Bare, Chunks
  <1>6. phase' = "idle" /\ ending' = "none" /\ next' = 0 /\ export' = NoExport
    BY DEF Forget
  <1>7. TypeOK'
    BY <1>2, <1>3, <1>4, <1>5, <1>6 DEF TypeOK
  <1>8. WindowConsistent'
    BY <1>3, <1>6 DEF WindowConsistent
  <1> QED
    BY <1>2, <1>6, <1>7, <1>8 DEF InductiveInvariant

\* What happens in the warehouse concerns no window that has been read.
LEMMA WarehouseKeeps ==
    ASSUME InductiveInvariant, Warehouse
    PROVE  InductiveInvariant'
  <1>1. UNCHANGED <<export, phase, next, chunk, loaded, covered, window, degraded,
                    metas, failures, channel, body, ending>>
    BY DEF Warehouse, producer, stored, client
  <1>2. TapeTypeOK' /\ BatchesLanded'
    BY TablesKeep DEF Warehouse, InductiveInvariant
  <1>3. TypeOK'
    BY <1>1, <1>2 DEF InductiveInvariant, TypeOK
  <1>4. WindowConsistent'
    <2>1. WindowEnd' = WindowEnd
      BY <1>1 DEF WindowEnd
    <2> QED
      BY <1>1, <2>1 DEF InductiveInvariant, WindowConsistent, UsesStore
  <1>5. Sent' = Sent /\ Tip' = Tip
    BY <1>1 DEF Sent, Tip
  <1>6. ending = "open" => HandConsistent' /\ ChunksConsistent'
    BY <1>1, <1>5
    DEF InductiveInvariant, HandConsistent, ChunksConsistent, Starts, Follows, After1,
        Replayed!Blank
  <1> QED
    BY <1>1, <1>2, <1>3, <1>4, <1>6 DEF InductiveInvariant

\* Every step preserves the inductive invariant.
LEMMA Preserved == InductiveInvariant /\ [Next]_vars => InductiveInvariant'
  <1> SUFFICES ASSUME InductiveInvariant, [Next]_vars PROVE InductiveInvariant'
    OBVIOUS
  <1>1. CASE \E q \in Queries : Begin(q)
    BY <1>1, BeginKeeps
  <1>2. CASE Producer
    BY <1>2, BuildKeeps, LoadKeeps, ReadMetasKeeps, ReadQuotesKeeps, RowKeeps, RangeEndsKeeps,
       SendKeeps DEF Producer
  <1>3. CASE Receive
    BY <1>3, ReceiveKeeps
  <1>4. CASE StreamEnds \/ Disconnect
    BY <1>4, ClosingKeeps DEF StreamEnds, Disconnect
  <1>5. CASE Forget
    BY <1>5, ForgetKeeps
  <1>6. CASE Warehouse
    BY <1>6, WarehouseKeeps
  <1>7. CASE UNCHANGED vars
    <2>1. UNCHANGED <<tables, export, phase, next, chunk, loaded, covered, window, degraded,
                      metas, failures, channel, body, ending>>
      BY <1>7 DEF vars, producer, stored, client
    <2>2. TapeTypeOK' /\ BatchesLanded'
      BY <2>1, TablesStay DEF InductiveInvariant
    <2>3. TypeOK'
      BY <2>1, <2>2 DEF InductiveInvariant, TypeOK
    <2>4. WindowEnd' = WindowEnd
      BY <2>1 DEF WindowEnd
    <2>5. WindowConsistent'
      BY <2>1, <2>4 DEF InductiveInvariant, WindowConsistent, UsesStore
    <2>6. Sent' = Sent /\ Tip' = Tip
      BY <2>1 DEF Sent, Tip
    <2>7. ending = "open" => HandConsistent' /\ ChunksConsistent'
      BY <2>1, <2>6
      DEF InductiveInvariant, HandConsistent, ChunksConsistent, Starts, Follows, After1,
          Replayed!Blank
    <2> QED
      BY <2>1, <2>2, <2>3, <2>5, <2>7 DEF InductiveInvariant
  <1> QED
    BY <1>1, <1>2, <1>3, <1>4, <1>5, <1>6, <1>7 DEF Next

-----------------------------------------------------------------------------
(* The failures of the warehouse                                           *)

\* Each failed read halves the window or ends the use of the warehouse.
FailuresCounted ==
    IF degraded THEN FailuresAreBounded ELSE (2 ^ failures) * window <= Window

\* What a failed read may make of them.
LEMMA FailureCounts ==
    ASSUME InductiveInvariant, FailuresCounted, ~degraded,
           Refused \/ Degrade
    PROVE  FailuresCounted'
  <1> DEFINE power == 2 ^ failures
             half == window \div 2
  <1>1. /\ failures \in Nat /\ window \in 1 .. Window /\ failures' = failures + 1
        /\ Window \in Nat \ {0}
    BY ExportAssumption DEF Refused, Degrade, InductiveInvariant, TypeOK
  <1>2. power \in Nat /\ 2 ^ failures' = 2 * power
    BY <1>1, PowerOfTwo
  <1>3. power * window <= Window
    BY DEF FailuresCounted
  <1> HIDE DEF power
  <1>4. CASE degraded'
    <2>1. power * 1 <= power * window
      BY <1>1, <1>2, ProductsGrow
    <2>2. power <= power * window
      BY <1>1, <1>2, <2>1
    <2>3. power * window \in Nat
      BY <1>1, <1>2, ProductIsNatural
    <2>4. 2 ^ failures' <= 2 * Window
      BY <1>1, <1>2, <1>3, <2>2, <2>3
    <2> QED
      BY <1>4, <2>4 DEF FailuresCounted, FailuresAreBounded
  <1>5. CASE ~degraded'
    <2>1. window > 1 /\ window' = half
      BY <1>5 DEF Refused, Degrade
    <2>2. half \in Nat /\ 2 * half <= window
      BY <1>1
    <2>3. power * (2 * half) <= power * window
      BY <1>1, <1>2, <2>2, ProductsGrow
    <2>4. (2 * power) * half = power * (2 * half)
      BY <1>2, <2>2
    <2>5. power * (2 * half) \in Nat /\ power * window \in Nat
      BY <1>1, <1>2, <2>2, ProductIsNatural
    <2>6. (2 * power) * half <= Window
      BY <1>1, <1>3, <2>3, <2>4, <2>5
    <2>7. (2 ^ failures') * window' <= Window
      BY <1>2, <2>1, <2>6
    <2> QED
      BY <1>5, <2>7 DEF FailuresCounted
  <1> QED
    BY <1>4, <1>5

LEMMA FreshCounts ==
    ASSUME Fresh
    PROVE  FailuresCounted'
  <1>1. 2 ^ failures' = 1 /\ window' = Window /\ ~degraded' /\ Window \in Nat
    BY PowerOfTwo, ExportAssumption DEF Fresh
  <1> QED
    BY <1>1 DEF FailuresCounted

LEMMA FailuresPreserved ==
    InductiveInvariant /\ FailuresCounted /\ [Next]_vars => FailuresCounted'
  <1> SUFFICES ASSUME InductiveInvariant, FailuresCounted, [Next]_vars
               PROVE  FailuresCounted'
    OBVIOUS
  <1>1. CASE UNCHANGED <<window, degraded, failures>>
    BY <1>1 DEF FailuresCounted, FailuresAreBounded
  <1>2. CASE Fresh
    BY <1>2, FreshCounts
  <1>3. CASE ReadMetas \/ ReadQuotes
    <2>1. phase \in {"metas", "quotes"}
      BY <1>3 DEF ReadMetas, ReadQuotes
    <2>2. ~degraded
      BY <2>1 DEF InductiveInvariant, WindowConsistent, UsesStore
    <2>3. Refused \/ Degrade \/ UNCHANGED <<window, degraded, failures>>
      BY <1>3 DEF ReadMetas, ReadQuotes
    <2> QED
      BY <1>1, <2>2, <2>3, FailureCounts
  <1> QED
    BY <1>1, <1>2, <1>3
    DEF Next, Begin, Producer, Build, Load, Row, RangeEnds, Send, Receive, StreamEnds,
        Disconnect, Forget, Warehouse, stored, vars

-----------------------------------------------------------------------------
(***************************************************************************)
(* The theorems.                                                           *)
(***************************************************************************)
\* The invariant holds in every reachable state.
THEOREM Invariance == Spec => []InductiveInvariant
  <1> QED
    BY Initially, Preserved, PTL DEF Spec

\* Whatever the writers and the retention do while a window is read in two queries,
\* it holds whole snapshots, of steps still to come, and no more than it may.
THEOREM WindowsHoldWholeSteps == Spec => []WindowHoldsWholeSteps
  <1>1. InductiveInvariant => WindowHoldsWholeSteps
    BY WindowBounded DEF InductiveInvariant, WindowConsistent, WindowHoldsWholeSteps
  <1> QED
    BY <1>1, Invariance, PTL

\* A warehouse that refuses or fails is asked no more often than halving the
\* window to one step and giving up takes, whatever width the export started with.
THEOREM FailuresBounded == Spec => []FailuresAreBounded
  <1>1. Init => FailuresCounted
    <2>1. 2 ^ 0 = 1 /\ Window \in Nat
      BY PowerOfTwo, ExportAssumption
    <2> QED
      BY <2>1 DEF Init, FailuresCounted
  <1>2. InductiveInvariant /\ FailuresCounted => FailuresAreBounded
    <2> SUFFICES ASSUME InductiveInvariant, FailuresCounted, ~degraded
                 PROVE  FailuresAreBounded
      BY DEF FailuresCounted
    <2> DEFINE power == 2 ^ failures
    <2>1. failures \in Nat /\ window \in Nat /\ 1 <= window /\ Window \in Nat
      BY ExportAssumption DEF InductiveInvariant, TypeOK
    <2>2. power \in Nat /\ power * window <= Window
      BY <2>1, PowerOfTwo DEF FailuresCounted
    <2> HIDE DEF power
    <2>3. power * 1 <= power * window /\ power * window \in Nat
      BY <2>1, <2>2, ProductsGrow, ProductIsNatural
    <2>4. power <= 2 * Window
      BY <2>1, <2>2, <2>3
    <2> QED
      BY <2>4 DEF FailuresAreBounded, power
  <1> QED
    BY <1>1, <1>2, FailuresPreserved, Invariance, PTL DEF Spec

\* A completion marker appears only when all the rows of its step are in the table.
THEOREM MarkersFollowRows == Spec => MarkerFollowsRows
  <1>1. InductiveInvariant /\ [Next]_vars
        => [\A s \in markers' \ markers : Rows(s) \subseteq quotes']_vars
    <2> SUFFICES ASSUME InductiveInvariant, Next, NEW s \in markers' \ markers
                 PROVE  Rows(s) \subseteq quotes'
      OBVIOUS
    <2>1. CASE Warehouse
      <3>1. CASE \E w \in Writers : WriteMarker(w)
        <4>1. PICK w \in Writers : WriteMarker(w)
          BY <3>1
        <4>2. s = job[w] /\ s # NoStep /\ quotes' = quotes
          <5>1. job[w] # NoStep /\ markers' \in {markers, markers \cup {job[w]}}
            BY <4>1 DEF WriteMarker
          <5>2. quotes' = quotes
            BY <4>1 DEF WriteMarker
          <5> QED
            BY <5>1, <5>2
        <4> QED
          BY <4>1, <4>2 DEF InductiveInvariant, BatchesLanded, WriteMarker
      <3>2. CASE (\E w \in Writers : WriteQuotes(w) \/ \E t \in Steps : Take(w, t)) \/ Retire
        BY <3>2 DEF WriteQuotes, Take, Retire
      <3> QED
        BY <2>1, <3>1, <3>2 DEF Warehouse, TapeNext
    <2>2. CASE ~Warehouse
      <3>1. markers' = markers
        BY <2>2 DEF Next, Begin, Producer, Build, Load, ReadMetas, ReadQuotes, Row, RangeEnds,
                    Send, Receive, StreamEnds, Disconnect, Forget, tables
      <3> QED
        BY <3>1
    <2> QED
      BY <2>1, <2>2
  <1> QED
    BY <1>1, Invariance, PTL DEF Spec, MarkerFollowsRows

-----------------------------------------------------------------------------
(* The refinement                                                          *)

\* What the client receives is the next chunk of the replay.
LEMMA ReceiveDelivers ==
    ASSUME InductiveInvariant, Receive, Head(channel).kind # "error"
    PROVE  Replayed!Deliver
  <1>1. /\ TypeOK /\ export \in Exports /\ phase # "idle" /\ ending = "open" /\ channel # <<>>
        /\ body' = Append(body, Head(channel)) /\ export' = export /\ ending' = ending
        /\ ChunksConsistent
    BY DEF Receive, InductiveInvariant
  <1>2. body \in Seq(Chunks) /\ channel \in Seq(Chunks)
    BY <1>1 DEF TypeOK
  <1>3. /\ Len(Sent) = Len(body) + Len(channel) /\ Len(body) \in Nat
        /\ Len(channel) \in Nat \ {0} /\ Head(channel) = channel[1] /\ Head(channel) \in Chunks
        /\ \A i \in 1 .. Len(Sent) :
               Sent[i] = IF i <= Len(body) THEN body[i] ELSE channel[i - Len(body)]
    BY <1>1, <1>2, SentType
  <1>4. Len(body) + 1 \in 1 .. Len(Sent) /\ Sent[Len(body) + 1] = Head(channel)
    <2>1. Len(body) + 1 \in 1 .. Len(Sent) /\ ~(Len(body) + 1 <= Len(body))
          /\ (Len(body) + 1) - Len(body) = 1
      BY <1>3
    <2> QED
      BY <1>3, <2>1
  <1> DEFINE c == Head(channel)
  <1>5. CASE body = <<>>
    <2>1. Starts(c)
      <3>1. Len(body) = 0 /\ Sent # <<>>
        <4>1. Len(<<>>) = 0
          OBVIOUS
        <4> QED
          BY <1>3, <1>5, <4>1
      <3> QED
        BY <1>1, <1>4, <3>1 DEF ChunksConsistent
    <2>2. c = Replayed!Prologue
      BY <2>1 DEF Starts, Bare, Replayed!Prologue
    <2>3. body' = <<Replayed!Prologue>>
      BY <1>1, <1>5, <2>2
    <2> QED
      BY <1>1, <1>5, <2>3 DEF Replayed!Deliver
  <1>6. CASE body # <<>>
    <2>1. /\ Len(body) \in 1 .. Len(Sent) - 1 /\ Sent[Len(body)] = body[Len(body)]
          /\ body[Len(body)] \in Chunks
      <3>1. Len(body) >= 1
        BY <1>2, <1>6
      <3>2. Len(body) \in 1 .. Len(Sent) - 1 /\ Len(body) <= Len(body) /\ Len(body) \in 1 .. Len(Sent)
        BY <1>3, <3>1
      <3> QED
        BY <1>2, <1>3, <3>1, <3>2
    <2>2. Follows(body[Len(body)], c)
      BY <1>1, <1>4, <2>1 DEF ChunksConsistent
    <2>3. /\ Replayed!Last = body[Len(body)]
          /\ Replayed!NextStep = After1(body[Len(body)])
      BY DEF Replayed!Last, Replayed!NextStep, After1
    <2>4. Replayed!Last.kind # "epilogue"
      BY <2>2, <2>3 DEF Follows
    <2>5. CASE c.kind = "rows"
      <3>1. /\ c.step \in Replayed!NextStep .. export.to
            /\ Replay(export.dataset, c.step) # {}
            /\ Replayed!Blank(Replayed!NextStep, c.step)
            /\ c.rows = Replay(export.dataset, c.step)
        BY <2>2, <2>3, <2>5 DEF Follows, Bare
      <3>2. c = Replayed!StepChunk(export.dataset, c.step)
        BY <1>3, <2>5, <3>1 DEF Chunks, Replayed!StepChunk
      <3> QED
        BY <1>1, <1>6, <2>4, <3>1, <3>2 DEF Replayed!Deliver
    <2>6. CASE c = Bare("epilogue")
      <3>1. export.format = "json" /\ Replayed!Blank(Replayed!NextStep, export.to + 1)
        BY <2>2, <2>3, <2>6 DEF Follows, Bare
      <3>2. c = Replayed!Epilogue
        BY <2>6 DEF Bare, Replayed!Epilogue
      <3> QED
        BY <1>1, <1>6, <2>4, <3>1, <3>2 DEF Replayed!Deliver
    <2> QED
      BY <2>2, <2>5, <2>6 DEF Follows
  <1> QED
    BY <1>5, <1>6

\* A body that ends is whole.
LEMMA EndsWhole ==
    ASSUME InductiveInvariant, StreamEnds
    PROVE  Replayed!Finish
  <1>1. /\ TypeOK /\ ending = "open" /\ channel = <<>> /\ phase = "ended"
        /\ HandConsistent /\ ChunksConsistent
        /\ ending' = "whole" /\ export' = export /\ body' = body
    BY DEF StreamEnds, InductiveInvariant
  <1>2. Sent = body
    BY <1>1 DEF Sent, TypeOK
  <1>3. body # <<>> /\ Tip = Replayed!Last
    BY <1>1, <1>2 DEF HandConsistent, Tip, Replayed!Last
  <1>4. Tip.kind # "error"
    <2>1. Len(body) \in 1 .. Len(body)
      BY <1>1, <1>3 DEF TypeOK
    <2> QED
      BY <1>1, <1>2, <2>1 DEF ChunksConsistent, Tip
  <1>5. After1(Tip) = Replayed!NextStep
    BY <1>3 DEF After1, Replayed!NextStep
  <1>6. Replayed!Whole
    BY <1>1, <1>3, <1>4, <1>5 DEF HandConsistent, Replayed!Whole, Bare
  <1> QED
    BY <1>1, <1>6 DEF Replayed!Finish

\* Every step of an export is a step of the replay, or none.
LEMMA StepSimulation ==
    InductiveInvariant /\ [Next]_vars => [Replayed!ExportNext]_(Replayed!exportVars)
  <1> SUFFICES ASSUME InductiveInvariant, [Next]_vars
               PROVE  Replayed!ExportNext \/ UNCHANGED Replayed!exportVars
    OBVIOUS
  <1>1. CASE \E q \in Queries : Begin(q)
    <2>1. PICK q \in Queries : Begin(q)
      BY <1>1
    <2>2. /\ ending = "none" /\ export' \in Exports /\ body' = <<>> /\ ending' = "open"
      BY <2>1 DEF Begin, Resolve, InductiveInvariant
    <2> QED
      BY <2>2 DEF Replayed!ExportNext, Replayed!Begin
  <1>2. CASE Producer
    <2>1. UNCHANGED <<export, body, ending>>
      BY <1>2 DEF Producer, Build, Load, ReadMetas, ReadQuotes, Row, RangeEnds, Send, client
    <2> QED
      BY <2>1 DEF Replayed!exportVars
  <1>3. CASE Receive
    <2>1. CASE Head(channel).kind # "error"
      BY <1>3, <2>1, ReceiveDelivers DEF Replayed!ExportNext
    <2>2. CASE Head(channel).kind = "error"
      BY <1>3, <2>2 DEF Receive, Replayed!ExportNext, Replayed!Break
    <2> QED
      BY <2>1, <2>2
  <1>4. CASE StreamEnds
    BY <1>4, EndsWhole DEF Replayed!ExportNext
  <1>5. CASE Disconnect
    BY <1>5 DEF Disconnect, Replayed!ExportNext, Replayed!Break
  <1>6. CASE Forget
    BY <1>6 DEF Forget, Replayed!ExportNext, Replayed!Forget
  <1>7. CASE Warehouse
    BY <1>7 DEF Warehouse, client, Replayed!exportVars
  <1>8. CASE UNCHANGED vars
    BY <1>8 DEF vars, client, Replayed!exportVars
  <1> QED
    BY <1>1, <1>2, <1>3, <1>4, <1>5, <1>6, <1>7, <1>8 DEF Next

\* The body is the one a replay would have produced, whichever source its rows come
\* from; it may break off, but one that ends is whole.
THEOREM Implementation == Spec => ImplementsReplay
  <1>1. Init => Replayed!ExportInit
    BY DEF Init, Replayed!ExportInit
  <1> QED
    BY <1>1, Invariance, StepSimulation, PTL DEF Spec, ImplementsReplay, Replayed!ExportSpec

-----------------------------------------------------------------------------
(* Joined sequences                                                        *)

\* The parts of a joined sequence are joined one after the other.
Joins(f, A, S) ==
    /\ f \in [0..Len(A) -> Seq(S)]
    /\ f[0] = <<>>
    /\ \A i \in 1..Len(A) : f[i] = f[i - 1] \o A[i]
    /\ FlattenSeq(A) = f[Len(A)]

\* Whatever the parts, there are sequences that join them one after the other.
LEMMA Flattening ==
    ASSUME NEW S, NEW A \in Seq(Seq(S))
    PROVE  \E f : Joins(f, A, S)
  <1> DEFINE n    == Len(A)
             move == [p \in Nat \X Seq(S) |-> IF p[1] \in 1..n THEN p[2] \o A[p[1]] ELSE p[2]]
  <1>1. n \in Nat /\ \A i \in 1..n : A[i] \in Seq(S)
    OBVIOUS
  <1>2. <<>> \in Seq(S) /\ move \in [Nat \X Seq(S) -> Seq(S)]
    BY <1>1
  <1>3. PICK f : Stepwise(f, Seq(S), <<>>, move, n)
    <2>1. n \in Nat
      BY <1>1
    <2>2. <<>> \in Seq(S)
      BY <1>2
    <2>3. move \in [Nat \X Seq(S) -> Seq(S)]
      BY <1>2
    <2> HIDE DEF move, n
    <2> QED
      BY <2>1, <2>2, <2>3, StepwiseExists, Zenon
  <1>4. f \in [0..n -> Seq(S)] /\ f[0] = <<>>
    <2> HIDE DEF move, n
    <2> QED
      BY <1>3 DEF Stepwise
  <1>5. ASSUME NEW i \in 1..n PROVE f[i] = f[i - 1] \o A[i]
    <2>1. i \in Nat /\ i - 1 \in 0..n
      BY <1>1
    <2>2. f[i] = move[<<i, f[i - 1]>>]
      <3> HIDE DEF move, n
      <3> QED
        BY <1>3 DEF Stepwise
    <2>3. f[i - 1] \in Seq(S)
      BY <1>4, <2>1
    <2>4. <<i, f[i - 1]>> \in Nat \X Seq(S)
      BY <2>1, <2>3
    <2> HIDE DEF n
    <2> QED
      BY <2>2, <2>4
  <1>6. CASE n = 0
    <2>1. FlattenSeq(A) = A /\ A = <<>>
      BY <1>6 DEF FlattenSeq
    <2> QED
      BY <1>4, <1>5, <1>6, <2>1 DEF Joins
  <1>7. CASE n # 0
    <2> DEFINE Is(h) == h = [i \in 1..n |-> IF i = 1 THEN A[i] ELSE h[i - 1] \o A[i]]
               g     == [i \in 1..n |-> f[i]]
               h     == CHOOSE h : Is(h)
    <2>1. Is(g)
      <3>1. ASSUME NEW i \in 1..n
            PROVE  f[i] = IF i = 1 THEN A[i] ELSE g[i - 1] \o A[i]
        <4>1. CASE i = 1
          <5>1. f[1] = f[0] \o A[1] /\ A[1] \in Seq(S) /\ f[0] = <<>>
            <6>1. 1 \in 1..n /\ 1 - 1 = 0
              BY <4>1
            <6>2. f[1] = f[1 - 1] \o A[1]
              BY <1>5, <6>1
            <6> QED
              BY <1>1, <1>4, <6>1, <6>2
          <5> QED
            BY <4>1, <5>1
        <4>2. CASE i # 1
          <5>1. i - 1 \in 1..n
            BY <1>1, <4>2
          <5> QED
            BY <1>5, <4>2, <5>1
        <4> QED
          BY <4>1, <4>2
      <3> QED
        BY <3>1
    <2> HIDE DEF Is, g
    <2>2. Is(h)
      BY <2>1, Zenon
    <2>3. FlattenSeq(A) = h[n]
      BY <1>7 DEF FlattenSeq, Is
    <2> HIDE DEF h
    <2>4. ASSUME NEW k \in 1..n, h[k] # f[k] PROVE FALSE
      <3> DEFINE wrong == {i \in Nat : i \in 1..n /\ h[i] # f[i]}
      <3>1. k \in wrong
        BY <1>1, <2>4
      <3>2. PICK i \in wrong : \A j \in wrong : i <= j
        BY <3>1, SmallestExists
      <3>3. h[i] = IF i = 1 THEN A[i] ELSE h[i - 1] \o A[i]
        BY <2>2, <3>2 DEF Is
      <3>4. f[i] = IF i = 1 THEN A[i] ELSE f[i - 1] \o A[i]
        <4>1. f[i] = g[i] /\ (i # 1 => i - 1 \in 1..n)
          BY <1>1, <3>2 DEF g
        <4>2. g[i] = IF i = 1 THEN A[i] ELSE g[i - 1] \o A[i]
          BY <2>1, <3>2 DEF Is
        <4> QED
          BY <4>1, <4>2 DEF g
      <3>5. i # 1
        BY <3>2, <3>3, <3>4
      <3>6. i - 1 \in 1..n /\ i - 1 \in Nat /\ ~(i <= i - 1)
        BY <1>1, <3>2, <3>5
      <3>7. h[i - 1] = f[i - 1]
        BY <3>2, <3>6
      <3> QED
        BY <3>2, <3>3, <3>4, <3>7
    <2>5. n \in 1..n
      BY <1>1, <1>7
    <2> QED
      BY <1>4, <1>5, <2>3, <2>4, <2>5 DEF Joins
  <1> QED
    BY <1>6, <1>7

\* Joined sequences of one more part are joined to the rest.
LEMMA FlattenAppend ==
    ASSUME NEW S, NEW A \in Seq(Seq(S)), NEW s \in Seq(S)
    PROVE  /\ FlattenSeq(A) \in Seq(S)
           /\ FlattenSeq(Append(A, s)) = FlattenSeq(A) \o s
  <1> DEFINE B == Append(A, s)
             n == Len(A)
  <1>1. /\ B \in Seq(Seq(S)) /\ Len(B) = n + 1 /\ B[n + 1] = s
        /\ n \in Nat /\ \A i \in 1..n : B[i] = A[i]
    OBVIOUS
  <1>2. PICK f : Joins(f, A, S)
    BY Flattening
  <1> HIDE DEF B
  <1>3. PICK g : Joins(g, B, S)
    BY <1>1, Flattening
  <1>4. /\ f \in [0..n -> Seq(S)] /\ g \in [0..(n + 1) -> Seq(S)]
        /\ f[0] = <<>> /\ g[0] = <<>>
        /\ FlattenSeq(A) = f[n] /\ FlattenSeq(B) = g[n + 1]
    BY <1>1, <1>2, <1>3 DEF Joins
  <1>5. ASSUME NEW i \in 1..(n + 1) PROVE g[i] = g[i - 1] \o B[i]
    BY <1>1, <1>3 DEF Joins
  <1>6. ASSUME NEW i \in 1..n PROVE f[i] = f[i - 1] \o A[i]
    BY <1>2 DEF Joins
  <1> HIDE DEF n
  <1>7. ASSUME NEW k \in 0..n, f[k] # g[k] PROVE FALSE
    <2> DEFINE wrong == {i \in Nat : i \in 0..n /\ f[i] # g[i]}
    <2>1. k \in wrong
      BY <1>1, <1>7
    <2>2. PICK i \in wrong : \A j \in wrong : i <= j
      BY <2>1, SmallestExists
    <2>3. i # 0
      BY <1>4, <2>2
    <2>4. i \in 1..n /\ i \in 1..(n + 1) /\ i - 1 \in 0..n /\ i - 1 \in Nat /\ ~(i <= i - 1)
      BY <1>1, <2>2, <2>3
    <2>5. f[i - 1] = g[i - 1]
      BY <2>2, <2>4
    <2>6. f[i] = f[i - 1] \o A[i] /\ g[i] = g[i - 1] \o B[i] /\ A[i] = B[i]
      BY <1>1, <1>5, <1>6, <2>4
    <2> QED
      BY <2>2, <2>5, <2>6
  <1>8. n \in 0..n /\ n + 1 \in 1..(n + 1) /\ n + 1 - 1 = n
    BY <1>1
  <1>9. g[n + 1] = g[n] \o B[n + 1]
    <2> DEFINE i == n + 1
    <2>1. i \in 1..(n + 1) /\ i - 1 = n
      BY <1>8
    <2> HIDE DEF i
    <2>2. g[i] = g[i - 1] \o B[i]
      BY <1>5, <2>1
    <2> QED
      BY <2>1, <2>2 DEF i
  <1>10. g[n + 1] = f[n] \o s /\ f[n] \in Seq(S)
    BY <1>1, <1>4, <1>7, <1>8, <1>9
  <1> QED
    BY <1>4, <1>10 DEF B

\* Where the elements of a joined sequence are in its parts, in the order of the parts.
Placed(outer, inner, size, A, joined) ==
    /\ outer \in [1..size -> Nat] /\ inner \in [1..size -> Nat]
    /\ \A k \in 1..size : /\ outer[k] \in 1..Len(A)
                          /\ inner[k] \in 1..Len(A[outer[k]])
                          /\ joined[k] = A[outer[k]][inner[k]]
    /\ \A k, l \in 1..size :
           k < l => outer[k] < outer[l] \/ (outer[k] = outer[l] /\ inner[k] < inner[l])

\* If the first sequence has its places, so has one that the next part was joined to.
LEMMA PlacedMore ==
    ASSUME NEW S, NEW A \in Seq(Seq(S)), NEW i \in 1..Len(A), NEW F \in Seq(S),
           NEW outer, NEW inner, Placed(outer, inner, Len(F), A, F),
           \A k \in 1..Len(F) : outer[k] < i,
           NEW q, q = Len(A[i])
    PROVE  Placed([k \in 1..(Len(F) + q) |-> IF k <= Len(F) THEN outer[k] ELSE i],
                  [k \in 1..(Len(F) + q) |-> IF k <= Len(F) THEN inner[k] ELSE k - Len(F)],
                  Len(F) + q, A, F \o A[i])
  <1> DEFINE p == Len(F)
             o == [k \in 1..(p + q) |-> IF k <= p THEN outer[k] ELSE i]
             r == [k \in 1..(p + q) |-> IF k <= p THEN inner[k] ELSE k - p]
  <1>1. p \in Nat /\ q \in Nat /\ A[i] \in Seq(S) /\ i \in Nat
    OBVIOUS
  <1>2. /\ outer \in [1..p -> Nat] /\ inner \in [1..p -> Nat]
        /\ \A k \in 1..p : /\ outer[k] \in 1..Len(A)
                           /\ inner[k] \in 1..Len(A[outer[k]])
                           /\ F[k] = A[outer[k]][inner[k]]
        /\ \A k, l \in 1..p :
               k < l => outer[k] < outer[l] \/ (outer[k] = outer[l] /\ inner[k] < inner[l])
    BY DEF Placed
  <1>3. \A k \in 1..(p + q) :
            (F \o A[i])[k] = IF k <= p THEN F[k] ELSE A[i][k - p]
    BY <1>1
  <1>4. \A k \in 1..p : outer[k] < i
    OBVIOUS
  <1>5. q = Len(A[i])
    OBVIOUS
  <1> HIDE DEF p
  <1>6. o \in [1..(p + q) -> Nat] /\ r \in [1..(p + q) -> Nat]
    <2>1. ASSUME NEW k \in 1..(p + q) PROVE o[k] \in Nat /\ r[k] \in Nat
      <3>1. CASE k <= p
        BY <1>1, <1>2, <3>1
      <3>2. CASE ~(k <= p)
        BY <1>1, <3>2
      <3> QED
        BY <3>1, <3>2
    <2> QED
      BY <2>1
  <1>7. ASSUME NEW k \in 1..(p + q)
        PROVE  /\ o[k] \in 1..Len(A) /\ r[k] \in 1..Len(A[o[k]])
               /\ (F \o A[i])[k] = A[o[k]][r[k]]
    <2>1. CASE k <= p
      <3>1. k \in 1..p /\ o[k] = outer[k] /\ r[k] = inner[k]
        BY <1>1, <2>1
      <3> QED
        BY <1>2, <1>3, <2>1, <3>1
    <2>2. CASE ~(k <= p)
      <3>1. o[k] = i /\ r[k] = k - p /\ k - p \in 1..q
        BY <1>1, <2>2
      <3> QED
        BY <1>3, <1>5, <2>2, <3>1
    <2> QED
      BY <2>1, <2>2
  <1>8. ASSUME NEW k \in 1..(p + q), NEW l \in 1..(p + q), k < l
        PROVE  o[k] < o[l] \/ (o[k] = o[l] /\ r[k] < r[l])
    <2>1. CASE l <= p
      <3>1. k \in 1..p /\ l \in 1..p /\ k <= p
        BY <1>1, <1>8, <2>1
      <3> QED
        BY <1>2, <1>8, <2>1, <3>1
    <2>2. CASE ~(l <= p) /\ k <= p
      <3>1. k \in 1..p
        BY <1>1, <2>2
      <3> QED
        BY <1>4, <2>2, <3>1
    <2>3. CASE ~(k <= p)
      <3>1. ~(l <= p)
        BY <1>1, <1>8, <2>3
      <3> QED
        BY <1>1, <1>8, <2>3, <3>1
    <2> QED
      BY <2>1, <2>2, <2>3
  <1> HIDE DEF o, r
  <1>9. Placed(o, r, p + q, A, F \o A[i])
    BY <1>6, <1>7, <1>8 DEF Placed
  <1> QED
    BY <1>9 DEF o, r, p

\* Sequences of parts that are as long as one another are joined alike: what has a place in
\* one joined sequence has the same place in the other.
LEMMA Placement ==
    ASSUME NEW S, NEW T, NEW A \in Seq(Seq(S)), NEW B \in Seq(Seq(T)), Len(A) = Len(B),
           \A i \in 1..Len(A) : Len(A[i]) = Len(B[i])
    PROVE  /\ FlattenSeq(A) \in Seq(S) /\ FlattenSeq(B) \in Seq(T)
           /\ Len(FlattenSeq(A)) = Len(FlattenSeq(B))
           /\ \E outer, inner :
                  /\ Placed(outer, inner, Len(FlattenSeq(A)), A, FlattenSeq(A))
                  /\ Placed(outer, inner, Len(FlattenSeq(A)), B, FlattenSeq(B))
  <1> DEFINE n == Len(A)
  <1>1. PICK f : Joins(f, A, S)
    BY Flattening
  <1>2. PICK g : Joins(g, B, T)
    BY Flattening
  <1>3. /\ n \in Nat /\ n = Len(B)
        /\ f \in [0..n -> Seq(S)] /\ g \in [0..n -> Seq(T)]
        /\ f[0] = <<>> /\ g[0] = <<>>
        /\ FlattenSeq(A) = f[n] /\ FlattenSeq(B) = g[n]
    BY <1>1, <1>2 DEF Joins
  <1>4. ASSUME NEW i \in 1..n
        PROVE  /\ f[i] = f[i - 1] \o A[i] /\ g[i] = g[i - 1] \o B[i]
               /\ A[i] \in Seq(S) /\ B[i] \in Seq(T) /\ Len(A[i]) = Len(B[i])
    <2>1. i \in 1..Len(A) /\ i \in 1..Len(B)
      BY <1>3
    <2>2. A[i] \in Seq(S) /\ B[i] \in Seq(T)
      BY <2>1
    <2> QED
      BY <1>1, <1>2, <2>1, <2>2 DEF Joins
  <1> DEFINE Alike(i) ==
                 /\ Len(f[i]) = Len(g[i])
                 /\ \E outer, inner : /\ Placed(outer, inner, Len(f[i]), A, f[i])
                                      /\ Placed(outer, inner, Len(f[i]), B, g[i])
                                      /\ \A k \in 1..Len(f[i]) : outer[k] <= i
  <1> HIDE DEF n
  <1>5. Alike(0)
    <2> DEFINE none == [k \in 1..0 |-> 0]
    <2>1. Len(f[0]) = 0 /\ Len(g[0]) = 0
      BY <1>3
    <2>2. /\ Placed(none, none, 0, A, f[0]) /\ Placed(none, none, 0, B, g[0])
          /\ \A k \in 1..0 : none[k] <= 0
      BY DEF Placed
    <2> HIDE DEF none
    <2> QED
      BY <2>1, <2>2
  <1>6. ASSUME NEW i \in 1..n, Alike(i - 1)
        PROVE  Alike(i)
    <2>1. i - 1 \in 0..n /\ i - 1 \in Nat /\ i \in Nat
      BY <1>3
    <2>2. PICK outer, inner : /\ Placed(outer, inner, Len(f[i - 1]), A, f[i - 1])
                              /\ Placed(outer, inner, Len(f[i - 1]), B, g[i - 1])
                              /\ \A k \in 1..Len(f[i - 1]) : outer[k] <= i - 1
      BY <1>6
    <2>3. f[i - 1] \in Seq(S) /\ g[i - 1] \in Seq(T) /\ Len(f[i - 1]) = Len(g[i - 1])
      BY <1>3, <1>6, <2>1
    <2> DEFINE p == Len(f[i - 1])
               q == Len(A[i])
               o == [k \in 1..(p + q) |-> IF k <= p THEN outer[k] ELSE i]
               r == [k \in 1..(p + q) |-> IF k <= p THEN inner[k] ELSE k - p]
    <2>4. /\ f[i] = f[i - 1] \o A[i] /\ g[i] = g[i - 1] \o B[i]
          /\ A[i] \in Seq(S) /\ B[i] \in Seq(T) /\ Len(A[i]) = Len(B[i])
      BY <1>4
    <2>5. p \in Nat /\ q \in Nat /\ q = Len(B[i]) /\ p = Len(g[i - 1])
      BY <2>4, <2>3
    <2>6. \A k \in 1..p : outer[k] \in Nat /\ outer[k] < i
      <3>1. outer \in [1..p -> Nat] /\ \A k \in 1..p : outer[k] <= i - 1
        BY <2>2 DEF Placed
      <3> HIDE DEF p
      <3> QED
        BY <2>1, <3>1
    <2>7. Len(f[i]) = p + q /\ Len(g[i]) = p + q
      <3>0. ASSUME NEW R, NEW s \in Seq(R), NEW t \in Seq(R) PROVE Len(s \o t) = Len(s) + Len(t)
        OBVIOUS
      <3>1. Len(f[i - 1] \o A[i]) = Len(f[i - 1]) + Len(A[i])
        BY <2>4, <2>3, <3>0, Zenon
      <3>2. Len(g[i - 1] \o B[i]) = Len(g[i - 1]) + Len(B[i])
        BY <2>4, <2>3, <3>0, Zenon
      <3> QED
        BY <2>4, <2>5, <3>1, <3>2
    <2>8. Placed(o, r, p + q, A, f[i])
      BY <1>3, <1>4, <2>1, <2>2, <2>3, <2>5, <2>6, PlacedMore DEF n
    <2>9. Placed(o, r, p + q, B, g[i])
      <3>1. i \in 1..Len(B)
        BY <1>3
      <3>2. \A k \in 1..Len(g[i - 1]) : outer[k] < i
        BY <2>3, <2>6
      <3>3. Placed(outer, inner, Len(g[i - 1]), B, g[i - 1])
        BY <2>2, <2>3
      <3>4. Placed([k \in 1..(Len(g[i - 1]) + q) |-> IF k <= Len(g[i - 1]) THEN outer[k] ELSE i],
                  [k \in 1..(Len(g[i - 1]) + q) |-> IF k <= Len(g[i - 1]) THEN inner[k]
                                                  ELSE k - Len(g[i - 1])],
                  Len(g[i - 1]) + q, B, g[i - 1] \o B[i])
        <4> HIDE DEF q
        <4> QED
          BY <2>3, <2>5, <3>1, <3>2, <3>3, PlacedMore
      <3> QED
        BY <2>3, <2>4, <3>4
    <2>10. \A k \in 1..(p + q) : o[k] <= i
      BY <2>1, <2>5, <2>6
    <2> HIDE DEF o, r, p, q
    <2> QED
      BY <2>7, <2>8, <2>9, <2>10
  <1>7. ASSUME NEW k \in 0..n, ~Alike(k) PROVE FALSE
    <2> DEFINE wrong == {i \in Nat : i \in 0..n /\ ~Alike(i)}
    <2>1. k \in wrong
      BY <1>3, <1>7
    <2>2. PICK i \in wrong : \A j \in wrong : i <= j
      <3> HIDE DEF Alike
      <3> QED
        BY <2>1, SmallestExists
    <2> HIDE DEF Alike
    <2>3. i # 0
      BY <1>5, <2>2
    <2>4. i \in 1..n /\ i - 1 \in 0..n /\ i - 1 \in Nat /\ ~(i <= i - 1)
      BY <1>3, <2>2, <2>3
    <2>5. Alike(i - 1)
      BY <2>2, <2>4
    <2> QED
      BY <1>6, <2>2, <2>4, <2>5
  <1>8. n \in 0..n
    BY <1>3
  <1>9. f[n] \in Seq(S) /\ g[n] \in Seq(T)
    BY <1>3, <1>8
  <1>10. Alike(n)
    BY <1>7, <1>8
  <1> QED
    BY <1>3, <1>9, <1>10

-----------------------------------------------------------------------------
(* The order of the rows in the store                                       *)

\* An enumeration of rows in the order of the store's key, and what makes that an order.
Ascending(W, n, R) ==
    /\ W \in [1..n -> R]
    /\ \A i, j \in 1..n : i < j => Precedes(W[i], W[j])

Keyed(R) == \A a \in R : a.expires_at \in Int /\ a.columns.strike \in Int

\* One row does not precede another that precedes it.
LEMMA PrecedesOneWay ==
    ASSUME NEW R, Keyed(R), NEW a \in R, NEW b \in R, Precedes(a, b)
    PROVE  ~Precedes(b, a) /\ a # b
  <1>1. /\ a.expires_at \in Int /\ a.columns.strike \in Int
        /\ b.expires_at \in Int /\ b.columns.strike \in Int
    BY DEF Keyed
  <1> QED
    BY <1>1 DEF Precedes

\* Nothing is enumerated twice.
Counts(W, n) ==
    /\ \A i, j \in 1..n : W[i] = W[j] => i = j
    /\ IsFiniteSet({W[i] : i \in 1..n})
    /\ Cardinality({W[i] : i \in 1..n}) = n

\* An ascending enumeration counts what it enumerates.
LEMMA AscendingCounts ==
    ASSUME NEW n \in Nat, NEW R, Keyed(R), NEW W, Ascending(W, n, R)
    PROVE  Counts(W, n)
  <1> DEFINE Q == {W[i] : i \in 1..n}
  <1>1. ASSUME NEW i \in 1..n, NEW j \in 1..n, W[i] = W[j] PROVE i = j
    <2>1. W[i] \in R /\ W[j] \in R
      BY DEF Ascending
    <2>2. i < j => Precedes(W[i], W[j])
      BY DEF Ascending
    <2>3. j < i => Precedes(W[j], W[i])
      BY DEF Ascending
    <2>4. ~(i < j) /\ ~(j < i)
      BY <1>1, <2>1, <2>2, <2>3, PrecedesOneWay
    <2> QED
      BY <2>4
  <1>2. W \in [1..n -> Q] /\ \A q \in Q : \E i \in 1..n : W[i] = q
    BY DEF Ascending
  <1> HIDE DEF Q
  <1>3. IsInjective(W)
    <2>1. DOMAIN W = 1..n
      BY DEF Ascending
    <2> QED
      BY <1>1, <2>1 DEF IsInjective
  <1>4. W \in Bijection(1..n, Q)
    BY <1>2, <1>3 DEF Bijection, Injection, Surjection
  <1>5. IsFiniteSet(1..n) /\ Cardinality(1..n) = n
    BY FS_Interval
  <1>6. IsFiniteSet(Q) /\ Cardinality(Q) = n
    BY <1>4, <1>5, FS_Bijection DEF ExistsBijection
  <1> QED
    BY <1>1, <1>6 DEF Q, Counts

\* Two ascending enumerations of one set do not differ.
LEMMA AscendingOnce ==
    ASSUME NEW n \in Nat, NEW R, Keyed(R), IsFiniteSet(R), Cardinality(R) = n,
           NEW V, Ascending(V, n, R), NEW W, Ascending(W, n, R)
    PROVE  V = W
  <1>1. ASSUME NEW U, Ascending(U, n, R) PROVE R = {U[i] : i \in 1..n}
    <2>1. {U[i] : i \in 1..n} \in SUBSET R
      BY <1>1 DEF Ascending
    <2>2. Cardinality({U[i] : i \in 1..n}) = n
      <3>1. Counts(U, n)
        BY <1>1, AscendingCounts
      <3> QED
        BY <3>1 DEF Counts
    <2> QED
      BY <2>1, <2>2, FS_Subset
  <1>2. ASSUME NEW X, Ascending(X, n, R), NEW Y, Ascending(Y, n, R), NEW k \in 1..n,
               \A i \in 1..n : i < k => X[i] = Y[i], X[k] # Y[k]
        PROVE  Precedes(Y[k], X[k])
    <2>1. X[k] \in R
      BY <1>2 DEF Ascending
    <2>2. PICK l \in 1..n : Y[l] = X[k]
      BY <1>1, <1>2, <2>1
    <2>3. ~(l < k)
      <3>1. l < k => X[l] = X[k]
        BY <1>2, <2>2
      <3>2. X[l] = X[k] => l = k
        <4>1. Counts(X, n)
          BY <1>2, AscendingCounts
        <4> QED
          BY <4>1 DEF Counts
      <3> QED
        BY <3>1, <3>2
    <2>4. k < l
      BY <1>2, <2>2, <2>3
    <2> QED
      BY <1>2, <2>2, <2>4 DEF Ascending
  <1>3. ASSUME NEW j \in 1..n, V[j] # W[j] PROVE FALSE
    <2> DEFINE wrong == {i \in Nat : i \in 1..n /\ V[i] # W[i]}
    <2>1. j \in wrong
      BY <1>3
    <2>2. PICK k \in wrong : \A i \in wrong : k <= i
      BY <2>1, SmallestExists
    <2>3. k \in 1..n /\ V[k] # W[k] /\ \A i \in 1..n : i < k => V[i] = W[i]
      <3>1. ASSUME NEW i \in 1..n, i < k PROVE V[i] = W[i]
        BY <2>2, <3>1
      <3> QED
        BY <2>2, <3>1
    <2>4. Precedes(W[k], V[k])
      BY <1>2, <2>3
    <2>5. Precedes(V[k], W[k])
      BY <1>2, <2>3
    <2>6. V[k] \in R /\ W[k] \in R
      BY <2>3 DEF Ascending
    <2> QED
      BY <2>4, <2>5, <2>6, PrecedesOneWay
  <1>4. V = [i \in 1..n |-> V[i]] /\ W = [i \in 1..n |-> W[i]]
    BY DEF Ascending
  <1> QED
    BY <1>3, <1>4

\* The store returns rows that were written in the order of its key as they were written.
LEMMA StoredInOrder ==
    ASSUME NEW n \in Nat, NEW R, Keyed(R), NEW W, Ascending(W, n, R), R = {W[i] : i \in 1..n}
    PROVE  InStorageOrder(R) = W
  <1>1. IsFiniteSet(R) /\ Cardinality(R) = n
    <2>1. Counts(W, n)
      BY AscendingCounts
    <2> QED
      BY <2>1 DEF Counts
  <1> DEFINE Sorted(s) == \A i, j \in DOMAIN s : i < j => Precedes(s[i], s[j])
             s == CHOOSE s \in [1..n -> R] : Sorted(s)
  <1>2. InStorageOrder(R) = s
    BY <1>1 DEF InStorageOrder
  <1>3. W \in [1..n -> R] /\ Sorted(W)
    BY DEF Ascending
  <1>4. s \in [1..n -> R] /\ Sorted(s)
    <2> HIDE DEF Sorted
    <2> QED
      BY <1>3, Zenon
  <1> HIDE DEF s
  <1>5. Ascending(s, n, R)
    BY <1>4 DEF Ascending
  <1> QED
    BY <1>1, <1>2, <1>5, AscendingOnce

-----------------------------------------------------------------------------
(* Decimals and their columns                                               *)

Positives == Nat \ {0}

\* The powers of ten are what they are defined to be.
LEMMA PowersOfTen ==
    /\ TenTo \in [0..DecimalScale -> Positives]
    /\ TenTo[0] = 1
    /\ \A k \in 1..DecimalScale : TenTo[k] = 10 * TenTo[k - 1]
  <1> DEFINE n     == DecimalScale
             move  == [p \in Nat \X Positives |-> 10 * p[2]]
             Is(h) == h = [k \in 0..n |-> IF k = 0 THEN 1 ELSE 10 * h[k - 1]]
  <1>1. n \in Nat
    BY DecimalAssumption
  <1>2. 1 \in Positives /\ \A x \in Positives : 10 * x \in Positives
    BY DEF Positives
  <1>3. move \in [Nat \X Positives -> Positives]
    BY <1>2
  <1>4. PICK f : Stepwise(f, Positives, 1, move, n)
    <2> HIDE DEF move, n
    <2> QED
      BY <1>1, <1>2, <1>3, StepwiseExists
  <1>5. /\ f \in [0..n -> Positives] /\ f[0] = 1
        /\ \A i \in 1..n : f[i] = move[<<i, f[i - 1]>>]
    <2> HIDE DEF move, n
    <2> QED
      BY <1>4 DEF Stepwise
  <1>6. ASSUME NEW k \in 1..n PROVE f[k] = 10 * f[k - 1]
    <2>1. k \in Nat /\ k - 1 \in 0..n
      BY <1>1
    <2>2. <<k, f[k - 1]>> \in Nat \X Positives
      BY <1>5, <2>1
    <2> HIDE DEF n
    <2> QED
      BY <1>5, <2>2
  <1>7. Is(f)
    <2>1. \A k \in 0..n : k # 0 => k \in 1..n
      BY <1>1
    <2>2. f = [k \in 0..n |-> f[k]]
      BY <1>5
    <2>3. \A k \in 0..n : f[k] = IF k = 0 THEN 1 ELSE 10 * f[k - 1]
      BY <1>5, <1>6, <2>1
    <2> HIDE DEF n
    <2> QED
      BY <2>2, <2>3
  <1>8. Is(TenTo)
    <2>1. TenTo = CHOOSE h : Is(h)
      BY DEF TenTo
    <2> HIDE DEF Is
    <2> QED
      BY <1>7, <2>1, Zenon
  <1> HIDE DEF n
  <1>9. ASSUME NEW k \in 0..n, TenTo[k] # f[k] PROVE FALSE
    <2> DEFINE wrong == {i \in Nat : i \in 0..n /\ TenTo[i] # f[i]}
    <2>1. k \in wrong
      BY <1>1, <1>9
    <2>2. PICK i \in wrong : \A j \in wrong : i <= j
      BY <2>1, SmallestExists
    <2>3. TenTo[i] = IF i = 0 THEN 1 ELSE 10 * TenTo[i - 1]
      BY <1>8, <2>2
    <2>4. i # 0
      BY <1>5, <2>2, <2>3
    <2>5. i \in 1..n /\ i - 1 \in 0..n /\ i - 1 \in Nat /\ ~(i <= i - 1)
      BY <1>1, <2>2, <2>4
    <2>6. TenTo[i - 1] = f[i - 1]
      BY <2>2, <2>5
    <2> QED
      BY <1>6, <2>2, <2>3, <2>4, <2>5, <2>6
  <1>10. TenTo = [k \in 0..n |-> TenTo[k]]
    BY <1>8
  <1>11. TenTo = f
    BY <1>5, <1>9, <1>10
  <1> QED
    BY <1>5, <1>6, <1>11 DEF n

\* A power of ten is the product of two whose exponents add up to its own.
LEMMA TenToAdds ==
    ASSUME NEW a \in Nat, NEW b \in Nat, a + b <= DecimalScale
    PROVE  TenTo[a + b] = TenTo[a] * TenTo[b]
  <1> DEFINE wrong == {i \in Nat : a + i <= DecimalScale /\ TenTo[a + i] # TenTo[a] * TenTo[i]}
  <1>1. DecimalScale \in Nat
    BY DecimalAssumption
  <1>2. SUFFICES ASSUME wrong # {} PROVE FALSE
    OBVIOUS
  <1>3. PICK i \in wrong : \A j \in wrong : i <= j
    BY <1>2, SmallestExists
  <1>4. a \in 0..DecimalScale /\ TenTo[a] \in Nat
    BY <1>1, PowersOfTen DEF Positives
  <1>5. i # 0
    <2>1. a + 0 = a /\ TenTo[a] * 1 = TenTo[a]
      BY <1>4
    <2> QED
      BY <1>3, <2>1, PowersOfTen
  <1>6. /\ i - 1 \in Nat /\ ~(i <= i - 1) /\ a + (i - 1) <= DecimalScale
        /\ i \in 1..DecimalScale /\ a + i \in 1..DecimalScale
        /\ a + i - 1 = a + (i - 1) /\ i - 1 \in 0..DecimalScale
    BY <1>1, <1>3, <1>5
  <1>7. TenTo[a + (i - 1)] = TenTo[a] * TenTo[i - 1]
    BY <1>3, <1>6
  <1>8. TenTo[i] = 10 * TenTo[i - 1] /\ TenTo[i - 1] \in Nat
    BY <1>6, PowersOfTen DEF Positives
  <1>9. TenTo[a + i] = 10 * TenTo[a + (i - 1)]
    <2>1. TenTo[a + i] = 10 * TenTo[a + i - 1]
      BY <1>6, PowersOfTen
    <2> QED
      BY <1>6, <2>1
  <1>10. 10 * (TenTo[a] * TenTo[i - 1]) = TenTo[a] * (10 * TenTo[i - 1])
    BY <1>4, <1>8
  <1> QED
    BY <1>3, <1>7, <1>8, <1>9, <1>10

\* What a positive number divides and multiplies.
LEMMA Quotient ==
    ASSUME NEW raw \in Int, NEW p \in Positives, raw % p = 0
    PROVE  raw \div p \in Int /\ raw = (raw \div p) * p
  BY DEF Positives

\* A positive number divides its products and can be cancelled, from an equation and from an
\* inequality.
LEMMA ProductDivides ==
    ASSUME NEW m \in Int, NEW p \in Positives
    PROVE  (m * p) % p = 0
  BY DEF Positives

LEMMA CancelProduct ==
    ASSUME NEW a \in Int, NEW b \in Int, NEW p \in Positives, a * p = b * p
    PROVE  a = b
  BY DEF Positives

LEMMA CancelLess ==
    ASSUME NEW a \in Int, NEW b \in Int, NEW p \in Positives, a * p < b * p
    PROVE  a < b
  BY DEF Positives

\* Multiplying by a positive number keeps the order.
LEMMA LessProduct ==
    ASSUME NEW a \in Int, NEW b \in Int, NEW p \in Positives, a < b
    PROVE  a * p < b * p
  BY DEF Positives

\* A factor is no larger than its product with a positive number, and of the same sign.
LEMMA FactorIsWithin ==
    ASSUME NEW q \in Int, NEW p \in Positives, NEW max \in Nat, q * p \in -max..max
    PROVE  q \in -max..max /\ (q * p >= 0 => q >= 0)
  BY DEF Positives

\* A column's integer stands for the decimal that was written, read back with no more digits
\* and the same sign.
LEMMA StoredAndBack ==
    ASSUME NEW d, IsDecimal(d)
    PROVE  LET e == FromStorageDecimal(ToStorageDecimal(d))
           IN  IsDecimal(e) /\ SameValue(e, d) /\ (d.mantissa >= 0 => e.mantissa >= 0)
  <1> DEFINE n       == DecimalScale
             m       == d.mantissa
             k       == d.scale
             raw     == m * TenTo[n - k]
             digits  == {i \in 0..n : raw % TenTo[n - i] = 0}
  <1>1. n \in Nat /\ MaxMantissa \in Nat
    BY DecimalAssumption
  <1>2. m \in Int /\ m \in -MaxMantissa..MaxMantissa /\ k \in 0..n /\ k \in Nat /\ n - k \in 0..n
    BY <1>1 DEF IsDecimal
  <1>3. \A i \in 0..n : TenTo[i] \in Positives /\ TenTo[i] \in Nat
    BY PowersOfTen DEF Positives
  <1>4. raw \in Int
    BY <1>2, <1>3
  <1>5. k \in digits
    BY <1>2, <1>3, ProductDivides
  <1>6. PICK s \in digits : \A i \in digits : s <= i
    <2>1. digits \in SUBSET Nat
      BY <1>1
    <2> HIDE DEF digits
    <2> QED
      BY <1>5, <2>1, SmallestExists
  <1>7. Min(digits) = s
    <2>1. \A i \in digits : i \in Int
      BY <1>1
    <2>2. Min(digits) \in digits /\ \A i \in digits : Min(digits) <= i
      <3> HIDE DEF digits
      <3> QED
        BY <1>6 DEF Min
    <2> HIDE DEF digits
    <2> QED
      BY <1>6, <2>1, <2>2
  <1> DEFINE q == raw \div TenTo[n - s]
             e == [mantissa |-> q, scale |-> s]
  <1>8. FromStorageDecimal(ToStorageDecimal(d)) = e
    <2>1. ToStorageDecimal(d) = raw
      BY DEF ToStorageDecimal
    <2> HIDE DEF raw
    <2> QED
      BY <1>7, <2>1 DEF FromStorageDecimal
  <1>9. s \in 0..n /\ s \in Nat /\ s <= k /\ k - s \in Nat /\ n - s \in 0..n
    BY <1>1, <1>2, <1>5, <1>6
  <1>10. q \in Int /\ raw = q * TenTo[n - s]
    <2>1. raw % TenTo[n - s] = 0 /\ TenTo[n - s] \in Positives
      BY <1>3, <1>6, <1>9
    <2> HIDE DEF raw, digits
    <2> QED
      BY <1>4, <2>1, Quotient
  <1> HIDE DEF q, digits
  <1>11. TenTo[n - s] = TenTo[k - s] * TenTo[n - k]
    <2>1. n - k \in Nat /\ (k - s) + (n - k) = n - s /\ n - s <= n
      BY <1>1, <1>2, <1>9
    <2> HIDE DEF n, k
    <2> QED
      BY <1>9, <2>1, TenToAdds DEF n
  <1>12. TenTo[k] = TenTo[k - s] * TenTo[s]
    <2>1. (k - s) + s = k /\ k <= n
      BY <1>1, <1>2, <1>9
    <2> HIDE DEF n, k
    <2> QED
      BY <1>9, <2>1, TenToAdds DEF n
  <1>13. k - s \in 0..n
    BY <1>1, <1>2, <1>9
  <1>14. m = q * TenTo[k - s]
    <2> DEFINE x == TenTo[k - s]
               y == TenTo[n - k]
    <2>1. x \in Positives /\ y \in Positives /\ x \in Nat
      BY <1>2, <1>3, <1>13
    <2>2. m * y = q * (x * y)
      BY <1>10, <1>11
    <2> HIDE DEF x, y, m
    <2>3. q * (x * y) = (q * x) * y /\ q * x \in Int
      BY <1>10, <2>1 DEF Positives
    <2>4. m = q * x
      BY <1>2, <2>1, <2>2, <2>3, CancelProduct
    <2> QED
      BY <2>4 DEF x
  <1>15. q * TenTo[k] = m * TenTo[s]
    <2> DEFINE x == TenTo[k - s]
               z == TenTo[s]
    <2>1. x \in Nat /\ z \in Nat
      BY <1>3, <1>9, <1>13
    <2>2. q * TenTo[k] = q * (x * z) /\ m * TenTo[s] = (q * x) * z
      BY <1>12, <1>14
    <2> HIDE DEF x, z
    <2>3. q * (x * z) = (q * x) * z
      BY <1>10, <2>1
    <2> QED
      BY <2>2, <2>3
  <1>16. q \in -MaxMantissa..MaxMantissa /\ (m >= 0 => q >= 0)
    <2> DEFINE x == TenTo[k - s]
    <2>1. x \in Positives /\ q * x \in -MaxMantissa..MaxMantissa /\ m = q * x
      BY <1>2, <1>3, <1>13, <1>14
    <2> HIDE DEF x
    <2>2. q \in -MaxMantissa..MaxMantissa /\ (q * x >= 0 => q >= 0)
      BY <1>1, <1>10, <2>1, FactorIsWithin
    <2> QED
      BY <2>1, <2>2
  <1>17. IsDecimal(e) /\ SameValue(e, d)
    BY <1>9, <1>15, <1>16 DEF IsDecimal, SameValue
  <1>18. d.mantissa >= 0 => e.mantissa >= 0
    BY <1>16
  <1> HIDE DEF e
  <1> QED
    BY <1>8, <1>17, <1>18

\* Columns are ordered as the decimals that were written.
LEMMA StorageAscends ==
    ASSUME NEW a, IsDecimal(a), NEW b, IsDecimal(b)
    PROVE  /\ ToStorageDecimal(a) \in Int /\ ToStorageDecimal(b) \in Int
           /\ Below(a, b) => ToStorageDecimal(a) < ToStorageDecimal(b)
  <1> DEFINE n == DecimalScale
             i == a.scale
             j == b.scale
             x == a.mantissa
             y == b.mantissa
  <1>1. n \in Nat
    BY DecimalAssumption
  <1>2. /\ i \in 0..n /\ j \in 0..n /\ n - i \in 0..n /\ n - j \in 0..n
        /\ x \in Int /\ y \in Int
    BY <1>1, DecimalAssumption DEF IsDecimal
  <1>3. \A k \in 0..n : TenTo[k] \in Positives
    BY PowersOfTen
  <1> DEFINE p == TenTo[i]
             q == TenTo[j]
             r == TenTo[n - i]
             s == TenTo[n - j]
             t == TenTo[n]
  <1>4. p \in Positives /\ q \in Positives /\ r \in Positives /\ s \in Positives /\ t \in Positives
    BY <1>1, <1>2, <1>3
  <1>5. t = p * r /\ t = q * s
    <2>1. i \in Nat /\ n - i \in Nat /\ i + (n - i) = n /\ j \in Nat /\ n - j \in Nat /\ j + (n - j) = n
      BY <1>1, <1>2
    <2> HIDE DEF i, j
    <2> QED
      BY <1>1, <2>1, TenToAdds
  <1>6. ToStorageDecimal(a) = x * r /\ ToStorageDecimal(b) = y * s
    BY DEF ToStorageDecimal
  <1>7. Below(a, b) => x * q < y * p
    BY DEF Below
  <1> HIDE DEF p, q, r, s, t, x, y, i, j, n
  <1>8. x * r \in Int /\ y * s \in Int /\ x * q \in Int /\ y * p \in Int /\ p * q \in Positives
    BY <1>2, <1>4 DEF Positives
  <1>9. ASSUME x * q < y * p PROVE x * r < y * s
    <2>1. (x * q) * t < (y * p) * t
      BY <1>4, <1>8, <1>9, LessProduct
    <2>2. (x * q) * t = (x * r) * (p * q)
      <3>1. (x * q) * (p * r) = (x * r) * (p * q)
        BY <1>2, <1>4 DEF Positives
      <3> QED
        BY <1>5, <3>1
    <2>3. (y * p) * t = (y * s) * (p * q)
      <3>1. (y * p) * (q * s) = (y * s) * (p * q)
        BY <1>2, <1>4 DEF Positives
      <3> QED
        BY <1>5, <3>1
    <2>4. (x * r) * (p * q) < (y * s) * (p * q)
      BY <2>1, <2>2, <2>3
    <2> QED
      BY <1>8, <2>4, CancelLess
  <1> QED
    BY <1>6, <1>7, <1>8, <1>9

-----------------------------------------------------------------------------
(* What is rebuilt of rows                                                  *)

\* What is made of a row that is read.
Back(row) ==
    [expires_at |-> row.expires_at, labels |-> row.labels,
     days |-> FromStorageDecimal(row.days), quote |-> QuoteFrom(row)]

\* The expirations and the rows that are made of rows with these values.
Built(T, L, D, Q) == [expires_at : T, days : D, labels : L, quotes : Seq(Q)]

Backs(T, L, D, Q) == [expires_at : T, labels : L, days : D, quote : Q]

Opening(row) ==
    [expires_at |-> row.expires_at, days |-> FromStorageDecimal(row.days),
     labels |-> row.labels, quotes |-> <<QuoteFrom(row)>>]

\* The rows of one expiration.
Part(e) == [j \in DOMAIN e.quotes |-> ExportRow(e, e.quotes[j])]

Parts(es) == [i \in DOMAIN es |-> Part(es[i])]

\* An export joins the rows of the expirations.
LEMMA RenderedParts == \A es : Rendered(es) = FlattenSeq(Parts(es))
  BY DEF Rendered, Parts, Part

\* Sequences are equal if they are as long as one another and have the same elements.
LEMMA SameElements ==
    ASSUME NEW S, NEW s \in Seq(S), NEW t \in Seq(S), Len(s) = Len(t),
           \A i \in 1..Len(s) : s[i] = t[i]
    PROVE  s = t
  OBVIOUS

\* Appending to what is joined is appending to its last part.
LEMMA AppendJoined ==
    ASSUME NEW S, NEW s \in Seq(S), NEW t \in Seq(S), NEW x \in S
    PROVE  s \o Append(t, x) = Append(s \o t, x)
  OBVIOUS

\* An expiration has a row for each of its quotes.
LEMMA PartType ==
    ASSUME NEW T, NEW L, NEW D, NEW Q, NEW e \in Built(T, L, D, Q)
    PROVE  /\ Part(e) \in Seq(Backs(T, L, D, Q))
           /\ Len(Part(e)) = Len(e.quotes)
           /\ \A j \in 1..Len(e.quotes) : Part(e)[j] = ExportRow(e, e.quotes[j])
  <1>1. /\ e.expires_at \in T /\ e.labels \in L /\ e.days \in D /\ e.quotes \in Seq(Q)
    BY DEF Built
  <1>2. \A q \in Q : ExportRow(e, q) \in Backs(T, L, D, Q)
    BY <1>1 DEF ExportRow, Backs
  <1>3. DOMAIN e.quotes = 1..Len(e.quotes) /\ Len(e.quotes) \in Nat
        /\ \A j \in 1..Len(e.quotes) : e.quotes[j] \in Q
    BY <1>1
  <1> QED
    BY <1>2, <1>3 DEF Part

\* Expirations have a part each.
LEMMA PartsType ==
    ASSUME NEW T, NEW L, NEW D, NEW Q, NEW es \in Seq(Built(T, L, D, Q))
    PROVE  /\ Parts(es) \in Seq(Seq(Backs(T, L, D, Q)))
           /\ Len(Parts(es)) = Len(es)
           /\ \A i \in 1..Len(es) : Parts(es)[i] = Part(es[i])
  <1>1. \A i \in 1..Len(es) : Part(es[i]) \in Seq(Backs(T, L, D, Q))
    <2> TAKE i \in 1..Len(es)
    <2>1. es[i] \in Built(T, L, D, Q)
      OBVIOUS
    <2> QED
      BY <2>1, PartType
  <1>2. DOMAIN es = 1..Len(es) /\ Len(es) \in Nat
    OBVIOUS
  <1> QED
    BY <1>1, <1>2 DEF Parts

\* One more expiration is rendered after the others.
LEMMA RenderedAppend ==
    ASSUME NEW T, NEW L, NEW D, NEW Q, NEW es \in Seq(Built(T, L, D, Q)),
           NEW e \in Built(T, L, D, Q)
    PROVE  /\ Rendered(es) \in Seq(Backs(T, L, D, Q))
           /\ Rendered(Append(es, e)) = Rendered(es) \o Part(e)
  <1> DEFINE S == Backs(T, L, D, Q)
             more == Append(es, e)
  <1>1. /\ more \in Seq(Built(T, L, D, Q)) /\ Len(more) = Len(es) + 1 /\ Len(es) \in Nat
        /\ \A i \in 1..Len(es) : more[i] = es[i]
        /\ more[Len(es) + 1] = e
    OBVIOUS
  <1>2. /\ Parts(es) \in Seq(Seq(S)) /\ Len(Parts(es)) = Len(es)
        /\ \A i \in 1..Len(es) : Parts(es)[i] = Part(es[i])
    BY PartsType
  <1> HIDE DEF more
  <1>3. /\ Parts(more) \in Seq(Seq(S)) /\ Len(Parts(more)) = Len(es) + 1
        /\ \A i \in 1..(Len(es) + 1) : Parts(more)[i] = Part(more[i])
    <2>1. /\ Parts(more) \in Seq(Seq(S)) /\ Len(Parts(more)) = Len(more)
          /\ \A i \in 1..Len(more) : Parts(more)[i] = Part(more[i])
      BY <1>1, PartsType
    <2> QED
      BY <1>1, <2>1
  <1>4. Part(e) \in Seq(S)
    BY PartType
  <1> HIDE DEF S
  <1>5. Parts(more) = Append(Parts(es), Part(e))
    <2> DEFINE other == Append(Parts(es), Part(e))
    <2>1. /\ other \in Seq(Seq(S)) /\ Len(other) = Len(es) + 1
          /\ \A i \in 1..Len(es) : other[i] = Parts(es)[i]
          /\ other[Len(es) + 1] = Part(e)
      BY <1>2, <1>4
    <2> HIDE DEF other
    <2>2. ASSUME NEW i \in 1..(Len(es) + 1) PROVE Parts(more)[i] = other[i]
      <3>1. CASE i = Len(es) + 1
        BY <1>1, <1>3, <2>1, <3>1
      <3>2. CASE i # Len(es) + 1
        <4>1. i \in 1..Len(es)
          BY <1>1, <3>2
        <4> QED
          BY <1>1, <1>2, <1>3, <2>1, <4>1
      <3> QED
        BY <3>1, <3>2
    <2>3. Parts(more) = other
      <3>1. Len(Parts(more)) = Len(other) /\ \A i \in 1..Len(Parts(more)) : Parts(more)[i] = other[i]
        BY <1>3, <2>1, <2>2
      <3> QED
        BY <1>3, <2>1, <3>1, SameElements, Zenon
    <2> QED
      BY <2>3 DEF other
  <1>6. /\ FlattenSeq(Parts(es)) \in Seq(S)
        /\ FlattenSeq(Append(Parts(es), Part(e))) = FlattenSeq(Parts(es)) \o Part(e)
    BY <1>2, <1>4, FlattenAppend
  <1> QED
    BY <1>5, <1>6, RenderedParts DEF S, more

\* The last of some expirations, and the others.
LEMMA LastOf ==
    ASSUME NEW X, NEW es \in Seq(X), es # <<>>
    PROVE  /\ Len(es) \in Nat /\ Len(es) >= 1
           /\ Last(es) = es[Len(es)] /\ Last(es) \in X
           /\ \E front \in Seq(X) : es = Append(front, Last(es)) /\ Len(front) = Len(es) - 1
  <1>1. Len(es) \in Nat /\ Len(es) >= 1
    OBVIOUS
  <1>2. Last(es) = es[Len(es)] /\ es[Len(es)] \in X
    BY <1>1 DEF Last
  <1> DEFINE n     == Len(es) - 1
             front == [i \in 1..n |-> es[i]]
             whole == Append(front, es[Len(es)])
  <1>3. front \in Seq(X) /\ Len(front) = n
    BY <1>1
  <1>4. /\ whole \in Seq(X) /\ Len(whole) = Len(es)
        /\ \A i \in 1..Len(es) : whole[i] = es[i]
    <2>1. \A i \in 1..n : front[i] = es[i]
      OBVIOUS
    <2>2. n \in Nat /\ Len(es) = n + 1
      BY <1>1
    <2> HIDE DEF front, n
    <2>3. /\ whole \in Seq(X) /\ Len(whole) = n + 1
          /\ \A i \in 1..n : whole[i] = front[i]
          /\ whole[n + 1] = es[Len(es)]
      BY <1>2, <1>3, <2>2
    <2> HIDE DEF whole
    <2>4. ASSUME NEW i \in 1..Len(es) PROVE whole[i] = es[i]
      <3>1. i = n + 1 \/ i \in 1..n
        BY <2>2
      <3> QED
        BY <2>1, <2>2, <2>3, <3>1
    <2> QED
      BY <2>2, <2>3, <2>4
  <1> HIDE DEF whole
  <1>5. es = whole
    BY <1>4, SameElements
  <1> HIDE DEF front
  <1> QED
    BY <1>1, <1>2, <1>3, <1>5 DEF whole

\* A row fits expirations that end with its own, or before it.
Goes(row, es) ==
    (es # <<>> /\ Last(es).expires_at = row.expires_at) =>
        Last(es).days = FromStorageDecimal(row.days) /\ Last(es).labels = row.labels

\* The row's own expiration is the last of what is built.
Ends(row, es) ==
    /\ es # <<>>
    /\ Last(es).expires_at = row.expires_at
    /\ Last(es).days = FromStorageDecimal(row.days)
    /\ Last(es).labels = row.labels

\* The last element is the one that was appended.
LEMMA LastIsAppended ==
    ASSUME NEW X, NEW es \in Seq(X), NEW e \in X
    PROVE  Append(es, e) \in Seq(X) /\ Append(es, e) # <<>> /\ Last(Append(es, e)) = e
  BY DEF Last

\* A row of an expiration that is there already is added to its quotes.
LEMMA TakenOnce ==
    ASSUME NEW T, NEW L, NEW D, NEW Q, NEW es \in Seq(Built(T, L, D, Q)), NEW row,
           QuoteFrom(row) \in Q,
           es # <<>>, Last(es).expires_at = row.expires_at
    PROVE  \E front \in Seq(Built(T, L, D, Q)), last \in Built(T, L, D, Q) :
               /\ es = Append(front, Last(es))
               /\ Taken(es, row) = Append(front, last)
               /\ last.expires_at = Last(es).expires_at
               /\ last.labels = Last(es).labels
               /\ last.days = Last(es).days
               /\ last.quotes = Append(Last(es).quotes, QuoteFrom(row))
  <1> DEFINE X    == Built(T, L, D, Q)
             l    == Last(es)
             q    == QuoteFrom(row)
             n    == Len(es)
             last == [l EXCEPT !.quotes = Append(@, q)]
             new  == [es EXCEPT ![n].quotes = Append(@, q)]
  <1>1. /\ n \in Nat /\ n >= 1 /\ l = es[n] /\ l \in X
        /\ \E front \in Seq(X) : es = Append(front, l) /\ Len(front) = n - 1
    BY LastOf
  <1>2. PICK front \in Seq(X) : es = Append(front, l) /\ Len(front) = n - 1
    BY <1>1
  <1>3. /\ last \in X /\ last.expires_at = l.expires_at /\ last.labels = l.labels
        /\ last.days = l.days /\ last.quotes = Append(l.quotes, q)
    <2> HIDE DEF l, q
    <2>1. q \in Q
      BY DEF q
    <2>2. l \in [expires_at : T, days : D, labels : L, quotes : Seq(Q)]
      BY <1>1 DEF Built
    <2>3. Append(l.quotes, q) \in Seq(Q)
      BY <2>1, <2>2
    <2> QED
      BY <2>2, <2>3 DEF Built
  <1>4. Taken(es, row) = new
    BY DEF Taken
  <1>5. new = [es EXCEPT ![n] = last]
    BY <1>1
  <1>6. es \in Seq(X)
    OBVIOUS
  <1> HIDE DEF new, last, l, X
  <1>7. new \in Seq(X) /\ Len(new) = n /\ \A i \in 1..n : new[i] = IF i = n THEN last ELSE es[i]
    <2>1. DOMAIN es = 1..n /\ \A i \in 1..n : es[i] \in X
      BY <1>6
    <2>2. new = [i \in 1..n |-> IF i = n THEN last ELSE es[i]]
      BY <1>1, <1>5, <2>1
    <2> HIDE DEF n
    <2>3. new \in [1..n -> X]
      BY <1>3, <2>1, <2>2
    <2>4. new \in Seq(X) /\ Len(new) = n
      BY <1>1, <2>3
    <2> QED
      BY <2>2, <2>4
  <1>8. \A i \in 1..(n - 1) : front[i] = es[i]
    BY <1>1, <1>2
  <1> HIDE DEF n
  <1>9. new = Append(front, last)
    <2> DEFINE other == Append(front, last)
    <2>1. /\ other \in Seq(X) /\ Len(other) = n
          /\ \A i \in 1..(n - 1) : other[i] = front[i]
          /\ other[n] = last
      BY <1>1, <1>2, <1>3
    <2> HIDE DEF other
    <2>2. ASSUME NEW i \in 1..n PROVE new[i] = other[i]
      <3>1. i = n \/ (i # n /\ i \in 1..(n - 1))
        BY <1>1
      <3> QED
        BY <1>7, <1>8, <2>1, <3>1
    <2>3. Len(new) = Len(other) /\ \A i \in 1..Len(new) : new[i] = other[i]
      BY <1>7, <2>1, <2>2
    <2>4. new = other
      BY <1>7, <2>1, <2>3, SameElements, Zenon
    <2> QED
      BY <2>4 DEF other
  <1> QED
    BY <1>2, <1>3, <1>4, <1>9 DEF X, l, q

\* Whether it opens an expiration or not, a row that fits is rendered after the others, and
\* the next row of its expiration fits as well.
LEMMA TakenKeeps ==
    ASSUME NEW T, NEW L, NEW D, NEW Q, NEW es \in Seq(Built(T, L, D, Q)), NEW row,
           row.expires_at \in T, row.labels \in L, FromStorageDecimal(row.days) \in D,
           QuoteFrom(row) \in Q
    PROVE  /\ Taken(es, row) \in Seq(Built(T, L, D, Q))
           /\ Goes(row, es) => /\ Ends(row, Taken(es, row))
                               /\ Rendered(Taken(es, row)) = Append(Rendered(es), Back(row))
  <1> DEFINE X    == Built(T, L, D, Q)
             S    == Backs(T, L, D, Q)
             q    == QuoteFrom(row)
             same == es # <<>> /\ Last(es).expires_at = row.expires_at
  <1>1. CASE ~same
    <2> DEFINE e == Opening(row)
    <2>1. Taken(es, row) = Append(es, e)
      BY <1>1 DEF Taken, Opening
    <2>2. /\ e \in X /\ e.expires_at = row.expires_at /\ e.days = FromStorageDecimal(row.days)
          /\ e.labels = row.labels
      <3>1. <<QuoteFrom(row)>> \in Seq(Q)
        OBVIOUS
      <3> QED
        BY <3>1 DEF Built, Opening
    <2>3. Part(e) = <<Back(row)>>
      <3>1. e.quotes = <<q>> /\ DOMAIN e.quotes = {1}
        BY DEF Opening
      <3>2. ExportRow(e, q) = Back(row)
        BY <2>2 DEF ExportRow, Back
      <3>3. Part(e) = [j \in {1} |-> Back(row)]
        BY <3>1, <3>2 DEF Part
      <3> QED
        BY <3>3
    <2> HIDE DEF e
    <2>4. /\ Rendered(es) \in Seq(S)
          /\ Rendered(Append(es, e)) = Rendered(es) \o Part(e)
      BY <2>2, RenderedAppend
    <2>5. Back(row) \in S
      BY DEF Back, Backs
    <2>6. Rendered(es) \o <<Back(row)>> = Append(Rendered(es), Back(row))
      <3> HIDE DEF S
      <3> QED
        BY <2>4, <2>5
    <2>7. Append(es, e) \in Seq(X) /\ Append(es, e) # <<>> /\ Last(Append(es, e)) = e
      BY <2>2, LastIsAppended
    <2> QED
      BY <2>1, <2>2, <2>3, <2>4, <2>6, <2>7 DEF Ends
  <1>2. CASE same
    <2>1. PICK front \in Seq(X), last \in X :
               /\ es = Append(front, Last(es))
               /\ Taken(es, row) = Append(front, last)
               /\ last.expires_at = Last(es).expires_at
               /\ last.labels = Last(es).labels
               /\ last.days = Last(es).days
               /\ last.quotes = Append(Last(es).quotes, QuoteFrom(row))
      BY <1>2, TakenOnce
    <2>2. /\ Taken(es, row) \in Seq(X) /\ Taken(es, row) # <<>>
          /\ Last(Taken(es, row)) = last
      <3> HIDE DEF X
      <3> QED
        BY <2>1, LastIsAppended
    <2>3. ASSUME Goes(row, es)
          PROVE  /\ last.expires_at = row.expires_at /\ last.labels = row.labels
                 /\ last.days = FromStorageDecimal(row.days)
      BY <1>2, <2>1, <2>3 DEF Goes
    <2> DEFINE l == Last(es)
    <2>4. l \in X
      BY <1>2, LastOf
    <2>5. ASSUME Goes(row, es) PROVE Part(last) = Append(Part(l), Back(row))
      <3>1. /\ Part(l) \in Seq(S) /\ Len(Part(l)) = Len(l.quotes)
            /\ \A j \in 1..Len(l.quotes) : Part(l)[j] = ExportRow(l, l.quotes[j])
        BY <2>4, PartType
      <3>2. /\ Part(last) \in Seq(S) /\ Len(Part(last)) = Len(last.quotes)
            /\ \A j \in 1..Len(last.quotes) : Part(last)[j] = ExportRow(last, last.quotes[j])
        <4>1. last \in Built(T, L, D, Q)
          BY <2>1
        <4> QED
          BY <4>1, PartType
      <3>3. l.quotes \in Seq(Q) /\ q \in Q /\ Len(l.quotes) \in Nat
        BY <2>4 DEF Built
      <3>4. /\ Len(last.quotes) = Len(l.quotes) + 1
            /\ \A j \in 1..Len(l.quotes) : last.quotes[j] = l.quotes[j]
            /\ last.quotes[Len(l.quotes) + 1] = q
        <4>1. last.quotes = Append(l.quotes, q)
          BY <2>1
        <4> QED
          BY <3>3, <4>1
      <3>5. Back(row) \in S
        BY DEF Back, Backs
      <3>6. \A x : ExportRow(last, x) = ExportRow(l, x)
        BY <2>1 DEF ExportRow
      <3>7. ExportRow(last, q) = Back(row)
        BY <2>3, <2>5 DEF ExportRow, Back
      <3> HIDE DEF S, X, l
      <3> DEFINE other == Append(Part(l), Back(row))
                 n     == Len(l.quotes)
      <3>8. /\ other \in Seq(S) /\ Len(other) = n + 1
            /\ \A j \in 1..n : other[j] = Part(l)[j]
            /\ other[n + 1] = Back(row)
        <4>1. Part(l) \in Seq(S) /\ Len(Part(l)) = n
          BY <3>1
        <4> HIDE DEF n
        <4> QED
          BY <3>5, <4>1
      <3> HIDE DEF other
      <3>9. ASSUME NEW j \in 1..(n + 1) PROVE Part(last)[j] = other[j]
        <4>1. j = n + 1 \/ j \in 1..n
          BY <3>3
        <4>2. Part(last)[j] = ExportRow(last, last.quotes[j])
          BY <3>2, <3>4
        <4>3. CASE j = n + 1
          BY <3>4, <3>7, <3>8, <4>2, <4>3
        <4>4. CASE j \in 1..n
          BY <3>1, <3>4, <3>6, <3>8, <4>2, <4>4
        <4> QED
          BY <4>1, <4>3, <4>4
      <3>10. Len(Part(last)) = Len(other) /\ \A j \in 1..Len(Part(last)) : Part(last)[j] = other[j]
        BY <3>2, <3>4, <3>8, <3>9
      <3>11. Part(last) = other
        BY <3>2, <3>8, <3>10, SameElements, Zenon
      <3> QED
        BY <3>11 DEF other
    <2>6. ASSUME Goes(row, es)
          PROVE  Rendered(Taken(es, row)) = Append(Rendered(es), Back(row))
      <3>1. /\ Rendered(front) \in Seq(S)
            /\ Rendered(Append(front, l)) = Rendered(front) \o Part(l)
        BY <2>4, RenderedAppend
      <3>2. Rendered(Append(front, last)) = Rendered(front) \o Part(last)
        BY RenderedAppend
      <3>3. Part(l) \in Seq(S) /\ Back(row) \in S
        <4>1. Part(l) \in Seq(S)
          BY <2>4, PartType
        <4> QED
          BY <4>1 DEF Back, Backs
      <3> HIDE DEF S, l
      <3>4. Rendered(front) \o Append(Part(l), Back(row)) = Append(Rendered(front) \o Part(l), Back(row))
        BY <3>1, <3>3, AppendJoined
      <3> QED
        BY <2>1, <2>5, <2>6, <3>1, <3>2, <3>4 DEF l
    <2> QED
      BY <2>2, <2>3, <2>6 DEF Ends
  <1> QED
    BY <1>1, <1>2

\* The rows of expirations have the expirations' values.
LEMMA RenderedType ==
    ASSUME NEW T, NEW L, NEW D, NEW Q, NEW es \in Seq(Built(T, L, D, Q))
    PROVE  Rendered(es) \in Seq(Backs(T, L, D, Q))
  <1>1. Parts(es) \in Seq(Seq(Backs(T, L, D, Q)))
    BY PartsType
  <1>2. <<>> \in Seq(Backs(T, L, D, Q))
    OBVIOUS
  <1>3. FlattenSeq(Parts(es)) \in Seq(Backs(T, L, D, Q))
    BY <1>1, <1>2, FlattenAppend
  <1> QED
    BY <1>3, RenderedParts

\* Consecutive rows of one instant have the same days and labels.
Consistent(W, n) ==
    \A k \in 2..n : W[k - 1].expires_at = W[k].expires_at =>
                        W[k - 1].days = W[k].days /\ W[k - 1].labels = W[k].labels

\* The rows of what is rebuilt are what is made of the rows that were read.
LEMMA Regrouped ==
    ASSUME NEW R, NEW W \in Seq(R), Consistent(W, Len(W)),
           NEW T, NEW L, NEW D, NEW Q,
           \A k \in 1..Len(W) : /\ W[k].expires_at \in T /\ W[k].labels \in L
                                /\ FromStorageDecimal(W[k].days) \in D /\ QuoteFrom(W[k]) \in Q
    PROVE  /\ ExpirationsFrom(W) \in Seq(Built(T, L, D, Q))
           /\ Len(Rendered(ExpirationsFrom(W))) = Len(W)
           /\ \A k \in 1..Len(W) : Rendered(ExpirationsFrom(W))[k] = Back(W[k])
  <1> DEFINE n     == Len(W)
             X     == Seq(Built(T, L, D, Q))
             move  == [p \in Nat \X X |-> IF p[1] \in 1..n THEN Taken(p[2], W[p[1]]) ELSE p[2]]
             Is(h) == h = [i \in 0..n |-> IF i = 0 THEN <<>> ELSE Taken(h[i - 1], W[i])]
             upto  == CHOOSE h : Is(h)
  <1>1. n \in Nat
    OBVIOUS
  <1>2. ASSUME NEW k \in 1..n, NEW es \in X
        PROVE  /\ Taken(es, W[k]) \in X
               /\ Goes(W[k], es) => /\ Ends(W[k], Taken(es, W[k]))
                                    /\ Rendered(Taken(es, W[k])) = Append(Rendered(es), Back(W[k]))
    <2>1. /\ W[k].expires_at \in T /\ W[k].labels \in L
          /\ FromStorageDecimal(W[k].days) \in D /\ QuoteFrom(W[k]) \in Q
      OBVIOUS
    <2> QED
      BY <2>1, TakenKeeps
  <1>3. <<>> \in X
    OBVIOUS
  <1> HIDE DEF X
  <1>4. move \in [Nat \X X -> X]
    BY <1>2
  <1>5. PICK f : Stepwise(f, X, <<>>, move, n)
    <2> HIDE DEF move, n
    <2> QED
      BY <1>1, <1>3, <1>4, StepwiseExists
  <1>6. /\ f \in [0..n -> X] /\ f[0] = <<>>
        /\ \A i \in 1..n : f[i] = move[<<i, f[i - 1]>>]
    <2> HIDE DEF move, n
    <2> QED
      BY <1>5 DEF Stepwise
  <1>7. ASSUME NEW k \in 1..n PROVE f[k] = Taken(f[k - 1], W[k]) /\ f[k - 1] \in X
    <2>1. k \in Nat /\ k - 1 \in 0..n
      BY <1>1
    <2>2. <<k, f[k - 1]>> \in Nat \X X /\ f[k - 1] \in X
      BY <1>6, <2>1
    <2>3. f[k] = move[<<k, f[k - 1]>>]
      BY <1>6
    <2>4. move[<<k, f[k - 1]>>] = Taken(f[k - 1], W[k])
      <3> HIDE DEF n
      <3> QED
        BY <2>2
    <2> QED
      BY <2>2, <2>3, <2>4
  <1>8. Is(f)
    <2>1. \A k \in 0..n : k # 0 => k \in 1..n
      BY <1>1
    <2>2. f = [k \in 0..n |-> f[k]]
      BY <1>6
    <2>3. \A k \in 0..n : f[k] = IF k = 0 THEN <<>> ELSE Taken(f[k - 1], W[k])
      BY <1>6, <1>7, <2>1
    <2> HIDE DEF n
    <2> QED
      BY <2>2, <2>3
  <1>9. Is(upto) /\ ExpirationsFrom(W) = upto[n]
    <2>1. ExpirationsFrom(W) = upto[n]
      BY DEF ExpirationsFrom
    <2> HIDE DEF Is
    <2> QED
      BY <1>8, <2>1, Zenon
  <1> HIDE DEF n, upto, move
  <1>10. ASSUME NEW k \in 0..n, upto[k] # f[k] PROVE FALSE
    <2> DEFINE wrong == {i \in Nat : i \in 0..n /\ upto[i] # f[i]}
    <2>1. k \in wrong
      BY <1>1, <1>10
    <2>2. PICK i \in wrong : \A j \in wrong : i <= j
      BY <2>1, SmallestExists
    <2>3. upto[i] = IF i = 0 THEN <<>> ELSE Taken(upto[i - 1], W[i])
      BY <1>9, <2>2
    <2>4. i # 0
      BY <1>6, <2>2, <2>3
    <2>5. i \in 1..n /\ i - 1 \in 0..n /\ i - 1 \in Nat /\ ~(i <= i - 1)
      BY <1>1, <2>2, <2>4
    <2>6. upto[i - 1] = f[i - 1]
      BY <2>2, <2>5
    <2> QED
      BY <1>7, <2>2, <2>3, <2>4, <2>5, <2>6
  <1> DEFINE Rebuilt(k) ==
                 /\ Rendered(f[k]) \in Seq(Backs(T, L, D, Q))
                 /\ Len(Rendered(f[k])) = k
                 /\ \A j \in 1..k : Rendered(f[k])[j] = Back(W[j])
                 /\ IF k = 0 THEN f[k] = <<>> ELSE Ends(W[k], f[k])
  <1>11. Rebuilt(0)
    <2>1. Parts(<<>>) = <<>>
      BY DEF Parts
    <2>2. FlattenSeq(<<>>) = <<>>
      BY DEF FlattenSeq
    <2>3. Rendered(<<>>) = <<>>
      BY <2>1, <2>2, RenderedParts
    <2>4. Rendered(f[0]) = <<>> /\ f[0] = <<>>
      BY <1>6, <2>3
    <2>5. <<>> \in Seq(Backs(T, L, D, Q)) /\ Len(<<>>) = 0 /\ \A j : j \notin 1..0
      OBVIOUS
    <2> QED
      BY <2>4, <2>5
  <1>12. ASSUME NEW k \in 1..n, Rebuilt(k - 1) PROVE Rebuilt(k)
    <2>1. Goes(W[k], f[k - 1])
      <3>1. CASE k = 1
        BY <1>12, <3>1 DEF Goes
      <3>2. CASE k # 1
        <4>1. k \in 2..n /\ k - 1 # 0
          BY <1>1, <3>2
        <4>2. Ends(W[k - 1], f[k - 1])
          BY <1>12, <4>1
        <4>3. W[k - 1].expires_at = W[k].expires_at =>
                  W[k - 1].days = W[k].days /\ W[k - 1].labels = W[k].labels
          BY <4>1 DEF Consistent, n
        <4> QED
          BY <4>2, <4>3 DEF Goes, Ends
      <3> QED
        BY <3>1, <3>2
    <2>2. /\ Ends(W[k], f[k]) /\ Rendered(f[k]) = Append(Rendered(f[k - 1]), Back(W[k]))
      BY <1>2, <1>7, <2>1
    <2>3. Back(W[k]) \in Backs(T, L, D, Q)
      BY DEF Back, Backs, n
    <2> DEFINE S == Backs(T, L, D, Q)
               s == Rendered(f[k - 1])
    <2>4. s \in Seq(S) /\ Len(s) = k - 1 /\ \A j \in 1..(k - 1) : s[j] = Back(W[j])
      BY <1>12
    <2>5. k \in Nat /\ k # 0
      BY <1>1
    <2> HIDE DEF S, s
    <2>6. /\ Append(s, Back(W[k])) \in Seq(S) /\ Len(Append(s, Back(W[k]))) = k
          /\ \A j \in 1..(k - 1) : Append(s, Back(W[k]))[j] = s[j]
          /\ Append(s, Back(W[k]))[k] = Back(W[k])
      BY <2>3, <2>4, <2>5 DEF S
    <2>7. ASSUME NEW j \in 1..k PROVE Append(s, Back(W[k]))[j] = Back(W[j])
      <3>1. j = k \/ j \in 1..(k - 1)
        BY <2>5
      <3> QED
        BY <2>4, <2>6, <3>1
    <2> QED
      BY <2>2, <2>5, <2>6, <2>7 DEF s, S
  <1>13. ASSUME NEW k \in 0..n, ~Rebuilt(k) PROVE FALSE
    <2> DEFINE wrong == {i \in Nat : i \in 0..n /\ ~Rebuilt(i)}
    <2>1. k \in wrong
      BY <1>1, <1>13
    <2>2. PICK i \in wrong : \A j \in wrong : i <= j
      <3> HIDE DEF Rebuilt
      <3> QED
        BY <2>1, SmallestExists
    <2> HIDE DEF Rebuilt
    <2>3. i # 0
      BY <1>11, <2>2
    <2>4. i \in 1..n /\ i - 1 \in 0..n /\ i - 1 \in Nat /\ ~(i <= i - 1)
      BY <1>1, <2>2, <2>3
    <2>5. Rebuilt(i - 1)
      BY <2>2, <2>4
    <2> QED
      BY <1>12, <2>2, <2>4, <2>5
  <1>14. n \in 0..n
    BY <1>1
  <1>15. Rebuilt(n) /\ f[n] \in X /\ upto[n] = f[n]
    BY <1>6, <1>10, <1>13, <1>14
  <1>16. /\ Len(Rendered(f[n])) = n
         /\ \A j \in 1..n : Rendered(f[n])[j] = Back(W[j])
    BY <1>15
  <1> QED
    BY <1>9, <1>15, <1>16 DEF X, n

-----------------------------------------------------------------------------
(* What is written of a record, and what is read back                      *)

\* A sequence of integers in which each one is less than the next ascends.
LEMMA AscendsThroughout ==
    ASSUME NEW n \in Nat, NEW s, \A i \in 1..n : s[i] \in Int,
           \A i \in 1..(n - 1) : s[i] < s[i + 1]
    PROVE  \A i, j \in 1..n : i < j => s[i] < s[j]
  <1> SUFFICES ASSUME NEW i \in 1..n, NEW j \in 1..n, i < j, ~(s[i] < s[j]) PROVE FALSE
    OBVIOUS
  <1> DEFINE wrong == {k \in Nat : k \in 1..n /\ i < k /\ ~(s[i] < s[k])}
  <1>1. j \in wrong
    OBVIOUS
  <1>2. PICK k \in wrong : \A m \in wrong : k <= m
    BY <1>1, SmallestExists
  <1>3. k - 1 \in 1..n /\ k - 1 \in 1..(n - 1) /\ k - 1 \in Nat /\ ~(k <= k - 1) /\ i <= k - 1
    BY <1>2
  <1>4. s[k - 1] < s[k]
    <2>1. s[k - 1] < s[k - 1 + 1] /\ k - 1 + 1 = k
      BY <1>3
    <2> QED
      BY <2>1
  <1>5. i = k - 1 \/ s[i] < s[k - 1]
    BY <1>2, <1>3
  <1> QED
    BY <1>2, <1>3, <1>4, <1>5

\* The rows that are written of the expirations, one sequence for each.
Columns(e) == [j \in DOMAIN e.quotes |-> QuoteRow(e, e.quotes[j])]

AllColumns(es) == [i \in DOMAIN es |-> Columns(es[i])]

\* The places of the rows that are written and rendered of expirations es.
Written(W, V, outer, inner, es) ==
    /\ \A k \in 1..Len(W) :
           /\ outer[k] \in 1..Len(es) /\ inner[k] \in 1..Len(es[outer[k]].quotes)
           /\ W[k] = QuoteRow(es[outer[k]], es[outer[k]].quotes[inner[k]])
           /\ V[k] = ExportRow(es[outer[k]], es[outer[k]].quotes[inner[k]])
    /\ \A k, l \in 1..Len(W) :
           k < l => outer[k] < outer[l] \/ (outer[k] = outer[l] /\ inner[k] < inner[l])

\* A row is written, and one rendered, for each quote, in the same order.
LEMMA WrittenAsRendered ==
    ASSUME NEW record, IsRecord(record)
    PROVE  LET es == record.expirations
           IN  /\ QuoteRows(record) \in Seq(UNION {ToSet(Columns(e)) : e \in ToSet(es)})
               /\ Rendered(es) \in Seq(UNION {ToSet(Part(e)) : e \in ToSet(es)})
               /\ Len(QuoteRows(record)) = Len(Rendered(es))
               /\ \E outer, inner : Written(QuoteRows(record), Rendered(es), outer, inner, es)
  <1> DEFINE es == record.expirations
             S  == UNION {ToSet(Columns(e)) : e \in ToSet(es)}
             U  == UNION {ToSet(Part(e)) : e \in ToSet(es)}
             A  == AllColumns(es)
             B  == Parts(es)
  <1>1. /\ es \in Seq(ToSet(es))
        /\ \A e \in ToSet(es) : e.quotes \in Seq(ToSet(e.quotes))
    BY DEF IsRecord
  <1>2. /\ Len(es) \in Nat /\ DOMAIN es = 1..Len(es)
        /\ \A i \in 1..Len(es) : es[i] \in ToSet(es)
    BY <1>1 DEF ToSet
  <1>3. ASSUME NEW e \in ToSet(es)
        PROVE  /\ Columns(e) \in Seq(S) /\ Part(e) \in Seq(U)
               /\ Len(Columns(e)) = Len(e.quotes) /\ Len(Part(e)) = Len(e.quotes)
               /\ \A j \in 1..Len(e.quotes) : /\ Columns(e)[j] = QuoteRow(e, e.quotes[j])
                                              /\ Part(e)[j] = ExportRow(e, e.quotes[j])
    <2>1. Len(e.quotes) \in Nat /\ DOMAIN e.quotes = 1..Len(e.quotes)
      BY <1>1
    <2>2. /\ \A j \in DOMAIN Columns(e) : Columns(e)[j] \in S
          /\ \A j \in DOMAIN Part(e) : Part(e)[j] \in U
      BY DEF ToSet
    <2> HIDE DEF S, U, es
    <2>3. /\ Columns(e) = [j \in 1..Len(e.quotes) |-> QuoteRow(e, e.quotes[j])]
          /\ Part(e) = [j \in 1..Len(e.quotes) |-> ExportRow(e, e.quotes[j])]
      BY <2>1 DEF Columns, Part
    <2>4. Columns(e) \in [1..Len(e.quotes) -> S] /\ Part(e) \in [1..Len(e.quotes) -> U]
      BY <2>2, <2>3
    <2>5. /\ Columns(e) \in Seq(S) /\ Part(e) \in Seq(U)
          /\ Len(Columns(e)) = Len(e.quotes) /\ Len(Part(e)) = Len(e.quotes)
      BY <2>1, <2>4
    <2> QED
      BY <2>3, <2>5
  <1>4. /\ A = [i \in 1..Len(es) |-> Columns(es[i])] /\ B = [i \in 1..Len(es) |-> Part(es[i])]
    BY <1>2 DEF AllColumns, Parts
  <1>5. QuoteRows(record) = FlattenSeq(A) /\ Rendered(es) = FlattenSeq(B)
    <2>1. QuoteRows(record) = FlattenSeq(A)
      BY DEF QuoteRows, AllColumns, Columns
    <2> QED
      BY <2>1, RenderedParts
  <1> HIDE DEF A, B, S, U, es
  <1>6. /\ A \in Seq(Seq(S)) /\ B \in Seq(Seq(U)) /\ Len(A) = Len(es) /\ Len(B) = Len(es)
    BY <1>2, <1>3, <1>4
  <1>7. \A i \in 1..Len(es) : Len(A[i]) = Len(B[i])
    BY <1>2, <1>3, <1>4
  <1>8. /\ FlattenSeq(A) \in Seq(S) /\ FlattenSeq(B) \in Seq(U)
        /\ Len(FlattenSeq(A)) = Len(FlattenSeq(B))
        /\ \E outer, inner :
               /\ Placed(outer, inner, Len(FlattenSeq(A)), A, FlattenSeq(A))
               /\ Placed(outer, inner, Len(FlattenSeq(A)), B, FlattenSeq(B))
    BY <1>6, <1>7, Placement
  <1>9. PICK outer, inner : /\ Placed(outer, inner, Len(FlattenSeq(A)), A, FlattenSeq(A))
                            /\ Placed(outer, inner, Len(FlattenSeq(A)), B, FlattenSeq(B))
    BY <1>8
  <1>10. Written(FlattenSeq(A), FlattenSeq(B), outer, inner, es)
    <2> DEFINE W == FlattenSeq(A)
               V == FlattenSeq(B)
    <2>1. ASSUME NEW k \in 1..Len(W)
          PROVE  /\ outer[k] \in 1..Len(es) /\ inner[k] \in 1..Len(es[outer[k]].quotes)
                 /\ W[k] = QuoteRow(es[outer[k]], es[outer[k]].quotes[inner[k]])
                 /\ V[k] = ExportRow(es[outer[k]], es[outer[k]].quotes[inner[k]])
      <3>1. /\ outer[k] \in 1..Len(es) /\ inner[k] \in 1..Len(A[outer[k]])
            /\ W[k] = A[outer[k]][inner[k]] /\ V[k] = B[outer[k]][inner[k]]
        BY <1>6, <1>9 DEF Placed
      <3> DEFINE e == es[outer[k]]
      <3>2. A[outer[k]] = Columns(e) /\ B[outer[k]] = Part(e) /\ e \in ToSet(es)
        BY <1>2, <1>4, <3>1
      <3> HIDE DEF e, W, V
      <3>3. inner[k] \in 1..Len(e.quotes)
        BY <1>3, <3>1, <3>2
      <3> QED
        BY <1>3, <3>1, <3>2, <3>3 DEF e
    <2>2. \A k, l \in 1..Len(W) :
              k < l => outer[k] < outer[l] \/ (outer[k] = outer[l] /\ inner[k] < inner[l])
      BY <1>9 DEF Placed
    <2> HIDE DEF W, V
    <2>3. Written(W, V, outer, inner, es)
      BY <2>1, <2>2 DEF Written
    <2> QED
      BY <2>3 DEF W, V
  <1> QED
    BY <1>5, <1>8, <1>10 DEF S, U, es

\* The quotes of a record and their decimals.
LEMMA QuoteDecimals ==
    ASSUME NEW record, IsRecord(record), NEW e \in ToSet(record.expirations),
           NEW j \in 1..Len(e.quotes)
    PROVE  LET q == e.quotes[j]
           IN  /\ e.quotes \in Seq(ToSet(e.quotes))
               /\ e.expires_at \in Int /\ IsPrice(e.days)
               /\ "strike" \in DOMAIN q
               /\ \A field \in DOMAIN q :
                      IF field \in SignedFields THEN IsDecimal(q[field]) ELSE IsPrice(q[field])
               /\ \A field \in DOMAIN q : IsDecimal(q[field])
  <1> DEFINE q == e.quotes[j]
  <1>1. e.quotes \in Seq(ToSet(e.quotes)) /\ e.expires_at \in Int /\ IsPrice(e.days)
    BY DEF IsRecord, IsReadable
  <1>2. q \in ToSet(e.quotes)
    BY <1>1 DEF ToSet
  <1>3. q \in QuotesOf(record)
    BY <1>2 DEF QuotesOf
  <1> HIDE DEF q
  <1>4. /\ "strike" \in DOMAIN q
        /\ \A field \in DOMAIN q :
               IF field \in SignedFields THEN IsDecimal(q[field]) ELSE IsPrice(q[field])
    BY <1>3 DEF IsRecord, IsReadable
  <1>5. \A field \in DOMAIN q : IsDecimal(q[field])
    BY <1>4 DEF IsPrice
  <1> QED
    BY <1>1, <1>4, <1>5 DEF q

\* The rows of a valid record are written in the order of the store's key.
LEMMA WrittenInOrder ==
    ASSUME NEW record, IsRecord(record), IsOrdered(record)
    PROVE  LET W == QuoteRows(record)
               R == {W[k] : k \in 1..Len(W)}
           IN  Keyed(R) /\ Ascending(W, Len(W), R) /\ Consistent(W, Len(W))
  <1> DEFINE W  == QuoteRows(record)
             es == record.expirations
             R  == {W[k] : k \in 1..Len(W)}
  <1>1. /\ es \in Seq(ToSet(es)) /\ Len(es) \in Nat
        /\ \A i \in 1..Len(es) : es[i] \in ToSet(es)
    BY DEF IsRecord, ToSet
  <1>2. \A i, j \in 1..Len(es) : i < j => es[i].expires_at < es[j].expires_at
    <2> DEFINE s == [i \in 1..Len(es) |-> es[i].expires_at]
    <2>1. \A i \in 1..Len(es) : s[i] \in Int /\ s[i] = es[i].expires_at
      BY <1>1 DEF IsRecord
    <2>2. \A i \in 1..(Len(es) - 1) : es[i].expires_at < es[i + 1].expires_at
      BY DEF IsOrdered, Ascends
    <2>3. \A i \in 1..(Len(es) - 1) : s[i] < s[i + 1]
      <3> SUFFICES ASSUME NEW i \in 1..(Len(es) - 1) PROVE s[i] < s[i + 1]
        OBVIOUS
      <3>1. i \in 1..Len(es) /\ i + 1 \in 1..Len(es)
        BY <1>1
      <3> HIDE DEF es
      <3> QED
        BY <2>2, <3>1
    <2> HIDE DEF s
    <2>4. \A i, j \in 1..Len(es) : i < j => s[i] < s[j]
      BY <1>1, <2>1, <2>3, AscendsThroughout
    <2> QED
      BY <2>1, <2>4
  <1>3. ASSUME NEW e \in ToSet(es), NEW i \in 1..Len(e.quotes), NEW j \in 1..Len(e.quotes), i < j
        PROVE  ToStorageDecimal(e.quotes[i].strike) < ToStorageDecimal(e.quotes[j].strike)
    <2> DEFINE n == Len(e.quotes)
               s == [k \in 1..n |-> ToStorageDecimal(e.quotes[k].strike)]
    <2>1. e.quotes \in Seq(ToSet(e.quotes)) /\ n \in Nat
      BY DEF IsRecord
    <2>2. \A k \in 1..n : IsDecimal(e.quotes[k].strike)
      BY QuoteDecimals
    <2>3. \A k \in 1..(n - 1) : Below(e.quotes[k].strike, e.quotes[k + 1].strike)
      BY DEF IsOrdered, Ascends
    <2> HIDE DEF n
    <2>4. \A k \in 1..n : s[k] \in Int
      BY <2>2, StorageAscends
    <2>5. \A k \in 1..(n - 1) : s[k] < s[k + 1]
      <3> SUFFICES ASSUME NEW k \in 1..(n - 1) PROVE s[k] < s[k + 1]
        OBVIOUS
      <3>1. k \in 1..n /\ k + 1 \in 1..n
        BY <2>1
      <3>2. ToStorageDecimal(e.quotes[k].strike) < ToStorageDecimal(e.quotes[k + 1].strike)
        BY <2>2, <2>3, <3>1, StorageAscends
      <3> QED
        BY <3>1, <3>2
    <2> HIDE DEF s
    <2>6. \A k, l \in 1..n : k < l => s[k] < s[l]
      BY <2>1, <2>4, <2>5, AscendsThroughout
    <2>7. s[i] < s[j] /\ i \in 1..n /\ j \in 1..n
      BY <1>3, <2>6 DEF n
    <2> QED
      BY <2>7 DEF s
  <1>4. /\ W \in Seq(UNION {ToSet(Columns(e)) : e \in ToSet(es)})
        /\ \E V, outer, inner : Written(W, V, outer, inner, es)
    BY WrittenAsRendered
  <1>5. PICK V, outer, inner : Written(W, V, outer, inner, es)
    BY <1>4
  <1>6. Len(W) \in Nat /\ W \in [1..Len(W) -> R]
    <2>1. Len(W) \in Nat /\ W = [k \in 1..Len(W) |-> W[k]]
      <3> HIDE DEF W, es
      <3> QED
        BY <1>4
    <2> HIDE DEF W
    <2> QED
      BY <2>1
  <1> HIDE DEF W
  <1>7. ASSUME NEW k \in 1..Len(W)
        PROVE  LET e == es[outer[k]]
                   q == e.quotes[inner[k]]
               IN  /\ outer[k] \in 1..Len(es) /\ inner[k] \in 1..Len(e.quotes) /\ e \in ToSet(es)
                   /\ W[k].expires_at = e.expires_at /\ W[k].labels = e.labels
                   /\ W[k].days = ToStorageDecimal(e.days)
                   /\ W[k].columns.strike = ToStorageDecimal(q.strike)
                   /\ W[k].expires_at \in Int /\ W[k].columns.strike \in Int
    <2> DEFINE e == es[outer[k]]
               q == e.quotes[inner[k]]
    <2>1. outer[k] \in 1..Len(es) /\ inner[k] \in 1..Len(e.quotes) /\ W[k] = QuoteRow(e, q)
      BY <1>5 DEF Written
    <2>2. e \in ToSet(es)
      BY <1>1, <2>1
    <2> HIDE DEF e
    <2>3. "strike" \in DOMAIN q /\ IsDecimal(q.strike) /\ e.expires_at \in Int
      BY <2>1, <2>2, QuoteDecimals
    <2> HIDE DEF q
    <2>4. /\ W[k].expires_at = e.expires_at /\ W[k].labels = e.labels
          /\ W[k].days = ToStorageDecimal(e.days)
          /\ W[k].columns.strike = ToStorageDecimal(q.strike)
      BY <2>1, <2>3 DEF QuoteRow
    <2>5. ToStorageDecimal(q.strike) \in Int
      BY <2>3, StorageAscends
    <2> QED
      BY <2>1, <2>2, <2>3, <2>4, <2>5 DEF e, q
  <1>8. Keyed(R)
    BY <1>7 DEF Keyed
  <1>9. ASSUME NEW k \in 1..Len(W), NEW l \in 1..Len(W), k < l PROVE Precedes(W[k], W[l])
    <2> DEFINE e == es[outer[k]]
               f == es[outer[l]]
    <2>1. outer[k] < outer[l] \/ (outer[k] = outer[l] /\ inner[k] < inner[l])
      BY <1>5, <1>9 DEF Written
    <2>2. CASE outer[k] < outer[l]
      BY <1>2, <1>7, <2>2 DEF Precedes
    <2>3. CASE outer[k] = outer[l] /\ inner[k] < inner[l]
      <3>1. /\ e = f /\ e \in ToSet(es) /\ inner[k] \in 1..Len(e.quotes)
            /\ inner[l] \in 1..Len(e.quotes)
            /\ W[k].expires_at = e.expires_at /\ W[l].expires_at = e.expires_at
            /\ W[k].columns.strike = ToStorageDecimal(e.quotes[inner[k]].strike)
            /\ W[l].columns.strike = ToStorageDecimal(e.quotes[inner[l]].strike)
        BY <1>7, <2>3
      <3> HIDE DEF e, f
      <3>2. ToStorageDecimal(e.quotes[inner[k]].strike) < ToStorageDecimal(e.quotes[inner[l]].strike)
        BY <1>3, <2>3, <3>1
      <3> QED
        BY <3>1, <3>2 DEF Precedes
    <2> QED
      BY <2>1, <2>2, <2>3
  <1>10. Consistent(W, Len(W))
    <2> SUFFICES ASSUME NEW k \in 2..Len(W), W[k - 1].expires_at = W[k].expires_at
                 PROVE  W[k - 1].days = W[k].days /\ W[k - 1].labels = W[k].labels
      BY DEF Consistent
    <2>1. k \in 1..Len(W) /\ k - 1 \in 1..Len(W) /\ k - 1 < k
      BY <1>6
    <2> DEFINE l == k - 1
    <2>2. l \in 1..Len(W) /\ l < k
      BY <2>1
    <2> HIDE DEF l
    <2>3. outer[l] < outer[k] \/ outer[l] = outer[k]
      BY <1>5, <2>1, <2>2 DEF Written
    <2>4. ~(outer[l] < outer[k])
      <3>1. es[outer[l]].expires_at = es[outer[k]].expires_at /\ es[outer[k]].expires_at \in Int
        BY <1>7, <2>1, <2>2 DEF l
      <3>2. outer[l] \in 1..Len(es) /\ outer[k] \in 1..Len(es)
        BY <1>7, <2>1, <2>2
      <3>3. outer[l] < outer[k] => es[outer[l]].expires_at < es[outer[k]].expires_at
        BY <1>2, <3>2
      <3> QED
        BY <3>1, <3>3
    <2>5. W[l].days = W[k].days /\ W[l].labels = W[k].labels
      BY <1>7, <2>1, <2>2, <2>3, <2>4
    <2> QED
      BY <2>5 DEF l
  <1>11. Ascending(W, Len(W), R)
    BY <1>6, <1>9 DEF Ascending
  <1> QED
    BY <1>8, <1>10, <1>11 DEF W

\* A snapshot that persist accepts is rendered from its rows as it is from its chains.
LEMMA ReadBackRenders ==
    ASSUME NEW s, NEW snapshot,
           IsRecord(RecordOf(snapshot)), Storable(RecordOf(snapshot)),
           Count[s] \in Nat, Len(QuoteRows(RecordOf(snapshot))) = Count[s]
    PROVE  RendersAsPriced(snapshot, Rows(s))
  <1> DEFINE n == Count[s]
  <1>a. n \in Nat /\ Len(QuoteRows(RecordOf(snapshot))) = n
    OBVIOUS
  <1> HIDE DEF n
  <1> DEFINE record == RecordOf(snapshot)
             es     == Expirations(snapshot)
             W      == QuoteRows(record)
             V      == Rendered(es)
             R      == {W[k] : k \in 1..Len(W)}
             back   == ReadBack(snapshot, Rows(s))
             T      == {W[k].expires_at : k \in 1..Len(W)}
             L      == {W[k].labels : k \in 1..Len(W)}
             D      == {FromStorageDecimal(W[k].days) : k \in 1..Len(W)}
             Q      == {QuoteFrom(W[k]) : k \in 1..Len(W)}
             G      == ExpirationsFrom(W)
  <1>1. /\ record.expirations = es /\ record.simulated_at = snapshot.simulated_at
        /\ record.spot = snapshot.spot /\ record.volatility = snapshot.volatility
    BY DEF RecordOf
  <1>2. IsRecord(record) /\ IsOrdered(record) /\ Len(W) = n
    BY <1>a DEF Storable
  <1> HIDE DEF record, es
  <1>3. Keyed(R) /\ Ascending(W, Len(W), R) /\ Consistent(W, Len(W))
    BY <1>2, WrittenInOrder
  <1>4. /\ W \in Seq(UNION {ToSet(Columns(e)) : e \in ToSet(es)})
        /\ Len(W) = Len(V)
        /\ \E outer, inner : Written(W, V, outer, inner, es)
    BY <1>1, <1>2, WrittenAsRendered
  <1>5. PICK outer, inner : Written(W, V, outer, inner, es)
    BY <1>4
  <1> HIDE DEF W, V
  <1>6. InStorageOrder(R) = W
    <2> HIDE DEF R
    <2>1. R = {W[k] : k \in 1..Len(W)}
      BY DEF R
    <2> QED
      BY <1>2, <1>3, <2>1, StoredInOrder
  <1>7. {W[row[2]] : row \in {<<s, i>> : i \in 1..n}} = R
    <2>1. \A i \in 1..n : <<s, i>>[2] = i
      OBVIOUS
    <2>2. ASSUME NEW row \in {<<s, i>> : i \in 1..n} PROVE W[row[2]] \in R
      <3>1. PICK i \in 1..n : row = <<s, i>>
        OBVIOUS
      <3> QED
        BY <1>2, <2>1, <3>1
    <2>3. ASSUME NEW k \in 1..Len(W)
          PROVE  \E row \in {<<s, i>> : i \in 1..n} : W[k] = W[row[2]]
      <3>1. <<s, k>> \in {<<s, i>> : i \in 1..n} /\ W[k] = W[<<s, k>>[2]]
        BY <1>2, <2>1
      <3> QED
        BY <3>1
    <2> DEFINE rows == {<<s, i>> : i \in 1..n}
    <2>4. {W[row[2]] : row \in rows} \subseteq R
      BY <2>2
    <2>5. R \subseteq {W[row[2]] : row \in rows}
      <3> SUFFICES ASSUME NEW x \in R PROVE \E row \in rows : x = W[row[2]]
        OBVIOUS
      <3>1. PICK k \in 1..Len(W) : x = W[k]
        OBVIOUS
      <3> HIDE DEF rows
      <3> QED
        BY <2>3, <3>1 DEF rows
    <2> QED
      BY <2>4, <2>5
  <1>8. back = RecordFromRows(MetaRow(record), W)
    BY <1>6, <1>7 DEF ReadBack, Rows, W, record, n
  <1>9. /\ back.simulated_at = record.simulated_at
        /\ back.spot = FromStorageDecimal(ToStorageDecimal(record.spot))
        /\ back.volatility = FromStorageDecimal(ToStorageDecimal(record.volatility))
        /\ back.expirations = G
    BY <1>8 DEF RecordFromRows, MetaRow
  <1> HIDE DEF back, G
  <1>10. IsPrice(record.spot) /\ IsPrice(record.volatility)
    BY <1>2 DEF IsRecord, IsReadable
  <1>11. ASSUME NEW d, IsPrice(d)
         PROVE  LET e == FromStorageDecimal(ToStorageDecimal(d)) IN IsPrice(e) /\ SameValue(e, d)
    BY <1>11, StoredAndBack DEF IsPrice
  <1>12. /\ G \in Seq(Built(T, L, D, Q))
         /\ Len(Rendered(G)) = Len(W)
         /\ \A k \in 1..Len(W) : Rendered(G)[k] = Back(W[k])
    <2>1. \A k \in 1..Len(W) : /\ W[k].expires_at \in T /\ W[k].labels \in L
                               /\ FromStorageDecimal(W[k].days) \in D /\ QuoteFrom(W[k]) \in Q
      OBVIOUS
    <2> HIDE DEF T, L, D, Q
    <2> QED
      BY <1>3, <1>4, <2>1, Regrouped DEF G
  <1>13. ASSUME NEW k \in 1..Len(W)
         PROVE  /\ IsPrice(FromStorageDecimal(W[k].days))
                /\ \A field \in DOMAIN QuoteFrom(W[k]) :
                       IF field \in SignedFields THEN IsDecimal(QuoteFrom(W[k])[field])
                                                ELSE IsPrice(QuoteFrom(W[k])[field])
                /\ SameRow(Back(W[k]), V[k])
    <2> DEFINE e == es[outer[k]]
               q == e.quotes[inner[k]]
    <2>1. /\ outer[k] \in 1..Len(es) /\ inner[k] \in 1..Len(e.quotes)
          /\ W[k] = QuoteRow(e, q) /\ V[k] = ExportRow(e, q)
      BY <1>5 DEF Written
    <2>2. e \in ToSet(es)
      BY <1>1, <1>2, <2>1 DEF IsRecord, ToSet
    <2> HIDE DEF e
    <2>3. /\ IsPrice(e.days)
          /\ \A field \in DOMAIN q :
                 IF field \in SignedFields THEN IsDecimal(q[field]) ELSE IsPrice(q[field])
          /\ \A field \in DOMAIN q : IsDecimal(q[field])
      BY <1>1, <1>2, <2>1, <2>2, QuoteDecimals
    <2> HIDE DEF q
    <2> DEFINE r == QuoteFrom(W[k])
    <2>4. /\ DOMAIN r = DOMAIN q
          /\ \A field \in DOMAIN q : r[field] = FromStorageDecimal(ToStorageDecimal(q[field]))
      BY <2>1 DEF QuoteFrom, QuoteRow
    <2>5. /\ W[k].days = ToStorageDecimal(e.days) /\ W[k].expires_at = e.expires_at
          /\ W[k].labels = e.labels
      BY <2>1 DEF QuoteRow
    <2>6. /\ IsPrice(FromStorageDecimal(W[k].days))
          /\ SameValue(FromStorageDecimal(W[k].days), e.days)
      BY <1>11, <2>3, <2>5
    <2> HIDE DEF r
    <2>7. \A field \in DOMAIN r :
              /\ IF field \in SignedFields THEN IsDecimal(r[field]) ELSE IsPrice(r[field])
              /\ SameValue(r[field], q[field])
      <3> TAKE field \in DOMAIN r
      <3>1. IsDecimal(q[field])
        BY <2>3, <2>4
      <3>2. IsDecimal(r[field]) /\ SameValue(r[field], q[field])
        BY <2>4, <3>1, StoredAndBack
      <3>3. field \notin SignedFields => IsPrice(r[field])
        BY <1>11, <2>3, <2>4
      <3> QED
        BY <3>2, <3>3
    <2>8. SameRow(Back(W[k]), V[k])
      <3>1. /\ V[k].expires_at = e.expires_at /\ V[k].labels = e.labels /\ V[k].days = e.days
            /\ V[k].quote = q
        BY <2>1 DEF ExportRow
      <3>2. /\ Back(W[k]).expires_at = e.expires_at /\ Back(W[k]).labels = e.labels
            /\ Back(W[k]).days = FromStorageDecimal(W[k].days) /\ Back(W[k]).quote = r
        BY <2>5 DEF Back, r
      <3> QED
        BY <2>4, <2>6, <2>7, <3>1, <3>2 DEF SameRow
    <2> QED
      BY <2>6, <2>7, <2>8 DEF r
  <1>14. SameRows(Rendered(G), V)
    <2>1. DOMAIN Rendered(G) = 1..Len(W)
      <3>1. Rendered(G) \in Seq(Backs(T, L, D, Q))
        BY <1>12, PartsType, RenderedType
      <3> QED
        BY <1>12, <3>1
    <2> QED
      BY <1>4, <1>12, <1>13, <2>1 DEF SameRows
  <1>15. IsReadable(back)
    <2>1. \A e \in ToSet(G) : e.days \in D /\ ToSet(e.quotes) \subseteq Q
      <3> TAKE e \in ToSet(G)
      <3>1. e \in Built(T, L, D, Q)
        <4> HIDE DEF T, L, D, Q
        <4> QED
          BY <1>12 DEF ToSet
      <3> HIDE DEF T, L, D, Q
      <3>2. e.days \in D /\ e.quotes \in Seq(Q)
        BY <3>1 DEF Built
      <3> QED
        BY <3>2 DEF ToSet
    <2>2. \A d \in D : IsPrice(d)
      BY <1>13
    <2>3. \A q \in Q : \A field \in DOMAIN q :
              IF field \in SignedFields THEN IsDecimal(q[field]) ELSE IsPrice(q[field])
      BY <1>13
    <2> HIDE DEF D, Q
    <2>4. QuotesOf(back) \subseteq Q
      BY <1>9, <2>1 DEF QuotesOf
    <2>5. IsPrice(back.spot) /\ IsPrice(back.volatility)
      BY <1>9, <1>10, <1>11
    <2> QED
      BY <1>9, <2>1, <2>2, <2>3, <2>4, <2>5 DEF IsReadable
  <1>16. SameValue(back.spot, snapshot.spot) /\ SameValue(back.volatility, snapshot.volatility)
    BY <1>1, <1>9, <1>10, <1>11
  <1> QED
    BY <1>1, <1>9, <1>14, <1>15, <1>16 DEF RendersAsPriced, back, V, es

-----------------------------------------------------------------------------
(* The steps that are read back                                            *)

\* Only what can be stored is being written, marked or read.
OnlyStorable ==
    /\ \A w \in Writers : job[w] # NoStep => job[w] \notin Unstorable
    /\ \A s \in markers \cup metas : s \notin Unstorable
    /\ \A r \in loaded : r.step \notin Unstorable

\* No step of Export puts down, marks or reads a step that persist refused.
LEMMA OnlyStorablePreserved ==
    InductiveInvariant /\ OnlyStorable /\ [Next]_vars => OnlyStorable'
  <1> SUFFICES ASSUME InductiveInvariant, OnlyStorable, [Next]_vars PROVE OnlyStorable'
    OBVIOUS
  <1> USE DEF OnlyStorable
  <1>1. job \in [Writers -> Steps \cup {NoStep}]
    BY DEF InductiveInvariant, TypeOK, TapeTypeOK
  <1>2. ASSUME TapeNext, UNCHANGED <<loaded, metas>> PROVE OnlyStorable'
    <2>1. ASSUME NEW w \in Writers, NEW s \in Steps, Take(w, s) PROVE OnlyStorable'
      BY <1>1, <1>2, <2>1 DEF Take
    <2>2. ASSUME NEW w \in Writers, WriteQuotes(w) PROVE OnlyStorable'
      BY <1>1, <1>2, <2>2 DEF WriteQuotes
    <2>3. ASSUME NEW w \in Writers, WriteMarker(w) PROVE OnlyStorable'
      BY <1>1, <1>2, <2>3 DEF WriteMarker
    <2>4. ASSUME Retire PROVE OnlyStorable'
      BY <1>2, <2>4 DEF Retire
    <2> QED
      BY <1>2, <2>1, <2>2, <2>3, <2>4 DEF TapeNext
  <1>3. ASSUME UNCHANGED <<job, markers>>, metas' \subseteq markers \cup metas,
               \A r \in loaded' : r \in loaded \/ r.step \in metas
        PROVE  OnlyStorable'
    BY <1>3
  <1>4. CASE UNCHANGED vars
    BY <1>3, <1>4 DEF vars, tables, stored
  <1>5. CASE \E q \in Queries : Begin(q)
    BY <1>3, <1>5 DEF Begin, Fresh, tables
  <1>6. CASE Build \/ RangeEnds \/ Send
    BY <1>3, <1>6 DEF Build, RangeEnds, Send, tables, stored
  <1>7. CASE Load
    BY <1>3, <1>7 DEF Load, tables
  <1>8. CASE ReadMetas
    <2>1. metas' \subseteq markers
      BY <1>8 DEF ReadMetas, Refused, Degrade, MarkersIn
    <2> QED
      BY <1>3, <1>8, <2>1 DEF ReadMetas, tables
  <1>9. CASE ReadQuotes
    <2>1. metas' = {}
      BY <1>9 DEF ReadQuotes, Refused, Degrade
    <2>2. \A r \in loaded' : r \in loaded \/ r.step \in metas
      BY <1>9 DEF ReadQuotes, Assemble
    <2> QED
      BY <1>3, <1>9, <2>1, <2>2 DEF ReadQuotes, tables
  <1>10. CASE Row
    BY <1>3, <1>10 DEF Row, tables
  <1>11. CASE Receive \/ StreamEnds \/ Disconnect
    BY <1>3, <1>11 DEF Receive, StreamEnds, Disconnect, tables, stored
  <1>12. CASE Forget
    BY <1>3, <1>12 DEF Forget, Fresh, tables
  <1>13. CASE Warehouse
    BY <1>2, <1>13 DEF Warehouse, stored
  <1> QED
    BY <1>4, <1>5, <1>6, <1>7, <1>8, <1>9, <1>10, <1>11, <1>12, <1>13 DEF Next, Producer

\* What an export takes from the warehouse is what a replay of the step gives, for
\* every snapshot, scale and value that persist accepts.
THEOREM ExportsAsPriced == Spec => []ServedAsPriced
  <1>1. Init => OnlyStorable
    BY DEF Init, TapeInit, OnlyStorable
  <1>2. InductiveInvariant /\ OnlyStorable => ServedAsPriced
    <2> SUFFICES ASSUME InductiveInvariant, OnlyStorable, NEW r \in loaded
                 PROVE  r.step \notin Unstorable /\ r.rows \in AsPriced[r.step]
      BY DEF ServedAsPriced
    <2>1. r.step \in Steps \ Unstorable /\ r.rows = Rows(r.step)
      BY DEF OnlyStorable, InductiveInvariant, TypeOK, WindowConsistent
    <2> DEFINE s == r.step
    <2>2. s \in Steps /\ s \notin Unstorable /\ Count[s] \in Nat
      BY <2>1, TapeAssumption
    <2> HIDE DEF s
    <2>3. ASSUME NEW snapshot \in Snapshots[s] PROVE RendersAsPriced(snapshot, Rows(s))
      <3>1. /\ IsRecord(RecordOf(snapshot)) /\ Storable(RecordOf(snapshot))
            /\ Len(QuoteRows(RecordOf(snapshot))) = Count[s]
        BY <2>2, SnapshotAssumption
      <3> QED
        BY <2>2, <3>1, ReadBackRenders
    <2>4. Rows(s) \in AsPriced[s]
      BY <2>2, <2>3 DEF AsPriced
    <2> QED
      BY <2>1, <2>4 DEF s
  <1>3. Spec => []OnlyStorable
    BY <1>1, OnlyStorablePreserved, Invariance, PTL DEF Spec
  <1> QED
    BY <1>2, <1>3, Invariance, PTL
=============================================================================
