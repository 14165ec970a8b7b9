------------------------- MODULE SpectrumTuneProofs -------------------------
(* Every row SpectrumPipeline draws is of samples received at the frequency  *)
(* the receiver is tuned to, for every receiver and any number of retunes.   *)
(* While a frame of the present generation is asked for, computed or waits,  *)
(* the buffer holds only blocks in tune (PureInv).  That lasts as no block   *)
(* out of tune can be published then: a callback's block is in tune once the *)
(* settle time is over (AsyncHand), and the block of a synchronous reader is *)
(* refused by its epoch (SyncHand).  The frequency itself changes only when  *)
(* the worker was reset and the window has not polled since (WindowInv), or, *)
(* by the reader's own hand, before the settle time is over (StoredInv).     *)
EXTENDS SpectrumPipelineProofs

\* Nobody has asked for a frame in the present generation, and none is there.
Quiet == ~ queue.hasRequest /\ ~ queue.hasResult /\ ~ AtWork

\* The worker was reset and the window has not polled since.
AfterReset ==
  \/ ui.pc \in {"start", "tune", "tuned"}
  \/ ui.pc \in {"clear", "reset"} /\ ui.then = "settle"

\* What is published now may be drawn.
Clean ==
  /\ ~ ui.settle
  /\ \/ ui.pc \in {"idle", "claim", "enqueue", "tune"}
     \/ ui.pc \in {"clear", "reset"} /\ ui.then = "tune"

Pure == \A k \in DOMAIN buffer.blocks : buffer.blocks[k] = center

WindowInv ==
  /\ ui.pc \in {"clear", "reset"} => ui.then # "idle"
  /\ AfterReset => Quiet

\* A frame that may hold rows was asked for with settings of the window.
AskedInv ==
  /\ queue.hasRequest => queue.pending.setting \in Settings
  /\ worker.pc # "waiting" => worker.frame.setting \in Settings

EpochInv == reader.pc \in {"loaded", "holding"} => reader.epoch <= epoch

\* A block a callback has in hand is in tune when it may be drawn.
AsyncHand ==
  ~ ui.stream.sync /\ Clean /\ reader.pc \in {"received", "holding"} => reader.center = center

\* A synchronous reader's block is in tune if the buffer accepts it, or is
\* going to after the clearing that waits.
SyncHand ==
  ui.stream.sync /\ reader.pc = "holding" =>
    /\ ui.pc = "clear" /\ ui.epoch # 0 /\ reader.epoch = ui.epoch => reader.center = center
    /\ \/ ui.pc = "tuned"
       \/ ui.pc = "clear" /\ ui.then = "settle" /\ ui.epoch # 0
       \/ reader.epoch = buffer.epoch => reader.center = center

HandInv == EpochInv /\ AsyncHand /\ SyncHand

PureInv == (Clean /\ ui.pc # "clear") \/ ~ Quiet => Pure

InTune(rows) == \A k \in DOMAIN rows : rows[k].centers = {center}

RowsInv ==
  /\ AtWork => InTune(worker.frame.rows)
  /\ AtWork /\ worker.pc = "copying" /\ worker.row.resets = buffer.resets =>
       worker.row.centers = {center}
  /\ queue.hasResult => InTune(queue.latest.rows)
  /\ drawn.verdict # "none" => InTune(drawn.frame.rows)

TuneInv == WindowInv /\ AskedInv /\ HandInv /\ PureInv /\ RowsInv

\* A tune is stored for the reader's thread only until the settle time it
\* belongs to is over.
StoredInv ==
  ui.stored # "none" =>
    /\ ui.stream.kind = "external" /\ ~ ui.stream.sync
    /\ ui.settle \/ ui.pc = "tuned" \/ (ui.pc \in {"clear", "reset"} /\ ui.then = "settle")

-----------------------------------------------------------------------------
(* Samples *)

\* The block that holds the last of some floats.
LEMMA BlockOf ==
  ASSUME NEW size \in Nat \ {0}, NEW blocks \in Nat, NEW end \in Nat \ {0},
         end <= size * blocks
  PROVE  \E b \in 1 .. blocks : end <= b * size /\ (b - 1) * size < end
<1> DEFINE q == (end - 1) \div size
           r == (end - 1) % size
<1>1. end - 1 \in Nat
  OBVIOUS
<1>2. q \in Nat /\ r \in 0 .. size - 1 /\ end - 1 = size * q + r
  BY <1>1
<1> HIDE DEF q, r
<1>3. size * q < end /\ end <= size * q + size
  <2> DEFINE m == size * q
  <2>1. m \in Nat
    BY <1>2
  <2>2. end - 1 = m + r
    BY <1>2
  <2> HIDE DEF m
  <2>3. m < end /\ end <= m + size
    BY <1>2, <2>1, <2>2
  <2> QED
    BY <2>3 DEF m
<1>4. q < blocks
  <2> SUFFICES ASSUME blocks <= q PROVE FALSE
    BY <1>2
  <2>1. size * blocks <= size * q
    BY <1>2
  <2> QED
    BY <1>2, <1>3, <2>1
<1> DEFINE b == q + 1
<1>5. b \in 1 .. blocks
  BY <1>2, <1>4
<1>6. b * size = size * q + size /\ (b - 1) * size = size * q
  BY <1>2
<1> HIDE DEF b
<1>7. end <= b * size /\ (b - 1) * size < end
  BY <1>3, <1>6, Zenon
<1> QED
  BY <1>5, <1>7

\* A row of a buffer in tune is in tune.
LEMMA RowInTune ==
  ASSUME buffer \in BufferType, Pure, NEW end \in Nat, NEW n \in Nat \ {0},
         Available(end) > RetainedStart
  PROVE  RowAt(end, n).centers = {center}
<1> DEFINE available == Available(end)
           first == RowStart(end, n)
<1>1. buffer.blocks \in Seq(Frequencies) /\ Len(buffer.blocks) \in Nat
      /\ DOMAIN buffer.blocks = 1 .. Len(buffer.blocks) /\ BlockFloats \in Nat \ {0}
  BY PipelineAssumption DEF BufferType
<1>2. Total \in Nat /\ RetainedStart \in Nat /\ available \in Nat
  BY Positions
<1>3. available <= Total /\ available # 0
  BY <1>2 DEF Available, Least
<1>4. first \in Nat /\ first < available
  <2> HIDE DEF available
  <2>1. Available(end) = available
    BY DEF available
  <2> QED
    BY <1>2, <2>1 DEF RowStart, Largest
<1> HIDE DEF available, first
<1>5. PICK b \in 1 .. Len(buffer.blocks) :
        available <= b * BlockFloats /\ (b - 1) * BlockFloats < available
  BY <1>1, <1>2, <1>3, BlockOf DEF Total
<1>6. first < b * BlockFloats
  <2>1. b * BlockFloats \in Nat
    BY <1>1
  <2> QED
    BY <1>2, <1>4, <1>5, <2>1
<1>7. buffer.blocks[b] \in CentersOf(first, available)
  BY <1>1, <1>5, <1>6 DEF CentersOf
<1>8. CentersOf(first, available) \subseteq {center}
  BY DEF CentersOf, Pure
<1>9. buffer.blocks[b] = center
  BY <1>1, <1>5 DEF Pure
<1>10. CentersOf(first, available) = {center}
  BY <1>7, <1>8, <1>9
<1>11. RowAt(end, n).centers = CentersOf(first, available)
  BY DEF RowAt, first, available
<1> QED
  BY <1>10, <1>11

-----------------------------------------------------------------------------
(* Rows *)

\* Nothing drawn outlives the step after the poll.
LEMMA NotDrawnNow ==
  ASSUME IInv, ui.pc # "claim"
  PROVE  drawn.verdict = "none"
BY DEF IInv, FreshInv

LEMMA RowsKept ==
  ASSUME RowsInv, center' = center, worker' = worker, queue' = queue, drawn' = drawn,
         worker.pc = "copying" /\ worker.row.resets = buffer'.resets =>
           worker.row.resets = buffer.resets
  PROVE  RowsInv'
BY DEF RowsInv, AtWork, InTune

LEMMA RowsQuiet ==
  ASSUME Quiet', drawn'.verdict = "none"
  PROVE  RowsInv'
BY DEF RowsInv, Quiet

-----------------------------------------------------------------------------
(* The reader thread *)

\* A block the buffer accepts while its contents matter is in tune: the hand
\* it came from is that of a callback, or of a synchronous reader whose epoch
\* is the buffer's.
LEMMA AcceptedInTune ==
  ASSUME IInv, TuneInv, reader.pc = "holding", Accepted,
         (Clean /\ ui.pc # "clear") \/ ~ Quiet
  PROVE  reader.center = center
<1>1. ui \in UiType
  BY TypeOKIs DEF IInv
<1>2. Clean
  <2>1. SUFFICES ASSUME ~ Quiet PROVE Clean
    OBVIOUS
  <2>2. ~ ui.settle
    BY <2>1 DEF IInv, QuietInv, Quiet
  <2>3. ~ AfterReset
    BY <2>1 DEF TuneInv, WindowInv
  <2>4. ui.pc \in {"clear", "reset"} => ui.then \in {"tune"}
    BY <1>1, <2>3 DEF IInv, EmptyInv, TuneInv, WindowInv, AfterReset, UiType
  <2> QED
    BY <1>1, <2>2, <2>3, <2>4 DEF Clean, AfterReset, UiType
<1>3. CASE ui.stream.sync
  <2>1. /\ ui.pc # "tuned"
        /\ ~ (ui.pc = "clear" /\ ui.then = "settle" /\ ui.epoch # 0)
    BY <1>2 DEF Clean
  <2> QED
    BY <1>3, <2>1 DEF TuneInv, HandInv, SyncHand, Accepted
<1>4. CASE ~ ui.stream.sync
  BY <1>2, <1>4 DEF TuneInv, HandInv, AsyncHand
<1> QED
  BY <1>3, <1>4

LEMMA ReaderTune ==
  ASSUME IInv, TuneInv, ReaderStep
  PROVE  TuneInv'
<1>1. /\ epoch' = epoch /\ center' = center /\ ui' = ui /\ queue' = queue
      /\ worker' = worker /\ drawn' = drawn
  BY DEF ReaderStep, ReaderUnchanged, LoadStartEpoch, ClearAtStart, Receive, LoadEpoch, Publish
<1>2. reader \in ReaderType /\ buffer \in BufferType /\ epoch \in Nat
  BY TypeOKIs DEF IInv
<1>3. WindowInv' /\ AskedInv' /\ (Quiet' <=> Quiet) /\ (Clean' <=> Clean)
  BY <1>1 DEF TuneInv, WindowInv, AskedInv, AfterReset, Quiet, AtWork, Clean
<1>4. ASSUME buffer'.resets = buffer.resets PROVE RowsInv'
  BY <1>1, <1>4, RowsKept DEF TuneInv
<1>5. CASE LoadStartEpoch
  <2>1. buffer' = buffer /\ reader'.pc = "clearing"
    BY <1>2, <1>5 DEF LoadStartEpoch, ReaderType
  <2>2. HandInv'
    BY <2>1 DEF HandInv, EpochInv, AsyncHand, SyncHand
  <2>3. PureInv'
    BY <1>1, <1>3, <2>1 DEF TuneInv, PureInv, Pure
  <2> QED
    BY <1>3, <1>4, <2>1, <2>2, <2>3 DEF TuneInv
<1>6. CASE ClearAtStart
  <2>1. buffer.blocks = <<>> /\ reader'.pc = "loop"
    BY <1>6 DEF ClearAtStart, InLoop, IInv, EmptyInv
  <2>2. buffer'.resets = buffer.resets /\ buffer'.blocks = <<>>
    BY <1>6, <2>1 DEF ClearAtStart, Cleared
  <2>3. HandInv'
    BY <2>1 DEF HandInv, EpochInv, AsyncHand, SyncHand
  <2>4. PureInv'
    BY <2>2 DEF PureInv, Pure
  <2> QED
    BY <1>3, <1>4, <2>2, <2>3, <2>4 DEF TuneInv
<1>7. CASE Receive
  <2>1. /\ buffer' = buffer
        /\ reader' = [reader EXCEPT !.pc = IF ui.stream.sync THEN "holding" ELSE "received",
                                    !.center = center]
        /\ ui.stream.sync => reader.pc = "loaded"
    BY <1>7 DEF Receive, Round
  <2>2. /\ reader'.center = center /\ reader'.epoch = reader.epoch
        /\ reader'.pc = IF ui.stream.sync THEN "holding" ELSE "received"
    BY <1>2, <2>1 DEF ReaderType
  <2>3. EpochInv' /\ AsyncHand' /\ SyncHand'
    BY <1>1, <2>1, <2>2 DEF TuneInv, HandInv, EpochInv, AsyncHand, SyncHand
  <2>4. PureInv'
    BY <1>1, <1>3, <2>1 DEF TuneInv, PureInv, Pure
  <2> QED
    BY <1>3, <1>4, <2>1, <2>3, <2>4 DEF TuneInv, HandInv
<1>8. CASE LoadEpoch
  <2>1. /\ buffer' = buffer
        /\ reader' = [reader EXCEPT !.pc = IF ui.stream.sync THEN "loaded" ELSE "holding",
                                    !.epoch = epoch]
        /\ ~ ui.stream.sync => reader.pc = "received"
    BY <1>8 DEF LoadEpoch, Round
  <2>2. /\ reader'.center = reader.center /\ reader'.epoch = epoch
        /\ reader'.pc = IF ui.stream.sync THEN "loaded" ELSE "holding"
    BY <1>2, <2>1 DEF ReaderType
  <2>3. EpochInv' /\ SyncHand'
    BY <1>1, <1>2, <2>2 DEF EpochInv, SyncHand
  <2>4. AsyncHand'
    BY <1>1, <1>3, <2>1, <2>2 DEF TuneInv, HandInv, AsyncHand
  <2>5. PureInv'
    BY <1>1, <1>3, <2>1 DEF TuneInv, PureInv, Pure
  <2> QED
    BY <1>3, <1>4, <2>1, <2>3, <2>4, <2>5 DEF TuneInv, HandInv
<1>9. CASE Publish
  <2>1. reader.pc = "holding" /\ reader'.pc = "loop"
    BY <1>9 DEF Publish, InLoop
  <2>2. HandInv'
    BY <2>1 DEF HandInv, EpochInv, AsyncHand, SyncHand
  <2>3. buffer'.resets = buffer.resets /\ PureInv'
    <3>1. CASE buffer' = buffer
      BY <1>1, <1>3, <3>1 DEF TuneInv, PureInv, Pure
    <3>2. CASE Accepted /\ buffer' = [buffer EXCEPT !.blocks = Append(@, reader.center)]
      <4> DEFINE blocks == Append(buffer.blocks, reader.center)
      <4>1. buffer.blocks \in Seq(Frequencies) /\ reader.center \in Frequencies
        BY <1>2, <2>1 DEF BufferType, IInv, HeldInv, CenterHeld
      <4>2. buffer' = [buffer EXCEPT !.blocks = blocks]
        BY <3>2, Zenon
      <4>3. ASSUME Pure, reader.center = center
            PROVE  \A k \in DOMAIN blocks : blocks[k] = center
        BY <4>1, <4>3 DEF Pure
      <4> HIDE DEF blocks
      <4>4. buffer'.resets = buffer.resets /\ buffer'.blocks = blocks
        BY <1>2, <4>2 DEF BufferType
      <4>5. (Clean /\ ui.pc # "clear") \/ ~ Quiet => Pure'
        BY <1>1, <2>1, <3>2, <4>3, <4>4, AcceptedInTune DEF TuneInv, PureInv, Pure
      <4> QED
        BY <1>1, <1>3, <4>4, <4>5 DEF PureInv
    <3> QED
      BY <1>9, <3>1, <3>2 DEF Publish
  <2> QED
    BY <1>3, <1>4, <2>2, <2>3 DEF TuneInv
<1> QED
  BY <1>5, <1>6, <1>7, <1>8, <1>9 DEF ReaderStep

-----------------------------------------------------------------------------
(* The worker *)

LEMMA WorkerTune ==
  ASSUME IInv, TuneInv, WorkerStep
  PROVE  TuneInv'
<1>1. /\ buffer' = buffer /\ ui' = ui /\ drawn' = drawn /\ reader' = reader
      /\ epoch' = epoch /\ center' = center
  BY DEF WorkerStep, WorkerUnchanged, Take, Plan, BeginRow, CopyRow, Finish
<1>2. /\ worker \in WorkerType /\ worker.frame \in FrameType /\ queue \in QueueType
      /\ buffer \in BufferType
  BY TypeOKIs DEF IInv, WorkerType, FrameType
<1>3. HandInv'
  BY <1>1 DEF TuneInv, HandInv, EpochInv, AsyncHand, SyncHand, Clean
<1>4. ASSUME ~ Quiet' => ~ Quiet, AskedInv', RowsInv'
      PROVE  TuneInv'
  <2>1. WindowInv' /\ PureInv'
    BY <1>1, <1>4 DEF TuneInv, WindowInv, PureInv, AfterReset, Clean, Pure
  <2> QED
    BY <1>3, <1>4, <2>1 DEF TuneInv
<1>5. AtWork => Pure
  BY DEF TuneInv, PureInv, Quiet
<1>6. CASE Take
  <2>1. /\ queue'.gen = queue.gen /\ queue'.hasResult = queue.hasResult
        /\ queue'.latest = queue.latest /\ queue'.hasRequest = FALSE
    <3>1. queue' = [queue EXCEPT !.reset = FALSE, !.hasRequest = FALSE, !.pending = NoFrame]
      BY <1>6 DEF Take
    <3> QED
      BY <1>2, <3>1 DEF QueueType
  <2>2. CASE queue.hasRequest
    <3>1. worker' = [worker EXCEPT !.pc = "planning", !.frame = queue.pending]
      BY <1>6, <2>2 DEF Take
    <3>2. worker'.pc = "planning" /\ worker'.frame = queue.pending
      BY <1>2, <3>1 DEF WorkerType
    <3>3. worker'.frame.rows = <<>> /\ worker'.frame.setting \in Settings
      BY <2>2, <3>2 DEF IInv, QuietInv, TuneInv, AskedInv
    <3>4. RowsInv'
      BY <1>1, <2>1, <3>2, <3>3 DEF TuneInv, RowsInv, InTune
    <3>5. AskedInv' /\ ~ Quiet
      BY <2>1, <2>2, <3>3 DEF AskedInv, Quiet
    <3> QED
      BY <1>4, <3>4, <3>5
  <2>3. CASE ~ queue.hasRequest
    <3>1. worker' = worker
      BY <1>6, <2>3 DEF Take
    <3>2. (AtWork' <=> AtWork) /\ (Quiet' <=> Quiet)
      BY <2>1, <2>3, <3>1 DEF AtWork, Quiet
    <3>3. RowsInv' /\ AskedInv'
      BY <1>1, <2>1, <3>1, <3>2 DEF TuneInv, RowsInv, InTune, AskedInv
    <3> QED
      BY <1>4, <3>2, <3>3
  <2> QED
    BY <2>2, <2>3
<1>7. ASSUME queue' = queue, worker'.frame.gen = worker.frame.gen,
             worker'.frame.setting = worker.frame.setting,
             AtWork => InTune(worker'.frame.rows),
             worker.pc # "waiting", worker'.pc # "waiting",
             AtWork /\ worker'.pc = "copying" => worker'.row.centers = {center}
      PROVE  TuneInv'
  <2>1. (AtWork' <=> AtWork) /\ (Quiet' <=> Quiet)
    BY <1>7 DEF AtWork, Quiet
  <2>2. RowsInv'
    BY <1>1, <1>7, <2>1 DEF TuneInv, RowsInv, InTune
  <2>3. AskedInv'
    BY <1>7 DEF TuneInv, AskedInv
  <2> QED
    BY <1>4, <2>1, <2>2, <2>3
<1>8. CASE Plan
  <2>1. /\ queue' = queue /\ worker.pc = "planning" /\ worker'.frame = worker.frame
        /\ worker'.pc = "rows"
    BY <1>2, <1>8 DEF Plan, WorkerType
  <2> QED
    BY <1>7, <2>1 DEF TuneInv, RowsInv
<1>9. CASE BeginRow
  <2> DEFINE n == worker.frame.setting.floats
             end == IF Head(worker.ends) = 0 THEN Total ELSE Head(worker.ends)
             copying == [worker EXCEPT !.pc = "copying", !.row = RowAt(end, n),
                                       !.start = RowStart(end, n)]
  <2>1. queue' = queue /\ worker.pc = "rows" /\ worker.ends # <<>>
    BY <1>9 DEF BeginRow
  <2>2. CASE Available(end) > RetainedStart
    <3>1. worker' = copying
      BY <1>9, <2>2, Zenon DEF BeginRow
    <3>2. worker'.frame = worker.frame /\ worker'.pc = "copying" /\ worker'.row = RowAt(end, n)
      <4> HIDE DEF end, n
      <4> QED
        BY <1>2, <3>1 DEF WorkerType
    <3>3. end \in Nat
      <4>1. worker.ends \in Seq(Nat) /\ Total \in Nat
        BY <1>2, Positions DEF WorkerType
      <4> QED
        BY <2>1, <4>1
    <3>4. n \in Nat \ {0}
      BY <2>1, SettingsTyped DEF TuneInv, AskedInv
    <3>5. AtWork => worker'.row.centers = {center}
      <4> HIDE DEF end, n
      <4> QED
        BY <1>2, <1>5, <2>2, <3>2, <3>3, <3>4, RowInTune
    <3> QED
      BY <1>7, <2>1, <3>2, <3>5 DEF TuneInv, RowsInv
  <2>3. CASE ~ (Available(end) > RetainedStart)
    <3>1. worker' = [worker EXCEPT !.ends = Tail(@)]
      BY <1>9, <2>3, Zenon DEF BeginRow
    <3>2. worker'.frame = worker.frame /\ worker'.pc = "rows"
      BY <1>2, <2>1, <3>1 DEF WorkerType
    <3> QED
      BY <1>7, <2>1, <3>2 DEF TuneInv, RowsInv
  <2> QED
    BY <2>2, <2>3
<1>10. CASE CopyRow
  <2> DEFINE ends == Tail(worker.ends)
             done == [worker EXCEPT !.pc = "rows", !.ends = ends, !.row = NoRow, !.start = 0]
             rows == Append(worker.frame.rows, worker.row)
             frame == [worker.frame EXCEPT !.rows = rows]
  <2>1. queue' = queue /\ worker.pc = "copying"
    BY <1>10 DEF CopyRow
  <2>2. \/ /\ worker.row.resets = buffer.resets
           /\ worker' = [done EXCEPT !.frame.rows = Append(@, worker.row)]
        \/ worker' = done
    BY <1>10, Zenon DEF CopyRow
  <2>3. done.frame = worker.frame /\ done.pc = "rows"
        /\ done = [f \in {"pc", "frame", "ends", "epoch", "row", "start"} |-> done[f]]
    <3> HIDE DEF ends
    <3> QED
      BY <1>2 DEF WorkerType
  <2> HIDE DEF done
  <2>4. CASE worker' = done
    BY <1>7, <2>1, <2>3, <2>4 DEF TuneInv, RowsInv
  <2>5. CASE /\ worker.row.resets = buffer.resets
             /\ worker' = [done EXCEPT !.frame.rows = Append(@, worker.row)]
    <3>1. worker' = [done EXCEPT !.frame = frame]
      BY <2>3, <2>5, Zenon DEF rows
    <3>2. worker.frame.rows \in Seq(RowType) /\ worker.row \in RowType
      BY <1>2 DEF FrameType, WorkerType
    <3>3. AtWork => worker.row.centers = {center} /\ InTune(worker.frame.rows)
      BY <2>1, <2>5 DEF TuneInv, RowsInv
    <3>4. AtWork => InTune(rows)
      BY <3>2, <3>3 DEF InTune
    <3> HIDE DEF rows
    <3>5. /\ frame.gen = worker.frame.gen /\ frame.setting = worker.frame.setting
          /\ frame.rows = rows
      BY <1>2 DEF FrameType
    <3> HIDE DEF frame
    <3>6. worker'.pc = "rows" /\ worker'.frame = frame
      BY <2>3, <3>1
    <3> QED
      BY <1>7, <2>1, <3>4, <3>5, <3>6
  <2> QED
    BY <2>2, <2>4, <2>5
<1>11. CASE Finish
  <2>1. worker.pc = "rows"
    BY <1>11 DEF Finish
  <2>2. worker'.pc = "waiting"
    <3>1. worker' = [worker EXCEPT !.pc = "waiting", !.frame = NoFrame, !.epoch = 0]
      BY <1>11 DEF Finish
    <3> QED
      BY <1>2, <3>1 DEF WorkerType
  <2>3. /\ queue'.hasRequest = queue.hasRequest /\ queue'.pending = queue.pending
        /\ queue'.hasResult = (IF Stale THEN queue.hasResult ELSE TRUE)
        /\ queue'.latest = IF Stale THEN queue.latest ELSE worker.frame
    <3>1. queue' = [queue EXCEPT !.outstanding = FALSE,
                                 !.hasResult = IF Stale THEN @ ELSE TRUE,
                                 !.latest = IF Stale THEN @ ELSE worker.frame]
      BY <1>11 DEF Finish
    <3> QED
      BY <1>2, <3>1 DEF QueueType
  <2>4. ~ AtWork' /\ (~ Stale => AtWork)
    BY <2>1, <2>2 DEF AtWork, Stale
  <2>5. RowsInv'
    BY <1>1, <2>3, <2>4 DEF TuneInv, RowsInv, InTune
  <2>6. AskedInv' /\ (~ Quiet' => ~ Quiet)
    BY <2>2, <2>3, <2>4 DEF TuneInv, AskedInv, Quiet
  <2> QED
    BY <1>4, <2>5, <2>6
<1> QED
  BY <1>6, <1>8, <1>9, <1>10, <1>11 DEF WorkerStep

-----------------------------------------------------------------------------
(* The window polls *)

LEMMA PollTune ==
  ASSUME IInv, TuneInv, Poll
  PROVE  TuneInv'
<1>1. /\ reader' = reader /\ worker' = worker /\ buffer' = buffer /\ epoch' = epoch
      /\ center' = center /\ ui.pc = "idle" /\ ui.settle = FALSE
      /\ ui' = [ui EXCEPT !.pc = "claim"]
      /\ queue' = [queue EXCEPT !.hasResult = FALSE, !.latest = NoFrame]
  BY TypeOKIs DEF IInv, UiUnchanged, Poll, Polls, UiType
<1>2. ui \in UiType /\ queue \in QueueType
  BY TypeOKIs DEF IInv
<1>3. ui'.pc = "claim" /\ ui'.settle = FALSE /\ ui'.stream = ui.stream
  BY <1>1, <1>2 DEF UiType
<1>4. /\ queue'.hasResult = FALSE /\ queue'.hasRequest = queue.hasRequest
      /\ queue'.gen = queue.gen /\ queue'.pending = queue.pending
  BY <1>1, <1>2 DEF QueueType
<1>5. WindowInv' /\ AskedInv'
  BY <1>1, <1>3, <1>4 DEF TuneInv, WindowInv, AfterReset, AskedInv
<1>6. Clean /\ Clean'
  BY <1>1, <1>3 DEF Clean
<1>7. HandInv' /\ PureInv'
  BY <1>1, <1>3, <1>6 DEF TuneInv, HandInv, EpochInv, AsyncHand, SyncHand, PureInv, Pure
<1>8. RowsInv'
  <2>1. drawn'.verdict # "none" => InTune(drawn'.frame.rows)
    <3>1. CASE queue.hasResult
      <4>1. drawn'.frame = queue.latest
        <5> DEFINE verdict == Verdict(queue.latest)
        <5>1. drawn' = [verdict |-> verdict, frame |-> queue.latest, before |-> shown]
          BY <3>1, Zenon DEF Poll
        <5> HIDE DEF verdict
        <5> QED
          BY <5>1
      <4> QED
        BY <3>1, <4>1 DEF TuneInv, RowsInv
    <3>2. CASE ~ queue.hasResult
      <4>1. drawn' = drawn
        BY <3>2 DEF Poll
      <4> QED
        BY <4>1 DEF TuneInv, RowsInv
    <3> QED
      BY <3>1, <3>2
  <2>2. AtWork' <=> AtWork
    BY <1>1, <1>4 DEF AtWork
  <2> QED
    BY <1>1, <1>4, <2>1, <2>2 DEF TuneInv, RowsInv, InTune
<1> QED
  BY <1>5, <1>7, <1>8 DEF TuneInv

\* What is asked for is asked for while the buffer is in tune.
LEMMA ClaimTune ==
  ASSUME IInv, TuneInv, Claim \/ Enqueue
  PROVE  TuneInv'
<1>1. /\ reader' = reader /\ worker' = worker /\ buffer' = buffer /\ epoch' = epoch
      /\ center' = center /\ ui.pc \in {"claim", "enqueue"} /\ ~ ui.settle
  BY DEF UiUnchanged, Claim, Enqueue, IInv, QuietInv
<1>2. ui \in UiType /\ queue \in QueueType
  BY TypeOKIs DEF IInv
<1>3. ui'.pc \in {"idle", "enqueue"} /\ ui'.settle = ui.settle /\ ui'.stream = ui.stream
  <2>1. \/ ui' = [ui EXCEPT !.pc = "idle"]
        \/ ui' = [ui EXCEPT !.pc = "enqueue"]
    BY DEF Claim, Enqueue
  <2> QED
    BY <1>2, <2>1 DEF UiType
<1>4. /\ queue'.hasResult = queue.hasResult /\ queue'.latest = queue.latest
      /\ queue'.gen = queue.gen
      /\ queue'.hasRequest => /\ queue'.pending.setting \in Settings
  <2>1. CASE Claim
    <3>1. queue' = [queue EXCEPT !.outstanding = TRUE]
      BY <2>1 DEF Claim
    <3>2. queue'.hasRequest = queue.hasRequest /\ queue'.pending = queue.pending
          /\ queue'.hasResult = queue.hasResult /\ queue'.latest = queue.latest
          /\ queue'.gen = queue.gen
      BY <1>2, <3>1 DEF QueueType
    <3> QED
      BY <3>2 DEF TuneInv, AskedInv
  <2>2. CASE Enqueue
    <3> DEFINE asked == [setting |-> ui.setting, asked |-> ui.asked, center |-> center,
                         gen |-> queue.gen, rows |-> <<>>]
    <3>1. queue' = [queue EXCEPT !.hasRequest = TRUE, !.pending = asked]
      BY <2>2 DEF Enqueue
    <3>2. asked.setting \in Settings
      BY <1>2 DEF UiType
    <3> HIDE DEF asked
    <3> QED
      BY <1>2, <3>1, <3>2 DEF QueueType
  <2> QED
    BY <2>1, <2>2
<1>5. WindowInv'
  BY <1>3 DEF WindowInv, AfterReset
<1>6. AskedInv'
  BY <1>1, <1>4 DEF TuneInv, AskedInv
<1>7. Clean /\ Clean'
  BY <1>1, <1>3 DEF Clean
<1>8. HandInv' /\ PureInv'
  BY <1>1, <1>3, <1>7 DEF TuneInv, HandInv, EpochInv, AsyncHand, SyncHand, PureInv, Pure
<1>9. RowsInv'
  <2>1. drawn'.verdict # "none" => InTune(drawn'.frame.rows)
    <3>1. drawn' = NotDrawn \/ drawn' = drawn
      BY DEF Claim, Enqueue
    <3> QED
      BY <3>1 DEF TuneInv, RowsInv, NotDrawn
  <2>2. AtWork' <=> AtWork
    BY <1>1, <1>4 DEF AtWork
  <2> QED
    BY <1>1, <1>4, <2>1, <2>2 DEF TuneInv, RowsInv, InTune
<1> QED
  BY <1>5, <1>6, <1>8, <1>9 DEF TuneInv

\* During the settle time nobody asks, and when it is over what a callback
\* holds is in tune.
LEMMA SettleTune ==
  ASSUME IInv, TuneInv, Settle(FALSE) \/ Settle(TRUE)
  PROVE  TuneInv'
<1>1. /\ reader' = reader /\ worker' = worker /\ queue' = queue /\ drawn' = drawn
      /\ epoch' = epoch /\ center' = center
      /\ ui.pc = "idle" /\ ui.settle /\ buffer' = Cleared(0)
  BY DEF UiUnchanged, Settle, Polls
<1>2. ui \in UiType
  BY TypeOKIs DEF IInv
<1>3. /\ ui'.pc = "idle" /\ ui'.then = ui.then /\ ui'.stream = ui.stream
      /\ ui'.settle \/ SettleElapsed
  <2>1. CASE Settle(FALSE)
    <3>1. ui' = [ui EXCEPT !.settle = ~ FALSE]
      BY <2>1 DEF Settle
    <3> QED
      BY <1>1, <1>2, <3>1 DEF UiType
  <2>2. CASE Settle(TRUE)
    <3>1. ui' = [ui EXCEPT !.settle = ~ TRUE] /\ SettleElapsed
      BY <2>2 DEF Settle
    <3> QED
      BY <1>1, <1>2, <3>1 DEF UiType
  <2> QED
    BY <2>1, <2>2
<1>4. Quiet /\ Quiet'
  BY <1>1 DEF IInv, QuietInv, Quiet, AtWork
<1>5. WindowInv' /\ AskedInv'
  BY <1>1, <1>3, <1>4 DEF TuneInv, WindowInv, AfterReset, AskedInv
<1>6. buffer'.epoch = buffer.epoch /\ buffer'.blocks = <<>>
  BY <1>1 DEF Cleared
<1>7. EpochInv' /\ SyncHand'
  BY <1>1, <1>3, <1>6 DEF TuneInv, HandInv, EpochInv, SyncHand
<1>8. AsyncHand'
  BY <1>1, <1>3 DEF AsyncHand, Clean, SettleElapsed
<1>9. PureInv'
  BY <1>6 DEF PureInv, Pure
<1>10. RowsInv'
  BY <1>1, <1>4, RowsQuiet, NotDrawnNow
<1> QED
  BY <1>5, <1>7, <1>8, <1>9, <1>10 DEF TuneInv, HandInv

-----------------------------------------------------------------------------
(* The window clears and resets *)

LEMMA ClearBufferTune ==
  ASSUME IInv, TuneInv, ClearBuffer
  PROVE  TuneInv'
<1>1. /\ reader' = reader /\ worker' = worker /\ queue' = queue /\ drawn' = drawn
      /\ epoch' = epoch /\ center' = center
      /\ ui.pc = "clear" /\ buffer' = Cleared(ui.epoch) /\ ui' = [ui EXCEPT !.pc = "reset"]
  BY DEF UiUnchanged, ClearBuffer
<1>2. ui \in UiType /\ buffer \in BufferType /\ worker \in WorkerType
  BY TypeOKIs DEF IInv
<1>3. /\ ui'.pc = "reset" /\ ui'.settle = ui.settle /\ ui'.then = ui.then
      /\ ui'.stream = ui.stream /\ ui'.epoch = ui.epoch
  BY <1>1, <1>2 DEF UiType
<1>4. (Quiet' <=> Quiet) /\ (AfterReset' <=> AfterReset) /\ (Clean' <=> Clean)
  BY <1>1, <1>3 DEF Quiet, AtWork, AfterReset, Clean
<1>5. WindowInv' /\ AskedInv'
  BY <1>1, <1>3, <1>4 DEF TuneInv, WindowInv, AskedInv
<1>6. /\ buffer'.blocks = <<>>
      /\ buffer'.epoch = IF ui.epoch = 0 THEN buffer.epoch ELSE ui.epoch
  BY <1>1 DEF Cleared
<1>7. EpochInv' /\ AsyncHand'
  BY <1>1, <1>3, <1>4 DEF TuneInv, HandInv, EpochInv, AsyncHand
<1>8. SyncHand'
  <2>1. CASE ui.epoch = 0
    BY <1>1, <1>3, <1>6, <2>1 DEF TuneInv, HandInv, SyncHand
  <2>2. CASE ui.epoch # 0
    BY <1>1, <1>3, <1>6, <2>2 DEF TuneInv, HandInv, SyncHand
  <2> QED
    BY <2>1, <2>2
<1>9. PureInv'
  BY <1>6 DEF PureInv, Pure
<1>10. RowsInv'
  <2>1. worker.pc = "copying" => worker.row.resets <= buffer.resets
    BY DEF IInv, FreshInv
  <2>2. buffer.resets \in Nat /\ worker.row.resets \in Nat
    BY <1>2 DEF BufferType, WorkerType, RowType
  <2>3. buffer'.resets \in {buffer.resets, buffer.resets + 1}
    BY <1>1 DEF Cleared
  <2> QED
    BY <1>1, <2>1, <2>2, <2>3, RowsKept DEF TuneInv
<1> QED
  BY <1>5, <1>7, <1>8, <1>9, <1>10 DEF TuneInv, HandInv

LEMMA ResetWorkerTune ==
  ASSUME IInv, TuneInv, ResetWorker
  PROVE  TuneInv'
<1>1. /\ reader' = reader /\ worker' = worker /\ buffer' = buffer /\ drawn' = drawn
      /\ epoch' = epoch /\ center' = center /\ ui.pc = "reset" /\ queue' = Reset
  BY DEF UiUnchanged, ResetWorker
<1>2. ui \in UiType
  BY TypeOKIs DEF IInv
<1> DEFINE pc == IF ui.then = "settle" THEN "idle" ELSE ui.then
           settle == ui.settle \/ ui.then = "settle"
<1>3. ui' = [ui EXCEPT !.pc = pc, !.settle = settle, !.then = "idle", !.epoch = 0]
  BY Zenon DEF ResetWorker
<1>4. /\ pc \in {"idle", "start", "tune"} /\ settle \in BOOLEAN
      /\ pc = "tune" => ui.then = "tune"
      /\ pc = "idle" => settle
      /\ ~ settle => ~ ui.settle
  BY <1>1, <1>2 DEF UiType, TuneInv, WindowInv
<1> HIDE DEF pc, settle
<1>5. ui'.pc = pc /\ ui'.settle = settle /\ ui'.stream = ui.stream
  BY <1>2, <1>3 DEF UiType
<1>6. Quiet'
  BY <1>1, ResetIs DEF Quiet
<1>7. WindowInv' /\ AskedInv'
  BY <1>1, <1>4, <1>5, <1>6 DEF TuneInv, WindowInv, AskedInv, Quiet
<1>8. Clean' => Clean
  BY <1>1, <1>4, <1>5 DEF Clean
<1>9. EpochInv' /\ AsyncHand'
  BY <1>1, <1>5, <1>8 DEF TuneInv, HandInv, EpochInv, AsyncHand
<1>10. SyncHand'
  BY <1>1, <1>4, <1>5 DEF TuneInv, HandInv, SyncHand
<1>11. PureInv'
  BY <1>1, <1>6, <1>8 DEF TuneInv, PureInv, Pure
<1>12. RowsInv'
  BY <1>1, <1>6, RowsQuiet, NotDrawnNow
<1> QED
  BY <1>7, <1>9, <1>10, <1>11, <1>12 DEF TuneInv, HandInv

-----------------------------------------------------------------------------
(* The window starts, stops, tunes and changes settings *)

\* Steps that leave buffer, worker and frequency alone.
LEMMA WindowTune ==
  ASSUME IInv, TuneInv, center' = center, buffer' = buffer, worker' = worker, drawn' = drawn,
         queue' = queue \/ queue' = Reset, ui.pc \in {"idle", "start", "tune", "tuned"},
         WindowInv', HandInv', Clean' /\ ui'.pc # "clear" => Clean
  PROVE  TuneInv'
<1>1. drawn.verdict = "none"
  BY NotDrawnNow
<1>2. CASE queue' = queue
  <2>1. AskedInv' /\ PureInv'
    BY <1>2 DEF TuneInv, AskedInv, PureInv, Pure, Quiet, AtWork
  <2>2. RowsInv'
    BY <1>2, RowsKept DEF TuneInv
  <2> QED
    BY <2>1, <2>2 DEF TuneInv
<1>3. CASE queue' = Reset
  <2>1. Quiet'
    BY <1>3, ResetIs DEF Quiet
  <2>2. AskedInv' /\ PureInv'
    BY <2>1 DEF TuneInv, AskedInv, PureInv, Pure, Quiet
  <2>3. RowsInv'
    BY <1>1, <2>1, RowsQuiet
  <2> QED
    BY <2>2, <2>3 DEF TuneInv
<1> QED
  BY <1>2, <1>3

\* The barrier of a retune refuses every block read before it; an Agile
\* receiver is retuned only when its settle time is over.
LEMMA BarrierTune ==
  ASSUME IInv, TuneInv, NEW f, Barrier(f), ui.pc = "idle",
         ui.stream.kind = "agile" => Ready,
         center' = center, buffer' = buffer, worker' = worker, drawn' = drawn,
         queue' = queue, reader' = reader
  PROVE  TuneInv'
<1> DEFINE settle == ui.stream.kind # "agile" /\ ui.settle
           cleared == ThenClear(epoch + 1, "tune")
<1>1. ui \in UiType /\ epoch \in Nat /\ reader \in ReaderType
  BY TypeOKIs DEF IInv
<1>2. epoch' = epoch + 1
      /\ ui' = [cleared EXCEPT !.asked = f, !.queued = FALSE, !.settle = settle]
  BY Zenon DEF Barrier
<1>3. /\ cleared.pc = "clear" /\ cleared.then = "tune" /\ cleared.epoch = epoch + 1
      /\ cleared.stream = ui.stream /\ cleared \in UiType
  <2>1. ASSUME NEW e \in Nat
        PROVE  LET next == ThenClear(e, "tune")
               IN  /\ next.pc = "clear" /\ next.then = "tune" /\ next.epoch = e
                   /\ next.stream = ui.stream /\ next \in UiType
    BY <1>1 DEF ThenClear, UiType
  <2>2. epoch + 1 \in Nat
    BY <1>1
  <2> QED
    BY <2>1, <2>2
<1>4. settle => ui.settle
  OBVIOUS
<1>5. ~ settle /\ ui.settle => SettleElapsed
  BY DEF Ready
<1> HIDE DEF settle, cleared
<1>6. /\ ui'.pc = "clear" /\ ui'.then = "tune" /\ ui'.epoch = epoch + 1
      /\ ui'.stream = ui.stream /\ ui'.settle = settle
  BY <1>2, <1>3 DEF UiType
<1>7. WindowInv'
  BY <1>6 DEF WindowInv, AfterReset
<1>8. EpochInv'
  BY <1>1, <1>2 DEF TuneInv, HandInv, EpochInv, ReaderType
<1>9. AsyncHand'
  <2>1. CASE ui.settle
    BY <1>5, <1>6, <2>1 DEF AsyncHand, Clean, SettleElapsed
  <2>2. CASE ~ ui.settle
    BY <1>6, <2>2 DEF TuneInv, HandInv, AsyncHand, Clean
  <2> QED
    BY <2>1, <2>2
<1>10. SyncHand'
  <2>1. reader.pc = "holding" => reader.epoch # epoch + 1
    BY <1>1 DEF TuneInv, HandInv, EpochInv, ReaderType
  <2> QED
    BY <1>6, <2>1 DEF TuneInv, HandInv, SyncHand
<1> QED
  BY <1>6, <1>7, <1>8, <1>9, <1>10, WindowTune DEF HandInv

LEMMA TuneTune ==
  ASSUME IInv, TuneInv, Tune
  PROVE  TuneInv'
<1>1. /\ epoch' = epoch /\ reader' = reader /\ buffer' = buffer /\ queue' = queue
      /\ worker' = worker /\ drawn' = drawn /\ ui.pc = "tune"
  BY DEF Tune
<1>2. ui \in UiType
  BY TypeOKIs DEF IInv
<1>3. Quiet /\ Quiet' /\ drawn.verdict = "none"
  BY <1>1, NotDrawnNow DEF TuneInv, WindowInv, AfterReset, Quiet, AtWork
<1>4. RowsInv' /\ AskedInv'
  BY <1>1, <1>3, RowsQuiet DEF TuneInv, AskedInv
<1>5. CASE \/ ui' = [ui EXCEPT !.pc = "tuned", !.stored = "none"]
            \/ ui' = [ui EXCEPT !.pc = "tuned", !.stored = ui.asked]
  <2>1. ui'.pc = "tuned" /\ ~ Clean' /\ ui'.stream = ui.stream
    BY <1>2, <1>5 DEF UiType, Clean
  <2>2. WindowInv' /\ PureInv'
    BY <1>3, <2>1 DEF WindowInv, PureInv
  <2>3. HandInv'
    BY <1>1, <2>1 DEF TuneInv, HandInv, EpochInv, AsyncHand, SyncHand
  <2> QED
    BY <1>4, <2>2, <2>3 DEF TuneInv
<1>6. CASE center' = center /\ ui' = [ui EXCEPT !.pc = "idle"]
  <2>1. ui'.pc = "idle" /\ ui'.settle = ui.settle /\ ui'.stream = ui.stream
    BY <1>2, <1>6 DEF UiType
  <2>2. WindowInv'
    BY <2>1 DEF WindowInv, AfterReset
  <2>3. HandInv' /\ (Clean' => Clean)
    BY <1>1, <1>6, <2>1 DEF TuneInv, HandInv, EpochInv, AsyncHand, SyncHand, Clean
  <2> QED
    BY <1>1, <1>6, <2>2, <2>3, WindowTune
<1> QED
  BY <1>5, <1>6 DEF Tune

LEMMA TunedTune ==
  ASSUME IInv, TuneInv, Tuned
  PROVE  TuneInv'
<1>1. /\ epoch' = epoch + 1 /\ center' = center /\ reader' = reader /\ buffer' = buffer
      /\ queue' = queue /\ worker' = worker /\ drawn' = drawn /\ ui.pc = "tuned"
      /\ ui' = ThenClear(epoch + 1, "settle")
  BY DEF Tuned, UiUnchanged
<1>2. ui \in UiType /\ epoch \in Nat /\ reader \in ReaderType
  BY TypeOKIs DEF IInv
<1>3. /\ ui'.pc = "clear" /\ ui'.then = "settle" /\ ui'.epoch = epoch + 1 /\ ui'.epoch # 0
      /\ ui'.stream = ui.stream
  BY <1>1, <1>2 DEF ThenClear, UiType
<1>4. ~ Clean'
  BY <1>3 DEF Clean
<1>5. WindowInv'
  BY <1>1, <1>3 DEF TuneInv, WindowInv, AfterReset, Quiet, AtWork
<1>6. EpochInv' /\ AsyncHand'
  BY <1>1, <1>2, <1>4 DEF TuneInv, HandInv, EpochInv, AsyncHand, ReaderType
<1>7. SyncHand'
  <2>1. reader.pc = "holding" => reader.epoch # epoch + 1
    BY <1>2 DEF TuneInv, HandInv, EpochInv, ReaderType
  <2> QED
    BY <1>1, <1>3, <2>1 DEF SyncHand
<1> QED
  BY <1>1, <1>4, <1>5, <1>6, <1>7, WindowTune DEF HandInv

\* A stream starts with an empty buffer, after the worker was reset.
LEMMA StartReaderTune ==
  ASSUME IInv, TuneInv, StartReader
  PROVE  TuneInv'
<1>1. /\ buffer' = buffer /\ queue' = queue /\ worker' = worker /\ drawn' = drawn
      /\ ui.pc = "start" /\ reader' = [reader EXCEPT !.pc = "begin"]
  BY DEF StartReader
<1>2. ui \in UiType /\ reader \in ReaderType
  BY TypeOKIs DEF IInv
<1>3. reader'.pc = "begin"
  BY <1>1, <1>2 DEF ReaderType
<1>4. Quiet /\ Quiet' /\ drawn.verdict = "none"
  BY <1>1, NotDrawnNow DEF TuneInv, WindowInv, AfterReset, Quiet, AtWork
<1>5. WindowInv'
  <2>1. CASE ui' = ThenClear(0, "settle")
    <3>1. ui'.then = "settle"
      BY <1>2, <2>1 DEF ThenClear, UiType
    <3> QED
      BY <1>4, <3>1 DEF WindowInv
  <2>2. CASE ui' = [ui EXCEPT !.pc = "idle"]
    <3>1. ui'.pc = "idle"
      BY <1>2, <2>2 DEF UiType
    <3> QED
      BY <3>1 DEF WindowInv, AfterReset
  <2> QED
    BY <2>1, <2>2 DEF StartReader
<1>6. HandInv'
  BY <1>3 DEF HandInv, EpochInv, AsyncHand, SyncHand
<1>7. PureInv'
  BY <1>1 DEF IInv, EmptyInv, PureInv, Pure
<1>8. RowsInv' /\ AskedInv'
  BY <1>1, <1>4, RowsQuiet DEF TuneInv, AskedInv
<1> QED
  BY <1>5, <1>6, <1>7, <1>8 DEF TuneInv

LEMMA CommandTune ==
  ASSUME IInv, TuneInv, QueuedRetune \/ User
  PROVE  TuneInv'
<1>1. /\ worker' = worker /\ buffer' = buffer /\ drawn' = drawn /\ center' = center
      /\ ui.pc = "idle"
  BY DEF UiUnchanged, QueuedRetune, User, Start, HardwareChange, Stop, Retune, Polls,
         ChangeSettings
<1>2. ui \in UiType /\ reader \in ReaderType
  BY TypeOKIs DEF IInv
\* Nothing changes but a note, or a setting.
<1>3. ASSUME epoch' = epoch, reader' = reader, queue' = queue \/ queue' = Reset,
             ui'.pc = ui.pc, ui'.settle = ui.settle, ui'.stream = ui.stream
      PROVE  TuneInv'
  <2>1. WindowInv' /\ (Clean' <=> Clean)
    BY <1>1, <1>3 DEF WindowInv, AfterReset, Clean
  <2>2. HandInv'
    BY <1>1, <1>3, <2>1 DEF TuneInv, HandInv, EpochInv, AsyncHand, SyncHand
  <2> QED
    BY <1>1, <1>3, <2>1, <2>2, WindowTune
\* The reader is off.
<1>4. ASSUME queue' = queue, reader'.pc = "off",
             ui' = ui \/ (ui'.pc = "clear" /\ ui'.then = "start")
      PROVE  TuneInv'
  <2>1. WindowInv' /\ (Clean' => Clean)
    BY <1>1, <1>4 DEF WindowInv, AfterReset, Clean
  <2>2. HandInv'
    BY <1>4 DEF HandInv, EpochInv, AsyncHand, SyncHand
  <2> QED
    BY <1>1, <1>4, <2>1, <2>2, WindowTune
<1>5. CASE QueuedRetune
  <2>1. queue' = queue /\ reader' = reader
    BY <1>5 DEF QueuedRetune, UiUnchanged
  <2>2. CASE Ready /\ Barrier(ui.asked)
    BY <1>1, <2>1, <2>2, BarrierTune
  <2>3. CASE ui' = [ui EXCEPT !.queued = FALSE] /\ epoch' = epoch
    <3>1. ui'.pc = ui.pc /\ ui'.settle = ui.settle /\ ui'.stream = ui.stream
      BY <1>2, <2>3 DEF UiType
    <3> QED
      BY <1>3, <2>1, <2>3, <3>1
  <2> QED
    BY <1>5, <2>2, <2>3 DEF QueuedRetune
<1>6. CASE \E stream \in Streams : Start(stream)
  <2>1. PICK stream \in Streams : Start(stream)
    BY <1>6
  <2> DEFINE cleared == ThenClear(0, "start")
  <2>2. reader.pc = "off" /\ queue' = queue /\ reader' = reader
        /\ ui' = [cleared EXCEPT !.stream = stream, !.stored = "none"]
    BY <2>1 DEF Start, UiUnchanged
  <2>3. cleared.pc = "clear" /\ cleared.then = "start" /\ cleared \in UiType
    BY <1>2 DEF ThenClear, UiType
  <2> HIDE DEF cleared
  <2>4. ui'.pc = "clear" /\ ui'.then = "start"
    BY <2>2, <2>3 DEF UiType
  <2> QED
    BY <1>4, <2>2, <2>4
<1>7. CASE HardwareChange
  <2>1. queue' = queue /\ ui' = ThenClear(0, "start") /\ reader' = [reader EXCEPT !.pc = "off"]
    BY <1>7 DEF HardwareChange
  <2>2. reader'.pc = "off" /\ ui'.pc = "clear" /\ ui'.then = "start"
    BY <1>2, <2>1 DEF ReaderType, ThenClear, UiType
  <2> QED
    BY <1>4, <2>1, <2>2
<1>8. CASE Stop
  <2>1. queue' = queue /\ ui' = ui /\ reader' = [reader EXCEPT !.pc = "off"]
    BY <1>8 DEF Stop
  <2>2. reader'.pc = "off"
    BY <1>2, <2>1 DEF ReaderType
  <2> QED
    BY <1>4, <2>1, <2>2
<1>9. CASE \E f \in Frequencies : Retune(f)
  <2>1. PICK f \in Frequencies : Retune(f)
    BY <1>9
  <2>2. queue' = queue /\ reader' = reader
    BY <2>1 DEF Retune, UiUnchanged
  <2>3. CASE (ui.stream.kind = "agile" => Ready) /\ Barrier(f)
    BY <1>1, <2>2, <2>3, BarrierTune
  <2>4. CASE ui' = [ui EXCEPT !.asked = f, !.queued = TRUE] /\ epoch' = epoch
    <3>1. ui'.pc = ui.pc /\ ui'.settle = ui.settle /\ ui'.stream = ui.stream
      BY <1>2, <2>4 DEF UiType
    <3> QED
      BY <1>3, <2>2, <2>4, <3>1
  <2> QED
    BY <2>1, <2>3, <2>4 DEF Retune
<1>10. CASE \E s \in Settings : ChangeSettings(s)
  <2>1. PICK s \in Settings : ChangeSettings(s)
    BY <1>10
  <2>2. /\ epoch' = epoch /\ reader' = reader /\ ui' = [ui EXCEPT !.setting = s]
        /\ queue' = queue \/ queue' = Reset
    BY <2>1 DEF ChangeSettings, UiUnchanged
  <2>3. ui'.pc = ui.pc /\ ui'.settle = ui.settle /\ ui'.stream = ui.stream
    BY <1>2, <2>2 DEF UiType
  <2> QED
    BY <1>3, <2>2, <2>3
<1> QED
  BY <1>5, <1>6, <1>7, <1>8, <1>9, <1>10 DEF User

-----------------------------------------------------------------------------
(* The tune stored for the reader's thread *)

\* It is sent while nothing asked for can be drawn and nothing published then
\* will be.
LEMMA PendingRetuneTune ==
  ASSUME IInv, TuneInv, StoredInv, ApplyPendingRetune
  PROVE  TuneInv'
<1>1. /\ epoch' = epoch /\ reader' = reader /\ buffer' = buffer /\ queue' = queue
      /\ worker' = worker /\ drawn' = drawn /\ ui.stored # "none"
      /\ ui' = [ui EXCEPT !.stored = "none"]
  BY DEF ApplyPendingRetune
<1>2. ui \in UiType
  BY TypeOKIs DEF IInv
<1>3. /\ ui'.pc = ui.pc /\ ui'.then = ui.then /\ ui'.settle = ui.settle
      /\ ui'.stream = ui.stream
  BY <1>1, <1>2 DEF UiType
<1>4. ~ ui.stream.sync
      /\ (ui.settle \/ ui.pc = "tuned" \/ (ui.pc \in {"clear", "reset"} /\ ui.then = "settle"))
  BY <1>1 DEF StoredInv
<1>5. ~ Clean /\ ui.pc # "claim"
  BY <1>4 DEF Clean, IInv, QuietInv
<1>6. Quiet
  BY <1>4 DEF IInv, QuietInv, TuneInv, WindowInv, AfterReset, Quiet
<1>7. ~ Clean' /\ Quiet'
  BY <1>1, <1>3, <1>5, <1>6 DEF Clean, Quiet, AtWork
<1>8. WindowInv' /\ AskedInv'
  BY <1>1, <1>3, <1>7 DEF TuneInv, WindowInv, AfterReset, AskedInv
<1>9. HandInv'
  BY <1>1, <1>3, <1>4, <1>7 DEF TuneInv, HandInv, EpochInv, AsyncHand, SyncHand
<1>10. PureInv'
  BY <1>7 DEF PureInv
<1>11. RowsInv'
  BY <1>1, <1>5, <1>7, RowsQuiet, NotDrawnNow
<1> QED
  BY <1>8, <1>9, <1>10, <1>11 DEF TuneInv

LEMMA StoredStep ==
  ASSUME IInv, StoredInv, [Next]_vars
  PROVE  StoredInv'
<1>1. ui \in UiType
  BY TypeOKIs DEF IInv
<1>2. CASE ui' = ui
  BY <1>2 DEF StoredInv
<1>3. ASSUME ui'.stored = "none"
      PROVE  StoredInv'
  BY <1>3 DEF StoredInv
\* The settle time goes on.
<1>4. ASSUME ui'.stored = ui.stored, ui'.stream = ui.stream, ui'.settle = ui.settle,
             ui.pc \notin {"tuned", "clear", "reset"}
      PROVE  StoredInv'
  BY <1>4 DEF StoredInv
<1>5. ASSUME NEW e \in Nat, NEW then \in {"start", "tune", "settle"}
      PROVE  LET next == ThenClear(e, then)
             IN  /\ next \in UiType /\ next.pc = "clear" /\ next.then = then
                 /\ next.stored = ui.stored /\ next.stream = ui.stream
  BY <1>1 DEF ThenClear, UiType
<1>6. ASSUME NEW f, Barrier(f), ui.pc = "idle"
      PROVE  StoredInv'
  <2> DEFINE settle == ui.stream.kind # "agile" /\ ui.settle
             cleared == ThenClear(epoch + 1, "tune")
  <2>1. ui' = [cleared EXCEPT !.asked = f, !.queued = FALSE, !.settle = settle]
    BY <1>6, Zenon DEF Barrier
  <2>2. epoch + 1 \in Nat
    BY TypeOKIs DEF IInv
  <2>3. cleared \in UiType /\ cleared.stored = ui.stored /\ cleared.stream = ui.stream
    BY <1>5, <2>2
  <2>4. ui.stream.kind = "external" => settle = ui.settle
    BY <1>1 DEF UiType
  <2> HIDE DEF settle, cleared
  <2>5. ui'.stored = ui.stored /\ ui'.stream = ui.stream /\ ui'.settle = settle
    BY <2>1, <2>3 DEF UiType
  <2> QED
    BY <1>6, <2>4, <2>5 DEF StoredInv
<1>7. CASE Settle(FALSE) \/ Settle(TRUE)
  <2>1. CASE Settle(FALSE)
    <3>1. ui.settle /\ ui.pc = "idle" /\ ui' = [ui EXCEPT !.settle = ~ FALSE]
      BY <2>1 DEF Settle, Polls
    <3>2. ui'.stored = ui.stored /\ ui'.stream = ui.stream /\ ui'.settle = TRUE
      BY <1>1, <3>1 DEF UiType
    <3> QED
      BY <3>2 DEF StoredInv
  <2>2. CASE Settle(TRUE)
    <3>1. SettleElapsed /\ ui' = [ui EXCEPT !.settle = ~ TRUE]
      BY <2>2 DEF Settle
    <3>2. ui'.stored = ui.stored
      BY <1>1, <3>1 DEF UiType
    <3>3. ui.stored = "none"
      BY <3>1 DEF SettleElapsed, StoredInv
    <3> QED
      BY <1>3, <3>2, <3>3
  <2> QED
    BY <1>7, <2>1, <2>2
<1>8. CASE Poll \/ Claim \/ Enqueue
  <2>1. /\ ui.pc \in {"idle", "claim", "enqueue"}
        /\ \/ ui' = [ui EXCEPT !.pc = "idle"] \/ ui' = [ui EXCEPT !.pc = "claim"]
           \/ ui' = [ui EXCEPT !.pc = "enqueue"]
    BY <1>8 DEF Poll, Polls, Claim, Enqueue
  <2>2. ui'.stored = ui.stored /\ ui'.stream = ui.stream /\ ui'.settle = ui.settle
    BY <1>1, <2>1 DEF UiType
  <2> QED
    BY <1>4, <2>1, <2>2
<1>9. CASE ClearBuffer
  <2>1. ui.pc = "clear" /\ ui' = [ui EXCEPT !.pc = "reset"]
    BY <1>9 DEF ClearBuffer
  <2>2. /\ ui'.stored = ui.stored /\ ui'.stream = ui.stream /\ ui'.settle = ui.settle
        /\ ui'.pc = "reset" /\ ui'.then = ui.then
    BY <1>1, <2>1 DEF UiType
  <2> QED
    BY <2>1, <2>2 DEF StoredInv
<1>10. CASE ResetWorker
  <2> DEFINE pc == IF ui.then = "settle" THEN "idle" ELSE ui.then
             settle == ui.settle \/ ui.then = "settle"
  <2>1. ui.pc = "reset"
        /\ ui' = [ui EXCEPT !.pc = pc, !.settle = settle, !.then = "idle", !.epoch = 0]
    BY <1>10, Zenon DEF ResetWorker
  <2>2. ui'.stored = ui.stored /\ ui'.stream = ui.stream /\ ui'.settle = settle
    <3> HIDE DEF pc, settle
    <3> QED
      BY <1>1, <2>1 DEF UiType
  <2> QED
    BY <2>1, <2>2 DEF StoredInv
<1>11. CASE StartReader
  <2>1. CASE ui.stream.kind = "agile"
    <3>1. ui' = ThenClear(0, "settle")
      BY <1>11, <2>1 DEF StartReader
    <3>2. ui'.stored = ui.stored
      BY <1>5, <3>1
    <3> QED
      BY <1>3, <2>1, <3>2 DEF StoredInv
  <2>2. CASE ui.stream.kind # "agile"
    <3>1. ui.pc = "start" /\ ui' = [ui EXCEPT !.pc = "idle"]
      BY <1>11, <2>2 DEF StartReader
    <3>2. ui'.stored = ui.stored /\ ui'.stream = ui.stream /\ ui'.settle = ui.settle
      BY <1>1, <3>1 DEF UiType
    <3> QED
      BY <1>4, <3>1, <3>2
  <2> QED
    BY <2>1, <2>2
<1>12. CASE QueuedRetune \/ \E f \in Frequencies : Retune(f)
  <2>1. ui.pc = "idle"
    BY <1>12 DEF QueuedRetune, Retune, Polls
  <2>2. \/ \E f : Barrier(f)
        \/ ui' = [ui EXCEPT !.queued = FALSE]
        \/ \E f : ui' = [ui EXCEPT !.asked = f, !.queued = TRUE]
    BY <1>12 DEF QueuedRetune, Retune
  <2>3. CASE ~ \E f : Barrier(f)
    <3>1. ui'.stored = ui.stored /\ ui'.stream = ui.stream /\ ui'.settle = ui.settle
      BY <1>1, <2>2, <2>3 DEF UiType
    <3> QED
      BY <1>4, <2>1, <3>1
  <2> QED
    BY <1>6, <2>1, <2>3
<1>13. CASE Tune
  <2>1. ui.pc = "tune"
    BY <1>13 DEF Tune
  <2>2. CASE ui' = [ui EXCEPT !.pc = "tuned", !.stored = "none"]
    <3>1. ui'.stored = "none"
      BY <1>1, <2>2 DEF UiType
    <3> QED
      BY <1>3, <3>1
  <2>3. CASE ui' = [ui EXCEPT !.pc = "idle"]
    <3>1. ui'.stored = ui.stored /\ ui'.stream = ui.stream /\ ui'.settle = ui.settle
      BY <1>1, <2>3 DEF UiType
    <3> QED
      BY <1>4, <2>1, <3>1
  <2>4. CASE /\ ui.stream.kind = "external" /\ ~ ui.stream.sync
             /\ ui' = [ui EXCEPT !.pc = "tuned", !.stored = ui.asked]
    <3>1. ui'.pc = "tuned" /\ ui'.stream = ui.stream
      BY <1>1, <2>4 DEF UiType
    <3> QED
      BY <2>4, <3>1 DEF StoredInv
  <2> QED
    BY <1>13, <2>2, <2>3, <2>4 DEF Tune
<1>14. CASE Tuned
  <2>1. ui.pc = "tuned" /\ ui' = ThenClear(epoch + 1, "settle") /\ epoch + 1 \in Nat
    BY <1>14, TypeOKIs DEF Tuned, IInv
  <2>2. /\ ui'.stored = ui.stored /\ ui'.stream = ui.stream
        /\ ui'.pc = "clear" /\ ui'.then = "settle"
    BY <1>5, <2>1
  <2> QED
    BY <2>2 DEF StoredInv
<1>15. CASE \E stream \in Streams : Start(stream)
  <2> DEFINE cleared == ThenClear(0, "start")
  <2>1. PICK stream \in Streams : ui' = [cleared EXCEPT !.stream = stream, !.stored = "none"]
    BY <1>15 DEF Start
  <2>2. cleared \in UiType
    BY <1>5
  <2> HIDE DEF cleared
  <2>3. ui'.stored = "none"
    BY <2>1, <2>2 DEF UiType
  <2> QED
    BY <1>3, <2>3
<1>16. CASE HardwareChange
  <2>1. ui.stream.kind # "external" /\ ui' = ThenClear(0, "start")
    BY <1>16 DEF HardwareChange
  <2>2. ui'.stored = ui.stored
    BY <1>5, <2>1
  <2> QED
    BY <1>3, <2>1, <2>2 DEF StoredInv
<1>17. CASE \E s \in Settings : ChangeSettings(s)
  <2>1. ui.pc = "idle" /\ \E s : ui' = [ui EXCEPT !.setting = s]
    BY <1>17 DEF ChangeSettings
  <2>2. ui'.stored = ui.stored /\ ui'.stream = ui.stream /\ ui'.settle = ui.settle
    BY <1>1, <2>1 DEF UiType
  <2> QED
    BY <1>4, <2>1, <2>2
<1>18. CASE ApplyPendingRetune
  <2>1. ui' = [ui EXCEPT !.stored = "none"]
    BY <1>18 DEF ApplyPendingRetune
  <2>2. ui'.stored = "none"
    BY <1>1, <2>1 DEF UiType
  <2> QED
    BY <1>3, <2>2
<1>19. CASE ReaderStep \/ WorkerStep \/ Stop \/ UNCHANGED vars
  <2>1. ui' = ui
    BY <1>19 DEF ReaderStep, ReaderUnchanged, LoadStartEpoch, ClearAtStart, Receive, LoadEpoch,
                 Publish, WorkerStep, WorkerUnchanged, Take, Plan, BeginRow, CopyRow, Finish,
                 Stop, vars
  <2> QED
    BY <1>2, <2>1
<1> QED
  BY <1>7, <1>8, <1>9, <1>10, <1>11, <1>12, <1>13, <1>14, <1>15, <1>16, <1>17, <1>18, <1>19
     DEF Next, UiStep, User

-----------------------------------------------------------------------------
(* Theorem *)

LEMMA InitTune == Init => TuneInv /\ StoredInv
<1> SUFFICES ASSUME Init PROVE TuneInv /\ StoredInv
  OBVIOUS
<1>1. PICK s \in Settings :
        ui = [pc |-> "idle", then |-> "idle", epoch |-> 0, settle |-> FALSE,
              queued |-> FALSE, asked |-> center, stored |-> "none", stream |-> Nothing,
              setting |-> s]
  BY DEF Init
<1>2. ui.pc = "idle" /\ ~ queue.hasRequest /\ ~ queue.hasResult /\ worker.pc = "waiting"
  BY <1>1 DEF Init
<1>3. reader.pc = "off" /\ buffer.blocks = <<>> /\ drawn.verdict = "none"
  BY DEF Init, NotDrawn
<1>4. WindowInv /\ AskedInv
  BY <1>2 DEF WindowInv, AfterReset, AskedInv
<1>5. HandInv /\ PureInv
  BY <1>3 DEF HandInv, EpochInv, AsyncHand, SyncHand, PureInv, Pure
<1>6. RowsInv
  BY <1>2, <1>3 DEF RowsInv, AtWork
<1>7. StoredInv
  BY <1>1 DEF StoredInv
<1> QED
  BY <1>4, <1>5, <1>6, <1>7 DEF TuneInv

LEMMA TuneInvariance ==
  IInv /\ TuneInv /\ StoredInv /\ [Next]_vars => TuneInv' /\ StoredInv'
<1> SUFFICES ASSUME IInv, TuneInv, StoredInv, [Next]_vars PROVE TuneInv'
  BY StoredStep
<1>1. CASE ReaderStep \/ WorkerStep
  BY <1>1, ReaderTune, WorkerTune
<1>2. CASE UiStep
  BY <1>2, SettleTune, PollTune, ClaimTune, ClearBufferTune, ResetWorkerTune, StartReaderTune,
     CommandTune, TuneTune, TunedTune DEF UiStep
<1>3. CASE User
  BY <1>3, CommandTune
<1>4. CASE UNCHANGED vars
  BY <1>4 DEF vars, TuneInv, WindowInv, AfterReset, Quiet, AtWork, AskedInv, HandInv, EpochInv,
              AsyncHand, SyncHand, Clean, PureInv, Pure, RowsInv, InTune
<1>5. CASE ApplyPendingRetune
  BY <1>5, PendingRetuneTune
<1> QED
  BY <1>1, <1>2, <1>3, <1>4, <1>5 DEF Next

\* Every row drawn was received at the frequency the receiver is tuned to,
\* however retunes, starts, stops and failing tunes meet the reader's thread,
\* the worker and the settle time (the epoch taken before and after a tune in
\* applyCenterFrequencyToHardwareIfNeeded, IqBuffer::appendInterleaved's
\* refusal, the worker's generation, updateSpectrum's settle time).
THEOREM ShownInTuneCorrect == Spec => []ShownInTune
<1>1. TuneInv => ShownInTune
  BY DEF TuneInv, RowsInv, InTune, ShownInTune, Drawn, DrawnRows
<1> QED
  BY <1>1, InitTune, TuneInvariance, Invariants, PTL DEF Spec
=============================================================================
