----------------------- MODULE SpectrumPipelineProofs -----------------------
(* SpectrumPipeline for every receiver, setting, block and snapshot size.    *)
(* That only fresh rows are drawn follows two facts.  While a frame of the   *)
(* worker's present generation holds a row, the buffer has not been cleared  *)
(* since that row was taken, unless the window is just between clearing it   *)
(* and resetting the worker (FreshInv).  And the buffer is cleared at other  *)
(* times only when no such frame exists: while a stream starts the buffer is *)
(* empty, and during a settle time nobody has asked for a frame (QuietInv).  *)
EXTENDS SpectrumPipeline, SequenceTheorems, TLAPS

\* A row is of the contents the buffer has now.
Fresh(row) == row.resets = buffer.resets /\ row.epoch = buffer.epoch /\ buffer.blocks # <<>>
AllFresh(rows) == \A k \in DOMAIN rows : Fresh(rows[k])

\* The worker computes for the present generation.
AtWork == worker.pc # "waiting" /\ worker.frame.gen = queue.gen

FreshInv ==
  /\ ui.pc # "reset" /\ AtWork => AllFresh(worker.frame.rows)
  /\ ui.pc # "reset" /\ queue.hasResult => AllFresh(queue.latest.rows)
  /\ worker.pc = "copying" => /\ worker.row.resets <= buffer.resets
                              /\ worker.row.resets = buffer.resets => Fresh(worker.row)
  /\ drawn.verdict # "none" => ui.pc = "claim" /\ AllFresh(drawn.frame.rows)

\* While a stream starts the buffer is empty.
EmptyInv ==
  /\ reader.pc \in {"begin", "clearing"} => buffer.blocks = <<>>
  /\ ui.pc \in {"clear", "reset"} /\ ui.then = "start" => reader.pc = "off"
  /\ ui.pc = "reset" /\ ui.then = "start" => buffer.blocks = <<>>
  /\ ui.pc = "start" => reader.pc = "off" /\ buffer.blocks = <<>>

QuietInv ==
  /\ worker.pc # "waiting" => worker.frame.gen <= queue.gen
  /\ queue.hasRequest => queue.pending.gen = queue.gen /\ queue.pending.rows = <<>>
  /\ ui.settle => /\ ui.pc \notin {"claim", "enqueue"}
                  /\ ~ queue.hasRequest /\ ~ queue.hasResult /\ ~ AtWork

\* A block has been received somewhere, a row copied is one of those planned.
CenterHeld == reader.pc \in {"received", "holding"} => reader.center \in Frequencies
RowPlanned == worker.pc = "copying" => worker.ends # <<>>
HeldInv == CenterHeld /\ RowPlanned

IInv == TypeOK /\ HeldInv /\ FreshInv /\ EmptyInv /\ QuietInv

-----------------------------------------------------------------------------
(* Types *)

ReaderType ==
  [pc : {"off", "begin", "clearing", "loop", "received", "loaded", "holding"},
   epoch : Nat, center : Tuning]
BufferType == [epoch : Nat, resets : Nat, blocks : Seq(Frequencies)]
UiType ==
  [pc : {"idle", "claim", "enqueue", "clear", "reset", "start", "tune", "tuned"},
   then : {"idle", "start", "tune", "settle"}, epoch : Nat, settle : BOOLEAN,
   queued : BOOLEAN, asked : Frequencies, stored : Tuning,
   stream : Streams \cup {Nothing}, setting : Settings]
QueueType ==
  [hasRequest : BOOLEAN, outstanding : BOOLEAN, hasResult : BOOLEAN,
   reset : BOOLEAN, gen : Nat, pending : FrameType, latest : FrameType]
WorkerType ==
  [pc : {"waiting", "planning", "rows", "copying"},
   frame : FrameType, ends : Seq(Nat), epoch : Nat, row : RowType, start : Nat]
LastType == [end : Nat, epoch : Nat, setting : Settings \cup {NoSetting}]
DrawnType ==
  [verdict : {"none", "stale", "duplicate", "wait", "shown"},
   frame : FrameType, before : ShownType]

LEMMA TypeOKIs ==
  TypeOK <=> /\ epoch \in Nat \ {0} /\ center \in Frequencies
             /\ reader \in ReaderType /\ buffer \in BufferType /\ ui \in UiType
             /\ shown \in ShownType /\ queue \in QueueType /\ worker \in WorkerType
             /\ last \in LastType /\ drawn \in DrawnType
BY DEF TypeOK, ReaderType, BufferType, UiType, QueueType, WorkerType, LastType, DrawnType

LEMMA TypeOKNext ==
  TypeOK' <=> /\ epoch' \in Nat \ {0} /\ center' \in Frequencies
              /\ reader' \in ReaderType /\ buffer' \in BufferType /\ ui' \in UiType
              /\ shown' \in ShownType /\ queue' \in QueueType /\ worker' \in WorkerType
              /\ last' \in LastType /\ drawn' \in DrawnType
BY DEF TypeOK, ReaderType, BufferType, UiType, QueueType, WorkerType, LastType, DrawnType

\* Zeroed values are typed.
LEMMA Zeroes ==
  /\ NoRow \in RowType /\ NoFrame \in FrameType /\ NoLast \in LastType
  /\ NoShown \in ShownType /\ NotDrawn \in DrawnType
<1>1. NoRow \in RowType
  BY DEF NoRow, RowType
<1>2. <<>> \in Seq(RowType)
  BY EmptySeq
<1>3. NoFrame \in FrameType
  <2> DEFINE rows == Seq(RowType)
  <2>1. <<>> \in rows
    BY <1>2
  <2> HIDE DEF rows
  <2>2. NoFrame \in [setting : Settings \cup {NoSetting}, asked : Tuning, center : Tuning,
                     gen : Nat, rows : rows]
    BY <2>1 DEF NoFrame, Tuning
  <2> QED
    BY <2>2 DEF FrameType, rows
<1>4. NoLast \in LastType
  BY DEF NoLast, LastType
<1>5. NoShown \in ShownType
  BY DEF NoShown, ShownType
<1>6. NotDrawn \in DrawnType
  BY <1>3, <1>5 DEF NotDrawn, DrawnType
<1> QED
  BY <1>1, <1>3, <1>4, <1>5, <1>6

LEMMA SettingsTyped ==
  /\ \A s \in Settings : /\ s.floats \in Nat \ {0} /\ s.overlapHop \in Nat \ {0}
                         /\ s.interval \in Nat /\ s.batch \in BOOLEAN
  /\ NoSetting.floats = 0 /\ NoSetting.batch = FALSE
  /\ \A s \in Settings \cup {NoSetting} : s.floats \in Nat
<1>1. \A s \in Settings : /\ s.floats \in Nat \ {0} /\ s.overlapHop \in Nat \ {0}
                          /\ s.interval \in Nat /\ s.batch \in BOOLEAN
  BY PipelineAssumption DEF SettingType
<1>2. NoSetting.floats = 0 /\ NoSetting.batch = FALSE
  BY DEF NoSetting
<1> QED
  BY <1>1, <1>2

\* Positions in the buffer.
LEMMA Positions ==
  ASSUME buffer \in BufferType
  PROVE  /\ Total \in Nat /\ RetainedStart \in Nat /\ RetainedStart <= Total
         /\ \A end \in Nat : Available(end) \in Nat
         /\ \A end \in Nat, n \in Nat :
              /\ RowStart(end, n) \in Nat
              /\ RowAt(end, n) \in RowType
<1>1. buffer.blocks \in Seq(Frequencies) /\ Len(buffer.blocks) \in Nat
      /\ buffer.resets \in Nat /\ buffer.epoch \in Nat
  BY DEF BufferType
<1>2. BlockFloats \in Nat /\ SnapshotFloats \in Nat
  BY PipelineAssumption
<1>3. Total \in Nat
  BY <1>1, <1>2 DEF Total
<1>4. RetainedStart \in Nat /\ RetainedStart <= Total
  BY <1>2, <1>3 DEF RetainedStart, Least
<1>5. ASSUME NEW end \in Nat PROVE Available(end) \in Nat
  BY <1>3 DEF Available, Least
<1>6. ASSUME NEW end \in Nat, NEW n \in Nat
      PROVE  RowStart(end, n) \in Nat /\ RowAt(end, n) \in RowType
  <2>1. RowStart(end, n) \in Nat
    BY <1>4, <1>5 DEF RowStart, Largest
  <2>2. CentersOf(RowStart(end, n), Available(end)) \subseteq Frequencies
    <3>1. \A b \in DOMAIN buffer.blocks : buffer.blocks[b] \in Frequencies
      BY <1>1
    <3> QED
      BY <3>1 DEF CentersOf
  <2> DEFINE centers == CentersOf(RowStart(end, n), Available(end))
  <2>3. RowAt(end, n) = [resets |-> buffer.resets, epoch |-> buffer.epoch, end |-> end,
                         centers |-> centers]
    BY Zenon DEF RowAt
  <2>4. centers \in SUBSET Frequencies
    BY <2>2
  <2> HIDE DEF centers
  <2>5. RowAt(end, n) \in RowType
    BY <1>1, <2>3, <2>4 DEF RowType
  <2> QED
    BY <2>1, <2>5
<1> QED
  BY <1>3, <1>4, <1>5, <1>6

\* The ends of the rows of a batch.
LEMMA ContinuedTyped ==
  ASSUME buffer \in BufferType, last \in LastType, NEW s \in Settings
  PROVE  Continued(s) \in Seq(Nat)
<1> DEFINE hop == Hop(s)
           next == NextRow(s)
           rows == IF next > Total THEN 0 ELSE (Total - next) \div hop + 1
           count == Least(rows, MaxRows)
<1>1. hop \in Nat \ {0}
  BY SettingsTyped DEF Hop, Largest
<1>2. Total \in Nat /\ RetainedStart \in Nat
  BY Positions
<1>3. next \in Nat
  <2>1. last.end \in Nat /\ s.floats \in Nat
    BY SettingsTyped DEF LastType
  <2> QED
    BY <1>1, <1>2, <2>1 DEF NextRow, Largest
<1>4. Continued(s) = [k \in 1 .. count |-> next + (rows - count + k - 1) * hop]
  BY Zenon DEF Continued
<1> HIDE DEF hop, next
<1>5. rows \in Nat
  <2>1. CASE next > Total
    BY <2>1
  <2>2. CASE ~ (next > Total)
    <3> DEFINE rest == Total - next
    <3>1. rest \in Nat
      BY <1>2, <1>3, <2>2
    <3> HIDE DEF rest
    <3>2. rest \div hop \in Nat
      BY <1>1, <3>1
    <3>3. rows = rest \div hop + 1
      BY <2>2 DEF rest
    <3> QED
      BY <3>2, <3>3
  <2> QED
    BY <2>1, <2>2
<1>6. count \in Nat /\ count <= rows
  BY <1>5, PipelineAssumption DEF Least
<1> HIDE DEF rows, count
<1>7. ASSUME NEW k \in 1 .. count PROVE next + (rows - count + k - 1) * hop \in Nat
  <2> DEFINE m == rows - count + k - 1
  <2>1. m \in Nat
    BY <1>5, <1>6
  <2> HIDE DEF m
  <2>2. m * hop \in Nat
    BY <1>1, <2>1
  <2>3. next + m * hop \in Nat
    BY <1>3, <2>2
  <2> QED
    BY <2>3 DEF m
<1>8. Continued(s) \in [1 .. count -> Nat]
  BY <1>4, <1>7, Zenon
<1> QED
  BY <1>6, <1>8, SeqDef

LEMMA RowEndsTyped ==
  ASSUME buffer \in BufferType, last \in LastType, NEW s \in Settings \cup {NoSetting}
  PROVE  RowEnds(s) \in Seq(Nat)
<1>1. <<>> \in Seq(Nat) /\ <<0>> \in Seq(Nat)
  OBVIOUS
<1>2. <<Total>> \in Seq(Nat)
  BY Positions
<1>3. CASE ~ s.batch
  BY <1>1, <1>3, Zenon DEF RowEnds
<1>4. CASE s.batch
  <2>1. s \in Settings
    BY <1>4, SettingsTyped
  <2>2. Continued(s) \in Seq(Nat)
    BY <2>1, ContinuedTyped
  <2> QED
    BY <1>1, <1>2, <1>4, <2>2, Zenon DEF RowEnds
<1> QED
  BY <1>3, <1>4

LEMMA ClearedTyped ==
  ASSUME buffer \in BufferType, NEW e \in Nat
  PROVE  Cleared(e) \in BufferType
<1>1. <<>> \in Seq(Frequencies)
  BY EmptySeq
<1> QED
  BY <1>1 DEF Cleared, BufferType

LEMMA ReaderTyped ==
  ASSUME TypeOK, HeldInv, ReaderStep
  PROVE  TypeOK' /\ HeldInv'
<1>1. /\ epoch \in Nat \ {0} /\ center \in Frequencies
      /\ reader \in ReaderType /\ buffer \in BufferType /\ ui \in UiType
      /\ shown \in ShownType /\ queue \in QueueType /\ worker \in WorkerType
      /\ last \in LastType /\ drawn \in DrawnType
  BY TypeOKIs
<1>2. /\ epoch' = epoch /\ center' = center /\ ui' = ui /\ shown' = shown /\ queue' = queue
      /\ worker' = worker /\ last' = last /\ drawn' = drawn
  BY DEF ReaderStep, ReaderUnchanged, LoadStartEpoch, ClearAtStart, Receive, LoadEpoch, Publish
<1>3. reader' \in ReaderType /\ buffer' \in BufferType /\ CenterHeld'
  <2>1. InLoop \in ReaderType /\ InLoop.pc = "loop"
    BY DEF InLoop, ReaderType, Tuning
  <2>2. CASE LoadStartEpoch
    BY <1>1, <2>2 DEF LoadStartEpoch, ReaderType, HeldInv, CenterHeld
  <2>3. CASE ClearAtStart
    <3>1. reader.epoch \in Nat
      BY <1>1 DEF ReaderType
    <3> QED
      BY <1>1, <2>1, <2>3, <3>1, ClearedTyped DEF ClearAtStart, HeldInv, CenterHeld
  <2>4. CASE Receive
    BY <1>1, <2>4 DEF Receive, ReaderType, Tuning, HeldInv, CenterHeld
  <2>5. CASE LoadEpoch
    BY <1>1, <2>5 DEF LoadEpoch, Round, ReaderType, HeldInv, CenterHeld
  <2>6. CASE Publish
    <3>1. reader' \in ReaderType /\ CenterHeld'
      BY <2>1, <2>6 DEF Publish, HeldInv, CenterHeld
    <3>2. CASE buffer' = buffer
      BY <1>1, <3>1, <3>2
    <3>3. CASE buffer' = [buffer EXCEPT !.blocks = Append(@, reader.center)]
               /\ reader.center \in Frequencies
      <4> DEFINE blocks == Append(buffer.blocks, reader.center)
      <4>1. blocks \in Seq(Frequencies)
        BY <1>1, <3>3 DEF BufferType
      <4>2. buffer' = [buffer EXCEPT !.blocks = blocks]
        BY <3>3, Zenon
      <4> HIDE DEF blocks
      <4> QED
        BY <1>1, <3>1, <4>1, <4>2 DEF BufferType
    <3> QED
      BY <2>6, <3>2, <3>3 DEF Publish, HeldInv, CenterHeld
  <2> QED
    BY <2>2, <2>3, <2>4, <2>5, <2>6 DEF ReaderStep
<1> QED
  BY <1>1, <1>2, <1>3, TypeOKNext DEF HeldInv, RowPlanned

LEMMA WorkerTyped ==
  ASSUME TypeOK, HeldInv, WorkerStep
  PROVE  TypeOK' /\ HeldInv'
<1>1. /\ epoch \in Nat \ {0} /\ center \in Frequencies
      /\ reader \in ReaderType /\ buffer \in BufferType /\ ui \in UiType
      /\ shown \in ShownType /\ queue \in QueueType /\ worker \in WorkerType
      /\ last \in LastType /\ drawn \in DrawnType
  BY TypeOKIs
<1>2. /\ epoch' = epoch /\ center' = center /\ reader' = reader /\ buffer' = buffer
      /\ ui' = ui /\ shown' = shown /\ drawn' = drawn
  BY DEF WorkerStep, WorkerUnchanged, Take, Plan, BeginRow, CopyRow, Finish
<1>3. worker.frame \in FrameType /\ worker.frame.setting \in Settings \cup {NoSetting}
      /\ worker.frame.rows \in Seq(RowType) /\ worker.ends \in Seq(Nat) /\ worker.row \in RowType
      /\ worker.epoch \in Nat
  BY <1>1 DEF WorkerType, FrameType
<1>4. /\ queue' \in QueueType /\ worker' \in WorkerType /\ last' \in LastType
      /\ worker'.pc = "copying" => worker'.ends # <<>>
  <2>1. CASE Take
    BY <1>1, <2>1, Zeroes DEF Take, QueueType, WorkerType, HeldInv, RowPlanned
  <2>2. CASE Plan
    <3> DEFINE ends == RowEnds(worker.frame.setting)
    <3>1. ends \in Seq(Nat) /\ buffer.epoch \in Nat
      BY <1>1, <1>3, RowEndsTyped DEF BufferType
    <3>2. worker' = [worker EXCEPT !.pc = "rows", !.epoch = buffer.epoch, !.ends = ends]
          /\ queue' = queue /\ last' = last
      BY <2>2, Zenon DEF Plan
    <3> HIDE DEF ends
    <3> QED
      BY <1>1, <3>1, <3>2 DEF WorkerType
  <2>3. CASE BeginRow
    <3> DEFINE n == worker.frame.setting.floats
               end == IF Head(worker.ends) = 0 THEN Total ELSE Head(worker.ends)
               row == RowAt(end, n)
               start == RowStart(end, n)
               rest == Tail(worker.ends)
    <3>1. /\ worker.ends # <<>> /\ queue' = queue /\ last' = last /\ worker.pc = "rows"
          /\ \/ worker' = [worker EXCEPT !.pc = "copying", !.row = row, !.start = start]
             \/ worker' = [worker EXCEPT !.ends = rest]
      BY <2>3, Zenon DEF BeginRow
    <3>2. n \in Nat
      BY <1>3, SettingsTyped
    <3>3. Head(worker.ends) \in Nat /\ rest \in Seq(Nat)
      BY <1>3, <3>1
    <3>4. end \in Nat
      BY <1>1, <3>3, Positions
    <3> HIDE DEF n, end
    <3>5. row \in RowType /\ start \in Nat
      BY <1>1, <3>2, <3>4, Positions
    <3> HIDE DEF row, start, rest
    <3> QED
      BY <1>1, <3>1, <3>3, <3>5 DEF WorkerType
  <2>4. CASE CopyRow
    <3> DEFINE rest == Tail(worker.ends)
               done == [worker EXCEPT !.pc = "rows", !.ends = rest, !.row = NoRow, !.start = 0]
               rows == Append(worker.frame.rows, worker.row)
               frame == [worker.frame EXCEPT !.rows = rows]
    <3>1. rest \in Seq(Nat)
      BY <1>3, <2>4 DEF CopyRow, HeldInv, RowPlanned
    <3>2. rows \in Seq(RowType)
      BY <1>3
    <3> HIDE DEF rows
    <3>3. frame \in FrameType
      BY <1>3, <3>2 DEF FrameType
    <3>4. done \in WorkerType /\ done.frame = worker.frame /\ done.pc = "rows"
      <4> HIDE DEF rest
      <4> QED
        BY <1>1, <3>1, Zeroes DEF WorkerType
    <3>5. queue' = queue
          /\ \/ worker' = [done EXCEPT !.frame.rows = Append(@, worker.row)]
                /\ last' = [last EXCEPT !.end = worker.row.end]
             \/ worker' = done /\ last' = last
      BY <2>4, Zenon DEF CopyRow
    <3> HIDE DEF done
    <3>6. [done EXCEPT !.frame.rows = Append(@, worker.row)] = [done EXCEPT !.frame = frame]
      BY <3>4, Zenon DEF rows
    <3> HIDE DEF frame
    <3>7. /\ [done EXCEPT !.frame = frame] \in WorkerType
          /\ [done EXCEPT !.frame = frame].pc = "rows"
      BY <3>3, <3>4 DEF WorkerType
    <3>8. [last EXCEPT !.end = worker.row.end] \in LastType
      <4>1. worker.row.end \in Nat
        BY <1>3 DEF RowType
      <4> QED
        BY <1>1, <4>1 DEF LastType
    <3> QED
      BY <1>1, <3>4, <3>5, <3>6, <3>7, <3>8
  <2>5. CASE Finish
    <3>1. Produced \in LastType
      <4> DEFINE s == worker.frame.setting
                 rows == worker.frame.rows
      <4>1. s \in Settings \cup {NoSetting} /\ rows \in Seq(RowType)
        BY <1>3
      <4>2. Produced = IF s.batch THEN [last EXCEPT !.epoch = worker.epoch, !.setting = s]
                       ELSE [end     |-> IF rows = <<>> THEN 0 ELSE rows[1].end,
                             epoch   |-> IF rows = <<>> THEN 0 ELSE rows[1].epoch,
                             setting |-> s]
        BY Zenon DEF Produced
      <4> HIDE DEF s, rows
      <4>3. rows # <<>> => rows[1] \in RowType
        BY <4>1
      <4>4. rows # <<>> => rows[1].end \in Nat /\ rows[1].epoch \in Nat
        BY <4>3 DEF RowType
      <4> QED
        BY <1>1, <1>3, <4>1, <4>2, <4>4 DEF LastType
    <3>2. queue' \in QueueType
      <4>1. \/ queue' = [queue EXCEPT !.outstanding = FALSE]
            \/ queue' = [queue EXCEPT !.outstanding = FALSE, !.hasResult = TRUE,
                                      !.latest = worker.frame]
        <5>1. CASE Stale
          <6>1. queue' = [queue EXCEPT !.outstanding = FALSE,
                                       !.hasResult = @, !.latest = @]
            BY <2>5, <5>1, Zenon DEF Finish
          <6> QED
            BY <1>1, <6>1 DEF QueueType
        <5>2. CASE ~ Stale
          BY <2>5, <5>2, Zenon DEF Finish
        <5> QED
          BY <5>1, <5>2
      <4> QED
        BY <1>1, <1>3, <4>1 DEF QueueType
    <3>3. worker' \in WorkerType
      BY <1>1, <2>5, Zeroes DEF Finish, WorkerType
    <3> QED
      BY <2>5, <3>1, <3>2, <3>3 DEF Finish
  <2> QED
    BY <2>1, <2>2, <2>3, <2>4, <2>5 DEF WorkerStep
<1> QED
  BY <1>1, <1>2, <1>4, TypeOKNext DEF HeldInv, CenterHeld, RowPlanned

LEMMA ResetTyped ==
  ASSUME queue \in QueueType
  PROVE  Reset \in QueueType
<1> DEFINE next == queue.gen + 1
<1>1. next \in Nat /\ NoFrame \in FrameType
  BY Zeroes DEF QueueType
<1>2. Reset = [queue EXCEPT !.hasRequest = FALSE, !.outstanding = FALSE, !.hasResult = FALSE,
                            !.reset = TRUE, !.gen = next, !.latest = NoFrame,
                            !.pending = NoFrame]
  BY Zenon DEF Reset
<1> HIDE DEF next
<1> QED
  BY <1>1, <1>2 DEF QueueType

LEMMA ThenClearTyped ==
  ASSUME ui \in UiType, NEW e \in Nat, NEW then \in {"idle", "start", "tune", "settle"}
  PROVE  ThenClear(e, then) \in UiType
BY DEF ThenClear, UiType

\* The poll, the request and the clearing of the live spectrum.
LEMMA PollTyped ==
  ASSUME TypeOK, HeldInv,
         \/ Settle(FALSE) \/ Settle(TRUE) \/ Poll \/ Claim \/ Enqueue
         \/ ClearBuffer \/ ResetWorker
  PROVE  TypeOK' /\ HeldInv'
<1>1. /\ epoch \in Nat \ {0} /\ center \in Frequencies
      /\ reader \in ReaderType /\ buffer \in BufferType /\ ui \in UiType
      /\ shown \in ShownType /\ queue \in QueueType /\ worker \in WorkerType
      /\ last \in LastType /\ drawn \in DrawnType
  BY TypeOKIs
<1>2. /\ epoch' = epoch /\ center' = center /\ reader' = reader /\ worker' = worker
      /\ last' = last
  BY DEF UiUnchanged, Settle, Poll, Claim, Enqueue, ClearBuffer, ResetWorker
<1>3. buffer' \in BufferType /\ ui' \in UiType /\ shown' \in ShownType
      /\ queue' \in QueueType /\ drawn' \in DrawnType
  <2>1. ASSUME NEW elapsed \in BOOLEAN, Settle(elapsed)
        PROVE  buffer' \in BufferType /\ ui' \in UiType /\ shown' \in ShownType
               /\ queue' \in QueueType /\ drawn' \in DrawnType
    <3>1. buffer' = Cleared(0) /\ ui' = [ui EXCEPT !.settle = ~ elapsed]
          /\ shown' = shown /\ queue' = queue /\ drawn' = drawn
      BY <2>1 DEF Settle
    <3>2. ui' \in UiType
      BY <1>1, <3>1 DEF UiType
    <3> QED
      BY <1>1, <3>1, <3>2, ClearedTyped
  <2>2. CASE Poll
    <3> DEFINE frame == queue.latest
               verdict == Verdict(frame)
               rows == frame.rows
               newest == rows[Len(rows)]
               news == [epoch |-> newest.epoch, end |-> newest.end,
                        floats |-> ui.setting.floats, resets |-> newest.resets]
               seen == [verdict |-> verdict, frame |-> frame, before |-> shown]
    <3>1. /\ buffer' = buffer
          /\ ui' = [ui EXCEPT !.pc = "claim"]
          /\ queue' = [queue EXCEPT !.hasResult = FALSE, !.latest = NoFrame]
          /\ \/ drawn' = seen /\ shown' = shown
             \/ drawn' = seen /\ verdict = "shown" /\ shown' = news
             \/ drawn' = drawn /\ shown' = shown
      BY <2>2, Zenon DEF Poll
    <3>2. frame \in FrameType /\ rows \in Seq(RowType)
      BY <1>1 DEF QueueType, FrameType
    <3>3. verdict \in {"none", "stale", "duplicate", "wait", "shown"}
          /\ (verdict = "shown" => rows # <<>>)
      BY Zenon DEF Verdict
    <3> HIDE DEF verdict, rows, frame
    <3>4. seen \in DrawnType
      BY <1>1, <3>2, <3>3 DEF DrawnType
    <3>5. verdict = "shown" => news \in ShownType
      <4>1. ASSUME verdict = "shown" PROVE newest \in RowType
        BY <3>2, <3>3, <4>1
      <4>2. ui.setting.floats \in Nat
        BY <1>1, SettingsTyped DEF UiType
      <4> HIDE DEF newest
      <4> QED
        BY <4>1, <4>2 DEF RowType, ShownType
    <3> HIDE DEF seen, news
    <3>6. queue' \in QueueType
      BY <1>1, <3>1, Zeroes DEF QueueType
    <3>7. ui' \in UiType
      BY <1>1, <3>1 DEF UiType
    <3> QED
      BY <1>1, <3>1, <3>4, <3>5, <3>6, <3>7
  <2>3. CASE Claim
    <3>1. /\ queue' = [queue EXCEPT !.outstanding = TRUE]
          /\ ui' = [ui EXCEPT !.pc = IF queue.outstanding THEN "idle" ELSE "enqueue"]
          /\ drawn' = NotDrawn /\ buffer' = buffer /\ shown' = shown
      BY <2>3 DEF Claim
    <3>2. queue' \in QueueType
      BY <1>1, <3>1 DEF QueueType
    <3>3. ui' \in UiType
      BY <1>1, <3>1 DEF UiType
    <3> QED
      BY <1>1, <3>1, <3>2, <3>3, Zeroes
  <2>4. CASE Enqueue
    <3> DEFINE frame == [setting |-> ui.setting, asked |-> ui.asked, center |-> center,
                         gen |-> queue.gen, rows |-> <<>>]
    <3>1. /\ queue' = [queue EXCEPT !.hasRequest = TRUE, !.pending = frame]
          /\ ui' = [ui EXCEPT !.pc = "idle"]
          /\ drawn' = drawn /\ buffer' = buffer /\ shown' = shown
      BY <2>4, Zenon DEF Enqueue
    <3>2. frame \in FrameType
      <4> DEFINE rows == Seq(RowType)
      <4>1. <<>> \in rows
        BY EmptySeq
      <4> HIDE DEF rows
      <4>2. frame \in [setting : Settings \cup {NoSetting}, asked : Tuning, center : Tuning,
                       gen : Nat, rows : rows]
        BY <1>1, <4>1 DEF UiType, QueueType, Tuning
      <4> QED
        BY <4>2 DEF FrameType, rows
    <3> HIDE DEF frame
    <3>3. queue' \in QueueType
      BY <1>1, <3>1, <3>2 DEF QueueType
    <3>4. ui' \in UiType
      BY <1>1, <3>1 DEF UiType
    <3> QED
      BY <1>1, <3>1, <3>3, <3>4
  <2>5. CASE ClearBuffer
    <3>1. buffer' = Cleared(ui.epoch) /\ ui' = [ui EXCEPT !.pc = "reset"]
          /\ shown' = shown /\ queue' = queue /\ drawn' = drawn
      BY <2>5 DEF ClearBuffer
    <3>2. ui.epoch \in Nat /\ ui' \in UiType
      BY <1>1, <3>1 DEF UiType
    <3> QED
      BY <1>1, <3>1, <3>2, ClearedTyped
  <2>6. CASE ResetWorker
    <3> DEFINE pc == IF ui.then = "settle" THEN "idle" ELSE ui.then
               settle == ui.settle \/ ui.then = "settle"
    <3>1. queue' = Reset /\ buffer' = buffer /\ shown' = shown /\ drawn' = drawn
      BY <2>6 DEF ResetWorker
    <3>2. ui' = [ui EXCEPT !.pc = pc, !.settle = settle, !.then = "idle", !.epoch = 0]
      BY <2>6, Zenon DEF ResetWorker
    <3>3. pc \in {"idle", "start", "tune"} /\ settle \in BOOLEAN
      BY <1>1 DEF UiType
    <3> HIDE DEF pc, settle
    <3>4. ui' \in UiType
      BY <1>1, <3>2, <3>3 DEF UiType
    <3> QED
      BY <1>1, <3>1, <3>4, ResetTyped
  <2> QED
    BY <2>1, <2>2, <2>3, <2>4, <2>5, <2>6
<1> QED
  BY <1>1, <1>2, <1>3, TypeOKNext DEF HeldInv, CenterHeld, RowPlanned

\* Starts, stops, retunes and changes of settings.
LEMMA ControlTyped ==
  ASSUME TypeOK, HeldInv, StartReader \/ QueuedRetune \/ Tune \/ Tuned \/ User
  PROVE  TypeOK' /\ HeldInv'
<1>1. /\ epoch \in Nat \ {0} /\ center \in Frequencies
      /\ reader \in ReaderType /\ buffer \in BufferType /\ ui \in UiType
      /\ shown \in ShownType /\ queue \in QueueType /\ worker \in WorkerType
      /\ last \in LastType /\ drawn \in DrawnType
  BY TypeOKIs
<1>2. /\ shown' = shown /\ worker' = worker /\ last' = last /\ drawn' = drawn
      /\ buffer' = buffer
  BY DEF UiUnchanged, StartReader, QueuedRetune, Tune, Tuned, User, Start, HardwareChange,
         Stop, Retune, ChangeSettings
<1>3. ui.asked \in Frequencies /\ ui.queued \in BOOLEAN /\ ui.settle \in BOOLEAN
  BY <1>1 DEF UiType
<1>4. ASSUME NEW f \in Frequencies, Barrier(f)
      PROVE  epoch' \in Nat \ {0} /\ ui' \in UiType
  <2> DEFINE settle == ui.stream.kind # "agile" /\ ui.settle
             cleared == ThenClear(epoch + 1, "tune")
  <2>1. epoch' = epoch + 1
        /\ ui' = [cleared EXCEPT !.asked = f, !.queued = FALSE, !.settle = settle]
    BY <1>4, Zenon DEF Barrier
  <2>2. cleared \in UiType
    BY <1>1, ThenClearTyped
  <2>3. settle \in BOOLEAN
    BY <1>3
  <2> HIDE DEF settle, cleared
  <2>4. ui' \in UiType
    BY <2>1, <2>2, <2>3 DEF UiType
  <2> QED
    BY <1>1, <2>1, <2>4
<1>5. /\ epoch' \in Nat \ {0} /\ center' \in Frequencies
      /\ reader' \in ReaderType /\ ui' \in UiType /\ queue' \in QueueType /\ CenterHeld'
  <2>1. CASE StartReader
    <3>1. /\ epoch' = epoch + 1 /\ center' = ui.asked /\ queue' = queue
          /\ reader' = [reader EXCEPT !.pc = "begin"]
          /\ ui' = ThenClear(0, "settle") \/ ui' = [ui EXCEPT !.pc = "idle"]
      BY <2>1, Zenon DEF StartReader
    <3>2. ui' \in UiType
      <4>1. ThenClear(0, "settle") \in UiType
        BY <1>1, ThenClearTyped
      <4>2. [ui EXCEPT !.pc = "idle"] \in UiType
        BY <1>1 DEF UiType
      <4> QED
        BY <3>1, <4>1, <4>2
    <3>3. reader' \in ReaderType /\ CenterHeld'
      BY <1>1, <3>1 DEF ReaderType, CenterHeld
    <3> QED
      BY <1>1, <1>3, <3>1, <3>2, <3>3
  <2>2. CASE QueuedRetune
    <3>1. center' = center /\ reader' = reader /\ queue' = queue
          /\ (Barrier(ui.asked) \/ (ui' = [ui EXCEPT !.queued = FALSE] /\ epoch' = epoch))
      BY <2>2 DEF QueuedRetune, UiUnchanged
    <3>2. CASE Barrier(ui.asked)
      BY <1>1, <1>3, <1>4, <3>1, <3>2 DEF HeldInv, CenterHeld
    <3>3. CASE ui' = [ui EXCEPT !.queued = FALSE] /\ epoch' = epoch
      <4>1. ui' \in UiType
        BY <1>1, <3>3 DEF UiType
      <4> QED
        BY <1>1, <3>1, <3>3, <4>1 DEF HeldInv, CenterHeld
    <3> QED
      BY <3>1, <3>2, <3>3
  <2>3. CASE Tune
    <3>1. /\ epoch' = epoch /\ reader' = reader /\ queue' = queue
          /\ center' \in {center, ui.asked}
          /\ \/ ui' = [ui EXCEPT !.pc = "tuned", !.stored = "none"]
             \/ ui' = [ui EXCEPT !.pc = "idle"]
             \/ ui' = [ui EXCEPT !.pc = "tuned", !.stored = ui.asked]
      BY <2>3 DEF Tune
    <3>2. ui.asked \in Tuning /\ "none" \in Tuning
      BY <1>1 DEF UiType, Tuning
    <3>3. ui' \in UiType
      BY <1>1, <3>1, <3>2 DEF UiType
    <3> QED
      BY <1>1, <1>3, <3>1, <3>3 DEF HeldInv, CenterHeld
  <2>4. CASE Tuned
    <3>1. /\ epoch' = epoch + 1 /\ ui' = ThenClear(epoch + 1, "settle")
          /\ center' = center /\ reader' = reader /\ queue' = queue
      BY <2>4 DEF Tuned, UiUnchanged
    <3> QED
      BY <1>1, <3>1, ThenClearTyped DEF HeldInv, CenterHeld
  <2>5. ASSUME NEW stream \in Streams, Start(stream)
        PROVE  /\ epoch' \in Nat \ {0} /\ center' \in Frequencies
               /\ reader' \in ReaderType /\ ui' \in UiType /\ queue' \in QueueType
               /\ CenterHeld'
    <3> DEFINE cleared == ThenClear(0, "start")
    <3>1. /\ epoch' = epoch /\ center' = center /\ reader' = reader /\ queue' = queue
          /\ ui' = [cleared EXCEPT !.stream = stream, !.stored = "none"]
      BY <2>5 DEF Start, UiUnchanged
    <3>2. cleared \in UiType /\ "none" \in Tuning
      BY <1>1, ThenClearTyped DEF Tuning
    <3> HIDE DEF cleared
    <3>3. ui' \in UiType
      BY <3>1, <3>2 DEF UiType
    <3> QED
      BY <1>1, <3>1, <3>3 DEF HeldInv, CenterHeld
  <2>6. CASE HardwareChange
    <3>1. /\ epoch' = epoch /\ center' = center /\ queue' = queue
          /\ reader' = [reader EXCEPT !.pc = "off"] /\ ui' = ThenClear(0, "start")
      BY <2>6 DEF HardwareChange
    <3>2. reader' \in ReaderType /\ CenterHeld'
      BY <1>1, <3>1 DEF ReaderType, CenterHeld
    <3> QED
      BY <1>1, <3>1, <3>2, ThenClearTyped
  <2>7. CASE Stop
    <3>1. /\ epoch' \in {epoch, 1} /\ center' = center /\ queue' = queue /\ ui' = ui
          /\ reader' = [reader EXCEPT !.pc = "off"]
      BY <2>7 DEF Stop
    <3>2. reader' \in ReaderType /\ CenterHeld'
      BY <1>1, <3>1 DEF ReaderType, CenterHeld
    <3> QED
      BY <1>1, <3>1, <3>2
  <2>8. ASSUME NEW f \in Frequencies, Retune(f)
        PROVE  /\ epoch' \in Nat \ {0} /\ center' \in Frequencies
               /\ reader' \in ReaderType /\ ui' \in UiType /\ queue' \in QueueType
               /\ CenterHeld'
    <3>1. center' = center /\ reader' = reader /\ queue' = queue
          /\ (Barrier(f) \/ (ui' = [ui EXCEPT !.asked = f, !.queued = TRUE] /\ epoch' = epoch))
      BY <2>8 DEF Retune, UiUnchanged
    <3>2. CASE Barrier(f)
      BY <1>1, <1>4, <3>1, <3>2 DEF HeldInv, CenterHeld
    <3>3. CASE ui' = [ui EXCEPT !.asked = f, !.queued = TRUE] /\ epoch' = epoch
      <4>1. ui' \in UiType
        BY <1>1, <3>3 DEF UiType
      <4> QED
        BY <1>1, <3>1, <3>3, <4>1 DEF HeldInv, CenterHeld
    <3> QED
      BY <3>1, <3>2, <3>3
  <2>9. ASSUME NEW s \in Settings, ChangeSettings(s)
        PROVE  /\ epoch' \in Nat \ {0} /\ center' \in Frequencies
               /\ reader' \in ReaderType /\ ui' \in UiType /\ queue' \in QueueType
               /\ CenterHeld'
    <3>1. /\ epoch' = epoch /\ center' = center /\ reader' = reader
          /\ queue' \in {Reset, queue} /\ ui' = [ui EXCEPT !.setting = s]
      BY <2>9 DEF ChangeSettings, UiUnchanged
    <3>2. ui' \in UiType
      BY <1>1, <3>1 DEF UiType
    <3> QED
      BY <1>1, <3>1, <3>2, ResetTyped DEF HeldInv, CenterHeld
  <2> QED
    BY <2>1, <2>2, <2>3, <2>4, <2>5, <2>6, <2>7, <2>8, <2>9 DEF User
<1> QED
  BY <1>1, <1>2, <1>5, TypeOKNext DEF HeldInv, RowPlanned

-----------------------------------------------------------------------------
(* Fresh rows *)

\* Steps that leave frames and window alone and do not clear fresh rows away.
LEMMA FreshKept ==
  ASSUME FreshInv, worker' = worker, queue' = queue, ui'.pc = ui.pc, drawn' = drawn,
         buffer'.resets = buffer.resets,
         \A row : Fresh(row) =>
           row.resets = buffer'.resets /\ row.epoch = buffer'.epoch /\ buffer'.blocks # <<>>
  PROVE  FreshInv'
<1>1. ASSUME NEW rows, AllFresh(rows)
      PROVE  \A k \in DOMAIN rows :
               /\ rows[k].resets = buffer'.resets /\ rows[k].epoch = buffer'.epoch
               /\ buffer'.blocks # <<>>
  BY <1>1 DEF AllFresh
<1> QED
  BY <1>1 DEF FreshInv, AtWork, AllFresh, Fresh

LEMMA ReaderFresh ==
  ASSUME IInv, ReaderStep
  PROVE  FreshInv' /\ EmptyInv' /\ QuietInv'
<1>1. /\ ui' = ui /\ queue' = queue /\ worker' = worker /\ drawn' = drawn
  BY DEF ReaderStep, ReaderUnchanged, LoadStartEpoch, ClearAtStart, Receive, LoadEpoch, Publish
<1>2. QuietInv'
  BY <1>1 DEF IInv, QuietInv, AtWork
<1>3. reader.pc # "off" /\ reader \in ReaderType /\ buffer \in BufferType
  BY TypeOKIs DEF IInv, ReaderStep, LoadStartEpoch, ClearAtStart, Receive, LoadEpoch, Publish, Round
<1>4. CASE LoadStartEpoch
  <2>1. buffer' = buffer /\ reader'.pc = "clearing" /\ reader.pc = "begin"
    BY <1>3, <1>4 DEF LoadStartEpoch, ReaderType
  <2>2. FreshInv'
    BY <1>1, <2>1, FreshKept DEF IInv, Fresh
  <2>3. EmptyInv'
    BY <1>1, <2>1 DEF IInv, EmptyInv
  <2> QED
    BY <1>2, <2>2, <2>3
<1>5. CASE ClearAtStart
  <2>1. buffer.blocks = <<>> /\ reader'.pc = "loop"
    BY <1>5 DEF ClearAtStart, InLoop, IInv, EmptyInv
  <2>2. buffer'.resets = buffer.resets /\ buffer'.blocks = <<>>
    BY <1>5, <2>1 DEF ClearAtStart, Cleared
  <2>3. FreshInv'
    BY <1>1, <2>1, <2>2, FreshKept DEF IInv, Fresh
  <2>4. EmptyInv'
    BY <1>1, <1>3, <2>1, <2>2 DEF IInv, EmptyInv
  <2> QED
    BY <1>2, <2>3, <2>4
<1>6. CASE Receive \/ LoadEpoch
  <2>1. buffer' = buffer /\ reader'.pc \notin {"begin", "clearing"}
    <3>1. CASE Receive
      <4>1. reader' = [reader EXCEPT !.pc = IF ui.stream.sync THEN "holding" ELSE "received",
                                     !.center = center]
        BY <3>1 DEF Receive
      <4> QED
        BY <1>3, <3>1, <4>1 DEF Receive, ReaderType
    <3>2. CASE LoadEpoch
      <4>1. reader' = [reader EXCEPT !.pc = IF ui.stream.sync THEN "loaded" ELSE "holding",
                                     !.epoch = epoch]
        BY <3>2 DEF LoadEpoch
      <4> QED
        BY <1>3, <3>2, <4>1 DEF LoadEpoch, ReaderType
    <3> QED
      BY <1>6, <3>1, <3>2
  <2>2. FreshInv'
    BY <1>1, <2>1, FreshKept DEF IInv, Fresh
  <2>3. EmptyInv'
    BY <1>1, <1>3, <2>1 DEF IInv, EmptyInv
  <2> QED
    BY <1>2, <2>2, <2>3
<1>7. CASE Publish
  <2>1. reader'.pc = "loop"
    BY <1>7 DEF Publish, InLoop
  <2>2. /\ buffer'.resets = buffer.resets /\ buffer'.epoch = buffer.epoch
        /\ buffer.blocks # <<>> => buffer'.blocks # <<>>
    <3>1. CASE buffer' = buffer
      BY <3>1
    <3>2. CASE buffer' = [buffer EXCEPT !.blocks = Append(@, reader.center)]
               /\ reader.pc = "holding"
      <4>1. buffer.blocks \in Seq(Frequencies) /\ reader.center \in Frequencies
        BY <1>3, <3>2 DEF BufferType, IInv, HeldInv, CenterHeld
      <4>2. Append(buffer.blocks, reader.center) # <<>>
        BY <4>1
      <4> QED
        BY <1>3, <3>2, <4>2 DEF BufferType
    <3> QED
      BY <1>7, <3>1, <3>2 DEF Publish
  <2>3. FreshInv'
    BY <1>1, <2>2, FreshKept DEF IInv, Fresh
  <2>4. EmptyInv'
    BY <1>1, <1>3, <2>1 DEF IInv, EmptyInv
  <2> QED
    BY <1>2, <2>3, <2>4
<1> QED
  BY <1>4, <1>5, <1>6, <1>7 DEF ReaderStep

\* The worker appends a row only if the buffer was not cleared while it was
\* copied, and hands over a frame only in the generation it was asked for in.
LEMMA WorkerFresh ==
  ASSUME IInv, WorkerStep
  PROVE  FreshInv' /\ EmptyInv' /\ QuietInv'
<1>1. buffer' = buffer /\ ui' = ui /\ drawn' = drawn /\ reader' = reader
  BY DEF WorkerStep, WorkerUnchanged, Take, Plan, BeginRow, CopyRow, Finish
<1>2. EmptyInv'
  BY <1>1 DEF IInv, EmptyInv
<1>3. /\ worker \in WorkerType /\ worker.frame \in FrameType /\ queue \in QueueType
      /\ queue.gen \in Nat /\ worker.frame.gen \in Nat /\ buffer \in BufferType
  BY TypeOKIs DEF IInv, WorkerType, FrameType, QueueType
<1>4. \A row : Fresh(row)' <=> Fresh(row)
  BY <1>1 DEF Fresh
<1>5. \A rows : AllFresh(rows)' <=> AllFresh(rows)
  BY <1>1 DEF AllFresh, Fresh
<1>6. CASE Take
  <2>1. /\ queue'.gen = queue.gen /\ queue'.hasResult = queue.hasResult
        /\ queue'.latest = queue.latest /\ queue'.hasRequest = FALSE
    <3>1. queue' = [queue EXCEPT !.reset = FALSE, !.hasRequest = FALSE, !.pending = NoFrame]
      BY <1>6 DEF Take
    <3> QED
      BY <1>3, <3>1 DEF QueueType
  <2>2. CASE queue.hasRequest
    <3>1. worker' = [worker EXCEPT !.pc = "planning", !.frame = queue.pending]
      BY <1>6, <2>2 DEF Take
    <3>2. worker'.pc = "planning" /\ worker'.frame = queue.pending
      BY <1>3, <3>1 DEF WorkerType
    <3>3. worker'.frame.rows = <<>> /\ worker'.frame.gen = queue.gen /\ ~ ui.settle
      BY <2>2, <3>2 DEF IInv, QuietInv
    <3>4. AllFresh(worker.frame.rows)'
      BY <3>3 DEF AllFresh
    <3>5. FreshInv'
      BY <1>1, <1>5, <2>1, <3>2, <3>4 DEF IInv, FreshInv
    <3>6. QuietInv'
      BY <1>1, <1>3, <2>1, <3>2, <3>3 DEF QuietInv
    <3> QED
      BY <1>2, <3>5, <3>6
  <2>3. CASE ~ queue.hasRequest
    <3>1. worker' = worker
      BY <1>6, <2>3 DEF Take
    <3>2. AtWork' <=> AtWork
      BY <2>1, <3>1 DEF AtWork
    <3>3. FreshInv'
      BY <1>1, <1>4, <1>5, <2>1, <3>1, <3>2 DEF IInv, FreshInv
    <3>4. QuietInv'
      BY <1>1, <2>1, <2>3, <3>1, <3>2 DEF IInv, QuietInv
    <3> QED
      BY <1>2, <3>3, <3>4
  <2> QED
    BY <2>2, <2>3
<1>7. ASSUME queue' = queue, worker'.frame.gen = worker.frame.gen,
             AllFresh(worker.frame.rows) => AllFresh(worker'.frame.rows),
             worker.pc # "waiting", worker'.pc # "waiting",
             worker'.pc = "copying" =>
               /\ worker'.row.resets <= buffer.resets
               /\ worker'.row.resets = buffer.resets => Fresh(worker'.row)
      PROVE  FreshInv' /\ QuietInv'
  <2>1. AtWork' <=> AtWork
    BY <1>7 DEF AtWork
  <2>2. FreshInv'
    BY <1>1, <1>4, <1>5, <1>7, <2>1 DEF IInv, FreshInv
  <2>3. QuietInv'
    BY <1>1, <1>7, <2>1 DEF IInv, QuietInv
  <2> QED
    BY <2>2, <2>3
<1>8. CASE Plan
  <2>1. /\ queue' = queue /\ worker.pc = "planning" /\ worker'.frame = worker.frame
        /\ worker'.pc = "rows"
    BY <1>3, <1>8 DEF Plan, WorkerType
  <2> QED
    BY <1>2, <1>7, <2>1
<1>9. CASE BeginRow
  <2> DEFINE n == worker.frame.setting.floats
             end == IF Head(worker.ends) = 0 THEN Total ELSE Head(worker.ends)
             copying == [worker EXCEPT !.pc = "copying", !.row = RowAt(end, n),
                                       !.start = RowStart(end, n)]
  <2>1. queue' = queue /\ worker.pc = "rows" /\ worker.ends # <<>>
    BY <1>9 DEF BeginRow
  <2>2. CASE Available(end) > RetainedStart
    <3>1. worker' = copying
      BY <1>9, <2>2, Zenon DEF BeginRow
    <3>2. worker'.frame = worker.frame /\ worker'.pc = "copying" /\ worker'.row = RowAt(end, n)
      <4> HIDE DEF end, n
      <4> QED
        BY <1>3, <3>1 DEF WorkerType
    <3>3. worker'.row.resets = buffer.resets /\ worker'.row.epoch = buffer.epoch
      BY <3>2 DEF RowAt
    <3>4. buffer.blocks # <<>>
      <4>1. SUFFICES ASSUME buffer.blocks = <<>> PROVE FALSE
        OBVIOUS
      <4>2. Total = 0
        BY <4>1, PipelineAssumption DEF Total
      <4>3. worker.ends \in Seq(Nat)
        BY <1>3 DEF WorkerType
      <4>4. end \in Nat
        BY <2>1, <4>2, <4>3
      <4>5. Available(end) = 0 /\ RetainedStart = 0
        <5> HIDE DEF end
        <5> QED
          BY <4>2, <4>4, PipelineAssumption DEF Available, RetainedStart, Least
      <4> QED
        BY <2>2, <4>5
    <3>5. buffer.resets \in Nat
      BY <1>3 DEF BufferType
    <3>6. Fresh(worker'.row) /\ worker'.row.resets <= buffer.resets
      BY <3>3, <3>4, <3>5 DEF Fresh
    <3> QED
      BY <1>2, <1>7, <2>1, <3>2, <3>6
  <2>3. CASE ~ (Available(end) > RetainedStart)
    <3>1. worker' = [worker EXCEPT !.ends = Tail(@)]
      BY <1>9, <2>3, Zenon DEF BeginRow
    <3>2. worker'.frame = worker.frame /\ worker'.pc = "rows"
      BY <1>3, <2>1, <3>1 DEF WorkerType
    <3> QED
      BY <1>2, <1>7, <2>1, <3>2
  <2> QED
    BY <2>2, <2>3
<1>10. CASE CopyRow
  <2> DEFINE ends == Tail(worker.ends)
             done == [worker EXCEPT !.pc = "rows", !.ends = ends, !.row = NoRow, !.start = 0]
             rows == Append(worker.frame.rows, worker.row)
             frame == [worker.frame EXCEPT !.rows = rows]
  <2>1. queue' = queue /\ worker.pc = "copying"
    BY <1>10 DEF CopyRow
  <2>2. \/ /\ worker.row.resets = buffer.resets
           /\ worker' = [done EXCEPT !.frame.rows = Append(@, worker.row)]
        \/ worker' = done
    BY <1>10, Zenon DEF CopyRow
  <2>3. done.frame = worker.frame /\ done.pc = "rows"
        /\ done = [f \in {"pc", "frame", "ends", "epoch", "row", "start"} |-> done[f]]
    <3> HIDE DEF ends
    <3> QED
      BY <1>3 DEF WorkerType
  <2> HIDE DEF done
  <2>4. CASE worker' = done
    BY <1>2, <1>7, <2>1, <2>3, <2>4
  <2>5. CASE /\ worker.row.resets = buffer.resets
             /\ worker' = [done EXCEPT !.frame.rows = Append(@, worker.row)]
    <3>1. worker' = [done EXCEPT !.frame = frame]
      BY <2>3, <2>5, Zenon DEF rows
    <3>2. worker.frame.rows \in Seq(RowType) /\ worker.row \in RowType
      BY <1>3 DEF FrameType, WorkerType
    <3>3. Fresh(worker.row)
      BY <2>1, <2>5 DEF IInv, FreshInv
    <3>4. AllFresh(worker.frame.rows) => AllFresh(rows)
      BY <3>2, <3>3 DEF AllFresh
    <3> HIDE DEF rows
    <3>5. frame.gen = worker.frame.gen /\ frame.rows = rows
      BY <1>3 DEF FrameType
    <3> HIDE DEF frame
    <3>6. worker'.pc = "rows" /\ worker'.frame = frame
      BY <2>3, <3>1
    <3> QED
      BY <1>2, <1>7, <2>1, <3>4, <3>5, <3>6
  <2> QED
    BY <2>2, <2>4, <2>5
<1>11. CASE Finish
  <2>1. worker.pc = "rows"
    BY <1>11 DEF Finish
  <2>2. worker'.pc = "waiting"
    <3>1. worker' = [worker EXCEPT !.pc = "waiting", !.frame = NoFrame, !.epoch = 0]
      BY <1>11 DEF Finish
    <3> QED
      BY <1>3, <3>1 DEF WorkerType
  <2>3. /\ queue'.gen = queue.gen /\ queue'.hasRequest = queue.hasRequest
        /\ queue'.pending = queue.pending
        /\ queue'.hasResult = (IF Stale THEN queue.hasResult ELSE TRUE)
        /\ queue'.latest = IF Stale THEN queue.latest ELSE worker.frame
    <3>1. queue' = [queue EXCEPT !.outstanding = FALSE,
                                 !.hasResult = IF Stale THEN @ ELSE TRUE,
                                 !.latest = IF Stale THEN @ ELSE worker.frame]
      BY <1>11 DEF Finish
    <3> QED
      BY <1>3, <3>1 DEF QueueType
  <2>4. ~ AtWork'
    BY <2>2 DEF AtWork
  <2>5. ~ Stale => AtWork
    BY <2>1 DEF Stale, AtWork
  <2>6. FreshInv'
    BY <1>1, <1>5, <2>2, <2>3, <2>4, <2>5 DEF IInv, FreshInv
  <2>7. QuietInv'
    BY <1>1, <2>2, <2>3, <2>4, <2>5 DEF IInv, QuietInv
  <2> QED
    BY <1>2, <2>6, <2>7
<1> QED
  BY <1>6, <1>8, <1>9, <1>10, <1>11 DEF WorkerStep

\* Clearing the buffer in the steps that may do it leaves nothing to be fresh.
LEMMA SettleFresh ==
  ASSUME IInv, Settle(FALSE) \/ Settle(TRUE)
  PROVE  FreshInv' /\ EmptyInv' /\ QuietInv'
<1>1. /\ reader' = reader /\ worker' = worker /\ queue' = queue /\ drawn' = drawn
      /\ ui.pc = "idle" /\ ui.settle /\ reader.pc # "off" /\ buffer' = Cleared(0)
  BY DEF UiUnchanged, Settle, Polls
<1>2. /\ reader \in ReaderType /\ buffer \in BufferType /\ ui \in UiType /\ worker \in WorkerType
      /\ drawn \in DrawnType
  BY TypeOKIs DEF IInv
<1>3. ui'.pc = "idle" /\ (ui'.settle => ui.settle)
  <2>1. CASE Settle(FALSE)
    <3>1. ui' = [ui EXCEPT !.settle = ~ FALSE]
      BY <2>1 DEF Settle
    <3> QED
      BY <1>1, <1>2, <3>1 DEF UiType
  <2>2. CASE Settle(TRUE)
    <3>1. ui' = [ui EXCEPT !.settle = ~ TRUE]
      BY <2>2 DEF Settle
    <3> QED
      BY <1>1, <1>2, <3>1 DEF UiType
  <2> QED
    BY <2>1, <2>2
<1>4. ~ AtWork /\ ~ queue.hasResult /\ ~ queue.hasRequest /\ drawn.verdict = "none"
  BY <1>1 DEF IInv, QuietInv, FreshInv
<1>5. ~ AtWork' /\ ~ queue'.hasResult /\ drawn'.verdict = "none"
  BY <1>1, <1>4 DEF AtWork
<1>6. worker.pc = "copying" =>
        /\ worker.row.resets <= buffer'.resets
        /\ worker.row.resets = buffer'.resets =>
             buffer'.epoch = buffer.epoch /\ buffer'.blocks = buffer.blocks
  <2>1. buffer.resets \in Nat /\ buffer.blocks \in Seq(Frequencies)
    BY <1>2 DEF BufferType
  <2>2. worker.row.resets \in Nat
    BY <1>2 DEF WorkerType, RowType
  <2>3. worker.pc = "copying" => worker.row.resets <= buffer.resets
    BY DEF IInv, FreshInv
  <2> QED
    BY <1>1, <2>1, <2>2, <2>3 DEF Cleared
<1>7. FreshInv'
  <2>1. worker.pc = "copying" /\ worker.row.resets = buffer.resets => Fresh(worker.row)
    BY DEF IInv, FreshInv
  <2>2. worker.row.resets \in Nat /\ buffer.resets \in Nat
    BY <1>2 DEF WorkerType, RowType, BufferType
  <2>3. worker.pc = "copying" /\ worker.row.resets = buffer'.resets => Fresh(worker.row)'
    <3>1. buffer'.resets = buffer.resets \/ buffer'.resets = buffer.resets + 1
      BY <1>1 DEF Cleared
    <3>2. worker.pc = "copying" /\ worker.row.resets = buffer'.resets =>
            worker.row.resets = buffer.resets
      BY <1>6, <2>1, <2>2, <3>1 DEF IInv, FreshInv
    <3> QED
      BY <1>1, <1>6, <2>1, <3>2 DEF Fresh
  <2> QED
    BY <1>1, <1>3, <1>5, <1>6, <2>3 DEF FreshInv
<1>8. EmptyInv'
  <2>1. reader.pc \in {"begin", "clearing"} => buffer'.blocks = <<>>
    BY <1>1 DEF Cleared
  <2> QED
    BY <1>1, <1>3, <2>1 DEF EmptyInv
<1>9. QuietInv'
  BY <1>1, <1>3, <1>4, <1>5 DEF IInv, QuietInv
<1> QED
  BY <1>7, <1>8, <1>9

LEMMA ClearBufferFresh ==
  ASSUME IInv, ClearBuffer
  PROVE  FreshInv' /\ EmptyInv' /\ QuietInv'
<1>1. /\ reader' = reader /\ worker' = worker /\ queue' = queue /\ drawn' = drawn
      /\ ui.pc = "clear" /\ buffer' = Cleared(ui.epoch)
  BY DEF UiUnchanged, ClearBuffer
<1>2. /\ reader \in ReaderType /\ buffer \in BufferType /\ ui \in UiType /\ worker \in WorkerType
  BY TypeOKIs DEF IInv
<1>3. ui'.pc = "reset" /\ ui'.settle = ui.settle /\ ui'.then = ui.then
  <2>1. ui' = [ui EXCEPT !.pc = "reset"]
    BY DEF ClearBuffer
  <2> QED
    BY <1>2, <2>1 DEF UiType
<1>4. drawn.verdict = "none" /\ (AtWork' <=> AtWork)
  BY <1>1 DEF IInv, FreshInv, AtWork
<1>5. buffer'.blocks = <<>>
  BY <1>1 DEF Cleared
<1>6. FreshInv'
  <2>1. buffer.resets \in Nat /\ worker.row.resets \in Nat
    BY <1>2 DEF WorkerType, RowType, BufferType
  <2>2. CASE worker.pc = "copying"
    <3>1. /\ worker.row.resets <= buffer.resets
          /\ worker.row.resets = buffer.resets => Fresh(worker.row)
      BY <2>2 DEF IInv, FreshInv
    <3>2. /\ buffer.blocks = <<>> => worker.row.resets # buffer.resets
          /\ buffer.blocks = <<>> => buffer'.resets = buffer.resets
          /\ buffer.blocks # <<>> => buffer'.resets = buffer.resets + 1
      BY <1>1, <3>1 DEF Cleared, Fresh
    <3>3. worker.row.resets <= buffer'.resets /\ worker.row.resets # buffer'.resets
      BY <2>1, <3>1, <3>2
    <3>4. worker'.row.resets <= buffer'.resets /\ worker'.row.resets # buffer'.resets
      BY <1>1, <3>3
    <3> QED
      BY <1>1, <1>3, <1>4, <3>4 DEF FreshInv
  <2> QED
    BY <1>1, <1>3, <1>4, <2>2 DEF FreshInv
<1>7. EmptyInv'
  BY <1>1, <1>3, <1>5 DEF IInv, EmptyInv
<1>8. QuietInv'
  BY <1>1, <1>3, <1>4 DEF IInv, QuietInv
<1> QED
  BY <1>6, <1>7, <1>8

\* After a reset nothing is of the present generation.
LEMMA ResetIs ==
  ASSUME IInv, queue' = Reset, worker' = worker
  PROVE  /\ queue'.gen = queue.gen + 1 /\ ~ AtWork'
         /\ ~ queue'.hasRequest /\ ~ queue'.hasResult
         /\ worker.pc # "waiting" => worker.frame.gen <= queue'.gen
<1>1. queue \in QueueType /\ worker \in WorkerType
  BY TypeOKIs DEF IInv
<1>2. queue.gen \in Nat /\ worker.frame.gen \in Nat
  BY <1>1 DEF QueueType, WorkerType, FrameType
<1> DEFINE next == queue.gen + 1
<1>3. queue' = [queue EXCEPT !.hasRequest = FALSE, !.outstanding = FALSE, !.hasResult = FALSE,
                             !.reset = TRUE, !.gen = next, !.latest = NoFrame,
                             !.pending = NoFrame]
  BY Zenon DEF Reset
<1>4. next \in Nat /\ next # queue.gen
  BY <1>2
<1> HIDE DEF next
<1>5. queue'.gen = next /\ queue'.hasRequest = FALSE /\ queue'.hasResult = FALSE
  BY <1>1, <1>3 DEF QueueType
<1>6. worker.pc # "waiting" => worker.frame.gen <= queue.gen
  BY DEF IInv, QuietInv
<1>7. worker.pc # "waiting" => worker.frame.gen < next
  BY <1>2, <1>6 DEF next
<1> QED
  BY <1>2, <1>4, <1>5, <1>7 DEF AtWork, next

LEMMA ResetWorkerFresh ==
  ASSUME IInv, ResetWorker
  PROVE  FreshInv' /\ EmptyInv' /\ QuietInv'
<1>1. /\ reader' = reader /\ worker' = worker /\ buffer' = buffer /\ drawn' = drawn
      /\ ui.pc = "reset" /\ queue' = Reset
  BY DEF UiUnchanged, ResetWorker
<1>2. ui \in UiType
  BY TypeOKIs DEF IInv
<1> DEFINE pc == IF ui.then = "settle" THEN "idle" ELSE ui.then
           settle == ui.settle \/ ui.then = "settle"
<1>3. ui' = [ui EXCEPT !.pc = pc, !.settle = settle, !.then = "idle", !.epoch = 0]
  BY Zenon DEF ResetWorker
<1>4. pc \in {"idle", "start", "tune"} /\ (pc = "start" => ui.then = "start")
  BY <1>2 DEF UiType
<1> HIDE DEF pc, settle
<1>5. ui'.pc = pc /\ ui'.then = "idle"
  BY <1>2, <1>3 DEF UiType
<1>6. drawn.verdict = "none"
  BY <1>1 DEF IInv, FreshInv
<1>7. ~ AtWork' /\ ~ queue'.hasRequest /\ ~ queue'.hasResult
      /\ (worker.pc # "waiting" => worker.frame.gen <= queue'.gen)
  BY <1>1, ResetIs
<1>8. FreshInv'
  <2>1. worker'.pc = "copying" =>
          /\ worker'.row.resets <= buffer'.resets
          /\ worker'.row.resets = buffer'.resets => Fresh(worker.row)'
    BY <1>1 DEF IInv, FreshInv, Fresh
  <2> QED
    BY <1>1, <1>6, <1>7, <2>1 DEF FreshInv
<1>9. EmptyInv'
  BY <1>1, <1>4, <1>5 DEF IInv, EmptyInv
<1>10. QuietInv'
  BY <1>1, <1>4, <1>5, <1>7 DEF QuietInv
<1> QED
  BY <1>8, <1>9, <1>10

\* A poll takes a frame nobody else will, and asks for a new one.
LEMMA PollFresh ==
  ASSUME IInv, Poll
  PROVE  FreshInv' /\ EmptyInv' /\ QuietInv'
<1>1. /\ reader' = reader /\ worker' = worker /\ buffer' = buffer
      /\ ui.pc = "idle" /\ reader.pc # "off" /\ ui.settle = FALSE
      /\ ui' = [ui EXCEPT !.pc = "claim"]
      /\ queue' = [queue EXCEPT !.hasResult = FALSE, !.latest = NoFrame]
  BY TypeOKIs DEF IInv, UiUnchanged, Poll, Polls, UiType
<1>2. ui \in UiType /\ queue \in QueueType
  BY TypeOKIs DEF IInv
<1>3. ui'.pc = "claim" /\ ui'.settle = FALSE /\ ui'.then = ui.then
  BY <1>1, <1>2 DEF UiType
<1>4. /\ queue'.hasResult = FALSE /\ queue'.hasRequest = queue.hasRequest
      /\ queue'.gen = queue.gen /\ queue'.pending = queue.pending
  BY <1>1, <1>2 DEF QueueType
<1>5. drawn'.verdict # "none" => queue.hasResult /\ drawn'.frame = queue.latest
  <2>1. CASE queue.hasResult
    <3>1. drawn' = [verdict |-> Verdict(queue.latest), frame |-> queue.latest, before |-> shown]
      BY <2>1, Zenon DEF Poll
    <3> QED
      BY <2>1, <3>1
  <2>2. CASE ~ queue.hasResult
    <3>1. drawn' = drawn
      BY <2>2 DEF Poll
    <3>2. drawn.verdict = "none"
      BY <1>1 DEF IInv, FreshInv
    <3> QED
      BY <3>1, <3>2
  <2> QED
    BY <2>1, <2>2
<1>6. AtWork' <=> AtWork
  BY <1>1, <1>4 DEF AtWork
<1>7. \A rows : AllFresh(rows)' <=> AllFresh(rows)
  BY <1>1 DEF AllFresh, Fresh
<1>8. queue.hasResult => AllFresh(queue.latest.rows)
  BY <1>1 DEF IInv, FreshInv
<1>9. drawn'.verdict # "none" => AllFresh(drawn.frame.rows)'
  <2>1. SUFFICES ASSUME drawn'.verdict # "none" PROVE AllFresh(drawn.frame.rows)'
    OBVIOUS
  <2>2. AllFresh(queue.latest.rows) /\ drawn'.frame.rows = queue.latest.rows
    BY <1>5, <1>8, <2>1
  <2> QED
    BY <1>1, <2>2 DEF AllFresh, Fresh
<1>10. worker'.pc = "copying" =>
          /\ worker'.row.resets <= buffer'.resets
          /\ worker'.row.resets = buffer'.resets => Fresh(worker.row)'
  BY <1>1 DEF IInv, FreshInv, Fresh
<1>11. FreshInv'
  BY <1>1, <1>3, <1>4, <1>6, <1>7, <1>9, <1>10 DEF IInv, FreshInv
<1>12. EmptyInv'
  BY <1>1, <1>3 DEF IInv, EmptyInv
<1>13. QuietInv'
  BY <1>1, <1>3, <1>4 DEF IInv, QuietInv
<1> QED
  BY <1>11, <1>12, <1>13

\* Steps of the window that leave worker, generation and result alone and
\* have nothing drawn.
LEMMA WindowFresh ==
  ASSUME FreshInv, worker' = worker, buffer' = buffer, queue'.gen = queue.gen,
         queue'.hasResult = queue.hasResult, queue'.latest = queue.latest,
         drawn'.verdict = "none", ui.pc # "reset"
  PROVE  FreshInv'
<1>1. AtWork' <=> AtWork
  BY DEF AtWork
<1>2. AtWork => AllFresh(worker.frame.rows)'
  BY DEF FreshInv, AllFresh, Fresh
<1>3. queue.hasResult => AllFresh(queue.latest.rows)'
  BY DEF FreshInv, AllFresh, Fresh
<1>4. worker'.pc = "copying" =>
          /\ worker'.row.resets <= buffer'.resets
          /\ worker'.row.resets = buffer'.resets => Fresh(worker.row)'
  BY DEF FreshInv, Fresh
<1> QED
  BY <1>1, <1>2, <1>3, <1>4 DEF FreshInv

LEMMA ClaimFresh ==
  ASSUME IInv, Claim \/ Enqueue
  PROVE  FreshInv' /\ EmptyInv' /\ QuietInv'
<1>1. /\ reader' = reader /\ worker' = worker /\ buffer' = buffer
      /\ ui.pc \in {"claim", "enqueue"}
  BY DEF UiUnchanged, Claim, Enqueue
<1>2. ui \in UiType /\ queue \in QueueType
  BY TypeOKIs DEF IInv
<1>3. ui'.pc \in {"idle", "enqueue"} /\ ui'.settle = ui.settle /\ ui'.then = ui.then
  <2>1. \/ ui' = [ui EXCEPT !.pc = "idle"]
        \/ ui' = [ui EXCEPT !.pc = "enqueue"]
    BY DEF Claim, Enqueue
  <2> QED
    BY <1>2, <2>1 DEF UiType
<1>4. drawn'.verdict = "none"
  <2>1. CASE Claim
    BY <2>1 DEF Claim, NotDrawn
  <2>2. CASE Enqueue
    BY <2>2 DEF Enqueue, IInv, FreshInv
  <2> QED
    BY <2>1, <2>2
<1>5. /\ queue'.gen = queue.gen /\ queue'.hasResult = queue.hasResult
      /\ queue'.latest = queue.latest
      /\ queue'.hasRequest =>
           \/ queue'.pending.gen = queue'.gen /\ queue'.pending.rows = <<>>
           \/ queue.hasRequest /\ queue'.pending = queue.pending
  <2>1. CASE Claim
    <3>1. queue' = [queue EXCEPT !.outstanding = TRUE]
      BY <2>1 DEF Claim
    <3> QED
      BY <1>2, <3>1 DEF QueueType
  <2>2. CASE Enqueue
    <3> DEFINE asked == [setting |-> ui.setting, asked |-> ui.asked, center |-> center,
                         gen |-> queue.gen, rows |-> <<>>]
    <3>1. queue' = [queue EXCEPT !.hasRequest = TRUE, !.pending = asked]
      BY <2>2 DEF Enqueue
    <3>2. asked.gen = queue.gen /\ asked.rows = <<>>
      OBVIOUS
    <3> HIDE DEF asked
    <3> QED
      BY <1>2, <3>1, <3>2 DEF QueueType
  <2> QED
    BY <2>1, <2>2
<1>6. ~ ui.settle
  BY <1>1 DEF IInv, QuietInv
<1>7. FreshInv'
  BY <1>1, <1>4, <1>5, WindowFresh DEF IInv
<1>8. EmptyInv'
  BY <1>1, <1>3 DEF IInv, EmptyInv
<1>9. QuietInv'
  BY <1>1, <1>3, <1>5, <1>6 DEF IInv, QuietInv
<1> QED
  BY <1>7, <1>8, <1>9

\* The window's other steps clear nothing by themselves.
LEMMA CommandFresh ==
  ASSUME IInv, worker' = worker, buffer' = buffer, drawn' = drawn,
         queue' = queue \/ queue' = Reset,
         ui.pc \in {"idle", "start", "tune", "tuned"},
         ui'.pc \notin {"claim", "enqueue", "reset"}, ui'.settle => ui.settle
  PROVE  FreshInv' /\ QuietInv'
<1>1. drawn.verdict = "none"
  BY DEF IInv, FreshInv
<1>2. CASE queue' = queue
  <2>1. FreshInv'
    BY <1>1, <1>2, WindowFresh DEF IInv
  <2>2. QuietInv'
    BY <1>2 DEF IInv, QuietInv, AtWork
  <2> QED
    BY <2>1, <2>2
<1>3. CASE queue' = Reset
  <2>1. /\ ~ AtWork' /\ ~ queue'.hasRequest /\ ~ queue'.hasResult
        /\ worker.pc # "waiting" => worker.frame.gen <= queue'.gen
    BY <1>3, ResetIs
  <2>2. worker'.pc = "copying" =>
          /\ worker'.row.resets <= buffer'.resets
          /\ worker'.row.resets = buffer'.resets => Fresh(worker.row)'
    BY DEF IInv, FreshInv, Fresh
  <2>3. FreshInv'
    BY <1>1, <2>1, <2>2 DEF FreshInv
  <2>4. QuietInv'
    BY <2>1 DEF QuietInv
  <2> QED
    BY <2>3, <2>4
<1> QED
  BY <1>2, <1>3

LEMMA ControlFresh ==
  ASSUME IInv, StartReader \/ QueuedRetune \/ Tune \/ Tuned \/ User
  PROVE  FreshInv' /\ EmptyInv' /\ QuietInv'
<1>1. /\ worker' = worker /\ buffer' = buffer /\ drawn' = drawn
  BY DEF UiUnchanged, StartReader, QueuedRetune, Tune, Tuned, User, Start, HardwareChange,
         Stop, Retune, ChangeSettings
<1>2. ui \in UiType /\ reader \in ReaderType
  BY TypeOKIs DEF IInv
<1>3. ASSUME NEW e \in Nat, NEW then \in {"idle", "start", "tune", "settle"}
      PROVE  ThenClear(e, then).pc = "clear" /\ ThenClear(e, then).then = then
             /\ ThenClear(e, then).settle = ui.settle /\ ThenClear(e, then) \in UiType
  BY <1>2 DEF ThenClear, UiType
<1>4. epoch + 1 \in Nat
  BY TypeOKIs DEF IInv
<1>5. ASSUME NEW f, Barrier(f)
      PROVE  ui'.pc = "clear" /\ ui'.then = "tune" /\ (ui'.settle => ui.settle)
  <2> DEFINE next == ThenClear(epoch + 1, "tune")
             settle == ui.stream.kind # "agile" /\ ui.settle
  <2>1. ui' = [next EXCEPT !.asked = f, !.queued = FALSE, !.settle = settle]
    BY <1>5, Zenon DEF Barrier
  <2>2. next.pc = "clear" /\ next.then = "tune" /\ next \in UiType
    BY <1>3, <1>4
  <2>3. settle => ui.settle
    OBVIOUS
  <2> HIDE DEF next, settle
  <2>4. ui'.pc = "clear" /\ ui'.then = "tune" /\ ui'.settle = settle
    BY <2>1, <2>2 DEF UiType
  <2> QED
    BY <2>3, <2>4
<1>6. CASE StartReader
  <2>1. ui.pc = "start" /\ queue' = queue
    BY <1>6 DEF StartReader
  <2>2. buffer.blocks = <<>>
    BY <2>1 DEF IInv, EmptyInv
  <2>3. ui'.settle = ui.settle
        /\ (ui'.pc = "idle" \/ (ui'.pc = "clear" /\ ui'.then = "settle"))
    <3>1. CASE ui' = ThenClear(0, "settle")
      BY <1>3, <3>1, Zenon
    <3>2. CASE ui' = [ui EXCEPT !.pc = "idle"]
      BY <1>2, <3>2 DEF UiType
    <3> QED
      BY <1>6, <3>1, <3>2 DEF StartReader
  <2>4. EmptyInv'
    BY <1>1, <2>2, <2>3 DEF EmptyInv
  <2> QED
    BY <1>1, <2>1, <2>3, <2>4, CommandFresh
<1>7. CASE QueuedRetune
  <2>1. ui.pc = "idle" /\ queue' = queue /\ reader' = reader
    BY <1>7 DEF QueuedRetune, UiUnchanged
  <2>2. (ui'.settle => ui.settle)
        /\ (ui'.pc = "idle" \/ (ui'.pc = "clear" /\ ui'.then = "tune"))
    <3>1. CASE Barrier(ui.asked)
      BY <1>5, <3>1, Zenon
    <3>2. CASE ui' = [ui EXCEPT !.queued = FALSE]
      BY <1>2, <2>1, <3>2 DEF UiType
    <3> QED
      BY <1>7, <3>1, <3>2 DEF QueuedRetune
  <2>3. EmptyInv'
    BY <1>1, <2>1, <2>2 DEF IInv, EmptyInv
  <2> QED
    BY <1>1, <2>1, <2>2, <2>3, CommandFresh
<1>8. CASE Tune
  <2>1. ui.pc = "tune" /\ queue' = queue /\ reader' = reader
    BY <1>8 DEF Tune
  <2>2. ui'.settle = ui.settle /\ ui'.pc \in {"tuned", "idle"}
    <3>1. \/ ui' = [ui EXCEPT !.pc = "tuned", !.stored = "none"]
          \/ ui' = [ui EXCEPT !.pc = "idle"]
          \/ ui' = [ui EXCEPT !.pc = "tuned", !.stored = ui.asked]
      BY <1>8 DEF Tune
    <3> QED
      BY <1>2, <3>1 DEF UiType
  <2>3. EmptyInv'
    BY <1>1, <2>1, <2>2 DEF IInv, EmptyInv
  <2> QED
    BY <1>1, <2>1, <2>2, <2>3, CommandFresh
<1>9. CASE Tuned
  <2>1. ui.pc = "tuned" /\ queue' = queue /\ reader' = reader
        /\ ui' = ThenClear(epoch + 1, "settle")
    BY <1>9 DEF Tuned, UiUnchanged
  <2>2. ui'.settle = ui.settle /\ ui'.pc = "clear" /\ ui'.then = "settle"
    BY <1>3, <1>4, <2>1
  <2>3. EmptyInv'
    BY <1>1, <2>1, <2>2 DEF IInv, EmptyInv
  <2> QED
    BY <1>1, <2>1, <2>2, <2>3, CommandFresh
<1>10. CASE \E stream \in Streams : Start(stream)
  <2>1. PICK stream \in Streams : Start(stream)
    BY <1>10
  <2>2. ui.pc = "idle" /\ reader.pc = "off" /\ queue' = queue /\ reader' = reader
        /\ ui' = [ThenClear(0, "start") EXCEPT !.stream = stream, !.stored = "none"]
    BY <2>1 DEF Start, UiUnchanged
  <2>3. ui'.settle = ui.settle /\ ui'.pc = "clear" /\ ui'.then = "start"
    <3> DEFINE next == ThenClear(0, "start")
    <3>1. next.pc = "clear" /\ next.then = "start" /\ next.settle = ui.settle /\ next \in UiType
      BY <1>3
    <3>2. ui' = [next EXCEPT !.stream = stream, !.stored = "none"]
      BY <2>2
    <3> HIDE DEF next
    <3> QED
      BY <3>1, <3>2 DEF UiType
  <2>4. EmptyInv'
    BY <1>1, <2>2, <2>3 DEF EmptyInv
  <2> QED
    BY <1>1, <2>2, <2>3, <2>4, CommandFresh
<1>11. CASE HardwareChange
  <2>1. ui.pc = "idle" /\ queue' = queue /\ ui' = ThenClear(0, "start")
        /\ reader' = [reader EXCEPT !.pc = "off"]
    BY <1>11 DEF HardwareChange
  <2>2. reader'.pc = "off"
    BY <1>2, <2>1 DEF ReaderType
  <2>3. ui'.settle = ui.settle /\ ui'.pc = "clear" /\ ui'.then = "start"
    BY <1>3, <2>1
  <2>4. EmptyInv'
    BY <1>1, <2>2, <2>3 DEF EmptyInv
  <2> QED
    BY <1>1, <2>1, <2>3, <2>4, CommandFresh
<1>12. CASE Stop
  <2>1. ui.pc = "idle" /\ queue' = queue /\ ui' = ui /\ reader' = [reader EXCEPT !.pc = "off"]
    BY <1>12 DEF Stop
  <2>2. reader'.pc = "off"
    BY <1>2, <2>1 DEF ReaderType
  <2>3. EmptyInv'
    BY <1>1, <2>1, <2>2 DEF EmptyInv
  <2> QED
    BY <1>1, <2>1, <2>3, CommandFresh
<1>13. CASE \E f \in Frequencies : Retune(f)
  <2>1. PICK f \in Frequencies : Retune(f)
    BY <1>13
  <2>2. ui.pc = "idle" /\ queue' = queue /\ reader' = reader
    BY <2>1 DEF Retune, Polls, UiUnchanged
  <2>3. (ui'.settle => ui.settle)
        /\ (ui'.pc = "idle" \/ (ui'.pc = "clear" /\ ui'.then = "tune"))
    <3>1. CASE Barrier(f)
      BY <1>5, <3>1, Zenon
    <3>2. CASE ui' = [ui EXCEPT !.asked = f, !.queued = TRUE]
      BY <1>2, <2>2, <3>2 DEF UiType
    <3> QED
      BY <2>1, <3>1, <3>2 DEF Retune
  <2>4. EmptyInv'
    BY <1>1, <2>2, <2>3 DEF IInv, EmptyInv
  <2> QED
    BY <1>1, <2>2, <2>3, <2>4, CommandFresh
<1>14. CASE \E s \in Settings : ChangeSettings(s)
  <2>1. PICK s \in Settings : ChangeSettings(s)
    BY <1>14
  <2>2. /\ ui.pc = "idle" /\ reader' = reader /\ ui' = [ui EXCEPT !.setting = s]
        /\ queue' = queue \/ queue' = Reset
    BY <2>1 DEF ChangeSettings, UiUnchanged
  <2>3. ui'.pc = "idle" /\ ui'.settle = ui.settle
    BY <1>2, <2>2 DEF UiType
  <2>4. EmptyInv'
    BY <1>1, <2>2, <2>3 DEF IInv, EmptyInv
  <2> QED
    BY <1>1, <2>2, <2>3, <2>4, CommandFresh
<1> QED
  BY <1>6, <1>7, <1>8, <1>9, <1>10, <1>11, <1>12, <1>13, <1>14 DEF User

-----------------------------------------------------------------------------
(* Theorems *)

\* The reader's own tune moves nothing but the centre frequency.
LEMMA PendingRetuneHeld == IInv /\ ApplyPendingRetune => IInv'
<1> SUFFICES ASSUME IInv, ApplyPendingRetune PROVE IInv'
  OBVIOUS
<1>1. /\ epoch' = epoch /\ reader' = reader /\ buffer' = buffer /\ shown' = shown
      /\ queue' = queue /\ worker' = worker /\ last' = last /\ drawn' = drawn
      /\ center' = ui.stored /\ ui.stored # "none"
      /\ ui' = [ui EXCEPT !.stored = "none"]
  BY DEF ApplyPendingRetune
<1>2. ui \in UiType /\ TypeOK
  BY TypeOKIs DEF IInv
<1>3. ui.stored \in Tuning
  BY <1>2 DEF UiType
<1>4. center' \in Frequencies
  BY <1>1, <1>3 DEF Tuning
<1>5. ui' \in UiType /\ ui'.pc = ui.pc /\ ui'.then = ui.then /\ ui'.settle = ui.settle
  BY <1>1, <1>2 DEF UiType, Tuning
<1>6. TypeOK'
  BY <1>1, <1>4, <1>5, TypeOKIs, TypeOKNext DEF IInv
<1>7. HeldInv'
  BY <1>1 DEF IInv, HeldInv, CenterHeld, RowPlanned
<1>8. FreshInv'
  BY <1>1, <1>5, FreshKept DEF IInv, Fresh
<1>9. EmptyInv' /\ QuietInv'
  BY <1>1, <1>5 DEF IInv, EmptyInv, QuietInv, AtWork
<1> QED
  BY <1>6, <1>7, <1>8, <1>9 DEF IInv

LEMMA InitHolds == Init => IInv
<1> SUFFICES ASSUME Init PROVE IInv
  OBVIOUS
<1>1. PICK s \in Settings :
        ui = [pc |-> "idle", then |-> "idle", epoch |-> 0, settle |-> FALSE,
              queued |-> FALSE, asked |-> center, stored |-> "none", stream |-> Nothing,
              setting |-> s]
  BY DEF Init
<1>2. ui \in UiType /\ ui.pc = "idle" /\ ui.settle = FALSE
  BY <1>1 DEF Init, UiType, Tuning
<1>3. queue \in QueueType /\ ~ queue.hasRequest /\ ~ queue.hasResult
  <2> HIDE DEF NoFrame
  <2> QED
    BY Zeroes DEF Init, QueueType
<1>4. worker \in WorkerType /\ worker.pc = "waiting"
  <2>1. <<>> \in Seq(Nat)
    BY EmptySeq
  <2> QED
    BY <2>1, Zeroes DEF Init, WorkerType
<1>5. buffer \in BufferType
  <2>1. <<>> \in Seq(Frequencies)
    BY EmptySeq
  <2> QED
    BY <2>1 DEF Init, BufferType
<1>6. reader \in ReaderType /\ reader.pc = "off"
  BY DEF Init, ReaderType, Tuning
<1>7. TypeOK
  BY <1>2, <1>3, <1>4, <1>5, <1>6, Zeroes, TypeOKIs DEF Init
<1>8. drawn.verdict = "none"
  BY DEF Init, NotDrawn
<1>9. HeldInv /\ FreshInv /\ EmptyInv /\ QuietInv
  BY <1>2, <1>3, <1>4, <1>6, <1>8
     DEF HeldInv, CenterHeld, RowPlanned, FreshInv, EmptyInv, QuietInv, AtWork
<1> QED
  BY <1>7, <1>9 DEF IInv

LEMMA Invariance == IInv /\ [Next]_vars => IInv'
<1> SUFFICES ASSUME IInv, [Next]_vars PROVE IInv'
  OBVIOUS
<1>1. TypeOK /\ HeldInv
  BY DEF IInv
<1>2. CASE ReaderStep
  BY <1>1, <1>2, ReaderTyped, ReaderFresh DEF IInv
<1>3. CASE WorkerStep
  BY <1>1, <1>3, WorkerTyped, WorkerFresh DEF IInv
<1>4. CASE UiStep
  <2>1. CASE Settle(FALSE) \/ Settle(TRUE)
    BY <1>1, <2>1, PollTyped, SettleFresh DEF IInv
  <2>2. CASE Poll
    BY <1>1, <2>2, PollTyped, PollFresh DEF IInv
  <2>3. CASE Claim \/ Enqueue
    BY <1>1, <2>3, PollTyped, ClaimFresh DEF IInv
  <2>4. CASE ClearBuffer
    BY <1>1, <2>4, PollTyped, ClearBufferFresh DEF IInv
  <2>5. CASE ResetWorker
    BY <1>1, <2>5, PollTyped, ResetWorkerFresh DEF IInv
  <2>6. CASE StartReader \/ QueuedRetune \/ Tune \/ Tuned
    BY <1>1, <2>6, ControlTyped, ControlFresh DEF IInv
  <2> QED
    BY <1>4, <2>1, <2>2, <2>3, <2>4, <2>5, <2>6 DEF UiStep
<1>5. CASE User
  BY <1>1, <1>5, ControlTyped, ControlFresh DEF IInv
<1>6. CASE UNCHANGED vars
  <2>1. /\ epoch' = epoch /\ center' = center /\ reader' = reader /\ buffer' = buffer
        /\ ui' = ui /\ shown' = shown /\ queue' = queue /\ worker' = worker
        /\ last' = last /\ drawn' = drawn
    BY <1>6 DEF vars
  <2>2. TypeOK'
    BY <2>1, TypeOKIs, TypeOKNext DEF IInv
  <2>3. HeldInv'
    BY <2>1 DEF IInv, HeldInv, CenterHeld, RowPlanned
  <2>4. FreshInv'
    BY <2>1, FreshKept DEF IInv, Fresh
  <2>5. EmptyInv' /\ QuietInv'
    BY <2>1 DEF IInv, EmptyInv, QuietInv, AtWork
  <2> QED
    BY <2>2, <2>3, <2>4, <2>5 DEF IInv
<1>7. CASE ApplyPendingRetune
  BY <1>7, PendingRetuneHeld
<1> QED
  BY <1>2, <1>3, <1>4, <1>5, <1>6, <1>7 DEF Next

LEMMA Invariants == Spec => []IInv
BY InitHolds, Invariance, PTL DEF Spec

\* Every variable keeps its type, and what Cleared, Reset, RowEnds and the
\* gate compute is well defined, for any receivers, settings and sizes.
THEOREM TypeCorrect == Spec => []TypeOK
<1>1. IInv => TypeOK
  BY DEF IInv
<1> QED
  BY <1>1, Invariants, PTL

\* No row is drawn that was computed before the buffer was last cleared,
\* whenever clearLiveSpectrumSnapshot(), run()'s own clearing or the settle
\* time of updateSpectrum() meets the worker (the generation of
\* SpectrumFftWorker::run and the reset that follows every clearing).
THEOREM ShownFreshCorrect == Spec => []ShownFresh
<1>1. IInv => ShownFresh
  BY DEF IInv, FreshInv, AllFresh, Fresh, ShownFresh, Drawn, DrawnRows
<1> QED
  BY <1>1, Invariants, PTL

\* A claim on requestOutstanding is always going to be released: by a poll
\* that is filling the request, a request the worker will take, or the worker.
THEOREM OutstandingOwnedCorrect == Spec => []OutstandingOwned
<1>1. Init => OutstandingOwned
  BY DEF Init, OutstandingOwned
<1>2. IInv /\ OutstandingOwned /\ [Next]_vars => OutstandingOwned'
  <2> SUFFICES ASSUME IInv, OutstandingOwned, [Next]_vars PROVE OutstandingOwned'
    OBVIOUS
  <2>1. ui \in UiType /\ queue \in QueueType /\ worker \in WorkerType
    BY TypeOKIs DEF IInv
  <2>2. CASE queue' = queue /\ worker' = worker /\ ui.pc # "enqueue"
    BY <2>2 DEF OutstandingOwned
  <2>3. CASE ReaderStep
    BY <2>3 DEF OutstandingOwned, ReaderStep, ReaderUnchanged, LoadStartEpoch, ClearAtStart,
                Receive, LoadEpoch, Publish
  <2>4. CASE WorkerStep
    <3>1. ui' = ui
      BY <2>4 DEF WorkerStep, WorkerUnchanged, Take, Plan, BeginRow, CopyRow, Finish
    <3>2. CASE Take
      <4>1. queue.hasRequest => worker'.pc = "planning"
        <5>1. queue.hasRequest =>
                worker' = [worker EXCEPT !.pc = "planning", !.frame = queue.pending]
          BY <3>2 DEF Take
        <5> QED
          BY <2>1, <5>1 DEF WorkerType
      <4>2. ~ queue.hasRequest => worker' = worker
        BY <3>2 DEF Take
      <4>3. queue'.outstanding = queue.outstanding
        <5>1. queue' = [queue EXCEPT !.reset = FALSE, !.hasRequest = FALSE,
                                     !.pending = NoFrame]
          BY <3>2 DEF Take
        <5> QED
          BY <2>1, <5>1 DEF QueueType
      <4> QED
        BY <3>1, <4>1, <4>2, <4>3 DEF OutstandingOwned
    <3>3. CASE Plan
      <4>1. queue' = queue /\ worker'.pc = "rows"
        BY <2>1, <3>3 DEF Plan, WorkerType
      <4> QED
        BY <4>1 DEF OutstandingOwned
    <3>4. CASE BeginRow
      <4>1. queue' = queue
        BY <3>4 DEF BeginRow
      <4>2. worker'.pc \in {"rows", "copying"}
        <5>1. \/ \E row, start : worker' = [worker EXCEPT !.pc = "copying", !.row = row,
                                                          !.start = start]
              \/ worker' = [worker EXCEPT !.ends = Tail(@)] /\ worker.pc = "rows"
          BY <3>4, Zenon DEF BeginRow
        <5> QED
          BY <2>1, <5>1 DEF WorkerType
      <4> QED
        BY <4>1, <4>2 DEF OutstandingOwned
    <3>5. CASE CopyRow
      <4> DEFINE ends == Tail(worker.ends)
                 done == [worker EXCEPT !.pc = "rows", !.ends = ends, !.row = NoRow,
                                        !.start = 0]
      <4>1. queue' = queue
        BY <3>5 DEF CopyRow
      <4>2. \/ worker' = [done EXCEPT !.frame.rows = Append(@, worker.row)]
            \/ worker' = done
        BY <3>5, Zenon DEF CopyRow
      <4>3. done.pc = "rows" /\ done = [f \in {"pc", "frame", "ends", "epoch", "row", "start"}
                                          |-> done[f]]
        <5> HIDE DEF ends
        <5> QED
          BY <2>1 DEF WorkerType
      <4> HIDE DEF done
      <4>4. worker'.pc = "rows"
        BY <4>2, <4>3
      <4> QED
        BY <4>1, <4>4 DEF OutstandingOwned
    <3>6. CASE Finish
      <4>1. queue' = [queue EXCEPT !.outstanding = FALSE,
                                   !.hasResult = IF Stale THEN @ ELSE TRUE,
                                   !.latest = IF Stale THEN @ ELSE worker.frame]
        BY <3>6 DEF Finish
      <4>2. queue'.outstanding = FALSE
        BY <2>1, <4>1 DEF QueueType
      <4> QED
        BY <4>2 DEF OutstandingOwned
    <3> QED
      BY <2>4, <3>2, <3>3, <3>4, <3>5, <3>6 DEF WorkerStep
  <2>5. CASE Poll
    <3>1. worker' = worker /\ ui.pc = "idle"
          /\ queue' = [queue EXCEPT !.hasResult = FALSE, !.latest = NoFrame]
      BY <2>5 DEF Poll, Polls, UiUnchanged
    <3>2. queue'.outstanding = queue.outstanding /\ queue'.hasRequest = queue.hasRequest
      BY <2>1, <3>1 DEF QueueType
    <3> QED
      BY <3>1, <3>2 DEF OutstandingOwned
  <2>6. CASE Claim
    <3>1. worker' = worker /\ ui.pc = "claim"
          /\ ui' = [ui EXCEPT !.pc = IF queue.outstanding THEN "idle" ELSE "enqueue"]
          /\ queue' = [queue EXCEPT !.outstanding = TRUE]
      BY <2>6 DEF Claim, UiUnchanged
    <3>2. queue'.hasRequest = queue.hasRequest
      BY <2>1, <3>1 DEF QueueType
    <3>3. ~ queue.outstanding => ui'.pc = "enqueue"
      BY <2>1, <3>1 DEF UiType
    <3> QED
      BY <3>1, <3>2, <3>3 DEF OutstandingOwned
  <2>7. CASE Enqueue
    <3> DEFINE asked == [setting |-> ui.setting, asked |-> ui.asked, center |-> center,
                         gen |-> queue.gen, rows |-> <<>>]
    <3>1. queue' = [queue EXCEPT !.hasRequest = TRUE, !.pending = asked]
      BY <2>7 DEF Enqueue
    <3> HIDE DEF asked
    <3>2. queue'.hasRequest = TRUE
      BY <2>1, <3>1 DEF QueueType
    <3> QED
      BY <3>2 DEF OutstandingOwned
  <2>8. ASSUME queue' = Reset PROVE OutstandingOwned'
    <3> DEFINE next == queue.gen + 1
    <3>1. queue' = [queue EXCEPT !.hasRequest = FALSE, !.outstanding = FALSE,
                                 !.hasResult = FALSE, !.reset = TRUE, !.gen = next,
                                 !.latest = NoFrame, !.pending = NoFrame]
      BY <2>8, Zenon DEF Reset
    <3> HIDE DEF next
    <3>2. queue'.outstanding = FALSE
      BY <2>1, <3>1 DEF QueueType
    <3> QED
      BY <3>2 DEF OutstandingOwned
  <2>9. CASE ResetWorker
    BY <2>8, <2>9 DEF ResetWorker
  <2>10. CASE Settle(FALSE) \/ Settle(TRUE) \/ ClearBuffer
    BY <2>2, <2>10 DEF Settle, Polls, ClearBuffer, UiUnchanged
  <2>11. CASE StartReader \/ QueuedRetune \/ Tune \/ Tuned
    BY <2>2, <2>11 DEF StartReader, QueuedRetune, Tune, Tuned, UiUnchanged
  <2>12. CASE User
    <3>1. CASE \E s \in Settings : ChangeSettings(s)
      BY <2>2, <2>8, <3>1 DEF ChangeSettings, UiUnchanged
    <3>2. CASE \/ HardwareChange \/ Stop
               \/ \E stream \in Streams : Start(stream)
               \/ \E f \in Frequencies : Retune(f)
      BY <2>2, <3>2 DEF HardwareChange, Stop, Start, Retune, Polls, UiUnchanged
    <3> QED
      BY <2>12, <3>1, <3>2 DEF User
  <2>13. CASE UNCHANGED vars
    BY <2>13 DEF vars, OutstandingOwned
  <2>14. CASE ApplyPendingRetune
    <3>1. ui' = [ui EXCEPT !.stored = "none"] /\ queue' = queue /\ worker' = worker
      BY <2>14 DEF ApplyPendingRetune
    <3>2. ui'.pc = ui.pc
      BY <2>1, <3>1 DEF UiType
    <3> QED
      BY <3>1, <3>2 DEF OutstandingOwned
  <2> QED
    BY <2>3, <2>4, <2>5, <2>6, <2>7, <2>9, <2>10, <2>11, <2>12, <2>13, <2>14
       DEF Next, UiStep
<1> QED
  BY <1>1, <1>2, Invariants, PTL DEF Spec
=============================================================================
