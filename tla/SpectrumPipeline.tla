-------------------------- MODULE SpectrumPipeline --------------------------
(***************************************************************************)
(* From the receiver to the waterfall: the DataProcessor's reader thread   *)
(* publishes blocks, the SpectrumFftWorker's thread computes rows from the *)
(* IqBuffer, and the UI thread polls it, retunes, and changes settings.    *)
(*                                                                         *)
(* Three counters keep the three threads apart.  The processor's           *)
(* iqRetuneEpoch is raised by every start and retune; the buffer takes     *)
(* over a value when it is cleared and refuses blocks read under another.  *)
(* The worker's generation is raised by every reset, and a result computed *)
(* for an older one is dropped.  The window remembers epoch and end of the *)
(* frame it showed last and takes an earlier end for a duplicate.          *)
(*                                                                         *)
(* The buffer is the one IqBuffer models in detail, reduced to what its    *)
(* invariants promise: appending, clearing and taking a snapshot are one   *)
(* step each, and an append or a snapshot may fail when they meet.         *)
(* A sample is represented by the centre frequency it was received at.     *)
(***************************************************************************)
EXTENDS Integers, Sequences, FiniteSets

CONSTANTS
  Streams,         \* receivers the user may start: kind and sync reader
  Frequencies,     \* centre frequencies the user may ask for
  Settings,        \* FFT settings: fft, overlap and interval floats, batch
  SnapshotFloats,  \* MAX_SNAPSHOT_FLOATS
  BlockFloats,     \* floats of a block the reader publishes
  MaxRows,         \* maxRowsPerFftBatch()
  Recreate,        \* bound: whether a recreated processor is started again
  MaxCommands,     \* bound: starts, stops, retunes and changes of settings
  MaxPublished     \* bound: blocks the buffer accepts

Kinds == {"fobos", "agile", "external"}

\* floats: of one FFT (fftFloats); overlapHop and interval as in run().
SettingType == [floats : Nat \ {0}, overlapHop : Nat \ {0}, interval : Nat, batch : BOOLEAN]

ASSUME PipelineAssumption ==
  /\ Streams \subseteq [kind : Kinds, sync : BOOLEAN]
  /\ Settings \subseteq SettingType /\ Settings # {}
  /\ Frequencies # {} /\ "none" \notin Frequencies
  /\ {SnapshotFloats, BlockFloats, MaxRows} \subseteq Nat \ {0}
  /\ Recreate \in BOOLEAN /\ MaxCommands \in Nat /\ MaxPublished \in Nat

VARIABLES
  epoch,      \* DataProcessor::iqRetuneEpoch
  center,     \* actualFrequency: what the hardware is tuned to
  reader,     \* the reader thread and the block in its hands
  buffer,     \* IqBuffer: epoch, resets, and the centre of every block
  ui,         \* the window: what the UI thread is doing, settings, frequency
              \* asked for, settle time, Agile retune waiting for its timer,
              \* tune stored for the reader (requestedCenterFrequency)
  shown,      \* lastSpectrumFft...: the frame the window showed last
  queue,      \* SpectrumFftWorker: what its mutex guards
  worker,     \* the locals of SpectrumFftWorker::run()
  last,       \* lastProduced...: what the worker produced last
  drawn,      \* the frame the poll has just taken, and what became of it
  used        \* calls that are bounded

vars == <<epoch, center, reader, buffer, ui, shown, queue, worker, last, drawn, used>>

-----------------------------------------------------------------------------
(* Data *)

Largest(a, b) == IF a > b THEN a ELSE b
Least(a, b) == IF a < b THEN a ELSE b

Nothing == [kind |-> "none", sync |-> FALSE]

\* hopFloats of run(), and the hop of the window's own gate.
Hop(s) == Largest(s.overlapHop, s.interval)

\* totalFloatCount, and the position of the oldest float retained.
Total == BlockFloats * Len(buffer.blocks)
RetainedStart == Total - Least(Total, SnapshotFloats)

\* The centres the floats from position first to end were received at.
CentersOf(first, end) ==
  {buffer.blocks[b] : b \in {b \in DOMAIN buffer.blocks :
     first < b * BlockFloats /\ (b - 1) * BlockFloats < end}}

\* snapshotRecentEndingAt(): at most n floats before position end, and at
\* most what is there.
Available(end) == Least(end, Total)
MutantRowStart(end, n) == Available(end) - n
RowStart(end, n) == Largest(RetainedStart, Available(end) - n)
RowAt(end, n) ==
  [resets |-> buffer.resets, epoch |-> buffer.epoch, end |-> end,
   centers |-> CentersOf(RowStart(end, n), Available(end))]

\* Zeroed members, and locals before they are set.
NoSetting == [floats |-> 0, overlapHop |-> 0, interval |-> 0, batch |-> FALSE]
NoRow == [resets |-> 0, epoch |-> 0, end |-> 0, centers |-> {}]
NoFrame == [setting |-> NoSetting, asked |-> "none", center |-> "none", gen |-> 0, rows |-> <<>>]
NoShown == [epoch |-> 0, end |-> 0, floats |-> 0, resets |-> -1]
NoLast == [end |-> 0, epoch |-> 0, setting |-> NoSetting]
NotDrawn == [verdict |-> "none", frame |-> NoFrame, before |-> NoShown]

Init ==
  /\ epoch = 1 /\ center \in Frequencies
  /\ reader = [pc |-> "off", epoch |-> 0, center |-> "none"]
  /\ buffer = [epoch |-> 1, resets |-> 0, blocks |-> <<>>]
  /\ \E s \in Settings :
       ui = [pc |-> "idle", then |-> "idle", epoch |-> 0, settle |-> FALSE,
             queued |-> FALSE, asked |-> center, stored |-> "none", stream |-> Nothing,
             setting |-> s]
  /\ shown = NoShown
  /\ queue = [hasRequest |-> FALSE, outstanding |-> FALSE, hasResult |-> FALSE,
              reset |-> FALSE, gen |-> 0, pending |-> NoFrame, latest |-> NoFrame]
  /\ worker = [pc |-> "waiting", frame |-> NoFrame, ends |-> <<>>, epoch |-> 0,
               row |-> NoRow, start |-> 0]
  /\ last = NoLast
  /\ drawn = NotDrawn
  /\ used = [commands |-> 0, recreated |-> FALSE, published |-> 0]

-----------------------------------------------------------------------------
(* The reader thread: DataProcessor::run() and handleData() *)

ReaderUnchanged == UNCHANGED <<epoch, center, ui, shown, queue, worker, last, drawn>>

\* The reader's locals are gone at the end of a round of its loop, and rounds
\* are bounded.
InLoop == [pc |-> "loop", epoch |-> 0, center |-> "none"]
Round(first) ==
  IF first THEN reader.pc = "loop" /\ used.published < MaxPublished
  ELSE reader.pc = IF ui.stream.sync THEN "loaded" ELSE "received"

\* IqBuffer::clear(e): e = 0 keeps the epoch.  Clearing an empty buffer
\* leaves its contents what they were.
Cleared(e) ==
  [epoch |-> IF e = 0 THEN buffer.epoch ELSE e,
   resets |-> IF buffer.blocks = <<>> THEN buffer.resets ELSE buffer.resets + 1,
   blocks |-> <<>>]

\* run() loads the epoch and clears the buffer for it, in two steps.
LoadStartEpoch ==
  /\ reader.pc = "begin"
  /\ reader' = [reader EXCEPT !.pc = "clearing", !.epoch = epoch]
  /\ UNCHANGED <<buffer, used>> /\ ReaderUnchanged

ClearAtStart ==
  /\ reader.pc = "clearing"
  /\ buffer' = Cleared(reader.epoch)
  /\ reader' = InLoop
  /\ UNCHANGED used /\ ReaderUnchanged

\* Samples are received.  A synchronous reader has loaded the epoch before.
Receive ==
  /\ Round(~ ui.stream.sync)
  /\ reader' = [reader EXCEPT !.pc = IF ui.stream.sync THEN "holding" ELSE "received",
                              !.center = center]
  /\ UNCHANGED <<buffer, used>> /\ ReaderUnchanged

\* The epoch the block is published under.  A callback loads it when the
\* driver hands over the block, after the samples were received.
LoadEpoch ==
  /\ Round(ui.stream.sync)
  /\ reader' = [reader EXCEPT !.pc = IF ui.stream.sync THEN "loaded" ELSE "holding",
                              !.epoch = epoch]
  /\ UNCHANGED <<buffer, used>> /\ ReaderUnchanged

\* publish(): refused under another epoch, skipped while a reader owns the ring.
MutantAccepted == TRUE
Accepted == reader.epoch = buffer.epoch
Publish ==
  /\ reader.pc = "holding"
  /\ \/ /\ Accepted
        /\ buffer' = [buffer EXCEPT !.blocks = Append(@, reader.center)]
        /\ used' = [used EXCEPT !.published = @ + 1]
     \/ UNCHANGED <<buffer, used>>
  /\ reader' = InLoop
  /\ ReaderUnchanged

ReaderStep == LoadStartEpoch \/ ClearAtStart \/ Receive \/ LoadEpoch \/ Publish

\* applyPendingRetune(): between two rounds the reader of RTL-TCP sends the tune
\* that was stored for it, before or after the second barrier of the retune; a
\* command that fails is sent again in the next round.
ApplyPendingRetune ==
  /\ reader.pc = "loop" /\ ui.stored # "none"
  /\ center' = ui.stored
  /\ ui' = [ui EXCEPT !.stored = "none"]
  /\ UNCHANGED <<epoch, reader, buffer, shown, queue, worker, last, drawn, used>>

-----------------------------------------------------------------------------
(* The worker's thread: SpectrumFftWorker::run() *)

WorkerUnchanged == UNCHANGED <<epoch, center, reader, buffer, ui, shown, drawn, used>>

\* First section: obey a reset, take a request.
Take ==
  /\ worker.pc = "waiting"
  /\ queue.hasRequest \/ queue.reset
  /\ last' = IF queue.reset THEN NoLast ELSE last
  /\ worker' = IF queue.hasRequest
               THEN [worker EXCEPT !.pc = "planning", !.frame = queue.pending]
               ELSE worker
  /\ queue' = [queue EXCEPT !.reset = FALSE, !.hasRequest = FALSE, !.pending = NoFrame]
  /\ WorkerUnchanged

\* The rows continue those produced last.
SameTimeline(s) ==
  /\ last.epoch = buffer.epoch
  /\ [s EXCEPT !.batch = FALSE] = [last.setting EXCEPT !.batch = FALSE]

\* End of the first row that continues them and is still in the ring.
NextRow(s) == Largest(last.end + Hop(s), RetainedStart + s.floats)

\* The newest MaxRows of these rows.
Continued(s) ==
  LET rows  == IF NextRow(s) > Total THEN 0 ELSE (Total - NextRow(s)) \div Hop(s) + 1
      count == Least(rows, MaxRows)
  IN  [k \in 1 .. count |-> NextRow(s) + (rows - count + k - 1) * Hop(s)]

\* frameEnds.  Without batches one snapshot of the newest samples, end 0.
RowEnds(s) ==
  LET continued == IF SameTimeline(s) /\ Total > last.end THEN Continued(s) ELSE <<>>
  IN  IF ~ s.batch THEN <<0>>
      ELSE IF continued # <<>> THEN continued
      ELSE IF (~ SameTimeline(s) \/ last.end = 0) /\ Total >= s.floats THEN <<Total>>
      ELSE <<>>

Plan ==
  /\ worker.pc = "planning"
  /\ worker' = [worker EXCEPT !.pc = "rows", !.epoch = buffer.epoch,
                              !.ends = RowEnds(worker.frame.setting)]
  /\ UNCHANGED <<queue, last>> /\ WorkerUnchanged

\* storeFFTResults() of one row begins to copy its snapshot, unless the ring
\* has moved on or is empty.
BeginRow ==
  /\ worker.pc = "rows" /\ worker.ends # <<>>
  /\ LET n   == worker.frame.setting.floats
         end == IF Head(worker.ends) = 0 THEN Total ELSE Head(worker.ends)
     IN  worker' = IF Available(end) > RetainedStart
                   THEN [worker EXCEPT !.pc = "copying", !.row = RowAt(end, n),
                                       !.start = RowStart(end, n)]
                   ELSE [worker EXCEPT !.ends = Tail(@)]
  /\ UNCHANGED <<queue, last>> /\ WorkerUnchanged

\* The copy fails if the buffer was cleared, and it may fail if the ring has
\* overtaken its start: another row then is tried.
CopyRow ==
  /\ worker.pc = "copying"
  /\ LET rest == [worker EXCEPT !.pc = "rows", !.ends = Tail(@), !.row = NoRow, !.start = 0]
     IN  \/ /\ worker.row.resets = buffer.resets
            /\ worker' = [rest EXCEPT !.frame.rows = Append(@, worker.row)]
            /\ last' = [last EXCEPT !.end = worker.row.end]
         \/ /\ worker.row.resets # buffer.resets \/ RetainedStart > worker.start
            /\ worker' = rest
            /\ UNCHANGED last
  /\ UNCHANGED queue /\ WorkerUnchanged

\* lastProduced...: the metadata of a single snapshot, or where a batch ended.
Produced ==
  LET s    == worker.frame.setting
      rows == worker.frame.rows
  IN  IF s.batch THEN [last EXCEPT !.epoch = worker.epoch, !.setting = s]
      ELSE [end     |-> IF rows = <<>> THEN 0 ELSE rows[1].end,
            epoch   |-> IF rows = <<>> THEN 0 ELSE rows[1].epoch,
            setting |-> s]

\* After the rows, the last section: drop the result of an older generation or
\* make it available.
MutantStale == FALSE
Stale == worker.frame.gen # queue.gen
Finish ==
  /\ worker.pc = "rows" /\ worker.ends = <<>>
  /\ last' = Produced
  /\ queue' = [queue EXCEPT !.outstanding = FALSE,
                            !.hasResult = IF Stale THEN @ ELSE TRUE,
                            !.latest = IF Stale THEN @ ELSE worker.frame]
  /\ worker' = [worker EXCEPT !.pc = "waiting", !.frame = NoFrame, !.epoch = 0]
  /\ WorkerUnchanged

WorkerStep == Take \/ Plan \/ BeginRow \/ CopyRow \/ Finish

-----------------------------------------------------------------------------
(* The UI thread polls: updateSpectrum() *)

UiUnchanged == UNCHANGED <<center, reader, worker, last>>

\* The settle time outlasts a tune the reader has to send itself, and the blocks
\* the driver received before the tune.  A synchronous reader needs no settle
\* time and nothing is assumed of it.
SettleElapsed ==
  \/ ui.stream.sync
  \/ /\ ui.stored = "none"
     /\ reader.pc \in {"received", "holding"} => reader.center = center

\* The update timer runs with the stream.
Polls == ui.pc = "idle" /\ reader.pc # "off"

\* Every poll during the settle time, and the first one after it, clears the
\* buffer and does nothing else.
Settle(elapsed) ==
  /\ Polls /\ ui.settle
  /\ ~ (queue.outstanding /\ ~ queue.hasResult)
  /\ elapsed => SettleElapsed
  /\ buffer' = Cleared(0)
  /\ ui' = [ui EXCEPT !.settle = ~ elapsed]
  /\ UNCHANGED <<epoch, shown, queue, drawn, used>> /\ UiUnchanged

\* spectrumFftSettingsMatch(): the frame was requested with what is set now.
Matches(frame) ==
  /\ frame.setting.floats = ui.setting.floats
  /\ frame.asked = ui.asked /\ frame.center = center

\* The newest row is of the stream and FFT length shown last.
MutantUngated(row) == FALSE
MutantSameGeometry(row) == shown.floats = ui.setting.floats
SameGeometry(row) == shown.epoch = row.epoch /\ shown.floats = ui.setting.floats

\* The window's gate: duplicates, and frames closer than the overlap allows.
Verdict(frame) ==
  LET newest == frame.rows[Len(frame.rows)]
  IN  IF frame.rows = <<>> \/ ~ Matches(frame) THEN "stale"
      ELSE IF SameGeometry(newest) /\ newest.end <= shown.end THEN "duplicate"
      ELSE IF SameGeometry(newest) /\ newest.end - shown.end < ui.setting.overlapHop THEN "wait"
      ELSE "shown"

Poll ==
  /\ Polls /\ ~ ui.settle
  /\ ~ (queue.outstanding /\ ~ queue.hasResult)
  /\ IF queue.hasResult
     THEN LET frame   == queue.latest
              verdict == Verdict(frame)
              newest  == frame.rows[Len(frame.rows)]
          IN  /\ drawn' = [verdict |-> verdict, frame |-> frame, before |-> shown]
              /\ shown' = IF verdict # "shown" THEN shown
                          ELSE [epoch |-> newest.epoch, end |-> newest.end,
                                floats |-> ui.setting.floats, resets |-> newest.resets]
     ELSE UNCHANGED <<drawn, shown>>
  /\ queue' = [queue EXCEPT !.hasResult = FALSE, !.latest = NoFrame]
  /\ ui' = [ui EXCEPT !.pc = "claim"]
  /\ UNCHANGED <<epoch, buffer, used>> /\ UiUnchanged

\* request(): claim requestOutstanding, then fill the request under the mutex.
Claim ==
  /\ ui.pc = "claim"
  /\ queue' = [queue EXCEPT !.outstanding = TRUE]
  /\ ui' = [ui EXCEPT !.pc = IF queue.outstanding THEN "idle" ELSE "enqueue"]
  /\ drawn' = NotDrawn
  /\ UNCHANGED <<epoch, buffer, shown, used>> /\ UiUnchanged

Enqueue ==
  /\ ui.pc = "enqueue"
  /\ queue' = [queue EXCEPT !.hasRequest = TRUE,
                            !.pending = [setting |-> ui.setting, asked |-> ui.asked,
                                         center |-> center, gen |-> queue.gen,
                                         rows |-> <<>>]]
  /\ ui' = [ui EXCEPT !.pc = "idle"]
  /\ UNCHANGED <<epoch, buffer, shown, drawn, used>> /\ UiUnchanged

-----------------------------------------------------------------------------
(* The UI thread starts, stops, retunes and changes settings *)

\* resetHfNoiseCancelState(), one section of the worker's mutex.
MutantReset ==
  [queue EXCEPT !.hasRequest = FALSE, !.hasResult = FALSE, !.reset = TRUE,
                !.gen = @ + 1, !.latest = NoFrame, !.pending = NoFrame]
Reset ==
  [queue EXCEPT !.hasRequest = FALSE, !.outstanding = FALSE, !.hasResult = FALSE,
                !.reset = TRUE, !.gen = @ + 1, !.latest = NoFrame, !.pending = NoFrame]

\* clearLiveSpectrumSnapshot(e): the buffer first, then the worker.
ThenClear(e, then) == [ui EXCEPT !.pc = "clear", !.epoch = e, !.then = then]

ClearBuffer ==
  /\ ui.pc = "clear"
  /\ buffer' = Cleared(ui.epoch)
  /\ ui' = [ui EXCEPT !.pc = "reset"]
  /\ UNCHANGED <<epoch, shown, queue, drawn, used>> /\ UiUnchanged

ResetWorker ==
  /\ ui.pc = "reset"
  /\ queue' = Reset
  /\ ui' = [ui EXCEPT !.pc = IF ui.then = "settle" THEN "idle" ELSE ui.then,
                      !.settle = @ \/ ui.then = "settle",
                      !.then = "idle", !.epoch = 0]
  /\ UNCHANGED <<epoch, buffer, shown, drawn, used>> /\ UiUnchanged

\* The user does one thing more.
Command ==
  /\ used.commands < MaxCommands
  /\ used' = [used EXCEPT !.commands = @ + 1]

\* startFobosProcessing(), and the restart of a hardware change.
Start(stream) ==
  /\ ui.pc = "idle" /\ reader.pc = "off"
  /\ used.recreated => Recreate
  /\ Command
  /\ ui' = [ThenClear(0, "start") EXCEPT !.stream = stream, !.stored = "none"]
  /\ UNCHANGED <<epoch, buffer, shown, queue, drawn>> /\ UiUnchanged

HardwareChange ==
  /\ ui.pc = "idle" /\ reader.pc = "loop" /\ ui.stream.kind # "external"
  /\ Command
  /\ reader' = [reader EXCEPT !.pc = "off"]
  /\ ui' = ThenClear(0, "start")
  /\ UNCHANGED <<epoch, center, buffer, shown, queue, worker, last, drawn>>

\* The receiver is opened and set to what is asked for, and
\* DataProcessor::startProcessing() runs; an Agile receiver then settles.
StartReader ==
  /\ ui.pc = "start"
  /\ epoch' = epoch + 1 /\ center' = ui.asked
  /\ reader' = [reader EXCEPT !.pc = "begin"]
  /\ ui' = IF ui.stream.kind = "agile" THEN ThenClear(0, "settle")
           ELSE [ui EXCEPT !.pc = "idle"]
  /\ UNCHANGED <<buffer, shown, queue, worker, last, drawn, used>>

\* The user stops the stream and the reader, between two rounds, has ended.  For
\* a Fobos the stop also recreates the DataProcessor, whose epoch begins at 1.
\* Left out is what a stop does besides after a failure, a stream that never
\* delivers or a forced recovery (clearSpectrumAfterStop,
\* closeFobosSessionAfterStop).
Stop ==
  /\ ui.pc = "idle" /\ reader.pc = "loop"
  /\ \/ ui.stream.kind = "external" /\ Command /\ UNCHANGED epoch
     \/ /\ ui.stream.kind # "external"
        /\ used.commands < MaxCommands
        /\ used' = [used EXCEPT !.commands = @ + 1, !.recreated = TRUE]
        /\ epoch' = 1
  /\ reader' = [reader EXCEPT !.pc = "off"]
  /\ UNCHANGED <<center, buffer, ui, shown, queue, worker, last, drawn>>

\* A live retune raises the epoch before and after the hardware is tuned.
Barrier(f) ==
  /\ epoch' = epoch + 1
  /\ ui' = [ThenClear(epoch + 1, "tune") EXCEPT
              !.asked = f, !.queued = FALSE,
              !.settle = ui.stream.kind # "agile" /\ ui.settle]

\* An Agile receiver is retuned when the settle time and the command interval
\* of the tune before are over (the interval is left open), and then to what
\* was asked for last.
Ready == ui.settle => SettleElapsed
Retune(f) ==
  /\ Polls /\ f # ui.asked /\ Command
  /\ \/ /\ ui.stream.kind = "agile" => Ready /\ ~ ui.queued
        /\ Barrier(f)
     \/ /\ ui.stream.kind = "agile"
        /\ ui' = [ui EXCEPT !.asked = f, !.queued = TRUE]
        /\ UNCHANGED epoch
  /\ UNCHANGED <<buffer, shown, queue, drawn>> /\ UiUnchanged

\* Its timer finds the stream running, or has nothing to do.
QueuedRetune ==
  /\ ui.pc = "idle" /\ ui.queued
  /\ IF reader.pc # "off" /\ ui.stream.kind = "agile"
     THEN Ready /\ Barrier(ui.asked)
     ELSE ui' = [ui EXCEPT !.queued = FALSE] /\ UNCHANGED epoch
  /\ UNCHANGED <<buffer, shown, queue, drawn, used>> /\ UiUnchanged

\* A tune may fail: the window goes on asking for what it asked for.  For
\* RTL-TCP retuneCenterFrequency() only stores it for the reader's thread.
Tune ==
  /\ ui.pc = "tune"
  /\ \/ center' = ui.asked /\ ui' = [ui EXCEPT !.pc = "tuned", !.stored = "none"]
     \/ center' = center /\ ui' = [ui EXCEPT !.pc = "idle"]
     \/ /\ ui.stream.kind = "external" /\ ~ ui.stream.sync
        /\ center' = center /\ ui' = [ui EXCEPT !.pc = "tuned", !.stored = ui.asked]
  /\ UNCHANGED <<epoch, reader, buffer, shown, queue, worker, last, drawn, used>>

Tuned ==
  /\ ui.pc = "tuned"
  /\ epoch' = epoch + 1
  /\ ui' = ThenClear(epoch + 1, "settle")
  /\ UNCHANGED <<buffer, shown, queue, drawn, used>> /\ UiUnchanged

\* applyFftLength() resets the worker, a new overlap or interval does not;
\* restoring the HF defaults (s is what is set already) resets it too.
ChangeSettings(s) ==
  /\ ui.pc = "idle"
  /\ Command
  /\ ui' = [ui EXCEPT !.setting = s]
  /\ queue' = IF s.floats # ui.setting.floats \/ s = ui.setting THEN Reset ELSE queue
  /\ UNCHANGED <<epoch, buffer, shown, drawn>> /\ UiUnchanged

UiStep ==
  \/ Settle(FALSE) \/ Settle(TRUE) \/ Poll \/ Claim \/ Enqueue
  \/ ClearBuffer \/ ResetWorker \/ StartReader \/ QueuedRetune \/ Tune \/ Tuned

User ==
  \/ \E stream \in Streams : Start(stream)
  \/ HardwareChange \/ Stop
  \/ \E f \in Frequencies : Retune(f)
  \/ \E s \in Settings : ChangeSettings(s)

Next == ReaderStep \/ ApplyPendingRetune \/ WorkerStep \/ UiStep \/ User

Spec == Init /\ [][Next]_vars

-----------------------------------------------------------------------------
(* Properties *)

RowType == [resets : Nat, epoch : Nat, end : Nat, centers : SUBSET Frequencies]
Tuning == Frequencies \cup {"none"}
FrameType == [setting : Settings \cup {NoSetting}, asked : Tuning, center : Tuning,
              gen : Nat, rows : Seq(RowType)]
ShownType == [epoch : Nat, end : Nat, floats : Nat, resets : Nat \cup {-1}]

TypeOK ==
  /\ epoch \in Nat \ {0} /\ center \in Frequencies
  /\ reader \in [pc : {"off", "begin", "clearing", "loop", "received", "loaded", "holding"},
                 epoch : Nat, center : Tuning]
  /\ buffer \in [epoch : Nat, resets : Nat, blocks : Seq(Frequencies)]
  /\ ui \in [pc : {"idle", "claim", "enqueue", "clear", "reset", "start", "tune", "tuned"},
             then : {"idle", "start", "tune", "settle"}, epoch : Nat, settle : BOOLEAN,
             queued : BOOLEAN, asked : Frequencies, stored : Tuning,
             stream : Streams \cup {Nothing}, setting : Settings]
  /\ shown \in ShownType
  /\ queue \in [hasRequest : BOOLEAN, outstanding : BOOLEAN, hasResult : BOOLEAN,
                reset : BOOLEAN, gen : Nat, pending : FrameType, latest : FrameType]
  /\ worker \in [pc : {"waiting", "planning", "rows", "copying"},
                 frame : FrameType, ends : Seq(Nat), epoch : Nat, row : RowType, start : Nat]
  /\ last \in [end : Nat, epoch : Nat, setting : Settings \cup {NoSetting}]
  /\ drawn \in [verdict : {"none", "stale", "duplicate", "wait", "shown"},
                frame : FrameType, before : ShownType]

Drawn == drawn.verdict = "shown"
DrawnRows == {drawn.frame.rows[k] : k \in DOMAIN drawn.frame.rows}

\* Every row drawn was received entirely at the frequency the receiver is
\* tuned to now (which is the one asked for unless a tune failed or waits),
\* however the retune met the reader, the buffer and the worker
\* (the barriers of applyCenterFrequencyToHardwareIfNeeded, updateSpectrum).
ShownInTune == Drawn => \A row \in DrawnRows : row.centers = {center}

\* Every row drawn was computed from what the buffer holds since it was
\* cleared last: no result survives a clearLiveSpectrumSnapshot().
ShownFresh ==
  Drawn => \A row \in DrawnRows : row.resets = buffer.resets /\ row.epoch = buffer.epoch

\* The rows of a frame are at least one hop apart, and all of them follow the
\* row drawn before, of the same FFT length and contents of the buffer: the
\* waterfall draws no row twice and none out of order, whether rows were lost,
\* the ring overtook them, a batch had to skip some or the worker forgot where
\* it was (frameEnds in run(), the gate of updateSpectrum, which compares only
\* the newest row of a frame).
NoRowTwice ==
  Drawn =>
    LET rows == drawn.frame.rows
    IN  /\ \A k \in 1 .. Len(rows) - 1 : rows[k + 1].end - rows[k].end >= Hop(drawn.frame.setting)
        /\ /\ drawn.before.resets = rows[1].resets
           /\ drawn.before.floats = drawn.frame.setting.floats
           => rows[1].end > drawn.before.end

\* A frame the gate drops as a duplicate, or as too close to the frame shown
\* before, was computed from the same contents of the buffer as that frame
\* ("Gate successive FFT snapshots by the exact amount of newly published
\* IQ", updateSpectrum).
GateComparesAlike ==
  drawn.verdict \in {"duplicate", "wait"} =>
    \A row \in DrawnRows : row.resets = drawn.before.resets

\* The reader publishes under the epoch the buffer accepts whenever neither
\* is changing it (run() and beginIqRetuneBarrier).
StreamAccepted ==
  ui.pc = "idle" /\ reader.pc = "loop" => buffer.epoch = epoch

\* A claimed requestOutstanding always has somebody who will release it: the
\* request is being filled, waits, or is being computed.  Otherwise every poll
\* would return early for ever (updateSpectrum, request, run).
OutstandingOwned ==
  queue.outstanding => ui.pc = "enqueue" \/ queue.hasRequest \/ worker.pc # "waiting"

=============================================================================
