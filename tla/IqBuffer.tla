------------------------------ MODULE IqBuffer ------------------------------
(***************************************************************************)
(* The shared IQ buffer, src/src/core/iqbuffer.cpp.                        *)
(*                                                                         *)
(* One receiver thread publishes blocks of interleaved I/Q floats.  Each   *)
(* block goes to the ordered queue of the audio demodulator and to the     *)
(* snapshot ring that FFT, GNSS and video readers copy from.  The UI       *)
(* thread clears both when it retunes.  Two mutexes guard the state:       *)
(* g_iqMutex (ring) and g_audioQueueMutex (queue).  Every critical section *)
(* is one step here, and a thread may lose the processor between any two.  *)
(* The ring mutex is explicit (iqOwner), because the publisher only tries  *)
(* it; a critical section of the queue mutex calls nothing that waits.     *)
(*                                                                         *)
(* A float is represented by where it belongs: the reset generation and    *)
(* the absolute position at which it was appended, and the epoch its       *)
(* publisher claimed for it (0: none).                                     *)
(***************************************************************************)
EXTENDS Integers, Sequences, FiniteSets, SequencesExt

CONSTANTS
  Readers,         \* threads that take snapshots
  Nobody,          \* owner of a mutex nobody holds
  SnapshotFloats,  \* MAX_SNAPSHOT_FLOATS: floats the ring holds
  ChunkFloats,     \* SNAPSHOT_COPY_CHUNK_FLOATS: floats copied under one lock
  MaxBlocks,       \* MAX_QUEUED_BLOCKS
  QueueLimits,     \* values of maxQueuedFloatsForLiveAudio()
  BlockSizes,      \* float counts a publisher passes
  Modes,           \* <<queueBlock, updateSnapshot>> pairs publishers pass
  Wants,           \* maxFloatCount values a reader passes
  EndStep,         \* requested snapshot ends are multiples of this
  Epochs,          \* epochs a processor may pass to clear()
  MaxTotal,        \* bound: floats appended between two clears
  MaxClears,       \* bound: calls of clear()
  MaxPublished     \* bound: blocks numbered between two clears

ASSUME BufferAssumption ==
  /\ Nobody \notin Readers
  /\ SnapshotFloats \in Nat \ {0} /\ SnapshotFloats % 2 = 0
  /\ ChunkFloats \in Nat \ {0} /\ ChunkFloats % 2 = 0
  /\ MaxBlocks \in Nat \ {0}
  /\ QueueLimits \subseteq Nat \ {0} /\ QueueLimits # {}
  /\ BlockSizes \subseteq Nat \ {0}
  /\ Modes \subseteq BOOLEAN \X BOOLEAN
  /\ Wants \subseteq Nat \ {0}
  /\ EndStep \in Nat \ {0}
  /\ Epochs \subseteq Nat \ {0} /\ 1 \in Epochs
  /\ MaxTotal \in Nat /\ MaxClears \in Nat /\ MaxPublished \in Nat

VARIABLES
  iqEpoch,          \* g_iqEpoch
  iqSnapshot,       \* g_iqSnapshot, the ring
  snapshotStart,    \* g_iqSnapshotStart
  snapshotSize,     \* g_iqSnapshotSize
  totalFloats,      \* g_totalSnapshotFloatCount
  resetGeneration,  \* g_snapshotResetGeneration
  latestMetadata,   \* epoch and totalFloatCount of g_latestMetadata
  iqOwner,          \* the reader inside a g_iqMutex section, or Nobody
  iqBlocks,         \* g_iqBlocks with g_iqBlockSequences
  queuedFloats,     \* g_iqQueuedFloatCount
  queueLimit,       \* maxQueuedFloatsForLiveAudio() for g_sampleRateEstimate
  audioSequence,    \* g_audioBlockSequence
  publisher,        \* locals of the running publish()
  heard,            \* number of the block the audio thread popped last
  snap              \* locals of the running copySnapshotTail(), per reader

ringVars  == <<iqSnapshot, snapshotStart, snapshotSize, totalFloats, latestMetadata>>
queueVars == <<iqBlocks, queuedFloats, audioSequence>>
vars == <<iqEpoch, ringVars, resetGeneration, iqOwner, queueVars, queueLimit,
          publisher, heard, snap>>

-----------------------------------------------------------------------------
(* Data *)

Float == [gen : Nat, at : Nat, epoch : Nat]
Block == [seq : Nat, born : Nat, epoch : Nat, floats : Nat]
Metadata == [epoch : Nat, total : Nat]

\* Locals of publish() and of copySnapshotTail().
PublisherType ==
  [pc : {"idle", "numbering", "queueing", "appending"},
   expected : Epochs \cup {0}, queue : BOOLEAN, update : BOOLEAN,
   n : Nat, seq : Nat, born : Nat]

SnapType ==
  [pc : {"idle", "sizing", "allocated", "copying", "done", "failed"},
   seen : Nat, want : Wants \cup {0}, end : Nat, requested : Nat,
   allocated : Nat, count : Nat, start : Int, gen : Nat,
   meta : Metadata, out : Seq(Float)]

\* A default-constructed BlockMetadata.
NoMetadata == [epoch |-> 0, total |-> 0]

RingIndex == 0 .. SnapshotFloats - 1

\* x % MAX_SNAPSHOT_FLOATS.  Every sum the code reduces is below twice the
\* size of the ring, so one subtraction is the remainder.
MutantWrapToZero(x) == IF x >= SnapshotFloats THEN 0 ELSE x
Wrap(x) == IF x >= SnapshotFloats THEN x - SnapshotFloats ELSE x

\* Least of two numbers, std::min.
Least(a, b) == IF a < b THEN a ELSE b

\* n - n % 2U: whole I/Q pairs.
MutantAnyCount(n) == n
WholePairs(n) == n - (n % 2)

\* Absolute position of the oldest float of the ring.
RetainedStart == totalFloats - snapshotSize

\* The n floats of the ring from absolute position first on.
ReadRing(first, n) ==
  [k \in 1 .. n |-> iqSnapshot[Wrap(snapshotStart + (first - RetainedStart) + k - 1)]]

\* Floats held by a sequence of blocks.
FloatsOf(blocks) == FoldLeft(LAMBDA sum, b : sum + b.floats, 0, blocks)

Idle == [pc |-> "idle", expected |-> 0, queue |-> FALSE, update |-> FALSE,
         n |-> 0, seq |-> 0, born |-> 0]

NoSnap == [pc |-> "idle", seen |-> 0, want |-> 0, end |-> 0, requested |-> 0,
           allocated |-> 0, count |-> 0, start |-> 0, gen |-> 0,
           meta |-> NoMetadata, out |-> <<>>]

Init ==
  /\ iqEpoch = 1
  /\ iqSnapshot = [i \in RingIndex |-> [gen |-> 0, at |-> 0, epoch |-> 0]]
  /\ snapshotStart = 0 /\ snapshotSize = 0
  /\ totalFloats = 0
  /\ resetGeneration = 1
  /\ latestMetadata = NoMetadata
  /\ iqOwner = Nobody
  /\ iqBlocks = <<>>
  /\ queuedFloats = 0
  /\ queueLimit \in QueueLimits
  /\ audioSequence = 0
  /\ publisher = Idle
  /\ heard = [seq |-> 0, born |-> 0]
  /\ snap = [r \in Readers |-> NoSnap]

-----------------------------------------------------------------------------
(* publish(), in the receiver thread *)

\* The caller's epoch is still the buffer's (0 asks for no check).
MutantNoEpochCheck(expected) == TRUE
EpochAccepted(expected) == expected = 0 \/ expected = iqEpoch

\* Entry: the first epoch check, outside the mutexes.  A call that fails it
\* returns false and changes nothing, so it is not a step.
BeginPublish(n, expected, queue, update) ==
  /\ publisher.pc = "idle"
  /\ totalFloats + n <= MaxTotal
  /\ audioSequence < MaxPublished
  /\ EpochAccepted(expected)
  /\ publisher' = [pc |-> IF queue THEN "numbering" ELSE "queueing",
                   expected |-> expected, queue |-> queue, update |-> update,
                   n |-> n, seq |-> 0, born |-> 0]
  /\ UNCHANGED <<iqEpoch, ringVars, resetGeneration, iqOwner, queueVars,
                 queueLimit, heard, snap>>

\* g_audioBlockSequence.fetch_add(1) + 1, before the queue mutex is taken.
\* "born" remembers in which generation the number was drawn.
MutantNumberNotAdvanced ==
  /\ publisher.pc = "numbering"
  /\ publisher' = [publisher EXCEPT !.pc = "queueing",
                                    !.seq = audioSequence + 1,
                                    !.born = resetGeneration]
  /\ UNCHANGED <<iqEpoch, ringVars, resetGeneration, iqOwner, queueVars,
                 queueLimit, heard, snap>>
NumberBlock ==
  /\ publisher.pc = "numbering"
  /\ audioSequence' = audioSequence + 1
  /\ publisher' = [publisher EXCEPT !.pc = "queueing",
                                    !.seq = audioSequence + 1,
                                    !.born = resetGeneration]
  /\ UNCHANGED <<iqEpoch, ringVars, resetGeneration, iqOwner, iqBlocks,
                 queuedFloats, queueLimit, heard, snap>>

\* Where publish() goes after the queue section.
AfterQueue == IF publisher.update
              THEN [publisher EXCEPT !.pc = "appending"]
              ELSE Idle

\* What the trimming loop of publish() stops at.
MutantFloatsUnlimited(blocks, floats) == blocks <= MaxBlocks
WithinLimits(blocks, floats) == blocks <= MaxBlocks /\ floats <= queueLimit

\* Append the block and drop the oldest ones until both limits hold.
PushAndTrim ==
  LET grown == Append(iqBlocks, [seq |-> publisher.seq, born |-> publisher.born,
                                 epoch |-> publisher.expected,
                                 floats |-> publisher.n])
      left(k) == queuedFloats + publisher.n - FloatsOf(SubSeq(grown, 1, k))
      fits(k) == WithinLimits(Len(grown) - k, left(k))
  IN  \E k \in 0 .. Len(grown) :
        /\ fits(k)
        /\ \A j \in 0 .. k - 1 : ~ fits(j)
        /\ iqBlocks' = SubSeq(grown, k + 1, Len(grown))
        /\ queuedFloats' = left(k)

\* The queue section of publish(): the epoch is checked again under the mutex.
QueueBlock ==
  /\ publisher.pc = "queueing" /\ publisher.queue
  /\ \/ /\ EpochAccepted(publisher.expected)
        /\ PushAndTrim
        /\ publisher' = AfterQueue
     \/ /\ ~ EpochAccepted(publisher.expected)
        /\ publisher' = Idle
        /\ UNCHANGED <<iqBlocks, queuedFloats>>
  /\ UNCHANGED <<iqEpoch, ringVars, resetGeneration, iqOwner, audioSequence,
                 queueLimit, heard, snap>>

\* With queueBlock false the audio is off: the queue is emptied.
FlushQueue ==
  /\ publisher.pc = "queueing" /\ ~ publisher.queue
  /\ iqBlocks' = <<>>
  /\ queuedFloats' = 0
  /\ publisher' = AfterQueue
  /\ UNCHANGED <<iqEpoch, ringVars, resetGeneration, iqOwner, audioSequence,
                 queueLimit, heard, snap>>

\* The float a publisher stores at absolute position p.
Stored(p) == [gen |-> resetGeneration, at |-> p, epoch |-> publisher.expected]

\* Oldest floats that make room for n new ones.
MutantNothingDropped(n) == 0
Dropped(n) == IF snapshotSize + n > SnapshotFloats
              THEN snapshotSize + n - SnapshotFloats ELSE 0

\* appendToSnapshot() of n floats.
AppendToSnapshot(n) ==
  IF n >= SnapshotFloats
  THEN /\ iqSnapshot' = [i \in RingIndex |-> Stored(totalFloats + n - SnapshotFloats + i)]
       /\ snapshotStart' = 0
       /\ snapshotSize' = SnapshotFloats
  ELSE LET drop     == Dropped(n)
           kept     == snapshotSize - drop
           start    == Wrap(snapshotStart + drop)
           writePos == Wrap(start + kept)
           offset(i) == IF i >= writePos THEN i - writePos
                        ELSE i + SnapshotFloats - writePos
       IN  /\ iqSnapshot' = [i \in RingIndex |->
                               IF offset(i) < n THEN Stored(totalFloats + offset(i))
                               ELSE iqSnapshot[i]]
           /\ snapshotStart' = start
           /\ snapshotSize' = kept + n

\* g_latestMetadata after n floats were appended.
MutantMetadataBeforeAppend(n) == [epoch |-> iqEpoch, total |-> totalFloats]
MetadataAfter(n) == [epoch |-> iqEpoch, total |-> totalFloats + n]

\* The block is not for the ring: a reader owns it, or a retune came first.
MutantWaitForReader == ~ EpochAccepted(publisher.expected)
SkipsRing == iqOwner # Nobody \/ ~ EpochAccepted(publisher.expected)

\* The snapshot section: try_lock, so a busy ring only skips this block.
AppendBlock ==
  /\ publisher.pc = "appending"
  /\ \/ /\ iqOwner = Nobody
        /\ EpochAccepted(publisher.expected)
        /\ AppendToSnapshot(publisher.n)
        /\ totalFloats' = totalFloats + publisher.n
        /\ latestMetadata' = MetadataAfter(publisher.n)
     \/ /\ SkipsRing
        /\ UNCHANGED ringVars
  /\ publisher' = Idle
  /\ UNCHANGED <<iqEpoch, resetGeneration, iqOwner, queueVars, queueLimit,
                 heard, snap>>

-----------------------------------------------------------------------------
(* popBlock(), in the audio thread, and setSampleRateEstimate() *)

PopBlock ==
  /\ iqBlocks # <<>>
  /\ heard' = [seq |-> Head(iqBlocks).seq, born |-> Head(iqBlocks).born]
  /\ iqBlocks' = Tail(iqBlocks)
  /\ queuedFloats' = queuedFloats - Head(iqBlocks).floats
  /\ UNCHANGED <<iqEpoch, ringVars, resetGeneration, iqOwner, audioSequence,
                 queueLimit, publisher, snap>>

\* A new estimate changes the limit the next publish() trims to.
SetSampleRateEstimate(limit) ==
  /\ queueLimit' = limit
  /\ UNCHANGED <<iqEpoch, ringVars, resetGeneration, iqOwner, queueVars,
                 publisher, heard, snap>>

-----------------------------------------------------------------------------
(* clear(), in the UI thread or at the start of the reader thread *)

Clear(epoch) ==
  /\ iqOwner = Nobody
  /\ resetGeneration <= MaxClears
  /\ iqEpoch' = IF epoch # 0 THEN epoch ELSE iqEpoch
  /\ snapshotStart' = 0 /\ snapshotSize' = 0
  /\ iqBlocks' = <<>>
  /\ queuedFloats' = 0
  /\ audioSequence' = 0
  /\ latestMetadata' = NoMetadata
  /\ totalFloats' = 0
  /\ resetGeneration' = resetGeneration + 1
  /\ UNCHANGED <<iqSnapshot, iqOwner, queueLimit, publisher, heard, snap>>

-----------------------------------------------------------------------------
(* copySnapshotTail(), in a reader thread *)

\* stats(): the caller learns the total it derives its row ends from.
ReadStats(r) ==
  /\ snap[r].pc \in {"idle", "done", "failed"}
  /\ iqOwner = Nobody
  /\ snap' = [snap EXCEPT ![r] = [NoSnap EXCEPT !.seen = totalFloats]]
  /\ UNCHANGED <<iqEpoch, ringVars, resetGeneration, iqOwner, queueVars,
                 queueLimit, publisher, heard>>

\* The call: end 0 asks for the newest floats (snapshotRecent), any other end
\* for the floats before that position (snapshotRecentEndingAt).
BeginSnapshot(r, want, end) ==
  /\ snap[r].pc \in {"idle", "done", "failed"}
  /\ end <= snap[r].seen
  /\ snap' = [snap EXCEPT ![r] = [NoSnap EXCEPT !.pc = "sizing",
                                    !.seen = snap[r].seen,
                                    !.want = want, !.end = end]]
  /\ UNCHANGED <<iqEpoch, ringVars, resetGeneration, iqOwner, queueVars,
                 queueLimit, publisher, heard>>

\* The reader blocks on g_iqMutex until it owns it.
LockRing(r) ==
  /\ snap[r].pc \in {"sizing", "allocated", "copying"}
  /\ iqOwner = Nobody
  /\ iqOwner' = r
  /\ UNCHANGED <<iqEpoch, ringVars, resetGeneration, queueVars, queueLimit,
                 publisher, heard, snap>>

\* What every section of the reader does: change its locals and unlock.
Unlock(r, s) ==
  /\ iqOwner = r
  /\ iqOwner' = Nobody
  /\ snap' = [snap EXCEPT ![r] = s]
  /\ UNCHANGED <<iqEpoch, ringVars, resetGeneration, queueVars, queueLimit,
                 publisher, heard>>

\* return false with out cleared; the other locals die with the call.
Failed(r) == [NoSnap EXCEPT !.pc = "failed", !.seen = snap[r].seen]

\* First section: how much can be copied.  The allocation happens unlocked.
SizeSnapshot(r) ==
  LET s         == snap[r]
      requested == IF s.end = 0 THEN totalFloats ELSE Least(s.end, totalFloats)
      before    == IF requested > RetainedStart THEN requested - RetainedStart ELSE 0
      allocated == WholePairs(Least(before, s.want))
  IN  /\ s.pc = "sizing"
      /\ Unlock(r, IF allocated = 0 THEN Failed(r)
                   ELSE [s EXCEPT !.pc = "allocated", !.requested = requested,
                                  !.allocated = allocated])

\* snapshotRecentEndingAt() overwrites the end the metadata reports.
Finished(s) ==
  [s EXCEPT !.pc = "done",
            !.meta.total = IF s.end = 0 THEN s.meta.total ELSE s.end]

\* The locals after one more chunk has been copied.
WithChunk(s, chunk) ==
  LET t == [s EXCEPT !.pc = "copying", !.out = s.out \o chunk]
  IN  IF Len(t.out) = s.count THEN Finished(t) ELSE t

\* Second section: fix the range, remember the generation, copy one chunk.
CopyFirstChunk(r) ==
  LET s     == snap[r]
      count == WholePairs(Least(snapshotSize, Least(s.want, s.allocated)))
      end   == IF s.end = 0 THEN totalFloats ELSE s.requested
      start == end - count
      fixed == [s EXCEPT !.requested = 0, !.allocated = 0, !.count = count, !.start = start,
                         !.gen = resetGeneration, !.meta = latestMetadata,
                         !.out = <<>>]
  IN  /\ s.pc = "allocated"
      /\ Unlock(r, IF count = 0 \/ start < RetainedStart \/ end > totalFloats
                   THEN Failed(r)
                   ELSE WithChunk(fixed, ReadRing(start, Least(ChunkFloats, count))))

\* The n floats from position first on are still those the copy began with.
MutantNoGenerationCheck(s, first, n) ==
  /\ totalFloats >= s.start + s.count
  /\ first >= RetainedStart
  /\ first + n <= totalFloats
StillThere(s, first, n) ==
  /\ resetGeneration = s.gen
  /\ totalFloats >= s.start + s.count
  /\ first >= RetainedStart
  /\ first + n <= totalFloats

\* Every further section: give up if the ring was reset or has moved on.
CopyNextChunk(r) ==
  LET s     == snap[r]
      first == s.start + Len(s.out)
      n     == Least(ChunkFloats, s.count - Len(s.out))
  IN  /\ s.pc = "copying"
      /\ Unlock(r, IF StillThere(s, first, n)
                   THEN WithChunk(s, ReadRing(first, n))
                   ELSE Failed(r))

ReaderStep(r) == LockRing(r) \/ SizeSnapshot(r) \/ CopyFirstChunk(r) \/ CopyNextChunk(r)
PublisherStep == NumberBlock \/ QueueBlock \/ FlushQueue \/ AppendBlock

Next ==
  \/ \E n \in BlockSizes, e \in Epochs \cup {0}, m \in Modes :
       BeginPublish(n, e, m[1], m[2])
  \/ PublisherStep
  \/ PopBlock
  \/ \E limit \in QueueLimits : SetSampleRateEstimate(limit)
  \/ \E e \in Epochs \cup {0} : Clear(e)
  \/ \E r \in Readers :
       \/ ReadStats(r)
       \/ \E want \in Wants, end \in 0 .. MaxTotal :
            end % EndStep = 0 /\ BeginSnapshot(r, want, end)
       \/ ReaderStep(r)

Spec == Init /\ [][Next]_vars

\* The receiver thread is never starved by the scheduler; nothing is assumed
\* of the readers, which may hold the ring mutex for as long as they like.
PublisherFairSpec == Spec /\ WF_vars(PublisherStep)

-----------------------------------------------------------------------------
(* What it implements *)

\* The buffer as its users see it: the floats appended since the last clear()
\* are the log, and a snapshot is there once the call has returned true.
Log == INSTANCE AbstractIqBuffer WITH
  epoch      <- iqEpoch,
  generation <- resetGeneration,
  length     <- totalFloats,
  queue      <- iqBlocks,
  returned   <- [r \in Readers |-> IF snap[r].pc = "done" THEN snap[r].out ELSE <<>>]

\* Chunks, locks and retries never show: a snapshot is a run of the log that
\* is current when copySnapshotTail() returns, although a clear() may have
\* come while it was copied; and blocks leave the queue only at its front or
\* all at once (publish, popBlock, clear, copySnapshotTail).
ImplementsLog == Log!Spec

-----------------------------------------------------------------------------
(* Properties *)

\* queuedFloats is not typed here: QueueAccounted says what it is.
TypeOK ==
  /\ iqEpoch \in Epochs
  /\ iqSnapshot \in [RingIndex -> Float]
  /\ snapshotStart \in RingIndex
  /\ snapshotSize \in 0 .. SnapshotFloats
  /\ totalFloats \in Nat
  /\ resetGeneration \in Nat
  /\ latestMetadata \in Metadata
  /\ iqOwner \in Readers \cup {Nobody}
  /\ iqBlocks \in Seq(Block)
  /\ queueLimit \in QueueLimits
  /\ audioSequence \in Nat
  /\ publisher \in PublisherType
  /\ heard \in [seq : Nat, born : Nat]
  /\ snap \in [Readers -> SnapType]

\* The ring holds exactly the newest floats appended since the last clear(),
\* oldest first from g_iqSnapshotStart, through every wrap of the write
\* position (appendToSnapshot, clear).
RingHoldsTail ==
  /\ snapshotSize <= totalFloats
  /\ \A i \in 0 .. snapshotSize - 1 :
       /\ iqSnapshot[Wrap(snapshotStart + i)].gen = resetGeneration
       /\ iqSnapshot[Wrap(snapshotStart + i)].at = RetainedStart + i

\* Nothing in the ring was published for another epoch than the buffer's.
RingOneEpoch ==
  \A i \in 0 .. snapshotSize - 1 :
    iqSnapshot[Wrap(snapshotStart + i)].epoch \in {0, iqEpoch}

\* Nothing the audio thread can pop was published for another epoch than the
\* buffer's: publish() checks the epoch again under the queue mutex.
QueueOneEpoch == \A i \in DOMAIN iqBlocks : iqBlocks[i].epoch \in {0, iqEpoch}

\* A snapshot that succeeds is one gap-free run of floats of one generation,
\* although it was copied in chunks with the ring unlocked in between.
SnapshotContiguous ==
  \A r \in Readers : snap[r].pc = "done" =>
    /\ Len(snap[r].out) = snap[r].count
    /\ \A k \in 1 .. snap[r].count :
         /\ snap[r].out[k].gen = snap[r].gen
         /\ snap[r].out[k].at = snap[r].start + k - 1

\* All floats of a successful snapshot belong to the epoch its metadata
\* names, whatever retunes happened while it was copied.
SnapshotOneEpoch ==
  \A r \in Readers : snap[r].pc = "done" =>
    \A k \in 1 .. snap[r].count : snap[r].out[k].epoch \in {0, snap[r].meta.epoch}

\* A snapshot holds whole I/Q pairs, and starts with an I float if it was asked
\* for the newest floats (end 0) or for an end between two pairs.  An end inside
\* a pair is not corrected: the copy then starts with a Q.  The spectrum worker
\* passes such ends where its hop is odd (spectrumfftworker.cpp:193).
AlignedAsAsked ==
  \A r \in Readers : snap[r].pc = "done" =>
    /\ snap[r].count % 2 = 0
    /\ snap[r].end % 2 = 0 => snap[r].start % 2 = 0

\* The metadata of a snapshot tells where its last float lies.
SnapshotEndReported ==
  \A r \in Readers : snap[r].pc = "done" =>
    snap[r].start + snap[r].count = snap[r].meta.total

\* A live snapshot ends where its metadata says, and a historical one never
\* later than the requested end.
SnapshotEndBounded ==
  \A r \in Readers : snap[r].pc = "done" =>
    /\ snap[r].start + snap[r].count <= snap[r].meta.total
    /\ snap[r].end = 0 => snap[r].start + snap[r].count = snap[r].meta.total

\* g_iqQueuedFloatCount, kept by hand in four places, is the size of the
\* queue, which respects both limits of publish().
QueueAccounted ==
  /\ queuedFloats = FloatsOf(iqBlocks)
  /\ Len(iqBlocks) <= MaxBlocks
  /\ \E limit \in QueueLimits : queuedFloats <= limit

Later(a, b) == a.born > b.born \/ (a.born = b.born /\ a.seq > b.seq)

\* Blocks are queued in the order they were numbered, although the number is
\* drawn before the mutex is taken and clear() restarts the numbering.
QueueOrdered ==
  /\ \A i, j \in DOMAIN iqBlocks : i < j => Later(iqBlocks[j], iqBlocks[i])
  /\ \A i \in DOMAIN iqBlocks : Later(iqBlocks[i], heard)

\* A running publish() returns even if a reader never releases the ring.
PublishReturns == (publisher.pc # "idle") ~> (publisher.pc = "idle")
=============================================================================
