--------------------------- MODULE IqBufferProofs ---------------------------
(***************************************************************************)
(* What IqBuffer promises for every size of the ring and of the chunks,    *)
(* every number of readers and every set of epochs.                        *)
(***************************************************************************)
EXTENDS IqBuffer, SequenceTheorems, WellFoundedInduction, TLAPS

\* What the proofs need of the constants.
LEMMA Sizes ==
  /\ SnapshotFloats \in Nat /\ SnapshotFloats > 0
  /\ ChunkFloats \in Nat /\ ChunkFloats > 0
BY BufferAssumption

LEMMA Naturals ==
  /\ \A e \in Epochs \cup {0} : e \in Nat
  /\ \A w \in Wants \cup {0} : w \in Nat
BY BufferAssumption

LEMMA NumberedType ==
  ASSUME NEW p \in PublisherType, NEW seq \in Nat, NEW born \in Nat
  PROVE  [p EXCEPT !.pc = "queueing", !.seq = seq, !.born = born] \in PublisherType
BY DEF PublisherType

\* The ring never yields a float outside it, and what is read is the run of
\* floats that the positions ask for.
LEMMA WrapInRing ==
  ASSUME NEW x \in 0 .. 2 * SnapshotFloats - 1
  PROVE  Wrap(x) \in RingIndex
BY BufferAssumption DEF Wrap, RingIndex

\* Progress of a copy: how much is there, and that it came from one place.
CopyInv ==
  \A r \in Readers :
    LET s == snap[r] IN
    /\ s.pc = "copying" => Len(s.out) < s.count
    /\ s.pc = "done" => Len(s.out) = s.count
    /\ s.pc \in {"copying", "done"} =>
         \A k \in 1 .. Len(s.out) : /\ s.out[k].gen = s.gen
                                    /\ s.out[k].at = s.start + k - 1
                                    /\ s.out[k].epoch \in {0, s.meta.epoch}
    /\ s.pc = "copying" => /\ s.gen <= resetGeneration
                           /\ s.gen = resetGeneration => s.meta.epoch = iqEpoch

\* The newest metadata is that of the epoch whose floats the ring holds.
MetadataInv == snapshotSize > 0 => latestMetadata.epoch = iqEpoch

RingInv == RingHoldsTail /\ RingOneEpoch /\ MetadataInv

LEMMA ReadRingType ==
  ASSUME TypeOK, NEW first \in Int, NEW n \in Nat,
         first >= RetainedStart, first + n <= totalFloats
  PROVE  /\ ReadRing(first, n) \in Seq(Float)
         /\ Len(ReadRing(first, n)) = n
         /\ \A k \in 1 .. n : ReadRing(first, n)[k] =
              iqSnapshot[Wrap(snapshotStart + (first - RetainedStart) + k - 1)]
<1>1. ASSUME NEW k \in 1 .. n
      PROVE  iqSnapshot[Wrap(snapshotStart + (first - RetainedStart) + k - 1)] \in Float
  <2>1. snapshotStart + (first - RetainedStart) + k - 1 \in 0 .. 2 * SnapshotFloats - 1
    BY BufferAssumption DEF TypeOK, RingIndex, RetainedStart
  <2>2. QED BY <2>1, WrapInRing DEF TypeOK
<1>2. ReadRing(first, n) \in [1 .. n -> Float]
  BY <1>1 DEF ReadRing
<1>3. QED BY <1>2 DEF ReadRing

LEMMA TypeInit == Init => TypeOK
<1> SUFFICES ASSUME Init PROVE TypeOK
  OBVIOUS
<1>1. iqSnapshot \in [RingIndex -> Float]
  BY DEF Init, Float
<1>2. snap \in [Readers -> SnapType]
  BY DEF Init, SnapType, NoSnap, NoMetadata, Metadata
<1>3. publisher \in PublisherType
  BY DEF Init, Idle, PublisherType
<1>4. /\ iqEpoch \in Epochs
      /\ snapshotStart \in RingIndex
      /\ snapshotSize \in 0 .. SnapshotFloats
      /\ totalFloats \in Nat
      /\ resetGeneration \in Nat
  BY BufferAssumption DEF Init, RingIndex
<1>5. /\ latestMetadata \in Metadata
      /\ iqOwner \in Readers \cup {Nobody}
      /\ iqBlocks \in Seq(Block)
      /\ queueLimit \in QueueLimits
      /\ audioSequence \in Nat
      /\ heard \in [seq : Nat, born : Nat]
  BY DEF Init, Metadata, NoMetadata
<1>6. QED
  BY <1>1, <1>2, <1>3, <1>4, <1>5 DEF TypeOK

LEMMA NoSnapType == NoSnap \in SnapType
BY DEF NoSnap, SnapType, NoMetadata, Metadata

LEMMA ChunkType ==
  ASSUME NEW s \in SnapType, NEW chunk \in Seq(Float)
  PROVE  WithChunk(s, chunk) \in SnapType
<1> DEFINE t == [s EXCEPT !.pc = "copying", !.out = s.out \o chunk]
<1>1. s.out \o chunk \in Seq(Float)
  BY ConcatProperties DEF SnapType
<1>2. t \in SnapType
  BY <1>1 DEF SnapType
<1>3. Finished(t) \in SnapType
  <2>1. t.meta \in Metadata /\ t.end \in Nat
    BY <1>2 DEF SnapType
  <2>2. [t.meta EXCEPT !.total = IF t.end = 0 THEN t.meta.total ELSE t.end] \in Metadata
    BY <2>1 DEF Metadata
  <2>3. QED BY <1>2, <2>2 DEF Finished, SnapType
<1>4. QED BY <1>2, <1>3 DEF WithChunk

LEMMA AppendType ==
  ASSUME TypeOK, NEW n \in Nat, AppendToSnapshot(n)
  PROVE  /\ iqSnapshot' \in [RingIndex -> Float]
         /\ snapshotStart' \in RingIndex
         /\ snapshotSize' \in 0 .. SnapshotFloats
<1>0. ASSUME NEW p \in Nat PROVE Stored(p) \in Float
  <2>1. publisher.expected \in Nat /\ resetGeneration \in Nat
    <3>1. publisher.expected \in Epochs \cup {0} /\ resetGeneration \in Nat
      BY DEF TypeOK, PublisherType
    <3>2. QED BY <3>1, Naturals
  <2>2. QED BY <2>1 DEF Stored, Float
<1>1. CASE n >= SnapshotFloats
  <2>1. ASSUME NEW i \in RingIndex
        PROVE  totalFloats + n - SnapshotFloats + i \in Nat
    BY <1>1, BufferAssumption DEF TypeOK, RingIndex
  <2>2. QED BY <1>0, <1>1, <2>1, BufferAssumption DEF AppendToSnapshot, RingIndex
<1>2. CASE ~ (n >= SnapshotFloats)
  <2> DEFINE drop == IF snapshotSize + n > SnapshotFloats
                     THEN snapshotSize + n - SnapshotFloats ELSE 0
             kept == snapshotSize - drop
             start == Wrap(snapshotStart + drop)
             writePos == Wrap(start + kept)
             offset(i) == IF i >= writePos THEN i - writePos
                          ELSE i + SnapshotFloats - writePos
  <2>1. drop \in 0 .. SnapshotFloats - 1 /\ kept \in 0 .. SnapshotFloats
        /\ kept + n \in 0 .. SnapshotFloats
    BY <1>2, BufferAssumption DEF TypeOK, RingIndex
  <2>2. start \in RingIndex
    BY <2>1, BufferAssumption DEF TypeOK, RingIndex, Wrap
  <2>3. writePos \in RingIndex
    BY <2>1, <2>2, BufferAssumption DEF RingIndex, Wrap
  <2>4. ASSUME NEW i \in RingIndex PROVE offset(i) \in Nat
    BY <2>3, BufferAssumption DEF RingIndex
  <2>5. /\ iqSnapshot' = [i \in RingIndex |->
                             IF offset(i) < n THEN Stored(totalFloats + offset(i))
                             ELSE iqSnapshot[i]]
        /\ snapshotStart' = start
        /\ snapshotSize' = kept + n
    BY <1>2 DEF AppendToSnapshot, Dropped
  <2>6. ASSUME NEW i \in RingIndex
        PROVE  Stored(totalFloats + offset(i)) \in Float /\ iqSnapshot[i] \in Float
    <3>1. totalFloats + offset(i) \in Nat
      <4>1. totalFloats \in Nat
        BY DEF TypeOK
      <4> HIDE DEF offset
      <4>2. QED BY <2>4, <4>1
    <3>2. QED BY <3>1, <1>0 DEF TypeOK
  <2> HIDE DEF drop, kept, start, writePos, offset
  <2>7. QED BY <2>1, <2>2, <2>5, <2>6
<1>3. QED BY <1>1, <1>2

\* The locals once the range of the copy is fixed.
LEMMA FixedType ==
  ASSUME NEW s \in SnapType, NEW count \in Nat, NEW start \in Int, NEW gen \in Nat,
         NEW meta \in Metadata
  PROVE  LET fixed == [s EXCEPT !.requested = 0, !.allocated = 0, !.count = count,
                                !.start = start, !.gen = gen, !.meta = meta,
                                !.out = <<>>]
         IN  /\ fixed \in SnapType
             /\ fixed.out = <<>> /\ fixed.count = count /\ fixed.start = start
             /\ fixed.gen = gen /\ fixed.meta = meta
<1>1. <<>> \in Seq(Float) /\ 0 \in Nat
  OBVIOUS
<1>2. QED BY <1>1 DEF SnapType

LEMMA TypeStep == TypeOK /\ CopyInv /\ [Next]_vars => TypeOK'
<1> SUFFICES ASSUME TypeOK, CopyInv, [Next]_vars PROVE TypeOK'
  OBVIOUS
<1>a. /\ totalFloats \in Nat /\ snapshotSize \in Nat /\ RetainedStart \in Int
      /\ resetGeneration \in Nat /\ audioSequence \in Nat /\ iqEpoch \in Nat
  BY BufferAssumption DEF TypeOK, RetainedStart
<1>b. publisher \in PublisherType /\ iqBlocks \in Seq(Block)
  BY DEF TypeOK
<1>c. Idle \in PublisherType /\ AfterQueue \in PublisherType
  BY <1>b DEF AfterQueue, Idle, PublisherType
<1>1. ASSUME NEW n \in BlockSizes, NEW e \in Epochs \cup {0}, NEW m \in Modes,
             BeginPublish(n, e, m[1], m[2])
      PROVE  TypeOK'
  <2>1. publisher' \in PublisherType
    BY <1>1, BufferAssumption DEF BeginPublish, PublisherType
  <2>2. QED BY <1>1, <2>1 DEF BeginPublish, TypeOK, ringVars, queueVars
<1>2. CASE NumberBlock
  <2>1. publisher' \in PublisherType
    <3>1. audioSequence + 1 \in Nat
      BY <1>a
    <3>2. QED BY <1>2, <1>a, <1>b, <3>1, NumberedType DEF NumberBlock
  <2>2. QED BY <1>2, <2>1 DEF NumberBlock, TypeOK, ringVars, queueVars
<1>3. CASE QueueBlock
  <2>2. publisher' \in PublisherType
    BY <1>3, <1>c DEF QueueBlock
  <2>3. iqBlocks' \in Seq(Block)
    <3> DEFINE b == [seq |-> publisher.seq, born |-> publisher.born,
                     epoch |-> publisher.expected, floats |-> publisher.n]
               grown == Append(iqBlocks, b)
    <3>1. b \in Block
      <4>1. /\ publisher.seq \in Nat /\ publisher.born \in Nat
            /\ publisher.n \in Nat /\ publisher.expected \in Epochs \cup {0}
        BY <1>b DEF PublisherType
      <4>2. QED BY <4>1, Naturals DEF Block
    <3>2. grown \in Seq(Block) /\ Len(grown) \in Nat
      BY <3>1, <1>b
    <3>3. CASE PushAndTrim
      <4>1. PICK k \in 0 .. Len(grown) : iqBlocks' = SubSeq(grown, k + 1, Len(grown))
        BY <3>3 DEF PushAndTrim
      <4>2. QED BY <3>2, <4>1, SubSeqProperties
    <3>4. QED BY <1>3, <1>b, <3>3 DEF QueueBlock
  <2>4. QED BY <1>3, <2>2, <2>3 DEF QueueBlock, TypeOK, ringVars
<1>4. CASE FlushQueue
  <2>2. iqBlocks' \in Seq(Block)
    BY <1>4 DEF FlushQueue
  <2>3. QED BY <1>4, <1>c, <2>2 DEF FlushQueue, TypeOK, ringVars
<1>5. CASE AppendBlock
  <2>2. publisher.n \in Nat
    BY <1>b DEF PublisherType
  <2>3. CASE AppendToSnapshot(publisher.n) /\ totalFloats' = totalFloats + publisher.n
             /\ latestMetadata' = MetadataAfter(publisher.n)
    <3>1. latestMetadata' \in Metadata
      BY <2>2, <2>3, <1>a DEF MetadataAfter, Metadata
    <3>2. totalFloats' \in Nat
      BY <2>2, <2>3, <1>a
    <3>3. /\ iqSnapshot' \in [RingIndex -> Float]
          /\ snapshotStart' \in RingIndex
          /\ snapshotSize' \in 0 .. SnapshotFloats
      BY <2>2, <2>3, AppendType
    <3>4. QED BY <1>5, <1>c, <3>1, <3>2, <3>3 DEF AppendBlock, TypeOK, queueVars
  <2>4. CASE UNCHANGED ringVars
    BY <1>5, <1>c, <2>4 DEF AppendBlock, TypeOK, ringVars, queueVars
  <2>5. QED BY <1>5, <2>3, <2>4 DEF AppendBlock
<1>6. CASE PopBlock
  <2>1. Head(iqBlocks) \in Block /\ Tail(iqBlocks) \in Seq(Block)
    BY <1>6, HeadTailProperties DEF PopBlock, TypeOK
  <2>2. heard' \in [seq : Nat, born : Nat]
    BY <1>6, <2>1 DEF PopBlock, Block
  <2>3. QED BY <1>6, <2>1, <2>2 DEF PopBlock, TypeOK, ringVars
<1>7. ASSUME NEW limit \in QueueLimits, SetSampleRateEstimate(limit)
      PROVE  TypeOK'
  BY <1>7 DEF SetSampleRateEstimate, TypeOK, ringVars, queueVars
<1>8. ASSUME NEW e \in Epochs \cup {0}, Clear(e)
      PROVE  TypeOK'
  <2>1. iqBlocks' \in Seq(Block) /\ latestMetadata' \in Metadata
    BY <1>8 DEF Clear, NoMetadata, Metadata
  <2>2. snapshotStart' \in RingIndex /\ snapshotSize' \in 0 .. SnapshotFloats
    BY <1>8, BufferAssumption DEF Clear, RingIndex
  <2>3. iqEpoch' \in Epochs /\ resetGeneration' \in Nat /\ totalFloats' \in Nat
    BY <1>8 DEF Clear, TypeOK
  <2>4. QED BY <1>8, <2>1, <2>2, <2>3 DEF Clear, TypeOK
<1>9. ASSUME NEW r \in Readers, ReadStats(r)
      PROVE  TypeOK'
  <2>1. [NoSnap EXCEPT !.seen = totalFloats] \in SnapType
    BY NoSnapType, <1>a DEF SnapType
  <2>2. QED BY <1>9, <2>1 DEF ReadStats, TypeOK, ringVars, queueVars
<1>10. ASSUME NEW r \in Readers, NEW want \in Wants, NEW end \in 0 .. MaxTotal,
              BeginSnapshot(r, want, end)
       PROVE  TypeOK'
  <2>1. [NoSnap EXCEPT !.pc = "sizing", !.seen = snap[r].seen,
                       !.want = want, !.end = end] \in SnapType
    <3>1. snap[r].seen \in Nat
      BY DEF TypeOK, SnapType
    <3>2. end \in Nat
      BY BufferAssumption
    <3>3. QED BY NoSnapType, <3>1, <3>2 DEF SnapType
  <2>2. QED BY <1>10, <2>1 DEF BeginSnapshot, TypeOK, ringVars, queueVars
<1>11. ASSUME NEW r \in Readers, LockRing(r)
       PROVE  TypeOK'
  BY <1>11 DEF LockRing, TypeOK, ringVars, queueVars
<1>12. ASSUME NEW r \in Readers, NEW s \in SnapType, Unlock(r, s)
       PROVE  TypeOK'
  BY <1>12 DEF Unlock, TypeOK, ringVars, queueVars
<1>13. ASSUME NEW r \in Readers PROVE Failed(r) \in SnapType /\ snap[r] \in SnapType
  <2>1. snap[r] \in SnapType
    BY DEF TypeOK
  <2>2. QED BY <2>1, NoSnapType DEF Failed, SnapType
<1>14. ASSUME NEW r \in Readers, SizeSnapshot(r)
       PROVE  TypeOK'
  <2> DEFINE s         == snap[r]
             requested == IF s.end = 0 THEN totalFloats ELSE Least(s.end, totalFloats)
             before    == IF requested > RetainedStart THEN requested - RetainedStart ELSE 0
             allocated == WholePairs(Least(before, s.want))
  <2>1. s \in SnapType /\ s.end \in Nat /\ s.want \in Nat
    <3>1. s \in SnapType
      BY <1>13
    <3>2. s.end \in Nat /\ s.want \in Wants \cup {0}
      BY <3>1 DEF SnapType
    <3>3. QED BY <3>1, <3>2, Naturals
  <2>2. requested \in Nat /\ before \in Nat
    BY <2>1, <1>a DEF Least
  <2>3. Least(before, s.want) \in Nat
    BY <2>1, <2>2 DEF Least
  <2>4. allocated \in Nat
    BY <2>3 DEF WholePairs
  <2>5. [s EXCEPT !.pc = "allocated", !.requested = requested,
                  !.allocated = allocated] \in SnapType
    <3> HIDE DEF requested, allocated
    <3>1. QED BY <2>1, <2>2, <2>4 DEF SnapType
  <2>6. QED BY <1>12, <1>13, <1>14, <2>5 DEF SizeSnapshot
<1>15. ASSUME NEW r \in Readers, CopyFirstChunk(r)
       PROVE  TypeOK'
  <2> DEFINE s     == snap[r]
             count == WholePairs(Least(snapshotSize, Least(s.want, s.allocated)))
             end   == IF s.end = 0 THEN totalFloats ELSE s.requested
             start == end - count
             fixed == [s EXCEPT !.requested = 0, !.allocated = 0, !.count = count,
                                !.start = start, !.gen = resetGeneration,
                                !.meta = latestMetadata, !.out = <<>>]
             n     == Least(ChunkFloats, count)
  <2>1. s \in SnapType /\ s.want \in Nat /\ s.allocated \in Nat /\ s.requested \in Nat
    <3>1. s \in SnapType
      BY <1>13
    <3>2. s.allocated \in Nat /\ s.requested \in Nat /\ s.want \in Wants \cup {0}
      BY <3>1 DEF SnapType
    <3>3. QED BY <3>1, <3>2, Naturals
  <2>2. Least(snapshotSize, Least(s.want, s.allocated)) \in Nat
    BY <2>1, <1>a DEF Least
  <2>3. count \in Nat /\ end \in Nat /\ start \in Int
    <3> DEFINE least == Least(snapshotSize, Least(s.want, s.allocated))
    <3>1. count = WholePairs(least) /\ least \in Nat
      BY <2>2
    <3> HIDE DEF least
    <3>2. count \in Nat
      BY <3>1 DEF WholePairs
    <3>3. end \in Nat
      BY <2>1, <1>a
    <3> HIDE DEF count, end
    <3>4. QED BY <3>2, <3>3
  <2>4. n \in Nat /\ n <= count
    BY <2>3, BufferAssumption DEF Least
  <2>5. fixed \in SnapType
    <3>1. latestMetadata \in Metadata
      BY DEF TypeOK
    <3> HIDE DEF count, end, start, s
    <3>2. QED BY <2>1, <2>3, <3>1, <1>a, FixedType
  <2>6. CASE ~ (start < RetainedStart \/ end > totalFloats)
    <3>1. start >= RetainedStart /\ start + n <= totalFloats
      <4> HIDE DEF count, end, n
      <4>1. QED BY <2>1, <2>3, <2>4, <2>6, <1>a
    <3>2. ReadRing(start, n) \in Seq(Float)
      BY <2>3, <2>4, <3>1, ReadRingType
    <3>3. WithChunk(fixed, ReadRing(start, n)) \in SnapType
      BY <2>5, <3>2, ChunkType
    <3> HIDE DEF start, end, count, fixed, n
    <3>4. QED BY <1>12, <1>13, <1>15, <2>6, <3>3 DEF CopyFirstChunk, start, end, count, fixed, n
  <2>7. CASE start < RetainedStart \/ end > totalFloats
    BY <1>12, <1>13, <1>15, <2>7 DEF CopyFirstChunk
  <2>8. QED BY <2>6, <2>7
<1>16. ASSUME NEW r \in Readers, CopyNextChunk(r)
       PROVE  TypeOK'
  <2> DEFINE s     == snap[r]
             first == s.start + Len(s.out)
             n     == Least(ChunkFloats, s.count - Len(s.out))
  <2>1. s \in SnapType /\ s.pc = "copying" /\ s.start \in Int /\ Len(s.out) \in Nat
        /\ s.count \in Nat
    <3>1. s \in SnapType
      BY <1>13
    <3>2. s.pc = "copying"
      BY <1>16 DEF CopyNextChunk
    <3> HIDE DEF s
    <3>3. s.start \in Int /\ s.out \in Seq(Float) /\ s.count \in Nat
      BY <3>1 DEF SnapType
    <3>4. Len(s.out) \in Nat
      BY <3>3
    <3> QED
      BY <3>1, <3>2, <3>3, <3>4
  <2>2. Len(s.out) < s.count
    BY <2>1 DEF CopyInv
  <2>3. n \in Nat /\ first \in Int
    BY <2>1, <2>2, BufferAssumption DEF Least
  <2>4. CASE StillThere(s, first, n)
    <3>1. ReadRing(first, n) \in Seq(Float)
      BY <2>3, <2>4, ReadRingType DEF StillThere
    <3>2. WithChunk(s, ReadRing(first, n)) \in SnapType
      BY <2>1, <3>1, ChunkType
    <3>3. QED BY <1>12, <1>16, <2>4, <3>2 DEF CopyNextChunk
  <2>5. CASE ~ StillThere(s, first, n)
    BY <1>12, <1>13, <1>16, <2>5 DEF CopyNextChunk
  <2>6. QED BY <2>4, <2>5
<1>17. CASE UNCHANGED vars
  BY <1>17 DEF vars, TypeOK, ringVars, queueVars
<1>18. QED
  BY <1>1, <1>2, <1>3, <1>4, <1>5, <1>6, <1>7, <1>8, <1>9, <1>10, <1>11, <1>14,
     <1>15, <1>16, <1>17 DEF Next, PublisherStep, ReaderStep

-----------------------------------------------------------------------------
(* The ring *)

\* Reducing a sum in two steps is reducing it once.
LEMMA WrapTwice ==
  ASSUME NEW S \in RingIndex, NEW d \in Nat, NEW i \in Nat, d + i < SnapshotFloats
  PROVE  Wrap(Wrap(S + d) + i) = Wrap(S + (d + i)) /\ Wrap(S + d) \in RingIndex
BY Sizes DEF Wrap, RingIndex

\* Distance of the slot of float i from the slot of float kept, where the
\* next n floats are written: the old floats lie outside, the new ones inside.
LEMMA WriteOffset ==
  ASSUME NEW S \in RingIndex, NEW kept \in Nat, NEW n \in Nat,
         kept + n <= SnapshotFloats, NEW i \in Nat, i < kept + n
  PROVE  LET w == Wrap(S + kept)
             x == Wrap(S + i)
             offset == IF x >= w THEN x - w ELSE x + SnapshotFloats - w
         IN  /\ x \in RingIndex
             /\ i < kept => offset >= n
             /\ i >= kept => offset = i - kept
BY Sizes DEF Wrap, RingIndex

LEMMA AppendRing ==
  ASSUME TypeOK, RingInv, NEW n \in Nat, AppendToSnapshot(n),
         EpochAccepted(publisher.expected),
         totalFloats' = totalFloats + n, UNCHANGED <<resetGeneration, iqEpoch>>,
         latestMetadata' = MetadataAfter(n)
  PROVE  RingInv'
<1>1. MetadataInv'
  BY DEF MetadataInv, MetadataAfter
<1>2. /\ totalFloats \in Nat /\ snapshotSize \in Nat /\ snapshotStart \in RingIndex
      /\ snapshotSize <= SnapshotFloats /\ snapshotSize <= totalFloats
  BY Sizes DEF TypeOK, RingInv, RingHoldsTail
<1>3. ASSUME NEW q \in Nat
      PROVE  /\ Stored(q).gen = resetGeneration' /\ Stored(q).at = q
             /\ Stored(q).epoch \in {0, iqEpoch'}
  BY DEF Stored, EpochAccepted
<1>4. CASE n >= SnapshotFloats
  <2>1. /\ iqSnapshot' = [i \in RingIndex |-> Stored(totalFloats + n - SnapshotFloats + i)]
        /\ snapshotStart' = 0
        /\ snapshotSize' = SnapshotFloats
    BY <1>4 DEF AppendToSnapshot, Dropped
  <2>2. ASSUME NEW i \in 0 .. snapshotSize' - 1
        PROVE  /\ iqSnapshot'[Wrap(snapshotStart' + i)].gen = resetGeneration'
               /\ iqSnapshot'[Wrap(snapshotStart' + i)].at = RetainedStart' + i
               /\ iqSnapshot'[Wrap(snapshotStart' + i)].epoch \in {0, iqEpoch'}
    <3>1. i \in RingIndex /\ Wrap(snapshotStart' + i) = i
      BY <2>1, Sizes DEF Wrap, RingIndex
    <3>2. RetainedStart' + i = totalFloats + n - SnapshotFloats + i
      BY <1>2, <2>1, Sizes DEF RetainedStart
    <3>3. totalFloats + n - SnapshotFloats + i \in Nat
      BY <1>2, <1>4, <3>1, Sizes DEF RingIndex
    <3>4. QED BY <1>3, <2>1, <3>1, <3>2, <3>3
  <2>3. snapshotSize' <= totalFloats'
    BY <1>2, <1>4, <2>1, Sizes
  <2>4. QED BY <1>1, <2>2, <2>3 DEF RingInv, RingHoldsTail, RingOneEpoch
<1>5. CASE ~ (n >= SnapshotFloats)
  <2> DEFINE drop == IF snapshotSize + n > SnapshotFloats
                     THEN snapshotSize + n - SnapshotFloats ELSE 0
             kept == snapshotSize - drop
             start == Wrap(snapshotStart + drop)
             writePos == Wrap(start + kept)
             offset(i) == IF i >= writePos THEN i - writePos
                          ELSE i + SnapshotFloats - writePos
  <2>1. /\ iqSnapshot' = [i \in RingIndex |->
                             IF offset(i) < n THEN Stored(totalFloats + offset(i))
                             ELSE iqSnapshot[i]]
        /\ snapshotStart' = start
        /\ snapshotSize' = kept + n
    BY <1>5 DEF AppendToSnapshot, Dropped
  <2>2. /\ drop \in Nat /\ kept \in Nat /\ kept + n <= SnapshotFloats
        /\ drop + kept = snapshotSize /\ drop < SnapshotFloats
    BY <1>2, <1>5, Sizes
  <2>3. snapshotSize' <= totalFloats' /\ RetainedStart' = RetainedStart + drop
    BY <1>2, <2>1, <2>2 DEF RetainedStart
  <2>4. start \in RingIndex
    BY <1>2, <2>2, WrapTwice
  <2>5. ASSUME NEW i \in 0 .. snapshotSize' - 1
        PROVE  /\ iqSnapshot'[Wrap(snapshotStart' + i)].gen = resetGeneration'
               /\ iqSnapshot'[Wrap(snapshotStart' + i)].at = RetainedStart' + i
               /\ iqSnapshot'[Wrap(snapshotStart' + i)].epoch \in {0, iqEpoch'}
    <3> DEFINE x == Wrap(start + i)
    <3>1. i \in Nat /\ i < kept + n
      BY <2>1, <2>2
    <3>2. /\ x \in RingIndex
          /\ i < kept => offset(x) >= n
          /\ i >= kept => offset(x) = i - kept
      <4> HIDE DEF drop, kept, start
      <4>1. QED BY <2>2, <2>4, <3>1, WriteOffset
    <3>3. iqSnapshot'[x] = IF offset(x) < n THEN Stored(totalFloats + offset(x))
                           ELSE iqSnapshot[x]
      BY <2>1, <3>2
    <3>4. CASE i < kept
      <4>1. x = Wrap(snapshotStart + (drop + i))
        <5>1. drop + i < SnapshotFloats
          <6> HIDE DEF drop, kept
          <6>1. QED BY <1>2, <2>2, <3>1, <3>4, Sizes
        <5>2. drop \in Nat /\ i \in Nat
          BY <2>2, <3>1
        <5> HIDE DEF drop
        <5>3. QED BY <1>2, <5>1, <5>2, WrapTwice
      <4>2. drop + i \in 0 .. snapshotSize - 1
        BY <1>2, <2>2, <3>1, <3>4
      <4>3. iqSnapshot'[x] = iqSnapshot[x]
        <5>1. offset(x) \in Int /\ ~ (offset(x) < n)
          BY <2>2, <2>4, <3>2, <3>4, Sizes DEF RingIndex, Wrap
        <5> HIDE DEF x, offset
        <5>2. QED BY <3>3, <5>1
      <4>4. /\ iqSnapshot[x].gen = resetGeneration
            /\ iqSnapshot[x].at = RetainedStart + (drop + i)
            /\ iqSnapshot[x].epoch \in {0, iqEpoch}
        BY <4>1, <4>2 DEF RingInv, RingHoldsTail, RingOneEpoch
      <4>5. RetainedStart + (drop + i) = RetainedStart' + i
        BY <1>2, <2>2, <2>3, <3>1 DEF RetainedStart
      <4> HIDE DEF x, start
      <4>6. QED BY <2>1, <4>3, <4>4, <4>5 DEF x
    <3>5. CASE ~ (i < kept)
      <4>1. offset(x) = i - kept /\ i - kept < n /\ i - kept \in Nat
        <5> HIDE DEF x, offset, kept
        <5>1. QED BY <2>2, <3>1, <3>2, <3>5
      <4>2. totalFloats + offset(x) = RetainedStart' + i
        <5> HIDE DEF x, offset
        <5>1. QED BY <1>2, <2>2, <2>3, <3>1, <4>1 DEF RetainedStart
      <4>3. totalFloats + offset(x) \in Nat
        <5> HIDE DEF x, offset
        <5>1. QED BY <1>2, <4>1
      <4>4. iqSnapshot'[x] = Stored(totalFloats + offset(x))
        <5> HIDE DEF x, offset
        <5>1. QED BY <2>2, <3>3, <4>1
      <4> HIDE DEF x, offset, start
      <4>5. QED BY <1>3, <2>1, <4>2, <4>3, <4>4 DEF x
    <3>6. QED BY <3>4, <3>5
  <2>6. QED BY <1>1, <2>3, <2>5 DEF RingInv, RingHoldsTail, RingOneEpoch
<1>6. QED BY <1>4, <1>5

\* Steps that leave ring, generation and epoch alone.
LEMMA RingSame ==
  ASSUME RingInv, UNCHANGED <<iqEpoch, resetGeneration, ringVars>>
  PROVE  RingInv'
BY DEF RingInv, RingHoldsTail, RingOneEpoch, MetadataInv, RetainedStart, ringVars

LEMMA RingStep == TypeOK /\ RingInv /\ [Next]_vars => RingInv'
<1> SUFFICES ASSUME TypeOK, RingInv, [Next]_vars PROVE RingInv'
  OBVIOUS
<1>1. CASE AppendBlock
  <2>1. publisher.n \in Nat
    BY DEF TypeOK, PublisherType
  <2>2. QED BY <1>1, <2>1, AppendRing, RingSame DEF AppendBlock
<1>2. ASSUME NEW e \in Epochs \cup {0}, Clear(e) PROVE RingInv'
  <2>1. snapshotSize' = 0 /\ totalFloats' = 0
    BY <1>2 DEF Clear
  <2>2. QED BY <2>1 DEF RingInv, RingHoldsTail, RingOneEpoch, MetadataInv
<1>3. ASSUME UNCHANGED <<iqEpoch, resetGeneration, ringVars>> PROVE RingInv'
  BY <1>3, RingSame
<1>4. ASSUME NEW r \in Readers, ReaderStep(r) PROVE RingInv'
  BY <1>4, <1>3 DEF ReaderStep, LockRing, SizeSnapshot, CopyFirstChunk, CopyNextChunk, Unlock
<1>5. QED
  BY <1>1, <1>2, <1>3, <1>4 DEF Next, PublisherStep, BeginPublish, NumberBlock,
     QueueBlock, FlushQueue, PopBlock, SetSampleRateEstimate, ReadStats,
     BeginSnapshot, vars

-----------------------------------------------------------------------------
(* The queue *)

LEMMA QueueStep == TypeOK /\ QueueOneEpoch /\ [Next]_vars => QueueOneEpoch'
<1> SUFFICES ASSUME TypeOK, QueueOneEpoch, [Next]_vars PROVE QueueOneEpoch'
  OBVIOUS
<1>0. iqBlocks \in Seq(Block)
  BY DEF TypeOK
<1>1. CASE QueueBlock /\ PushAndTrim /\ EpochAccepted(publisher.expected)
  <2> DEFINE b == [seq |-> publisher.seq, born |-> publisher.born,
                   epoch |-> publisher.expected, floats |-> publisher.n]
             grown == Append(iqBlocks, b)
  <2>0. b \in Block
    <3>1. /\ publisher.seq \in Nat /\ publisher.born \in Nat
          /\ publisher.n \in Nat /\ publisher.expected \in Epochs \cup {0}
      BY DEF TypeOK, PublisherType
    <3>2. QED BY <3>1, Naturals DEF Block
  <2>1. /\ grown \in Seq(Block) /\ Len(grown) = Len(iqBlocks) + 1
        /\ Len(iqBlocks) \in Nat
        /\ \A i \in 1 .. Len(iqBlocks) : grown[i] = iqBlocks[i]
        /\ grown[Len(iqBlocks) + 1] = b
    <3> HIDE DEF b
    <3>1. QED BY <1>0, <2>0, AppendProperties
  <2>2. ASSUME NEW i \in 1 .. Len(grown) PROVE grown[i].epoch \in {0, iqEpoch}
    <3>1. CASE i = Len(iqBlocks) + 1
      BY <1>1, <2>1, <3>1 DEF EpochAccepted
    <3>2. CASE i \in 1 .. Len(iqBlocks)
      BY <1>0, <2>1, <3>2 DEF QueueOneEpoch
    <3> HIDE DEF grown
    <3>3. QED BY <2>1, <3>1, <3>2
  <2>3. PICK k \in 0 .. Len(grown) : iqBlocks' = SubSeq(grown, k + 1, Len(grown))
    BY <1>1 DEF PushAndTrim
  <2>4. iqEpoch' = iqEpoch
    BY <1>1 DEF QueueBlock
  <2> HIDE DEF grown, b
  <2>5. ASSUME NEW i \in DOMAIN iqBlocks' PROVE iqBlocks'[i].epoch \in {0, iqEpoch}
    <3>1. k \in Nat /\ Len(grown) \in Nat
      BY <2>1
    <3>2. CASE k = Len(grown)
      <4>1. iqBlocks' = <<>>
        BY <2>1, <2>3, <3>1, <3>2, SubSeqEmpty
      <4>2. QED BY <4>1
    <3>3. CASE k < Len(grown)
      <4>1. /\ Len(iqBlocks') = Len(grown) - k
            /\ iqBlocks' \in Seq(Block)
            /\ \A j \in 1 .. Len(grown) - k : iqBlocks'[j] = grown[k + j]
        BY <2>1, <2>3, <3>1, <3>3, SubSeqProperties
      <4>2. i \in 1 .. Len(grown) - k
        BY <4>1
      <4>3. k + i \in 1 .. Len(grown)
        BY <3>1, <4>2
      <4>4. QED BY <2>2, <4>1, <4>2, <4>3
    <3>4. QED BY <2>3, <3>1, <3>2, <3>3
  <2>6. QED BY <2>4, <2>5 DEF QueueOneEpoch
<1>2. CASE PopBlock
  <2>1. /\ Len(Tail(iqBlocks)) = Len(iqBlocks) - 1 /\ Tail(iqBlocks) \in Seq(Block)
        /\ \A i \in 1 .. Len(Tail(iqBlocks)) : Tail(iqBlocks)[i] = iqBlocks[i + 1]
        /\ Len(iqBlocks) \in Nat
    BY <1>0, <1>2, HeadTailProperties DEF PopBlock
  <2>2. ASSUME NEW i \in DOMAIN Tail(iqBlocks)
        PROVE  Tail(iqBlocks)[i].epoch \in {0, iqEpoch}
    <3>1. i \in 1 .. Len(Tail(iqBlocks)) /\ i + 1 \in DOMAIN iqBlocks
      BY <1>0, <2>1
    <3>2. QED BY <2>1, <3>1 DEF QueueOneEpoch
  <2>3. QED BY <1>2, <2>2 DEF PopBlock, QueueOneEpoch
<1>3. ASSUME iqBlocks' = <<>> PROVE QueueOneEpoch'
  BY <1>3 DEF QueueOneEpoch
<1>4. ASSUME UNCHANGED <<iqEpoch, iqBlocks>> PROVE QueueOneEpoch'
  BY <1>4 DEF QueueOneEpoch
<1>5. ASSUME NEW r \in Readers, ReaderStep(r) PROVE QueueOneEpoch'
  BY <1>5, <1>4 DEF ReaderStep, LockRing, SizeSnapshot, CopyFirstChunk, CopyNextChunk,
     Unlock, queueVars
<1>6. CASE QueueBlock
  BY <1>1, <1>4, <1>6 DEF QueueBlock
<1>7. QED
  BY <1>2, <1>3, <1>4, <1>5, <1>6 DEF Next, PublisherStep, BeginPublish, NumberBlock,
     FlushQueue, AppendBlock, SetSampleRateEstimate, Clear, ReadStats,
     BeginSnapshot, vars, queueVars

-----------------------------------------------------------------------------
(* The copies *)

\* CopyInv for one reader.
Copied(s) ==
  /\ s.pc = "copying" => Len(s.out) < s.count
  /\ s.pc = "done" => Len(s.out) = s.count
  /\ s.pc \in {"copying", "done"} =>
       \A k \in 1 .. Len(s.out) : /\ s.out[k].gen = s.gen
                                  /\ s.out[k].at = s.start + k - 1
                                  /\ s.out[k].epoch \in {0, s.meta.epoch}
  /\ s.pc = "copying" => /\ s.gen <= resetGeneration
                         /\ s.gen = resetGeneration => s.meta.epoch = iqEpoch

LEMMA CopyInvIsCopied == CopyInv <=> \A r \in Readers : Copied(snap[r])
BY DEF CopyInv, Copied

\* A chunk read from the ring continues the copy it is appended to.
LEMMA ChunkCopied ==
  ASSUME TypeOK, RingInv, NEW s \in SnapType, s.count > 0,
         NEW first \in Int, NEW n \in Nat,
         first = s.start + Len(s.out), Len(s.out) + n <= s.count,
         first >= RetainedStart, first + n <= totalFloats,
         s.gen = resetGeneration, s.meta.epoch = iqEpoch,
         \A k \in 1 .. Len(s.out) : /\ s.out[k].gen = s.gen
                                    /\ s.out[k].at = s.start + k - 1
                                    /\ s.out[k].epoch \in {0, s.meta.epoch}
  PROVE  Copied(WithChunk(s, ReadRing(first, n)))
<1> DEFINE chunk == ReadRing(first, n)
           t == [s EXCEPT !.pc = "copying", !.out = s.out \o chunk]
<1>1. /\ chunk \in Seq(Float) /\ Len(chunk) = n
      /\ \A k \in 1 .. n : chunk[k] = iqSnapshot[Wrap(snapshotStart + (first - RetainedStart) + k - 1)]
  BY ReadRingType
<1>2. /\ s.out \in Seq(Float) /\ Len(s.out) \in Nat /\ s.count \in Nat /\ s.start \in Int
      /\ s.gen \in Nat
  BY DEF SnapType
<1>3. /\ totalFloats \in Nat /\ snapshotSize \in Nat /\ snapshotStart \in Nat
      /\ RetainedStart = totalFloats - snapshotSize
  BY Sizes DEF TypeOK, RetainedStart, RingIndex
<1>4. ASSUME NEW k \in 1 .. n
      PROVE  /\ chunk[k].gen = s.gen
             /\ chunk[k].at = first + k - 1
             /\ chunk[k].epoch \in {0, s.meta.epoch}
  <2> DEFINE i == (first - RetainedStart) + k - 1
  <2>1. i \in 0 .. snapshotSize - 1
    BY <1>3
  <2>2. snapshotStart + (first - RetainedStart) + k - 1 = snapshotStart + i
    BY <1>3
  <2>3. RetainedStart + i = first + k - 1
    BY <1>3
  <2>4. chunk[k] = iqSnapshot[Wrap(snapshotStart + i)]
    <3> HIDE DEF chunk, i
    <3>1. QED BY <1>1, <2>2
  <2> HIDE DEF chunk, i
  <2>5. QED BY <2>1, <2>3, <2>4 DEF RingInv, RingHoldsTail, RingOneEpoch
<1> HIDE DEF chunk
<1>5. /\ t.out \in Seq(Float) /\ Len(t.out) = Len(s.out) + n
      /\ t.pc = "copying" /\ t.gen = s.gen /\ t.start = s.start
      /\ t.count = s.count /\ t.meta = s.meta /\ t.end = s.end
      /\ \A k \in 1 .. Len(s.out) + n :
           t.out[k] = IF k <= Len(s.out) THEN s.out[k] ELSE chunk[k - Len(s.out)]
  <2>1. /\ s.out \o chunk \in Seq(Float) /\ Len(s.out \o chunk) = Len(s.out) + n
        /\ \A k \in 1 .. Len(s.out) + n :
             (s.out \o chunk)[k] = IF k <= Len(s.out) THEN s.out[k] ELSE chunk[k - Len(s.out)]
    <3> DEFINE done == s.out
    <3>1. done \in Seq(Float) /\ chunk \in Seq(Float) /\ Len(chunk) = n
      BY <1>1, <1>2
    <3> HIDE DEF done
    <3>2. done \o chunk \in Seq(Float) /\ Len(done \o chunk) = Len(done) + n
      BY <3>1
    <3>3. \A k \in 1 .. Len(done) + n :
            (done \o chunk)[k] = IF k <= Len(done) THEN done[k] ELSE chunk[k - Len(done)]
      BY <3>1
    <3>4. QED BY <3>2, <3>3 DEF done
  <2>2. /\ t.out = s.out \o chunk
        /\ t.pc = "copying" /\ t.gen = s.gen /\ t.start = s.start
        /\ t.count = s.count /\ t.meta = s.meta /\ t.end = s.end
    BY DEF SnapType
  <2>3. QED BY <2>1, <2>2
<1>6. ASSUME NEW k \in 1 .. Len(t.out)
      PROVE  /\ t.out[k].gen = s.gen
             /\ t.out[k].at = s.start + k - 1
             /\ t.out[k].epoch \in {0, s.meta.epoch}
  <2>0. k \in 1 .. Len(s.out) + n
    BY <1>5
  <2>1. CASE k <= Len(s.out)
    <3>1. k \in 1 .. Len(s.out) /\ t.out[k] = s.out[k]
      BY <1>2, <1>5, <2>0, <2>1
    <3> HIDE DEF t
    <3>2. QED BY <3>1
  <2>2. CASE k > Len(s.out)
    <3> HIDE DEF t
    <3>1. k - Len(s.out) \in 1 .. n
      BY <1>2, <2>0, <2>2
    <3>2. first + (k - Len(s.out)) - 1 = s.start + k - 1
      BY <1>2, <2>0
    <3>4. t.out[k] = chunk[k - Len(s.out)]
      BY <1>2, <1>5, <2>0, <2>2
    <3>5. QED BY <1>4, <3>1, <3>2, <3>4
  <2>3. QED BY <1>2, <2>0, <2>1, <2>2
<1> HIDE DEF t
<1>7. CASE Len(t.out) = t.count
  <2>1. /\ Finished(t).pc = "done" /\ Finished(t).out = t.out
        /\ Finished(t).count = t.count /\ Finished(t).gen = t.gen
        /\ Finished(t).start = t.start /\ Finished(t).meta.epoch = t.meta.epoch
    <3>1. s.out \o chunk \in Seq(Float)
      BY <1>1, <1>2, ConcatProperties
    <3>2. t \in SnapType
      BY <3>1 DEF SnapType, t
    <3>3. t.meta \in Metadata
      BY <3>2 DEF SnapType
    <3>4. QED BY <3>2, <3>3 DEF Finished, SnapType, Metadata
  <2>2. WithChunk(s, chunk) = Finished(t)
    BY <1>7 DEF WithChunk, t
  <2> DEFINE f == Finished(t)
  <2> HIDE DEF f
  <2>3. /\ f.pc = "done" /\ Len(f.out) = f.count
        /\ \A k \in 1 .. Len(f.out) : /\ f.out[k].gen = f.gen
                                      /\ f.out[k].at = f.start + k - 1
                                      /\ f.out[k].epoch \in {0, f.meta.epoch}
    BY <1>5, <1>6, <1>7, <2>1 DEF f
  <2>4. Copied(f)
    BY <2>3 DEF Copied
  <2>5. QED BY <2>2, <2>4 DEF f, chunk
<1>8. CASE Len(t.out) # t.count
  <2>1. WithChunk(s, chunk) = t
    BY <1>8 DEF WithChunk, t
  <2>2. Len(t.out) < t.count
    BY <1>2, <1>5, <1>8
  <2>3. t.gen <= resetGeneration
    BY <1>2, <1>5
  <2>4. QED BY <1>5, <1>6, <2>1, <2>2, <2>3 DEF Copied, chunk
<1>9. QED BY <1>7, <1>8

LEMMA CopyStep == TypeOK /\ RingInv /\ CopyInv /\ [Next]_vars => CopyInv'
<1> SUFFICES ASSUME TypeOK, RingInv, CopyInv, [Next]_vars PROVE CopyInv'
  OBVIOUS
<1>1. \A r \in Readers : Copied(snap[r]) /\ snap[r] \in SnapType
  BY CopyInvIsCopied DEF TypeOK
<1>2. ASSUME UNCHANGED <<iqEpoch, resetGeneration, snap>> PROVE CopyInv'
  BY <1>2 DEF CopyInv
<1>3. ASSUME NEW e \in Epochs \cup {0}, Clear(e) PROVE CopyInv'
  <2>1. snap' = snap /\ resetGeneration' = resetGeneration + 1 /\ resetGeneration \in Nat
    BY <1>3 DEF Clear, TypeOK
  <2>2. ASSUME NEW r \in Readers PROVE Copied(snap[r])'
    <3>1. snap[r].gen \in Nat
      BY <1>1 DEF SnapType
    <3>2. CASE snap[r].pc = "copying"
      <4>1. snap[r].gen <= resetGeneration
        BY <1>1, <3>2 DEF Copied
      <4>2. snap[r].gen < resetGeneration'
        BY <2>1, <3>1, <4>1
      <4>3. snap[r].gen <= resetGeneration' /\ snap[r].gen # resetGeneration'
        BY <2>1, <3>1, <4>2
      <4>4. QED BY <1>1, <2>1, <4>3 DEF Copied
    <3>3. CASE snap[r].pc # "copying"
      BY <1>1, <2>1, <3>3 DEF Copied
    <3>4. QED BY <3>2, <3>3
  <2>3. QED BY <2>2 DEF CopyInv, Copied
<1>4. ASSUME NEW r \in Readers, NEW s, Copied(s),
             snap' = [snap EXCEPT ![r] = s], UNCHANGED <<iqEpoch, resetGeneration>>
      PROVE  CopyInv'
  <2>1. ASSUME NEW q \in Readers PROVE Copied(snap'[q])
    <3>1. snap'[q] = IF q = r THEN s ELSE snap[q]
      BY <1>4 DEF TypeOK
    <3>2. QED BY <1>1, <1>4, <3>1
  <2>2. QED BY <1>4, <2>1 DEF CopyInv, Copied
<1>5. ASSUME NEW s, s.pc \notin {"copying", "done"} PROVE Copied(s)
  BY <1>5 DEF Copied
<1>6. ASSUME NEW r \in Readers PROVE Copied(Failed(r))
  <2>1. Failed(r).pc = "failed"
    BY DEF Failed, NoSnap
  <2>2. QED BY <1>5, <2>1
<1>7. ASSUME NEW r \in Readers, ReadStats(r) PROVE CopyInv'
  <2>1. Copied([NoSnap EXCEPT !.seen = totalFloats])
    BY <1>5 DEF NoSnap
  <2>2. QED BY <1>4, <1>7, <2>1 DEF ReadStats
<1>8. ASSUME NEW r \in Readers, NEW want \in Wants, NEW end \in 0 .. MaxTotal,
             BeginSnapshot(r, want, end) PROVE CopyInv'
  <2>1. Copied([NoSnap EXCEPT !.pc = "sizing", !.seen = snap[r].seen,
                              !.want = want, !.end = end])
    BY <1>5 DEF NoSnap
  <2>2. QED BY <1>4, <1>8, <2>1 DEF BeginSnapshot
<1>9. ASSUME NEW r \in Readers, NEW s, Copied(s), Unlock(r, s) PROVE CopyInv'
  BY <1>4, <1>9 DEF Unlock
<1>10. ASSUME NEW r \in Readers, SizeSnapshot(r) PROVE CopyInv'
  <2>1. ASSUME NEW requested, NEW allocated
        PROVE  Copied([snap[r] EXCEPT !.pc = "allocated", !.requested = requested,
                                      !.allocated = allocated])
    <3>1. [snap[r] EXCEPT !.pc = "allocated", !.requested = requested,
                          !.allocated = allocated].pc = "allocated"
      BY <1>1 DEF SnapType
    <3>2. QED BY <1>5, <3>1
  <2>2. QED BY <1>6, <1>9, <1>10, <2>1 DEF SizeSnapshot
<1>11. ASSUME NEW r \in Readers, CopyFirstChunk(r) PROVE CopyInv'
  <2> DEFINE s     == snap[r]
             least == Least(snapshotSize, Least(s.want, s.allocated))
             count == WholePairs(least)
             end   == IF s.end = 0 THEN totalFloats ELSE s.requested
             start == end - count
             fixed == [s EXCEPT !.requested = 0, !.allocated = 0, !.count = count,
                                !.start = start, !.gen = resetGeneration,
                                !.meta = latestMetadata, !.out = <<>>]
             n     == Least(ChunkFloats, count)
  <2>1. CASE count = 0 \/ start < RetainedStart \/ end > totalFloats
    BY <1>6, <1>9, <1>11, <2>1 DEF CopyFirstChunk
  <2>2. CASE ~ (count = 0 \/ start < RetainedStart \/ end > totalFloats)
    <3>1. /\ s \in SnapType /\ s.pc = "allocated" /\ s.want \in Nat /\ s.allocated \in Nat
          /\ s.requested \in Nat
      <4>1. s \in SnapType /\ s.pc = "allocated"
        BY <1>1, <1>11 DEF CopyFirstChunk
      <4>2. s.allocated \in Nat /\ s.requested \in Nat /\ s.want \in Wants \cup {0}
        BY <4>1 DEF SnapType
      <4>3. QED BY <4>1, <4>2, Naturals
    <3>2. /\ totalFloats \in Nat /\ snapshotSize \in Nat /\ RetainedStart \in Int
          /\ resetGeneration \in Nat /\ latestMetadata \in Metadata
      BY Sizes DEF TypeOK, RetainedStart
    <3>3. least \in Nat /\ least <= snapshotSize
      BY <3>1, <3>2 DEF Least
    <3>4. count \in Nat /\ count <= snapshotSize
      <4> HIDE DEF least
      <4>1. QED BY <3>2, <3>3 DEF WholePairs
    <3>5. end \in Nat
      BY <3>1, <3>2
    <3> HIDE DEF least, count, end
    <3>6. start \in Int /\ count > 0 /\ n \in Nat /\ n <= count
      BY <2>2, <3>4, <3>5, Sizes DEF Least
    <3>7. start >= RetainedStart /\ start + n <= totalFloats
      <4> HIDE DEF n
      <4>1. QED BY <2>2, <3>2, <3>4, <3>5, <3>6
    <3>8. fixed \in SnapType
      <4> HIDE DEF start, s
      <4>1. QED BY <3>1, <3>2, <3>4, <3>6, FixedType
    <3>9. /\ fixed.out = <<>> /\ fixed.count = count /\ fixed.start = start
          /\ fixed.gen = resetGeneration /\ fixed.meta = latestMetadata
      <4> HIDE DEF start, s, n
      <4>1. QED BY <3>1 DEF SnapType
    <3>10. latestMetadata.epoch = iqEpoch
      <4>1. snapshotSize > 0
        BY <3>2, <3>4, <3>6
      <4>2. QED BY <4>1 DEF RingInv, MetadataInv
    <3> HIDE DEF start, fixed, n, s
    <3>11. Copied(WithChunk(fixed, ReadRing(start, n)))
      <4>1. /\ fixed.count > 0 /\ start = fixed.start + Len(fixed.out)
            /\ Len(fixed.out) + n <= fixed.count /\ Len(fixed.out) = 0
        BY <3>6, <3>9
      <4>2. fixed.gen = resetGeneration /\ fixed.meta.epoch = iqEpoch
        BY <3>9, <3>10
      <4>3. \A k \in 1 .. Len(fixed.out) : FALSE
        BY <4>1
      <4>4. QED BY <3>6, <3>7, <3>8, <4>1, <4>2, <4>3, ChunkCopied
    <3>12. QED
      BY <1>9, <1>11, <2>2, <3>11 DEF CopyFirstChunk, s, least, count, end, start, fixed, n
  <2>3. QED BY <2>1, <2>2
<1>12. ASSUME NEW r \in Readers, CopyNextChunk(r) PROVE CopyInv'
  <2> DEFINE s     == snap[r]
             first == s.start + Len(s.out)
             n     == Least(ChunkFloats, s.count - Len(s.out))
  <2>1. CASE ~ StillThere(s, first, n)
    BY <1>6, <1>9, <1>12, <2>1 DEF CopyNextChunk
  <2>2. CASE StillThere(s, first, n)
    <3>1. /\ s \in SnapType /\ s.pc = "copying" /\ s.start \in Int /\ s.count \in Nat
          /\ Len(s.out) \in Nat
      BY <1>1, <1>12 DEF CopyNextChunk, SnapType
    <3>2. /\ Len(s.out) < s.count /\ s.gen = resetGeneration /\ s.meta.epoch = iqEpoch
          /\ \A k \in 1 .. Len(s.out) : /\ s.out[k].gen = s.gen
                                         /\ s.out[k].at = s.start + k - 1
                                         /\ s.out[k].epoch \in {0, s.meta.epoch}
      <4>1. Copied(s) /\ s.gen = resetGeneration
        BY <1>1, <2>2 DEF StillThere
      <4> HIDE DEF s, n, first
      <4>2. QED BY <3>1, <4>1 DEF Copied
    <3>3. n \in Nat /\ Len(s.out) + n <= s.count /\ first \in Int /\ s.count > 0
      <4>1. Len(s.out) < s.count /\ s.start \in Int /\ s.count \in Nat /\ Len(s.out) \in Nat
        BY <3>1, <3>2
      <4> HIDE DEF s
      <4>2. QED BY <4>1, Sizes DEF Least
    <3>4. first >= RetainedStart /\ first + n <= totalFloats
      BY <2>2 DEF StillThere
    <3>5. Copied(WithChunk(s, ReadRing(first, n)))
      <4> HIDE DEF n, s
      <4>1. QED BY <3>1, <3>2, <3>3, <3>4, ChunkCopied
    <3>6. QED BY <1>9, <1>12, <2>2, <3>5 DEF CopyNextChunk
  <2>3. QED BY <2>1, <2>2
<1>13. ASSUME NEW r \in Readers, LockRing(r) PROVE CopyInv'
  BY <1>2, <1>13 DEF LockRing
<1>14. QED
  BY <1>2, <1>3, <1>7, <1>8, <1>10, <1>11, <1>12, <1>13 DEF Next, PublisherStep,
     BeginPublish, NumberBlock, QueueBlock, FlushQueue, AppendBlock, PopBlock,
     SetSampleRateEstimate, ReaderStep, vars

-----------------------------------------------------------------------------
(* The theorems *)

\* The inductive invariant: the properties below and what they rest on.
IInv == TypeOK /\ RingInv /\ QueueOneEpoch /\ CopyInv

THEOREM Invariance == Spec => []IInv
<1>1. Init => IInv
  <2> SUFFICES ASSUME Init PROVE IInv
    OBVIOUS
  <2>1. TypeOK
    BY TypeInit
  <2>2. snapshotSize = 0 /\ totalFloats = 0 /\ iqBlocks = <<>>
    BY DEF Init
  <2>3. RingInv
    BY <2>2 DEF RingInv, RingHoldsTail, RingOneEpoch, MetadataInv
  <2>4. QueueOneEpoch
    BY <2>2 DEF QueueOneEpoch
  <2>5. CopyInv
    BY DEF Init, NoSnap, CopyInv
  <2>6. QED BY <2>1, <2>3, <2>4, <2>5 DEF IInv
<1>2. IInv /\ [Next]_vars => IInv'
  BY TypeStep, RingStep, QueueStep, CopyStep DEF IInv
<1>3. QED BY <1>1, <1>2, PTL DEF Spec

\* Every state of the buffer is well typed, for every size of ring and queue.
THEOREM TypeCorrect == Spec => []TypeOK
<1>1. IInv => TypeOK
  BY DEF IInv
<1>2. QED BY <1>1, Invariance, PTL

\* The ring always holds the newest floats since the last clear(), in order,
\* wherever the write position has wrapped (appendToSnapshot, clear).
THEOREM RingCorrect == Spec => []RingHoldsTail
<1>1. IInv => RingHoldsTail
  BY DEF IInv, RingInv
<1>2. QED BY <1>1, Invariance, PTL

\* No float of an earlier tuning is ever in the ring: publish() checks its
\* epoch under the mutex under which clear() changes it.
THEOREM RingEpochCorrect == Spec => []RingOneEpoch
<1>1. IInv => RingOneEpoch
  BY DEF IInv, RingInv
<1>2. QED BY <1>1, Invariance, PTL

\* The audio thread never pops a block published for another epoch.
THEOREM QueueEpochCorrect == Spec => []QueueOneEpoch
<1>1. IInv => QueueOneEpoch
  BY DEF IInv
<1>2. QED BY <1>1, Invariance, PTL

\* A snapshot that copySnapshotTail() returns is one gap-free run of floats of
\* one generation, in however many chunks it was copied.
THEOREM SnapshotCorrect == Spec => []SnapshotContiguous
<1>1. IInv => SnapshotContiguous
  BY DEF IInv, CopyInv, SnapshotContiguous
<1>2. QED BY <1>1, Invariance, PTL

\* All floats of a snapshot are of the epoch its metadata names, whatever
\* clear() calls came between its chunks.
THEOREM SnapshotEpochCorrect == Spec => []SnapshotOneEpoch
<1>1. IInv => SnapshotOneEpoch
  BY DEF IInv, CopyInv, SnapshotOneEpoch
<1>2. QED BY <1>1, Invariance, PTL

-----------------------------------------------------------------------------
(* The refinement *)

\* Appending a block and dropping the k oldest is dropping them first.
LEMMA TrimAppend ==
  ASSUME NEW q \in Seq(Block), NEW b \in Block, NEW k \in 0 .. Len(q)
  PROVE  LET t == SubSeq(Append(q, b), k + 1, Len(Append(q, b)))
         IN  /\ t # <<>> /\ t[Len(t)] = b
             /\ t = Append(SubSeq(q, k + 1, Len(q)), b)
<1> DEFINE g == Append(q, b)
           t == SubSeq(g, k + 1, Len(g))
           h == SubSeq(q, k + 1, Len(q))
<1>0. Len(q) \in Nat
  OBVIOUS
<1>1. /\ g \in Seq(Block) /\ Len(g) = Len(q) + 1
      /\ \A i \in 1 .. Len(q) : g[i] = q[i]
      /\ g[Len(q) + 1] = b
  BY AppendProperties
<1> HIDE DEF g
<1>2. /\ t \in Seq(Block) /\ Len(t) = Len(q) + 1 - k
      /\ \A i \in 1 .. Len(q) + 1 - k : t[i] = g[k + i]
  BY <1>0, <1>1, SubSeqProperties
<1>3. h \in Seq(Block) /\ Len(h) = Len(q) - k /\ \A i \in 1 .. Len(q) - k : h[i] = q[k + i]
  <2>1. CASE k = Len(q)
    BY <1>0, <2>1, SubSeqEmpty
  <2>2. CASE k < Len(q)
    BY <1>0, <2>2, SubSeqProperties
  <2>3. QED BY <1>0, <2>1, <2>2
<1> HIDE DEF t, h
<1> DEFINE e == Append(h, b)
<1>4. /\ e \in Seq(Block) /\ Len(e) = Len(q) - k + 1
      /\ \A i \in 1 .. Len(q) - k : e[i] = h[i]
      /\ e[Len(q) - k + 1] = b
  BY <1>3, AppendProperties
<1> HIDE DEF e
<1>5. ASSUME NEW i \in 1 .. Len(q) + 1 - k PROVE t[i] = e[i]
  <2>1. t[i] = g[k + i]
    BY <1>2
  <2>2. CASE i = Len(q) - k + 1
    <3>1. k + i = Len(q) + 1
      BY <1>0, <2>2
    <3>2. QED BY <1>1, <1>4, <2>1, <2>2, <3>1
  <2>3. CASE i \in 1 .. Len(q) - k
    <3>1. k + i \in 1 .. Len(q)
      BY <1>0, <2>3
    <3>2. QED BY <1>1, <1>3, <1>4, <2>1, <2>3, <3>1
  <2>4. i = Len(q) - k + 1 \/ i \in 1 .. Len(q) - k
    BY <1>0
  <2>5. QED BY <2>2, <2>3, <2>4
<1>6. t = e
  <2>1. Len(t) = Len(e) /\ \A i \in 1 .. Len(t) : t[i] = e[i]
    BY <1>0, <1>2, <1>4, <1>5
  <2>2. QED BY <1>2, <1>4, <2>1, SeqEqual
<1>7. t # <<>> /\ t[Len(t)] = b
  <2>1. Len(t) # 0 /\ Len(t) = Len(q) - k + 1
    BY <1>0, <1>2
  <2>2. t[Len(t)] = b
    BY <1>4, <1>6, <2>1
  <2>3. QED BY <2>1, <2>2
<1>8. QED BY <1>6, <1>7 DEF g, t, h, e

\* What a copy keeps when a chunk is added.
LEMMA ChunkKeeps ==
  ASSUME NEW s \in SnapType, NEW chunk \in Seq(Float)
  PROVE  LET t == WithChunk(s, chunk)
         IN  /\ t.gen = s.gen /\ t.start = s.start /\ t.count = s.count
             /\ t.meta.epoch = s.meta.epoch
<1> DEFINE u == [s EXCEPT !.pc = "copying", !.out = s.out \o chunk]
<1>1. /\ u.gen = s.gen /\ u.start = s.start /\ u.count = s.count /\ u.meta = s.meta
      /\ u \in SnapType /\ u.meta \in Metadata
  <2>1. s.out \o chunk \in Seq(Float)
    BY ConcatProperties DEF SnapType
  <2>2. QED BY <2>1 DEF SnapType
<1>2. /\ Finished(u).gen = u.gen /\ Finished(u).start = u.start
      /\ Finished(u).count = u.count /\ Finished(u).meta.epoch = u.meta.epoch
  <2> HIDE DEF u
  <2>1. QED BY <1>1 DEF Finished, SnapType, Metadata
<1>3. WithChunk(s, chunk) \in {u, Finished(u)}
  BY DEF WithChunk
<1> HIDE DEF u
<1>4. QED BY <1>1, <1>2, <1>3

\* The snapshot a reader holds, as the refinement mapping sees it.
Held(s) == IF s.pc = "done" THEN s.out ELSE <<>>

\* A copy that a chunk completes while its generation is the current one is a
\* run of the log.
LEMMA CompletedRun ==
  ASSUME TypeOK, RingInv, NEW s \in SnapType, s.count > 0,
         NEW first \in Int, NEW n \in Nat,
         first = s.start + Len(s.out), Len(s.out) + n <= s.count,
         first >= RetainedStart, first + n <= totalFloats,
         s.start + s.count <= totalFloats,
         s.gen = resetGeneration, s.meta.epoch = iqEpoch,
         \A k \in 1 .. Len(s.out) : /\ s.out[k].gen = s.gen
                                    /\ s.out[k].at = s.start + k - 1
                                    /\ s.out[k].epoch \in {0, s.meta.epoch},
         WithChunk(s, ReadRing(first, n)).pc = "done"
  PROVE  Log!IsRun(WithChunk(s, ReadRing(first, n)).out)
<1> DEFINE t == WithChunk(s, ReadRing(first, n))
<1>1. Copied(t)
  BY ChunkCopied
<1>2. ReadRing(first, n) \in Seq(Float)
  BY ReadRingType
<1>3. t \in SnapType
  BY <1>2, ChunkType
<1>4. /\ t.gen = s.gen /\ t.start = s.start /\ t.count = s.count
      /\ t.meta.epoch = s.meta.epoch
  BY <1>2, ChunkKeeps
<1>5. t.pc = "done" /\ s.start \in Int /\ s.count \in Nat
  BY DEF SnapType
<1> HIDE DEF t
<1>6. /\ t.out \in Seq(Float) /\ Len(t.out) = s.count /\ s.count >= 1
      /\ \A k \in 1 .. s.count : /\ t.out[k].gen = resetGeneration
                                 /\ t.out[k].at = s.start + k - 1
                                 /\ t.out[k].epoch \in {0, iqEpoch}
  <2>1. t.out \in Seq(Float) /\ Len(t.out) = t.count
    BY <1>1, <1>3, <1>5 DEF Copied, SnapType
  <2>2. \A k \in 1 .. Len(t.out) : /\ t.out[k].gen = t.gen
                                   /\ t.out[k].at = t.start + k - 1
                                   /\ t.out[k].epoch \in {0, t.meta.epoch}
    BY <1>1, <1>5 DEF Copied
  <2>3. s.count >= 1
    BY <1>5
  <2>4. QED BY <1>4, <2>1, <2>2, <2>3
<1>7. t.out[1].at = s.start
  BY <1>5, <1>6
<1>8. t.out # <<>>
  BY <1>6
<1>9. Log!IsRun(t.out)
  BY <1>5, <1>6, <1>7, <1>8 DEF Log!IsRun, Log!Marks
<1>10. QED BY <1>9 DEF t

\* A section of a reader changes what that reader holds and nothing else.
LEMMA SectionMaps ==
  ASSUME TypeOK, NEW r \in Readers, NEW s, Unlock(r, s), snap[r].pc # "done",
         s.pc = "done" => Log!IsRun(s.out)
  PROVE  [Log!Next]_(Log!vars)
<1> DEFINE now == [q \in Readers |-> IF snap[q].pc = "done" THEN snap[q].out ELSE <<>>]
<1>1. UNCHANGED <<iqEpoch, resetGeneration, totalFloats, iqBlocks>>
      /\ snap' = [snap EXCEPT ![r] = s]
  BY DEF Unlock, ringVars, queueVars
<1>2. now' = [now EXCEPT ![r] = Held(s)]
  <2>1. \A q \in Readers : snap'[q] = IF q = r THEN s ELSE snap[q]
    BY <1>1 DEF TypeOK
  <2>2. QED BY <2>1 DEF Held
<1>3. CASE s.pc = "done"
  <2>1. now'[r] = s.out
    BY <1>2, <1>3 DEF Held
  <2>2. Log!Return(r)
    BY <1>1, <1>2, <1>3, <2>1 DEF Log!Return, Held
  <2>3. QED BY <2>2 DEF Log!Next
<1>4. CASE s.pc # "done"
  <2>1. now' = now
    BY <1>2, <1>4 DEF Held
  <2>2. QED BY <1>1, <2>1 DEF Log!vars
<1>5. QED BY <1>3, <1>4

\* QueueBlock as the log sees it: the block joins the queue, or all is lost.
LEMMA QueueMaps ==
  ASSUME TypeOK, EpochAccepted(publisher.expected), PushAndTrim,
         UNCHANGED <<iqEpoch, resetGeneration, totalFloats, snap>>
  PROVE  [Log!Next]_(Log!vars)
<1> DEFINE b == [seq |-> publisher.seq, born |-> publisher.born,
                 epoch |-> publisher.expected, floats |-> publisher.n]
           grown == Append(iqBlocks, b)
<1>0. iqBlocks \in Seq(Block) /\ Len(iqBlocks) \in Nat /\ b \in Block
  <2>1. /\ publisher.seq \in Nat /\ publisher.born \in Nat
        /\ publisher.n \in Nat /\ publisher.expected \in Epochs \cup {0}
    BY DEF TypeOK, PublisherType
  <2>2. QED BY <2>1, Naturals DEF TypeOK, Block
<1>1. PICK k \in 0 .. Len(grown) : iqBlocks' = SubSeq(grown, k + 1, Len(grown))
  BY DEF PushAndTrim
<1>2. b.epoch \in {0, iqEpoch}
  BY DEF EpochAccepted
<1>3. Len(grown) = Len(iqBlocks) + 1
  BY <1>0, AppendProperties
<1> HIDE DEF b
<1>4. CASE k \in 0 .. Len(iqBlocks)
  <2>1. /\ iqBlocks' # <<>> /\ iqBlocks'[Len(iqBlocks')] = b
        /\ iqBlocks' = Append(SubSeq(iqBlocks, k + 1, Len(iqBlocks)), b)
    BY <1>0, <1>1, <1>4, TrimAppend
  <2> HIDE DEF grown
  <2>2. Log!Enqueue
    BY <1>2, <1>4, <2>1 DEF Log!Enqueue, Log!Marks
  <2>3. QED BY <2>2 DEF Log!Next
<1>5. CASE k = Len(grown)
  <2> HIDE DEF grown
  <2>1. iqBlocks' = <<>>
    BY <1>0, <1>1, <1>3, <1>5, SubSeqEmpty
  <2>2. Log!Flush
    BY <2>1 DEF Log!Flush
  <2>3. QED BY <2>2 DEF Log!Next
<1> HIDE DEF grown
<1>6. QED BY <1>0, <1>1, <1>3, <1>4, <1>5

\* The first chunk of a copy, under the lock that fixes its range.
LEMMA FirstChunkMaps ==
  ASSUME TypeOK, RingInv, NEW r \in Readers, CopyFirstChunk(r)
  PROVE  [Log!Next]_(Log!vars)
<1> DEFINE s     == snap[r]
           least == Least(snapshotSize, Least(s.want, s.allocated))
           count == WholePairs(least)
           end   == IF s.end = 0 THEN totalFloats ELSE s.requested
           start == end - count
           fixed == [s EXCEPT !.requested = 0, !.allocated = 0, !.count = count,
                              !.start = start, !.gen = resetGeneration,
                              !.meta = latestMetadata, !.out = <<>>]
           n     == Least(ChunkFloats, count)
<1>1. s \in SnapType /\ s.pc = "allocated" /\ s.allocated \in Nat /\ s.requested \in Nat
      /\ s.want \in Nat
  <2>1. s \in SnapType /\ s.pc = "allocated"
    BY DEF CopyFirstChunk, TypeOK
  <2>2. s.allocated \in Nat /\ s.requested \in Nat /\ s.want \in Wants \cup {0}
    BY <2>1 DEF SnapType
  <2>3. QED BY <2>1, <2>2, Naturals
<1>2. Failed(r).pc = "failed"
  BY DEF Failed, NoSnap
<1>3. CASE count = 0 \/ start < RetainedStart \/ end > totalFloats
  <2>1. Unlock(r, Failed(r))
    BY <1>3 DEF CopyFirstChunk
  <2>2. QED BY <1>1, <1>2, <2>1, SectionMaps
<1>4. CASE ~ (count = 0 \/ start < RetainedStart \/ end > totalFloats)
  <2>1. /\ totalFloats \in Nat /\ snapshotSize \in Nat /\ RetainedStart \in Int
        /\ resetGeneration \in Nat /\ latestMetadata \in Metadata
    BY Sizes DEF TypeOK, RetainedStart
  <2>2. least \in Nat /\ least <= snapshotSize
    BY <1>1, <2>1 DEF Least
  <2>3. count \in Nat /\ count <= snapshotSize
    <3> HIDE DEF least
    <3>1. QED BY <2>1, <2>2 DEF WholePairs
  <2>4. end \in Nat
    BY <1>1, <2>1
  <2>5. Unlock(r, WithChunk(fixed, ReadRing(start, n)))
    BY <1>4 DEF CopyFirstChunk
  <2> HIDE DEF least, count, end
  <2>6. start \in Int /\ count > 0 /\ n \in Nat /\ n <= count /\ start + count = end
    BY <1>4, <2>3, <2>4, Sizes DEF Least
  <2>7. start >= RetainedStart /\ start + n <= totalFloats /\ start + count <= totalFloats
    <3> HIDE DEF n, start
    <3>1. QED BY <1>4, <2>1, <2>3, <2>4, <2>6
  <2>8. fixed \in SnapType
    <3> HIDE DEF start, s
    <3>1. QED BY <1>1, <2>1, <2>3, <2>6, FixedType
  <2>9. /\ fixed.out = <<>> /\ fixed.count = count /\ fixed.start = start
        /\ fixed.gen = resetGeneration /\ fixed.meta = latestMetadata
    <3> HIDE DEF start, s, n
    <3>1. QED BY <1>1 DEF SnapType
  <2>10. latestMetadata.epoch = iqEpoch
    <3>1. snapshotSize > 0
      BY <2>1, <2>3, <2>6
    <3>2. QED BY <3>1 DEF RingInv, MetadataInv
  <2> HIDE DEF start, fixed, n
  <2>11. /\ fixed.count > 0 /\ start = fixed.start + Len(fixed.out)
         /\ Len(fixed.out) + n <= fixed.count /\ Len(fixed.out) = 0
         /\ fixed.start + fixed.count <= totalFloats
         /\ fixed.gen = resetGeneration /\ fixed.meta.epoch = iqEpoch
    BY <2>6, <2>7, <2>9, <2>10
  <2>12. \A k \in 1 .. Len(fixed.out) : FALSE
    BY <2>11
  <2> DEFINE t == WithChunk(fixed, ReadRing(start, n))
  <2>13. t.pc = "done" => Log!IsRun(t.out)
    BY <2>6, <2>7, <2>8, <2>11, <2>12, CompletedRun
  <2> HIDE DEF t
  <2>14. QED BY <1>1, <2>5, <2>13, SectionMaps DEF t
<1>5. QED BY <1>3, <1>4

\* Every further chunk: the copy is completed only in its own generation.
LEMMA NextChunkMaps ==
  ASSUME TypeOK, RingInv, CopyInv, NEW r \in Readers, CopyNextChunk(r)
  PROVE  [Log!Next]_(Log!vars)
<1> DEFINE s     == snap[r]
           first == s.start + Len(s.out)
           n     == Least(ChunkFloats, s.count - Len(s.out))
           t     == WithChunk(s, ReadRing(first, n))
<1>1. /\ s \in SnapType /\ s.pc = "copying" /\ s.start \in Int /\ s.count \in Nat
      /\ Len(s.out) \in Nat
  BY DEF CopyNextChunk, SnapType, TypeOK
<1>2. Failed(r).pc = "failed"
  BY DEF Failed, NoSnap
<1>3. Copied(s)
  BY CopyInvIsCopied
<1>4. CASE ~ StillThere(s, first, n)
  <2>1. Unlock(r, Failed(r))
    BY <1>4 DEF CopyNextChunk
  <2>2. QED BY <1>1, <1>2, <2>1, SectionMaps
<1>5. CASE StillThere(s, first, n)
  <2>1. Unlock(r, t)
    BY <1>5 DEF CopyNextChunk
  <2>2. /\ s.gen = resetGeneration /\ totalFloats >= s.start + s.count
        /\ first >= RetainedStart /\ first + n <= totalFloats
    BY <1>5 DEF StillThere
  <2> HIDE DEF s
  <2>3. /\ Len(s.out) < s.count /\ s.meta.epoch = iqEpoch
        /\ \A k \in 1 .. Len(s.out) : /\ s.out[k].gen = s.gen
                                       /\ s.out[k].at = s.start + k - 1
                                       /\ s.out[k].epoch \in {0, s.meta.epoch}
    <3> HIDE DEF n, first
    <3>1. QED BY <1>1, <1>3, <2>2 DEF Copied
  <2>4. n \in Nat /\ Len(s.out) + n <= s.count /\ first \in Int /\ s.count > 0
    BY <1>1, <2>3, Sizes DEF Least
  <2>5. s.start + s.count <= totalFloats
    BY <1>1, <2>2, Sizes DEF TypeOK
  <2>6. t.pc = "done" => Log!IsRun(t.out)
    <3> HIDE DEF n
    <3>1. QED BY <1>1, <2>2, <2>3, <2>4, <2>5, CompletedRun
  <2> HIDE DEF t
  <2>7. QED BY <1>1, <2>1, <2>6, SectionMaps DEF s
<1>6. QED BY <1>4, <1>5

LEMMA LogStep ==
  ASSUME TypeOK, RingInv, CopyInv, [Next]_vars
  PROVE  [Log!Next]_(Log!vars)
<1>1. ASSUME UNCHANGED <<iqEpoch, resetGeneration, totalFloats, iqBlocks, snap>>
      PROVE  UNCHANGED Log!vars
  BY <1>1 DEF Log!vars
<1>2. CASE QueueBlock
  <2>1. UNCHANGED <<iqEpoch, resetGeneration, totalFloats, snap>>
    BY <1>2 DEF QueueBlock, ringVars
  <2>2. CASE EpochAccepted(publisher.expected) /\ PushAndTrim
    BY <2>1, <2>2, QueueMaps
  <2>3. CASE UNCHANGED iqBlocks
    BY <1>1, <2>1, <2>3
  <2>4. QED BY <1>2, <2>2, <2>3 DEF QueueBlock
<1>3. CASE FlushQueue
  <2>1. Log!Flush
    BY <1>3 DEF FlushQueue, Log!Flush, ringVars
  <2>2. QED BY <2>1 DEF Log!Next
<1>4. CASE AppendBlock
  <2>1. UNCHANGED <<iqEpoch, resetGeneration, iqBlocks, snap>>
    BY <1>4 DEF AppendBlock, queueVars
  <2>2. CASE totalFloats' = totalFloats + publisher.n
    <3>1. totalFloats \in Nat /\ publisher.n \in Nat
      BY DEF TypeOK, PublisherType
    <3>2. CASE publisher.n = 0
      BY <1>1, <2>1, <2>2, <3>1, <3>2
    <3>3. CASE publisher.n > 0
      <4>1. Log!Write
        BY <2>1, <2>2, <3>1, <3>3 DEF Log!Write
      <4>2. QED BY <4>1 DEF Log!Next
    <3>4. QED BY <3>1, <3>2, <3>3
  <2>3. CASE UNCHANGED ringVars
    BY <1>1, <2>1, <2>3 DEF ringVars
  <2>4. QED BY <1>4, <2>2, <2>3 DEF AppendBlock
<1>5. CASE PopBlock
  <2>1. Log!Dequeue
    BY <1>5 DEF PopBlock, Log!Dequeue, ringVars
  <2>2. QED BY <2>1 DEF Log!Next
<1>6. ASSUME NEW e \in Epochs \cup {0}, Clear(e) PROVE [Log!Next]_(Log!vars)
  <2>1. Log!Restart(e)
    BY <1>6 DEF Clear, Log!Restart
  <2>2. QED BY <1>6, <2>1 DEF Log!Next
<1>7. ASSUME NEW r \in Readers, NEW s, s.pc # "done", snap' = [snap EXCEPT ![r] = s],
             UNCHANGED <<iqEpoch, resetGeneration, totalFloats, iqBlocks>>
      PROVE  [Log!Next]_(Log!vars)
  <2> DEFINE now == [q \in Readers |-> IF snap[q].pc = "done" THEN snap[q].out ELSE <<>>]
  <2>1. \A q \in Readers : snap'[q] = IF q = r THEN s ELSE snap[q]
    BY <1>7 DEF TypeOK
  <2>2. now' = [now EXCEPT ![r] = <<>>]
    <3>1. \A q \in Readers : (IF snap'[q].pc = "done" THEN snap'[q].out ELSE <<>>)
            = IF q = r THEN <<>> ELSE IF snap[q].pc = "done" THEN snap[q].out ELSE <<>>
      BY <1>7, <2>1
    <3>2. QED BY <3>1
  <2>3. Log!Forget(r)
    BY <1>7, <2>2 DEF Log!Forget
  <2>4. QED BY <2>3 DEF Log!Next
<1>8. ASSUME NEW r \in Readers, ReadStats(r) PROVE [Log!Next]_(Log!vars)
  <2>1. [NoSnap EXCEPT !.seen = totalFloats].pc # "done"
    BY DEF NoSnap
  <2>2. QED BY <1>7, <1>8, <2>1 DEF ReadStats, ringVars, queueVars
<1>9. ASSUME NEW r \in Readers, NEW want \in Wants, NEW end \in 0 .. MaxTotal,
             BeginSnapshot(r, want, end)
      PROVE  [Log!Next]_(Log!vars)
  <2>1. [NoSnap EXCEPT !.pc = "sizing", !.seen = snap[r].seen,
                       !.want = want, !.end = end].pc # "done"
    BY DEF NoSnap
  <2>2. QED BY <1>7, <1>9, <2>1 DEF BeginSnapshot, ringVars, queueVars
<1>10. ASSUME NEW r \in Readers, SizeSnapshot(r) PROVE [Log!Next]_(Log!vars)
  <2>1. Failed(r).pc # "done" /\ snap[r].pc # "done" /\ snap[r] \in SnapType
    BY <1>10 DEF Failed, NoSnap, SizeSnapshot, TypeOK
  <2>2. ASSUME NEW requested, NEW allocated
        PROVE  [snap[r] EXCEPT !.pc = "allocated", !.requested = requested,
                               !.allocated = allocated].pc # "done"
    BY <2>1 DEF SnapType
  <2>3. PICK s : s.pc # "done" /\ Unlock(r, s)
    BY <1>10, <2>1, <2>2 DEF SizeSnapshot
  <2>4. QED BY <2>1, <2>3, SectionMaps
<1>11. ASSUME NEW r \in Readers, ReaderStep(r) PROVE [Log!Next]_(Log!vars)
  BY <1>1, <1>10, <1>11, FirstChunkMaps, NextChunkMaps
  DEF ReaderStep, LockRing, ringVars, queueVars
<1>12. QED
  BY <1>1, <1>2, <1>3, <1>4, <1>5, <1>6, <1>8, <1>9, <1>11 DEF Next, PublisherStep,
     BeginPublish, NumberBlock, SetSampleRateEstimate, vars, ringVars, queueVars

\* For every size of ring and chunk, and however many readers copy while the
\* receiver publishes and the window retunes, the buffer is the log its users
\* rely on: no lock, chunk, wrap or retry of it can be told from outside.
THEOREM LogImplemented == Spec => ImplementsLog
<1>1. Init => Log!Init
  <2> SUFFICES ASSUME Init PROVE Log!Init
    OBVIOUS
  <2>1. \A r \in Readers : snap[r].pc = "idle"
    BY DEF Init, NoSnap
  <2>2. QED BY <2>1 DEF Init, Log!Init
<1>2. IInv /\ [Next]_vars => [Log!Next]_(Log!vars)
  BY LogStep DEF IInv
<1>3. QED BY <1>1, <1>2, Invariance, PTL DEF Spec, ImplementsLog, Log!Spec

-----------------------------------------------------------------------------
(* The order of the queue *)

\* What has a number was numbered before whatever will be numbered next.
Before(x) == x.born < resetGeneration \/ (x.born = resetGeneration /\ x.seq <= audioSequence)

\* A block numbered but not yet queued is later than all that were queued.
Holding == publisher.pc = "queueing" /\ publisher.queue

OrderInv ==
  /\ QueueOrdered
  /\ Before(heard) /\ \A i \in 1 .. Len(iqBlocks) : Before(iqBlocks[i])
  /\ Holding => /\ Before(publisher) /\ Later(publisher, heard)
                /\ \A i \in 1 .. Len(iqBlocks) : Later(publisher, iqBlocks[i])

LEMMA OrderSame ==
  ASSUME OrderInv, UNCHANGED <<iqBlocks, resetGeneration, audioSequence, heard>>,
         Holding' => Holding /\ publisher' = publisher
  PROVE  OrderInv'
BY DEF OrderInv, QueueOrdered, Before, Later, Holding

\* Emptying the queue keeps the order, and so does starting to number anew.
LEMMA OrderEmptied ==
  ASSUME TypeOK, OrderInv, iqBlocks' = <<>>, heard' = heard,
         \/ UNCHANGED <<resetGeneration, audioSequence>>
         \/ resetGeneration' = resetGeneration + 1 /\ audioSequence' = 0,
         Holding' => Holding /\ publisher' = publisher
  PROVE  OrderInv'
<1>1. /\ resetGeneration \in Nat /\ audioSequence \in Nat
      /\ heard.born \in Nat /\ heard.seq \in Nat
      /\ publisher.born \in Nat /\ publisher.seq \in Nat
  BY DEF TypeOK, PublisherType
<1>2. QueueOrdered'
  BY DEF QueueOrdered
<1>3. Before(heard)' /\ \A i \in 1 .. Len(iqBlocks') : FALSE
  BY <1>1 DEF OrderInv, Before
<1>4. ASSUME Holding' PROVE Before(publisher)' /\ Later(publisher, heard)'
  <2>1. publisher' = publisher /\ Before(publisher) /\ Later(publisher, heard)
    BY <1>4 DEF OrderInv
  <2>2. QED BY <1>1, <2>1 DEF Before, Later
<1>5. QED BY <1>2, <1>3, <1>4 DEF OrderInv, Before

LEMMA OrderNumbered ==
  ASSUME TypeOK, OrderInv, NumberBlock
  PROVE  OrderInv'
<1>1. /\ resetGeneration \in Nat /\ audioSequence \in Nat /\ iqBlocks \in Seq(Block)
      /\ heard \in [seq : Nat, born : Nat] /\ publisher \in PublisherType
  BY DEF TypeOK
<1>2. /\ UNCHANGED <<iqBlocks, resetGeneration, heard>>
      /\ audioSequence' = audioSequence + 1
      /\ publisher'.seq = audioSequence + 1 /\ publisher'.born = resetGeneration
  BY <1>1 DEF NumberBlock, PublisherType
<1>3. /\ heard.born \in Nat /\ heard.seq \in Nat
      /\ \A i \in 1 .. Len(iqBlocks) : iqBlocks[i].born \in Nat /\ iqBlocks[i].seq \in Nat
  <2>1. \A i \in 1 .. Len(iqBlocks) : iqBlocks[i] \in Block
    BY <1>1
  <2>2. QED BY <1>1, <2>1 DEF Block
<1>4. ASSUME NEW x, Before(x), x.born \in Nat, x.seq \in Nat
      PROVE  /\ x.born < resetGeneration \/ (x.born = resetGeneration /\ x.seq <= audioSequence')
             /\ \/ publisher'.born > x.born
                \/ publisher'.born = x.born /\ publisher'.seq > x.seq
  BY <1>1, <1>2, <1>4 DEF Before
<1>5. Before(heard)' /\ Later(publisher, heard)' /\ Before(publisher)'
  BY <1>1, <1>2, <1>3, <1>4 DEF OrderInv, Before, Later
<1>6. \A i \in 1 .. Len(iqBlocks) :
        Before(iqBlocks[i])' /\ Later(publisher, iqBlocks[i])'
  BY <1>2, <1>3, <1>4 DEF OrderInv, Before, Later
<1>7. QueueOrdered'
  BY <1>2 DEF OrderInv, QueueOrdered, Later
<1>8. QED BY <1>2, <1>5, <1>6, <1>7 DEF OrderInv

LEMMA OrderPopped ==
  ASSUME TypeOK, OrderInv, PopBlock
  PROVE  OrderInv'
<1>0. iqBlocks \in Seq(Block)
  BY DEF TypeOK
<1>1. /\ iqBlocks # <<>> /\ iqBlocks' = Tail(iqBlocks)
      /\ heard' = [seq |-> Head(iqBlocks).seq, born |-> Head(iqBlocks).born]
      /\ UNCHANGED <<resetGeneration, audioSequence, publisher>>
  BY DEF PopBlock
<1>2. /\ Len(iqBlocks') = Len(iqBlocks) - 1 /\ Len(iqBlocks) \in Nat \ {0}
      /\ \A i \in 1 .. Len(iqBlocks') : iqBlocks'[i] = iqBlocks[i + 1]
      /\ Head(iqBlocks) = iqBlocks[1]
  BY <1>0, <1>1, HeadTailProperties
<1>3. /\ 1 \in 1 .. Len(iqBlocks) /\ DOMAIN iqBlocks = 1 .. Len(iqBlocks)
      /\ DOMAIN iqBlocks' = 1 .. Len(iqBlocks')
      /\ \A i \in 1 .. Len(iqBlocks') : i + 1 \in 1 .. Len(iqBlocks) /\ 1 < i + 1
  BY <1>0, <1>1, <1>2
<1>4. ASSUME NEW x PROVE (Later(x, heard') <=> Later(x, iqBlocks[1]))
                         /\ (Before(iqBlocks[1]) => Before(heard)')
  BY <1>1, <1>2 DEF Later, Before
<1>5. QueueOrdered'
  <2>1. ASSUME NEW i \in 1 .. Len(iqBlocks'), NEW j \in 1 .. Len(iqBlocks'), i < j
        PROVE  Later(iqBlocks'[j], iqBlocks'[i])
    <3>1. i + 1 < j + 1
      BY <1>2, <2>1
    <3>2. QED BY <1>2, <1>3, <3>1 DEF OrderInv, QueueOrdered
  <2>2. ASSUME NEW i \in 1 .. Len(iqBlocks') PROVE Later(iqBlocks'[i], heard')
    <3>1. Later(iqBlocks[i + 1], iqBlocks[1])
      BY <1>3 DEF OrderInv, QueueOrdered
    <3>2. QED BY <1>2, <1>4, <3>1
  <2>3. QED BY <1>3, <2>1, <2>2 DEF QueueOrdered, Later
<1>6. Before(heard)' /\ \A i \in 1 .. Len(iqBlocks') : Before(iqBlocks[i])'
  <2>1. Before(heard)'
    BY <1>3, <1>4 DEF OrderInv
  <2>2. QED BY <1>1, <1>2, <1>3, <2>1 DEF OrderInv, Before
<1>7. ASSUME Holding'
      PROVE  /\ Before(publisher)' /\ Later(publisher, heard)'
             /\ \A i \in 1 .. Len(iqBlocks') : Later(publisher, iqBlocks[i])'
  <2>1. Holding
    BY <1>1, <1>7 DEF Holding
  <2>2. Later(publisher, heard')
    BY <1>3, <1>4, <2>1 DEF OrderInv
  <2>3. QED BY <1>1, <1>2, <1>3, <2>1, <2>2 DEF OrderInv, Before, Later
<1>8. QED BY <1>5, <1>6, <1>7 DEF OrderInv

LEMMA OrderQueued ==
  ASSUME TypeOK, OrderInv, QueueBlock, EpochAccepted(publisher.expected), PushAndTrim
  PROVE  OrderInv'
<1> DEFINE b == [seq |-> publisher.seq, born |-> publisher.born,
                 epoch |-> publisher.expected, floats |-> publisher.n]
           grown == Append(iqBlocks, b)
<1>0. iqBlocks \in Seq(Block) /\ Holding
  BY DEF TypeOK, QueueBlock, Holding
<1>1. b \in Block /\ b.seq = publisher.seq /\ b.born = publisher.born
  <2>1. /\ publisher.seq \in Nat /\ publisher.born \in Nat
        /\ publisher.n \in Nat /\ publisher.expected \in Epochs \cup {0}
    BY DEF TypeOK, PublisherType
  <2>2. QED BY <2>1, Naturals DEF Block
<1>2. PICK k \in 0 .. Len(grown) : iqBlocks' = SubSeq(grown, k + 1, Len(grown))
  BY DEF PushAndTrim
<1>3. UNCHANGED <<resetGeneration, audioSequence, heard>>
  BY DEF QueueBlock
<1>4. ~ Holding'
  <2>1. publisher'.pc # "queueing"
    <3>1. publisher \in PublisherType
      BY DEF TypeOK
    <3>2. [publisher EXCEPT !.pc = "appending"].pc = "appending"
      BY <3>1 DEF PublisherType
    <3>3. publisher' = AfterQueue \/ publisher' = Idle
      BY DEF QueueBlock
    <3>4. AfterQueue.pc # "queueing" /\ Idle.pc # "queueing"
      BY <3>2 DEF AfterQueue, Idle
    <3>5. QED BY <3>3, <3>4
  <2>2. QED BY <2>1 DEF Holding
<1> HIDE DEF b
<1>5. /\ grown \in Seq(Block) /\ Len(grown) = Len(iqBlocks) + 1
      /\ Len(iqBlocks) \in Nat
      /\ \A i \in 1 .. Len(iqBlocks) : grown[i] = iqBlocks[i]
      /\ grown[Len(iqBlocks) + 1] = b
  BY <1>0, <1>1, AppendProperties
<1> HIDE DEF grown
<1>6. ASSUME NEW x PROVE (Later(b, x) <=> Later(publisher, x)) /\ (Before(b) <=> Before(publisher))
  BY <1>1 DEF Later, Before
<1>7. ASSUME NEW i \in 1 .. Len(grown)
      PROVE  /\ Before(grown[i]) /\ Later(grown[i], heard)
             /\ \A j \in 1 .. Len(grown) : i < j => Later(grown[j], grown[i])
  <2>1. CASE i = Len(iqBlocks) + 1
    <3>1. grown[i] = b /\ Before(publisher) /\ Later(publisher, heard)
      BY <1>0, <1>5, <2>1 DEF OrderInv
    <3>2. Before(b) /\ Later(b, heard)
      BY <1>6, <3>1
    <3>3. \A j \in 1 .. Len(grown) : ~ i < j
      BY <1>5, <2>1
    <3>4. QED BY <3>1, <3>2, <3>3
  <2>2. CASE i \in 1 .. Len(iqBlocks)
    <3>1. grown[i] = iqBlocks[i] /\ Before(grown[i]) /\ Later(grown[i], heard)
      BY <1>0, <1>5, <2>2 DEF OrderInv, QueueOrdered
    <3>2. ASSUME NEW j \in 1 .. Len(grown), i < j PROVE Later(grown[j], grown[i])
      <4>1. CASE j \in 1 .. Len(iqBlocks)
        BY <1>0, <1>5, <2>2, <3>2, <4>1 DEF OrderInv, QueueOrdered
      <4>2. CASE j = Len(iqBlocks) + 1
        <5>1. Later(publisher, iqBlocks[i])
          BY <1>0, <2>2 DEF OrderInv
        <5>2. QED BY <1>5, <1>6, <3>1, <4>2, <5>1
      <4>3. QED BY <1>5, <4>1, <4>2
    <3>3. QED BY <3>1, <3>2
  <2>3. QED BY <1>5, <2>1, <2>2
<1>8. /\ iqBlocks' \in Seq(Block) /\ Len(iqBlocks') = Len(grown) - k
      /\ \A i \in 1 .. Len(grown) - k : iqBlocks'[i] = grown[k + i]
  <2>1. k \in Nat /\ Len(grown) \in Nat
    BY <1>5
  <2>2. CASE k = Len(grown)
    BY <1>2, <1>5, <2>1, <2>2, SubSeqEmpty
  <2>3. CASE k < Len(grown)
    BY <1>2, <1>5, <2>1, <2>3, SubSeqProperties
  <2>4. QED BY <2>1, <2>2, <2>3
<1>9. /\ DOMAIN iqBlocks' = 1 .. Len(grown) - k
      /\ \A i \in 1 .. Len(grown) - k : k + i \in 1 .. Len(grown)
      /\ \A i, j \in 1 .. Len(grown) - k : i < j => k + i < k + j
  BY <1>5, <1>8
<1>10. QueueOrdered'
  <2>1. ASSUME NEW i \in 1 .. Len(grown) - k, NEW j \in 1 .. Len(grown) - k, i < j
        PROVE  Later(iqBlocks'[j], iqBlocks'[i])
    BY <1>7, <1>8, <1>9, <2>1
  <2>2. ASSUME NEW i \in 1 .. Len(grown) - k PROVE Later(iqBlocks'[i], heard)
    BY <1>7, <1>8, <1>9
  <2>3. QED BY <1>3, <1>9, <2>1, <2>2 DEF QueueOrdered, Later
<1>11. Before(heard)' /\ \A i \in 1 .. Len(iqBlocks') : Before(iqBlocks[i])'
  BY <1>3, <1>7, <1>8, <1>9 DEF OrderInv, Before
<1>12. QED BY <1>4, <1>10, <1>11 DEF OrderInv

LEMMA OrderStep == TypeOK /\ OrderInv /\ [Next]_vars => OrderInv'
<1> SUFFICES ASSUME TypeOK, OrderInv, [Next]_vars PROVE OrderInv'
  OBVIOUS
<1>1. ASSUME UNCHANGED <<iqBlocks, resetGeneration, audioSequence, heard, publisher>>
      PROVE  OrderInv'
  BY <1>1, OrderSame DEF Holding
<1>2. ASSUME NEW n \in BlockSizes, NEW e \in Epochs \cup {0}, NEW m \in Modes,
             BeginPublish(n, e, m[1], m[2])
      PROVE  OrderInv'
  <2>1. ~ Holding'
    BY <1>2 DEF BeginPublish, Holding
  <2>2. QED BY <1>2, <2>1, OrderSame DEF BeginPublish, queueVars
<1>3. CASE FlushQueue
  <2>1. ~ Holding'
    BY <1>3 DEF FlushQueue, Holding, AfterQueue, Idle
  <2>2. QED BY <1>3, <2>1, OrderEmptied DEF FlushQueue
<1>4. CASE QueueBlock
  <2>1. CASE EpochAccepted(publisher.expected) /\ PushAndTrim
    BY <1>4, <2>1, OrderQueued
  <2>2. CASE publisher' = Idle /\ UNCHANGED <<iqBlocks, queuedFloats>>
    <3>1. ~ Holding'
      BY <2>2 DEF Holding, Idle
    <3>2. QED BY <1>4, <2>2, <3>1, OrderSame DEF QueueBlock
  <2>3. QED BY <1>4, <2>1, <2>2 DEF QueueBlock
<1>5. CASE AppendBlock
  <2>1. ~ Holding'
    BY <1>5 DEF AppendBlock, Holding, Idle
  <2>2. QED BY <1>5, <2>1, OrderSame DEF AppendBlock, queueVars
<1>6. ASSUME NEW e \in Epochs \cup {0}, Clear(e) PROVE OrderInv'
  BY <1>6, OrderEmptied DEF Clear, Holding
<1>7. ASSUME NEW r \in Readers, ReaderStep(r) PROVE OrderInv'
  BY <1>1, <1>7 DEF ReaderStep, LockRing, SizeSnapshot, CopyFirstChunk, CopyNextChunk,
     Unlock, queueVars
<1>8. ASSUME NEW limit \in QueueLimits, SetSampleRateEstimate(limit) PROVE OrderInv'
  <2>1. UNCHANGED <<iqBlocks, resetGeneration, audioSequence, heard, publisher>>
    BY <1>8 DEF SetSampleRateEstimate, queueVars
  <2>2. QED BY <1>1, <2>1
<1>a. ASSUME NEW r \in Readers, ReadStats(r) PROVE OrderInv'
  BY <1>1, <1>a DEF ReadStats, queueVars
<1>b. ASSUME NEW r \in Readers, NEW want \in Wants, NEW end \in 0 .. MaxTotal,
             BeginSnapshot(r, want, end)
      PROVE  OrderInv'
  BY <1>1, <1>b DEF BeginSnapshot, queueVars
<1>c. CASE UNCHANGED vars
  BY <1>1, <1>c DEF vars, queueVars
<1>9. CASE PublisherStep
  BY <1>3, <1>4, <1>5, <1>9, OrderNumbered DEF PublisherStep
<1>10. QED
  BY <1>2, <1>6, <1>7, <1>8, <1>9, <1>a, <1>b, <1>c, OrderPopped DEF Next

\* Blocks reach the audio thread in the order they were numbered, although
\* publish() numbers them outside the queue's mutex and clear() starts the
\* numbers again.
THEOREM QueueOrderCorrect == Spec => []QueueOrdered
<1>1. Init => OrderInv
  <2> SUFFICES ASSUME Init PROVE OrderInv
    OBVIOUS
  <2>1. /\ iqBlocks = <<>> /\ heard = [seq |-> 0, born |-> 0] /\ resetGeneration = 1
        /\ publisher.pc = "idle"
    BY DEF Init, Idle
  <2>2. QED BY <2>1 DEF OrderInv, QueueOrdered, Before, Holding
<1>2. IInv /\ OrderInv /\ [Next]_vars => OrderInv'
  BY OrderStep DEF IInv
<1>3. OrderInv => QueueOrdered
  BY DEF OrderInv
<1>4. QED BY <1>1, <1>2, <1>3, Invariance, PTL DEF Spec

-----------------------------------------------------------------------------
(* The end of a snapshot *)

\* The newest metadata tells how much has been appended.
TotalInv == snapshotSize > 0 => latestMetadata.total = totalFloats

\* The end a copy aims at.
Aims(s) == IF s.end = 0 THEN s.start + s.count = s.meta.total ELSE s.start + s.count <= s.end

EndsRight(s) ==
  /\ s.pc = "allocated" => s.end = 0 \/ s.requested <= s.end
  /\ s.pc = "copying" => Aims(s)
  /\ s.pc = "done" => /\ s.start + s.count <= s.meta.total
                      /\ s.end = 0 => s.start + s.count = s.meta.total

EndInv == TotalInv /\ \A r \in Readers : EndsRight(snap[r])

LEMMA ChunkEnds ==
  ASSUME NEW s \in SnapType, NEW chunk \in Seq(Float), Aims(s)
  PROVE  EndsRight(WithChunk(s, chunk))
<1> DEFINE u == [s EXCEPT !.pc = "copying", !.out = s.out \o chunk]
<1>1. /\ u.pc = "copying" /\ u.start = s.start /\ u.count = s.count /\ u.meta = s.meta
      /\ u.end = s.end /\ u \in SnapType
      /\ u.meta \in [epoch : Nat, total : Nat]
      /\ s.start \in Int /\ s.count \in Nat /\ s.end \in Nat
  <2>1. s.out \o chunk \in Seq(Float)
    BY ConcatProperties DEF SnapType
  <2>2. QED BY <2>1 DEF SnapType, Metadata
<1>2. Aims(u)
  BY <1>1 DEF Aims
<1>3. EndsRight(u)
  BY <1>1, <1>2 DEF EndsRight
<1>4. EndsRight(Finished(u))
  <2> DEFINE total == IF u.end = 0 THEN u.meta.total ELSE u.end
             meta == [u.meta EXCEPT !.total = total]
  <2> HIDE DEF u
  <2>1. /\ Finished(u).pc = "done" /\ Finished(u).start = u.start
        /\ Finished(u).count = u.count /\ Finished(u).end = u.end
        /\ Finished(u).meta = meta
    BY <1>1 DEF Finished, SnapType
  <2>2. meta.total = total
    BY <1>1
  <2>3. u.end # 0 => u.start + u.count <= u.end
    BY <1>2 DEF Aims
  <2>4. u.end = 0 => u.start + u.count = u.meta.total
    BY <1>2 DEF Aims
  <2> HIDE DEF meta
  <2>5. u.start + u.count <= total /\ (u.end = 0 => u.start + u.count = total)
    BY <1>1, <2>3, <2>4
  <2>6. QED BY <2>1, <2>2, <2>5 DEF EndsRight
<1>5. WithChunk(s, chunk) \in {u, Finished(u)}
  BY DEF WithChunk
<1> HIDE DEF u
<1>6. QED BY <1>3, <1>4, <1>5

LEMMA EndsElsewhere ==
  ASSUME NEW s, s.pc \notin {"allocated", "copying", "done"}
  PROVE  EndsRight(s)
BY DEF EndsRight

LEMMA TotalStep == TypeOK /\ TotalInv /\ [Next]_vars => TotalInv'
<1> SUFFICES ASSUME TypeOK, TotalInv, [Next]_vars PROVE TotalInv'
  OBVIOUS
<1>1. ASSUME UNCHANGED ringVars PROVE TotalInv'
  BY <1>1 DEF TotalInv, ringVars
<1>2. CASE AppendBlock
  BY <1>1, <1>2 DEF AppendBlock, MetadataAfter, TotalInv
<1>3. ASSUME NEW e \in Epochs \cup {0}, Clear(e) PROVE TotalInv'
  BY <1>3 DEF Clear, TotalInv
<1>4. ASSUME NEW r \in Readers, ReaderStep(r) PROVE TotalInv'
  BY <1>1, <1>4 DEF ReaderStep, LockRing, SizeSnapshot, CopyFirstChunk, CopyNextChunk, Unlock
<1>5. QED
  BY <1>1, <1>2, <1>3, <1>4 DEF Next, PublisherStep, BeginPublish, NumberBlock,
     QueueBlock, FlushQueue, PopBlock, SetSampleRateEstimate, ReadStats, BeginSnapshot, vars

LEMMA BoundStep ==
  TypeOK /\ CopyInv /\ EndInv /\ [Next]_vars => \A r \in Readers : EndsRight(snap'[r])
<1> SUFFICES ASSUME TypeOK, CopyInv, EndInv, [Next]_vars
             PROVE  \A r \in Readers : EndsRight(snap'[r])
  OBVIOUS
<1> DEFINE Right == \A r \in Readers : EndsRight(snap'[r])
<1>0. \A r \in Readers : EndsRight(snap[r]) /\ snap[r] \in SnapType
  BY DEF EndInv, TypeOK
<1>1. ASSUME snap' = snap PROVE Right
  BY <1>0, <1>1
<1>2. ASSUME NEW r \in Readers, NEW s, EndsRight(s), snap' = [snap EXCEPT ![r] = s]
      PROVE  Right
  <2>1. \A q \in Readers : snap'[q] = IF q = r THEN s ELSE snap[q]
    BY <1>2 DEF TypeOK
  <2>2. QED BY <1>0, <1>2, <2>1
<1>3. ASSUME NEW r \in Readers, NEW s, EndsRight(s), Unlock(r, s) PROVE Right
  BY <1>2, <1>3 DEF Unlock
<1>4. ASSUME NEW r \in Readers PROVE EndsRight(Failed(r))
  <2>1. Failed(r).pc = "failed"
    BY DEF Failed, NoSnap
  <2>2. QED BY <2>1, EndsElsewhere
<1>5. ASSUME NEW r \in Readers, ReadStats(r) PROVE Right
  <2>1. EndsRight([NoSnap EXCEPT !.seen = totalFloats])
    BY EndsElsewhere DEF NoSnap
  <2>2. QED BY <1>2, <1>5, <2>1 DEF ReadStats
<1>6. ASSUME NEW r \in Readers, NEW want \in Wants, NEW end \in 0 .. MaxTotal,
             BeginSnapshot(r, want, end) PROVE Right
  <2>1. EndsRight([NoSnap EXCEPT !.pc = "sizing", !.seen = snap[r].seen,
                                 !.want = want, !.end = end])
    BY EndsElsewhere DEF NoSnap
  <2>2. QED BY <1>2, <1>6, <2>1 DEF BeginSnapshot
<1>7. ASSUME NEW r \in Readers, SizeSnapshot(r) PROVE Right
  <2> DEFINE s         == snap[r]
             requested == IF s.end = 0 THEN totalFloats ELSE Least(s.end, totalFloats)
             before    == IF requested > RetainedStart THEN requested - RetainedStart ELSE 0
             allocated == WholePairs(Least(before, s.want))
             t == [s EXCEPT !.pc = "allocated", !.requested = requested,
                            !.allocated = allocated]
  <2>1. s \in SnapType /\ s.end \in Nat /\ totalFloats \in Nat
    BY <1>0 DEF SnapType, TypeOK
  <2>2. s.end = 0 \/ requested <= s.end
    BY <2>1 DEF Least
  <2>3. EndsRight(t)
    <3> HIDE DEF requested, allocated
    <3>1. t.pc = "allocated" /\ t.requested = requested /\ t.end = s.end
      BY <2>1 DEF SnapType
    <3>2. QED BY <2>2, <3>1 DEF EndsRight
  <2>4. CASE allocated = 0
    BY <1>3, <1>4, <1>7, <2>4 DEF SizeSnapshot
  <2>5. CASE allocated # 0
    BY <1>3, <1>7, <2>3, <2>5 DEF SizeSnapshot
  <2>6. QED BY <2>4, <2>5
<1>8. ASSUME NEW r \in Readers, CopyFirstChunk(r) PROVE Right
  <2> DEFINE s     == snap[r]
             least == Least(snapshotSize, Least(s.want, s.allocated))
             count == WholePairs(least)
             end   == IF s.end = 0 THEN totalFloats ELSE s.requested
             start == end - count
             fixed == [s EXCEPT !.requested = 0, !.allocated = 0, !.count = count,
                                !.start = start, !.gen = resetGeneration,
                                !.meta = latestMetadata, !.out = <<>>]
             n     == Least(ChunkFloats, count)
  <2>1. CASE count = 0 \/ start < RetainedStart \/ end > totalFloats
    BY <1>3, <1>4, <1>8, <2>1 DEF CopyFirstChunk
  <2>2. CASE ~ (count = 0 \/ start < RetainedStart \/ end > totalFloats)
    <3>1. /\ s \in SnapType /\ s.pc = "allocated" /\ s.want \in Nat /\ s.allocated \in Nat
          /\ s.requested \in Nat /\ s.end \in Nat
      <4>1. s \in SnapType /\ s.pc = "allocated"
        BY <1>0, <1>8 DEF CopyFirstChunk
      <4>2. /\ s.allocated \in Nat /\ s.requested \in Nat /\ s.want \in Wants \cup {0}
            /\ s.end \in Nat
        BY <4>1 DEF SnapType
      <4>3. QED BY <4>1, <4>2, Naturals
    <3>2. /\ totalFloats \in Nat /\ snapshotSize \in Nat /\ RetainedStart \in Int
          /\ resetGeneration \in Nat /\ latestMetadata \in Metadata
      BY Sizes DEF TypeOK, RetainedStart
    <3>3. least \in Nat /\ least <= snapshotSize
      BY <3>1, <3>2 DEF Least
    <3>4. count \in Nat /\ count <= snapshotSize
      <4> HIDE DEF least
      <4>1. QED BY <3>2, <3>3 DEF WholePairs
    <3>5. end \in Nat /\ (s.end # 0 => end <= s.end) /\ (s.end = 0 => end = totalFloats)
      BY <1>0, <3>1, <3>2 DEF EndsRight
    <3> HIDE DEF least, count, end
    <3>6. start \in Int /\ count > 0 /\ n \in Nat /\ n <= count /\ start + count = end
      BY <2>2, <3>4, <3>5, Sizes DEF Least
    <3>7. start >= RetainedStart /\ start + n <= totalFloats
      <4> HIDE DEF n
      <4>1. QED BY <2>2, <3>2, <3>4, <3>5, <3>6
    <3>8. fixed \in SnapType
      <4> HIDE DEF start, s
      <4>1. QED BY <3>1, <3>2, <3>4, <3>6, FixedType
    <3>9. /\ fixed.count = count /\ fixed.start = start
          /\ fixed.end = s.end /\ fixed.meta = latestMetadata
      <4> HIDE DEF start, s, n
      <4>1. QED BY <3>1 DEF SnapType
    <3>10. latestMetadata.total = totalFloats
      <4>1. snapshotSize > 0
        BY <3>2, <3>4, <3>6
      <4>2. QED BY <4>1 DEF EndInv, TotalInv
    <3>11. ReadRing(start, n) \in Seq(Float)
      BY <3>6, <3>7, ReadRingType
    <3> HIDE DEF start, fixed, n, s
    <3>12. Aims(fixed)
      BY <3>5, <3>6, <3>9, <3>10 DEF Aims
    <3>13. EndsRight(WithChunk(fixed, ReadRing(start, n)))
      BY <3>8, <3>11, <3>12, ChunkEnds
    <3>14. QED
      BY <1>3, <1>8, <2>2, <3>13 DEF CopyFirstChunk, s, least, count, end, start, fixed, n
  <2>3. QED BY <2>1, <2>2
<1>9. ASSUME NEW r \in Readers, CopyNextChunk(r) PROVE Right
  <2> DEFINE s     == snap[r]
             first == s.start + Len(s.out)
             n     == Least(ChunkFloats, s.count - Len(s.out))
  <2>1. CASE ~ StillThere(s, first, n)
    BY <1>3, <1>4, <1>9, <2>1 DEF CopyNextChunk
  <2>2. CASE StillThere(s, first, n)
    <3>1. /\ s \in SnapType /\ s.pc = "copying" /\ s.start \in Int /\ s.count \in Nat
          /\ Len(s.out) \in Nat
      BY <1>0, <1>9 DEF CopyNextChunk, SnapType
    <3>2. Len(s.out) < s.count
      <4>1. Copied(s)
        BY CopyInvIsCopied
      <4> HIDE DEF s
      <4>2. QED BY <3>1, <4>1 DEF Copied
    <3>3. n \in Nat /\ first \in Int
      <4> HIDE DEF s
      <4>1. QED BY <3>1, <3>2, Sizes DEF Least
    <3>4. first >= RetainedStart /\ first + n <= totalFloats
      BY <2>2 DEF StillThere
    <3>5. ReadRing(first, n) \in Seq(Float)
      BY <3>3, <3>4, ReadRingType
    <3>6. Aims(s)
      BY <1>0, <3>1 DEF EndsRight
    <3>7. EndsRight(WithChunk(s, ReadRing(first, n)))
      <4> HIDE DEF n, s, first
      <4>1. QED BY <3>1, <3>5, <3>6, ChunkEnds
    <3>8. QED BY <1>3, <1>9, <2>2, <3>7 DEF CopyNextChunk
  <2>3. QED BY <2>1, <2>2
<1>10. ASSUME NEW r \in Readers, LockRing(r) PROVE Right
  BY <1>1, <1>10 DEF LockRing
<1>11. QED
  BY <1>1, <1>5, <1>6, <1>7, <1>8, <1>9, <1>10 DEF Next, PublisherStep,
     BeginPublish, NumberBlock, QueueBlock, FlushQueue, AppendBlock, PopBlock, Clear,
     SetSampleRateEstimate, ReaderStep, vars

\* A live snapshot ends where its metadata says, and a historical one never
\* later than the end it was asked for, whatever is appended or cleared while
\* its chunks are copied.
THEOREM SnapshotEndCorrect == Spec => []SnapshotEndBounded
<1>1. Init => EndInv
  <2> SUFFICES ASSUME Init PROVE EndInv
    OBVIOUS
  <2>1. snapshotSize = 0 /\ \A r \in Readers : snap[r].pc = "idle"
    BY DEF Init, NoSnap
  <2>2. QED BY <2>1 DEF EndInv, TotalInv, EndsRight
<1>2. IInv /\ EndInv /\ [Next]_vars => EndInv'
  BY TotalStep, BoundStep DEF IInv, EndInv
<1>3. EndInv => SnapshotEndBounded
  BY DEF EndInv, EndsRight, SnapshotEndBounded
<1>4. QED BY <1>1, <1>2, <1>3, Invariance, PTL DEF Spec

-----------------------------------------------------------------------------
(* Induction, and sums over the queue *)

\* A nonempty set of natural numbers has a least element.  Induction on a
\* number is this, applied to the numbers at which a claim fails.
LEMMA LeastElement ==
  ASSUME NEW T, T \subseteq Nat, T # {}
  PROVE  \E x \in T : \A y \in T : x <= y
<1>1. \E R : IsWellFoundedOn(R, Nat) /\ \A x, y \in Nat : x < y => <<x, y>> \in R
  <2>1. \A x, y \in Nat : x < y => <<x, y>> \in OpToRel(<, Nat)
    BY DEF OpToRel
  <2> QED
    BY <2>1, NatLessThanWellFounded, Zenon
<1>2. PICK R : IsWellFoundedOn(R, Nat) /\ \A x, y \in Nat : x < y => <<x, y>> \in R
  BY <1>1
<1>3. IsWellFoundedOn(R, Nat)
  BY <1>2
<1>4. \E x \in T : \A y \in T : ~ (<<y, x>> \in R)
  BY <1>3, WFMin, Zenon
<1>5. PICK x \in T : \A y \in T : ~ (<<y, x>> \in R)
  BY <1>4
<1>6. ASSUME NEW y \in T PROVE x <= y
  <2>1. ~ (y < x)
    BY <1>2, <1>5
  <2> QED
    BY <2>1
<1> QED
  BY <1>6

\* Induction up to a bound, on the set of the numbers a statement is true of.
LEMMA UpTo ==
  ASSUME NEW n \in Nat, NEW G, 0 \in G, \A k \in 0 .. n - 1 : k \in G => k + 1 \in G
  PROVE  0 .. n \subseteq G
<1> DEFINE bad == {k \in 0 .. n : k \notin G}
<1>1. SUFFICES ASSUME bad # {} PROVE FALSE
  OBVIOUS
<1>2. bad \subseteq Nat
  OBVIOUS
<1>3. PICK k \in bad : \A j \in bad : k <= j
  BY <1>1, <1>2, LeastElement
<1> QED
  BY <1>3
\* FloatsOf(b), folded from the left, is this function at the whole domain.
Folded(b, f) ==
  f = [s \in SUBSET (DOMAIN b) |-> IF s = {} THEN 0 ELSE f[s \ {Max(s)}] + b[Max(s)].floats]

LEMMA FloatsOfIsFolded ==
  ASSUME NEW b
  PROVE  FloatsOf(b) = (CHOOSE f : Folded(b, f))[DOMAIN b]
BY DEF FloatsOf, FoldLeft, MapThenFoldSet, Folded

LEMMA MaxOfSet ==
  ASSUME NEW n \in Nat, NEW s \in SUBSET (1 .. n), s # {}
  PROVE  Max(s) \in s /\ \A y \in s : y <= Max(s)
<1> DEFINE above == {k \in Nat : \A y \in s : y <= k}
<1>1. n \in above
  OBVIOUS
<1>2. PICK k \in above : \A j \in above : k <= j
  BY <1>1, LeastElement
<1>3. k \in s
  <2>1. PICK y \in s : TRUE
    OBVIOUS
  <2>2. CASE k \notin s
    <3>1. \A z \in s : z <= k - 1
      BY <1>2, <2>2
    <3>2. k - 1 \in above
      BY <1>2, <2>1, <3>1
    <3> QED
      BY <1>2, <3>2
  <2> QED
    BY <2>2
<1> QED
  BY <1>2, <1>3 DEF Max

LEMMA MaxOfRange ==
  ASSUME NEW n \in Nat \ {0}
  PROVE  Max(1 .. n) = n
BY MaxOfSet DEF Max

\* The same function for the first k blocks only; it exists for every k.
FoldedTo(b, k, f) ==
  f = [s \in SUBSET (1 .. k) |-> IF s = {} THEN 0 ELSE f[s \ {Max(s)}] + b[Max(s)].floats]

LEMMA FoldedGrows ==
  ASSUME NEW b, NEW k \in Nat, NEW f, FoldedTo(b, k, f)
  PROVE  \E g : FoldedTo(b, k + 1, g)
<1> DEFINE g == [s \in SUBSET (1 .. k + 1) |->
                   IF k + 1 \in s THEN f[s \ {k + 1}] + b[k + 1].floats ELSE f[s]]
<1>1. ASSUME NEW s \in SUBSET (1 .. k + 1)
      PROVE  g[s] = IF s = {} THEN 0 ELSE g[s \ {Max(s)}] + b[Max(s)].floats
  <2>1. CASE s = {}
    BY <2>1 DEF FoldedTo
  <2>2. CASE s # {} /\ k + 1 \in s
    <3>1. Max(s) = k + 1
      <4>1. k + 1 \in Nat /\ \A y \in s : y \in Nat /\ y <= k + 1
        OBVIOUS
      <4>2. Max(s) \in s /\ \A y \in s : y <= Max(s)
        BY <2>2, <4>1, MaxOfSet
      <4>3. Max(s) <= k + 1 /\ k + 1 <= Max(s) /\ Max(s) \in Nat
        BY <2>2, <4>1, <4>2
      <4> QED
        BY <4>3
    <3>2. s \ {k + 1} \in SUBSET (1 .. k)
      OBVIOUS
    <3> QED
      BY <2>2, <3>1, <3>2
  <2>3. CASE s # {} /\ k + 1 \notin s
    <3>1. s \in SUBSET (1 .. k)
      BY <2>3
    <3>2. f[s] = f[s \ {Max(s)}] + b[Max(s)].floats
      BY <2>3, <3>1 DEF FoldedTo
    <3>3. s \ {Max(s)} \in SUBSET (1 .. k + 1) /\ k + 1 \notin s \ {Max(s)}
      BY <2>3
    <3> QED
      BY <2>3, <3>2, <3>3
  <2> QED
    BY <2>1, <2>2, <2>3
<1>2. FoldedTo(b, k + 1, g)
  <2> DEFINE h == [s \in SUBSET (1 .. k + 1) |->
                     IF s = {} THEN 0 ELSE g[s \ {Max(s)}] + b[Max(s)].floats]
  <2>1. \A s \in SUBSET (1 .. k + 1) : g[s] = h[s]
    BY <1>1
  <2>2. g = h
    <3>1. g = [s \in SUBSET (1 .. k + 1) |-> g[s]] /\ h = [s \in SUBSET (1 .. k + 1) |-> h[s]]
      OBVIOUS
    <3> HIDE DEF g, h
    <3> QED
      BY <2>1, <3>1
  <2> QED
    BY <2>2 DEF FoldedTo
<1> QED
  BY <1>2

LEMMA FoldedExists ==
  ASSUME NEW b, NEW n \in Nat, DOMAIN b = 1 .. n
  PROVE  \E f : Folded(b, f)
<1> DEFINE G == {k \in 0 .. n : \E f : FoldedTo(b, k, f)}
<1>1. 0 \in G
  <2> DEFINE f == [s \in SUBSET (1 .. 0) |-> 0]
  <2>1. SUBSET (1 .. 0) = {{}}
    OBVIOUS
  <2>2. FoldedTo(b, 0, f)
    BY <2>1 DEF FoldedTo
  <2> QED
    BY <2>2
<1>2. \A k \in 0 .. n - 1 : k \in G => k + 1 \in G
  BY FoldedGrows
<1> HIDE DEF G
<1>3. 0 .. n \subseteq G
  BY <1>1, <1>2, UpTo
<1>4. n \in G
  BY <1>3
<1> QED
  BY <1>4 DEF G, Folded, FoldedTo

\* p[k] is what the first k blocks hold.
IsSum(b, p) == p[0] = 0 /\ \A k \in 1 .. Len(b) : p[k] = p[k - 1] + b[k].floats

LEMMA FloatsOfIsSum ==
  ASSUME NEW b \in Seq(Block)
  PROVE  \E p \in [0 .. Len(b) -> Nat] : IsSum(b, p) /\ FloatsOf(b) = p[Len(b)]
<1> DEFINE f == CHOOSE f : Folded(b, f)
           p == [k \in 0 .. Len(b) |-> f[1 .. k]]
           G == {k \in 0 .. Len(b) : p[k] \in Nat}
<1>1. DOMAIN b = 1 .. Len(b) /\ Len(b) \in Nat
  OBVIOUS
<1>2. Folded(b, f)
  BY <1>1, FoldedExists
<1>3. FloatsOf(b) = f[1 .. Len(b)]
  BY <1>1, FloatsOfIsFolded
<1> HIDE DEF f
<1>4. p[0] = 0
  <2>1. 1 .. 0 = {}
    OBVIOUS
  <2> QED
    BY <1>1, <1>2, <2>1 DEF Folded
<1>5. ASSUME NEW k \in 1 .. Len(b) PROVE p[k] = p[k - 1] + b[k].floats
  <2>1. Max(1 .. k) = k /\ (1 .. k) \ {k} = 1 .. k - 1
    BY <1>1, MaxOfRange
  <2>2. 1 .. k \in SUBSET (DOMAIN b) /\ 1 .. k # {}
    <3>1. k \in 1 .. k /\ 1 .. k \subseteq 1 .. Len(b)
      BY <1>1
    <3> QED
      BY <1>1, <3>1
  <2>3. f[1 .. k] = f[1 .. k - 1] + b[k].floats
    BY <1>2, <2>1, <2>2 DEF Folded
  <2> QED
    BY <1>1, <2>3
<1>6. 0 \in G /\ \A k \in 0 .. Len(b) - 1 : k \in G => k + 1 \in G
  <2> HIDE DEF p
  <2>1. ASSUME NEW k \in 0 .. Len(b) - 1, p[k] \in Nat PROVE p[k + 1] \in Nat
    <3>1. b[k + 1] \in Block /\ k + 1 \in 1 .. Len(b) /\ (k + 1) - 1 = k
      BY <1>1
    <3>2. b[k + 1].floats \in Nat
      BY <3>1 DEF Block
    <3>3. p[k + 1] = p[k] + b[k + 1].floats
      BY <1>5, <3>1
    <3> QED
      BY <2>1, <3>2, <3>3
  <2> QED
    BY <1>1, <1>4, <2>1
<1>7. \A k \in 0 .. Len(b) : p[k] \in Nat
  <2> HIDE DEF p
  <2>1. G \subseteq 0 .. Len(b)
    OBVIOUS
  <2>2. \A k \in G : p[k] \in Nat
    OBVIOUS
  <2> HIDE DEF G
  <2> QED
    BY <1>1, <1>6, <2>2, UpTo
<1>8. p \in [0 .. Len(b) -> Nat]
  BY <1>7
<1>9. IsSum(b, p) /\ FloatsOf(b) = p[Len(b)]
  <2>1. p[Len(b)] = f[1 .. Len(b)]
    BY <1>1
  <2> HIDE DEF p
  <2> QED
    BY <1>3, <1>4, <1>5, <2>1 DEF IsSum
<1> HIDE DEF p
<1> QED
  BY <1>8, <1>9

\* What a slice of the queue holds.
LEMMA FloatsOfSlice ==
  ASSUME NEW b \in Seq(Block), NEW p \in [0 .. Len(b) -> Nat], IsSum(b, p),
         NEW i \in 0 .. Len(b), NEW j \in i .. Len(b)
  PROVE  FloatsOf(SubSeq(b, i + 1, j)) = p[j] - p[i]
<1> DEFINE s == SubSeq(b, i + 1, j)
<1>1. s \in Seq(Block) /\ Len(s) = j - i /\ \A k \in 1 .. j - i : s[k] = b[i + k]
  BY SubSeqProperties
<1> HIDE DEF s
<1>2. PICK q \in [0 .. Len(s) -> Nat] : IsSum(s, q) /\ FloatsOf(s) = q[Len(s)]
  BY <1>1, FloatsOfIsSum
<1> DEFINE G == {k \in 0 .. j - i : q[k] = p[i + k] - p[i]}
<1>3. 0 \in G
  <2>1. q[0] = 0
    BY <1>2 DEF IsSum
  <2>2. i + 0 = i /\ p[i] \in Nat /\ 0 \in 0 .. j - i
    OBVIOUS
  <2> QED
    BY <2>1, <2>2
<1>4. ASSUME NEW k \in 0 .. (j - i) - 1, k \in G PROVE k + 1 \in G
  <2>1. /\ q[k + 1] = q[k] + s[k + 1].floats
        /\ s[k + 1] = b[i + k + 1]
    BY <1>1, <1>2 DEF IsSum
  <2>2. p[i + k + 1] = p[i + k] + b[i + k + 1].floats
    <3>1. i + k + 1 \in 1 .. Len(b) /\ (i + k + 1) - 1 = i + k
      OBVIOUS
    <3> QED
      BY <3>1 DEF IsSum
  <2>3. b[i + k + 1].floats \in Nat
    <3>1. i + k + 1 \in 1 .. Len(b)
      OBVIOUS
    <3>2. b[i + k + 1] \in Block
      BY <3>1
    <3> QED
      BY <3>2 DEF Block
  <2>4. q[k] \in Nat /\ p[i + k] \in Nat /\ p[i] \in Nat
    BY <1>1
  <2> QED
    BY <1>4, <2>1, <2>2, <2>3, <2>4
<1>5. j - i \in G
  <2>1. j - i \in Nat /\ j - i \in 0 .. j - i
    OBVIOUS
  <2> HIDE DEF G
  <2>2. \A k \in 0 .. (j - i) - 1 : k \in G => k + 1 \in G
    BY <1>4
  <2>3. 0 .. (j - i) \subseteq G
    BY <1>3, <2>1, <2>2, UpTo
  <2> QED
    BY <2>1, <2>3
<1> QED
  BY <1>1, <1>2, <1>5 DEF s

LEMMA FloatsOfAppend ==
  ASSUME NEW b \in Seq(Block), NEW x \in Block
  PROVE  FloatsOf(Append(b, x)) = FloatsOf(b) + x.floats
<1> DEFINE g == Append(b, x)
<1>1. /\ g \in Seq(Block) /\ Len(g) = Len(b) + 1 /\ g[Len(b) + 1] = x
      /\ SubSeq(g, 1, Len(b)) = b
  <2>1. g \in Seq(Block) /\ Len(g) = Len(b) + 1 /\ g[Len(b) + 1] = x
        /\ \A k \in 1 .. Len(b) : g[k] = b[k]
    BY AppendProperties
  <2>2. SubSeq(g, 1, Len(b)) \in Seq(Block) /\ Len(SubSeq(g, 1, Len(b))) = Len(b)
        /\ \A k \in 1 .. Len(b) : SubSeq(g, 1, Len(b))[k] = b[k]
    <3> HIDE DEF g
    <3> QED
      BY <2>1, SubSeqProperties
  <2> HIDE DEF g
  <2> QED
    BY <2>1, <2>2, SeqEqual
<1> HIDE DEF g
<1>2. PICK p \in [0 .. Len(g) -> Nat] : IsSum(g, p) /\ FloatsOf(g) = p[Len(g)]
  BY <1>1, FloatsOfIsSum
<1>3. FloatsOf(SubSeq(g, 0 + 1, Len(b))) = p[Len(b)] - p[0]
  <2>1. 0 \in 0 .. Len(g) /\ Len(b) \in 0 .. Len(g)
    BY <1>1
  <2> QED
    BY <1>1, <1>2, <2>1, FloatsOfSlice
<1>4. p[Len(b) + 1] = p[Len(b)] + x.floats /\ p[0] = 0 /\ p[Len(b)] \in Nat
  BY <1>1, <1>2 DEF IsSum
<1> QED
  BY <1>1, <1>2, <1>3, <1>4 DEF g

-----------------------------------------------------------------------------
(* The queue's accounts *)

\* The queue with the block of the running publish(), and what the first k
\* blocks of it leave when the trimming loop drops them.
NewBlock == [seq |-> publisher.seq, born |-> publisher.born,
             epoch |-> publisher.expected, floats |-> publisher.n]
Grown == Append(iqBlocks, NewBlock)
LeftAfter(k) == queuedFloats + publisher.n - FloatsOf(SubSeq(Grown, 1, k))
Fits(k) == WithinLimits(Len(Grown) - k, LeftAfter(k))

\* PushAndTrim in these words.
LEMMA PushAndTrimIs ==
  PushAndTrim <=> \E k \in 0 .. Len(Grown) : /\ Fits(k)
                                             /\ \A j \in 0 .. k - 1 : ~ Fits(j)
                                             /\ iqBlocks' = SubSeq(Grown, k + 1, Len(Grown))
                                             /\ queuedFloats' = LeftAfter(k)
BY DEF PushAndTrim, Fits, LeftAfter, Grown, NewBlock

LEMMA GrownType ==
  ASSUME TypeOK
  PROVE  /\ Grown \in Seq(Block) /\ Len(Grown) \in Nat /\ Len(Grown) > 0
         /\ FloatsOf(Grown) = FloatsOf(iqBlocks) + publisher.n
<1>1. NewBlock \in Block /\ NewBlock.floats = publisher.n
  <2>1. /\ publisher.seq \in Nat /\ publisher.born \in Nat
        /\ publisher.n \in Nat /\ publisher.expected \in Epochs \cup {0}
    BY DEF TypeOK, PublisherType
  <2> QED
    BY <2>1, Naturals DEF NewBlock, Block
<1>2. iqBlocks \in Seq(Block)
  BY DEF TypeOK
<1>3. Grown \in Seq(Block) /\ Len(Grown) = Len(iqBlocks) + 1
  BY <1>1, <1>2, AppendProperties DEF Grown
<1>4. FloatsOf(Grown) = FloatsOf(iqBlocks) + publisher.n
  BY <1>1, <1>2, FloatsOfAppend DEF Grown
<1> QED
  BY <1>2, <1>3, <1>4

\* What is left, by the hand-kept counter, is what the remaining blocks hold.
LEMMA LeftIsHeld ==
  ASSUME TypeOK, QueueAccounted, NEW k \in 0 .. Len(Grown)
  PROVE  /\ LeftAfter(k) \in Nat
         /\ LeftAfter(k) = FloatsOf(SubSeq(Grown, k + 1, Len(Grown)))
         /\ k = Len(Grown) => LeftAfter(k) = 0
<1>1. /\ Grown \in Seq(Block) /\ Len(Grown) \in Nat
      /\ queuedFloats + publisher.n = FloatsOf(Grown)
  BY GrownType DEF QueueAccounted
<1>2. PICK p \in [0 .. Len(Grown) -> Nat] : IsSum(Grown, p) /\ FloatsOf(Grown) = p[Len(Grown)]
  BY <1>1, FloatsOfIsSum
<1>3. FloatsOf(SubSeq(Grown, 0 + 1, k)) = p[k] - p[0]
  <2>1. 0 \in 0 .. Len(Grown) /\ k \in 0 .. k
    BY <1>1
  <2> QED
    BY <1>1, <1>2, <2>1, FloatsOfSlice
<1>4. FloatsOf(SubSeq(Grown, k + 1, Len(Grown))) = p[Len(Grown)] - p[k]
  <2>1. Len(Grown) \in k .. Len(Grown)
    BY <1>1
  <2> QED
    BY <1>1, <1>2, <2>1, FloatsOfSlice
<1>5. /\ p[0] = 0 /\ p[k] \in Nat /\ p[Len(Grown)] \in Nat
      /\ FloatsOf(SubSeq(Grown, k + 1, Len(Grown))) \in Nat
  <2>1. p[0] = 0
    BY <1>2 DEF IsSum
  <2>2. p[k] \in Nat /\ p[Len(Grown)] \in Nat
    BY <1>1
  <2>3. SubSeq(Grown, k + 1, Len(Grown)) \in Seq(Block)
    BY <1>1, SubSeqProperties
  <2>4. PICK q \in [0 .. Len(SubSeq(Grown, k + 1, Len(Grown))) -> Nat] :
          FloatsOf(SubSeq(Grown, k + 1, Len(Grown))) = q[Len(SubSeq(Grown, k + 1, Len(Grown)))]
    BY <2>3, FloatsOfIsSum
  <2>5. Len(SubSeq(Grown, k + 1, Len(Grown))) \in Nat
    BY <2>3
  <2> QED
    BY <2>1, <2>2, <2>4, <2>5
<1>6. LeftAfter(k) = p[Len(Grown)] - p[k]
  <2>1. FloatsOf(SubSeq(Grown, 1, k)) = p[k]
    <3>1. SubSeq(Grown, 0 + 1, k) = SubSeq(Grown, 1, k)
      OBVIOUS
    <3> HIDE DEF Grown
    <3> QED
      BY <1>3, <1>5, <3>1
  <2>2. queuedFloats + publisher.n = p[Len(Grown)]
    BY <1>1, <1>2
  <2>3. queuedFloats \in Nat /\ publisher.n \in Nat
    <3>1. iqBlocks \in Seq(Block) /\ publisher.n \in Nat
      BY DEF TypeOK, PublisherType
    <3>2. PICK q \in [0 .. Len(iqBlocks) -> Nat] : FloatsOf(iqBlocks) = q[Len(iqBlocks)]
      BY <3>1, FloatsOfIsSum
    <3>3. Len(iqBlocks) \in 0 .. Len(iqBlocks)
      BY <3>1
    <3> QED
      BY <3>1, <3>2, <3>3 DEF QueueAccounted
  <2> QED
    BY <1>5, <2>1, <2>2, <2>3 DEF LeftAfter
<1>7. LeftAfter(k) = FloatsOf(SubSeq(Grown, k + 1, Len(Grown)))
  BY <1>4, <1>6
<1>8. k = Len(Grown) => LeftAfter(k) = 0
  BY <1>5, <1>6
<1> QED
  BY <1>5, <1>7, <1>8

LEMMA AccountedStep == TypeOK /\ QueueAccounted /\ [Next]_vars => QueueAccounted'
<1> SUFFICES ASSUME TypeOK, QueueAccounted, [Next]_vars PROVE QueueAccounted'
  OBVIOUS
<1>0. iqBlocks \in Seq(Block) /\ queueLimit \in QueueLimits
  BY DEF TypeOK
<1>1. ASSUME UNCHANGED <<iqBlocks, queuedFloats>> PROVE QueueAccounted'
  BY <1>1 DEF QueueAccounted
<1>2. ASSUME iqBlocks' = <<>>, queuedFloats' = 0 PROVE QueueAccounted'
  <2>1. FloatsOf(<<>>) = 0
    <3>1. PICK p \in [0 .. Len(<<>>) -> Nat] : IsSum(<<>>, p) /\ FloatsOf(<<>>) = p[Len(<<>>)]
      <4>1. <<>> \in Seq(Block)
        OBVIOUS
      <4> QED
        BY <4>1, FloatsOfIsSum
    <3> QED
      BY <3>1 DEF IsSum
  <2>2. MaxBlocks \in Nat /\ queueLimit \in Nat
    BY <1>0, BufferAssumption
  <2> QED
    BY <1>0, <1>2, <2>1, <2>2 DEF QueueAccounted
<1>3. CASE QueueBlock /\ PushAndTrim
  <2>1. PICK k \in 0 .. Len(Grown) : /\ Fits(k)
                                     /\ iqBlocks' = SubSeq(Grown, k + 1, Len(Grown))
                                     /\ queuedFloats' = LeftAfter(k)
    BY <1>3, PushAndTrimIs
  <2>2. queuedFloats' = FloatsOf(iqBlocks')
    BY <2>1, LeftIsHeld
  <2>3. Len(Grown) - k <= MaxBlocks /\ LeftAfter(k) <= queueLimit
    BY <2>1 DEF Fits, WithinLimits
  <2>4. Len(iqBlocks') = Len(Grown) - k
    BY <2>1, GrownType, SubSeqProperties
  <2> QED
    BY <1>0, <2>1, <2>2, <2>3, <2>4 DEF QueueAccounted
<1>4. CASE PopBlock
  <2>1. /\ iqBlocks # <<>> /\ iqBlocks' = Tail(iqBlocks)
        /\ queuedFloats' = queuedFloats - iqBlocks[1].floats
    BY <1>0, <1>4 DEF PopBlock
  <2>2. /\ Len(iqBlocks) \in Nat /\ Len(iqBlocks) >= 1 /\ Tail(iqBlocks) = SubSeq(iqBlocks, 1 + 1, Len(iqBlocks))
        /\ Len(Tail(iqBlocks)) = Len(iqBlocks) - 1
    <3>1. Len(iqBlocks) \in Nat /\ Len(iqBlocks) >= 1
      BY <1>0, <2>1
    <3>2. Tail(iqBlocks) = SubSeq(iqBlocks, 1 + 1, Len(iqBlocks))
      <4>1. 1 + 1 = 2
        OBVIOUS
      <4> QED
        BY <1>0, <2>1, <4>1, TailIsSubSeq
    <3> QED
      BY <1>0, <2>1, <3>1, <3>2, HeadTailProperties
  <2>3. PICK p \in [0 .. Len(iqBlocks) -> Nat] :
          IsSum(iqBlocks, p) /\ FloatsOf(iqBlocks) = p[Len(iqBlocks)]
    BY <1>0, FloatsOfIsSum
  <2>4. FloatsOf(Tail(iqBlocks)) = p[Len(iqBlocks)] - p[1]
    <3>1. 1 \in 0 .. Len(iqBlocks) /\ Len(iqBlocks) \in 1 .. Len(iqBlocks)
      BY <2>2
    <3> QED
      BY <1>0, <2>2, <2>3, <3>1, FloatsOfSlice
  <2>5. p[1] = iqBlocks[1].floats /\ iqBlocks[1].floats \in Nat
    <3>1. 1 \in 1 .. Len(iqBlocks) /\ 1 - 1 = 0
      BY <2>2
    <3>2. p[1] = p[0] + iqBlocks[1].floats /\ p[0] = 0
      BY <2>3, <3>1 DEF IsSum
    <3>3. iqBlocks[1] \in Block
      BY <1>0, <3>1
    <3> QED
      BY <3>2, <3>3 DEF Block
  <2>6. queuedFloats' = FloatsOf(iqBlocks')
    BY <2>1, <2>3, <2>4, <2>5 DEF QueueAccounted
  <2>7. \E limit \in QueueLimits : queuedFloats' <= limit
    <3>1. PICK limit \in QueueLimits : queuedFloats <= limit
      BY DEF QueueAccounted
    <3>2. p[Len(iqBlocks)] \in Nat /\ limit \in Nat
      BY <2>2, BufferAssumption
    <3> QED
      BY <2>1, <2>3, <2>5, <3>1, <3>2 DEF QueueAccounted
  <2>8. Len(iqBlocks') <= MaxBlocks
    BY <2>1, <2>2, BufferAssumption DEF QueueAccounted
  <2> QED
    BY <2>6, <2>7, <2>8 DEF QueueAccounted
<1>5. CASE QueueBlock
  BY <1>1, <1>3, <1>5 DEF QueueBlock
<1>6. ASSUME NEW r \in Readers, ReaderStep(r) PROVE QueueAccounted'
  BY <1>1, <1>6 DEF ReaderStep, LockRing, SizeSnapshot, CopyFirstChunk, CopyNextChunk,
     Unlock, queueVars
<1> QED
  BY <1>1, <1>2, <1>4, <1>5, <1>6 DEF Next, PublisherStep, BeginPublish, NumberBlock,
     FlushQueue, AppendBlock, SetSampleRateEstimate, Clear, ReadStats,
     BeginSnapshot, vars, queueVars

LEMMA AccountedInit == Init => QueueAccounted
<1> SUFFICES ASSUME Init PROVE QueueAccounted
  OBVIOUS
<1>1. iqBlocks = <<>> /\ queuedFloats = 0 /\ queueLimit \in QueueLimits
  BY DEF Init
<1>2. <<>> \in Seq(Block) /\ Len(<<>>) = 0
  OBVIOUS
<1>3. PICK p \in [0 .. 0 -> Nat] : IsSum(<<>>, p) /\ FloatsOf(<<>>) = p[0]
  BY <1>2, FloatsOfIsSum
<1>4. queueLimit \in Nat /\ MaxBlocks \in Nat
  BY <1>1, BufferAssumption
<1> QED
  BY <1>1, <1>2, <1>3, <1>4 DEF QueueAccounted, IsSum

\* g_iqQueuedFloatCount is what the queued blocks hold, and the queue keeps
\* both limits, through every append, trim, pop, flush and clear, for blocks of
\* any sizes (publish, popBlock, clear).
THEOREM QueueAccountedCorrect == Spec => []QueueAccounted
<1>1. Init => QueueAccounted
  BY AccountedInit
<1>2. IInv /\ QueueAccounted /\ [Next]_vars => QueueAccounted'
  BY AccountedStep DEF IInv
<1> QED
  BY <1>1, <1>2, Invariance, PTL DEF Spec

\* The trimming loop of the running publish() comes to a number of blocks at
\* which it stops.
TrimEnds ==
  publisher.pc = "queueing" =>
    \E k \in 0 .. Len(Grown) : Fits(k) /\ \A j \in 0 .. k - 1 : ~ Fits(j)

\* The loop always ends, because the counter is what the queue holds: with
\* nothing left both limits hold.  A counter that had drifted could leave the
\* loop looking for a block to drop in an empty queue (publish).
THEOREM TrimmingEnds == Spec => []TrimEnds
<1>1. TypeOK /\ QueueAccounted => TrimEnds
  <2> SUFFICES ASSUME TypeOK, QueueAccounted
               PROVE  \E k \in 0 .. Len(Grown) : Fits(k) /\ \A j \in 0 .. k - 1 : ~ Fits(j)
    BY DEF TrimEnds
  <2> DEFINE fitting == {k \in 0 .. Len(Grown) : Fits(k)}
  <2>1. Len(Grown) \in Nat
    BY GrownType
  <2>2. Fits(Len(Grown))
    <3>1. LeftAfter(Len(Grown)) = 0
      BY <2>1, LeftIsHeld
    <3>2. queueLimit \in Nat /\ MaxBlocks \in Nat
      BY BufferAssumption DEF TypeOK
    <3> QED
      BY <2>1, <3>1, <3>2 DEF Fits, WithinLimits
  <2>3. fitting \subseteq Nat /\ Len(Grown) \in fitting
    BY <2>1, <2>2
  <2>4. PICK k \in fitting : \A j \in fitting : k <= j
    BY <2>3, LeastElement
  <2>5. \A j \in 0 .. k - 1 : ~ Fits(j)
    BY <2>1, <2>4
  <2> QED
    BY <2>4, <2>5
<1>2. Init => QueueAccounted
  BY AccountedInit
<1>3. IInv /\ QueueAccounted /\ [Next]_vars => QueueAccounted'
  BY AccountedStep DEF IInv
<1> QED
  BY <1>1, <1>2, <1>3, Invariance, TypeCorrect, PTL DEF Spec

\* Steps the running publish() still has to take.
StepsLeft == CASE publisher.pc = "idle" -> 0
               [] publisher.pc = "appending" -> 1
               [] publisher.pc = "queueing" -> 2
               [] publisher.pc = "numbering" -> 3

Shortens == publisher.pc # "idle" /\ publisher' # publisher => StepsLeft' < StepsLeft

\* No reader, retune or audio thread sends a running publish() back: it changes
\* by its own steps only, of which it takes three at most (publish).
THEOREM PublishShortens == Spec => [][Shortens]_vars
<1>1. TypeOK /\ [Next]_vars => [Shortens]_vars
  <2> SUFFICES ASSUME TypeOK, Next, publisher.pc # "idle", publisher' # publisher
               PROVE  StepsLeft' < StepsLeft
    BY DEF Shortens
  <2>1. /\ publisher.pc \in {"numbering", "queueing", "appending"}
        /\ publisher \in PublisherType
    BY DEF TypeOK, PublisherType
  <2>2. Idle.pc = "idle" /\ AfterQueue.pc \in {"idle", "appending"}
    BY <2>1 DEF Idle, AfterQueue, PublisherType
  <2>3. PublisherStep
    BY DEF Next, BeginPublish, PopBlock, SetSampleRateEstimate, Clear, ReadStats, BeginSnapshot,
           ReaderStep, LockRing, SizeSnapshot, CopyFirstChunk, CopyNextChunk, Unlock
  <2>4. CASE NumberBlock
    <3>1. publisher'.pc = "queueing"
      BY <2>1, <2>4 DEF NumberBlock, PublisherType
    <3> QED
      BY <2>4, <3>1 DEF NumberBlock, StepsLeft
  <2>5. CASE QueueBlock \/ FlushQueue
    <3>1. publisher.pc = "queueing" /\ publisher'.pc \in {"idle", "appending"}
      BY <2>2, <2>5 DEF QueueBlock, FlushQueue
    <3> QED
      BY <3>1 DEF StepsLeft
  <2>6. CASE AppendBlock
    BY <2>2, <2>6 DEF AppendBlock, StepsLeft
  <2> QED
    BY <2>3, <2>4, <2>5, <2>6 DEF PublisherStep
<1> QED
  BY <1>1, TypeCorrect, PTL DEF Spec

-----------------------------------------------------------------------------
(* I before Q *)

\* What whole pairs take: publishers pass whole I/Q pairs.
Even(x) == x % 2 = 0
EvenBlocks == \A n \in BlockSizes : Even(n)

PairsPublished == Even(totalFloats) /\ Even(publisher.n)

Paired(s) ==
  /\ s.pc = "allocated" => (Even(s.end) => Even(s.requested))
  /\ s.pc \in {"copying", "done"} => Even(s.count) /\ (Even(s.end) => Even(s.start))

AlignedInv == PairsPublished /\ \A r \in Readers : Paired(snap[r])

LEMMA EvenZero == Even(0)
BY DEF Even

LEMMA EvenSum ==
  ASSUME NEW a \in Int, NEW b \in Int, Even(a), Even(b)
  PROVE  Even(a + b) /\ Even(a - b)
BY DEF Even

LEMMA EvenLeast ==
  ASSUME NEW a, NEW b, Even(a), Even(b) PROVE Even(Least(a, b))
BY DEF Least

\* n - n % 2U is even, and a natural number no larger than n.
LEMMA PairsAreEven ==
  ASSUME NEW n \in Nat PROVE Even(WholePairs(n)) /\ WholePairs(n) \in 0 .. n
BY DEF Even, WholePairs

LEMMA ChunkPaired ==
  ASSUME NEW s \in SnapType, NEW chunk \in Seq(Float),
         Even(s.count), Even(s.end) => Even(s.start)
  PROVE  Paired(WithChunk(s, chunk))
<1> DEFINE u == [s EXCEPT !.pc = "copying", !.out = s.out \o chunk]
<1>1. /\ u.pc = "copying" /\ u.start = s.start /\ u.count = s.count /\ u.end = s.end
      /\ u \in SnapType
  <2>1. s.out \o chunk \in Seq(Float)
    BY ConcatProperties DEF SnapType
  <2>2. QED BY <2>1 DEF SnapType
<1>2. WithChunk(s, chunk) \in {u, Finished(u)}
  BY DEF WithChunk
<1> HIDE DEF u
<1>3. /\ Finished(u).pc = "done" /\ Finished(u).start = u.start
      /\ Finished(u).count = u.count /\ Finished(u).end = u.end
  BY <1>1 DEF Finished, SnapType
<1>4. Paired(u) /\ Paired(Finished(u))
  BY <1>1, <1>3 DEF Paired
<1>5. QED BY <1>2, <1>4

LEMMA PublishedStep ==
  ASSUME EvenBlocks
  PROVE  TypeOK /\ PairsPublished /\ [Next]_vars => PairsPublished'
<1> SUFFICES ASSUME TypeOK, PairsPublished, [Next]_vars PROVE PairsPublished'
  OBVIOUS
<1>1. ASSUME totalFloats' = totalFloats, publisher'.n = publisher.n PROVE PairsPublished'
  BY <1>1 DEF PairsPublished
<1>2. ASSUME totalFloats' = totalFloats, publisher' \in {publisher, Idle} PROVE PairsPublished'
  BY <1>2, EvenZero DEF PairsPublished, Idle
<1>3. ASSUME NEW n \in BlockSizes, NEW e \in Epochs \cup {0}, NEW m \in Modes,
             BeginPublish(n, e, m[1], m[2])
      PROVE  PairsPublished'
  BY <1>3 DEF BeginPublish, PairsPublished, EvenBlocks, ringVars
<1>4. CASE NumberBlock
  <2>1. publisher'.n = publisher.n
    BY <1>4 DEF NumberBlock, TypeOK, PublisherType
  <2>2. QED BY <1>1, <1>4, <2>1 DEF NumberBlock, ringVars
<1>5. CASE QueueBlock \/ FlushQueue
  <2>1. publisher' = AfterQueue \/ publisher' = Idle
    BY <1>5 DEF QueueBlock, FlushQueue
  <2>2. AfterQueue = Idle \/ AfterQueue.n = publisher.n
    BY DEF AfterQueue, TypeOK, PublisherType
  <2>3. QED BY <1>1, <1>2, <1>5, <2>1, <2>2 DEF QueueBlock, FlushQueue, ringVars
<1>6. CASE AppendBlock
  <2>1. totalFloats \in Int /\ publisher.n \in Int
    BY DEF TypeOK, PublisherType
  <2>2. Even(totalFloats + publisher.n)
    BY <2>1, EvenSum DEF PairsPublished
  <2>3. totalFloats' \in {totalFloats, totalFloats + publisher.n} /\ publisher' = Idle
    BY <1>6 DEF AppendBlock, ringVars
  <2>4. QED BY <2>2, <2>3, EvenZero DEF PairsPublished, Idle
<1>7. ASSUME NEW e \in Epochs \cup {0}, Clear(e) PROVE PairsPublished'
  BY <1>7, EvenZero DEF Clear, PairsPublished
<1>8. ASSUME NEW r \in Readers, ReaderStep(r) PROVE PairsPublished'
  BY <1>2, <1>8 DEF ReaderStep, LockRing, SizeSnapshot, CopyFirstChunk, CopyNextChunk,
     Unlock, ringVars
<1>9. QED
  BY <1>2, <1>3, <1>4, <1>5, <1>6, <1>7, <1>8 DEF Next, PublisherStep, PopBlock,
     SetSampleRateEstimate, ReadStats, BeginSnapshot, vars, ringVars

LEMMA PairedStep ==
  TypeOK /\ CopyInv /\ AlignedInv /\ [Next]_vars => \A r \in Readers : Paired(snap'[r])
<1> SUFFICES ASSUME TypeOK, CopyInv, AlignedInv, [Next]_vars
             PROVE  \A r \in Readers : Paired(snap'[r])
  OBVIOUS
<1> DEFINE AllPaired == \A r \in Readers : Paired(snap'[r])
<1>0. /\ \A r \in Readers : Paired(snap[r]) /\ snap[r] \in SnapType
      /\ totalFloats \in Nat /\ snapshotSize \in Nat /\ RetainedStart \in Int
      /\ Even(totalFloats)
  BY Sizes DEF AlignedInv, PairsPublished, TypeOK, RetainedStart
<1>1. ASSUME snap' = snap PROVE AllPaired
  BY <1>0, <1>1
<1>2. ASSUME NEW r \in Readers, NEW s, Paired(s), snap' = [snap EXCEPT ![r] = s]
      PROVE  AllPaired
  <2>1. \A q \in Readers : snap'[q] = IF q = r THEN s ELSE snap[q]
    BY <1>2 DEF TypeOK
  <2>2. QED BY <1>0, <1>2, <2>1
<1>3. ASSUME NEW r \in Readers, NEW s, Paired(s), Unlock(r, s) PROVE AllPaired
  BY <1>2, <1>3 DEF Unlock
<1>4. ASSUME NEW r \in Readers PROVE Paired(Failed(r))
  <2>1. Failed(r).pc = "failed"
    BY DEF Failed, NoSnap
  <2>2. QED BY <2>1 DEF Paired
<1>5. ASSUME NEW r \in Readers, ReadStats(r) PROVE AllPaired
  <2>1. Paired([NoSnap EXCEPT !.seen = totalFloats])
    BY DEF NoSnap, Paired
  <2>2. QED BY <1>2, <1>5, <2>1 DEF ReadStats
<1>6. ASSUME NEW r \in Readers, NEW want \in Wants, NEW end \in 0 .. MaxTotal,
             BeginSnapshot(r, want, end) PROVE AllPaired
  <2>1. Paired([NoSnap EXCEPT !.pc = "sizing", !.seen = snap[r].seen,
                              !.want = want, !.end = end])
    BY DEF NoSnap, Paired
  <2>2. QED BY <1>2, <1>6, <2>1 DEF BeginSnapshot
<1>7. ASSUME NEW r \in Readers, SizeSnapshot(r) PROVE AllPaired
  <2> DEFINE s         == snap[r]
             requested == IF s.end = 0 THEN totalFloats ELSE Least(s.end, totalFloats)
             before    == IF requested > RetainedStart THEN requested - RetainedStart ELSE 0
             allocated == WholePairs(Least(before, s.want))
             t == [s EXCEPT !.pc = "allocated", !.requested = requested,
                            !.allocated = allocated]
  <2>1. s \in SnapType
    BY <1>0
  <2>2. Even(s.end) => Even(requested)
    BY <1>0, EvenLeast
  <2>3. Paired(t)
    <3> HIDE DEF requested, allocated
    <3>1. t.pc = "allocated" /\ t.requested = requested /\ t.end = s.end
      BY <2>1 DEF SnapType
    <3>2. QED BY <2>1, <2>2, <3>1 DEF Paired
  <2>4. CASE allocated = 0
    BY <1>3, <1>4, <1>7, <2>4 DEF SizeSnapshot
  <2>5. CASE allocated # 0
    BY <1>3, <1>7, <2>3, <2>5 DEF SizeSnapshot
  <2>6. QED BY <2>4, <2>5
<1>8. ASSUME NEW r \in Readers, CopyFirstChunk(r) PROVE AllPaired
  <2> DEFINE s     == snap[r]
             least == Least(snapshotSize, Least(s.want, s.allocated))
             count == WholePairs(least)
             end   == IF s.end = 0 THEN totalFloats ELSE s.requested
             start == end - count
             fixed == [s EXCEPT !.requested = 0, !.allocated = 0, !.count = count,
                                !.start = start, !.gen = resetGeneration,
                                !.meta = latestMetadata, !.out = <<>>]
             n     == Least(ChunkFloats, count)
  <2>1. CASE count = 0 \/ start < RetainedStart \/ end > totalFloats
    BY <1>3, <1>4, <1>8, <2>1 DEF CopyFirstChunk
  <2>2. CASE ~ (count = 0 \/ start < RetainedStart \/ end > totalFloats)
    <3>1. /\ s \in SnapType /\ s.pc = "allocated" /\ (Even(s.end) => Even(s.requested))
          /\ s.want \in Nat /\ s.allocated \in Nat /\ s.requested \in Nat
      <4>1. s \in SnapType /\ s.pc = "allocated" /\ (Even(s.end) => Even(s.requested))
        BY <1>0, <1>8 DEF CopyFirstChunk, Paired
      <4>2. s.allocated \in Nat /\ s.requested \in Nat /\ s.want \in Wants \cup {0}
        BY <4>1 DEF SnapType
      <4>3. QED BY <4>1, <4>2, Naturals
    <3>2. resetGeneration \in Nat /\ latestMetadata \in Metadata
      BY DEF TypeOK
    <3>3. least \in Nat
      BY <1>0, <3>1 DEF Least
    <3>4. count \in Nat /\ Even(count)
      <4> HIDE DEF least
      <4>1. QED BY <3>3, PairsAreEven
    <3>5. end \in Nat /\ (Even(s.end) => Even(end))
      BY <1>0, <3>1
    <3> HIDE DEF least, count, end
    <3>6. start \in Int /\ (Even(s.end) => Even(start))
      BY <3>4, <3>5, EvenSum
    <3>7. n \in Nat /\ n <= count
      BY <3>4, Sizes DEF Least
    <3>8. start >= RetainedStart /\ start + n <= totalFloats
      <4> HIDE DEF n
      <4>1. QED BY <1>0, <2>2, <3>4, <3>5, <3>7
    <3>9. fixed \in SnapType
      <4> HIDE DEF start, s
      <4>1. QED BY <3>1, <3>2, <3>4, <3>6, FixedType
    <3>10. fixed.count = count /\ fixed.start = start /\ fixed.end = s.end
      <4> HIDE DEF start, s, n
      <4>1. QED BY <3>1 DEF SnapType
    <3>11. ReadRing(start, n) \in Seq(Float)
      BY <3>6, <3>7, <3>8, ReadRingType
    <3> HIDE DEF start, fixed, n, s
    <3>12. Paired(WithChunk(fixed, ReadRing(start, n)))
      BY <3>1, <3>4, <3>6, <3>9, <3>10, <3>11, ChunkPaired
    <3>13. QED
      BY <1>3, <1>8, <2>2, <3>12 DEF CopyFirstChunk, s, least, count, end, start, fixed, n
  <2>3. QED BY <2>1, <2>2
<1>9. ASSUME NEW r \in Readers, CopyNextChunk(r) PROVE AllPaired
  <2> DEFINE s     == snap[r]
             first == s.start + Len(s.out)
             n     == Least(ChunkFloats, s.count - Len(s.out))
  <2>1. CASE ~ StillThere(s, first, n)
    BY <1>3, <1>4, <1>9, <2>1 DEF CopyNextChunk
  <2>2. CASE StillThere(s, first, n)
    <3>1. /\ s \in SnapType /\ s.pc = "copying" /\ s.start \in Int /\ s.count \in Nat
          /\ Len(s.out) \in Nat
      BY <1>0, <1>9 DEF CopyNextChunk, SnapType
    <3>2. Len(s.out) < s.count
      <4>1. Copied(s)
        BY CopyInvIsCopied
      <4> HIDE DEF s
      <4>2. QED BY <3>1, <4>1 DEF Copied
    <3>3. n \in Nat /\ first \in Int
      <4> HIDE DEF s
      <4>1. QED BY <3>1, <3>2, Sizes DEF Least
    <3>4. first >= RetainedStart /\ first + n <= totalFloats
      BY <2>2 DEF StillThere
    <3>5. ReadRing(first, n) \in Seq(Float)
      BY <3>3, <3>4, ReadRingType
    <3>6. Even(s.count) /\ (Even(s.end) => Even(s.start))
      BY <1>0, <3>1 DEF Paired
    <3>7. Paired(WithChunk(s, ReadRing(first, n)))
      <4> HIDE DEF n, s, first
      <4>1. QED BY <3>1, <3>5, <3>6, ChunkPaired
    <3>8. QED BY <1>3, <1>9, <2>2, <3>7 DEF CopyNextChunk
  <2>3. QED BY <2>1, <2>2
<1>10. ASSUME NEW r \in Readers, LockRing(r) PROVE AllPaired
  BY <1>1, <1>10 DEF LockRing
<1>11. QED
  BY <1>1, <1>5, <1>6, <1>7, <1>8, <1>9, <1>10 DEF Next, PublisherStep,
     BeginPublish, NumberBlock, QueueBlock, FlushQueue, AppendBlock, PopBlock, Clear,
     SetSampleRateEstimate, ReaderStep, vars

\* A snapshot holds whole I/Q pairs, and starts with an I float when it was
\* asked for the newest floats or for an end between two pairs, however its
\* chunks are interleaved with publish() and clear().
THEOREM SnapshotAlignedAsAsked ==
  ASSUME EvenBlocks
  PROVE  Spec => []AlignedAsAsked
<1>1. Init => AlignedInv
  <2> SUFFICES ASSUME Init PROVE AlignedInv
    OBVIOUS
  <2>1. totalFloats = 0 /\ publisher.n = 0
    BY DEF Init, Idle
  <2>2. \A r \in Readers : snap[r].pc = "idle"
    BY DEF Init, NoSnap
  <2>3. QED BY <2>1, <2>2, EvenZero DEF AlignedInv, PairsPublished, Paired
<1>2. IInv /\ AlignedInv /\ [Next]_vars => AlignedInv'
  BY PublishedStep, PairedStep DEF IInv, AlignedInv
<1>3. AlignedInv => AlignedAsAsked
  BY DEF AlignedInv, Paired, AlignedAsAsked, Even
<1>4. QED BY <1>1, <1>2, <1>3, Invariance, PTL DEF Spec
=============================================================================
