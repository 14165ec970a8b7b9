-------------------------- MODULE SpectrumRowProofs --------------------------
(* SpectrumPipeline draws no row twice, for all sizes, settings and batches. *)
(* The window's gate compares only the newest row of a frame with the frame  *)
(* it showed before; that the rows before it follow too is the worker's      *)
(* doing, from what it remembers of the frame it produced last.  It may have *)
(* forgotten that (a reset, a row that could not be copied), and then it     *)
(* begins after what the ring has lost, which is not before any row drawn of *)
(* what the ring holds (Past).  The rows planned are therefore compared with *)
(* the frame shown last and with the frame that waits to be shown (Target).  *)
EXTENDS SpectrumTuneProofs

\* Nothing is cleared while the worker computes for the present generation.
Current == AtWork /\ ui.pc # "reset"

\* What the next rows must not go back to: the end of the frame shown last, and
\* of the frame that waits to be shown.
Newest(rows) == rows[Len(rows)]
Target(e) ==
  \/ shown.resets = buffer.resets /\ e = shown.end
  \/ /\ queue.hasResult /\ ui.pc # "reset" /\ queue.latest.rows # <<>>
     /\ e = Newest(queue.latest.rows).end

BoundInv == \A e \in Nat : Target(e) => e <= Total

ShownInv ==
  /\ shown.resets <= buffer.resets
  /\ shown.resets = buffer.resets =>
       ui.pc # "reset" /\ shown.epoch = buffer.epoch /\ buffer.blocks # <<>>

\* The worker has not yet obeyed the resets that made its frame an old one.
ResetInv == worker.pc # "waiting" => (queue.reset <=> worker.frame.gen # queue.gen)

StartedInv == buffer.epoch # 0 /\ (reader.pc = "clearing" => reader.epoch # 0)

PlannedInv == worker.pc = "planning" => worker.frame.rows = <<>>

\* A batch that continues what was produced last goes back to no target: it
\* begins after what was produced last, or after what the ring has lost.
Past(floats, e, end, start) == end >= e \/ start + floats > e
LastInv ==
  /\ worker.pc \in {"waiting", "planning"} /\ ~ queue.reset /\ last.epoch = buffer.epoch
  => \A e \in Nat : Target(e) => Past(last.setting.floats, e, last.end, RetainedStart)

\* Positions at least a hop apart.
Spaced(ends, hop) == \A k \in 1 .. Len(ends) - 1 : ends[k + 1] - ends[k] >= hop
RowsSpaced(rows, hop) == \A k \in 1 .. Len(rows) - 1 : rows[k + 1].end - rows[k].end >= hop

EndsInv(s, rows, ends, total, end) ==
  /\ s.batch => \A k \in DOMAIN ends : ends[k] # 0
  /\ ~ s.batch => Len(rows) + Len(ends) <= 1 /\ \A k \in DOMAIN ends : ends[k] = 0
  /\ \A k \in DOMAIN ends : ends[k] <= total
  /\ \A k \in DOMAIN rows : rows[k].end <= total
  /\ Spaced(ends, Hop(s)) /\ RowsSpaced(rows, Hop(s))
  /\ rows # <<>> /\ ends # <<>> => ends[1] - Newest(rows).end >= Hop(s)
  /\ s.batch /\ rows # <<>> => end = Newest(rows).end

\* The rows of the frame and those planned against a target.
After(s, rows, ends, e, end, start) ==
  /\ \A k \in DOMAIN ends : ends[k] = 0 \/ ends[k] >= e
  /\ \A k \in DOMAIN rows : rows[k].end >= e
  /\ Len(rows) + Len(ends) >= 2 =>
       (\A k \in DOMAIN ends : ends[k] > e) /\ (\A k \in DOMAIN rows : rows[k].end > e)
  /\ s.batch /\ ends = <<>> => Past(s.floats, e, end, start)

WorkInv ==
  Current /\ worker.pc \in {"rows", "copying"} =>
    /\ EndsInv(worker.frame.setting, worker.frame.rows, worker.ends, Total, last.end)
    /\ \A e \in Nat : Target(e) =>
         After(worker.frame.setting, worker.frame.rows, worker.ends, e, last.end, RetainedStart)

CopyInv ==
  Current /\ worker.pc = "copying" =>
    /\ worker.row.resets = buffer.resets /\ worker.row.end <= Total
    /\ worker.row.end <= worker.start + worker.frame.setting.floats
    /\ worker.ends[1] # 0 => worker.row.end = worker.ends[1]
    /\ \A e \in Nat : Target(e) => worker.row.end >= e

LatestInv ==
  queue.hasResult /\ ui.pc # "reset" =>
    /\ RowsSpaced(queue.latest.rows, Hop(queue.latest.setting))
    /\ Len(queue.latest.rows) >= 2 /\ shown.resets = buffer.resets =>
         \A k \in DOMAIN queue.latest.rows : queue.latest.rows[k].end > shown.end

RowInv ==
  /\ BoundInv /\ ShownInv /\ ResetInv /\ StartedInv /\ PlannedInv /\ LastInv
  /\ WorkInv /\ CopyInv /\ LatestInv /\ NoRowTwice

-----------------------------------------------------------------------------
(* Sequences and positions *)

LEMMA Types ==
  ASSUME IInv
  PROVE  /\ buffer \in BufferType /\ ui \in UiType /\ queue \in QueueType
         /\ worker \in WorkerType /\ last \in LastType /\ shown \in ShownType
         /\ reader \in ReaderType /\ epoch \in Nat \ {0}
         /\ worker.frame \in FrameType /\ worker.frame.rows \in Seq(RowType)
         /\ worker.ends \in Seq(Nat) /\ worker.row \in RowType /\ worker.start \in Nat
         /\ queue.latest \in FrameType /\ queue.latest.rows \in Seq(RowType)
         /\ queue.gen \in Nat /\ worker.frame.gen \in Nat
         /\ last.end \in Nat /\ last.setting \in Settings \cup {NoSetting}
         /\ shown.end \in Nat /\ buffer.resets \in Nat /\ shown.resets \in Nat \cup {-1}
<1>1. /\ buffer \in BufferType /\ ui \in UiType /\ queue \in QueueType
      /\ worker \in WorkerType /\ last \in LastType /\ shown \in ShownType
      /\ reader \in ReaderType /\ epoch \in Nat \ {0}
  BY TypeOKIs DEF IInv
<1>2. /\ worker.frame \in FrameType /\ worker.ends \in Seq(Nat) /\ worker.row \in RowType
      /\ worker.start \in Nat
  BY <1>1 DEF WorkerType
<1>3. queue.latest \in FrameType /\ queue.gen \in Nat
  BY <1>1 DEF QueueType
<1>4. /\ worker.frame.rows \in Seq(RowType) /\ queue.latest.rows \in Seq(RowType)
      /\ worker.frame.gen \in Nat
  BY <1>2, <1>3 DEF FrameType
<1>5. last.end \in Nat /\ last.setting \in Settings \cup {NoSetting}
  BY <1>1 DEF LastType
<1>6. /\ shown.end \in Nat /\ buffer.resets \in Nat /\ shown.resets \in Nat \cup {-1}
  BY <1>1 DEF ShownType, BufferType
<1> QED
  BY <1>1, <1>2, <1>3, <1>4, <1>5, <1>6

LEMMA Rests ==
  ASSUME NEW ends \in Seq(Nat), ends # <<>>
  PROVE  /\ Tail(ends) \in Seq(Nat) /\ Len(Tail(ends)) = Len(ends) - 1
         /\ Len(ends) \in Nat \ {0} /\ ends[1] \in Nat /\ Head(ends) = ends[1]
         /\ \A k \in DOMAIN Tail(ends) : k + 1 \in DOMAIN ends /\ Tail(ends)[k] = ends[k + 1]
OBVIOUS

LEMMA Extended ==
  ASSUME NEW rows \in Seq(RowType), NEW row \in RowType
  PROVE  /\ Append(rows, row) \in Seq(RowType) /\ Len(Append(rows, row)) = Len(rows) + 1
         /\ Newest(Append(rows, row)) = row /\ Len(rows) \in Nat
         /\ \A k \in DOMAIN rows : Append(rows, row)[k] = rows[k]
         /\ \A k \in DOMAIN Append(rows, row) :
              k \in DOMAIN rows \/ (k = Len(rows) + 1 /\ Append(rows, row)[k] = row)
<1> DEFINE more == Append(rows, row)
<1>1. /\ more \in Seq(RowType) /\ Len(more) = Len(rows) + 1 /\ Len(rows) \in Nat
      /\ more[Len(rows) + 1] = row
      /\ \A k \in 1 .. Len(rows) : more[k] = rows[k]
  OBVIOUS
<1>2. DOMAIN more = 1 .. Len(rows) + 1 /\ DOMAIN rows = 1 .. Len(rows)
  BY <1>1
<1> HIDE DEF more
<1>3. Newest(more) = row
  BY <1>1 DEF Newest
<1>4. \A k \in DOMAIN more : k \in DOMAIN rows \/ (k = Len(rows) + 1 /\ more[k] = row)
  BY <1>1, <1>2
<1> QED
  BY <1>1, <1>2, <1>3, <1>4 DEF more

LEMMA NewestTyped ==
  ASSUME NEW rows \in Seq(RowType), rows # <<>>
  PROVE  /\ Len(rows) \in DOMAIN rows /\ Newest(rows) \in RowType /\ Newest(rows).end \in Nat
<1>1. Len(rows) \in DOMAIN rows /\ rows[Len(rows)] \in RowType
  OBVIOUS
<1> QED
  BY <1>1 DEF Newest, RowType

LEMMA HopTyped ==
  ASSUME NEW s \in Settings
  PROVE  Hop(s) \in Nat \ {0}
BY SettingsTyped DEF Hop, Largest

\* A row has been copied, and the worker remembers it.
LEMMA EndsCopied ==
  ASSUME NEW s \in Settings, NEW rows \in Seq(RowType), NEW ends \in Seq(Nat), ends # <<>>,
         NEW row \in RowType, NEW total, NEW end, EndsInv(s, rows, ends, total, end),
         ends[1] # 0 => row.end = ends[1], row.end <= total
  PROVE  EndsInv(s, Append(rows, row), Tail(ends), total, row.end)
<1> DEFINE more == Append(rows, row)
           rest == Tail(ends)
<1>1. /\ rest \in Seq(Nat) /\ Len(rest) = Len(ends) - 1 /\ Len(ends) \in Nat \ {0}
      /\ ends[1] \in Nat
      /\ \A k \in DOMAIN rest : k + 1 \in DOMAIN ends /\ rest[k] = ends[k + 1]
  BY Rests
<1>2. /\ more \in Seq(RowType) /\ Len(more) = Len(rows) + 1 /\ Newest(more) = row
      /\ Len(rows) \in Nat /\ \A k \in DOMAIN rows : more[k] = rows[k]
      /\ \A k \in DOMAIN more : k \in DOMAIN rows \/ (k = Len(rows) + 1 /\ more[k] = row)
  BY Extended
<1>3. Hop(s) \in Nat \ {0}
  BY HopTyped
<1> HIDE DEF more, rest
<1>4. s.batch => \A k \in DOMAIN rest : rest[k] # 0
  BY <1>1 DEF EndsInv
<1>5. ~ s.batch => Len(more) + Len(rest) <= 1 /\ \A k \in DOMAIN rest : rest[k] = 0
  BY <1>1, <1>2 DEF EndsInv
<1>6. (\A k \in DOMAIN rest : rest[k] <= total) /\ (\A k \in DOMAIN more : more[k].end <= total)
  BY <1>1, <1>2 DEF EndsInv
<1>7. Spaced(rest, Hop(s))
  <2> SUFFICES ASSUME NEW k \in 1 .. Len(rest) - 1 PROVE rest[k + 1] - rest[k] >= Hop(s)
    BY DEF Spaced
  <2>1. k \in DOMAIN rest /\ k + 1 \in DOMAIN rest /\ k + 1 \in 1 .. Len(ends) - 1
    BY <1>1
  <2>2. rest[k] = ends[k + 1] /\ rest[k + 1] = ends[k + 1 + 1]
    BY <1>1, <2>1
  <2> QED
    BY <2>1, <2>2 DEF EndsInv, Spaced
<1>8. s.batch => row.end = ends[1]
  <2>1. 1 \in DOMAIN ends
    BY <1>1
  <2> QED
    BY <2>1 DEF EndsInv
<1>9. RowsSpaced(more, Hop(s))
  <2> SUFFICES ASSUME NEW k \in 1 .. Len(more) - 1 PROVE more[k + 1].end - more[k].end >= Hop(s)
    BY DEF RowsSpaced
  <2>1. k \in DOMAIN rows /\ more[k] = rows[k]
    BY <1>2
  <2>2. CASE k + 1 \in DOMAIN rows
    <3>1. DOMAIN rows = 1 .. Len(rows)
      OBVIOUS
    <3>2. k \in 1 .. Len(rows) - 1
      BY <1>2, <2>2, <3>1
    <3>3. more[k + 1] = rows[k + 1]
      BY <1>2, <2>2
    <3> QED
      BY <2>1, <3>2, <3>3 DEF EndsInv, RowsSpaced
  <2>3. CASE k + 1 \notin DOMAIN rows
    <3>1. k = Len(rows) /\ more[k + 1] = row /\ rows # <<>> /\ rows[k] = Newest(rows)
      BY <1>2, <2>1, <2>3 DEF Newest
    <3>2. s.batch
      BY <1>1, <1>2, <3>1 DEF EndsInv
    <3> QED
      BY <1>8, <2>1, <3>1, <3>2 DEF EndsInv
  <2> QED
    BY <2>2, <2>3
<1>10. more # <<>> /\ rest # <<>> => rest[1] - Newest(more).end >= Hop(s)
  <2> SUFFICES ASSUME rest # <<>> PROVE rest[1] - row.end >= Hop(s)
    BY <1>2
  <2>1. 1 \in DOMAIN rest /\ 1 \in 1 .. Len(ends) - 1
    BY <1>1
  <2>2. rest[1] = ends[1 + 1] /\ ends[1 + 1] - ends[1] >= Hop(s)
    BY <1>1, <2>1 DEF EndsInv, Spaced
  <2>3. s.batch
    <3>1. ~ s.batch => Len(rows) + Len(ends) <= 1
      BY DEF EndsInv
    <3>2. Len(ends) >= 2
      BY <1>1, <2>1
    <3> QED
      BY <1>2, <1>1, <3>1, <3>2
  <2> QED
    BY <1>8, <2>2, <2>3
<1>11. s.batch /\ more # <<>> => row.end = Newest(more).end
  BY <1>2
<1> QED
  BY <1>4, <1>5, <1>6, <1>7, <1>9, <1>10, <1>11 DEF EndsInv, more, rest, Spaced, RowsSpaced, Newest

\* A row has been given up.
LEMMA EndsSkipped ==
  ASSUME NEW s \in Settings, NEW rows \in Seq(RowType), NEW ends \in Seq(Nat), ends # <<>>,
         NEW total, NEW end, EndsInv(s, rows, ends, total, end)
  PROVE  EndsInv(s, rows, Tail(ends), total, end)
<1> DEFINE rest == Tail(ends)
<1>1. /\ rest \in Seq(Nat) /\ Len(rest) = Len(ends) - 1 /\ Len(ends) \in Nat \ {0}
      /\ ends[1] \in Nat
      /\ \A k \in DOMAIN rest : k + 1 \in DOMAIN ends /\ rest[k] = ends[k + 1]
  BY Rests
<1>2. Hop(s) \in Nat \ {0}
  BY HopTyped
<1> HIDE DEF rest
<1>3. s.batch => \A k \in DOMAIN rest : rest[k] # 0
  BY <1>1 DEF EndsInv
<1>4. ~ s.batch => Len(rows) + Len(rest) <= 1 /\ \A k \in DOMAIN rest : rest[k] = 0
  BY <1>1 DEF EndsInv
<1>5. \A k \in DOMAIN rest : rest[k] <= total
  BY <1>1 DEF EndsInv
<1>6. Spaced(rest, Hop(s))
  <2> SUFFICES ASSUME NEW k \in 1 .. Len(rest) - 1 PROVE rest[k + 1] - rest[k] >= Hop(s)
    BY DEF Spaced
  <2>1. k \in DOMAIN rest /\ k + 1 \in DOMAIN rest /\ k + 1 \in 1 .. Len(ends) - 1
    BY <1>1
  <2>2. rest[k] = ends[k + 1] /\ rest[k + 1] = ends[k + 1 + 1]
    BY <1>1, <2>1
  <2> QED
    BY <2>1, <2>2 DEF EndsInv, Spaced
<1>7. rows # <<>> /\ rest # <<>> => rest[1] - Newest(rows).end >= Hop(s)
  <2> SUFFICES ASSUME rows # <<>>, rest # <<>> PROVE rest[1] - Newest(rows).end >= Hop(s)
    OBVIOUS
  <2>1. 1 \in DOMAIN rest /\ 1 \in 1 .. Len(ends) - 1
    BY <1>1
  <2>2. rest[1] = ends[1 + 1] /\ ends[1 + 1] - ends[1] >= Hop(s) /\ rest[1] \in Nat
    BY <1>1, <2>1 DEF EndsInv, Spaced
  <2>3. Newest(rows).end \in Nat
    BY NewestTyped
  <2>4. ends[1] - Newest(rows).end >= Hop(s)
    BY DEF EndsInv
  <2> QED
    BY <1>1, <1>2, <2>2, <2>3, <2>4
<1> QED
  BY <1>3, <1>4, <1>5, <1>6, <1>7 DEF EndsInv, rest, Spaced, RowsSpaced, Newest

LEMMA AfterCopied ==
  ASSUME NEW s \in Settings, NEW rows \in Seq(RowType), NEW ends \in Seq(Nat), ends # <<>>,
         NEW row \in RowType, NEW e \in Nat, NEW end, NEW start,
         After(s, rows, ends, e, end, start),
         ends[1] # 0 => row.end = ends[1], row.end >= e
  PROVE  After(s, Append(rows, row), Tail(ends), e, row.end, start)
<1> DEFINE more == Append(rows, row)
           rest == Tail(ends)
<1>1. /\ rest \in Seq(Nat) /\ Len(rest) = Len(ends) - 1 /\ Len(ends) \in Nat \ {0}
      /\ ends[1] \in Nat
      /\ \A k \in DOMAIN rest : k + 1 \in DOMAIN ends /\ rest[k] = ends[k + 1]
  BY Rests
<1>2. /\ more \in Seq(RowType) /\ Len(more) = Len(rows) + 1
      /\ Len(rows) \in Nat /\ \A k \in DOMAIN rows : more[k] = rows[k]
      /\ \A k \in DOMAIN more : k \in DOMAIN rows \/ (k = Len(rows) + 1 /\ more[k] = row)
  BY Extended
<1> HIDE DEF more, rest
<1>3. \A k \in DOMAIN rest : rest[k] = 0 \/ rest[k] >= e
  BY <1>1 DEF After
<1>4. \A k \in DOMAIN more : more[k].end >= e
  BY <1>2 DEF After
<1>5. Len(more) + Len(rest) >= 2 =>
        (\A k \in DOMAIN rest : rest[k] > e) /\ (\A k \in DOMAIN more : more[k].end > e)
  <2> SUFFICES ASSUME Len(more) + Len(rest) >= 2
      PROVE  (\A k \in DOMAIN rest : rest[k] > e) /\ (\A k \in DOMAIN more : more[k].end > e)
    OBVIOUS
  <2>1. Len(rows) + Len(ends) >= 2
    BY <1>1, <1>2
  <2>2. (\A k \in DOMAIN ends : ends[k] > e) /\ (\A k \in DOMAIN rows : rows[k].end > e)
    BY <2>1 DEF After
  <2>3. row.end > e
    <3>1. 1 \in DOMAIN ends
      BY <1>1
    <3>2. ends[1] > e
      BY <2>2, <3>1
    <3>3. ends[1] # 0
      BY <1>1, <3>2
    <3> QED
      BY <3>2, <3>3
  <2> QED
    BY <1>1, <1>2, <2>2, <2>3
<1>6. Past(s.floats, e, row.end, start)
  BY DEF Past
<1> QED
  BY <1>3, <1>4, <1>5, <1>6 DEF After, more, rest

LEMMA AfterSkipped ==
  ASSUME NEW s \in Settings, NEW rows \in Seq(RowType), NEW ends \in Seq(Nat), ends # <<>>,
         NEW e \in Nat, NEW end, NEW start, After(s, rows, ends, e, end, start),
         s.batch => start + s.floats > e
  PROVE  After(s, rows, Tail(ends), e, end, start)
<1> DEFINE rest == Tail(ends)
<1>1. /\ rest \in Seq(Nat) /\ Len(rest) = Len(ends) - 1 /\ Len(ends) \in Nat \ {0}
      /\ \A k \in DOMAIN rest : k + 1 \in DOMAIN ends /\ rest[k] = ends[k + 1]
  BY Rests
<1>2. Len(rows) \in Nat
  OBVIOUS
<1> HIDE DEF rest
<1>3. \A k \in DOMAIN rest : rest[k] = 0 \/ rest[k] >= e
  BY <1>1 DEF After
<1>4. Len(rows) + Len(rest) >= 2 =>
        (\A k \in DOMAIN rest : rest[k] > e) /\ (\A k \in DOMAIN rows : rows[k].end > e)
  BY <1>1, <1>2 DEF After
<1>5. s.batch => Past(s.floats, e, end, start)
  BY DEF Past
<1> QED
  BY <1>3, <1>4, <1>5 DEF After, rest

-----------------------------------------------------------------------------
(* The rows planned *)

LEMMA ContinuedIs ==
  ASSUME buffer \in BufferType, last \in LastType, NEW s \in Settings
  PROVE  /\ NextRow(s) \in Nat /\ NextRow(s) >= last.end + Hop(s)
         /\ NextRow(s) >= RetainedStart + s.floats
         /\ \A k \in DOMAIN Continued(s) : Continued(s)[k] \in Nat
                                           /\ NextRow(s) <= Continued(s)[k] /\ Continued(s)[k] <= Total
         /\ Spaced(Continued(s), Hop(s))
<1> DEFINE hop == Hop(s)
           next == NextRow(s)
           rows == IF next > Total THEN 0 ELSE (Total - next) \div hop + 1
           count == Least(rows, MaxRows)
           ends == Continued(s)
<1>1. hop \in Nat \ {0}
  BY HopTyped
<1>2. Total \in Nat /\ RetainedStart \in Nat
  BY Positions
<1>3. next \in Nat /\ next >= last.end + hop /\ next >= RetainedStart + s.floats
  <2>1. last.end \in Nat /\ s.floats \in Nat
    BY SettingsTyped DEF LastType
  <2> QED
    BY <1>1, <1>2, <2>1 DEF NextRow, Largest
<1>4. ends = [k \in 1 .. count |-> next + (rows - count + k - 1) * hop]
  BY Zenon DEF Continued
<1>5. ends \in Seq(Nat)
  BY ContinuedTyped
<1> HIDE DEF hop, next, ends
<1>6. rows \in Nat /\ (rows # 0 => next + (rows - 1) * hop <= Total)
  <2>1. CASE next > Total
    BY <2>1
  <2>2. CASE ~ (next > Total)
    <3> DEFINE rest == Total - next
               q == rest \div hop
               r == rest % hop
    <3>1. rest \in Nat /\ rest + next = Total
      BY <1>2, <1>3, <2>2
    <3>2. rows = q + 1
      BY <2>2
    <3> HIDE DEF rest, rows
    <3>3. q \in Nat /\ r \in Nat /\ rest = hop * q + r
      BY <1>1, <3>1
    <3> HIDE DEF q, r
    <3>4. rows - 1 = q /\ rows \in Nat
      BY <3>2, <3>3
    <3>5. hop * q = q * hop /\ q * hop \in Nat
      BY <1>1, <3>3
    <3> DEFINE m == q * hop
    <3>6. m \in Nat /\ rest = m + r
      BY <3>3, <3>5
    <3> HIDE DEF m
    <3>7. next + m <= Total
      BY <1>3, <3>1, <3>3, <3>6
    <3> QED
      BY <3>4, <3>7 DEF m
  <2> QED
    BY <2>1, <2>2
<1>7. count \in Nat /\ count <= rows
  BY <1>6, PipelineAssumption DEF Least
<1> HIDE DEF rows, count
<1>8. DOMAIN ends = 1 .. count /\ Len(ends) = count
  BY <1>4, <1>5, <1>7
<1>9. ASSUME NEW k \in 1 .. count
      PROVE  ends[k] \in Nat /\ next <= ends[k] /\ ends[k] <= Total
  <2> DEFINE m == rows - count + k - 1
             q == rows - 1
  <2>1. m \in Nat /\ q \in Nat /\ m <= q /\ rows # 0
    BY <1>6, <1>7
  <2>2. ends[k] = next + m * hop
    BY <1>4
  <2>3. next + q * hop <= Total
    BY <1>6, <2>1
  <2> HIDE DEF m, q
  <2>4. m * hop \in Nat /\ q * hop \in Nat /\ m * hop <= q * hop
    BY <1>1, <2>1
  <2> DEFINE mh == m * hop
             qh == q * hop
  <2>5. mh \in Nat /\ qh \in Nat /\ mh <= qh /\ next + qh <= Total /\ ends[k] = next + mh
    BY <2>2, <2>3, <2>4
  <2> HIDE DEF mh, qh
  <2> QED
    BY <1>2, <1>3, <2>5
<1>10. ASSUME NEW k \in 1 .. count - 1
       PROVE  ends[k + 1] - ends[k] >= hop
  <2> DEFINE m == rows - count + k - 1
  <2>1. m \in Nat /\ k \in 1 .. count /\ k + 1 \in 1 .. count
    BY <1>6, <1>7
  <2>2. ends[k] = next + m * hop
    BY <1>4, <2>1
  <2>3. rows - count + (k + 1) - 1 = m + 1
    BY <1>6, <1>7
  <2>4. ends[k + 1] = next + (m + 1) * hop
    BY <1>4, <2>1, <2>3
  <2> HIDE DEF m
  <2>5. (m + 1) * hop = m * hop + hop /\ m * hop \in Nat
    BY <1>1, <2>1
  <2> DEFINE mh == m * hop
  <2>6. mh \in Nat /\ ends[k] = next + mh /\ ends[k + 1] = next + (mh + hop)
    BY <2>2, <2>4, <2>5
  <2> HIDE DEF mh
  <2> QED
    BY <1>1, <1>3, <2>6
<1>11. Spaced(ends, hop)
  BY <1>8, <1>10 DEF Spaced
<1> QED
  BY <1>3, <1>8, <1>9, <1>11 DEF hop, next, ends

\* What Plan may plan: rows that continue, the newest samples, or nothing.
LEMMA RowEndsIs ==
  ASSUME buffer \in BufferType, last \in LastType, NEW s \in Settings
  PROVE  \/ ~ s.batch /\ RowEnds(s) = <<0>>
         \/ s.batch /\ SameTimeline(s) /\ RowEnds(s) = Continued(s)
         \/ s.batch /\ Total >= s.floats /\ RowEnds(s) = <<Total>>
         \/ s.batch /\ (SameTimeline(s) \/ Total < s.floats) /\ RowEnds(s) = <<>>
<1>1. Total \in Nat /\ s.floats \in Nat
  BY Positions, SettingsTyped
<1>2. CASE ~ s.batch
  BY <1>2, Zenon DEF RowEnds
<1>3. CASE s.batch
  <2> DEFINE continued == IF SameTimeline(s) /\ Total > last.end THEN Continued(s) ELSE <<>>
  <2>1. CASE continued # <<>>
    <3>1. RowEnds(s) = continued
      BY <1>3, <2>1, Zenon DEF RowEnds
    <3>2. SameTimeline(s) /\ continued = Continued(s)
      BY <2>1
    <3> QED
      BY <1>3, <3>1, <3>2
  <2>2. CASE continued = <<>>
    <3>1. RowEnds(s) = IF (~ SameTimeline(s) \/ last.end = 0) /\ Total >= s.floats THEN <<Total>>
                       ELSE <<>>
      BY <1>3, <2>2, Zenon DEF RowEnds
    <3> QED
      BY <1>1, <1>3, <3>1
  <2> QED
    BY <2>1, <2>2
<1> QED
  BY <1>2, <1>3

LEMMA PlannedEnds ==
  ASSUME buffer \in BufferType, last \in LastType, NEW s \in Settings
  PROVE  EndsInv(s, <<>>, RowEnds(s), Total, last.end)
<1> DEFINE ends == RowEnds(s)
<1>1. /\ Total \in Nat /\ RetainedStart \in Nat /\ s.floats \in Nat \ {0} /\ s.batch \in BOOLEAN
      /\ last.end \in Nat
  BY Positions, SettingsTyped DEF LastType
<1>2. Hop(s) \in Nat \ {0}
  BY HopTyped
<1>3. ends \in Seq(Nat)
  BY RowEndsTyped
<1>4. /\ s.batch => \A k \in DOMAIN ends : ends[k] # 0
      /\ ~ s.batch => Len(ends) <= 1 /\ \A k \in DOMAIN ends : ends[k] = 0
      /\ \A k \in DOMAIN ends : ends[k] <= Total
      /\ Spaced(ends, Hop(s))
  <2>1. CASE ~ s.batch /\ ends = <<0>>
    BY <1>1, <2>1 DEF Spaced
  <2>2. CASE s.batch /\ ends = Continued(s)
    <3> DEFINE c == Continued(s)
    <3>1. /\ \A k \in DOMAIN c : c[k] \in Nat /\ NextRow(s) <= c[k] /\ c[k] <= Total
          /\ NextRow(s) \in Nat /\ NextRow(s) >= RetainedStart + s.floats
          /\ Spaced(c, Hop(s))
      BY ContinuedIs
    <3>2. ends = c
      BY <2>2
    <3> HIDE DEF ends, c
    <3> QED
      BY <1>1, <2>2, <3>1, <3>2
  <2>3. CASE s.batch /\ Total >= s.floats /\ ends = <<Total>>
    BY <1>1, <2>3 DEF Spaced
  <2>4. CASE s.batch /\ ends = <<>>
    BY <1>1, <2>4 DEF Spaced
  <2> QED
    BY <2>1, <2>2, <2>3, <2>4, RowEndsIs
<1> HIDE DEF ends
<1>5. RowsSpaced(<<>>, Hop(s)) /\ Len(<<>>) + Len(ends) = Len(ends)
  BY <1>3 DEF RowsSpaced
<1> QED
  BY <1>4, <1>5 DEF EndsInv, ends

LEMMA PlannedAfter ==
  ASSUME buffer \in BufferType, last \in LastType, NEW s \in Settings, NEW e \in Nat,
         e <= Total, last.epoch = buffer.epoch => Past(last.setting.floats, e, last.end, RetainedStart)
  PROVE  After(s, <<>>, RowEnds(s), e, last.end, RetainedStart)
<1> DEFINE ends == RowEnds(s)
<1>1. /\ Total \in Nat /\ RetainedStart \in Nat /\ s.floats \in Nat \ {0} /\ s.batch \in BOOLEAN
      /\ last.end \in Nat
  BY Positions, SettingsTyped DEF LastType
<1>2. Hop(s) \in Nat \ {0}
  BY HopTyped
<1>3. SameTimeline(s) => Past(s.floats, e, last.end, RetainedStart)
  <2> SUFFICES ASSUME SameTimeline(s) PROVE Past(s.floats, e, last.end, RetainedStart)
    OBVIOUS
  <2>1. last.setting.floats = s.floats
    <3> DEFINE a == [s EXCEPT !.batch = FALSE]
               b == [last.setting EXCEPT !.batch = FALSE]
    <3>1. a = b
      BY Zenon DEF SameTimeline
    <3>2. s \in SettingType /\ last.setting \in SettingType \cup {NoSetting}
      BY PipelineAssumption DEF LastType
    <3>3. a.floats = s.floats
      BY <3>2 DEF SettingType
    <3>4. b.floats = last.setting.floats
      BY <3>2 DEF SettingType, NoSetting
    <3> QED
      BY <3>1, <3>3, <3>4
  <2> QED
    BY <2>1 DEF SameTimeline
<1>4. /\ \A k \in DOMAIN ends : ends[k] = 0 \/ ends[k] >= e
      /\ Len(ends) >= 2 => \A k \in DOMAIN ends : ends[k] > e
      /\ s.batch /\ ends = <<>> => Past(s.floats, e, last.end, RetainedStart)
  <2>1. CASE ~ s.batch /\ ends = <<0>>
    BY <1>1, <2>1
  <2>2. CASE s.batch /\ SameTimeline(s) /\ ends = Continued(s)
    <3> DEFINE c == Continued(s)
    <3>1. /\ \A k \in DOMAIN c : c[k] \in Nat /\ NextRow(s) <= c[k]
          /\ NextRow(s) \in Nat /\ NextRow(s) >= RetainedStart + s.floats
          /\ NextRow(s) >= last.end + Hop(s)
      BY ContinuedIs
    <3>2. ends = c /\ Past(s.floats, e, last.end, RetainedStart)
      BY <1>3, <2>2
    <3>3. NextRow(s) > e
      BY <1>1, <1>2, <3>1, <3>2 DEF Past
    <3> HIDE DEF ends, c
    <3> QED
      BY <1>1, <3>1, <3>2, <3>3
  <2>3. CASE s.batch /\ ends = <<Total>>
    BY <1>1, <2>3
  <2>4. CASE s.batch /\ (SameTimeline(s) \/ Total < s.floats) /\ ends = <<>>
    BY <1>1, <1>3, <2>4 DEF Past
  <2> QED
    BY <2>1, <2>2, <2>3, <2>4, RowEndsIs
<1>5. ends \in Seq(Nat)
  BY RowEndsTyped
<1> HIDE DEF ends
<1>6. Len(<<>>) + Len(ends) = Len(ends)
  BY <1>5
<1> QED
  BY <1>4, <1>6 DEF After, ends

-----------------------------------------------------------------------------
(* What stays *)

\* The targets go away when the buffer or the worker starts anew.
LEMMA NoTargets ==
  ASSUME PlannedInv', ~ Current', \A e \in Nat : ~ Target(e)'
  PROVE  BoundInv' /\ LastInv' /\ WorkInv' /\ CopyInv'
BY DEF BoundInv, LastInv, WorkInv, CopyInv

LEMMA PastGrown ==
  ASSUME NEW floats \in Nat, NEW e \in Nat, NEW end \in Nat, NEW start \in Nat,
         NEW later \in Nat, later >= start, Past(floats, e, end, start)
  PROVE  Past(floats, e, end, later)
BY DEF Past

LEMMA EndsGrown ==
  ASSUME NEW s, NEW rows \in Seq(RowType), NEW ends \in Seq(Nat), NEW total \in Nat,
         NEW end, NEW later \in Nat, later >= total, EndsInv(s, rows, ends, total, end)
  PROVE  EndsInv(s, rows, ends, later, end)
<1>1. \A k \in DOMAIN ends : ends[k] \in Nat
  OBVIOUS
<1>2. \A k \in DOMAIN rows : rows[k].end \in Nat
  <2>1. \A k \in DOMAIN rows : rows[k] \in RowType
    OBVIOUS
  <2> QED
    BY <2>1 DEF RowType
<1> QED
  BY <1>1, <1>2 DEF EndsInv

LEMMA AfterGrown ==
  ASSUME NEW s, s.floats \in Nat, NEW rows, NEW ends, NEW e \in Nat, NEW end \in Nat,
         NEW start \in Nat, NEW later \in Nat, later >= start,
         After(s, rows, ends, e, end, start)
  PROVE  After(s, rows, ends, e, end, later)
BY PastGrown DEF After

LEMMA Grown ==
  ASSUME IInv, RowInv, worker' = worker, last' = last,
         buffer'.resets = buffer.resets,
         buffer'.epoch = buffer.epoch \/ \A e \in Nat : ~ Target(e)',
         Total' \in Nat, Total' >= Total, RetainedStart' \in Nat,
         RetainedStart' >= RetainedStart,
         \A e \in Nat : Target(e)' => Target(e),
         Current' => Current, queue.reset => queue'.reset
  PROVE  BoundInv' /\ PlannedInv' /\ LastInv' /\ WorkInv' /\ CopyInv'
<1>1. /\ Total \in Nat /\ RetainedStart \in Nat
      /\ worker.frame.rows \in Seq(RowType) /\ worker.ends \in Seq(Nat) /\ worker.row \in RowType
      /\ last.end \in Nat /\ last.setting.floats \in Nat /\ worker.frame.setting.floats \in Nat
  <2>1. worker.frame.setting \in Settings \cup {NoSetting}
    BY Types DEF FrameType
  <2> QED
    BY <2>1, Types, Positions, SettingsTyped
<1>2. BoundInv'
  BY <1>1 DEF RowInv, BoundInv
<1>3. PlannedInv'
  BY DEF RowInv, PlannedInv
<1>4. LastInv'
  BY <1>1, PastGrown DEF RowInv, LastInv
<1>5. WorkInv'
  <2> SUFFICES ASSUME Current', worker.pc \in {"rows", "copying"} PROVE WorkInv'
    BY DEF WorkInv
  <2> DEFINE s == worker.frame.setting
             rows == worker.frame.rows
             ends == worker.ends
  <2>1. /\ EndsInv(s, rows, ends, Total, last.end)
        /\ \A e \in Nat : Target(e) => After(s, rows, ends, e, last.end, RetainedStart)
    BY DEF RowInv, WorkInv
  <2>2. EndsInv(s, rows, ends, Total', last.end)
    BY <1>1, <2>1, EndsGrown
  <2>3. ASSUME NEW e \in Nat, Target(e)'
        PROVE  After(s, rows, ends, e, last.end, RetainedStart')
    <3>1. After(s, rows, ends, e, last.end, RetainedStart)
      BY <2>1, <2>3
    <3> QED
      BY <1>1, <3>1, AfterGrown
  <2> QED
    BY <2>2, <2>3 DEF WorkInv
<1>6. CopyInv'
  <2>1. worker.row.end \in Nat
    BY <1>1 DEF RowType
  <2> QED
    BY <1>1, <2>1 DEF RowInv, CopyInv
<1> QED
  BY <1>2, <1>3, <1>4, <1>5, <1>6

\* A buffer that was cleared holds nothing of what was shown.
LEMMA EmptyShown ==
  ASSUME ShownInv, buffer.blocks = <<>>
  PROVE  shown.resets # buffer.resets
BY DEF ShownInv

-----------------------------------------------------------------------------
(* The reader thread *)

LEMMA ReaderRow ==
  ASSUME IInv, RowInv, ReaderStep
  PROVE  RowInv'
<1>1. /\ epoch' = epoch /\ ui' = ui /\ queue' = queue /\ shown' = shown
      /\ worker' = worker /\ drawn' = drawn /\ last' = last
  BY DEF ReaderStep, ReaderUnchanged, LoadStartEpoch, ClearAtStart, Receive, LoadEpoch, Publish
<1>2. /\ reader \in ReaderType /\ buffer \in BufferType /\ epoch \in Nat \ {0}
      /\ Total \in Nat /\ RetainedStart \in Nat
  BY TypeOKIs, Positions DEF IInv
<1>3. ResetInv' /\ NoRowTwice'
  BY <1>1 DEF RowInv, ResetInv, NoRowTwice, Drawn
<1>4. buffer'.resets = buffer.resets => LatestInv'
  BY <1>1 DEF RowInv, LatestInv
<1>5. Current' => Current
  BY <1>1 DEF Current, AtWork
<1>6. CASE buffer' = buffer
  <2>1. StartedInv'
    <3>1. reader'.pc = "clearing" => reader'.epoch # 0
      <4>1. CASE LoadStartEpoch
        <5>1. reader' = [reader EXCEPT !.pc = "clearing", !.epoch = epoch]
          BY <4>1 DEF LoadStartEpoch
        <5> QED
          BY <1>2, <5>1 DEF ReaderType
      <4>2. CASE ClearAtStart \/ Publish
        BY <4>2 DEF ClearAtStart, Publish, InLoop
      <4>3. CASE Receive
        <5>1. reader' = [reader EXCEPT !.pc = IF ui.stream.sync THEN "holding" ELSE "received",
                                       !.center = center]
          BY <4>3 DEF Receive
        <5> QED
          BY <1>2, <5>1 DEF ReaderType
      <4>4. CASE LoadEpoch
        <5>1. reader' = [reader EXCEPT !.pc = IF ui.stream.sync THEN "loaded" ELSE "holding",
                                       !.epoch = epoch]
          BY <4>4 DEF LoadEpoch
        <5> QED
          BY <1>2, <5>1 DEF ReaderType
      <4> QED
        BY <4>1, <4>2, <4>3, <4>4 DEF ReaderStep
    <3> QED
      BY <1>6, <3>1 DEF RowInv, StartedInv
  <2>2. ShownInv'
    BY <1>1, <1>6 DEF RowInv, ShownInv
  <2>3. Total' = Total /\ RetainedStart' = RetainedStart
    BY <1>6 DEF Total, RetainedStart
  <2>4. \A e \in Nat : Target(e)' => Target(e)
    BY <1>1, <1>6 DEF Target
  <2>5. BoundInv' /\ PlannedInv' /\ LastInv' /\ WorkInv' /\ CopyInv'
    BY <1>1, <1>2, <1>5, <1>6, <2>3, <2>4, Grown
  <2> QED
    BY <1>3, <1>4, <1>6, <2>1, <2>2, <2>5 DEF RowInv
<1>7. CASE ClearAtStart
  <2>1. buffer.blocks = <<>> /\ reader.pc = "clearing" /\ reader.epoch # 0 /\ reader'.pc = "loop"
    BY <1>7 DEF ClearAtStart, InLoop, IInv, EmptyInv, RowInv, StartedInv
  <2>2. buffer'.resets = buffer.resets /\ buffer'.blocks = <<>> /\ buffer'.epoch = reader.epoch
    BY <1>7, <2>1 DEF ClearAtStart, Cleared
  <2>3. shown.resets # buffer.resets
    BY <2>1, EmptyShown DEF RowInv
  <2>4. \A e \in Nat : ~ Target(e)'
    <3>1. ui.pc # "reset" /\ queue.hasResult => queue.latest.rows = <<>>
      <4> SUFFICES ASSUME ui.pc # "reset", queue.hasResult, queue.latest.rows # <<>>
          PROVE  FALSE
        OBVIOUS
      <4>1. Len(queue.latest.rows) \in DOMAIN queue.latest.rows
        BY Types, NewestTyped
      <4> QED
        BY <2>1, <4>1 DEF IInv, FreshInv, AllFresh, Fresh
    <3> QED
      BY <1>1, <2>2, <2>3, <3>1 DEF Target
  <2>5. Total' = Total /\ RetainedStart' = RetainedStart
    BY <2>1, <2>2 DEF Total, RetainedStart
  <2>6. BoundInv' /\ PlannedInv' /\ LastInv' /\ WorkInv' /\ CopyInv'
    BY <1>1, <1>2, <1>5, <2>2, <2>4, <2>5, Grown
  <2>7. ShownInv' /\ StartedInv'
    BY <1>1, <2>1, <2>2, <2>3 DEF RowInv, ShownInv, StartedInv
  <2> QED
    BY <1>3, <1>4, <2>2, <2>6, <2>7 DEF RowInv
<1>8. CASE Publish /\ buffer' # buffer
  <2> DEFINE blocks == Append(buffer.blocks, reader.center)
  <2>1. buffer.blocks \in Seq(Frequencies) /\ reader.center \in Frequencies
    BY <1>2, <1>8 DEF Publish, BufferType, IInv, HeldInv, CenterHeld
  <2>2. buffer' = [buffer EXCEPT !.blocks = blocks] /\ reader'.pc = "loop"
    BY <1>8, Zenon DEF Publish, InLoop
  <2>3. Len(blocks) = Len(buffer.blocks) + 1 /\ Len(buffer.blocks) \in Nat /\ blocks # <<>>
    BY <2>1
  <2> HIDE DEF blocks
  <2>4. buffer'.resets = buffer.resets /\ buffer'.epoch = buffer.epoch /\ buffer'.blocks = blocks
    BY <1>2, <2>2 DEF BufferType
  <2>5. Total' \in Nat /\ Total' >= Total
    BY <2>3, <2>4, PipelineAssumption DEF Total
  <2>6. RetainedStart' \in Nat /\ RetainedStart' >= RetainedStart
    <3> DEFINE before == Total
               now == Total'
    <3>1. before \in Nat /\ now \in Nat /\ now >= before /\ SnapshotFloats \in Nat
      BY <1>2, <2>5, PipelineAssumption
    <3>2. /\ RetainedStart = before - Least(before, SnapshotFloats)
          /\ RetainedStart' = now - Least(now, SnapshotFloats)
      BY Zenon DEF RetainedStart, Least
    <3> HIDE DEF before, now
    <3> QED
      BY <3>1, <3>2 DEF Least
  <2>7. \A e \in Nat : Target(e)' => Target(e)
    BY <1>1, <2>4 DEF Target
  <2>8. BoundInv' /\ PlannedInv' /\ LastInv' /\ WorkInv' /\ CopyInv'
    BY <1>1, <1>5, <2>4, <2>5, <2>6, <2>7, Grown
  <2>9. ShownInv' /\ StartedInv'
    BY <1>1, <2>2, <2>3, <2>4 DEF RowInv, ShownInv, StartedInv
  <2> QED
    BY <1>3, <1>4, <2>4, <2>8, <2>9 DEF RowInv
<1>9. ReaderStep => buffer' = buffer \/ ClearAtStart \/ Publish
  BY DEF ReaderStep, LoadStartEpoch, Receive, LoadEpoch
<1> QED
  BY <1>6, <1>7, <1>8, <1>9

-----------------------------------------------------------------------------
(* The worker *)

LEMMA TakeRow ==
  ASSUME IInv, RowInv, Take
  PROVE  RowInv'
<1>1. /\ buffer' = buffer /\ ui' = ui /\ shown' = shown /\ drawn' = drawn /\ reader' = reader
      /\ worker.pc = "waiting"
      /\ queue' = [queue EXCEPT !.reset = FALSE, !.hasRequest = FALSE, !.pending = NoFrame]
      /\ last' = IF queue.reset THEN NoLast ELSE last
  BY DEF Take, WorkerUnchanged
<1>2. /\ queue'.reset = FALSE /\ queue'.hasResult = queue.hasResult
      /\ queue'.latest = queue.latest /\ queue'.gen = queue.gen
  <2> HIDE DEF NoFrame
  <2> QED
    BY <1>1, Types DEF QueueType
<1>3. \/ worker' = worker
      \/ /\ worker'.pc = "planning" /\ worker'.frame = queue.pending /\ queue.hasRequest
  <2>1. \/ worker' = worker
        \/ /\ worker' = [worker EXCEPT !.pc = "planning", !.frame = queue.pending]
           /\ queue.hasRequest
    BY DEF Take
  <2> QED
    BY <2>1, Types DEF WorkerType
<1>4. worker'.pc = "planning" => worker'.frame.gen = queue.gen /\ worker'.frame.rows = <<>>
  BY <1>1, <1>3 DEF IInv, QuietInv
<1>5. worker'.pc \in {"waiting", "planning"}
  BY <1>1, <1>3
<1>6. Total' = Total /\ RetainedStart' = RetainedStart
  BY <1>1 DEF Total, RetainedStart
<1>7. \A e \in Nat : Target(e)' <=> Target(e)
  BY <1>1, <1>2 DEF Target
<1>8. BoundInv' /\ ShownInv' /\ StartedInv' /\ LatestInv' /\ NoRowTwice'
  BY <1>1, <1>2, <1>6, <1>7
     DEF RowInv, BoundInv, ShownInv, StartedInv, LatestInv, NoRowTwice, Drawn
<1>9. ResetInv' /\ PlannedInv' /\ WorkInv' /\ CopyInv'
  BY <1>2, <1>4, <1>5 DEF ResetInv, PlannedInv, WorkInv, CopyInv
<1>10. LastInv'
  <2>1. CASE queue.reset
    BY <1>1, <2>1 DEF LastInv, NoLast, RowInv, StartedInv
  <2>2. CASE ~ queue.reset
    <3>1. last' = last
      BY <1>1, <2>2
    <3>2. last.epoch = buffer.epoch =>
            \A e \in Nat : Target(e) =>
              Past(last.setting.floats, e, last.end, RetainedStart)
      BY <1>1, <2>2 DEF RowInv, LastInv
    <3> QED
      BY <1>1, <1>6, <1>7, <3>1, <3>2 DEF LastInv
  <2> QED
    BY <2>1, <2>2
<1> QED
  BY <1>8, <1>9, <1>10 DEF RowInv

\* A step that leaves the worker at its rows.
LEMMA AtRows ==
  ASSUME IInv, RowInv, buffer' = buffer, ui' = ui, shown' = shown, drawn' = drawn,
         reader' = reader, queue' = queue, worker.pc # "waiting",
         worker'.pc \in {"rows", "copying"}, worker'.frame.gen = worker.frame.gen
  PROVE  /\ WorkInv' /\ CopyInv' => RowInv'
         /\ Current' => Current
         /\ \A e \in Nat : Target(e)' <=> Target(e)
         /\ Total' = Total /\ RetainedStart' = RetainedStart
<1>1. Total' = Total /\ RetainedStart' = RetainedStart
  BY DEF Total, RetainedStart
<1>2. \A e \in Nat : Target(e)' <=> Target(e)
  BY DEF Target
<1>3. BoundInv' /\ ShownInv' /\ StartedInv' /\ LatestInv' /\ NoRowTwice'
  BY <1>1, <1>2 DEF RowInv, BoundInv, ShownInv, StartedInv, LatestInv, NoRowTwice, Drawn
<1>4. ResetInv' /\ PlannedInv' /\ LastInv'
  BY DEF RowInv, ResetInv, PlannedInv, LastInv
<1>5. Current' => Current
  BY DEF Current, AtWork
<1> QED
  BY <1>1, <1>2, <1>3, <1>4, <1>5 DEF RowInv

LEMMA PlanRow ==
  ASSUME IInv, AskedInv, RowInv, Plan
  PROVE  RowInv'
<1> DEFINE s == worker.frame.setting
           ends == RowEnds(s)
<1>1. /\ buffer' = buffer /\ ui' = ui /\ shown' = shown /\ drawn' = drawn /\ reader' = reader
      /\ queue' = queue /\ last' = last /\ worker.pc = "planning"
      /\ worker' = [worker EXCEPT !.pc = "rows", !.epoch = buffer.epoch, !.ends = ends]
  BY Zenon DEF Plan, WorkerUnchanged
<1>2. s \in Settings /\ worker.frame.rows = <<>>
  BY <1>1 DEF AskedInv, RowInv, PlannedInv
<1>3. EndsInv(s, <<>>, ends, Total, last.end)
  BY <1>2, Types, PlannedEnds
<1>4. ASSUME Current, NEW e \in Nat, Target(e)
      PROVE  After(s, <<>>, ends, e, last.end, RetainedStart)
  <2>1. ~ queue.reset
    BY <1>1, <1>4 DEF Current, AtWork, RowInv, ResetInv
  <2>2. /\ e <= Total
        /\ last.epoch = buffer.epoch => Past(last.setting.floats, e, last.end, RetainedStart)
    BY <1>1, <1>4, <2>1 DEF RowInv, BoundInv, LastInv
  <2> QED
    BY <1>2, <2>2, Types, PlannedAfter
<1> HIDE DEF ends
<1>5. worker'.pc = "rows" /\ worker'.ends = ends /\ worker'.frame = worker.frame
  BY <1>1, Types DEF WorkerType
<1>6. /\ WorkInv' /\ CopyInv' => RowInv'
      /\ Current' => Current
      /\ \A e \in Nat : Target(e)' <=> Target(e)
      /\ Total' = Total /\ RetainedStart' = RetainedStart
  BY <1>1, <1>5, AtRows
<1>7. WorkInv' /\ CopyInv'
  BY <1>1, <1>2, <1>3, <1>4, <1>5, <1>6 DEF WorkInv, CopyInv
<1> QED
  BY <1>6, <1>7

LEMMA BeginRowRow ==
  ASSUME IInv, AskedInv, RowInv, BeginRow
  PROVE  RowInv'
<1> DEFINE s == worker.frame.setting
           rows == worker.frame.rows
           ends == worker.ends
           end == IF Head(ends) = 0 THEN Total ELSE Head(ends)
           row == RowAt(end, s.floats)
           start == RowStart(end, s.floats)
           rest == Tail(ends)
<1>1. /\ buffer' = buffer /\ ui' = ui /\ shown' = shown /\ drawn' = drawn /\ reader' = reader
      /\ queue' = queue /\ last' = last /\ worker.pc = "rows" /\ ends # <<>>
  BY DEF BeginRow, WorkerUnchanged
<1>2. s \in Settings /\ s.floats \in Nat \ {0} /\ rows \in Seq(RowType) /\ ends \in Seq(Nat)
      /\ last.end \in Nat
  BY <1>1, Types, SettingsTyped DEF AskedInv
<1>3. /\ Head(ends) = ends[1] /\ ends[1] \in Nat /\ 1 \in DOMAIN ends
      /\ Total \in Nat /\ RetainedStart \in Nat /\ end \in Nat
  <2>1. Total \in Nat /\ RetainedStart \in Nat
    BY Types, Positions
  <2>2. Head(ends) = ends[1] /\ ends[1] \in Nat /\ Len(ends) \in Nat \ {0}
    BY <1>1, <1>2, Rests
  <2>3. 1 \in DOMAIN ends
    BY <1>2, <2>2
  <2> QED
    BY <2>1, <2>2, <2>3
<1>4. ASSUME Current
      PROVE  /\ EndsInv(s, rows, ends, Total, last.end)
             /\ \A e \in Nat : Target(e) => After(s, rows, ends, e, last.end, RetainedStart)
             /\ end <= Total
  <2>1. /\ EndsInv(s, rows, ends, Total, last.end)
        /\ \A e \in Nat : Target(e) => After(s, rows, ends, e, last.end, RetainedStart)
    BY <1>1, <1>4 DEF RowInv, WorkInv
  <2>2. end <= Total
    BY <1>3, <2>1 DEF EndsInv
  <2> QED
    BY <2>1, <2>2
<1>5. ASSUME Current, NEW e \in Nat, Target(e)
      PROVE  end >= e
  <2>1. After(s, rows, ends, e, last.end, RetainedStart)
    BY <1>4, <1>5
  <2>2. ends[1] = 0 \/ ends[1] >= e
    BY <1>3, <2>1 DEF After
  <2>3. e <= Total
    BY <1>5 DEF RowInv, BoundInv
  <2> QED
    BY <1>3, <2>2, <2>3
<1>6. CASE Available(end) > RetainedStart
  <2>1. worker' = [worker EXCEPT !.pc = "copying", !.row = row, !.start = start]
    BY <1>6, Zenon DEF BeginRow
  <2>2. row.resets = buffer.resets /\ row.end = end
    BY DEF RowAt
  <2>3. end <= Total => end <= start + s.floats
    <3> HIDE DEF end, s
    <3> QED
      BY <1>2, <1>3 DEF RowStart, Available, Largest, Least, s
  <2> HIDE DEF row, start
  <2>4. /\ worker'.pc = "copying" /\ worker'.ends = ends /\ worker'.frame = worker.frame
        /\ worker'.row = row /\ worker'.start = start
    BY <2>1, Types DEF WorkerType
  <2>5. /\ WorkInv' /\ CopyInv' => RowInv'
        /\ Current' => Current
        /\ \A e \in Nat : Target(e)' <=> Target(e)
        /\ Total' = Total /\ RetainedStart' = RetainedStart
    BY <1>1, <2>4, AtRows
  <2>6. WorkInv'
    BY <1>1, <1>4, <2>4, <2>5 DEF WorkInv
  <2>7. CopyInv'
    <3> SUFFICES ASSUME Current' PROVE CopyInv'
      BY DEF CopyInv
    <3>1. Current /\ end <= Total
      BY <1>4, <2>5
    <3>2. \A e \in Nat : Target(e) => end >= e
      BY <1>5, <3>1
    <3>3. ends[1] # 0 => end = ends[1]
      BY <1>3
    <3> HIDE DEF end
    <3> QED
      BY <1>1, <2>2, <2>3, <2>4, <2>5, <3>1, <3>2, <3>3 DEF CopyInv
  <2> QED
    BY <2>5, <2>6, <2>7
<1>7. CASE ~ (Available(end) > RetainedStart)
  <2>1. worker' = [worker EXCEPT !.ends = rest]
    BY <1>7, Zenon DEF BeginRow
  <2> HIDE DEF rest
  <2>2. worker'.pc = "rows" /\ worker'.ends = rest /\ worker'.frame = worker.frame
    BY <1>1, <2>1, Types DEF WorkerType
  <2>3. /\ WorkInv' /\ CopyInv' => RowInv'
        /\ Current' => Current
        /\ \A e \in Nat : Target(e)' <=> Target(e)
        /\ Total' = Total /\ RetainedStart' = RetainedStart
    BY <1>1, <2>2, AtRows
  <2>4. ASSUME Current PROVE EndsInv(s, rows, rest, Total, last.end)
    BY <1>1, <1>2, <1>4, <2>4, EndsSkipped DEF rest
  <2>5. ASSUME Current, NEW e \in Nat, Target(e)
        PROVE  After(s, rows, rest, e, last.end, RetainedStart)
    <3>1. end <= Total /\ end >= e
      BY <1>4, <1>5, <2>5
    <3>2. RetainedStart + s.floats > e
      <4> HIDE DEF end, s
      <4> QED
        BY <1>2, <1>3, <1>7, <3>1 DEF Available, Least, s
    <3>3. After(s, rows, ends, e, last.end, RetainedStart)
      BY <1>4, <2>5
    <3> QED
      BY <1>1, <1>2, <3>2, <3>3, AfterSkipped DEF rest
  <2>6. WorkInv' /\ CopyInv'
    BY <1>1, <2>2, <2>3, <2>4, <2>5 DEF WorkInv, CopyInv
  <2> QED
    BY <2>3, <2>6
<1> QED
  BY <1>6, <1>7

LEMMA CopyRowRow ==
  ASSUME IInv, AskedInv, RowInv, CopyRow
  PROVE  RowInv'
<1> DEFINE s == worker.frame.setting
           rows == worker.frame.rows
           ends == worker.ends
           rest == Tail(ends)
           row == worker.row
           more == Append(rows, row)
           done == [worker EXCEPT !.pc = "rows", !.ends = rest, !.row = NoRow, !.start = 0]
<1>1. /\ buffer' = buffer /\ ui' = ui /\ shown' = shown /\ drawn' = drawn /\ reader' = reader
      /\ queue' = queue /\ worker.pc = "copying" /\ ends # <<>>
  BY DEF CopyRow, WorkerUnchanged, IInv, HeldInv, RowPlanned
<1>2. s \in Settings /\ s.floats \in Nat \ {0} /\ rows \in Seq(RowType) /\ ends \in Seq(Nat)
      /\ row \in RowType /\ row.end \in Nat /\ last.end \in Nat
      /\ worker.start \in Nat /\ RetainedStart \in Nat /\ Total \in Nat
  BY <1>1, Types, SettingsTyped, Positions DEF AskedInv, RowType
<1>3. \/ /\ worker' = [done EXCEPT !.frame.rows = Append(@, row)]
         /\ last' = [last EXCEPT !.end = row.end]
      \/ /\ row.resets # buffer.resets \/ RetainedStart > worker.start
         /\ worker' = done /\ last' = last
  BY Zenon DEF CopyRow
<1>4. /\ done.pc = "rows" /\ done.ends = rest /\ done.frame = worker.frame
      /\ done = [f \in {"pc", "frame", "ends", "epoch", "row", "start"} |-> done[f]]
  <2> HIDE DEF rest, NoRow
  <2> QED
    BY Types DEF WorkerType
<1>5. ASSUME Current
      PROVE  /\ EndsInv(s, rows, ends, Total, last.end)
             /\ row.resets = buffer.resets /\ row.end <= Total
             /\ row.end <= worker.start + s.floats
             /\ ends[1] # 0 => row.end = ends[1]
  BY <1>1, <1>5 DEF RowInv, WorkInv, CopyInv
<1>6. ASSUME Current, NEW e \in Nat, Target(e)
      PROVE  After(s, rows, ends, e, last.end, RetainedStart) /\ row.end >= e
  BY <1>1, <1>6 DEF RowInv, WorkInv, CopyInv
<1> HIDE DEF done
<1>7. CASE /\ worker' = [done EXCEPT !.frame.rows = Append(@, row)]
           /\ last' = [last EXCEPT !.end = row.end]
  <2> DEFINE frame == [worker.frame EXCEPT !.rows = more]
  <2>1. worker' = [done EXCEPT !.frame = frame]
    BY <1>4, <1>7, Zenon
  <2>2. last'.end = row.end
    BY <1>2, <1>7, Types DEF LastType
  <2> HIDE DEF more
  <2>3. frame.gen = worker.frame.gen /\ frame.setting = worker.frame.setting /\ frame.rows = more
    BY Types DEF FrameType
  <2> HIDE DEF frame, rest
  <2>4. worker'.pc = "rows" /\ worker'.frame = frame /\ worker'.ends = rest
    BY <1>4, <2>1
  <2>5. /\ WorkInv' /\ CopyInv' => RowInv'
        /\ Current' => Current
        /\ \A e \in Nat : Target(e)' <=> Target(e)
        /\ Total' = Total /\ RetainedStart' = RetainedStart
    BY <1>1, <2>3, <2>4, AtRows
  <2>6. ASSUME Current PROVE EndsInv(s, more, rest, Total, row.end)
    BY <1>1, <1>2, <1>5, <2>6, EndsCopied DEF more, rest
  <2>7. ASSUME Current, NEW e \in Nat, Target(e)
        PROVE  After(s, more, rest, e, row.end, RetainedStart)
    BY <1>1, <1>2, <1>5, <1>6, <2>7, AfterCopied DEF more, rest
  <2>8. WorkInv' /\ CopyInv'
    BY <2>2, <2>3, <2>4, <2>5, <2>6, <2>7 DEF WorkInv, CopyInv
  <2> QED
    BY <2>5, <2>8
<1>8. CASE /\ row.resets # buffer.resets \/ RetainedStart > worker.start
           /\ worker' = done /\ last' = last
  <2> HIDE DEF rest
  <2>1. worker'.pc = "rows" /\ worker'.frame = worker.frame /\ worker'.ends = rest
    BY <1>4, <1>8
  <2>2. /\ WorkInv' /\ CopyInv' => RowInv'
        /\ Current' => Current
        /\ \A e \in Nat : Target(e)' <=> Target(e)
        /\ Total' = Total /\ RetainedStart' = RetainedStart
    BY <1>1, <2>1, AtRows
  <2>3. ASSUME Current PROVE EndsInv(s, rows, rest, Total, last.end)
    BY <1>1, <1>2, <1>5, <2>3, EndsSkipped DEF rest
  <2>4. ASSUME Current, NEW e \in Nat, Target(e)
        PROVE  After(s, rows, rest, e, last.end, RetainedStart)
    <3>1. RetainedStart > worker.start /\ row.end <= worker.start + s.floats /\ row.end >= e
      BY <1>5, <1>6, <1>8, <2>4
    <3>2. RetainedStart + s.floats > e
      <4> HIDE DEF s, row
      <4> QED
        BY <1>2, <3>1 DEF s, row
    <3>3. After(s, rows, ends, e, last.end, RetainedStart)
      BY <1>6, <2>4
    <3> QED
      BY <1>1, <1>2, <3>2, <3>3, AfterSkipped DEF rest
  <2>5. WorkInv' /\ CopyInv'
    BY <1>8, <2>1, <2>2, <2>3, <2>4 DEF WorkInv, CopyInv
  <2> QED
    BY <2>2, <2>5
<1> QED
  BY <1>3, <1>7, <1>8

LEMMA FinishRow ==
  ASSUME IInv, AskedInv, RowInv, Finish
  PROVE  RowInv'
<1> DEFINE s == worker.frame.setting
           rows == worker.frame.rows
<1>1. /\ buffer' = buffer /\ ui' = ui /\ shown' = shown /\ drawn' = drawn /\ reader' = reader
      /\ worker.pc = "rows" /\ worker.ends = <<>> /\ last' = Produced
  BY DEF Finish, WorkerUnchanged
<1>2. worker'.pc = "waiting"
  <2>1. worker' = [worker EXCEPT !.pc = "waiting", !.frame = NoFrame, !.epoch = 0]
    BY DEF Finish
  <2> QED
    BY <2>1, Types DEF WorkerType
<1>3. /\ queue'.reset = queue.reset /\ queue'.gen = queue.gen
      /\ queue'.hasResult = (IF Stale THEN queue.hasResult ELSE TRUE)
      /\ queue'.latest = IF Stale THEN queue.latest ELSE worker.frame
  <2>1. queue' = [queue EXCEPT !.outstanding = FALSE,
                               !.hasResult = IF Stale THEN @ ELSE TRUE,
                               !.latest = IF Stale THEN @ ELSE worker.frame]
    BY DEF Finish
  <2> QED
    BY <2>1, Types DEF QueueType
<1>4. Stale <=> ~ AtWork
  BY <1>1 DEF Stale, AtWork
<1>5. Total' = Total /\ RetainedStart' = RetainedStart
  BY <1>1 DEF Total, RetainedStart
<1>6. /\ ResetInv' /\ PlannedInv' /\ WorkInv' /\ CopyInv'
      /\ ShownInv' /\ StartedInv' /\ NoRowTwice'
  BY <1>1, <1>2
     DEF RowInv, ResetInv, PlannedInv, WorkInv, CopyInv, Current, AtWork, ShownInv, StartedInv,
         NoRowTwice, Drawn
<1>7. CASE ~ AtWork
  <2>1. queue'.reset /\ queue'.hasResult = queue.hasResult /\ queue'.latest = queue.latest
    BY <1>1, <1>3, <1>4, <1>7 DEF RowInv, ResetInv, AtWork
  <2>2. \A e \in Nat : Target(e)' <=> Target(e)
    BY <1>1, <2>1 DEF Target
  <2>3. BoundInv' /\ LastInv' /\ LatestInv'
    BY <1>1, <1>5, <2>1, <2>2 DEF RowInv, BoundInv, LastInv, LatestInv
  <2> QED
    BY <1>6, <2>3 DEF RowInv
<1>8. CASE AtWork /\ ui.pc = "reset"
  <2>1. \A e \in Nat : ~ Target(e)'
    BY <1>1, <1>8 DEF Target, RowInv, ShownInv
  <2>2. LatestInv'
    BY <1>1, <1>8 DEF LatestInv
  <2>3. ~ Current'
    BY <1>2 DEF Current, AtWork
  <2> QED
    BY <1>6, <2>1, <2>2, <2>3, NoTargets DEF RowInv
<1>9. CASE Current
  <2>1. /\ s \in Settings /\ rows \in Seq(RowType) /\ last.end \in Nat
        /\ worker.ends \in Seq(Nat) /\ Len(worker.ends) = 0 /\ Total \in Nat
        /\ RetainedStart \in Nat
    BY <1>1, Types, Positions DEF AskedInv
  <2>2. EndsInv(s, rows, <<>>, Total, last.end)
    BY <1>1, <1>9 DEF RowInv, WorkInv
  <2>3. ASSUME shown.resets = buffer.resets
        PROVE  After(s, rows, <<>>, shown.end, last.end, RetainedStart)
    BY <1>1, <1>9, <2>3, Types DEF RowInv, WorkInv, Target
  <2>4. queue'.hasResult /\ queue'.latest = worker.frame
    BY <1>3, <1>4, <1>9 DEF Current
  <2>5. Len(rows) \in Nat /\ Len(rows) + Len(<<>>) = Len(rows)
    BY <2>1
  <2>6. ASSUME rows # <<>>
        PROVE  /\ Newest(rows).end \in Nat /\ Newest(rows).end <= Total
               /\ Len(rows) \in DOMAIN rows
    BY <2>1, <2>2, <2>6, NewestTyped DEF EndsInv, Newest
  <2>7. \A e \in Nat : Target(e)' => \/ shown.resets = buffer.resets /\ e = shown.end
                                     \/ rows # <<>> /\ e = Newest(rows).end
    BY <1>1, <2>4 DEF Target
  <2>8. BoundInv'
    <3> SUFFICES ASSUME NEW e \in Nat, Target(e)' PROVE e <= Total
      BY <1>5 DEF BoundInv
    <3>1. CASE shown.resets = buffer.resets /\ e = shown.end
      BY <3>1 DEF RowInv, BoundInv, Target
    <3>2. CASE rows # <<>> /\ e = Newest(rows).end
      BY <2>6, <3>2
    <3> QED
      BY <2>7, <3>1, <3>2
  <2>9. LatestInv'
    <3>1. RowsSpaced(rows, Hop(s))
      BY <2>2 DEF EndsInv
    <3>2. ASSUME Len(rows) >= 2, shown.resets = buffer.resets
          PROVE  \A k \in DOMAIN rows : rows[k].end > shown.end
      BY <2>3, <2>5, <3>2 DEF After
    <3> QED
      BY <1>1, <2>4, <3>1, <3>2 DEF LatestInv
  <2>10. LastInv'
    <3> SUFFICES ASSUME last'.epoch = buffer.epoch, NEW e \in Nat, Target(e)'
        PROVE  Past(last'.setting.floats, e, last'.end, RetainedStart)
      BY <1>1, <1>5 DEF LastInv
    <3>1. CASE s.batch
      <4>1. last' = [last EXCEPT !.epoch = worker.epoch, !.setting = s]
        BY <1>1, <3>1 DEF Produced
      <4>2. last'.end = last.end /\ last'.setting = s
        BY <4>1, Types DEF LastType
      <4>3. CASE shown.resets = buffer.resets /\ e = shown.end
        <5>1. Past(s.floats, e, last.end, RetainedStart)
          BY <2>3, <3>1, <4>3 DEF After
        <5> QED
          BY <4>2, <5>1
      <4>4. CASE rows # <<>> /\ e = Newest(rows).end
        <5>1. last.end = e
          BY <2>2, <3>1, <4>4 DEF EndsInv
        <5> QED
          BY <2>1, <4>2, <5>1 DEF Past
      <4> QED
        BY <2>7, <4>3, <4>4
    <3>2. CASE ~ s.batch
      <4>1. last' = [end     |-> IF rows = <<>> THEN 0 ELSE rows[1].end,
                     epoch   |-> IF rows = <<>> THEN 0 ELSE rows[1].epoch,
                     setting |-> s]
        BY <1>1, <3>2, Zenon DEF Produced
      <4>2. rows # <<>> /\ last'.end = rows[1].end
        BY <4>1 DEF RowInv, StartedInv
      <4>3. Len(rows) = 1
        <5>1. Len(rows) <= 1
          BY <2>2, <2>5, <3>2 DEF EndsInv
        <5>2. Len(rows) # 0
          BY <2>1, <4>2
        <5> HIDE DEF rows
        <5> QED
          BY <2>5, <5>1, <5>2
      <4>4. rows[1] = Newest(rows) /\ 1 \in DOMAIN rows
        BY <2>6, <4>2, <4>3 DEF Newest
      <4>5. CASE shown.resets = buffer.resets /\ e = shown.end
        <5>1. rows[1].end >= e
          BY <2>3, <4>4, <4>5 DEF After
        <5> QED
          BY <4>2, <5>1 DEF Past
      <4>6. CASE rows # <<>> /\ e = Newest(rows).end
        <5>1. last'.end = e
          BY <4>2, <4>4, <4>6
        <5> QED
          BY <5>1 DEF Past
      <4> QED
        BY <2>7, <4>5, <4>6
    <3> QED
      BY <3>1, <3>2
  <2> QED
    BY <1>6, <2>8, <2>9, <2>10 DEF RowInv
<1> QED
  BY <1>7, <1>8, <1>9 DEF Current

LEMMA WorkerRow ==
  ASSUME IInv, AskedInv, RowInv, WorkerStep
  PROVE  RowInv'
BY TakeRow, PlanRow, BeginRowRow, CopyRowRow, FinishRow DEF WorkerStep

-----------------------------------------------------------------------------
(* The window *)

LEMMA ResetRow ==
  ASSUME IInv, queue' = Reset, worker' = worker
  PROVE  /\ queue'.reset /\ ~ queue'.hasResult /\ ~ AtWork'
         /\ worker.pc # "waiting" => worker.frame.gen # queue'.gen
<1>1. queue'.gen = queue.gen + 1 /\ ~ AtWork' /\ ~ queue'.hasResult
  BY ResetIs
<1> DEFINE next == queue.gen + 1
<1>2. queue' = [queue EXCEPT !.hasRequest = FALSE, !.outstanding = FALSE, !.hasResult = FALSE,
                             !.reset = TRUE, !.gen = next, !.latest = NoFrame,
                             !.pending = NoFrame]
  BY Zenon DEF Reset
<1> HIDE DEF next, NoFrame
<1>3. queue'.reset = TRUE
  BY <1>2, Types DEF QueueType
<1>4. worker.pc # "waiting" => worker.frame.gen # queue'.gen
  BY <1>1 DEF AtWork
<1> QED
  BY <1>1, <1>3, <1>4

\* Steps that leave the buffer and what was shown alone.
LEMMA WindowRow ==
  ASSUME IInv, RowInv, buffer' = buffer, shown' = shown, worker' = worker, last' = last,
         drawn' = drawn \/ drawn'.verdict = "none", StartedInv', ui'.pc # "reset",
         \/ queue' = Reset
         \/ /\ ui.pc # "reset"
            /\ queue'.hasResult = queue.hasResult /\ queue'.latest = queue.latest
            /\ queue'.gen = queue.gen /\ queue'.reset = queue.reset
  PROVE  RowInv'
<1>1. Total' = Total /\ RetainedStart' = RetainedStart /\ Total \in Nat /\ RetainedStart \in Nat
  BY Types, Positions DEF Total, RetainedStart
<1>2. ShownInv' /\ NoRowTwice'
  BY DEF RowInv, ShownInv, NoRowTwice, Drawn
<1>3. ResetInv' /\ LatestInv' /\ (queue.reset => queue'.reset) /\ (Current' => Current)
      /\ \A e \in Nat : Target(e)' => Target(e)
  <2>1. CASE queue' = Reset
    <3>1. /\ queue'.reset /\ ~ queue'.hasResult /\ ~ AtWork'
          /\ worker.pc # "waiting" => worker.frame.gen # queue'.gen
      BY <2>1, ResetRow
    <3>2. \A e \in Nat : Target(e)' => Target(e)
      BY <3>1 DEF Target
    <3> QED
      BY <3>1, <3>2 DEF ResetInv, LatestInv, Current
  <2>2. CASE /\ ui.pc # "reset"
             /\ queue'.hasResult = queue.hasResult /\ queue'.latest = queue.latest
             /\ queue'.gen = queue.gen /\ queue'.reset = queue.reset
    <3>1. \A e \in Nat : Target(e)' => Target(e)
      BY <2>2 DEF Target
    <3>2. ResetInv' /\ LatestInv' /\ (Current' => Current)
      BY <2>2 DEF RowInv, ResetInv, LatestInv, Current, AtWork
    <3> QED
      BY <2>2, <3>1, <3>2
  <2> QED
    BY <2>1, <2>2
<1>4. BoundInv' /\ PlannedInv' /\ LastInv' /\ WorkInv' /\ CopyInv'
  BY <1>1, <1>3, Grown
<1> QED
  BY <1>2, <1>3, <1>4 DEF RowInv

\* The buffer is cleared while nothing of it is asked for, or before the
\* worker is reset.
LEMMA ClearRow ==
  ASSUME IInv, RowInv, NEW e \in Nat, buffer' = Cleared(e), shown' = shown, worker' = worker,
         last' = last, queue' = queue, drawn' = drawn, reader' = reader,
         ui'.pc = "reset" \/ (~ AtWork /\ ~ queue.hasResult)
  PROVE  RowInv'
<1>1. shown.resets # buffer'.resets
  <2>1. buffer.resets \in Nat /\ shown.resets \in Nat \cup {-1} /\ shown.resets <= buffer.resets
    BY Types DEF RowInv, ShownInv
  <2>2. CASE buffer.blocks = <<>>
    <3>1. buffer'.resets = buffer.resets
      BY <2>2 DEF Cleared
    <3> QED
      BY <2>2, <3>1, EmptyShown DEF RowInv
  <2>3. CASE buffer.blocks # <<>>
    <3>1. buffer'.resets = buffer.resets + 1
      BY <2>3 DEF Cleared
    <3> QED
      BY <2>1, <3>1
  <2> QED
    BY <2>2, <2>3
<1>2. shown.resets <= buffer'.resets
  <2>1. buffer.resets \in Nat /\ shown.resets \in Nat \cup {-1} /\ shown.resets <= buffer.resets
    BY Types DEF RowInv, ShownInv
  <2>2. buffer'.resets \in {buffer.resets, buffer.resets + 1}
    BY DEF Cleared
  <2> QED
    BY <2>1, <2>2
<1>3. buffer'.epoch = buffer.epoch \/ (buffer'.epoch = e /\ e # 0)
  <2>1. buffer'.epoch = IF e = 0 THEN buffer.epoch ELSE e
    BY DEF Cleared
  <2> QED
    BY <2>1
<1>4. ShownInv' /\ StartedInv' /\ ResetInv' /\ PlannedInv' /\ NoRowTwice'
  BY <1>1, <1>2, <1>3
     DEF RowInv, ShownInv, StartedInv, ResetInv, PlannedInv, NoRowTwice, Drawn
<1>5. LatestInv' /\ ~ Current' /\ \A x \in Nat : ~ Target(x)'
  BY <1>1 DEF LatestInv, Current, AtWork, Target
<1> QED
  BY <1>4, <1>5, NoTargets DEF RowInv

LEMMA SettleRow ==
  ASSUME IInv, RowInv, Settle(FALSE) \/ Settle(TRUE)
  PROVE  RowInv'
<1>1. /\ shown' = shown /\ worker' = worker /\ last' = last /\ queue' = queue
      /\ drawn' = drawn /\ reader' = reader /\ buffer' = Cleared(0) /\ ui.settle
  BY DEF Settle, UiUnchanged
<1>2. ~ AtWork /\ ~ queue.hasResult
  BY <1>1 DEF IInv, QuietInv
<1>3. 0 \in Nat
  OBVIOUS
<1> QED
  BY <1>1, <1>2, <1>3, ClearRow

LEMMA ClearBufferRow ==
  ASSUME IInv, RowInv, ClearBuffer
  PROVE  RowInv'
<1>1. /\ shown' = shown /\ worker' = worker /\ last' = last /\ queue' = queue
      /\ drawn' = drawn /\ reader' = reader /\ buffer' = Cleared(ui.epoch)
      /\ ui' = [ui EXCEPT !.pc = "reset"]
  BY DEF ClearBuffer, UiUnchanged
<1>2. ui.epoch \in Nat /\ ui'.pc = "reset"
  BY <1>1, Types DEF UiType
<1> QED
  BY <1>1, <1>2, ClearRow

LEMMA ResetWorkerRow ==
  ASSUME IInv, TuneInv, RowInv, ResetWorker
  PROVE  RowInv'
<1>1. /\ reader' = reader /\ worker' = worker /\ buffer' = buffer /\ drawn' = drawn
      /\ last' = last /\ shown' = shown /\ ui.pc = "reset" /\ queue' = Reset
  BY DEF UiUnchanged, ResetWorker
<1> DEFINE pc == IF ui.then = "settle" THEN "idle" ELSE ui.then
           settle == ui.settle \/ ui.then = "settle"
<1>2. ui' = [ui EXCEPT !.pc = pc, !.settle = settle, !.then = "idle", !.epoch = 0]
  BY Zenon DEF ResetWorker
<1>3. pc # "reset"
  BY Types DEF UiType
<1> HIDE DEF pc, settle
<1>4. ui'.pc # "reset"
  BY <1>2, <1>3, Types DEF UiType
<1>5. StartedInv'
  BY <1>1 DEF RowInv, StartedInv
<1> QED
  BY <1>1, <1>4, <1>5, WindowRow

LEMMA ClaimRow ==
  ASSUME IInv, RowInv, Claim \/ Enqueue
  PROVE  RowInv'
<1>1. /\ reader' = reader /\ worker' = worker /\ buffer' = buffer /\ last' = last
      /\ shown' = shown /\ ui.pc \in {"claim", "enqueue"}
      /\ drawn' = drawn \/ drawn' = NotDrawn
  BY DEF UiUnchanged, Claim, Enqueue
<1>2. drawn' = drawn \/ drawn'.verdict = "none"
  BY <1>1 DEF NotDrawn
<1>3. ui'.pc # "reset"
  <2>1. \/ ui' = [ui EXCEPT !.pc = "idle"]
        \/ ui' = [ui EXCEPT !.pc = "enqueue"]
    BY DEF Claim, Enqueue
  <2> QED
    BY <2>1, Types DEF UiType
<1>4. /\ queue'.hasResult = queue.hasResult /\ queue'.latest = queue.latest
      /\ queue'.gen = queue.gen /\ queue'.reset = queue.reset
  <2>1. CASE Claim
    <3>1. queue' = [queue EXCEPT !.outstanding = TRUE]
      BY <2>1 DEF Claim
    <3> QED
      BY <3>1, Types DEF QueueType
  <2>2. CASE Enqueue
    <3> DEFINE asked == [setting |-> ui.setting, asked |-> ui.asked, center |-> center,
                         gen |-> queue.gen, rows |-> <<>>]
    <3>1. queue' = [queue EXCEPT !.hasRequest = TRUE, !.pending = asked]
      BY <2>2 DEF Enqueue
    <3> HIDE DEF asked
    <3> QED
      BY <3>1, Types DEF QueueType
  <2> QED
    BY <2>1, <2>2
<1>5. StartedInv'
  BY <1>1 DEF RowInv, StartedInv
<1>6. ui.pc # "reset"
  BY <1>1
<1> QED
  BY <1>1, <1>2, <1>3, <1>4, <1>5, <1>6, WindowRow

LEMMA CommandRow ==
  ASSUME IInv, RowInv, StartReader \/ QueuedRetune \/ Tune \/ Tuned \/ User
  PROVE  RowInv'
<1>1. /\ worker' = worker /\ buffer' = buffer /\ drawn' = drawn /\ last' = last
      /\ shown' = shown /\ ui.pc # "reset"
      /\ queue' = queue \/ queue' = Reset
      /\ \/ reader' = reader
         \/ reader' = [reader EXCEPT !.pc = "off"]
         \/ reader' = [reader EXCEPT !.pc = "begin"]
  BY DEF UiUnchanged, Polls, StartReader, QueuedRetune, Tune, Tuned, User, Start,
         HardwareChange, Stop, Retune, ChangeSettings
<1>2. StartedInv'
  <2>1. reader'.pc = "clearing" => reader' = reader
    BY <1>1, Types DEF ReaderType
  <2> QED
    BY <1>1, <2>1 DEF RowInv, StartedInv
<1>3. ASSUME NEW e \in Nat, NEW then \in {"idle", "start", "tune", "settle"}
      PROVE  ThenClear(e, then).pc = "clear" /\ ThenClear(e, then) \in UiType
  BY Types DEF ThenClear, UiType
<1>4. epoch + 1 \in Nat /\ ui \in UiType
  BY Types
<1>5. ASSUME NEW f, Barrier(f) PROVE ui'.pc # "reset"
  <2> DEFINE cleared == ThenClear(epoch + 1, "tune")
             settle == ui.stream.kind # "agile" /\ ui.settle
  <2>1. ui' = [cleared EXCEPT !.asked = f, !.queued = FALSE, !.settle = settle]
    BY <1>5, Zenon DEF Barrier
  <2>2. cleared.pc = "clear" /\ cleared \in UiType
    BY <1>3, <1>4
  <2> HIDE DEF cleared, settle
  <2> QED
    BY <2>1, <2>2 DEF UiType
<1>6. ui'.pc # "reset"
  <2>1. CASE StartReader \/ Tune \/ Tuned \/ HardwareChange \/ Stop
    <3>1. \/ ui' = ThenClear(0, "settle") \/ ui' = ThenClear(epoch + 1, "settle")
          \/ ui' = ThenClear(0, "start") \/ ui' = ui
          \/ ui' = [ui EXCEPT !.pc = "idle"]
          \/ \E stored : ui' = [ui EXCEPT !.pc = "tuned", !.stored = stored]
      BY <2>1 DEF StartReader, Tune, Tuned, HardwareChange, Stop
    <3>2. /\ ThenClear(0, "settle").pc = "clear" /\ ThenClear(epoch + 1, "settle").pc = "clear"
          /\ ThenClear(0, "start").pc = "clear"
      BY <1>3, <1>4
    <3>3. \/ ui' = [ui EXCEPT !.pc = "idle"]
          \/ \E stored : ui' = [ui EXCEPT !.pc = "tuned", !.stored = stored]
          => ui'.pc # "reset"
      BY <1>4 DEF UiType
    <3> QED
      BY <1>1, <3>1, <3>2, <3>3, Zenon
  <2>2. CASE QueuedRetune \/ \E f \in Frequencies : Retune(f)
    <3>1. \/ \E f : Barrier(f)
          \/ ui' = [ui EXCEPT !.queued = FALSE]
          \/ \E f \in Frequencies : ui' = [ui EXCEPT !.asked = f, !.queued = TRUE]
      BY <2>2, Zenon DEF QueuedRetune, Retune
    <3>2. CASE \E f : Barrier(f)
      BY <1>5, <3>2
    <3>3. CASE ui' = [ui EXCEPT !.queued = FALSE]
      BY <1>1, <1>4, <3>3 DEF UiType
    <3>4. CASE \E f \in Frequencies : ui' = [ui EXCEPT !.asked = f, !.queued = TRUE]
      BY <1>1, <1>4, <3>4 DEF UiType
    <3> QED
      BY <3>1, <3>2, <3>3, <3>4
  <2>3. CASE \E stream \in Streams : Start(stream)
    <3>1. PICK stream \in Streams : Start(stream)
      BY <2>3
    <3> DEFINE cleared == ThenClear(0, "start")
    <3>2. ui' = [cleared EXCEPT !.stream = stream, !.stored = "none"]
      BY <3>1 DEF Start
    <3>3. cleared.pc = "clear" /\ cleared \in UiType
      BY <1>3
    <3> HIDE DEF cleared
    <3> QED
      BY <3>2, <3>3 DEF UiType
  <2>4. CASE \E s \in Settings : ChangeSettings(s)
    <3>1. PICK s \in Settings : ChangeSettings(s)
      BY <2>4
    <3>2. ui' = [ui EXCEPT !.setting = s]
      BY <3>1 DEF ChangeSettings
    <3> QED
      BY <1>1, <1>4, <3>2 DEF UiType
  <2> QED
    BY <2>1, <2>2, <2>3, <2>4 DEF User
<1> QED
  BY <1>1, <1>2, <1>6, WindowRow

\* The gate compares the newest row; that it is a new one is enough, for the
\* rows before it are compared when they are planned.
LEMMA PollRow ==
  ASSUME IInv, RowInv, Poll
  PROVE  RowInv'
<1> DEFINE frame == queue.latest
           rows == frame.rows
           newest == rows[Len(rows)]
<1>1. /\ reader' = reader /\ worker' = worker /\ buffer' = buffer /\ last' = last
      /\ ui.pc = "idle" /\ ui' = [ui EXCEPT !.pc = "claim"]
      /\ queue' = [queue EXCEPT !.hasResult = FALSE, !.latest = NoFrame]
  BY DEF Poll, Polls, UiUnchanged
<1>2. /\ queue'.hasResult = FALSE /\ queue'.reset = queue.reset /\ queue'.gen = queue.gen
      /\ ui'.pc = "claim"
  <2> HIDE DEF NoFrame
  <2> QED
    BY <1>1, Types DEF QueueType, UiType
<1>3. Total' = Total /\ RetainedStart' = RetainedStart /\ Total \in Nat /\ RetainedStart \in Nat
  BY <1>1, Types, Positions DEF Total, RetainedStart
<1>4. Current' => Current
  BY <1>1, <1>2 DEF Current, AtWork
<1>5. ResetInv' /\ StartedInv' /\ LatestInv'
  BY <1>1, <1>2 DEF RowInv, ResetInv, StartedInv, LatestInv
<1>6. \/ shown' = shown /\ drawn'.verdict # "shown"
      \/ shown' = shown /\ drawn' = drawn
      \/ /\ queue.hasResult /\ Verdict(frame) = "shown"
         /\ drawn' = [verdict |-> "shown", frame |-> frame, before |-> shown]
         /\ shown' = [epoch |-> newest.epoch, end |-> newest.end,
                      floats |-> ui.setting.floats, resets |-> newest.resets]
  <2>1. CASE queue.hasResult
    <3>1. /\ drawn' = [verdict |-> Verdict(frame), frame |-> frame, before |-> shown]
          /\ shown' = IF Verdict(frame) # "shown" THEN shown
                      ELSE [epoch |-> newest.epoch, end |-> newest.end,
                            floats |-> ui.setting.floats, resets |-> newest.resets]
      BY <2>1, Zenon DEF Poll
    <3> HIDE DEF frame, newest
    <3>2. CASE Verdict(frame) = "shown"
      BY <2>1, <3>1, <3>2
    <3>3. CASE Verdict(frame) # "shown"
      BY <3>1, <3>3
    <3> QED
      BY <3>2, <3>3
  <2>2. CASE ~ queue.hasResult
    BY <2>2 DEF Poll
  <2> QED
    BY <2>1, <2>2
<1>7. ASSUME shown' = shown, drawn'.verdict # "shown" \/ drawn' = drawn
      PROVE  RowInv'
  <2>1. ShownInv' /\ NoRowTwice'
    BY <1>1, <1>2, <1>7 DEF RowInv, ShownInv, NoRowTwice, Drawn
  <2>2. \A e \in Nat : Target(e)' => Target(e)
    BY <1>1, <1>2, <1>7 DEF Target
  <2>3. BoundInv' /\ PlannedInv' /\ LastInv' /\ WorkInv' /\ CopyInv'
    BY <1>1, <1>2, <1>3, <1>4, <2>2, Grown
  <2> QED
    BY <1>5, <2>1, <2>3 DEF RowInv
<1>8. ASSUME queue.hasResult, Verdict(frame) = "shown",
             drawn' = [verdict |-> "shown", frame |-> frame, before |-> shown],
             shown' = [epoch |-> newest.epoch, end |-> newest.end,
                       floats |-> ui.setting.floats, resets |-> newest.resets]
      PROVE  RowInv'
  <2>1. /\ rows # <<>> /\ frame.setting.floats = ui.setting.floats
        /\ ~ (SameGeometry(newest) /\ newest.end <= shown.end)
    <3>1. Verdict(frame) # "stale" /\ Verdict(frame) # "duplicate"
      BY <1>8
    <3>2. rows # <<>> /\ Matches(frame)
      BY <3>1, Zenon DEF Verdict
    <3>3. ~ (SameGeometry(newest) /\ newest.end <= shown.end)
      BY <3>1, <3>2, Zenon DEF Verdict
    <3> QED
      BY <3>2, <3>3 DEF Matches
  <2>2. rows \in Seq(RowType) /\ Len(rows) \in DOMAIN rows /\ newest \in RowType
        /\ newest.end \in Nat /\ Len(rows) \in Nat \ {0} /\ newest = Newest(rows)
        /\ 1 \in DOMAIN rows
    <3>1. rows \in Seq(RowType)
      BY Types
    <3>2. Len(rows) \in Nat \ {0} /\ DOMAIN rows = 1 .. Len(rows)
      BY <2>1, <3>1
    <3>3. Len(rows) \in DOMAIN rows /\ newest \in RowType /\ newest.end \in Nat
          /\ newest = Newest(rows)
      BY <2>1, <3>1, NewestTyped DEF Newest
    <3> HIDE DEF rows
    <3> QED
      BY <3>1, <3>2, <3>3
  <2>3. \A k \in DOMAIN rows : rows[k].resets = buffer.resets /\ rows[k].epoch = buffer.epoch
    BY <1>1, <1>8 DEF IInv, FreshInv, AllFresh, Fresh
  <2>4. newest.resets = buffer.resets /\ newest.epoch = buffer.epoch /\ buffer.blocks # <<>>
    BY <1>1, <1>8, <2>2 DEF IInv, FreshInv, AllFresh, Fresh
  <2>5. /\ RowsSpaced(rows, Hop(frame.setting))
        /\ Len(rows) >= 2 /\ shown.resets = buffer.resets =>
             \A k \in DOMAIN rows : rows[k].end > shown.end
    BY <1>1, <1>8 DEF RowInv, LatestInv
  <2>6. ASSUME shown.resets = rows[1].resets, shown.floats = frame.setting.floats
        PROVE  rows[1].end > shown.end
    <3>1. shown.resets = buffer.resets
      BY <2>2, <2>3, <2>6
    <3>2. CASE Len(rows) >= 2
      BY <2>2, <2>5, <3>1, <3>2
    <3>3. CASE Len(rows) = 1
      <4>1. shown.epoch = buffer.epoch
        BY <3>1 DEF RowInv, ShownInv
      <4>2. SameGeometry(newest)
        BY <2>1, <2>4, <2>6, <4>1 DEF SameGeometry
      <4>3. newest.end > shown.end /\ newest = rows[1]
        BY <2>1, <2>2, <3>3, <4>2, Types
      <4> QED
        BY <4>3
    <3>4. Len(rows) >= 2 \/ Len(rows) = 1
      <4>1. Len(rows) \in Nat \ {0}
        BY <2>2
      <4> HIDE DEF rows
      <4> QED
        BY <4>1
    <3> QED
      BY <3>2, <3>3, <3>4
  <2>7. NoRowTwice'
    <3>1. drawn'.frame = frame /\ drawn'.before = shown
      BY <1>8
    <3> QED
      BY <2>5, <2>6, <3>1 DEF NoRowTwice, RowsSpaced
  <2>8. shown'.resets = buffer.resets /\ shown'.epoch = buffer.epoch /\ shown'.end = newest.end
    BY <1>8, <2>4
  <2>9. ShownInv'
    BY <1>1, <1>2, <2>4, <2>8, Types DEF ShownInv
  <2>10. \A e \in Nat : Target(e)' => Target(e)
    BY <1>1, <1>2, <1>8, <2>1, <2>2, <2>8 DEF Target
  <2>11. BoundInv' /\ PlannedInv' /\ LastInv' /\ WorkInv' /\ CopyInv'
    BY <1>1, <1>2, <1>3, <1>4, <2>10, Grown
  <2> QED
    BY <1>5, <2>7, <2>9, <2>11 DEF RowInv
<1> QED
  BY <1>6, <1>7, <1>8

-----------------------------------------------------------------------------
(* Theorem *)

LEMMA InitRow == Init => RowInv
<1> SUFFICES ASSUME Init PROVE RowInv
  OBVIOUS
<1>1. /\ shown.resets = -1 /\ buffer.resets = 0 /\ buffer.epoch = 1 /\ ~ queue.hasResult
      /\ worker.pc = "waiting" /\ last.epoch = 0 /\ reader.pc = "off"
      /\ drawn.verdict = "none"
  BY DEF Init, NoShown, NoLast, NotDrawn
<1>2. \A e \in Nat : ~ Target(e)
  BY <1>1 DEF Target
<1>3. BoundInv /\ LastInv
  BY <1>2 DEF BoundInv, LastInv
<1>4. ShownInv /\ ResetInv /\ StartedInv /\ PlannedInv
  BY <1>1 DEF ShownInv, ResetInv, StartedInv, PlannedInv
<1>5. WorkInv /\ CopyInv /\ LatestInv /\ NoRowTwice
  BY <1>1 DEF WorkInv, CopyInv, LatestInv, NoRowTwice, Drawn
<1> QED
  BY <1>3, <1>4, <1>5 DEF RowInv

LEMMA RowInvariance == IInv /\ TuneInv /\ RowInv /\ [Next]_vars => RowInv'
<1> SUFFICES ASSUME IInv, TuneInv, RowInv, [Next]_vars PROVE RowInv'
  OBVIOUS
<1>1. CASE ReaderStep
  BY <1>1, ReaderRow
<1>2. CASE WorkerStep
  BY <1>2, WorkerRow DEF TuneInv
<1>3. CASE UiStep
  BY <1>3, SettleRow, PollRow, ClaimRow, ClearBufferRow, ResetWorkerRow, CommandRow DEF UiStep
<1>4. CASE User
  BY <1>4, CommandRow
<1>5. CASE UNCHANGED vars
  <2>1. /\ reader' = reader /\ buffer' = buffer /\ ui' = ui /\ shown' = shown
        /\ queue' = queue /\ worker' = worker /\ last' = last /\ drawn' = drawn
    BY <1>5 DEF vars
  <2>2. Total' = Total /\ RetainedStart' = RetainedStart /\ \A e \in Nat : Target(e)' <=> Target(e)
    BY <2>1 DEF Total, RetainedStart, Target
  <2> QED
    BY <2>1, <2>2 DEF RowInv, BoundInv, ShownInv, ResetInv, StartedInv, PlannedInv, LastInv,
       WorkInv, CopyInv, LatestInv, NoRowTwice, Drawn, Current, AtWork
<1>6. CASE ApplyPendingRetune
  <2>1. /\ reader' = reader /\ buffer' = buffer /\ shown' = shown /\ queue' = queue
        /\ worker' = worker /\ last' = last /\ drawn' = drawn
        /\ ui' = [ui EXCEPT !.stored = "none"]
    BY <1>6 DEF ApplyPendingRetune
  <2>2. ui'.pc = ui.pc
    BY <2>1, Types DEF UiType
  <2>3. Total' = Total /\ RetainedStart' = RetainedStart /\ \A e \in Nat : Target(e)' <=> Target(e)
    BY <2>1, <2>2 DEF Total, RetainedStart, Target
  <2> QED
    BY <2>1, <2>2, <2>3 DEF RowInv, BoundInv, ShownInv, ResetInv, StartedInv, PlannedInv, LastInv,
       WorkInv, CopyInv, LatestInv, NoRowTwice, Drawn, Current, AtWork
<1> QED
  BY <1>1, <1>2, <1>3, <1>4, <1>5, <1>6 DEF Next

\* The waterfall draws no row twice and none out of order: the rows of a frame
\* are a hop apart and follow the row drawn before of the same contents of the
\* buffer, whatever the worker was made to forget and however many rows the
\* ring overtook (frameEnds and lastProduced... in SpectrumFftWorker::run, the
\* gate of updateSpectrum).
THEOREM NoRowTwiceCorrect == Spec => []NoRowTwice
<1>1. RowInv => NoRowTwice
  BY DEF RowInv
<1> QED
  BY <1>1, InitRow, RowInvariance, InitTune, TuneInvariance, Invariants, PTL DEF Spec

-----------------------------------------------------------------------------
(* The gate compares frames of the same contents, unless a processor was     *)
(* recreated.  The buffer is cleared without a new epoch only before the     *)
(* reader adopts one or during a settle time, and whatever follows has an    *)
(* epoch later than that of the frame shown last (OlderInv).                 *)

\* The reader has not adopted an epoch, so nothing is published.
NotAdopted == reader.pc \in {"off", "begin", "clearing"}

UsedInv == used \in [commands : Nat, recreated : BOOLEAN, published : Nat]

\* A recreated processor is not started again.
GoneInv == used.recreated => reader.pc = "off" /\ ui.pc = "idle"

EpochsInv ==
  /\ shown.epoch <= epoch /\ buffer.epoch <= epoch
  /\ reader.pc = "clearing" => reader.epoch <= epoch
  /\ ui.pc = "clear" => ui.epoch <= epoch

\* Nothing was shown since the epoch about to be adopted was taken.
OlderInv ==
  /\ reader.pc = "begin" => shown.epoch < epoch
  /\ reader.pc = "clearing" => shown.epoch < reader.epoch
  /\ ui.pc = "clear" /\ ui.epoch # 0 => shown.epoch < ui.epoch

AlikeInv ==
  shown.epoch = buffer.epoch =>
    \/ NotAdopted
    \/ /\ shown.resets = buffer.resets /\ ~ ui.settle /\ ui.pc # "reset"
       /\ ui.pc = "clear" => ui.epoch # 0

GateInv ==
  /\ UsedInv /\ GoneInv /\ GateComparesAlike
  /\ ~ used.recreated => EpochsInv /\ OlderInv /\ AlikeInv

LEMMA GateTypes ==
  ASSUME IInv
  PROVE  /\ shown.epoch \in Nat /\ buffer.epoch \in Nat /\ epoch \in Nat /\ reader.epoch \in Nat
         /\ ui.epoch \in Nat /\ ui.settle \in BOOLEAN
BY Types DEF ShownType, BufferType, ReaderType, UiType

\* What is true of states in which no processor was recreated.
LEMMA GateKept ==
  ASSUME IInv, GateInv, UsedInv', GateComparesAlike', used'.recreated = used.recreated,
         used.recreated => reader'.pc = "off" /\ ui'.pc = "idle",
         ~ used.recreated => EpochsInv' /\ OlderInv' /\ AlikeInv'
  PROVE  GateInv'
BY DEF GateInv, GoneInv

LEMMA ReaderGate ==
  ASSUME IInv, GateInv, ReaderStep
  PROVE  GateInv'
<1>1. /\ epoch' = epoch /\ ui' = ui /\ shown' = shown /\ drawn' = drawn
      /\ ~ used.recreated
  <2>1. reader.pc # "off"
    BY DEF ReaderStep, LoadStartEpoch, ClearAtStart, Receive, LoadEpoch, Publish, Round
  <2> QED
    BY <2>1 DEF ReaderStep, ReaderUnchanged, LoadStartEpoch, ClearAtStart, Receive, LoadEpoch,
                Publish, GateInv, GoneInv
<1>2. reader \in ReaderType /\ buffer \in BufferType
  BY Types
<1>3. EpochsInv /\ OlderInv /\ AlikeInv
  BY <1>1 DEF GateInv
<1>4. GateComparesAlike' /\ UsedInv' /\ used'.recreated = used.recreated
  <2>1. used' = used \/ used' = [used EXCEPT !.published = @ + 1]
    BY DEF ReaderStep, LoadStartEpoch, ClearAtStart, Receive, LoadEpoch, Publish
  <2>2. UsedInv' /\ used'.recreated = used.recreated
    BY <2>1 DEF GateInv, UsedInv
  <2> QED
    BY <1>1, <2>2 DEF GateInv, GateComparesAlike, DrawnRows, UsedInv
<1>5. EpochsInv' /\ OlderInv' /\ AlikeInv'
  <2>1. CASE LoadStartEpoch
    <3>1. /\ reader' = [reader EXCEPT !.pc = "clearing", !.epoch = epoch]
          /\ buffer' = buffer /\ reader.pc = "begin"
      BY <2>1 DEF LoadStartEpoch
    <3>2. reader'.pc = "clearing" /\ reader'.epoch = epoch
      BY <1>2, <3>1 DEF ReaderType
    <3> QED
      BY <1>1, <1>3, <3>1, <3>2, GateTypes DEF EpochsInv, OlderInv, AlikeInv, NotAdopted
  <2>2. CASE ClearAtStart
    <3>1. reader.pc = "clearing" /\ reader'.pc = "loop" /\ buffer' = Cleared(reader.epoch)
      BY <2>2 DEF ClearAtStart, InLoop
    <3>2. shown.epoch < reader.epoch /\ reader.epoch # 0
      BY <1>3, <3>1, GateTypes DEF OlderInv
    <3>3. buffer'.epoch = reader.epoch
      BY <3>1, <3>2 DEF Cleared
    <3> QED
      BY <1>1, <1>3, <3>1, <3>2, <3>3, GateTypes DEF EpochsInv, OlderInv, AlikeInv
  <2>3. CASE Receive \/ LoadEpoch \/ Publish
    <3>1. reader'.pc \notin {"begin", "clearing", "off"}
      <4>1. CASE Publish
        BY <4>1 DEF Publish, InLoop
      <4>2. CASE Receive
        <5>1. reader' = [reader EXCEPT !.pc = IF ui.stream.sync THEN "holding" ELSE "received",
                                       !.center = center]
          BY <4>2 DEF Receive
        <5> QED
          BY <1>2, <5>1 DEF ReaderType
      <4>3. CASE LoadEpoch
        <5>1. reader' = [reader EXCEPT !.pc = IF ui.stream.sync THEN "loaded" ELSE "holding",
                                       !.epoch = epoch]
          BY <4>3 DEF LoadEpoch
        <5> QED
          BY <1>2, <5>1 DEF ReaderType
      <4> QED
        BY <2>3, <4>1, <4>2, <4>3
    <3>2. ~ NotAdopted
      BY <2>3 DEF Receive, LoadEpoch, Publish, Round, NotAdopted
    <3>3. buffer'.epoch = buffer.epoch /\ buffer'.resets = buffer.resets
      <4>1. CASE buffer' = buffer
        BY <4>1
      <4>2. CASE buffer' = [buffer EXCEPT !.blocks = Append(@, reader.center)]
        <5> DEFINE blocks == Append(buffer.blocks, reader.center)
        <5>1. buffer' = [buffer EXCEPT !.blocks = blocks]
          BY <4>2, Zenon
        <5> HIDE DEF blocks
        <5> QED
          BY <1>2, <5>1 DEF BufferType
      <4> QED
        BY <2>3, <4>1, <4>2 DEF Receive, LoadEpoch, Publish
    <3> QED
      BY <1>1, <1>3, <3>1, <3>2, <3>3 DEF EpochsInv, OlderInv, AlikeInv, NotAdopted
  <2> QED
    BY <2>1, <2>2, <2>3 DEF ReaderStep
<1> QED
  BY <1>1, <1>4, <1>5, GateKept

LEMMA WorkerGate ==
  ASSUME GateInv, WorkerStep
  PROVE  GateInv'
<1>1. /\ epoch' = epoch /\ ui' = ui /\ shown' = shown /\ drawn' = drawn /\ reader' = reader
      /\ buffer' = buffer /\ used' = used
  BY DEF WorkerStep, WorkerUnchanged, Take, Plan, BeginRow, CopyRow, Finish
<1> QED
  BY <1>1 DEF GateInv, UsedInv, GoneInv, GateComparesAlike, DrawnRows, EpochsInv, OlderInv,
              AlikeInv, NotAdopted

LEMMA PollGate ==
  ASSUME IInv, GateInv, Poll
  PROVE  GateInv'
<1> DEFINE frame == queue.latest
           rows == frame.rows
           newest == rows[Len(rows)]
<1>1. /\ epoch' = epoch /\ reader' = reader /\ buffer' = buffer /\ used' = used
      /\ ui.pc = "idle" /\ reader.pc # "off" /\ ~ ui.settle /\ ui' = [ui EXCEPT !.pc = "claim"]
  BY DEF Poll, Polls, UiUnchanged
<1>2. ui'.pc = "claim" /\ ui'.settle = ui.settle
  BY <1>1, Types DEF UiType
<1>3. ~ used.recreated
  BY <1>1 DEF GateInv, GoneInv
<1>4. EpochsInv /\ OlderInv /\ AlikeInv
  BY <1>3 DEF GateInv
<1>5. \/ shown' = shown /\ drawn' = drawn
      \/ /\ queue.hasResult
         /\ drawn' = [verdict |-> Verdict(frame), frame |-> frame, before |-> shown]
         /\ shown' = IF Verdict(frame) # "shown" THEN shown
                     ELSE [epoch |-> newest.epoch, end |-> newest.end,
                           floats |-> ui.setting.floats, resets |-> newest.resets]
  BY Zenon DEF Poll
<1>6. CASE shown' = shown /\ drawn' = drawn
  <2>1. GateComparesAlike'
    BY <1>6 DEF GateInv, GateComparesAlike, DrawnRows
  <2> QED
    BY <1>1, <1>2, <1>3, <1>4, <1>6, <2>1, GateKept
       DEF EpochsInv, OlderInv, AlikeInv, NotAdopted, GateInv, UsedInv
<1>7. CASE /\ queue.hasResult
           /\ drawn' = [verdict |-> Verdict(frame), frame |-> frame, before |-> shown]
           /\ shown' = IF Verdict(frame) # "shown" THEN shown
                       ELSE [epoch |-> newest.epoch, end |-> newest.end,
                             floats |-> ui.setting.floats, resets |-> newest.resets]
  <2>1. \A k \in DOMAIN rows : /\ rows[k].resets = buffer.resets /\ rows[k].epoch = buffer.epoch
                               /\ buffer.blocks # <<>>
    BY <1>1, <1>7 DEF IInv, FreshInv, AllFresh, Fresh
  <2>2. ASSUME rows # <<>>
        PROVE  /\ newest.epoch = buffer.epoch /\ newest.resets = buffer.resets
               /\ ~ NotAdopted
    <3>1. Len(rows) \in DOMAIN rows
      BY <2>2, Types, NewestTyped
    <3>2. buffer.blocks # <<>>
      BY <2>1, <3>1
    <3>3. ~ NotAdopted
      BY <1>1, <3>2 DEF NotAdopted, IInv, EmptyInv
    <3> QED
      BY <2>1, <3>1, <3>3
  <2>3. Verdict(frame) # "stale" => rows # <<>>
    BY Zenon DEF Verdict
  <2>4. Verdict(frame) \in {"duplicate", "wait"} => SameGeometry(newest)
    <3>1. ~ SameGeometry(newest) => Verdict(frame) \in {"stale", "shown"}
      BY Zenon DEF Verdict
    <3> HIDE DEF frame, newest
    <3> QED
      BY <3>1
  <2>5. GateComparesAlike'
    <3> SUFFICES ASSUME Verdict(frame) \in {"duplicate", "wait"}, NEW k \in DOMAIN rows
        PROVE  rows[k].resets = shown.resets
      <4>1. drawn'.verdict = Verdict(frame) /\ drawn'.frame = frame /\ drawn'.before = shown
        BY <1>7
      <4> QED
        BY <4>1 DEF GateComparesAlike, DrawnRows
    <3>1. rows # <<>> /\ SameGeometry(newest)
      BY <2>3, <2>4
    <3>2. shown.epoch = buffer.epoch /\ ~ NotAdopted
      BY <2>2, <3>1 DEF SameGeometry
    <3>3. shown.resets = buffer.resets
      BY <1>4, <3>2 DEF AlikeInv
    <3> QED
      BY <2>1, <3>3
  <2>6. CASE Verdict(frame) # "shown"
    <3>1. shown' = shown
      BY <1>7, <2>6
    <3> QED
      BY <1>1, <1>2, <1>3, <1>4, <2>5, <3>1, GateKept
         DEF EpochsInv, OlderInv, AlikeInv, NotAdopted, GateInv, UsedInv
  <2>7. CASE Verdict(frame) = "shown"
    <3>1. rows # <<>>
      BY <2>3, <2>7
    <3>2. shown'.epoch = buffer.epoch /\ shown'.resets = buffer.resets
      <4>1. shown' = [epoch |-> newest.epoch, end |-> newest.end,
                      floats |-> ui.setting.floats, resets |-> newest.resets]
        BY <1>7, <2>7
      <4> QED
        BY <2>2, <3>1, <4>1
    <3>3. ~ NotAdopted
      BY <2>2, <3>1
    <3> QED
      BY <1>1, <1>2, <1>3, <1>4, <2>5, <3>2, <3>3, GateKept
         DEF EpochsInv, OlderInv, AlikeInv, NotAdopted, GateInv, UsedInv
  <2> QED
    BY <2>6, <2>7
<1> QED
  BY <1>5, <1>6, <1>7

\* What a step of the UI thread that draws nothing has to keep: the reader,
\* the frame shown and the counter are left as they are.
LEMMA QuietGate ==
  ASSUME IInv, GateInv, reader' = reader, shown' = shown, used' = used, ~ used.recreated,
         drawn' = drawn \/ drawn' = NotDrawn, EpochsInv' /\ OlderInv' /\ AlikeInv'
  PROVE  GateInv'
<1>1. GateComparesAlike'
  <2>1. CASE drawn' = drawn
    BY <2>1 DEF GateInv, GateComparesAlike, DrawnRows
  <2>2. CASE drawn' = NotDrawn
    BY <2>2 DEF NotDrawn, GateComparesAlike
  <2> QED
    BY <2>1, <2>2
<1> QED
  BY <1>1, GateKept DEF GateInv, UsedInv

LEMMA ClaimGate ==
  ASSUME IInv, GateInv, Claim \/ Enqueue
  PROVE  GateInv'
<1>1. /\ epoch' = epoch /\ reader' = reader /\ buffer' = buffer /\ used' = used /\ shown' = shown
      /\ drawn' = drawn \/ drawn' = NotDrawn
      /\ ui.pc # "idle"
  BY DEF Claim, Enqueue, UiUnchanged
<1>2. ui'.pc \in {"idle", "enqueue"} /\ ui'.settle = ui.settle
  <2>1. \E pc \in {"idle", "enqueue"} : ui' = [ui EXCEPT !.pc = pc]
    BY DEF Claim, Enqueue
  <2> QED
    BY <2>1, Types DEF UiType
<1>3. ~ used.recreated
  BY <1>1 DEF GateInv, GoneInv
<1>4. EpochsInv /\ OlderInv /\ AlikeInv
  BY <1>3 DEF GateInv
<1>5. EpochsInv' /\ OlderInv' /\ AlikeInv'
  <2>1. ui.pc \in {"claim", "enqueue"}
    BY DEF Claim, Enqueue
  <2> QED
    BY <1>1, <1>2, <1>4, <2>1 DEF EpochsInv, OlderInv, AlikeInv, NotAdopted
<1> QED
  BY <1>1, <1>3, <1>5, QuietGate

LEMMA ClearGate ==
  ASSUME IInv, GateInv, ClearBuffer
  PROVE  GateInv'
<1>1. /\ epoch' = epoch /\ reader' = reader /\ used' = used /\ shown' = shown /\ drawn' = drawn
      /\ ui.pc = "clear" /\ ui' = [ui EXCEPT !.pc = "reset"] /\ buffer' = Cleared(ui.epoch)
  BY DEF ClearBuffer, UiUnchanged
<1>2. ui'.pc = "reset"
  BY <1>1, Types DEF UiType
<1>3. ~ used.recreated
  BY <1>1 DEF GateInv, GoneInv
<1>4. EpochsInv /\ OlderInv /\ AlikeInv
  BY <1>3 DEF GateInv
<1>5. buffer'.epoch = IF ui.epoch = 0 THEN buffer.epoch ELSE ui.epoch
  BY <1>1 DEF Cleared
<1>6. EpochsInv'
  BY <1>1, <1>2, <1>4, <1>5, GateTypes DEF EpochsInv
<1>7. OlderInv'
  BY <1>1, <1>2, <1>4 DEF OlderInv
<1>8. AlikeInv'
  <2>1. CASE ui.epoch # 0
    <3>1. shown'.epoch # buffer'.epoch
      BY <1>1, <1>4, <1>5, <2>1, GateTypes DEF OlderInv
    <3> QED
      BY <3>1 DEF AlikeInv
  <2>2. CASE ui.epoch = 0
    <3>1. shown.epoch = buffer.epoch => NotAdopted
      BY <1>1, <1>4, <2>2 DEF AlikeInv
    <3> QED
      BY <1>1, <1>5, <2>2, <3>1 DEF AlikeInv, NotAdopted
  <2> QED
    BY <2>1, <2>2
<1> QED
  BY <1>1, <1>3, <1>6, <1>7, <1>8, QuietGate

LEMMA SettleGate ==
  ASSUME IInv, GateInv, NEW elapsed \in BOOLEAN, Settle(elapsed)
  PROVE  GateInv'
<1>1. /\ epoch' = epoch /\ reader' = reader /\ used' = used /\ shown' = shown /\ drawn' = drawn
      /\ ui.pc = "idle" /\ reader.pc # "off" /\ ui.settle
      /\ ui' = [ui EXCEPT !.settle = ~ elapsed] /\ buffer' = Cleared(0)
  BY DEF Settle, Polls, UiUnchanged
<1>2. ui'.pc = "idle"
  BY <1>1, Types DEF UiType
<1>3. ~ used.recreated
  BY <1>1 DEF GateInv, GoneInv
<1>4. EpochsInv /\ OlderInv /\ AlikeInv
  BY <1>3 DEF GateInv
<1>5. buffer'.epoch = buffer.epoch
  BY <1>1 DEF Cleared
<1>6. shown.epoch = buffer.epoch => NotAdopted
  BY <1>1, <1>4 DEF AlikeInv
<1>7. EpochsInv' /\ OlderInv' /\ AlikeInv'
  BY <1>1, <1>2, <1>4, <1>5, <1>6 DEF EpochsInv, OlderInv, AlikeInv, NotAdopted
<1> QED
  BY <1>1, <1>3, <1>7, QuietGate

LEMMA ResetGate ==
  ASSUME IInv, GateInv, ResetWorker
  PROVE  GateInv'
<1>1. /\ epoch' = epoch /\ reader' = reader /\ used' = used /\ shown' = shown /\ drawn' = drawn
      /\ buffer' = buffer /\ ui.pc = "reset"
      /\ ui' = [ui EXCEPT !.pc = IF ui.then = "settle" THEN "idle" ELSE ui.then,
                          !.settle = @ \/ ui.then = "settle", !.then = "idle", !.epoch = 0]
  BY DEF ResetWorker, UiUnchanged
<1>2. ui'.pc \in {"idle", "start", "tune"}
  <2>1. ui'.pc = IF ui.then = "settle" THEN "idle" ELSE ui.then
    BY <1>1, Types DEF UiType
  <2>2. ui.then \in {"idle", "start", "tune", "settle"}
    BY Types DEF UiType
  <2> QED
    BY <2>1, <2>2
<1>3. ~ used.recreated
  BY <1>1 DEF GateInv, GoneInv
<1>4. EpochsInv /\ OlderInv /\ AlikeInv
  BY <1>3 DEF GateInv
<1>5. shown.epoch = buffer.epoch => NotAdopted
  BY <1>1, <1>4 DEF AlikeInv
<1>6. EpochsInv' /\ OlderInv' /\ AlikeInv'
  BY <1>1, <1>2, <1>4, <1>5 DEF EpochsInv, OlderInv, AlikeInv, NotAdopted
<1> QED
  BY <1>1, <1>3, <1>6, QuietGate

\* A retune: what is cleared next gets a new epoch.
LEMMA BarrierGate ==
  ASSUME IInv, EpochsInv, OlderInv, AlikeInv, reader' = reader, shown' = shown, buffer' = buffer,
         epoch' = epoch + 1, ui'.pc = "clear", ui'.epoch = epoch + 1, ui'.settle => ui.settle
  PROVE  EpochsInv' /\ OlderInv' /\ AlikeInv'
<1>1. /\ shown.epoch < epoch + 1 /\ ui'.epoch # 0 /\ epoch \in Nat
      /\ shown.epoch \in Nat /\ buffer.epoch \in Nat /\ reader.epoch \in Nat
  BY GateTypes DEF EpochsInv
<1>2. EpochsInv'
  BY <1>1 DEF EpochsInv
<1>3. OlderInv'
  BY <1>1 DEF OlderInv
<1>4. AlikeInv'
  BY <1>1, GateTypes DEF AlikeInv, NotAdopted
<1> QED
  BY <1>2, <1>3, <1>4

\* The three fields a barrier sets.
LEMMA BarrierFields ==
  ASSUME IInv, NEW f, Barrier(f)
  PROVE  /\ epoch' = epoch + 1 /\ ui'.pc = "clear" /\ ui'.epoch = epoch + 1
         /\ ui'.settle => ui.settle
<1>1. /\ epoch' = epoch + 1
      /\ ui' = [ui EXCEPT !.pc = "clear", !.epoch = epoch + 1, !.then = "tune", !.asked = f,
                          !.queued = FALSE, !.settle = ui.stream.kind # "agile" /\ ui.settle]
  BY Types DEF Barrier, ThenClear, UiType
<1> QED
  BY <1>1, Types DEF UiType

\* A step that touches neither what the gate compares nor the UI's clearing.
LEMMA IdleGate ==
  ASSUME EpochsInv, OlderInv, AlikeInv, reader' = reader, shown' = shown, buffer' = buffer,
         epoch' = epoch, ui.pc \notin {"clear", "reset"}, ui'.pc \notin {"clear", "reset"},
         ui'.settle = ui.settle
  PROVE  EpochsInv' /\ OlderInv' /\ AlikeInv'
BY DEF EpochsInv, OlderInv, AlikeInv, NotAdopted

LEMMA TuneGate ==
  ASSUME IInv, GateInv, Tune
  PROVE  GateInv'
<1>1. /\ epoch' = epoch /\ reader' = reader /\ used' = used /\ shown' = shown /\ drawn' = drawn
      /\ buffer' = buffer /\ ui.pc = "tune"
      /\ \/ ui' = [ui EXCEPT !.pc = "idle"]
         \/ \E stored : ui' = [ui EXCEPT !.pc = "tuned", !.stored = stored]
  BY DEF Tune
<1>2. ui'.pc \in {"tuned", "idle"} /\ ui'.settle = ui.settle
  BY <1>1, Types DEF UiType
<1>3. ~ used.recreated
  BY <1>1 DEF GateInv, GoneInv
<1>4. EpochsInv' /\ OlderInv' /\ AlikeInv'
  BY <1>1, <1>2, <1>3, IdleGate DEF GateInv
<1> QED
  BY <1>1, <1>3, <1>4, QuietGate

LEMMA TunedGate ==
  ASSUME IInv, GateInv, Tuned
  PROVE  GateInv'
<1>1. /\ epoch' = epoch + 1 /\ reader' = reader /\ used' = used /\ shown' = shown
      /\ drawn' = drawn /\ buffer' = buffer /\ ui.pc = "tuned"
      /\ ui' = [ui EXCEPT !.pc = "clear", !.epoch = epoch + 1, !.then = "settle"]
  BY DEF Tuned, UiUnchanged, ThenClear
<1>2. ui'.pc = "clear" /\ ui'.epoch = epoch + 1 /\ ui'.settle = ui.settle
  BY <1>1, Types DEF UiType
<1>3. ~ used.recreated
  BY <1>1 DEF GateInv, GoneInv
<1>4. EpochsInv' /\ OlderInv' /\ AlikeInv'
  BY <1>1, <1>2, <1>3, BarrierGate DEF GateInv
<1> QED
  BY <1>1, <1>3, <1>4, QuietGate

\* A reader that starts has not adopted an epoch, and will adopt a new one.
LEMMA StartReaderGate ==
  ASSUME IInv, GateInv, StartReader
  PROVE  GateInv'
<1>1. /\ epoch' = epoch + 1 /\ used' = used /\ shown' = shown /\ drawn' = drawn
      /\ buffer' = buffer /\ ui.pc = "start" /\ reader' = [reader EXCEPT !.pc = "begin"]
      /\ \/ ui' = [ui EXCEPT !.pc = "clear", !.epoch = 0, !.then = "settle"]
         \/ ui' = [ui EXCEPT !.pc = "idle"]
  BY DEF StartReader, ThenClear
<1>2. /\ reader'.pc = "begin"
      /\ ui'.pc = "idle" \/ (ui'.pc = "clear" /\ ui'.epoch = 0)
  BY <1>1, Types DEF UiType, ReaderType
<1>3. ~ used.recreated
  BY <1>1 DEF GateInv, GoneInv
<1>4. EpochsInv /\ OlderInv /\ AlikeInv
  BY <1>3 DEF GateInv
<1>5. EpochsInv' /\ OlderInv' /\ AlikeInv'
  BY <1>1, <1>2, <1>4, GateTypes DEF EpochsInv, OlderInv, AlikeInv, NotAdopted
<1>6. GateComparesAlike'
  BY <1>1 DEF GateInv, GateComparesAlike, DrawnRows
<1>7. UsedInv' /\ used'.recreated = used.recreated
  BY <1>1 DEF GateInv, UsedInv
<1> QED
  BY <1>3, <1>5, <1>6, <1>7, GateKept

\* The timer of a queued retune also runs after the stream has stopped.
LEMMA QueuedRetuneGate ==
  ASSUME IInv, GateInv, QueuedRetune
  PROVE  GateInv'
<1>1. /\ reader' = reader /\ used' = used /\ shown' = shown /\ drawn' = drawn /\ buffer' = buffer
      /\ ui.pc = "idle"
  BY DEF QueuedRetune, UiUnchanged
<1>2. UsedInv' /\ used'.recreated = used.recreated /\ GateComparesAlike'
  BY <1>1 DEF GateInv, UsedInv, GateComparesAlike, DrawnRows
<1>3. CASE reader.pc # "off" /\ ui.stream.kind = "agile"
  <2>1. Barrier(ui.asked)
    BY <1>3 DEF QueuedRetune
  <2>2. ~ used.recreated
    BY <1>3 DEF GateInv, GoneInv
  <2>3. EpochsInv' /\ OlderInv' /\ AlikeInv'
    BY <1>1, <2>1, <2>2, BarrierFields, BarrierGate DEF GateInv
  <2> QED
    BY <1>1, <2>2, <2>3, QuietGate
<1>4. CASE ~ (reader.pc # "off" /\ ui.stream.kind = "agile")
  <2>1. epoch' = epoch /\ ui' = [ui EXCEPT !.queued = FALSE]
    BY <1>4 DEF QueuedRetune
  <2>2. ui'.pc = "idle" /\ ui'.settle = ui.settle
    BY <1>1, <2>1, Types DEF UiType
  <2>3. ~ used.recreated => EpochsInv' /\ OlderInv' /\ AlikeInv'
    BY <1>1, <2>1, <2>2, IdleGate DEF GateInv
  <2>4. used.recreated => reader'.pc = "off" /\ ui'.pc = "idle"
    BY <1>1, <2>2 DEF GateInv, GoneInv
  <2> QED
    BY <1>2, <2>3, <2>4, GateKept
<1> QED
  BY <1>3, <1>4

\* The user: starts, stops, hardware changes, retunes and settings.
LEMMA CommandGate ==
  ASSUME GateInv, Command
  PROVE  UsedInv' /\ used'.recreated = used.recreated
BY DEF GateInv, UsedInv, Command

LEMMA StartGate ==
  ASSUME IInv, GateInv, ~ Recreate, NEW stream, Start(stream)
  PROVE  GateInv'
<1>1. /\ epoch' = epoch /\ reader' = reader /\ shown' = shown /\ drawn' = drawn
      /\ buffer' = buffer /\ reader.pc = "off" /\ Command /\ ~ used.recreated
      /\ ui' = [ui EXCEPT !.pc = "clear", !.epoch = 0, !.then = "start", !.stream = stream,
                          !.stored = "none"]
  BY DEF Start, UiUnchanged, ThenClear
<1>2. ui'.pc = "clear" /\ ui'.epoch = 0
  BY <1>1, Types DEF UiType
<1>3. EpochsInv /\ OlderInv /\ AlikeInv
  BY <1>1 DEF GateInv
<1>4. EpochsInv' /\ OlderInv' /\ AlikeInv'
  BY <1>1, <1>2, <1>3, GateTypes DEF EpochsInv, OlderInv, AlikeInv, NotAdopted
<1>5. GateComparesAlike'
  BY <1>1 DEF GateInv, GateComparesAlike, DrawnRows
<1> QED
  BY <1>1, <1>4, <1>5, CommandGate, GateKept

LEMMA HardwareChangeGate ==
  ASSUME IInv, GateInv, HardwareChange
  PROVE  GateInv'
<1>1. /\ epoch' = epoch /\ shown' = shown /\ drawn' = drawn /\ buffer' = buffer
      /\ reader.pc = "loop" /\ Command /\ reader' = [reader EXCEPT !.pc = "off"]
      /\ ui' = [ui EXCEPT !.pc = "clear", !.epoch = 0, !.then = "start"]
  BY DEF HardwareChange, ThenClear
<1>2. ui'.pc = "clear" /\ ui'.epoch = 0 /\ reader'.pc = "off"
  BY <1>1, Types DEF UiType, ReaderType
<1>3. ~ used.recreated
  BY <1>1 DEF GateInv, GoneInv
<1>4. EpochsInv /\ OlderInv /\ AlikeInv
  BY <1>3 DEF GateInv
<1>5. EpochsInv' /\ OlderInv' /\ AlikeInv'
  BY <1>1, <1>2, <1>4, GateTypes DEF EpochsInv, OlderInv, AlikeInv, NotAdopted
<1>6. GateComparesAlike'
  BY <1>1 DEF GateInv, GateComparesAlike, DrawnRows
<1> QED
  BY <1>1, <1>3, <1>5, <1>6, CommandGate, GateKept

LEMMA StopGate ==
  ASSUME IInv, GateInv, Stop
  PROVE  GateInv'
<1>1. /\ shown' = shown /\ drawn' = drawn /\ buffer' = buffer /\ ui' = ui
      /\ ui.pc = "idle" /\ reader.pc = "loop" /\ reader' = [reader EXCEPT !.pc = "off"]
  BY DEF Stop
<1>2. reader'.pc = "off"
  BY <1>1, Types DEF ReaderType
<1>3. ~ used.recreated
  BY <1>1 DEF GateInv, GoneInv
<1>4. EpochsInv /\ OlderInv /\ AlikeInv
  BY <1>3 DEF GateInv
<1>5. GateComparesAlike'
  BY <1>1 DEF GateInv, GateComparesAlike, DrawnRows
<1>6. CASE Command /\ epoch' = epoch
  <2>1. EpochsInv' /\ OlderInv' /\ AlikeInv'
    BY <1>1, <1>2, <1>4, <1>6 DEF EpochsInv, OlderInv, AlikeInv, NotAdopted
  <2> QED
    BY <1>3, <1>5, <1>6, <2>1, CommandGate, GateKept
<1>7. CASE used' = [used EXCEPT !.commands = @ + 1, !.recreated = TRUE]
  <2>1. used' = [commands |-> used.commands + 1, recreated |-> TRUE,
                 published |-> used.published]
    <3> DEFINE counted == used.commands + 1
    <3>1. counted \in Nat
      BY DEF GateInv, UsedInv
    <3>2. used' = [used EXCEPT !.commands = counted, !.recreated = TRUE]
      BY <1>7
    <3> HIDE DEF counted
    <3>3. used' = [commands |-> counted, recreated |-> TRUE, published |-> used.published]
      BY <3>1, <3>2 DEF GateInv, UsedInv
    <3> QED
      BY <3>3 DEF counted
  <2>2. UsedInv' /\ used'.recreated
    BY <2>1 DEF GateInv, UsedInv
  <2> QED
    BY <1>1, <1>2, <1>5, <2>2 DEF GateInv, GoneInv
<1> QED
  BY <1>6, <1>7 DEF Stop

LEMMA RetuneGate ==
  ASSUME IInv, GateInv, NEW f, Retune(f)
  PROVE  GateInv'
<1>1. /\ reader' = reader /\ shown' = shown /\ drawn' = drawn /\ buffer' = buffer
      /\ ui.pc = "idle" /\ reader.pc # "off" /\ Command
  BY DEF Retune, Polls, UiUnchanged
<1>2. ~ used.recreated
  BY <1>1 DEF GateInv, GoneInv
<1>3. EpochsInv /\ OlderInv /\ AlikeInv
  BY <1>2 DEF GateInv
<1>4. EpochsInv' /\ OlderInv' /\ AlikeInv'
  <2>1. CASE Barrier(f)
    BY <1>1, <1>3, <2>1, BarrierFields, BarrierGate
  <2>2. CASE ui' = [ui EXCEPT !.asked = f, !.queued = TRUE] /\ epoch' = epoch
    <3>1. ui'.pc = "idle" /\ ui'.settle = ui.settle
      BY <1>1, <2>2, Types DEF UiType
    <3> QED
      BY <1>1, <1>3, <2>2, <3>1, IdleGate
  <2> QED
    BY <2>1, <2>2 DEF Retune
<1>5. GateComparesAlike'
  BY <1>1 DEF GateInv, GateComparesAlike, DrawnRows
<1> QED
  BY <1>1, <1>2, <1>4, <1>5, CommandGate, GateKept

LEMMA SettingsGate ==
  ASSUME IInv, GateInv, NEW s, ChangeSettings(s)
  PROVE  GateInv'
<1>1. /\ epoch' = epoch /\ reader' = reader /\ shown' = shown /\ drawn' = drawn
      /\ buffer' = buffer /\ ui.pc = "idle" /\ Command /\ ui' = [ui EXCEPT !.setting = s]
  BY DEF ChangeSettings, UiUnchanged
<1>2. ui'.pc = "idle" /\ ui'.settle = ui.settle
  BY <1>1, Types DEF UiType
<1>3. ~ used.recreated => EpochsInv' /\ OlderInv' /\ AlikeInv'
  BY <1>1, <1>2, IdleGate DEF GateInv
<1>4. GateComparesAlike'
  BY <1>1 DEF GateInv, GateComparesAlike, DrawnRows
<1>5. used.recreated => reader'.pc = "off" /\ ui'.pc = "idle"
  BY <1>1, <1>2 DEF GateInv, GoneInv
<1> QED
  BY <1>1, <1>3, <1>4, <1>5, CommandGate, GateKept

LEMMA InitGate == Init => GateInv
<1> SUFFICES ASSUME Init PROVE GateInv
  OBVIOUS
<1>1. /\ epoch = 1 /\ reader.pc = "off" /\ buffer.epoch = 1 /\ shown.epoch = 0
      /\ ui.pc = "idle" /\ used = [commands |-> 0, recreated |-> FALSE, published |-> 0]
      /\ drawn.verdict = "none"
  BY DEF Init, NoShown, NotDrawn
<1> QED
  BY <1>1 DEF GateInv, UsedInv, GoneInv, GateComparesAlike, EpochsInv, OlderInv, AlikeInv,
              NotAdopted

LEMMA GateInvariance == ~ Recreate /\ IInv /\ GateInv /\ [Next]_vars => GateInv'
<1> SUFFICES ASSUME ~ Recreate, IInv, GateInv, [Next]_vars PROVE GateInv'
  OBVIOUS
<1>1. CASE ReaderStep
  BY <1>1, ReaderGate
<1>2. CASE WorkerStep
  BY <1>2, WorkerGate
<1>3. CASE UiStep
  BY <1>3, SettleGate, PollGate, ClaimGate, ClearGate, ResetGate, StartReaderGate,
     QueuedRetuneGate, TuneGate, TunedGate, Zenon DEF UiStep
<1>4. CASE User
  BY <1>4, StartGate, HardwareChangeGate, StopGate, RetuneGate, SettingsGate, Zenon DEF User
<1>5. CASE UNCHANGED vars
  BY <1>5 DEF vars, GateInv, UsedInv, GoneInv, GateComparesAlike, DrawnRows, EpochsInv, OlderInv,
              AlikeInv, NotAdopted
<1>6. CASE ApplyPendingRetune
  <2>1. /\ epoch' = epoch /\ reader' = reader /\ buffer' = buffer /\ shown' = shown
        /\ drawn' = drawn /\ used' = used /\ ui' = [ui EXCEPT !.stored = "none"]
    BY <1>6 DEF ApplyPendingRetune
  <2>2. ui'.pc = ui.pc /\ ui'.epoch = ui.epoch /\ ui'.settle = ui.settle
    BY <2>1, Types DEF UiType
  <2> QED
    BY <2>1, <2>2 DEF GateInv, UsedInv, GoneInv, GateComparesAlike, DrawnRows, EpochsInv,
       OlderInv, AlikeInv, NotAdopted
<1> QED
  BY <1>1, <1>2, <1>3, <1>4, <1>5, <1>6 DEF Next

\* As long as no recreated processor is started again, a frame the gate drops
\* was computed from the same contents of the buffer as the frame shown before
\* (updateSpectrum); with one, its epochs begin at 1 again and a run shows
\* what the gate then drops.
THEOREM GateComparesAlikeCorrect ==
  ASSUME ~ Recreate
  PROVE  Spec => []GateComparesAlike
<1>1. Init => IInv /\ GateInv
  BY InitHolds, InitGate
<1>2. IInv /\ GateInv /\ [Next]_vars => (IInv /\ GateInv)'
  BY Invariance, GateInvariance
<1>3. IInv /\ GateInv => GateComparesAlike
  BY DEF GateInv
<1> QED
  BY <1>1, <1>2, <1>3, PTL DEF Spec

==============================================================================
