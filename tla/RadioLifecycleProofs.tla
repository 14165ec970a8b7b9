------------------------ MODULE RadioLifecycleProofs ------------------------
(***************************************************************************)
(* Proofs about RadioLifecycle, for every number of retries, starts,       *)
(* failures and hardware changes and for both kinds of receiver.           *)
(*                                                                         *)
(* IdleMeansStopped and ReaderHasSession are not inductive by themselves:  *)
(* a hardware change waits for the reader and then starts it again without *)
(* looking at the session, and an idle window must not be left with a      *)
(* reader's running flag.  Coherent adds what the handlers rely on there.  *)
(* RetryOnce needs the budget that streamStartupRetryCount keeps: a        *)
(* restart that is ordered, due or done has been paid for.  A last part    *)
(* says that a stop is pursued to its end, and that a running stream that  *)
(* fails is heard.                                                         *)
(***************************************************************************)
EXTENDS RadioLifecycle, TLAPS

\* The window state u and the DataProcessor p fit together.
Coherent(u, p) ==
  /\ u.run = "Idle" => p.thread = "none" /\ ~ p.running /\ ~ u.opened
  /\ p.thread # "none" /\ p.fobos => u.switched \/ (u.session /\ ~ u.external)
  /\ p.thread = "none" => ~ p.running
  /\ u.waiting => u.run = "Stopping" /\ (u.viaFobos => u.session)

\* Restarts ordered (restartAfterStartupWatchdog) or due in the state u.
Ordered(u) == u.restarts + (IF u.restartAfter THEN 1 ELSE 0)

\* ... and those that came due before, a, have been paid for.
Paid(u, a) ==
  /\ a + Ordered(u) <= u.retryCount
  /\ u.restartAfter => u.retryCount = 1

LifecycleInv ==
  /\ TypeOK
  /\ Coherent(ui, proc)
  /\ Paid(ui, attempts)

-----------------------------------------------------------------------------
(* The helpers *)

\* The bounds and counts are natural numbers.
LEMMA Bounds ==
  CancelRetries \in Nat /\ MaxStarts \in Nat /\ MaxFailures \in Nat /\ MaxChanges \in Nat
  BY LifecycleAssumption

\* requestStop() clears the flag and leaves the thread alone.
LEMMA RequestStopFacts ==
  ASSUME NEW p \in ProcType
  PROVE  /\ RequestStop(p) \in ProcType
         /\ RequestStop(p).thread = p.thread /\ RequestStop(p).fobos = p.fobos
         /\ ~ RequestStop(p).running
<1>1. CASE ~ Busy(p) /\ ~ p.running
  BY <1>1 DEF RequestStop
<1>2. CASE ~ (~ Busy(p) /\ ~ p.running) /\ (~ p.fobos \/ p.cancelled)
  <2>1. RequestStop(p) = [p EXCEPT !.running = FALSE]
    BY <1>2 DEF RequestStop
  <2> QED
    BY <2>1 DEF ProcType
<1>3. CASE ~ (~ Busy(p) /\ ~ p.running) /\ ~ (~ p.fobos \/ p.cancelled)
  <2>1. RequestStop(p) = [p EXCEPT !.running = FALSE, !.cancelled = TRUE, !.workers = @ + 1]
    BY <1>3 DEF RequestStop
  <2>2. p.workers + 1 \in Nat
    BY DEF ProcType
  <2>3. RequestStop(p) \in ProcType
    BY <2>1, <2>2 DEF ProcType
  <2>4. /\ RequestStop(p).thread = p.thread /\ RequestStop(p).fobos = p.fobos
        /\ ~ RequestStop(p).running
    BY <2>1 DEF ProcType
  <2> QED
    BY <2>3, <2>4
<1> QED
  BY <1>1, <1>2, <1>3

\* startProcessing() with no thread running starts one.
LEMMA StartProcessingFacts ==
  ASSUME NEW p \in ProcType, p.thread = "none", NEW fobos \in BOOLEAN
  PROVE  /\ StartProcessing(p, fobos) \in ProcType
         /\ StartProcessing(p, fobos).thread = "starting"
         /\ StartProcessing(p, fobos).fobos = fobos
         /\ StartProcessing(p, fobos).running
  BY DEF StartProcessing, ProcType, Threads

\* A thread that was terminated is gone.
LEMMA TerminatedFacts ==
  ASSUME NEW p \in ProcType
  PROVE  /\ Terminated(p) \in ProcType
         /\ Terminated(p).thread = "none"
         /\ ~ Terminated(p).running
  BY DEF Terminated, ProcType, Threads

\* finishFobosStop() ends in Idle with nothing open, and orders no restart
\* that was not ordered.
LEMMA FinishedFacts ==
  ASSUME NEW u \in UiType, NEW forced \in BOOLEAN, NEW f \in Finished(u, forced)
  PROVE  /\ f \in UiType
         /\ f.run = "Idle" /\ ~ f.opened
         /\ f.waiting = u.waiting
         /\ f.retryCount = u.retryCount
         /\ Ordered(f) <= Ordered(u)
         /\ f.restartAfter => u.restartAfter
<1>1. PICK ok \in BOOLEAN, a \in Addresses : f = FinishFobosStop(u, forced, ok, a)
  BY DEF Finished
<1> DEFINE idle == [u EXCEPT !.poll = FALSE, !.watchdog = FALSE, !.opened = FALSE, !.run = "Idle",
                             !.switched = FALSE]
<1>2. /\ idle \in UiType
      /\ idle.run = "Idle" /\ ~ idle.opened /\ idle.waiting = u.waiting
      /\ idle.retryCount = u.retryCount /\ idle.restarts = u.restarts
      /\ idle.restartAfter = u.restartAfter
  BY DEF UiType, RunStates
<1>3. CASE u.closing = "inProgress"
  <2>1. f = [idle EXCEPT !.session = FALSE, !.closing = "finalized",
                         !.closeAfter = @ /\ ~ u.session]
    BY <1>1, <1>3 DEF FinishFobosStop
  <2> HIDE DEF idle
  <2>2. /\ f \in UiType /\ f.run = "Idle" /\ ~ f.opened /\ f.waiting = u.waiting
        /\ f.retryCount = u.retryCount
        /\ f.restarts = u.restarts /\ f.restartAfter = u.restartAfter
    BY <1>2, <2>1 DEF UiType
  <2>3. Ordered(f) = Ordered(u)
    BY <2>2 DEF Ordered
  <2>4. Ordered(u) \in Int
    BY DEF Ordered, UiType
  <2>5. f.restartAfter => u.restartAfter
    BY <2>2
  <2> QED
    BY <2>2, <2>3, <2>4, <2>5
<1>4. CASE u.closing # "inProgress"
  <2> DEFINE closes == u.session /\ ~ forced /\ u.closeAfter
             closed == closes => ok
  <2>1. f = [idle EXCEPT
              !.session = @ /\ ~ forced /\ ~ closes,
              !.closeAfter = @ /\ ~ forced /\ ~ closes,
              !.address = IF forced \/ u.session THEN a ELSE @,
              !.restarts = IF RestartsAgain(u, forced, closed) THEN @ + 1 ELSE @,
              !.restartAfter = @ /\ forced /\ closed,
              !.automatic = @ /\ (u.restartAfter => closed)]
    BY <1>1, <1>4 DEF FinishFobosStop
  <2>5. closes \in BOOLEAN /\ closed \in BOOLEAN /\ RestartsAgain(u, forced, closed) \in BOOLEAN
    BY DEF RestartsAgain, UiType
  <2> HIDE DEF idle, closes, closed
  <2> DEFINE session == idle.session /\ ~ forced /\ ~ closes
             closeAfter == idle.closeAfter /\ ~ forced /\ ~ closes
             address == IF forced \/ u.session THEN a ELSE idle.address
             restarts == IF RestartsAgain(u, forced, closed) THEN idle.restarts + 1
                         ELSE idle.restarts
             restartAfter == idle.restartAfter /\ forced /\ closed
             automatic == idle.automatic /\ (u.restartAfter => closed)
  <2>7. address \in Addresses /\ restarts \in Nat
    BY <1>2, <2>5 DEF UiType
  <2>9. /\ session \in BOOLEAN /\ closeAfter \in BOOLEAN
        /\ restartAfter \in BOOLEAN /\ automatic \in BOOLEAN
    OBVIOUS
  <2>8. f = [idle EXCEPT !.session = session, !.closeAfter = closeAfter,
                         !.address = address, !.restarts = restarts,
                         !.restartAfter = restartAfter, !.automatic = automatic]
    BY <2>1
  <2> HIDE DEF session, closeAfter, address, restarts, restartAfter, automatic
  <2>6. f \in UiType
    <3>1. [idle EXCEPT !.session = session, !.closeAfter = closeAfter,
                       !.address = address, !.restarts = restarts,
                       !.restartAfter = restartAfter, !.automatic = automatic] \in UiType
      BY <1>2, <2>7, <2>9, Zenon DEF UiType
    <3> QED
      BY <2>8, <3>1, Zenon
  <2>2. f.run = "Idle" /\ ~ f.opened /\ f.waiting = u.waiting /\ f.retryCount = u.retryCount
    BY <1>2, <2>1 DEF UiType
  <2>3. /\ f.restarts = IF RestartsAgain(u, forced, closed) THEN u.restarts + 1 ELSE u.restarts
        /\ f.restartAfter = (u.restartAfter /\ forced /\ closed)
    BY <1>2, <2>1 DEF UiType
  <2>4. Ordered(f) <= Ordered(u)
    BY <2>3, <2>5 DEF Ordered, RestartsAgain, UiType
  <2>10. f.restartAfter => u.restartAfter
    BY <2>3
  <2> QED
    BY <2>2, <2>4, <2>6, <2>10
<1> QED
  BY <1>3, <1>4

\* Ordered restarts can be counted.
LEMMA OrderedNat ==
  ASSUME NEW u \in UiType
  PROVE  Ordered(u) \in Nat
<1>1. u.restarts \in Nat
  BY DEF UiType
<1> QED
  BY <1>1 DEF Ordered

\* closeFobosSession() touches the session only.
LEMMA CloseFacts ==
  ASSUME NEW u \in UiType
  PROVE  LET f == CloseFobosSession(u)
         IN  /\ f \in UiType /\ ~ f.session
             /\ f.run = u.run /\ f.opened = u.opened /\ f.waiting = u.waiting
             /\ f.external = u.external /\ f.switched = u.switched
             /\ f.viaFobos = u.viaFobos
             /\ f.restarts = u.restarts /\ f.retryCount = u.retryCount
             /\ f.restartAfter = u.restartAfter
<1>1. CloseFobosSession(u) \in UiType
  BY Zenon DEF CloseFobosSession, UiType
<1> QED
  BY <1>1 DEF CloseFobosSession, UiType

\* What startProcessing() is followed by.
LEMMA StartedFacts ==
  ASSUME NEW u \in UiType, NEW fobos \in BOOLEAN
  PROVE  LET f == Started(u, fobos)
         IN  /\ f \in UiType /\ f.run = "Running"
             /\ f.session = u.session /\ f.external = u.external
             /\ f.switched = (fobos /\ u.external) /\ f.waiting = u.waiting
             /\ f.restarts = u.restarts /\ f.retryCount = u.retryCount
             /\ f.restartAfter = u.restartAfter
<1> DEFINE switched == fobos /\ u.external
<1>1. switched \in BOOLEAN
  OBVIOUS
<1>2. Started(u, fobos) = [u EXCEPT !.opened = TRUE, !.watchdog = TRUE, !.run = "Running",
                                    !.switched = switched]
  BY DEF Started
<1>3. Started(u, fobos) \in UiType
  <2> HIDE DEF switched
  <2>1. [u EXCEPT !.opened = TRUE, !.watchdog = TRUE, !.run = "Running",
                  !.switched = switched] \in UiType
    BY <1>1, Zenon DEF UiType, RunStates
  <2> QED
    BY <1>2, <2>1, Zenon
<1> QED
  BY <1>2, <1>3 DEF UiType

-----------------------------------------------------------------------------
(* Stopping and starting from a window state *)

\* stopFobosProcessing() keeps the window and the reader together and starts
\* nothing.
LEMMA StopFacts ==
  ASSUME NEW u \in UiType, proc \in ProcType, Coherent(u, proc), ~ u.waiting,
         StopFobosProcessing(u)
  PROVE  /\ ui' \in UiType /\ proc' \in ProcType
         /\ Coherent(ui', proc')
         /\ ui'.run # "Running" \/ ui' = u
         /\ ui'.retryCount = u.retryCount
         /\ Ordered(ui') <= Ordered(u)
         /\ ui'.restartAfter => u.restartAfter
<1>0. Ordered(u) \in Nat
  BY DEF Ordered, UiType
<1>1. CASE ~ StopsAt(u)
  BY <1>0, <1>1 DEF StopFobosProcessing
<1>2. CASE StopsAt(u)
  <2> DEFINE v == [u EXCEPT !.run = "Stopping", !.watchdog = FALSE]
             w == [v EXCEPT !.retries = 0, !.poll = TRUE]
  <2>0. 0 \in 0 .. CancelRetries
    BY Bounds
  <2>1. v \in UiType
    BY Zenon DEF UiType, RunStates
  <2>2. w \in UiType
    BY <2>0, <2>1, Zenon DEF UiType
  <2>3. /\ v.run = "Stopping" /\ v.session = u.session
        /\ v.external = u.external /\ v.switched = u.switched /\ ~ v.waiting
        /\ v.retryCount = u.retryCount /\ v.restarts = u.restarts
        /\ v.restartAfter = u.restartAfter /\ v.opened = u.opened
    BY DEF UiType
  <2>4. /\ w.run = "Stopping" /\ w.session = u.session
        /\ w.external = u.external /\ w.switched = u.switched /\ ~ w.waiting
        /\ w.retryCount = u.retryCount /\ w.restarts = u.restarts
        /\ w.restartAfter = u.restartAfter
    BY DEF UiType
  <2>5. CASE u.opened \/ Busy(proc)
    <3>1. ui' = w /\ proc' = RequestStop(proc)
      BY <1>2, <2>5 DEF StopFobosProcessing
    <3> HIDE DEF v, w
    <3>2. Coherent(ui', proc')
      BY <2>4, <3>1, RequestStopFacts DEF Coherent
    <3>3. Ordered(ui') = Ordered(u)
      BY <2>4, <3>1 DEF Ordered
    <3> QED
      BY <1>0, <2>2, <2>4, <3>1, <3>2, <3>3, RequestStopFacts
  <2>6. CASE ~ (u.opened \/ Busy(proc))
    <3>1. ui' \in Finished(v, FALSE) /\ proc' = proc
      BY <1>2, <2>6 DEF StopFobosProcessing
    <3> HIDE DEF v, w
    <3>2. /\ ui' \in UiType /\ ui'.run = "Idle" /\ ~ ui'.opened /\ ui'.waiting = v.waiting
          /\ ui'.retryCount = v.retryCount /\ Ordered(ui') <= Ordered(v)
          /\ ui'.restartAfter => v.restartAfter
      BY <2>1, <3>1, FinishedFacts
    <3>3. Coherent(ui', proc')
      BY <2>3, <2>6, <3>1, <3>2 DEF Coherent, Busy
    <3>4. Ordered(v) = Ordered(u)
      BY <2>3 DEF Ordered
    <3> QED
      BY <2>3, <3>1, <3>2, <3>3, <3>4
  <2> QED
    BY <2>5, <2>6
<1> QED
  BY <1>1, <1>2

\* A start by the user's hand clears the retry budget; an automatic one keeps
\* it.
LEMMA PrologueFacts ==
  ASSUME NEW u \in UiType
  PROVE  /\ Prologue(u) \in UiType
         /\ Prologue(u).run = u.run /\ Prologue(u).opened = u.opened
         /\ Prologue(u).session = u.session
         /\ Prologue(u).external = u.external /\ Prologue(u).switched = u.switched
         /\ Prologue(u).waiting = u.waiting
         /\ Prologue(u).restarts = u.restarts
         /\ u.automatic => /\ Prologue(u).retryCount = u.retryCount
                           /\ Prologue(u).restartAfter = u.restartAfter
         /\ ~ u.automatic => /\ Prologue(u).retryCount = 0
                             /\ ~ Prologue(u).restartAfter
<1> DEFINE count == IF u.automatic THEN u.retryCount ELSE 0
           after == u.restartAfter /\ u.automatic
<1>1. count \in 0 .. 1 /\ after \in BOOLEAN
  BY DEF UiType
<1>2. Prologue(u) = [u EXCEPT !.automatic = FALSE, !.retryCount = count, !.restartAfter = after]
  BY DEF Prologue
<1>3. Prologue(u) \in UiType
  <2> HIDE DEF count, after
  <2> QED
    BY <1>1, <1>2, Zenon DEF UiType
<1>4. /\ Prologue(u).run = u.run /\ Prologue(u).opened = u.opened
      /\ Prologue(u).session = u.session
      /\ Prologue(u).external = u.external /\ Prologue(u).switched = u.switched
      /\ Prologue(u).waiting = u.waiting
      /\ Prologue(u).restarts = u.restarts
      /\ Prologue(u).retryCount = count /\ Prologue(u).restartAfter = after
  <2> HIDE DEF count, after
  <2> QED
    BY <1>2 DEF UiType
<1>5. /\ u.automatic => count = u.retryCount /\ after = u.restartAfter
      /\ ~ u.automatic => count = 0 /\ ~ after
  BY DEF UiType
<1> HIDE DEF count, after
<1> QED
  BY <1>3, <1>4, <1>5

\* startFobosProcessing() keeps the window and the reader together, says
\* Running only after it has started a reader, and orders no restart.
LEMMA StartFacts ==
  ASSUME NEW u \in UiType, proc \in ProcType, Coherent(u, proc), ~ u.waiting,
         starts \in 0 .. MaxStarts, StartFobosProcessing(u)
  PROVE  /\ ui' \in UiType /\ proc' \in ProcType /\ starts' \in 0 .. MaxStarts
         /\ Coherent(ui', proc')
         /\ ui'.restarts = u.restarts
         /\ ui'.retryCount = Prologue(u).retryCount
         /\ ui'.restartAfter = Prologue(u).restartAfter
         /\ u.run # "Running" /\ ui'.run = "Running" => starts' = starts + 1 /\ proc'.running
<1> DEFINE v == Prologue(u)
<1>1. /\ v \in UiType /\ v.run = u.run /\ v.opened = u.opened /\ v.session = u.session
      /\ v.external = u.external /\ v.switched = u.switched
      /\ ~ v.waiting /\ v.restarts = u.restarts
  BY PrologueFacts
<1>2. Coherent(v, proc)
  BY <1>1 DEF Coherent
<1> HIDE DEF v
<1> DEFINE w == IF v.external /\ v.session THEN CloseFobosSession(v) ELSE v
<1>6. /\ w \in UiType /\ w.run = v.run /\ w.opened = v.opened /\ ~ w.waiting
      /\ w.external = v.external
      /\ w.restarts = v.restarts /\ w.retryCount = v.retryCount
      /\ w.restartAfter = v.restartAfter
  BY <1>1, CloseFacts
<1> HIDE DEF w
<1>3. CASE /\ MayStart(v) /\ (w.external \/ w.session)
           /\ starts < MaxStarts
           /\ starts' = StartsAfter
           /\ ui' = Started(w, ~ w.external)
           /\ proc' = StartProcessing(proc, ~ w.external)
  <2>1. proc.thread = "none"
    BY <1>3 DEF MayStart, Busy
  <2>2. starts' = starts + 1 /\ starts' \in 0 .. MaxStarts
    BY <1>3, <2>1, Bounds DEF StartsAfter
  <2>3. /\ proc' \in ProcType /\ proc'.thread = "starting" /\ proc'.running
        /\ proc'.fobos = ~ w.external
    BY <1>3, <2>1, StartProcessingFacts
  <2>4. /\ ui' \in UiType /\ ui'.run = "Running" /\ ui'.session = w.session
        /\ ui'.external = w.external /\ ~ ui'.waiting /\ ui'.restarts = w.restarts
        /\ ui'.retryCount = w.retryCount /\ ui'.restartAfter = w.restartAfter
    BY <1>3, <1>6, StartedFacts
  <2>5. Coherent(ui', proc')
    BY <1>3, <2>3, <2>4 DEF Coherent
  <2> QED
    BY <1>1, <1>6, <2>2, <2>3, <2>4, <2>5 DEF v
<1>4. CASE /\ MayStart(v)
           /\ ui' \in {w, IF w.session THEN CloseFobosSession(w) ELSE w}
           /\ UNCHANGED <<proc, starts>>
  <2>1. /\ ui' \in UiType /\ ui'.run = w.run /\ ui'.opened = w.opened /\ ~ ui'.waiting
        /\ ui'.restarts = w.restarts /\ ui'.retryCount = w.retryCount
        /\ ui'.restartAfter = w.restartAfter
    BY <1>4, <1>6, CloseFacts
  <2>2. proc.thread = "none" /\ v.run = "Idle"
    BY <1>4 DEF MayStart, Busy
  <2>3. Coherent(ui', proc')
    BY <1>2, <1>4, <1>6, <2>1, <2>2 DEF Coherent
  <2> QED
    BY <1>1, <1>4, <1>6, <2>1, <2>2, <2>3 DEF v
<1>5. CASE ~ MayStart(v) /\ ui' = v /\ UNCHANGED <<proc, starts>>
  BY <1>1, <1>2, <1>5 DEF v
<1> QED
  BY <1>3, <1>4, <1>5 DEF StartFobosProcessing, v, w

-----------------------------------------------------------------------------
(* The steps *)

\* A step that says Running has started a reader.
StartsReader ==
  ui.run # "Running" /\ ui'.run = "Running" => starts' = starts + 1 /\ proc'.running

\* The steps of the reader thread leave the window alone.
LEMMA ReaderStep ==
  ASSUME LifecycleInv, Reader \/ CancelWorker
  PROVE  LifecycleInv' /\ StartsReader
<1> USE DEF LifecycleInv, TypeOK
<1>1. ui' = ui /\ starts' = starts /\ attempts' = attempts
      /\ changes' = changes
  BY DEF Reader, CancelWorker, ReaderBegins, DriverRuns, DriverReturns, ReaderFails, ReaderEnds
<1>2. /\ proc' \in ProcType
      /\ proc'.thread = "none" => ~ proc'.running
      /\ proc.thread = "none" => proc'.thread = "none"
      /\ proc'.thread # "none" => proc'.fobos = proc.fobos
      /\ posted' \in Seq(Addresses) /\ failures' \in 0 .. MaxFailures
  <2>1. CASE ReaderBegins
    <3>1. CASE proc.running
      <4>1. proc' = [proc EXCEPT !.thread = "opening", !.told = FALSE]
        BY <2>1, <3>1 DEF ReaderBegins
      <4> QED
        BY <2>1, <4>1 DEF ReaderBegins, ProcType, Threads
    <3>2. CASE ~ proc.running
      <4>1. proc' = [proc EXCEPT !.thread = "ending"]
        BY <2>1, <3>2 DEF ReaderBegins
      <4> QED
        BY <2>1, <4>1 DEF ReaderBegins, ProcType, Threads
    <3> QED
      BY <3>1, <3>2
  <2>2. CASE DriverRuns
    BY <2>2 DEF DriverRuns, ProcType, Threads
  <2>3. CASE DriverReturns
    <3>1. failures' \in 0 .. MaxFailures
      BY <2>3, Bounds DEF DriverReturns
    <3>2. proc.thread # "none"
      BY <2>3 DEF DriverReturns, Leaves
    <3>3. \/ proc' = [proc EXCEPT !.thread = "failed"]
          \/ proc' = [proc EXCEPT !.thread = "ending"]
      BY <2>3 DEF DriverReturns
    <3>4. posted' = posted
      BY <2>3 DEF DriverReturns
    <3> QED
      BY <3>1, <3>2, <3>3, <3>4 DEF ProcType, Threads
  <2>4. CASE ReaderFails
    <3>1. ui.address \in Addresses
      BY DEF UiType
    <3>2. posted' \in Seq(Addresses)
      BY <2>4, <3>1 DEF ReaderFails
    <3> QED
      BY <2>4, <3>2 DEF ReaderFails, ProcType, Threads
  <2>5. CASE ReaderEnds
    BY <2>5, TerminatedFacts DEF ReaderEnds
  <2>6. CASE CancelWorker
    <3> DEFINE told == proc.told \/ proc.thread = "reading"
    <3>1. proc.workers - 1 \in Nat /\ told \in BOOLEAN
      BY <2>6 DEF CancelWorker, ProcType
    <3>2. proc' = [proc EXCEPT !.workers = proc.workers - 1, !.told = told]
      BY <2>6 DEF CancelWorker
    <3> HIDE DEF told
    <3>3. proc' \in ProcType
      <4>1. [proc EXCEPT !.workers = proc.workers - 1, !.told = told] \in ProcType
        BY <3>1, Zenon DEF ProcType
      <4> QED
        BY <3>2, <4>1
    <3>4. /\ proc'.thread = proc.thread /\ proc'.running = proc.running
          /\ proc'.fobos = proc.fobos
      BY <3>2 DEF ProcType
    <3>5. proc.thread = "none" => ~ proc.running
      BY DEF Coherent
    <3> QED
      BY <2>6, <3>3, <3>4, <3>5 DEF CancelWorker
  <2> QED
    BY <2>1, <2>2, <2>3, <2>4, <2>5, <2>6 DEF Reader
<1>3. Coherent(ui', proc')
  BY <1>1, <1>2 DEF Coherent
<1> QED
  BY <1>1, <1>2, <1>3 DEF StartsReader, Paid, Ordered

\* Start, by the user or at the end of an external hardware change, forgives
\* the restarts that are due.
LEMMA StartStep ==
  ASSUME LifecycleInv, UserStart \/ AgainTimer
  PROVE  LifecycleInv' /\ StartsReader
<1> USE DEF LifecycleInv, TypeOK
<1>1. PICK u \in {ui, [ui EXCEPT !.again = @ - 1]} :
        /\ StartFobosProcessing(u) /\ ~ ui.waiting
        /\ attempts' = - ui.restarts
        /\ UNCHANGED <<posted, failures, changes>>
        /\ u = ui \/ ui.again > 0
  BY DEF UserStart, AgainTimer
<1>2. /\ u \in UiType /\ u.run = ui.run /\ u.opened = ui.opened /\ u.session = ui.session
      /\ u.external = ui.external /\ u.switched = ui.switched
      /\ ~ u.waiting /\ u.restarts = ui.restarts /\ u.automatic = ui.automatic
      /\ u.retryCount = ui.retryCount /\ u.restartAfter = ui.restartAfter
  <2>1. CASE u = ui
    BY <1>1, <2>1
  <2>2. CASE u = [ui EXCEPT !.again = @ - 1] /\ ui.again > 0
    <3>1. ui.again - 1 \in Nat
      BY <2>2 DEF UiType
    <3>2. [ui EXCEPT !.again = ui.again - 1] \in UiType
      BY <3>1, Zenon DEF UiType
    <3> QED
      BY <1>1, <2>2, <3>2 DEF UiType
  <2> QED
    BY <1>1, <2>1, <2>2
<1>3. Coherent(u, proc)
  BY <1>2 DEF Coherent
<1>4. /\ ui' \in UiType /\ proc' \in ProcType /\ starts' \in 0 .. MaxStarts
      /\ Coherent(ui', proc')
      /\ ui'.restarts = u.restarts
      /\ ui'.retryCount = Prologue(u).retryCount
      /\ ui'.restartAfter = Prologue(u).restartAfter
      /\ u.run # "Running" /\ ui'.run = "Running" => starts' = starts + 1 /\ proc'.running
  BY <1>1, <1>2, <1>3, StartFacts
<1>5. attempts' \in Int
  BY <1>1 DEF UiType
<1>6. Paid(ui', attempts')
  <2>1. u.restarts \in Nat /\ u.retryCount \in 0 .. 1
    BY <1>2 DEF UiType
  <2>2. attempts' + ui'.restarts = 0
    BY <1>1, <1>2, <1>4, <2>1
  <2>3. CASE u.automatic
    <3>1. u.restartAfter => u.retryCount = 1
      BY <1>2 DEF Paid
    <3>2. ui'.retryCount = u.retryCount /\ ui'.restartAfter = u.restartAfter
      BY <1>2, <1>4, <2>3, PrologueFacts
    <3>3. u.restartAfter \in BOOLEAN /\ ui'.restarts \in Nat
      BY <1>2, <1>4, <2>1 DEF UiType
    <3>4. attempts' + Ordered(ui') = IF u.restartAfter THEN 1 ELSE 0
      BY <1>5, <2>2, <3>2, <3>3 DEF Ordered
    <3> QED
      BY <2>1, <3>1, <3>2, <3>4 DEF Paid
  <2>4. CASE ~ u.automatic
    <3>1. ui'.retryCount = 0 /\ ~ ui'.restartAfter
      BY <1>2, <1>4, <2>4, PrologueFacts
    <3> QED
      BY <1>4, <2>2, <3>1, <1>5, <1>2, <2>1 DEF Paid, Ordered
  <2> QED
    BY <2>3, <2>4
<1> QED
  BY <1>1, <1>2, <1>4, <1>5, <1>6 DEF StartsReader

\* The automatic restart moves from due to done.
LEMMA RestartStep ==
  ASSUME LifecycleInv, RestartTimer
  PROVE  LifecycleInv' /\ StartsReader
<1> USE DEF LifecycleInv, TypeOK
<1> DEFINE u == [ui EXCEPT !.restarts = @ - 1]
<1>1. /\ u \in UiType /\ u.run = ui.run /\ u.opened = ui.opened /\ u.session = ui.session
      /\ u.external = ui.external /\ u.switched = ui.switched
      /\ ~ u.waiting /\ u.restarts = ui.restarts - 1
      /\ u.retryCount = ui.retryCount /\ u.restartAfter = ui.restartAfter
  <2>1. ui.restarts > 0 /\ ~ ui.waiting
    BY Zenon DEF RestartTimer
  <2>2. ui.restarts - 1 \in Nat
    BY <2>1 DEF UiType
  <2>3. [ui EXCEPT !.restarts = ui.restarts - 1] \in UiType
    BY <2>2, Zenon DEF UiType
  <2> QED
    BY <2>1, <2>3 DEF UiType
<1>2. attempts' = attempts + 1 /\ attempts' \in Int
  <2>1. attempts' = attempts + 1
    BY Zenon DEF RestartTimer
  <2> QED
    BY <2>1
<1>3. /\ \/ MayPrepare(u) /\ StartFobosProcessing([u EXCEPT !.session = TRUE, !.automatic = TRUE])
         \/ /\ ui' \in {[NotPrepared(u) EXCEPT !.automatic = FALSE],
                        [u EXCEPT !.automatic = FALSE, !.session = @ /\ ~ MayPrepare(u)]}
            /\ UNCHANGED <<proc, starts>>
      /\ UNCHANGED <<posted, failures, changes>>
  BY DEF RestartTimer
<1>0. u.restarts \in Nat /\ u.restarts = ui.restarts - 1 /\ ui.restarts \in Nat
      /\ u.restartAfter \in BOOLEAN /\ u.retryCount \in 0 .. 1
  BY <1>1 DEF UiType
<1> HIDE DEF u
<1>4. ASSUME ui'.restarts = u.restarts, ui'.retryCount = u.retryCount,
             ui'.restartAfter = u.restartAfter
      PROVE  Paid(ui', attempts')
  <2>1. attempts' + Ordered(ui') = attempts + Ordered(ui)
    <3>1. ui'.restarts = ui.restarts - 1 /\ ui'.restarts \in Nat
      BY <1>0, <1>4
    <3>2. ui'.restartAfter <=> ui.restartAfter
      BY <1>1, <1>4, Zenon
    <3>3. Ordered(ui') = Ordered(ui) - 1
      <4>1. CASE ui.restartAfter
        BY <1>0, <3>1, <3>2, <4>1 DEF Ordered
      <4>2. CASE ~ ui.restartAfter
        BY <1>0, <3>1, <3>2, <4>2 DEF Ordered
      <4> QED
        BY <4>1, <4>2
    <3>4. Ordered(ui) \in Int
      BY OrderedNat
    <3> QED
      BY <1>2, <3>3, <3>4
  <2> QED
    BY <1>1, <1>4, <2>1 DEF Paid
<1>5. CASE MayPrepare(u) /\ StartFobosProcessing([u EXCEPT !.session = TRUE, !.automatic = TRUE])
  <2> DEFINE w == [u EXCEPT !.session = TRUE, !.automatic = TRUE]
  <2>1. w \in UiType
    BY <1>1, Zenon DEF UiType
  <2>2. /\ w.run = u.run /\ w.opened = u.opened /\ w.session /\ ~ w.waiting /\ w.automatic
        /\ w.external = u.external /\ w.switched = u.switched
        /\ w.restarts = u.restarts /\ w.retryCount = u.retryCount
        /\ w.restartAfter = u.restartAfter
    BY <1>1 DEF UiType
  <2>3. StartFobosProcessing(w)
    BY <1>5
  <2> HIDE DEF w
  <2>4. Coherent(w, proc)
    BY <1>1, <2>2 DEF Coherent
  <2>5. /\ ui' \in UiType /\ proc' \in ProcType /\ starts' \in 0 .. MaxStarts
        /\ Coherent(ui', proc')
        /\ ui'.restarts = w.restarts
        /\ ui'.retryCount = Prologue(w).retryCount
        /\ ui'.restartAfter = Prologue(w).restartAfter
        /\ w.run # "Running" /\ ui'.run = "Running" => starts' = starts + 1 /\ proc'.running
    BY <2>1, <2>2, <2>3, <2>4, StartFacts
  <2>6. Paid(ui', attempts')
    BY <1>4, <2>1, <2>2, <2>5, PrologueFacts
  <2> QED
    BY <1>1, <1>2, <1>3, <2>2, <2>5, <2>6 DEF StartsReader
<1>6. CASE ui' = [NotPrepared(u) EXCEPT !.automatic = FALSE] /\ UNCHANGED <<proc, starts>>
  <2> DEFINE w == NotPrepared(u)
  <2>1. /\ w \in UiType /\ w.run = u.run /\ w.opened = u.opened /\ ~ w.waiting
        /\ w.external = u.external /\ w.switched = u.switched
        /\ w.session = u.session \/ u.external
        /\ w.restarts = u.restarts /\ w.retryCount = u.retryCount
        /\ w.restartAfter = u.restartAfter
    BY <1>1, CloseFacts DEF NotPrepared
  <2>2. ui' = [w EXCEPT !.automatic = FALSE]
    BY <1>6
  <2> HIDE DEF w
  <2>3. ui' \in UiType
    <3>1. [w EXCEPT !.automatic = FALSE] \in UiType
      BY <2>1, Zenon DEF UiType
    <3> QED
      BY <2>2, <3>1
  <2>4. /\ ui'.run = u.run /\ ui'.opened = u.opened /\ ~ ui'.waiting
        /\ ui'.external = u.external /\ ui'.switched = u.switched
        /\ ui'.session = u.session \/ u.external
        /\ ui'.restarts = u.restarts /\ ui'.retryCount = u.retryCount
        /\ ui'.restartAfter = u.restartAfter
    BY <2>1, <2>2 DEF UiType
  <2>5. Coherent(ui', proc')
    BY <1>1, <1>6, <2>4 DEF Coherent
  <2> QED
    BY <1>1, <1>2, <1>3, <1>4, <1>6, <2>3, <2>4, <2>5 DEF StartsReader
<1>7. CASE /\ ui' = [u EXCEPT !.automatic = FALSE, !.session = @ /\ ~ MayPrepare(u)]
           /\ UNCHANGED <<proc, starts>>
  <2> DEFINE session == u.session /\ ~ MayPrepare(u)
  <2>2. session \in BOOLEAN
    BY <1>1 DEF UiType
  <2>3. ui' = [u EXCEPT !.automatic = FALSE, !.session = session]
    BY <1>7
  <2>4. MayPrepare(u) \/ session = u.session
    BY <1>1 DEF UiType
  <2> HIDE DEF session
  <2>5. ui' \in UiType
    <3>1. [u EXCEPT !.automatic = FALSE, !.session = session] \in UiType
      BY <1>1, <2>2, Zenon DEF UiType
    <3> QED
      BY <2>3, <3>1
  <2>6. /\ ui'.run = u.run /\ ui'.opened = u.opened /\ ~ ui'.waiting /\ ui'.session = session
        /\ ui'.external = u.external /\ ui'.switched = u.switched
        /\ ui'.restarts = u.restarts /\ ui'.retryCount = u.retryCount
        /\ ui'.restartAfter = u.restartAfter
    BY <1>1, <2>3 DEF UiType
  <2>7. Coherent(ui', proc')
    BY <1>1, <1>7, <2>4, <2>6 DEF Coherent, MayPrepare, MayStart, Busy
  <2> QED
    BY <1>1, <1>2, <1>3, <1>4, <1>7, <2>5, <2>6, <2>7 DEF StartsReader
<1> QED
  BY <1>3, <1>5, <1>6, <1>7

\* Stop, by the user or by the startup watchdog.
LEMMA StopStep ==
  ASSUME LifecycleInv, UserStop \/ WatchdogFires
  PROVE  LifecycleInv' /\ StartsReader
<1> USE DEF LifecycleInv, TypeOK
<1>1. CASE UserStop
  <2>1. StopFobosProcessing(ui) /\ ~ ui.waiting
    BY <1>1 DEF UserStop
  <2>2. /\ ui' \in UiType /\ proc' \in ProcType /\ Coherent(ui', proc')
        /\ ui'.run # "Running" \/ ui' = ui
        /\ ui'.retryCount = ui.retryCount /\ Ordered(ui') <= Ordered(ui)
        /\ ui'.restartAfter => ui.restartAfter
    BY <2>1, StopFacts
  <2>3. Ordered(ui) \in Nat /\ Ordered(ui') \in Nat /\ ui.retryCount \in 0 .. 1
    BY <2>2 DEF Ordered, UiType
  <2>4. attempts' = attempts
    BY <1>1 DEF UserStop
  <2>5. Paid(ui', attempts')
    BY <2>2, <2>3, <2>4 DEF Paid
  <2> QED
    BY <1>1, <2>2, <2>4, <2>5 DEF UserStop, StartsReader
<1>2. CASE WatchdogFires
  <2> DEFINE retry == MayRetry(ui)
             count == IF retry THEN ui.retryCount + 1 ELSE ui.retryCount
             u == [ui EXCEPT !.retryCount = count, !.restartAfter = retry]
  <2>1. StopFobosProcessing(u) /\ ~ ui.waiting /\ ui.run = "Running"
    BY <1>2 DEF WatchdogFires
  <2>2. /\ count \in 0 .. 1 /\ retry \in BOOLEAN
        /\ retry => ui.retryCount = 0 /\ count = 1
        /\ ~ retry => count = ui.retryCount
    BY DEF MayRetry, UiType
  <2> HIDE DEF count, retry
  <2>3. u \in UiType
    <3>1. [ui EXCEPT !.retryCount = count, !.restartAfter = retry] \in UiType
      BY <2>2, Zenon DEF UiType
    <3> QED
      BY <3>1
  <2>4. /\ u.run = ui.run /\ u.opened = ui.opened /\ u.session = ui.session
        /\ u.external = ui.external /\ u.switched = ui.switched /\ ~ u.waiting
        /\ u.restarts = ui.restarts /\ u.retryCount = count /\ u.restartAfter = retry
    BY <2>1 DEF UiType
  <2> HIDE DEF u
  <2>5. Coherent(u, proc)
    BY <2>4, <2>1 DEF Coherent
  <2>6. /\ ui' \in UiType /\ proc' \in ProcType /\ Coherent(ui', proc')
        /\ ui'.run # "Running" \/ ui' = u
        /\ ui'.retryCount = u.retryCount /\ Ordered(ui') <= Ordered(u)
        /\ ui'.restartAfter => u.restartAfter
    BY <2>1, <2>3, <2>4, <2>5, StopFacts
  <2>7. /\ Ordered(u) \in Nat /\ Ordered(ui') \in Nat
        /\ ui.restarts \in Nat /\ ui.retryCount \in 0 .. 1
    <3>1. Ordered(u) \in Nat /\ Ordered(ui') \in Nat
      BY <2>3, <2>6, OrderedNat
    <3> QED
      BY <3>1 DEF UiType
  <2>8. attempts' = attempts
    BY <1>2, Zenon DEF WatchdogFires
  <2>9. attempts + Ordered(u) <= count
    <3>1. attempts + ui.restarts <= ui.retryCount
      BY <2>7 DEF Paid, Ordered
    <3>3. CASE retry
      BY <2>2, <2>4, <2>7, <3>1, <3>3 DEF Ordered
    <3>4. CASE ~ retry
      BY <2>2, <2>4, <2>7, <3>1, <3>4 DEF Ordered
    <3> QED
      BY <2>2, <3>3, <3>4
  <2>10. Paid(ui', attempts')
    BY <2>2, <2>4, <2>6, <2>7, <2>8, <2>9 DEF Paid
  <2> QED
    BY <1>2, <2>1, <2>6, <2>8, <2>10 DEF WatchdogFires, StartsReader
<1> QED
  BY <1>1, <1>2

\* pollStopCompletion() and the end of the watchdog start nothing.
LEMMA PollStep ==
  ASSUME LifecycleInv, PollStopped \/ PollRetry \/ PollGivesUp \/ WatchdogDone
  PROVE  LifecycleInv' /\ StartsReader
<1> USE DEF LifecycleInv, TypeOK
<1>1. /\ UNCHANGED <<posted, starts, attempts, failures, changes>>
      /\ ~ ui.waiting
  BY Zenon DEF PollStopped, PollRetry, PollGivesUp, WatchdogDone
<1>2. Ordered(ui) \in Nat
  BY OrderedNat
<1>3. ASSUME ui' \in UiType, proc' \in ProcType, Coherent(ui', proc'),
             ui'.run # "Running" \/ ui'.run = ui.run,
             ui'.retryCount = ui.retryCount, Ordered(ui') <= Ordered(ui),
             ui'.restartAfter => ui.restartAfter
      PROVE  LifecycleInv' /\ StartsReader
  <2>1. Ordered(ui') \in Nat /\ ui.retryCount \in 0 .. 1
    BY <1>3, OrderedNat DEF UiType
  <2>2. Paid(ui', attempts')
    BY <1>1, <1>2, <1>3, <2>1 DEF Paid
  <2> QED
    BY <1>1, <1>3, <2>2 DEF StartsReader
<1>4. ASSUME NEW u \in UiType, u.waiting = ui.waiting, u.retryCount = ui.retryCount,
             u.restarts = ui.restarts, u.restartAfter = ui.restartAfter,
             NEW forced \in BOOLEAN, ui' \in Finished(u, forced),
             proc' \in ProcType, proc'.thread = "none", ~ proc'.running
      PROVE  LifecycleInv' /\ StartsReader
  <2>1. /\ ui' \in UiType /\ ui'.run = "Idle" /\ ~ ui'.opened /\ ~ ui'.waiting
        /\ ui'.retryCount = ui.retryCount /\ Ordered(ui') <= Ordered(u)
        /\ ui'.restartAfter => ui.restartAfter
    BY <1>1, <1>4, FinishedFacts
  <2>2. Ordered(u) = Ordered(ui)
    BY <1>4 DEF Ordered
  <2>3. Coherent(ui', proc')
    BY <1>4, <2>1 DEF Coherent
  <2> QED
    BY <1>3, <1>4, <2>1, <2>2, <2>3
<1>5. CASE PollStopped
  <2>1. ui' \in Finished(ui, FALSE) /\ proc' = proc /\ proc.thread = "none"
    BY <1>5 DEF PollStopped, Busy
  <2>2. ~ proc.running
    BY <2>1 DEF Coherent
  <2> QED
    BY <1>4, <2>1, <2>2
<1>6. CASE PollRetry
  <2>1. ui' = [ui EXCEPT !.retries = @ + 1] /\ proc' = RequestStop(proc)
        /\ ui.retries < CancelRetries
    BY <1>6 DEF PollRetry
  <2>2. ui.retries + 1 \in 0 .. CancelRetries
    BY <2>1, Bounds DEF UiType
  <2>3. ui' \in UiType
    <3>1. [ui EXCEPT !.retries = ui.retries + 1] \in UiType
      BY <2>2, Zenon DEF UiType
    <3> QED
      BY <2>1, <3>1
  <2>4. /\ ui'.run = ui.run /\ ui'.opened = ui.opened /\ ui'.session = ui.session
        /\ ui'.external = ui.external /\ ui'.switched = ui.switched
        /\ ui'.waiting = ui.waiting /\ ui'.retryCount = ui.retryCount
        /\ ui'.restarts = ui.restarts /\ ui'.restartAfter = ui.restartAfter
    BY <2>1 DEF UiType
  <2>5. Ordered(ui') = Ordered(ui)
    BY <2>4 DEF Ordered
  <2>6. /\ proc' \in ProcType /\ proc'.thread = proc.thread
        /\ proc'.fobos = proc.fobos /\ ~ proc'.running
    BY <2>1, RequestStopFacts
  <2>7. Coherent(ui', proc')
    BY <1>1, <2>4, <2>6 DEF Coherent
  <2> QED
    BY <1>2, <1>3, <2>3, <2>4, <2>5, <2>6, <2>7
<1>7. CASE PollGivesUp
  <2> DEFINE u == [ui EXCEPT !.poll = FALSE]
  <2>1. u \in UiType
    BY Zenon DEF UiType
  <2>2. /\ u.run = ui.run /\ u.opened = ui.opened /\ u.session = ui.session
        /\ u.external = ui.external /\ u.switched = ui.switched
        /\ u.waiting = ui.waiting /\ u.retryCount = ui.retryCount
        /\ u.restarts = ui.restarts /\ u.restartAfter = ui.restartAfter
    BY DEF UiType
  <2>3. \/ ui' = [u EXCEPT !.closeAfter = TRUE] /\ UNCHANGED proc
        \/ proc' = Terminated(proc) /\ ui' \in Finished(u, TRUE)
        \/ ui' = u /\ proc' = [proc EXCEPT !.running = FALSE]
    BY <1>7, Zenon DEF PollGivesUp
  <2> HIDE DEF u
  <2>4. CASE ui' = [u EXCEPT !.closeAfter = TRUE] /\ UNCHANGED proc
    <3>1. [u EXCEPT !.closeAfter = TRUE] \in UiType
      BY <2>1, Zenon DEF UiType
    <3>2. /\ ui'.run = ui.run /\ ui'.opened = ui.opened /\ ui'.session = ui.session
          /\ ui'.external = ui.external /\ ui'.switched = ui.switched
          /\ ui'.waiting = ui.waiting /\ ui'.retryCount = ui.retryCount
          /\ ui'.restarts = ui.restarts /\ ui'.restartAfter = ui.restartAfter
      BY <2>1, <2>2, <2>4 DEF UiType
    <3>3. Ordered(ui') = Ordered(ui)
      BY <3>2 DEF Ordered
    <3>4. Coherent(ui', proc')
      BY <1>1, <2>4, <3>2 DEF Coherent
    <3> QED
      BY <1>2, <1>3, <2>4, <3>1, <3>2, <3>3, <3>4
  <2>5. CASE proc' = Terminated(proc) /\ ui' \in Finished(u, TRUE)
    BY <1>4, <2>1, <2>2, <2>5, TerminatedFacts
  <2>6. CASE ui' = u /\ proc' = [proc EXCEPT !.running = FALSE]
    <3>1. /\ proc' \in ProcType /\ proc'.thread = proc.thread
          /\ proc'.fobos = proc.fobos /\ ~ proc'.running
      BY <2>6 DEF ProcType
    <3>2. Ordered(ui') = Ordered(ui)
      BY <2>2, <2>6 DEF Ordered
    <3>3. Coherent(ui', proc')
      BY <1>1, <2>2, <2>6, <3>1 DEF Coherent
    <3> QED
      BY <1>2, <1>3, <2>1, <2>2, <2>6, <3>1, <3>2, <3>3
  <2> QED
    BY <2>3, <2>4, <2>5, <2>6
<1>8. CASE WatchdogDone
  <2>1. ui' = [ui EXCEPT !.watchdog = FALSE] /\ proc' = proc
    BY <1>8 DEF WatchdogDone
  <2>2. [ui EXCEPT !.watchdog = FALSE] \in UiType
    BY Zenon DEF UiType
  <2>3. /\ ui'.run = ui.run /\ ui'.opened = ui.opened /\ ui'.session = ui.session
        /\ ui'.external = ui.external /\ ui'.switched = ui.switched
        /\ ui'.waiting = ui.waiting /\ ui'.retryCount = ui.retryCount
        /\ ui'.restarts = ui.restarts /\ ui'.restartAfter = ui.restartAfter
    BY <2>1 DEF UiType
  <2>4. Ordered(ui') = Ordered(ui)
    BY <2>3 DEF Ordered
  <2>5. Coherent(ui', proc')
    BY <2>1, <2>3 DEF Coherent
  <2> QED
    BY <1>2, <1>3, <2>1, <2>2, <2>3, <2>4, <2>5
<1> QED
  BY <1>5, <1>6, <1>7, <1>8

\* The failure handler pays for the retry it orders.
LEMMA FailureStep ==
  ASSUME LifecycleInv, HandleDataProcessorFailure
  PROVE  LifecycleInv' /\ StartsReader
<1> USE DEF LifecycleInv, TypeOK
<1>1. /\ UNCHANGED <<starts, attempts, failures, changes>>
      /\ ~ ui.waiting /\ posted # <<>> /\ posted' = Tail(posted)
  BY Zenon DEF HandleDataProcessorFailure
<1>2. posted' \in Seq(Addresses)
  BY <1>1
<1>3. PICK early \in BOOLEAN :
        LET retry == early /\ MayRetry(ui)
            u == [ui EXCEPT !.automatic = FALSE, !.closeAfter = ~ ui.external,
                            !.watchdog = FALSE, !.restartAfter = retry,
                            !.retryCount = IF retry THEN @ + 1 ELSE @]
            v == [u EXCEPT !.run = "Stopping"]
        IN  IF Head(posted) # ui.address THEN UNCHANGED <<ui, proc>>
            ELSE IF u.run = "Stopping" \/ (u.run = "Idle" /\ ~ u.opened /\ ~ u.session)
            THEN ui' = u /\ UNCHANGED proc
            ELSE IF Busy(proc)
            THEN ui' = Polling(v) /\ proc' = RequestStop(proc)
            ELSE ui' \in Finished(v, FALSE) /\ UNCHANGED proc
  BY DEF HandleDataProcessorFailure
<1> DEFINE retry == early /\ MayRetry(ui)
           count == IF retry THEN ui.retryCount + 1 ELSE ui.retryCount
           close == ~ ui.external
           u == [ui EXCEPT !.automatic = FALSE, !.closeAfter = close,
                           !.watchdog = FALSE, !.restartAfter = retry, !.retryCount = count]
           v == [u EXCEPT !.run = "Stopping"]
<1>4. \/ UNCHANGED <<ui, proc>>
      \/ ui' = u /\ UNCHANGED proc
      \/ Busy(proc) /\ ui' = Polling(v) /\ proc' = RequestStop(proc)
      \/ ~ Busy(proc) /\ ui' \in Finished(v, FALSE) /\ UNCHANGED proc
  BY <1>3, Zenon
<1>5. /\ count \in 0 .. 1 /\ retry \in BOOLEAN /\ close \in BOOLEAN
      /\ retry => ui.retryCount = 0 /\ count = 1
      /\ ~ retry => count = ui.retryCount
  BY DEF MayRetry, UiType
<1> HIDE DEF count, retry, close
<1>6. u \in UiType
  <2>1. [ui EXCEPT !.automatic = FALSE, !.closeAfter = close,
                   !.watchdog = FALSE, !.restartAfter = retry, !.retryCount = count] \in UiType
    BY <1>5, Zenon DEF UiType
  <2> QED
    BY <2>1
<1>7. /\ u.run = ui.run /\ u.opened = ui.opened /\ u.session = ui.session
      /\ u.external = ui.external /\ u.switched = ui.switched /\ u.waiting = ui.waiting
      /\ u.restarts = ui.restarts /\ u.retryCount = count /\ u.restartAfter = retry
  BY DEF UiType
<1> HIDE DEF u
<1>8. /\ attempts + Ordered(u) <= count
      /\ ui.restarts \in Nat /\ ui.retryCount \in 0 .. 1
  <2>1. ui.restarts \in Nat /\ ui.retryCount \in 0 .. 1
    BY DEF UiType
  <2>2. attempts + ui.restarts <= ui.retryCount
    BY <2>1 DEF Paid, Ordered
  <2>3. CASE retry
    BY <1>5, <1>7, <2>1, <2>2, <2>3 DEF Ordered
  <2>4. CASE ~ retry
    BY <1>5, <1>7, <2>1, <2>2, <2>4 DEF Ordered
  <2> QED
    BY <1>5, <2>1, <2>3, <2>4
<1>9. ASSUME ui' \in UiType, proc' \in ProcType, Coherent(ui', proc'),
             ui'.run # "Running" \/ ui'.run = ui.run,
             ui'.retryCount = count, Ordered(ui') <= Ordered(u),
             ui'.restartAfter => retry
      PROVE  LifecycleInv' /\ StartsReader
  <2>1. Ordered(ui') \in Nat /\ Ordered(u) \in Nat
    BY <1>6, <1>9, OrderedNat
  <2>2. Paid(ui', attempts')
    BY <1>1, <1>5, <1>8, <1>9, <2>1 DEF Paid
  <2> QED
    BY <1>1, <1>2, <1>9, <2>2 DEF StartsReader
<1>10. v \in UiType
  BY <1>6, Zenon DEF UiType, RunStates
<1>11. /\ v.run = "Stopping" /\ v.session = u.session
       /\ v.external = u.external /\ v.switched = u.switched /\ v.waiting = u.waiting
       /\ v.restarts = u.restarts /\ v.retryCount = count /\ v.restartAfter = retry
  BY <1>6, <1>7 DEF UiType
<1> HIDE DEF v
<1>12. Ordered(u) \in Nat /\ Ordered(v) = Ordered(u)
  BY <1>6, <1>7, <1>11, OrderedNat DEF Ordered
<1>13. CASE UNCHANGED <<ui, proc>>
  BY <1>1, <1>2, <1>13 DEF StartsReader
<1>14. CASE ui' = u /\ UNCHANGED proc
  <2>1. Coherent(ui', proc')
    BY <1>1, <1>7, <1>14 DEF Coherent
  <2> QED
    BY <1>6, <1>7, <1>9, <1>12, <1>14, <2>1
<1>15. CASE Busy(proc) /\ ui' = Polling(v) /\ proc' = RequestStop(proc)
  <2>1. ui' = [v EXCEPT !.retries = 0, !.poll = TRUE]
    BY <1>15 DEF Polling
  <2>2. ui' \in UiType
    <3>1. 0 \in 0 .. CancelRetries
      BY Bounds
    <3>2. [v EXCEPT !.retries = 0, !.poll = TRUE] \in UiType
      BY <1>10, <3>1, Zenon DEF UiType
    <3> QED
      BY <2>1, <3>2
  <2>3. /\ ui'.run = "Stopping" /\ ui'.session = v.session
        /\ ui'.external = v.external /\ ui'.switched = v.switched /\ ui'.waiting = v.waiting
        /\ ui'.restarts = v.restarts /\ ui'.retryCount = count /\ ui'.restartAfter = retry
    BY <1>10, <1>11, <2>1 DEF UiType
  <2>4. Ordered(ui') = Ordered(u)
    BY <1>7, <1>11, <2>3 DEF Ordered
  <2>5. Coherent(ui', proc')
    BY <1>1, <1>7, <1>11, <1>15, <2>3, RequestStopFacts DEF Coherent
  <2> QED
    BY <1>9, <1>12, <1>15, <2>2, <2>3, <2>4, <2>5, RequestStopFacts
<1>16. CASE ~ Busy(proc) /\ ui' \in Finished(v, FALSE) /\ UNCHANGED proc
  <2>1. /\ ui' \in UiType /\ ui'.run = "Idle" /\ ~ ui'.opened /\ ui'.waiting = v.waiting
        /\ ui'.retryCount = v.retryCount /\ Ordered(ui') <= Ordered(v)
        /\ ui'.restartAfter => v.restartAfter
    BY <1>10, <1>16, FinishedFacts
  <2>2. Coherent(ui', proc')
    BY <1>1, <1>7, <1>11, <1>16, <2>1 DEF Coherent, Busy
  <2> QED
    BY <1>9, <1>11, <1>12, <1>16, <2>1, <2>2
<1> QED
  BY <1>4, <1>13, <1>14, <1>15, <1>16

\* A step that keeps the reader, the types and the retry budget keeps the
\* invariant.
LEMMA BudgetUntouched ==
  ASSUME LifecycleInv, UNCHANGED <<posted, attempts, failures>>,
         changes' \in 0 .. MaxChanges, starts' \in 0 .. MaxStarts,
         ui' \in UiType, proc' \in ProcType, Coherent(ui', proc'),
         ui'.retryCount = ui.retryCount, Ordered(ui') <= Ordered(ui),
         ui'.restartAfter => ui.restartAfter
  PROVE  LifecycleInv'
<1> USE DEF LifecycleInv, TypeOK
<1>1. Ordered(ui) \in Nat /\ Ordered(ui') \in Nat /\ ui.retryCount \in 0 .. 1
  BY OrderedNat DEF UiType
<1>2. Paid(ui', attempts')
  BY <1>1 DEF Paid
<1> QED
  BY <1>2

\* Sessions are opened and closed, and receivers selected by the user, while
\* the receiver is idle.
LEMMA SessionStep ==
  ASSUME LifecycleInv, PrepareFobosSession \/ SelectReceiver
  PROVE  LifecycleInv' /\ StartsReader
<1> USE DEF LifecycleInv, TypeOK
<1>1. /\ UNCHANGED <<proc, posted, starts, attempts, failures, changes>>
      /\ ~ ui.waiting /\ ui.run = "Idle"
  BY Zenon DEF PrepareFobosSession, SelectReceiver
<1> DEFINE c == CloseFobosSession(ui)
<1>2. /\ c \in UiType /\ c.run = ui.run /\ c.opened = ui.opened /\ c.waiting = ui.waiting
      /\ c.retryCount = ui.retryCount /\ c.restarts = ui.restarts
      /\ c.restartAfter = ui.restartAfter
  BY CloseFacts
<1> HIDE DEF c
<1>3. \/ ui' = [ui EXCEPT !.session = TRUE]
      \/ ui' = c \/ ui' = ui
      \/ \E external \in BOOLEAN, u \in {c, ui} : ui' = [u EXCEPT !.external = external]
  BY DEF PrepareFobosSession, SelectReceiver, NotPrepared, c
<1>4. /\ ui' \in UiType /\ ui'.run = ui.run /\ ui'.opened = ui.opened
      /\ ui'.waiting = ui.waiting /\ ui'.retryCount = ui.retryCount
      /\ ui'.restarts = ui.restarts /\ ui'.restartAfter = ui.restartAfter
  <2>1. CASE ui' = [ui EXCEPT !.session = TRUE]
    <3>1. [ui EXCEPT !.session = TRUE] \in UiType
      BY Zenon DEF UiType
    <3> QED
      BY <2>1, <3>1 DEF UiType
  <2>2. CASE ui' = c \/ ui' = ui
    BY <1>2, <2>2
  <2>3. ASSUME NEW external \in BOOLEAN, NEW u \in {c, ui}, ui' = [u EXCEPT !.external = external]
        PROVE  /\ ui' \in UiType /\ ui'.run = ui.run /\ ui'.opened = ui.opened
               /\ ui'.waiting = ui.waiting /\ ui'.retryCount = ui.retryCount
               /\ ui'.restarts = ui.restarts /\ ui'.restartAfter = ui.restartAfter
    <3>1. u \in UiType
      BY <1>2
    <3>2. [u EXCEPT !.external = external] \in UiType
      BY <3>1, Zenon DEF UiType
    <3> QED
      BY <1>2, <2>3, <3>1, <3>2 DEF UiType
  <2> QED
    BY <1>3, <2>1, <2>2, <2>3
<1>5. Ordered(ui') = Ordered(ui) /\ Ordered(ui) \in Nat
  BY <1>4, OrderedNat DEF Ordered
<1>6. Coherent(ui', proc')
  BY <1>1, <1>4 DEF Coherent
<1> QED
  BY <1>1, <1>4, <1>5, <1>6, BudgetUntouched DEF StartsReader

\* A receiver selected by a client leaves the session to the reader.
LEMMA RemoteStep ==
  ASSUME LifecycleInv, RemoteReceiver
  PROVE  LifecycleInv' /\ StartsReader
<1> USE DEF LifecycleInv, TypeOK
<1> DEFINE external == ~ ui.external
           switched == ui.switched \/ proc.fobos
<1>1. /\ UNCHANGED <<proc, posted, starts, attempts, failures, changes>>
      /\ ~ ui.waiting
      /\ ui' = [ui EXCEPT !.external = external, !.switched = switched]
  BY DEF RemoteReceiver
<1>2. external \in BOOLEAN /\ switched \in BOOLEAN
  OBVIOUS
<1> HIDE DEF external
<1>3. /\ ui' \in UiType /\ ui'.run = ui.run /\ ui'.opened = ui.opened
      /\ ui'.waiting = ui.waiting /\ ui'.switched = switched
      /\ ui'.retryCount = ui.retryCount
      /\ ui'.restarts = ui.restarts /\ ui'.restartAfter = ui.restartAfter
  <2> HIDE DEF switched
  <2>1. [ui EXCEPT !.external = external, !.switched = switched] \in UiType
    BY <1>2, Zenon DEF UiType
  <2> QED
    BY <1>1, <2>1 DEF UiType
<1>4. Ordered(ui') = Ordered(ui) /\ Ordered(ui) \in Nat
  BY <1>3, OrderedNat DEF Ordered
<1>5. Coherent(ui', proc')
  BY <1>1, <1>3 DEF Coherent
<1> QED
  BY <1>1, <1>3, <1>4, <1>5, BudgetUntouched DEF StartsReader

\* A hardware change asks the reader to stop and waits; a Fobos it waits for
\* keeps its session.
LEMMA HardwareChangeStep ==
  ASSUME LifecycleInv, HardwareChange
  PROVE  LifecycleInv' /\ StartsReader
<1> USE DEF LifecycleInv, TypeOK
<1>1. /\ UNCHANGED <<posted, starts, attempts, failures>>
      /\ ~ ui.waiting
      /\ changes < MaxChanges /\ changes' = changes + 1
  BY Zenon DEF HardwareChange
<1>2. changes' \in 0 .. MaxChanges
  BY <1>1, Bounds
<1>3. Ordered(ui) \in Nat
  BY OrderedNat
<1>4. CASE ui.session \/ (ui.external /\ Busy(proc))
  <2> DEFINE via == ~ (ui.external /\ Busy(proc))
  <2>1. /\ ui' = [ui EXCEPT !.run = "Stopping", !.watchdog = FALSE, !.poll = FALSE,
                            !.waiting = TRUE, !.viaFobos = via]
        /\ proc' = RequestStop(proc)
    BY <1>4, Zenon DEF HardwareChange
  <2>6. via \in BOOLEAN /\ (via => ui.session)
    BY <1>4 DEF UiType
  <2> HIDE DEF via
  <2>2. ui' \in UiType
    <3>1. [ui EXCEPT !.run = "Stopping", !.watchdog = FALSE, !.poll = FALSE,
                     !.waiting = TRUE, !.viaFobos = via] \in UiType
      BY <2>6, Zenon DEF UiType, RunStates
    <3> QED
      BY <2>1, <3>1
  <2>3. /\ ui'.run = "Stopping" /\ ui'.session = ui.session
        /\ ui'.external = ui.external /\ ui'.switched = ui.switched
        /\ ui'.retryCount = ui.retryCount
        /\ ui'.restarts = ui.restarts /\ ui'.restartAfter = ui.restartAfter
    BY <2>1 DEF UiType
  <2>4. Ordered(ui') = Ordered(ui)
    BY <2>3 DEF Ordered
  <2>7. ui'.viaFobos = via
    BY <2>1 DEF UiType
  <2>5. Coherent(ui', proc')
    BY <2>1, <2>3, <2>6, <2>7, RequestStopFacts DEF Coherent
  <2> QED
    BY <1>1, <1>2, <1>3, <2>1, <2>2, <2>3, <2>4, <2>5, BudgetUntouched, RequestStopFacts
       DEF StartsReader
<1>5. CASE ~ (ui.session \/ (ui.external /\ Busy(proc)))
  <2>1. proc' = proc /\ ui' = IF ~ Busy(proc) THEN [ui EXCEPT !.run = "Idle", !.opened = FALSE]
                              ELSE ui
    BY <1>5, Zenon DEF HardwareChange
  <2>2. CASE Busy(proc)
    BY <1>1, <1>2, <1>3, <2>1, <2>2, BudgetUntouched DEF StartsReader
  <2>3. CASE ~ Busy(proc)
    <3>1. ui' = [ui EXCEPT !.run = "Idle", !.opened = FALSE]
      BY <2>1, <2>3
    <3>2. ui' \in UiType
      <4>1. [ui EXCEPT !.run = "Idle", !.opened = FALSE] \in UiType
        BY Zenon DEF UiType, RunStates
      <4> QED
        BY <3>1, <4>1
    <3>3. /\ ui'.run = "Idle" /\ ~ ui'.opened /\ ui'.waiting = ui.waiting
          /\ ui'.retryCount = ui.retryCount
          /\ ui'.restarts = ui.restarts /\ ui'.restartAfter = ui.restartAfter
      BY <3>1 DEF UiType
    <3>4. Ordered(ui') = Ordered(ui)
      BY <3>3 DEF Ordered
    <3>5. Coherent(ui', proc')
      BY <1>1, <2>1, <2>3, <3>3 DEF Coherent, Busy
    <3> QED
      BY <1>1, <1>2, <1>3, <2>1, <3>2, <3>3, <3>4, <3>5, BudgetUntouched DEF StartsReader
  <2> QED
    BY <2>2, <2>3
<1> QED
  BY <1>4, <1>5

\* ... and goes on only when the reader is gone, or leaves it to the poll
\* timer.
LEMMA HardwareChangedStep ==
  ASSUME LifecycleInv, HardwareChanged \/ HardwareChangeTimeout
  PROVE  LifecycleInv' /\ StartsReader
<1> USE DEF LifecycleInv, TypeOK
<1>1. /\ UNCHANGED <<posted, attempts, failures, changes>>
      /\ ui.waiting /\ ui.run = "Stopping" /\ (ui.viaFobos => ui.session)
  BY DEF HardwareChanged, HardwareChangeTimeout, Coherent
<1>2. Ordered(ui) \in Nat
  BY OrderedNat
<1> DEFINE u == [ui EXCEPT !.waiting = FALSE, !.viaFobos = FALSE]
           idle == [u EXCEPT !.opened = FALSE, !.run = "Idle"]
<1>3. u \in UiType
  BY Zenon DEF UiType
<1>4. /\ u.run = "Stopping" /\ u.session = ui.session
      /\ u.external = ui.external /\ u.switched = ui.switched /\ ~ u.waiting
      /\ u.retryCount = ui.retryCount /\ u.restarts = ui.restarts
      /\ u.restartAfter = ui.restartAfter /\ u.again = ui.again
  BY <1>1 DEF UiType
<1>5. idle \in UiType
  BY <1>3, Zenon DEF UiType, RunStates
<1>6. /\ idle.run = "Idle" /\ ~ idle.opened /\ ~ idle.waiting
      /\ idle.retryCount = ui.retryCount /\ idle.restarts = ui.restarts
      /\ idle.restartAfter = ui.restartAfter
  BY DEF UiType
<1>7. \/ /\ HardwareChanged /\ proc.thread = "none"
         /\ \/ ui' = [idle EXCEPT !.again = @ + 1] /\ UNCHANGED <<proc, starts>>
            \/ /\ starts < MaxStarts /\ starts' = StartsAfter /\ ui.viaFobos
               /\ ui' = Started(u, TRUE) /\ proc' = StartProcessing(proc, TRUE)
            \/ /\ ui' = [idle EXCEPT !.session = FALSE, !.closeAfter = FALSE]
               /\ UNCHANGED <<proc, starts>>
      \/ /\ starts' = starts
         /\ \/ proc' = Terminated(proc) /\ UNCHANGED ui
            \/ proc' = [proc EXCEPT !.running = FALSE] /\ ui' = Polling(u)
  BY Zenon DEF HardwareChanged, HardwareChangeTimeout, Busy
<1> HIDE DEF u, idle
<1>8. CASE /\ proc.thread = "none"
           /\ \/ ui' = [idle EXCEPT !.again = @ + 1]
              \/ ui' = [idle EXCEPT !.session = FALSE, !.closeAfter = FALSE]
           /\ UNCHANGED <<proc, starts>>
  <2>1. ui' \in UiType
    <3>1. idle.again + 1 \in Nat
      BY <1>5 DEF UiType
    <3>2. /\ [idle EXCEPT !.again = idle.again + 1] \in UiType
          /\ [idle EXCEPT !.session = FALSE, !.closeAfter = FALSE] \in UiType
      BY <1>5, <3>1, Zenon DEF UiType
    <3> QED
      BY <1>8, <3>2
  <2>2. /\ ui'.run = "Idle" /\ ~ ui'.opened /\ ~ ui'.waiting
        /\ ui'.retryCount = ui.retryCount /\ ui'.restarts = ui.restarts
        /\ ui'.restartAfter = ui.restartAfter
    BY <1>5, <1>6, <1>8 DEF UiType
  <2>3. Ordered(ui') = Ordered(ui)
    BY <2>2 DEF Ordered
  <2>4. Coherent(ui', proc')
    BY <1>8, <2>2 DEF Coherent
  <2> QED
    BY <1>1, <1>2, <1>8, <2>1, <2>2, <2>3, <2>4, BudgetUntouched DEF StartsReader
<1>9. CASE /\ proc.thread = "none"
           /\ starts < MaxStarts /\ starts' = StartsAfter /\ ui.viaFobos
           /\ ui' = Started(u, TRUE) /\ proc' = StartProcessing(proc, TRUE)
  <2>2. /\ ui' \in UiType /\ ui'.run = "Running" /\ ui'.session = u.session /\ ~ ui'.waiting
        /\ ui'.external = u.external /\ ui'.switched = (TRUE /\ u.external)
        /\ ui'.retryCount = ui.retryCount /\ ui'.restarts = ui.restarts
        /\ ui'.restartAfter = ui.restartAfter
    BY <1>3, <1>4, <1>9, StartedFacts
  <2>4. Ordered(ui') = Ordered(ui)
    BY <2>2 DEF Ordered
  <2>5. proc' \in ProcType /\ proc'.thread = "starting" /\ proc'.running
        /\ proc'.fobos
    BY <1>9, StartProcessingFacts
  <2>6. starts' = starts + 1 /\ starts' \in 0 .. MaxStarts
    BY <1>9, Bounds DEF StartsAfter
  <2>7. Coherent(ui', proc')
    BY <1>1, <1>4, <1>9, <2>2, <2>5 DEF Coherent
  <2> QED
    BY <1>1, <1>2, <2>2, <2>4, <2>5, <2>6, <2>7, BudgetUntouched DEF StartsReader
<1>10. CASE starts' = starts /\ proc' = Terminated(proc) /\ UNCHANGED ui
  <2>1. proc' \in ProcType /\ proc'.thread = "none" /\ ~ proc'.running
    BY <1>10, TerminatedFacts
  <2>2. Coherent(ui', proc')
    BY <1>1, <1>10, <2>1 DEF Coherent
  <2> QED
    BY <1>1, <1>2, <1>10, <2>1, <2>2, BudgetUntouched DEF StartsReader
<1>11. CASE /\ starts' = starts
            /\ proc' = [proc EXCEPT !.running = FALSE] /\ ui' = Polling(u)
  <2>1. ui' = [u EXCEPT !.retries = 0, !.poll = TRUE]
    BY <1>11 DEF Polling
  <2>2. ui' \in UiType
    <3>1. 0 \in 0 .. CancelRetries
      BY Bounds
    <3>2. [u EXCEPT !.retries = 0, !.poll = TRUE] \in UiType
      BY <1>3, <3>1, Zenon DEF UiType
    <3> QED
      BY <2>1, <3>2
  <2>3. /\ ui'.run = "Stopping" /\ ui'.session = u.session
        /\ ui'.external = u.external /\ ui'.switched = u.switched /\ ~ ui'.waiting
        /\ ui'.retryCount = ui.retryCount /\ ui'.restarts = ui.restarts
        /\ ui'.restartAfter = ui.restartAfter
    BY <1>3, <1>4, <2>1 DEF UiType
  <2>4. Ordered(ui') = Ordered(ui)
    BY <2>3 DEF Ordered
  <2>5. /\ proc' \in ProcType /\ ~ proc'.running
        /\ proc'.thread = proc.thread /\ proc'.fobos = proc.fobos
    BY <1>11 DEF ProcType
  <2>6. Coherent(ui', proc')
    BY <1>1, <1>4, <2>3, <2>5 DEF Coherent
  <2> QED
    BY <1>1, <1>2, <1>11, <2>2, <2>3, <2>4, <2>5, <2>6, BudgetUntouched DEF StartsReader
<1> QED
  BY <1>7, <1>8, <1>9, <1>10, <1>11

\* Closing the window stops the receiver first.
LEMMA CloseStep ==
  ASSUME LifecycleInv, CloseEvent
  PROVE  LifecycleInv' /\ StartsReader
<1> USE DEF LifecycleInv, TypeOK
<1> DEFINE u == [ui EXCEPT !.closing = "inProgress"]
           after == ui.closeAfter /\ ~ ui.session
<1>1. /\ UNCHANGED <<posted, starts, attempts, failures, changes>>
      /\ ~ ui.waiting
  BY Zenon DEF CloseEvent
<1>2. \/ ui.run = "Stopping" /\ ui' = (IF ui.poll THEN u ELSE Polling(u)) /\ UNCHANGED proc
      \/ UNCHANGED <<ui, proc>>
      \/ StopFobosProcessing(u)
      \/ /\ ui.run # "Stopping" /\ ~ StopsAt(ui)
         /\ ui' = [u EXCEPT !.closing = "finalized", !.session = FALSE,
                            !.closeAfter = after,
                            !.watchdog = FALSE, !.poll = FALSE]
         /\ UNCHANGED proc
  <2>1. u.closeAfter = ui.closeAfter /\ u.session = ui.session
    BY DEF UiType
  <2> QED
    BY <2>1, Zenon DEF CloseEvent
<1>3. u \in UiType
  BY Zenon DEF UiType
<1>4. /\ u.run = ui.run /\ u.opened = ui.opened /\ u.session = ui.session
      /\ u.external = ui.external /\ u.switched = ui.switched
      /\ u.waiting = ui.waiting /\ u.retryCount = ui.retryCount /\ u.restarts = ui.restarts
      /\ u.restartAfter = ui.restartAfter
  BY DEF UiType
<1>5. after \in BOOLEAN
  BY DEF UiType
<1> HIDE DEF u, after
<1>6. Ordered(u) = Ordered(ui) /\ Ordered(ui) \in Nat
  BY <1>4, OrderedNat DEF Ordered
<1>7. Coherent(u, proc)
  BY <1>1, <1>4 DEF Coherent
<1>8. CASE ui' = u /\ UNCHANGED proc
  BY <1>1, <1>3, <1>4, <1>6, <1>7, <1>8, BudgetUntouched DEF StartsReader
<1>9. CASE ui.run = "Stopping" /\ ui' = Polling(u) /\ UNCHANGED proc
  <2>1. ui' = [u EXCEPT !.retries = 0, !.poll = TRUE]
    BY <1>9 DEF Polling
  <2>2. ui' \in UiType
    <3>1. 0 \in 0 .. CancelRetries
      BY Bounds
    <3>2. [u EXCEPT !.retries = 0, !.poll = TRUE] \in UiType
      BY <1>3, <3>1, Zenon DEF UiType
    <3> QED
      BY <2>1, <3>2
  <2>3. /\ ui'.run = "Stopping" /\ ui'.session = u.session
        /\ ui'.external = u.external /\ ui'.switched = u.switched /\ ui'.waiting = u.waiting
        /\ ui'.retryCount = ui.retryCount /\ ui'.restarts = ui.restarts
        /\ ui'.restartAfter = ui.restartAfter
    BY <1>3, <1>4, <1>9, <2>1 DEF UiType
  <2>4. Ordered(ui') = Ordered(ui)
    BY <2>3 DEF Ordered
  <2>5. Coherent(ui', proc')
    BY <1>1, <1>4, <1>9, <2>3 DEF Coherent
  <2> QED
    BY <1>1, <1>6, <1>9, <2>2, <2>3, <2>4, <2>5, BudgetUntouched DEF StartsReader
<1>10. CASE StopFobosProcessing(u)
  <2>1. /\ ui' \in UiType /\ proc' \in ProcType /\ Coherent(ui', proc')
        /\ ui'.run # "Running" \/ ui' = u
        /\ ui'.retryCount = u.retryCount /\ Ordered(ui') <= Ordered(u)
        /\ ui'.restartAfter => u.restartAfter
    BY <1>1, <1>3, <1>4, <1>7, <1>10, StopFacts
  <2> QED
    BY <1>1, <1>4, <1>6, <2>1, BudgetUntouched DEF StartsReader
<1>11. CASE /\ ui.run # "Stopping" /\ ~ StopsAt(ui)
            /\ ui' = [u EXCEPT !.closing = "finalized", !.session = FALSE,
                               !.closeAfter = after,
                               !.watchdog = FALSE, !.poll = FALSE]
            /\ UNCHANGED proc
  <2>1. proc.thread = "none" /\ ui.run = "Idle"
    BY <1>11 DEF StopsAt, Busy
  <2>2. ui' \in UiType
    <3>1. [u EXCEPT !.closing = "finalized", !.session = FALSE,
                    !.closeAfter = after, !.watchdog = FALSE, !.poll = FALSE] \in UiType
      BY <1>3, <1>5, Zenon DEF UiType
    <3> QED
      BY <1>11, <3>1
  <2>3. /\ ui'.run = ui.run /\ ui'.opened = ui.opened /\ ui'.waiting = ui.waiting
        /\ ui'.retryCount = ui.retryCount /\ ui'.restarts = ui.restarts
        /\ ui'.restartAfter = ui.restartAfter
    BY <1>3, <1>4, <1>11 DEF UiType
  <2>4. Ordered(ui') = Ordered(ui)
    BY <2>3 DEF Ordered
  <2>5. Coherent(ui', proc')
    BY <1>1, <1>11, <2>1, <2>3 DEF Coherent
  <2> QED
    BY <1>1, <1>6, <1>11, <2>2, <2>3, <2>4, <2>5, BudgetUntouched DEF StartsReader
<1>12. CASE UNCHANGED <<ui, proc>>
  BY <1>1, <1>6, <1>12, BudgetUntouched DEF StartsReader
<1> QED
  BY <1>2, <1>8, <1>9, <1>10, <1>11, <1>12

-----------------------------------------------------------------------------
(* The theorems *)

LEMMA InitInv == Init => LifecycleInv
<1> SUFFICES ASSUME Init PROVE LifecycleInv
  OBVIOUS
<1>1. 0 \in 0 .. CancelRetries /\ 0 \in 0 .. MaxStarts /\ 0 \in 0 .. MaxFailures
      /\ 0 \in 0 .. MaxChanges
  BY Bounds
<1>2. ui \in UiType
  <2>1. 0 \in 0 .. 1 /\ 1 \in Addresses /\ 0 \in Nat
        /\ "no" \in {"no", "inProgress", "finalized"} /\ "Idle" \in RunStates
    BY DEF Addresses, RunStates
  <2>2. PICK external \in BOOLEAN :
          ui = [external |-> external, run |-> "Idle", opened |-> FALSE, session |-> FALSE,
                poll |-> FALSE, retries |-> 0, watchdog |-> FALSE, retryCount |-> 0,
                restartAfter |-> FALSE, automatic |-> FALSE, closeAfter |-> FALSE,
                restarts |-> 0, again |-> 0, closing |-> "no", waiting |-> FALSE,
                viaFobos |-> FALSE, switched |-> FALSE, address |-> 1]
    BY Zenon DEF Init
  <2>3. FALSE \in BOOLEAN
    OBVIOUS
  <2> QED
    BY <1>1, <2>1, <2>2, <2>3, Zenon DEF UiType
<1>3. proc \in ProcType
  BY DEF Init, ProcType, Threads
<1>4. TypeOK
  <2>1. posted \in Seq(Addresses)
    BY DEF Init
  <2>2. starts = 0 /\ attempts = 0 /\ failures = 0 /\ changes = 0
    BY Zenon DEF Init
  <2>3. 0 \in Int /\ FALSE \in BOOLEAN
    OBVIOUS
  <2> QED
    BY <1>1, <1>2, <1>3, <2>1, <2>2, <2>3, Zenon DEF TypeOK
<1>5. Coherent(ui, proc) /\ Paid(ui, attempts)
  BY DEF Init, Coherent, Paid, Ordered
<1> QED
  BY <1>4, <1>5 DEF LifecycleInv

\* Every step keeps the invariant and says Running only for a new reader.
LEMMA NextStep ==
  ASSUME LifecycleInv, [Next]_vars
  PROVE  LifecycleInv' /\ StartsReader
<1>1. CASE UNCHANGED vars
  BY <1>1 DEF vars, LifecycleInv, TypeOK, Coherent, Paid, Ordered, StartsReader
<1>2. CASE Next
  BY <1>2, ReaderStep, StartStep, RestartStep, StopStep, PollStep, FailureStep, SessionStep,
     RemoteStep,
     HardwareChangeStep, HardwareChangedStep, CloseStep
     DEF Next, Timers, User
<1> QED
  BY <1>1, <1>2

LEMMA Invariance == Spec => []LifecycleInv
<1>1. LifecycleInv /\ [Next]_vars => LifecycleInv'
  BY NextStep
<1> QED
  BY InitInv, <1>1, PTL DEF Spec

\* Every reachable state of the window and its reader is one of the described
\* type.
THEOREM TypeCorrect == Spec => []TypeOK
<1>1. LifecycleInv => TypeOK
  BY DEF LifecycleInv
<1> QED
  BY Invariance, <1>1, PTL

\* Whatever failed, timed out or was clicked, an idle window has no reader
\* (finishFobosStop() and everything that leads to it).
THEOREM IdleStopped == Spec => []IdleMeansStopped
<1>1. LifecycleInv => IdleMeansStopped
  BY DEF LifecycleInv, Coherent, IdleMeansStopped
<1> QED
  BY Invariance, <1>1, PTL

\* No path of stop recovery, start, hardware change, receiver selection or
\* close takes the USB session from under its reader, unless a client has
\* selected another receiver while it was read.
THEOREM SessionOutlivesReader == Spec => []ReaderHasSession
<1>1. LifecycleInv => ReaderHasSession
  BY DEF LifecycleInv, Coherent, ReaderHasSession
<1> QED
  BY Invariance, <1>1, PTL

\* The watchdog and the failure handler restart a stream once per start by the
\* user (streamStartupRetryCount).
THEOREM RestartedOnce == Spec => []RetryOnce
<1>1. LifecycleInv => RetryOnce
  <2> SUFFICES ASSUME LifecycleInv PROVE RetryOnce
    OBVIOUS
  <2>1. /\ ui.restarts \in Nat /\ ui.retryCount \in 0 .. 1 /\ attempts \in Int
        /\ attempts + Ordered(ui) <= ui.retryCount
    BY DEF LifecycleInv, TypeOK, UiType, Paid
  <2>2. ui.restarts <= Ordered(ui) /\ Ordered(ui) \in Nat
    BY <2>1 DEF Ordered
  <2> QED
    BY <2>1, <2>2 DEF RetryOnce
<1> QED
  BY Invariance, <1>1, PTL

\* startFobosProcessing() and a hardware change say Running only for a reader
\* they have started.
THEOREM RunningStarted == Spec => RunningMeansStarted
<1>1. LifecycleInv /\ [Next]_vars =>
        [ui.run # "Running" /\ ui'.run = "Running" => starts' = starts + 1 /\ proc'.running]_vars
  BY NextStep DEF StartsReader
<1> QED
  BY Invariance, <1>1, PTL DEF Spec, RunningMeansStarted


-----------------------------------------------------------------------------
(* Somebody is always on it *)

\* A stop that has not finished is being waited for or polled, or has been
\* repeated as often as it may be.
StopPursued == ui.run = "Stopping" => ui.poll \/ ui.waiting \/ ui.retries = CancelRetries

\* The stop timer runs for a stop only.
PollsAStop == ui.poll => ui.run = "Stopping"

\* The failure of the reader the window says it runs is on its way.
Reported == \E i \in DOMAIN posted : posted[i] = ui.address

\* A window that says Running has a reader, or will hear that it failed.
FailureHeard == ui.run = "Running" => Busy(proc) \/ Reported

Pursued(u) == u.run = "Stopping" => u.poll \/ u.waiting \/ u.retries = CancelRetries

\* u and v agree in what stops and failures are told by.
Alike(u, v) ==
  /\ v.run = u.run /\ v.poll = u.poll /\ v.waiting = u.waiting
  /\ v.retries = u.retries /\ v.address = u.address

\* A step of the window after which it says Running: it has started a reader,
\* or said so before and left reader and address alone, the stop timer apart.
Goes ==
  ui'.run = "Running" =>
    \/ proc'.running /\ proc'.thread = "starting"
    \/ ui.run = "Running" /\ ui'.address = ui.address /\ (proc' = proc \/ ui.poll)

LEMMA AlikePursued ==
  ASSUME NEW u, NEW v, Pursued(u), Alike(u, v) PROVE Pursued(v)
BY DEF Pursued, Alike

LEMMA NotStopping ==
  ASSUME NEW u, u.run # "Stopping" PROVE Pursued(u)
BY DEF Pursued

LEMMA StopPursuit ==
  ASSUME NEW u \in UiType, Pursued(u), StopFobosProcessing(u)
  PROVE  Pursued(ui') /\ (ui'.run = "Running" => ui' = u /\ proc' = proc /\ u.run = "Idle")
<1>1. CASE ~ StopsAt(u)
  <2>1. ui' = u /\ proc' = proc /\ u.run # "Running"
    BY <1>1 DEF StopFobosProcessing, StopsAt
  <2> QED
    BY <2>1
<1>2. CASE StopsAt(u)
  <2> DEFINE v == [u EXCEPT !.run = "Stopping", !.watchdog = FALSE]
  <2>1. v \in UiType
    BY Zenon DEF UiType, RunStates
  <2>2. CASE u.opened \/ Busy(proc)
    <3>1. ui' = [v EXCEPT !.retries = 0, !.poll = TRUE]
      BY <1>2, <2>2 DEF StopFobosProcessing
    <3>2. ui'.run = "Stopping" /\ ui'.poll
      BY <3>1 DEF UiType
    <3> QED
      BY <3>2 DEF Pursued
  <2>3. CASE ~ (u.opened \/ Busy(proc))
    <3>1. ui' \in Finished(v, FALSE)
      BY <1>2, <2>3 DEF StopFobosProcessing
    <3> HIDE DEF v
    <3>2. ui'.run = "Idle"
      BY <2>1, <3>1, FinishedFacts
    <3> QED
      BY <3>2, NotStopping
  <2> QED
    BY <2>2, <2>3
<1> QED
  BY <1>1, <1>2

LEMMA CloseAlike ==
  ASSUME NEW u \in UiType PROVE Alike(u, CloseFobosSession(u))
BY DEF CloseFobosSession, UiType, Alike

LEMMA PrologueAlike ==
  ASSUME NEW u \in UiType PROVE Alike(u, Prologue(u))
BY DEF Prologue, UiType, Alike

LEMMA StartPursuit ==
  ASSUME NEW u \in UiType, proc \in ProcType, Pursued(u), StartFobosProcessing(u)
  PROVE  /\ Pursued(ui')
         /\ ui'.run = "Running" =>
              \/ proc'.running /\ proc'.thread = "starting"
              \/ u.run = "Running" /\ ui'.address = u.address /\ proc' = proc
<1> DEFINE v == Prologue(u)
           w == IF v.external /\ v.session THEN CloseFobosSession(v) ELSE v
<1>1. v \in UiType /\ Alike(u, v)
  BY PrologueFacts, PrologueAlike
<1> HIDE DEF v
<1>2. w \in UiType /\ Alike(u, w)
  BY <1>1, CloseFacts, CloseAlike DEF Alike
<1> HIDE DEF w
<1>3. CASE /\ MayStart(v) /\ (w.external \/ w.session)
           /\ starts < MaxStarts
           /\ starts' = StartsAfter
           /\ ui' = Started(w, ~ w.external)
           /\ proc' = StartProcessing(proc, ~ w.external)
  <2>1. proc.thread = "none"
    BY <1>3 DEF MayStart, Busy
  <2>2. proc'.thread = "starting" /\ proc'.running
    BY <1>3, <2>1, StartProcessingFacts
  <2>3. ui'.run = "Running"
    BY <1>2, <1>3, StartedFacts
  <2> QED
    BY <2>2, <2>3, NotStopping
<1>4. CASE /\ MayStart(v)
           /\ ui' \in {w, IF w.session THEN CloseFobosSession(w) ELSE w}
           /\ UNCHANGED <<proc, starts>>
  <2>1. ui'.run = "Idle"
    BY <1>1, <1>2, <1>4, CloseAlike DEF MayStart, Alike
  <2> QED
    BY <2>1, NotStopping
<1>5. CASE ~ MayStart(v) /\ ui' = v /\ UNCHANGED <<proc, starts>>
  BY <1>1, <1>5, AlikePursued DEF Alike
<1> QED
  BY <1>3, <1>4, <1>5 DEF StartFobosProcessing, v, w

\* The buttons and the timers that start and stop.
LEMMA StartStopPursuit ==
  ASSUME LifecycleInv, Pursued(ui),
         UserStart \/ AgainTimer \/ RestartTimer \/ UserStop \/ WatchdogFires
  PROVE  Pursued(ui') /\ Goes
<1> USE DEF LifecycleInv, TypeOK
<1>1. ASSUME NEW u \in UiType, Alike(ui, u), StartFobosProcessing(u)
      PROVE  Pursued(ui') /\ Goes
  <2>1. Pursued(u)
    BY <1>1, AlikePursued
  <2> QED
    BY <1>1, <2>1, StartPursuit DEF Alike, Goes
<1>2. CASE UserStart
  BY <1>1, <1>2 DEF UserStart, Alike
<1>3. CASE AgainTimer
  <2>1. ui.again - 1 \in Nat
    BY <1>3 DEF AgainTimer, UiType
  <2>2. [ui EXCEPT !.again = ui.again - 1] \in UiType
    BY <2>1, Zenon DEF UiType
  <2>3. Alike(ui, [ui EXCEPT !.again = ui.again - 1])
    BY DEF UiType, Alike
  <2> QED
    BY <1>1, <1>3, <2>2, <2>3 DEF AgainTimer
<1>4. CASE RestartTimer
  <2> DEFINE u == [ui EXCEPT !.restarts = ui.restarts - 1]
  <2>1. ui.restarts - 1 \in Nat
    BY <1>4 DEF RestartTimer, UiType
  <2>2. u \in UiType
    BY <2>1, Zenon DEF UiType
  <2>3. Alike(ui, u)
    BY DEF UiType, Alike
  <2>4. \/ StartFobosProcessing([u EXCEPT !.session = TRUE, !.automatic = TRUE])
        \/ /\ ui' \in {[NotPrepared(u) EXCEPT !.automatic = FALSE],
                       [u EXCEPT !.automatic = FALSE, !.session = @ /\ ~ MayPrepare(u)]}
           /\ proc' = proc
    BY <1>4 DEF RestartTimer
  <2> HIDE DEF u
  <2>5. CASE StartFobosProcessing([u EXCEPT !.session = TRUE, !.automatic = TRUE])
    <3>1. [u EXCEPT !.session = TRUE, !.automatic = TRUE] \in UiType
      BY <2>2, Zenon DEF UiType
    <3>2. Alike(u, [u EXCEPT !.session = TRUE, !.automatic = TRUE])
      BY <2>2 DEF UiType, Alike
    <3> QED
      BY <1>1, <2>3, <2>5, <3>1, <3>2 DEF Alike
  <2>6. CASE /\ ui' \in {[NotPrepared(u) EXCEPT !.automatic = FALSE],
                         [u EXCEPT !.automatic = FALSE, !.session = @ /\ ~ MayPrepare(u)]}
             /\ proc' = proc
    <3>1. NotPrepared(u) \in UiType /\ Alike(u, NotPrepared(u))
      BY <2>2, CloseFacts, CloseAlike DEF NotPrepared, Alike
    <3>2. Alike(u, [NotPrepared(u) EXCEPT !.automatic = FALSE])
      BY <3>1 DEF UiType, Alike
    <3>3. Alike(u, [u EXCEPT !.automatic = FALSE, !.session = @ /\ ~ MayPrepare(u)])
      BY <2>2 DEF UiType, Alike
    <3>4. Alike(ui, ui')
      BY <2>3, <2>6, <3>2, <3>3 DEF Alike
    <3> QED
      BY <2>6, <3>4, AlikePursued DEF Alike, Goes
  <2> QED
    BY <2>4, <2>5, <2>6
<1>5. ASSUME NEW u \in UiType, Alike(ui, u), StopFobosProcessing(u), u.run = "Running" \/ u = ui
      PROVE  Pursued(ui') /\ Goes
  <2>1. Pursued(u)
    BY <1>5, AlikePursued
  <2>2. Pursued(ui') /\ (ui'.run = "Running" => ui' = u /\ u.run = "Idle")
    BY <1>5, <2>1, StopPursuit
  <2> QED
    BY <2>2 DEF Goes
<1>6. CASE UserStop
  BY <1>5, <1>6 DEF UserStop, Alike
<1>7. CASE WatchdogFires
  <2> DEFINE retry == MayRetry(ui)
             count == IF retry THEN ui.retryCount + 1 ELSE ui.retryCount
             u == [ui EXCEPT !.retryCount = count, !.restartAfter = retry]
  <2>1. StopFobosProcessing(u) /\ ui.run = "Running"
    BY <1>7 DEF WatchdogFires
  <2>2. count \in 0 .. 1 /\ retry \in BOOLEAN
    BY DEF MayRetry, UiType
  <2> HIDE DEF count, retry
  <2>3. u \in UiType
    BY <2>2, Zenon DEF UiType
  <2>4. Alike(ui, u)
    BY DEF UiType, Alike
  <2> HIDE DEF u
  <2>5. u.run = "Running"
    BY <2>1, <2>4 DEF Alike
  <2> QED
    BY <1>5, <2>1, <2>3, <2>4, <2>5
<1> QED
  BY <1>2, <1>3, <1>4, <1>6, <1>7

\* pollStopCompletion() and the watchdog's end: the last attempt is the only
\* one that stops polling.
LEMMA PollPursuit ==
  ASSUME LifecycleInv, Pursued(ui),
         PollStopped \/ PollRetry \/ PollGivesUp \/ WatchdogDone
  PROVE  Pursued(ui') /\ Goes
<1> USE DEF LifecycleInv, TypeOK
<1>1. ASSUME NEW u \in UiType, NEW forced \in BOOLEAN, ui' \in Finished(u, forced)
      PROVE  Pursued(ui') /\ Goes
  <2>1. ui'.run = "Idle"
    BY <1>1, FinishedFacts
  <2> QED
    BY <2>1, NotStopping DEF Goes
<1>2. CASE PollStopped
  BY <1>1, <1>2 DEF PollStopped
<1>3. CASE PollRetry
  <2>1. ui.poll /\ ui' = [ui EXCEPT !.retries = @ + 1]
    BY <1>3 DEF PollRetry
  <2>2. ui'.poll /\ ui'.run = ui.run /\ ui'.address = ui.address
    BY <2>1 DEF UiType
  <2> QED
    BY <2>1, <2>2 DEF Pursued, Goes
<1>4. CASE PollGivesUp
  <2> DEFINE u == [ui EXCEPT !.poll = FALSE]
  <2>1. u \in UiType
    BY Zenon DEF UiType
  <2>2. u.run = ui.run /\ u.retries = ui.retries /\ u.address = ui.address
    BY DEF UiType
  <2>3. \/ ui' = [u EXCEPT !.closeAfter = TRUE]
        \/ ui' \in Finished(u, TRUE)
        \/ ui' = u
    BY <1>4, Zenon DEF PollGivesUp
  <2>4. ui.poll /\ ui.retries = CancelRetries
    BY <1>4 DEF PollGivesUp
  <2> HIDE DEF u
  <2>5. CASE ui' = [u EXCEPT !.closeAfter = TRUE] \/ ui' = u
    <3>1. ui'.run = ui.run /\ ui'.retries = ui.retries /\ ui'.address = ui.address
      BY <2>1, <2>2, <2>5 DEF UiType
    <3> QED
      BY <2>4, <3>1 DEF Pursued, Goes
  <2> QED
    BY <1>1, <2>1, <2>3, <2>5
<1>5. CASE WatchdogDone
  <2>1. ui' = [ui EXCEPT !.watchdog = FALSE] /\ proc' = proc
    BY <1>5 DEF WatchdogDone
  <2>2. Alike(ui, ui')
    BY <2>1 DEF UiType, Alike
  <2> QED
    BY <2>1, <2>2, AlikePursued DEF Alike, Goes
<1> QED
  BY <1>2, <1>3, <1>4, <1>5

\* A failure of the reader in use is never taken for that of another: the
\* window that still says Running afterwards has not looked at its own.
LEMMA FailurePursuit ==
  ASSUME LifecycleInv, Pursued(ui), HandleDataProcessorFailure
  PROVE  /\ Pursued(ui')
         /\ posted # <<>> /\ posted' = Tail(posted)
         /\ ui'.run = "Running" => ui' = ui /\ proc' = proc /\ Head(posted) # ui.address
<1> USE DEF LifecycleInv, TypeOK
<1>1. posted # <<>> /\ posted' = Tail(posted)
  BY Zenon DEF HandleDataProcessorFailure
<1>2. PICK early \in BOOLEAN :
        LET retry == early /\ MayRetry(ui)
            u == [ui EXCEPT !.automatic = FALSE, !.closeAfter = ~ ui.external,
                            !.watchdog = FALSE, !.restartAfter = retry,
                            !.retryCount = IF retry THEN @ + 1 ELSE @]
            v == [u EXCEPT !.run = "Stopping"]
        IN  IF Head(posted) # ui.address THEN UNCHANGED <<ui, proc>>
            ELSE IF u.run = "Stopping" \/ (u.run = "Idle" /\ ~ u.opened /\ ~ u.session)
            THEN ui' = u /\ UNCHANGED proc
            ELSE IF Busy(proc)
            THEN ui' = Polling(v) /\ proc' = RequestStop(proc)
            ELSE ui' \in Finished(v, FALSE) /\ UNCHANGED proc
  BY DEF HandleDataProcessorFailure
<1> DEFINE retry == early /\ MayRetry(ui)
           count == IF retry THEN ui.retryCount + 1 ELSE ui.retryCount
           close == ~ ui.external
           u == [ui EXCEPT !.automatic = FALSE, !.closeAfter = close,
                           !.watchdog = FALSE, !.restartAfter = retry, !.retryCount = count]
           v == [u EXCEPT !.run = "Stopping"]
<1>3. \/ Head(posted) # ui.address /\ UNCHANGED <<ui, proc>>
      \/ u.run # "Running" /\ ui' = u
      \/ ui' = Polling(v)
      \/ ui' \in Finished(v, FALSE)
  <2>1. u.run = "Stopping" \/ (u.run = "Idle" /\ ~ u.opened /\ ~ u.session)
          => u.run # "Running"
    OBVIOUS
  <2> QED
    BY <1>2, <2>1, Zenon
<1>4. count \in 0 .. 1 /\ retry \in BOOLEAN /\ close \in BOOLEAN
  BY DEF MayRetry, UiType
<1> HIDE DEF count, retry, close
<1>5. u \in UiType
  <2>1. [ui EXCEPT !.automatic = FALSE, !.closeAfter = close,
                   !.watchdog = FALSE, !.restartAfter = retry, !.retryCount = count] \in UiType
    BY <1>4, Zenon DEF UiType
  <2> QED
    BY <2>1
<1>6. Alike(ui, u)
  BY DEF UiType, Alike
<1> HIDE DEF u
<1>7. v \in UiType
  BY <1>5, Zenon DEF UiType, RunStates
<1>8. v.run = "Stopping"
  BY <1>5 DEF UiType
<1> HIDE DEF v
<1>9. CASE Head(posted) # ui.address /\ UNCHANGED <<ui, proc>>
  BY <1>1, <1>9, AlikePursued DEF Alike
<1>10. CASE u.run # "Running" /\ ui' = u
  BY <1>1, <1>6, <1>10, AlikePursued
<1>11. CASE ui' = Polling(v)
  <2>1. ui'.run = "Stopping" /\ ui'.poll
    BY <1>7, <1>8, <1>11 DEF Polling, UiType
  <2> QED
    BY <1>1, <2>1 DEF Pursued
<1>12. CASE ui' \in Finished(v, FALSE)
  <2>1. ui'.run = "Idle"
    BY <1>7, <1>12, FinishedFacts
  <2> QED
    BY <1>1, <2>1, NotStopping
<1> QED
  BY <1>3, <1>9, <1>10, <1>11, <1>12

\* Sessions and the selected receiver are told apart from stopping.
LEMMA SessionPursuit ==
  ASSUME LifecycleInv, Pursued(ui),
         PrepareFobosSession \/ SelectReceiver \/ RemoteReceiver
  PROVE  Pursued(ui') /\ Goes
<1> USE DEF LifecycleInv, TypeOK
<1>1. ASSUME Alike(ui, ui'), proc' = proc PROVE Pursued(ui') /\ Goes
  BY <1>1, AlikePursued DEF Alike, Goes
<1>2. CASE PrepareFobosSession
  <2>1. proc' = proc /\ (ui' = [ui EXCEPT !.session = TRUE] \/ ui' = NotPrepared(ui))
    BY <1>2 DEF PrepareFobosSession
  <2>2. Alike(ui, [ui EXCEPT !.session = TRUE])
    BY DEF UiType, Alike
  <2>3. Alike(ui, NotPrepared(ui))
    BY CloseAlike DEF NotPrepared, Alike
  <2> QED
    BY <1>1, <2>1, <2>2, <2>3
<1>3. CASE SelectReceiver
  <2> DEFINE u == IF ui.session THEN CloseFobosSession(ui) ELSE ui
  <2>1. u \in UiType /\ Alike(ui, u)
    BY CloseFacts, CloseAlike DEF Alike
  <2>2. PICK external \in BOOLEAN : ui' = [u EXCEPT !.external = external]
    BY <1>3 DEF SelectReceiver
  <2> HIDE DEF u
  <2>3. Alike(ui, ui')
    BY <2>1, <2>2 DEF UiType, Alike
  <2>4. proc' = proc
    BY <1>3 DEF SelectReceiver
  <2> QED
    BY <1>1, <2>3, <2>4
<1>4. CASE RemoteReceiver
  <2>1. ui' = [ui EXCEPT !.external = ~ @, !.switched = @ \/ proc.fobos] /\ proc' = proc
    BY <1>4 DEF RemoteReceiver
  <2>2. Alike(ui, ui')
    BY <2>1 DEF UiType, Alike
  <2> QED
    BY <1>1, <2>1, <2>2
<1> QED
  BY <1>2, <1>3, <1>4

\* A hardware change waits for the reader, or polls for it when it could not be
\* terminated.
LEMMA HardwarePursuit ==
  ASSUME LifecycleInv, Pursued(ui),
         HardwareChange \/ HardwareChanged \/ HardwareChangeTimeout
  PROVE  Pursued(ui') /\ Goes
<1> USE DEF LifecycleInv, TypeOK
<1>1. CASE HardwareChange
  <2>1. \/ \E viaFobos \in BOOLEAN :
             ui' = [ui EXCEPT !.run = "Stopping", !.watchdog = FALSE, !.poll = FALSE,
                              !.waiting = TRUE, !.viaFobos = viaFobos]
        \/ ui' = [ui EXCEPT !.run = "Idle", !.opened = FALSE]
        \/ ui' = ui /\ proc' = proc
    BY <1>1 DEF HardwareChange
  <2>2. CASE ui' = ui /\ proc' = proc
    BY <2>2 DEF Goes
  <2>3. CASE ui' = [ui EXCEPT !.run = "Idle", !.opened = FALSE]
    <3>1. ui'.run = "Idle"
      BY <2>3 DEF UiType
    <3> QED
      BY <3>1, NotStopping DEF Goes
  <2>4. ASSUME NEW viaFobos \in BOOLEAN,
               ui' = [ui EXCEPT !.run = "Stopping", !.watchdog = FALSE, !.poll = FALSE,
                                !.waiting = TRUE, !.viaFobos = viaFobos]
        PROVE  Pursued(ui') /\ Goes
    <3>1. ui'.run = "Stopping" /\ ui'.waiting
      BY <2>4 DEF UiType
    <3> QED
      BY <3>1 DEF Pursued, Goes
  <2> QED
    BY <2>1, <2>2, <2>3, <2>4
<1>2. CASE HardwareChanged
  <2> DEFINE u == [ui EXCEPT !.waiting = FALSE, !.viaFobos = FALSE]
             idle == [u EXCEPT !.opened = FALSE, !.run = "Idle"]
  <2>1. u \in UiType /\ idle \in UiType /\ idle.run = "Idle"
    <3>1. u \in UiType
      BY Zenon DEF UiType
    <3> HIDE DEF u
    <3>2. idle \in UiType
      BY <3>1, Zenon DEF UiType, RunStates
    <3>3. idle.run = "Idle"
      BY <3>1 DEF UiType
    <3> QED
      BY <3>1, <3>2, <3>3
  <2>2. \/ ui' = [idle EXCEPT !.again = @ + 1]
        \/ ui' = Started(u, TRUE) /\ proc' = StartProcessing(proc, TRUE)
        \/ ui' = [idle EXCEPT !.session = FALSE, !.closeAfter = FALSE]
    BY <1>2, Zenon DEF HardwareChanged
  <2>3. proc.thread = "none"
    BY <1>2 DEF HardwareChanged, Busy
  <2> HIDE DEF u, idle
  <2>4. CASE ui' = Started(u, TRUE) /\ proc' = StartProcessing(proc, TRUE)
    <3>1. ui'.run = "Running"
      BY <2>1, <2>4, StartedFacts
    <3>2. proc'.running /\ proc'.thread = "starting"
      BY <2>3, <2>4, StartProcessingFacts
    <3> QED
      BY <3>1, <3>2, NotStopping DEF Goes
  <2>5. CASE \/ ui' = [idle EXCEPT !.again = @ + 1]
             \/ ui' = [idle EXCEPT !.session = FALSE, !.closeAfter = FALSE]
    <3>1. ui'.run = "Idle"
      BY <2>1, <2>5 DEF UiType
    <3> QED
      BY <3>1, NotStopping DEF Goes
  <2> QED
    BY <2>2, <2>4, <2>5
<1>3. CASE HardwareChangeTimeout
  <2>1. ui.run = "Stopping" /\ ui.waiting
    BY <1>3 DEF HardwareChangeTimeout, Coherent
  <2>2. CASE ui' = ui
    BY <2>1, <2>2 DEF Pursued, Goes
  <2>3. CASE ui' = Polling([ui EXCEPT !.waiting = FALSE, !.viaFobos = FALSE])
    <3>1. ui'.run = "Stopping" /\ ui'.poll
      BY <2>1, <2>3 DEF Polling, UiType
    <3> QED
      BY <3>1 DEF Pursued, Goes
  <2> QED
    BY <1>3, <2>2, <2>3 DEF HardwareChangeTimeout
<1> QED
  BY <1>1, <1>2, <1>3

\* A window that is closed while it stops sees to it that somebody polls.
LEMMA ClosePursuit ==
  ASSUME LifecycleInv, Pursued(ui), CloseEvent
  PROVE  Pursued(ui') /\ Goes
<1> USE DEF LifecycleInv, TypeOK
<1> DEFINE u == [ui EXCEPT !.closing = "inProgress"]
           after == ui.closeAfter /\ ~ ui.session
<1>1. \/ ui.run = "Stopping" /\ ui' = (IF ui.poll THEN u ELSE Polling(u))
      \/ UNCHANGED <<ui, proc>>
      \/ ui.run # "Stopping" /\ StopFobosProcessing(u)
      \/ /\ ui.run # "Stopping" /\ ~ StopsAt(ui)
         /\ ui' = [u EXCEPT !.closing = "finalized", !.session = FALSE,
                            !.closeAfter = after,
                            !.watchdog = FALSE, !.poll = FALSE]
  <2>1. u.closeAfter = ui.closeAfter /\ u.session = ui.session
    BY DEF UiType
  <2> QED
    BY <2>1, Zenon DEF CloseEvent
<1>2. u \in UiType
  BY Zenon DEF UiType
<1>3. u.run = ui.run /\ u.poll = ui.poll
  BY DEF UiType
<1> HIDE DEF u, after
<1>4. CASE ui.run = "Stopping" /\ ui' = (IF ui.poll THEN u ELSE Polling(u))
  <2>1. ui'.run = "Stopping" /\ ui'.poll
    BY <1>2, <1>3, <1>4 DEF Polling, UiType
  <2> QED
    BY <2>1 DEF Pursued, Goes
<1>5. CASE UNCHANGED <<ui, proc>>
  BY <1>5 DEF Pursued, Goes
<1>6. CASE ui.run # "Stopping" /\ StopFobosProcessing(u)
  <2>1. Pursued(u)
    BY <1>3, <1>6, NotStopping
  <2>2. Pursued(ui') /\ (ui'.run = "Running" => ui' = u /\ u.run = "Idle")
    BY <1>2, <1>6, <2>1, StopPursuit
  <2> QED
    BY <2>2 DEF Goes
<1>7. CASE /\ ui.run # "Stopping" /\ ~ StopsAt(ui)
           /\ ui' = [u EXCEPT !.closing = "finalized", !.session = FALSE,
                              !.closeAfter = after,
                              !.watchdog = FALSE, !.poll = FALSE]
  <2>1. ui.run = "Idle"
    BY <1>7 DEF StopsAt
  <2>2. ui'.run = "Idle"
    BY <1>2, <1>3, <1>7, <2>1 DEF UiType
  <2> QED
    BY <2>2, NotStopping DEF Goes
<1> QED
  BY <1>1, <1>4, <1>5, <1>6, <1>7

\* Every step of the window pursues the stop it leaves behind.
LEMMA PursuitStep ==
  ASSUME LifecycleInv, StopPursued, [Next]_vars
  PROVE  StopPursued'
<1>1. Pursued(ui)
  BY DEF StopPursued, Pursued
<1>2. CASE ui' = ui
  BY <1>2 DEF StopPursued
<1>3. ASSUME Pursued(ui') PROVE StopPursued'
  BY <1>3 DEF StopPursued, Pursued
<1>4. CASE Reader \/ CancelWorker \/ UNCHANGED vars
  <2>1. ui' = ui
    BY <1>4 DEF vars, Reader, CancelWorker, ReaderBegins, DriverRuns, DriverReturns,
       ReaderFails, ReaderEnds
  <2> QED
    BY <1>2, <2>1
<1>5. CASE Timers \/ HandleDataProcessorFailure \/ HardwareChanged \/ HardwareChangeTimeout
           \/ User
  <2>1. Pursued(ui')
    BY <1>1, <1>5, StartStopPursuit, PollPursuit, FailurePursuit, SessionPursuit,
       HardwarePursuit, ClosePursuit DEF Timers, User
  <2> QED
    BY <1>3, <2>1
<1> QED
  BY <1>4, <1>5 DEF Next

\* No path leaves a stop behind that nobody waits for or polls before it has
\* been repeated as often as pollStopCompletion() may: what StopSettles checks
\* of its end holds of its pursuit for any number of retries and starts.
THEOREM StopsPursued == Spec => []StopPursued
<1>1. Init => StopPursued
  <2> SUFFICES ASSUME Init PROVE StopPursued
    OBVIOUS
  <2>1. ui.run = "Idle"
    BY DEF Init
  <2> QED
    BY <2>1 DEF StopPursued
<1>2. LifecycleInv /\ StopPursued /\ [Next]_vars => StopPursued'
  BY PursuitStep
<1> QED
  BY Invariance, <1>1, <1>2, PTL DEF Spec

-----------------------------------------------------------------------------
(* A failure is heard *)

\* A reader told to stop, or ending, behind a window that says Running has
\* reported its failure.
Heard ==
  ui.run = "Running" => /\ proc.running \/ Reported
                        /\ proc.thread = "ending" => Reported

\* The reader reports before it ends what it was not told to do.
LEMMA ReaderHeard ==
  ASSUME LifecycleInv, Heard, Reader \/ CancelWorker
  PROVE  Heard'
<1> USE DEF LifecycleInv, TypeOK
<1>1. ui' = ui
  BY DEF Reader, CancelWorker, ReaderBegins, DriverRuns, DriverReturns, ReaderFails, ReaderEnds
<1>2. SUFFICES ASSUME ui.run = "Running"
               PROVE  /\ proc'.running \/ Reported'
                      /\ proc'.thread = "ending" => Reported'
  BY <1>1 DEF Heard
<1>3. ASSUME Reported, posted' = posted PROVE Reported'
  BY <1>1, <1>3 DEF Reported
<1>4. CASE ReaderBegins
  <2>1. posted' = posted
    BY <1>4 DEF ReaderBegins
  <2>2. CASE proc.running
    <3>1. proc'.running /\ proc'.thread = "opening"
      BY <1>4, <2>2 DEF ReaderBegins, ProcType
    <3> QED
      BY <3>1
  <2>3. CASE ~ proc.running
    BY <1>2, <1>3, <2>1, <2>3 DEF Heard
  <2> QED
    BY <2>2, <2>3
<1>5. CASE DriverRuns
  <2>1. posted' = posted /\ proc'.running = proc.running /\ proc'.thread = "reading"
    BY <1>5 DEF DriverRuns, ProcType
  <2> QED
    BY <1>2, <1>3, <2>1 DEF Heard
<1>6. CASE DriverReturns
  <2>1. /\ posted' = posted /\ proc'.running = proc.running
        /\ proc'.thread = IF proc.running THEN "failed" ELSE "ending"
    BY <1>6 DEF DriverReturns, ProcType
  <2> QED
    BY <1>2, <1>3, <2>1 DEF Heard
<1>7. CASE ReaderFails
  <2>1. posted' = Append(posted, ui.address)
    BY <1>7 DEF ReaderFails
  <2>2. Len(posted) + 1 \in DOMAIN posted' /\ posted'[Len(posted) + 1] = ui.address
    BY <2>1
  <2>3. Reported'
    BY <1>1, <2>2 DEF Reported
  <2> QED
    BY <2>3
<1>8. CASE ReaderEnds
  <2>1. posted' = posted /\ proc'.thread = "none" /\ proc.thread = "ending"
    BY <1>8, TerminatedFacts DEF ReaderEnds
  <2> QED
    BY <1>2, <1>3, <2>1 DEF Heard
<1>9. CASE CancelWorker
  <2>1. posted' = posted /\ proc'.running = proc.running /\ proc'.thread = proc.thread
    BY <1>9 DEF CancelWorker, ProcType
  <2> QED
    BY <1>2, <1>3, <2>1 DEF Heard
<1> QED
  BY <1>4, <1>5, <1>6, <1>7, <1>8, <1>9 DEF Reader

\* A step of the window that leaves the queue alone.
LEMMA GoesHeard ==
  ASSUME LifecycleInv, PollsAStop, Heard, Goes, posted' = posted
  PROVE  Heard'
<1> SUFFICES ASSUME ui'.run = "Running"
             PROVE  /\ proc'.running \/ Reported'
                    /\ proc'.thread = "ending" => Reported'
  BY DEF Heard
<1>1. CASE proc'.running /\ proc'.thread = "starting"
  BY <1>1
<1>2. CASE ui.run = "Running" /\ ui'.address = ui.address /\ (proc' = proc \/ ui.poll)
  <2>1. proc' = proc
    BY <1>2 DEF PollsAStop
  <2>2. Reported => Reported'
    BY <1>2 DEF Reported
  <2> QED
    BY <1>2, <2>1, <2>2 DEF Heard
<1> QED
  BY <1>1, <1>2 DEF Goes

LEMMA HeardStep ==
  ASSUME LifecycleInv, StopPursued, PollsAStop, Heard, [Next]_vars
  PROVE  Heard'
<1>1. Pursued(ui)
  BY DEF StopPursued, Pursued
<1>2. CASE UNCHANGED vars
  BY <1>2 DEF vars, Heard, Reported
<1>3. CASE Reader \/ CancelWorker
  BY <1>3, ReaderHeard
<1>4. CASE Timers \/ HardwareChanged \/ HardwareChangeTimeout \/ User
  <2>1. Goes
    BY <1>1, <1>4, StartStopPursuit, PollPursuit, SessionPursuit,
       HardwarePursuit, ClosePursuit DEF Timers, User
  <2>2. posted' = posted
    <3>1. CASE Timers
      BY <3>1, Zenon DEF Timers, PollStopped, PollRetry, PollGivesUp, WatchdogDone,
         WatchdogFires, RestartTimer, AgainTimer
    <3>2. CASE HardwareChanged \/ HardwareChangeTimeout
      BY <3>2, Zenon DEF HardwareChanged, HardwareChangeTimeout
    <3>3. CASE User
      BY <3>3, Zenon DEF User, UserStart, UserStop, PrepareFobosSession, SelectReceiver,
         RemoteReceiver, HardwareChange, CloseEvent
    <3> QED
      BY <1>4, <3>1, <3>2, <3>3
  <2> QED
    BY <2>1, <2>2, GoesHeard
<1>5. CASE HandleDataProcessorFailure
  <2>1. /\ posted # <<>> /\ posted' = Tail(posted)
        /\ ui'.run = "Running" => ui' = ui /\ proc' = proc /\ Head(posted) # ui.address
    BY <1>1, <1>5, FailurePursuit
  <2>2. ASSUME ui'.run = "Running", Reported PROVE Reported'
    <3>1. PICK i \in DOMAIN posted : posted[i] = ui.address
      BY <2>2 DEF Reported
    <3>2. posted \in Seq(Addresses) /\ Head(posted) = posted[1]
      BY <2>1 DEF LifecycleInv, TypeOK
    <3>3. i # 1 /\ i \in 1 .. Len(posted)
      BY <2>1, <2>2, <3>1, <3>2
    <3>4. i - 1 \in DOMAIN posted' /\ posted'[i - 1] = posted[i]
      BY <2>1, <3>2, <3>3
    <3> QED
      BY <2>1, <2>2, <3>1, <3>4 DEF Reported
  <2> QED
    BY <2>1, <2>2 DEF Heard
<1> QED
  BY <1>2, <1>3, <1>4, <1>5 DEF Next

\* As long as the stop timer runs for stops only, a window that says Running
\* has a reader, or the readerFailed of the one it had is in its event queue
\* and names it: no reader dies unheard.
THEOREM FailuresHeard == Spec /\ []PollsAStop => []FailureHeard
<1>1. Init => Heard
  <2> SUFFICES ASSUME Init PROVE Heard
    OBVIOUS
  <2>1. ui.run = "Idle"
    BY DEF Init
  <2> QED
    BY <2>1 DEF Heard
<1>2. LifecycleInv /\ StopPursued /\ PollsAStop /\ Heard /\ [Next]_vars => Heard'
  BY HeardStep
<1>3. LifecycleInv /\ Heard => FailureHeard
  BY DEF LifecycleInv, Coherent, Heard, FailureHeard, Busy
<1> QED
  BY Invariance, StopsPursued, <1>1, <1>2, <1>3, PTL DEF Spec

=============================================================================
