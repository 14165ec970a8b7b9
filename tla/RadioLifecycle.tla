--------------------------- MODULE RadioLifecycle ---------------------------
(***************************************************************************)
(* Starting, stopping and recovering the receiver: the run state of the    *)
(* main window (src/src/main.cpp) and the reader thread it controls        *)
(* (DataProcessor, src/src/core/dataprocessor.cpp).                        *)
(*                                                                         *)
(* The window's handlers run one at a time in the UI thread; ui is what    *)
(* they keep.  The reader thread (proc) takes steps of its own, calls into *)
(* a driver that may refuse to return, and reports a failure through the   *)
(* event queue (posted), so that the window may have moved on when it      *)
(* hears of it.  Timers are flags of ui whose handlers may run at any time *)
(* while the flag is set; how long something took is a choice.             *)
(*                                                                         *)
(* A Fobos has a session, opened before its reader starts and usually kept *)
(* when it stops; any other receiver (external) has none and its reader    *)
(* looks at a flag.  Which one is selected may change while none runs, and *)
(* a client of a server may change it at any time.                         *)
(***************************************************************************)
EXTENDS Integers, Sequences, SequencesExt

CONSTANTS
  CancelRetries,  \* how often pollStopCompletion() repeats the stop request
  MaxStarts,      \* bound: reader starts
  MaxFailures,    \* bound: streams that end or fail by themselves
  MaxChanges      \* bound: hardware settings changed by the user

ASSUME LifecycleAssumption ==
  {CancelRetries, MaxStarts, MaxFailures, MaxChanges} \subseteq Nat

VARIABLES
  ui,          \* the main window
  proc,        \* the reader thread and its DataProcessor
  posted,      \* readerFailed signals in the event queue: their processors
  starts,      \* readers started so far (history)
  attempts,    \* automatic restarts that came due since the user's last start,
               \* less those that were already due then (history)
  failures, changes

vars == <<ui, proc, posted, starts, attempts, failures, changes>>

\* Where a DataProcessor may be allocated: a new one may get the address of
\* the one deleted before it.
Addresses == {1, 2}

RunStates == {"Idle", "Running", "Stopping"}  \* Starting is never left visible
Threads == {"none", "starting", "opening", "reading", "failed", "ending"}

UiType ==
  [external : BOOLEAN,      \* isExternalReceiverBackendSelected()
   run : RunStates,
   opened : BOOLEAN,        \* deviceOpened
   session : BOOLEAN,       \* hasActiveFobosDevice()
   poll : BOOLEAN,          \* stopPollTimer
   retries : 0 .. CancelRetries,  \* stopCancelRetryCount
   watchdog : BOOLEAN,      \* streamWatchdogTimer
   retryCount : 0 .. 1,     \* streamStartupRetryCount
   restartAfter : BOOLEAN,  \* restartAfterStartupWatchdog
   automatic : BOOLEAN,     \* automaticStreamRestart
   closeAfter : BOOLEAN,    \* closeFobosSessionAfterStop
   restarts : Nat,          \* automatic restarts due in 350 ms
   again : Nat,             \* starts due after a hardware change
   closing : {"no", "inProgress", "finalized"},
   waiting : BOOLEAN,       \* blocked in processor->wait()
   viaFobos : BOOLEAN,      \* ... on the path of a Fobos
   switched : BOOLEAN,      \* a client has selected another kind of receiver
                            \* than the Fobos that is read (history)
   address : Addresses]     \* processor

ProcType ==
  [thread : Threads,
   fobos : BOOLEAN,         \* the stream it reads is a Fobos's
   running : BOOLEAN,       \* the flag the reader loops check
   cancelled : BOOLEAN,     \* asyncCancelRequested
   workers : Nat,           \* detached threads about to call cancel_async
   told : BOOLEAN]          \* the driver knows it is to return

Init ==
  /\ \E external \in BOOLEAN :
       ui = [external |-> external, run |-> "Idle", opened |-> FALSE, session |-> FALSE,
             poll |-> FALSE, retries |-> 0, watchdog |-> FALSE, retryCount |-> 0,
             restartAfter |-> FALSE, automatic |-> FALSE, closeAfter |-> FALSE,
             restarts |-> 0, again |-> 0, closing |-> "no", waiting |-> FALSE,
             viaFobos |-> FALSE, switched |-> FALSE, address |-> 1]
  /\ proc = [thread |-> "none", fobos |-> FALSE, running |-> FALSE, cancelled |-> FALSE,
             workers |-> 0, told |-> FALSE]
  /\ posted = <<>>
  /\ starts = 0 /\ attempts = 0
  /\ failures = 0 /\ changes = 0

-----------------------------------------------------------------------------
(* DataProcessor *)

\* isRunning() of the thread, which outlives the running flag.
MutantFlagOnly(p) == p.running
Busy(p) == p.thread # "none"

\* startProcessing()
StartProcessing(p, fobos) ==
  IF p.thread # "none" THEN p
  ELSE [p EXCEPT !.thread = "starting", !.fobos = fobos, !.running = TRUE,
                 !.cancelled = FALSE]

\* It ignores the call while its thread runs.
StartsAfter == IF proc.thread = "none" THEN starts + 1 ELSE starts

\* requestStop(): a Fobos driver is cancelled by a detached thread, once per
\* stream; the readers of other receivers look at the flag.
RequestStop(p) ==
  IF ~ Busy(p) /\ ~ p.running THEN p
  ELSE IF ~ p.fobos \/ p.cancelled THEN [p EXCEPT !.running = FALSE]
  ELSE [p EXCEPT !.running = FALSE, !.cancelled = TRUE, !.workers = @ + 1]

\* The thread has ended, or forceStop() has terminated it.
Terminated(p) == [p EXCEPT !.thread = "none", !.fobos = FALSE, !.running = FALSE]

\* run() up to the call of the driver.
ReaderBegins ==
  /\ proc.thread = "starting"
  /\ proc' = IF proc.running THEN [proc EXCEPT !.thread = "opening", !.told = FALSE]
             ELSE [proc EXCEPT !.thread = "ending"]
  /\ UNCHANGED <<ui, posted, starts, attempts, failures, changes>>

\* The driver submits its transfers; from now on a cancel reaches it.
DriverRuns ==
  /\ proc.thread = "opening"
  /\ proc' = [proc EXCEPT !.thread = "reading"]
  /\ UNCHANGED <<ui, posted, starts, attempts, failures, changes>>

\* The detached thread of requestStop(): a driver that is not (yet) running
\* ignores the call.
CancelWorker ==
  /\ proc.workers > 0
  /\ proc' = [proc EXCEPT !.workers = @ - 1, !.told = @ \/ proc.thread = "reading"]
  /\ UNCHANGED <<ui, posted, starts, attempts, failures, changes>>

\* What makes the reader leave the driver without a failure.
Leaves(p) == p.thread = "reading" /\ (p.told \/ (~ p.fobos /\ ~ p.running))

\* The driver returns; the reader decides whether this was asked for.
DriverReturns ==
  /\ \/ Leaves(proc) /\ UNCHANGED failures
     \/ /\ proc.thread \in {"opening", "reading"} /\ ~ Leaves(proc)
        /\ failures < MaxFailures
        /\ failures' = failures + 1
  /\ proc' = [proc EXCEPT !.thread = IF proc.running THEN "failed" ELSE "ending"]
  /\ UNCHANGED <<ui, posted, starts, attempts, changes>>

\* emit readerFailed, queued.
ReaderFails ==
  /\ proc.thread = "failed"
  /\ posted' = Append(posted, ui.address)
  /\ proc' = [proc EXCEPT !.thread = "ending"]
  /\ UNCHANGED <<ui, starts, attempts, failures, changes>>

ReaderEnds ==
  /\ proc.thread = "ending"
  /\ proc' = Terminated(proc)
  /\ UNCHANGED <<ui, posted, starts, attempts, failures, changes>>

-----------------------------------------------------------------------------
(* The main window *)

\* closeFobosSession() of a session.
CloseFobosSession(u) == [u EXCEPT !.session = FALSE, !.closeAfter = FALSE]

\* finishFobosStop(); a recreated DataProcessor gets address a.
RestartsAgain(u, forced, closed) == u.restartAfter /\ ~ forced /\ closed

FinishFobosStop(u, forced, closeSucceeds, a) ==
  LET idle == [u EXCEPT !.poll = FALSE, !.watchdog = FALSE, !.opened = FALSE, !.run = "Idle",
                        !.switched = FALSE]
      closes == u.session /\ ~ forced /\ u.closeAfter
      closed == closes => closeSucceeds
  IN  IF u.closing = "inProgress"
      THEN [idle EXCEPT !.session = FALSE, !.closing = "finalized",
                        !.closeAfter = @ /\ ~ u.session]
      ELSE [idle EXCEPT
             !.session = @ /\ ~ forced /\ ~ closes,
             !.closeAfter = @ /\ ~ forced /\ ~ closes,
             !.address = IF forced \/ u.session THEN a ELSE @,
             !.restarts = IF RestartsAgain(u, forced, closed) THEN @ + 1 ELSE @,
             !.restartAfter = @ /\ forced /\ closed,
             !.automatic = @ /\ (u.restartAfter => closed)]

\* Outcomes of finishFobosStop(u, forced).
Finished(u, forced) ==
  {FinishFobosStop(u, forced, ok, a) : ok \in BOOLEAN, a \in Addresses}

\* startFobosProcessing() from the window state u.  Starting may fail: no
\* session, settings not applied, or a session closed for another sample rate
\* and not opened again.  Its branch for a reader left behind in Idle is
\* omitted: IdleMeansStopped shows that it is never taken.
MutantRetryCountCleared(u) == [u EXCEPT !.automatic = FALSE, !.retryCount = 0]
Prologue(u) ==
  [u EXCEPT !.automatic = FALSE,
            !.retryCount = IF u.automatic THEN @ ELSE 0,
            !.restartAfter = @ /\ u.automatic]

MutantMayStart(u) == u.run # "Stopping"
MayStart(u) == u.run = "Idle" /\ ~ u.opened /\ ~ Busy(proc)

Started(u, fobos) ==
  [u EXCEPT !.opened = TRUE, !.watchdog = TRUE, !.run = "Running",
            !.switched = fobos /\ u.external]

StartFobosProcessing(u) ==
  LET v == Prologue(u)
      w == IF v.external /\ v.session THEN CloseFobosSession(v) ELSE v
  IN  \/ /\ MayStart(v) /\ (w.external \/ w.session)
         /\ starts < MaxStarts
         /\ starts' = StartsAfter
         /\ ui' = Started(w, ~ w.external)
         /\ proc' = StartProcessing(proc, ~ w.external)
      \/ /\ MayStart(v)
         /\ ui' \in {w, IF w.session THEN CloseFobosSession(w) ELSE w}
         /\ UNCHANGED <<proc, starts>>
      \/ /\ ~ MayStart(v)
         /\ ui' = v
         /\ UNCHANGED <<proc, starts>>

\* The Start button, or a start command from the network.
UserStart ==
  /\ ~ ui.waiting /\ ui.closing # "finalized" /\ ui.run = "Idle"
  /\ attempts' = - ui.restarts
  /\ StartFobosProcessing(ui)
  /\ UNCHANGED <<posted, failures, changes>>

\* stopFobosProcessing() from the window state u: the new window state and
\* DataProcessor.
StopsAt(u) == u.run # "Stopping" /\ (u.run # "Idle" \/ u.opened \/ Busy(proc))

StopFobosProcessing(u) ==
  IF ~ StopsAt(u) THEN ui' = u /\ UNCHANGED proc
  ELSE LET v == [u EXCEPT !.run = "Stopping", !.watchdog = FALSE]
       IN  IF u.opened \/ Busy(proc)
           THEN /\ ui' = [v EXCEPT !.retries = 0, !.poll = TRUE]
                /\ proc' = RequestStop(proc)
           ELSE ui' \in Finished(v, FALSE) /\ UNCHANGED proc

\* The Stop button, or a stop command from the network.
UserStop ==
  /\ ~ ui.waiting /\ ui.closing # "finalized"
  /\ ui.run = "Running" \/ Busy(proc)
  /\ StopFobosProcessing(ui)
  /\ UNCHANGED <<posted, starts, attempts, failures, changes>>

\* pollStopCompletion(): the reader has stopped, or is asked again, or, after
\* six seconds, is terminated unless a Fobos driver holds it.
PollStopped ==
  /\ ~ ui.waiting /\ ui.poll /\ ~ Busy(proc)
  /\ ui' \in Finished(ui, FALSE)
  /\ UNCHANGED <<proc, posted, starts, attempts, failures, changes>>

PollRetry ==
  /\ ~ ui.waiting /\ ui.poll /\ Busy(proc)
  /\ ui.retries < CancelRetries
  /\ ui' = [ui EXCEPT !.retries = @ + 1]
  /\ proc' = RequestStop(proc)
  /\ UNCHANGED <<posted, starts, attempts, failures, changes>>

PollGivesUp ==
  /\ ~ ui.waiting /\ ui.poll /\ Busy(proc)
  /\ ui.retries = CancelRetries
  /\ LET u == [ui EXCEPT !.poll = FALSE]
     IN  IF u.session /\ ~ u.external
         THEN ui' = [u EXCEPT !.closeAfter = TRUE] /\ UNCHANGED proc
         ELSE \/ proc' = Terminated(proc) /\ ui' \in Finished(u, TRUE)
              \/ ui' = u /\ proc' = [proc EXCEPT !.running = FALSE]
  /\ UNCHANGED <<posted, starts, attempts, failures, changes>>

\* A stream that did not start is tried once more.
MutantRetryTwice(u) == u.retryCount <= 1
MayRetry(u) == u.retryCount < 1

\* checkStreamStartup(): the stream has come up, or there is nothing left to
\* watch, or it is stopped for having delivered nothing for 1.8 s.
WatchdogDone ==
  /\ ~ ui.waiting /\ ui.watchdog
  /\ ui.run # "Running" \/ proc.thread \in {"none", "reading"}
  /\ ui' = [ui EXCEPT !.watchdog = FALSE]
  /\ UNCHANGED <<proc, posted, starts, attempts, failures, changes>>

WatchdogFires ==
  /\ ~ ui.waiting /\ ui.watchdog
  /\ ui.run = "Running" /\ Busy(proc)
  /\ LET retry == MayRetry(ui)
     IN  StopFobosProcessing([ui EXCEPT !.retryCount = IF retry THEN @ + 1 ELSE @,
                                        !.restartAfter = retry])
  /\ UNCHANGED <<posted, starts, attempts, failures, changes>>

\* handleDataProcessorFailure(), connected to readerFailed: a failure within
\* 2.5 s of the start is retried once.
MutantPollNotStarted(u) == [u EXCEPT !.retries = 0]
Polling(u) == [u EXCEPT !.retries = 0, !.poll = TRUE]

HandleDataProcessorFailure ==
  /\ ~ ui.waiting /\ posted # <<>>
  /\ posted' = Tail(posted)
  /\ \E early \in BOOLEAN :
       LET retry == early /\ MayRetry(ui)
           u == [ui EXCEPT !.automatic = FALSE, !.closeAfter = ~ ui.external,
                           !.watchdog = FALSE, !.restartAfter = retry,
                           !.retryCount = IF retry THEN @ + 1 ELSE @]
           v == [u EXCEPT !.run = "Stopping"]
       IN  IF Head(posted) # ui.address THEN UNCHANGED <<ui, proc>>
           ELSE IF u.run = "Stopping" \/ (u.run = "Idle" /\ ~ u.opened /\ ~ u.session)
           THEN ui' = u /\ UNCHANGED proc
           ELSE IF Busy(proc)
           THEN ui' = Polling(v) /\ proc' = RequestStop(proc)
           ELSE ui' \in Finished(v, FALSE) /\ UNCHANGED proc
  /\ UNCHANGED <<starts, attempts, failures, changes>>

\* openFobosSession(), when prepareFobosSessionFromSettings() may call it.
MayPrepare(u) == ~ u.external /\ MayStart(u)

\* What prepareFobosSessionFromSettings() leaves when it does not open one: a
\* session is closed, whatever uses it, when another receiver is selected.
NotPrepared(u) == IF u.external /\ u.session THEN CloseFobosSession(u) ELSE u

\* The session is opened at startup, when a receiver is selected and when a
\* setting is changed.
PrepareFobosSession ==
  /\ ~ ui.waiting /\ ui.closing # "finalized" /\ ui.run = "Idle"
  /\ ui' = IF MayPrepare(ui) THEN [ui EXCEPT !.session = TRUE] ELSE NotPrepared(ui)
  /\ UNCHANGED <<proc, posted, starts, attempts, failures, changes>>

\* The user selects a receiver.
SelectReceiver ==
  /\ ~ ui.waiting /\ ui.closing # "finalized" /\ ui.run = "Idle"
  /\ \E external \in BOOLEAN :
       ui' = [IF ui.session THEN CloseFobosSession(ui) ELSE ui EXCEPT !.external = external]
  /\ UNCHANGED <<proc, posted, starts, attempts, failures, changes>>

\* A client's settings select a receiver, which does not restart the stream.
RemoteReceiver ==
  /\ ~ ui.waiting /\ ui.closing # "finalized"
  /\ ui' = [ui EXCEPT !.external = ~ @, !.switched = @ \/ proc.fobos]
  /\ UNCHANGED <<proc, posted, starts, attempts, failures, changes>>

\* 350 ms after finishFobosStop(): prepare the session and start again.
RestartTimer ==
  /\ ~ ui.waiting /\ ui.restarts > 0
  /\ LET u == [ui EXCEPT !.restarts = @ - 1]
     IN  \/ /\ MayPrepare(u)
            /\ StartFobosProcessing([u EXCEPT !.session = TRUE, !.automatic = TRUE])
         \/ /\ ui' \in {[NotPrepared(u) EXCEPT !.automatic = FALSE],
                        [u EXCEPT !.automatic = FALSE, !.session = @ /\ ~ MayPrepare(u)]}
            /\ UNCHANGED <<proc, starts>>
  /\ attempts' = attempts + 1
  /\ UNCHANGED <<posted, failures, changes>>

\* The start that ends a hardware change of an external receiver.
AgainTimer ==
  /\ ~ ui.waiting /\ ui.again > 0
  /\ attempts' = - ui.restarts
  /\ StartFobosProcessing([ui EXCEPT !.again = @ - 1])
  /\ UNCHANGED <<posted, failures, changes>>

\* restartStreamForHardwareChange() while the receiver is not idle, up to the
\* wait for the reader.
HardwareChange ==
  /\ ~ ui.waiting /\ ui.closing # "finalized" /\ ui.run # "Idle"
  /\ changes < MaxChanges
  /\ changes' = changes + 1
  /\ IF ui.session \/ (ui.external /\ Busy(proc))
     THEN /\ ui' = [ui EXCEPT !.run = "Stopping", !.watchdog = FALSE, !.poll = FALSE,
                              !.waiting = TRUE,
                              !.viaFobos = ~ (ui.external /\ Busy(proc))]
          /\ proc' = RequestStop(proc)
     ELSE /\ ui' = IF ~ Busy(proc) THEN [ui EXCEPT !.run = "Idle", !.opened = FALSE] ELSE ui
          /\ UNCHANGED proc
  /\ UNCHANGED <<posted, starts, attempts, failures>>

\* ... the reader has stopped: a Fobos stream is configured and started at
\* once, unless the settings cannot be applied.
HardwareChanged ==
  /\ ui.waiting /\ ~ Busy(proc)
  /\ LET u == [ui EXCEPT !.waiting = FALSE, !.viaFobos = FALSE]
         idle == [u EXCEPT !.opened = FALSE, !.run = "Idle"]
     IN  IF ~ ui.viaFobos
         THEN ui' = [idle EXCEPT !.again = @ + 1] /\ UNCHANGED <<proc, starts>>
         ELSE \/ /\ starts < MaxStarts
                 /\ starts' = StartsAfter
                 /\ ui' = Started(u, TRUE) /\ proc' = StartProcessing(proc, TRUE)
              \/ /\ ui' = [idle EXCEPT !.session = FALSE, !.closeAfter = FALSE]
                 /\ UNCHANGED <<proc, starts>>
  /\ UNCHANGED <<posted, attempts, failures, changes>>

\* ... or it has not: it is terminated, which may fail.
HardwareChangeTimeout ==
  /\ ui.waiting /\ Busy(proc)
  /\ \/ proc' = Terminated(proc) /\ UNCHANGED ui
     \/ /\ proc' = [proc EXCEPT !.running = FALSE]
        /\ ui' = Polling([ui EXCEPT !.waiting = FALSE, !.viaFobos = FALSE])
  /\ UNCHANGED <<posted, starts, attempts, failures, changes>>

\* closeEvent()
CloseEvent ==
  /\ ~ ui.waiting /\ ui.closing # "finalized"
  /\ LET u == [ui EXCEPT !.closing = "inProgress"]
     IN  IF ui.run = "Stopping"
         THEN ui' = (IF ui.poll THEN u ELSE Polling(u)) /\ UNCHANGED proc
         ELSE IF ui.closing = "inProgress" THEN UNCHANGED <<ui, proc>>
         ELSE IF StopsAt(ui) THEN StopFobosProcessing(u)
         ELSE /\ ui' = [u EXCEPT !.closing = "finalized", !.session = FALSE,
                                 !.closeAfter = @ /\ ~ u.session,
                                 !.watchdog = FALSE, !.poll = FALSE]
              /\ UNCHANGED proc
  /\ UNCHANGED <<posted, starts, attempts, failures, changes>>

-----------------------------------------------------------------------------
Reader == ReaderBegins \/ DriverRuns \/ DriverReturns \/ ReaderFails \/ ReaderEnds
Timers == PollStopped \/ PollRetry \/ PollGivesUp \/ WatchdogDone \/ WatchdogFires
            \/ RestartTimer \/ AgainTimer
User == UserStart \/ UserStop \/ PrepareFobosSession \/ SelectReceiver
          \/ RemoteReceiver \/ HardwareChange \/ CloseEvent

Next ==
  \/ Reader \/ CancelWorker
  \/ Timers \/ HandleDataProcessorFailure
  \/ HardwareChanged \/ HardwareChangeTimeout
  \/ User

Spec == Init /\ [][Next]_vars

\* Threads run, timers fire, queued signals are delivered.  A driver that has
\* been told returns; nobody makes one return that has not.
Fairness ==
  /\ WF_vars(ReaderBegins) /\ WF_vars(DriverRuns) /\ WF_vars(Leaves(proc) /\ DriverReturns)
  /\ WF_vars(ReaderFails) /\ WF_vars(ReaderEnds) /\ WF_vars(CancelWorker)
  /\ WF_vars(PollStopped) /\ WF_vars(PollRetry \/ PollGivesUp)
  /\ WF_vars(WatchdogDone \/ WatchdogFires)
  /\ WF_vars(RestartTimer) /\ WF_vars(AgainTimer)
  /\ WF_vars(HandleDataProcessorFailure)
  /\ WF_vars(HardwareChanged) /\ WF_vars(HardwareChangeTimeout)

FairSpec == Spec /\ Fairness

-----------------------------------------------------------------------------
(* Properties *)

TypeOK ==
  /\ ui \in UiType
  /\ proc \in ProcType
  /\ posted \in Seq(Addresses)
  /\ starts \in 0 .. MaxStarts /\ attempts \in Int
  /\ failures \in 0 .. MaxFailures /\ changes \in 0 .. MaxChanges

\* An idle receiver has no reader: whatever failed, timed out or was clicked,
\* nothing still delivers samples or holds the USB device.
IdleMeansStopped == ui.run = "Idle" => proc.thread = "none" /\ ~ proc.running /\ ~ ui.opened

\* The session of a Fobos is never closed or abandoned under its reader, unless
\* a client has selected another receiver meanwhile.
ReaderHasSession == proc.thread # "none" /\ proc.fobos => ui.session \/ ui.switched

\* The window says Running only when a new reader has been started, never
\* because an old one was still there.
RunningMeansStarted ==
  [][ui.run # "Running" /\ ui'.run = "Running" => starts' = starts + 1 /\ proc'.running]_vars

\* A start by the user leads to at most one automatic restart, due or done.
RetryOnce == attempts + ui.restarts <= 1

\* pollStopCompletion() has given up.
GaveUp == ~ ui.poll /\ ui.retries = CancelRetries

\* A stop comes to an end, or has been repeated as often as intended.
StopSettles == ui.run = "Stopping" ~> ui.run # "Stopping" \/ GaveUp

\* A window being closed closes, unless the stop has been given up, in every
\* behaviour in which no hardware change comes between the request to close and
\* the end of the stop: such a change takes the stop for its own and may start
\* the stream again, or end in Idle, with the window still being closed.
CloseSettles ==
  [](ui.closing = "inProgress" => ~ ui.waiting)
    => (ui.closing = "inProgress" ~> ui.closing = "finalized" \/ GaveUp)

\* Every stop comes to an end.
StopCompletes == ui.run = "Stopping" ~> ui.run # "Stopping"
=============================================================================
