# Obrii SDR: a TLA+ verification project

Obrii SDR (repository FobosAPP) is a desktop receiver for software radios,
written in C++ with Qt: it reads I/Q samples from a receiver, shows spectrum and
waterfall, demodulates audio, decodes digital modes, and can serve all of this
to clients over a network. About 111 000 lines under `src/src/`, and no unit
tests. This directory models the parts whose correctness depends on the order
in which threads, timers, messages and users act. Those parts are small, and
they are the ones a test would not reach.

Paths below are relative to `src/src/` unless they start with `docs/`.

## 1. The system

### Threads and who talks to whom

```
 receiver library ──block──▶ DataProcessor (reader thread)
                                   │ publish(epoch)
                                   ▼
   UI thread ──clear(epoch)──▶ IqBuffer ◀──snapshot── SpectrumFftWorker (thread)
      │  ▲                        │                          ▲   │
      │  │                        └──popBlock──▶ AudioProcessor  │   │
      │  └────────── readerFailed (queued signal) ──          │   │
      ├── request / reset ───────────────────────────────────┘   │
      ◀── takeLatest ─────────────────────────────────────────────┘
      │
      └── NetworkController ◀── sockets ──▶ NetworkController of a client
```

Everything of the window, all timers and the network run in the UI thread's
event loop, one handler at a time; but a handler that opens a message box or
processes events lets others in between. The reader thread, the FFT worker, the
audio thread and the detached thread that cancels a stream run beside it.

### Components

| component | state it keeps | operations | what is hard | what makes it correct |
|---|---|---|---|---|
| Shared IQ buffer, `core/iqbuffer.cpp` | snapshot ring, audio queue, epoch, reset generation, counters | publish, popBlock, snapshot…, clear, stats | two mutexes, chunks copied with the mutex released, a try-lock, clears in the middle | a snapshot is one gap-free run of one epoch; the queue is in order and within its limits |
| Receiver lifecycle, `main.cpp`, `core/dataprocessor.cpp` | selected receiver, run state, session, stop poll, watchdog, retry budget; thread, running flag, cancel flag | select, start, stop, watchdog, failure, hardware change, restart, close | a reader that will not return, failures delivered late, four timers, retries | Idle means stopped; no session closed under its reader; one restart per start; stops end |
| Spectrum pipeline, `utils/spectrumfftworker.cpp`, `mainwindow/main_spectrum.cpp`, retunes in `main.cpp` | epochs, generations, request slot, batches of rows, last frame shown | poll, request, compute, retune, start, stop, settings | three threads and three counters; results for what no longer is | what is drawn is in tune, fresh, and drawn once |
| Network control channel, `network/networkcontroller.cpp`, `mainwindow/main_network.cpp` | peers, controller, heartbeats, block list; connection phase and role of each client | accept, hello, role updates, requests for control, timeouts, reconnect | silent link death, half-closed connections, role news crossing requests | server and clients agree who controls; a dead controller is replaced |
| Network settings, `mainwindow/main_network.cpp` | the server's settings; pending, confirmed and awaited settings of each client | edit, debounce, send, ack, timeout, report, reject | late and crossing acknowledgements, two users editing, control that moves | a client at rest knows what the server has reported, and shows what it makes of that; nobody writes back what others changed |
| Network streams, `mainwindow/main_network_{iq,audio,spectrum}.cpp` | frame counters | send, receive | loss | frames are dropped whole |
| Audio, `audio/` | block lists, playback devices | demodulate, play | bounded lists | nothing is heard out of order |
| Recording, `audio/recordingmanager.cpp`, `mainwindow/main_recording.cpp` | open file, sizes | start, append, stop, load | 32-bit sizes, failed writes | the header matches the data |
| Scanning, `mainwindow/main_scan*.cpp`, `scan/` | plan, step, accumulated rows | step, capture, hop | retune protocol, late rows | a row belongs to its step |
| Transmitter, `transmit/` | the dialog's source, key, timers; the backend's sample queue, output flag, device | start, write, key, mute, pause, watchdog, stop, close | library callback against UI thread, key releases that get lost, calls that fail half-way | a keyed run transmits under the key only, nothing stale is sent, the amplifier goes off first, runs end |
| Receiver backends, `backends/` | library handles | open, configure, read, close | wrappers of vendor libraries | (see lifecycle) |
| Digital decoders, video, GNSS, research, presets, UI, localisation | their own | sequential | numeric | not a matter of ordering |

`PROJECT.json` lists each component with its files, its status and the reason
for what is left out, and under `hazards` every place where the order of events
can go wrong, at its line, with the properties that would notice.

## 2. Modules

| module | models | composed from |
|---|---|---|
| `IqBuffer` | the buffer, every critical section a step | – |
| `IqBufferProofs` | its theorems | `IqBuffer` |
| `AbstractIqBuffer` | what the buffer's users rely on: a log of floats, a queue, snapshots | – |
| `RadioLifecycle` | run state of the window with the reader thread and its driver | – |
| `RadioLifecycleProofs` | its theorems | `RadioLifecycle` |
| `SpectrumPipeline` | reader, buffer, FFT worker and window together | the buffer reduced to what `AbstractIqBuffer` promises of it |
| `SpectrumPipelineProofs` | its types, fresh rows and the request slot, proved | `SpectrumPipeline` |
| `SpectrumTuneProofs` | rows in tune, proved | `SpectrumPipelineProofs` |
| `SpectrumRowProofs` | rows in order, and the gate, proved | `SpectrumTuneProofs` |
| `NetworkController` | one server and its clients, with both ends of every connection | – |
| `AbstractControl` | who controls the receiver, as its users may rely on it | – |
| `NetworkControllerProofs` | its theorems | `NetworkController` |
| `NetworkSettings` | the settings a server and its clients keep, edit and send | control, as far as it matters, of `NetworkController` |
| `NetworkSettingsProofs` | its theorems | `NetworkSettings` |
| `Transmitter` | the transmit dialog with the HackRF backend and its library's thread | – |
| `TransmitterProofs` | its theorems | `Transmitter` |
| `MC…` | constants of the small instances | one for each |

A definition keeps the name of the function it translates. `Mutant…`
definitions are variants of the definition below them with a plausible bug;
nothing refers to them, and each makes a property fail (`mutants` in
`PROJECT.json`).

### IqBuffer

One publisher, any number of snapshot readers, the audio consumer and clears.
`publish()` is split where the code takes or releases a mutex: the epoch check
and the metadata (`BeginPublish`), the number drawn outside any lock
(`NumberBlock`), the queue section (`QueueBlock`, `FlushQueue` when the limits
are exceeded), and the ring section (`AppendBlock`), which the code skips when
the ring's mutex is taken and the block is optional. A reader sizes its copy
(`SizeSnapshot`), allocates with the mutex released, and copies chunk by chunk
(`CopyFirstChunk`, `CopyNextChunk`), checking each time that the ring has not
been cleared or overtaken it. A float is represented by its reset generation,
position and epoch, so that gaps, repetitions and mixtures are visible.

`AbstractIqBuffer` says the same without ring, mutexes, chunks and sequence
numbers: a log grows, ends with `clear()`, and a snapshot is a run of it that is
returned in one step. `ImplementsLog` of `IqBuffer` is the refinement: the log's
length is `totalFloats`, its generation `resetGeneration`, its queue what the deque
holds, and a reader has returned what its finished copy holds. A copy of many
steps thus looks like one, which is what lets `SpectrumPipeline` use single
steps.

### RadioLifecycle

`ui` holds what the handlers of `main.cpp` keep: selected receiver, run state,
`deviceOpened`, open session, armed timers, retry counts, pending restart,
progress of a window close. `proc` is the DataProcessor: which receiver it
reads, running flag, cancel flag, and where its thread is. Every handler is one
action and calls the same operators the code calls (`StartFobosProcessing`,
`StopFobosProcessing`, `FinishFobosStop`, …). The receiver is either a Fobos,
whose driver only returns when cancelled, or `external`: one whose reader looks
at the running flag (rtl_tcp, SoapySDR, bladeRF, HackRF). Its user may select
another one while none runs (`SelectReceiver`); a client of the server may at any
time (`RemoteReceiver`), because `applySettingsFromJson()` does not ask whether a
reader runs. In that case the window takes the external path with a Fobos still
being read: `ui.switched` remembers it, and `ReaderHasSession` exempts it. The
driver (`DriverRuns`, `Leaves`) is taken from the patched library in
`third_party`, in particular that it ignores a cancel that arrives before it
runs. A processor's address matters because `readerFailed` is matched by
pointer, and a new processor may get the address of the deleted one.

### SpectrumPipeline

The reader thread is a loop of receive, load epoch, publish; the order of the
first two depends on whether it reads synchronously or is called back. The
worker takes a request, plans the ends of its rows from the buffer's counters,
copies and transforms them one by one and delivers the frame, all with the
mutex released in between. The UI thread polls, and runs the multi-step
handlers start, retune (barrier, clear, tune, barrier, clear, settle), hardware
change, stop and change of settings. Positions are floats as in the code; a
sample is represented by the frequency it was received at. An Agile retune
may wait for the settle time and a timer. For rtl_tcp `retuneCenterFrequency()`
only stores the frequency: `Tune` then leaves the hardware alone, and the reader
sends the command between two of its rounds (`ApplyPendingRetune`), which may be
after the second barrier.
The buffer's append, clear and snapshot are single steps here. That is what
`LogImplemented` of `IqBufferProofs` justifies: a snapshot that succeeds is one
run of one generation, marked by one epoch. It may fail when the
buffer was cleared or overtook it, and publishing may skip the ring.
The FFT, scans, frames received from a network and out-of-memory paths are left
out.

### NetworkController

Each application's event loop runs a handler to its end. A connection is a
queue of messages each way; it ends when an end closes it or it dies silently.
The handlers of `main_network.cpp` for `requestPriority`, `priorityRequest` and
`priorityResponse` are included, with the message boxes they open: a box keeps
the loop running, so several can be open at once and are answered in the order
last opened first. Settings, streams and the notice `priorityDenied`, which
only informs its user, are left out. Peer identifiers are reused only when
nothing refers to them, which is as good as the code's ever-growing counter.

`AbstractControl` says who holds the control without sockets, message queues,
dialogs and timers: peers are accepted once each and stand in that order; the
first to be ready holds the control; when the holder leaves, the ready peer that
was accepted before the other ready ones succeeds it in the same step; while it
stays it hands the control over, and only to a ready peer that has wished for it.
`ImplementsControl` of `NetworkController` is the refinement: `accepted` is the
server's list of peers, a wish is a request the server has received (`asked`).

### NetworkSettings

A client keeps its own copy of the settings (`pending`), the last state of the
server it knows (`confirmed`), and two timers. `Edit` is a handler of a control
with `scheduleRemoteSettingsCommand()`: it sends what differs at once or after
the delay. `SendSettings`, `AckTimeout`, `ClientReceive` and `ServerReceive` are
the handlers of the same names. The server answers a command with an
acknowledgement and reports its settings to all; rejected commands, commands of
an observer and an unknown receiver (`Devices`) are the code's early returns.
The server's user edits too (`ServerEdit`), and only some controls report what
they change (`Reported`). Control moves and links break as `NetworkController`
allows, with the order of each link's messages kept; how the server picks the
next controller is left open here. Histories record what the server has kept to
itself (`unreported`), what a client's user or controls have changed since the
client took over a state of the server (`edited`), and what of it nobody will send
(`unsent`).

Taking settings over is not copying them, and the conversions are constants of
the module, any functions from settings to settings:

| constant | stands for | in the instance |
|---|---|---|
| `Taken` | what `applySettingsFromJson()` makes of settings: clamping, and keys that follow from others | a position whose source is NMEA is hidden (`mainwindow/main_settings_json.cpp:509`), at the client and at the server |
| `Tuned` | `normalizeTuning()`, which the server applies afterwards | the centre follows the frequency listened to |
| `Adjusted` | what the handler of one control makes of all settings | an edit of either frequency moves the centre |
| `Shown` | what a client's controls can show: `updateUiFromPendingSettings()` takes the receiver from its list, `refreshSettingsFromUi()` reads all controls before a command | a receiver that is not in the client's list |
| `Near` | `jsonValuesEquivalent()`: pairs of values no patch tells apart | centres at most 0.5 Hz apart |

A client keeps what it *received* as `confirmed` and what it *made of it* as
`pending`, so the two may differ although nobody has edited. `InStep` is about
both: the confirmed settings are the server's, and those shown are
`TakenOver(confirmed)`. `OnlyEditsSent` lets a command carry a key in which the
client departed from the server's state by itself, by an edit, through its
controls or by taking the state over, and no other.

### Transmitter

The handlers of `TransmitDialog` run one at a time; each is an action that
carries the dialog and the backend (`s.d`, `s.b`) through the calls it makes, in
their order. The library's thread calls `fillTransfer()` whenever it likes, and
may stop. Each call of the library may fail (`works`, `opens`): a write, a start
of the stream, opening the device. The queue counts in chunks of 20 ms, each
tagged with the over it was produced for, an over being what lies between
un-muting and muting. Keys are held in the user's hand (`held`): the release of a
button always arrives, one of F12 only if a keyed source is selected and one of
the dialog's widgets receives it, and `missed` records when it did not.

## 3. Runs

Passing runs explore every state of their instance. Violation runs check one
sentence the repository says of itself, which the code does not keep.

| run | instance | shows |
|---|---|---|
| `iq_ring` | ring of 6 floats, chunks of 2, blocks of 2 and 6, 8 floats and 2 clears; historical ends 0, 3 and 6 | the ring is the newest tail through every wrap; snapshots are contiguous, of one epoch and whole pairs, begin with an I unless an odd end is asked for, and end where they say; the buffer implements `AbstractIqBuffer` |
| `iq_queue` | queue of 2 blocks and 4 floats, all publishing modes | queue in order, accounted, of one epoch; publishing never waits for a reader |
| `iq_history` (violation) | as `iq_ring` | a historical snapshot that met a clear reports an end it does not have |
| `lifecycle` | 2 reader starts, 2 failures, 1 hardware change; a Fobos or another receiver, exchanged in between | the safety of selection, start, stop, failure, restart, close, and that stops and closes settle |
| `lifecycle_stop_completes` (violation) | 1 start | a stop during start-up is lost and not repeated |
| `pipeline_display` | 3 commands of the user, 2 frequencies, 2 blocks of 6 floats, ring of 8, FFTs of 4 and 8 floats, batches of 2 rows | every row drawn is in tune, fresh, once; the worker's slot is always released |
| `pipeline_frozen` (violation) | a Fobos started, stopped and started again | frames of a new stream are dropped as duplicates of the old one's |
| `pipeline_deaf` (violation) | 2 commands | a retune during the reader's start leaves the buffer refusing the stream |
| `network_roles` | 3 clients, 3 connections, 1 failure, 2 requests | roles agree, somebody controls, and the channel implements `AbstractControl`: control moves on request only, or to the next in line when its holder is lost |
| `network_live` | 2 clients, 3 connections, 1 failure, 1 request | a dead controller is replaced, a lost client returns |
| `network_settings` | 2 clients, 4 settings of 2 values, each with another conversion, 2 edits, 1 change by the server's side | a client at rest knows the server's settings and shows what it makes of them, sends only what it departed in by itself, and its waits end |
| `transmit` | prebuffer of 2, queues of 3 and 4, bursts of 2, 3 overs | nothing stale is sent, the carrier follows the key, the amplifier is off before every close, runs end |

### Bounds, and why they are enough

* `iq_ring`: blocks straddle the end of the ring, a block can fill it, a
  snapshot needs three chunks, an odd length and an odd end are requested, and two
  clears allow a retune before and during a copy. The same invariants are proved for every
  size.
* `iq_queue`: a block can exceed the float limit alone, and a third block
  exceeds the block limit. Its invariants, too, are proved for every size.
* `lifecycle`: two starts are an original and its restart by the watchdog, a
  failure or a hardware change, or by the user, who then meets the timers and
  failures of the first; the receiver may be exchanged at any point without
  using up a bound. `CancelRetries` is 4 in the code and 1 here; giving up is then
  the same code earlier. Two addresses suffice for "same" and "another"
  processor.
* `pipeline_display`: a start and two more commands give retune after retune,
  start-stop-start, a retune with a change of settings, and a hardware change
  with either. With two blocks the ring wraps (12 floats in a ring of 8), it
  overtakes a row that is being copied, a batch has three rows due and skips
  one, frames of two rows follow frames of the same contents, and the single FFT
  of 8 floats first meets a ring that holds less. `Recreate = FALSE` leaves out a
  second start of a Fobos after a clean stop, the subject of `pipeline_frozen`:
  there `GateComparesAlike` fails. It is proved without the other bounds, the
  other five properties without any.
* `network_roles`: two clients can ask the third for control at once, and one
  connection can be lost, crash, time out falsely or be closed by its user.
  Clients are interchangeable, which the symmetry uses.
* `network_settings`: starts where one client controls and knows the server
  (`MCSpec`; `Init` reaches that state, and values have no meaning of their own),
  so that both edits and the change fall into the interesting part. There is one
  setting for each conversion of section 2; one of the four is reported, one selects
  a receiver. At the start the server shows a position its client hides and uses a
  receiver the client's list does not have, so the client differs from the server
  before anybody edits. The invariants are proved without these bounds, for any
  conversions, and from `Init`.
* `transmit`: three overs are a keyed run left, another started, and one more
  press; the queue can be full, empty, and just too short for the prebuffer.

`CHECK_DEADLOCK FALSE` is said where the system may stop: a window that is
closed ends the program, and counters at their bounds end a run. `iq_queue`,
`iq_ring` and `iq_history` check deadlock.

### Fairness

* `iq_queue` needs only that the publisher's thread is scheduled. Readers get
  no fairness: one may hold the ring for ever, and `publish()` still returns.
* `lifecycle`, `lifecycle_stop_completes`: threads are scheduled, armed timers
  fire, queued signals are delivered. A driver returns only if it has been told
  to in a way the library honours; nothing assumes that one returns which was
  not. Users act or not.
* `network_live`: event loops serve what is ready, and timers of a dead
  connection fire. Reconnecting is strongly fair only because the instance has
  three connection identifiers and none may be free for a moment.
* `network_settings`: messages of a link that is up are delivered and armed
  timers fire. Users, the server's user and links act or not.
* `transmit`: time passes and the progress timer fires. The library's thread,
  the source timers and the user get no fairness: a run ends without them.

## 4. What is proved

TLAPS checks these for every value of the constants that satisfies the
module's assumption: sizes, sets of readers, clients, settings and receivers,
numbers of starts, failures and edits. A theorem is named for the property it
states.

**IqBufferProofs.** `Invariance` proves the inductive invariant
`IInv == TypeOK /\ RingInv /\ QueueOneEpoch /\ CopyInv`. The properties alone
are not inductive. `RingOneEpoch` says nothing about the metadata a snapshot is
labelled with, so `MetadataInv` (the newest metadata is of the buffer's epoch)
joins it. A snapshot half copied needs `CopyInv`: the floats copied so far are
one run, and while the generation it began in is still current, so is its
epoch. The rest is arithmetic of the wrapping index, in lemmas about `Wrap` and
`ReadRing`. From it follow `TypeCorrect`, `RingCorrect`, `RingEpochCorrect`,
`QueueEpochCorrect`, `SnapshotCorrect` and `SnapshotEpochCorrect`.
`QueueOrderCorrect` adds that a block numbered but not yet queued is newer than
all that is queued; `SnapshotEndCorrect` that the newest metadata counts every
float. `LogImplemented` maps each step to one of `AbstractIqBuffer` or to none.

`QueueAccountedCorrect` is about a sum over the queue. The library's induction
theorems are out of reach, but their premise is not: a nonempty set of naturals
has a least element (`LeastElement`, from the well-foundedness of their order), so
a claim about every length holds because there is no first length at which it
fails. In this way `FloatsOf` is shown to be a running sum (`FloatsOfIsSum`), which
appending extends and taking a slice shortens. Because the counter is exact, the
loop that trims the queue always finds a block to drop while a limit is exceeded
(`TrimmingEnds`). No other thread sends a running `publish()` back
(`PublishShortens`): it has at most three steps to take.

`SnapshotAlignedAsAsked` has one hypothesis about the constants: blocks are whole
I/Q pairs (`EvenBlocks`), as every receiver delivers them. Every copy then is of
whole pairs, and begins with an I if it is live or its requested end lies between
two pairs. About an end inside a pair nothing is assumed; the worker does ask for
such ends (section 5, the odd hop).

**RadioLifecycleProofs.** The invariant is
`LifecycleInv == TypeOK /\ Coherent(ui, proc) /\ Paid(ui, attempts)`.
`Coherent` adds to "idle means stopped" and "a reader has a session" what keeps
them: without a thread the running flag is down, and while a hardware change
waits for the reader the window is in Stopping, with its session open if it took
the path of a Fobos. `Paid` says that restarts due, ordered and done are covered
by `retryCount`, and that an ordered one has used the budget up; without the
second part the handler that orders one could do so twice. There is a lemma for
each operator the handlers share, then one for each group of actions. It yields
`TypeCorrect`, `IdleStopped`, `SessionOutlivesReader`, `RestartedOnce`, and the
action property `RunningStarted`.

`StopsPursued`: a window that is stopping is waiting for its reader, polls, or has
repeated the stop as often as it may. `FailuresHeard`: a window that says Running
has a reader, or the failure of the one it had is in the event queue and names it.
The latter is stated of behaviours in which the poll timer runs for stops only
(`PollsAStop`). That is a hypothesis and not an invariant, because there is a way
to leave the timer armed; the attempt to prove it found that way (section 5).

**SpectrumPipelineProofs.** `ShownFreshCorrect` needs three facts at once
(`IInv`). A frame of the worker's present generation holds only rows of what the
buffer holds now, unless the window is just between clearing it and resetting
the worker (`FreshInv`). The buffer is cleared at two other places, and no such
frame exists at either: while a stream starts the buffer is empty
(`EmptyInv`), and during a settle time no request was made in this generation
(`QuietInv`). A row being copied is not of the present contents any more once
the buffer was cleared, because `resets` never returns. `TypeCorrect` includes
that every position the worker plans is a natural number and every row it is
about to copy was planned. `OutstandingOwnedCorrect` follows from `IInv` and
itself.

**SpectrumTuneProofs.** `ShownInTuneCorrect`. While a frame of the present
generation is asked for, computed or waits, the buffer holds only blocks in tune
(`PureInv`), and no block out of tune can be published: one a callback has in
hand is in tune once the settle time is over (`AsyncHand`; this is where the
assumption of section 6 enters), one a synchronous reader has in hand carries an
epoch the buffer refuses, or is going to refuse after the clearing that is due
(`SyncHand`). The frequency changes only while the worker has been reset and the
window has not polled since (`WindowInv`), or, when rtl_tcp's reader sends a tune
that was stored for it, before the settle time of that tune is over (`StoredInv`).

**SpectrumRowProofs.** `NoRowTwiceCorrect`. The gate compares only a frame's newest
row, so the rows before it are compared where they are planned. The invariant
relates every row planned, copied or waiting to two `Target`s, the end of the
frame shown last and of the frame that waits. A batch that continues goes back
to neither, because the worker's last end is beyond both or the ring has lost
what came before them (`Past`): that second half is needed because the worker
may forget its last end (a reset without a clearing, a single row that could not
be copied), or keep one that is too old (a batch whose newest row the ring
overtook). Rows of one frame stay a hop apart whichever are skipped (`EndsInv`).

`GateComparesAlikeCorrect`, in the same module, assumes `~ Recreate`: no processor
is started whose epochs begin at 1 again. Then an epoch about to be adopted is
later than that of the frame shown last (`OlderInv`), so once the buffer has taken
it over the gate compares nothing; and the buffer is cleared within an epoch only
before the reader adopts one or during a settle time, when nothing has been shown
since (`AlikeInv`).

**NetworkControllerProofs.** Roles are news on their way, so agreement is stated
of the way: the newest role in the queue down to a client, or without one what
the client believes, is the server's (`Says`, for every ready connection).
`ControlOnlyForAskers` needs that no message and no open dialog names a
connection that has not asked (`AskedInv`), and this that an identifier is used
again only when nothing mentions it. Promotion loops over the peers; the lemma
about it says whom it chooses and whom it tells. Theorems: `TypeCorrect`,
`SomeoneControlsCorrect`, `RoleAgreementCorrect`, `ControlOnlyForAskersCorrect`.

`ControlImplemented` is the refinement of `AbstractControl`, with a lemma for each
kind of step. It needs one more invariant, `Once`: a connection stands in the
order of acceptance once, and not while it is pending; otherwise one that is
removed could still be in line. `OneCommandsCorrect`: of the clients that have
read what was sent to them, at most one believes it controls the receiver.
`NeverStrandedCorrect`: a client whose connection is closed has its retry timer
armed.

**NetworkSettingsProofs.** `InStepCorrect` follows the news as well: the newest
report on its way to a client, or without one its confirmed state, agrees with
the server but for what the server has not reported (`Told`), and the client's
own copy is what taking the confirmed state over made of it, but where its user
or its controls have changed it since (`Mine`). A client at rest knows a
state of the server at all because one that does not is about to ask, has asked,
or a report is on its way to it (`Asked`). `OnlyEditsSentCorrect` is the part
`Owns` of the invariant: what a command may carry is settled when it is sent and
recorded in it while it travels. Both hold whatever the conversions do. The second part of `Mine` is
`EditsPursued`: what a user edited and the client has neither given up nor replaced
has the delay's or the acknowledgement's timer armed.

**TransmitterProofs.** Backend calls keep `Good`: it streams only while it runs
un-muted, the library transmits only while it streams, the amplifier is on only
then, and the queue holds only the present over. Dialog handlers keep `Fit`: a
backend that runs is the dialog's, with its progress timer on. `CarrierCorrect`
adds that what a keyed run sends is keyed, by a key held or one whose release
was missed; every handler but those of the key is `Tamer` than the state it
starts from. Theorems: `TypeCorrect`, `NothingStaleCorrect`, `AmplifierCorrect`,
`CarrierCorrect`; `KeysMute`: a run to be keyed has its output enabled only
while the dialog holds the key for pressed; `RunsWatched`: a backend that runs
is known to the dialog, and the timer that ends the run is on.

**Only model-checked.** Every invariant and action property that a passing run
checks is proved, and so are both refinements. What is left is liveness
(`PublishReturns`, `StopSettles`, `CloseSettles`, `DeadControllerReplaced`,
`ClientReconnects`, `Settles`, `RunEnds`): fairness and ENABLED are beyond the
prover. For five of the seven a theorem states the part that holds in every state,
namely that something is armed or scheduled which works towards the end:
`PublishShortens`, `StopsPursued`, `NeverStrandedCorrect`, `EditsPursued`,
`RunsWatched`.

## 5. What the checks found

Four sentences of the repository do not hold of the code; `findings` in
`PROJECT.json` quotes each.

1. A historical snapshot does not always "retain its exact requested endpoint"
   (`iq_history`).
2. A stop can be neither "bounded" nor retried: a cancel sent before the driver
   runs is ignored, and the flag that says it was sent suppresses the next
   (`lifecycle_stop_completes`).
3. The duplicate gate is not about "newly published IQ" after a Fobos has been
   stopped and started: the recreated processor counts the same epochs again,
   and the spectrum stands still until the new stream is as long as the old one
   was (`pipeline_frozen`). Loading a second recording and leaving the network
   client mode clear the buffer without raising its epoch and have the same
   effect; those paths are not modelled.
4. `expectedEpoch` can reject data that is not stale: the reader's start loads
   its epoch and clears the buffer in two steps (`pipeline_deaf`).

Seen while reading, or built into the models, without a run that refutes a
sentence of the repository:

* A hop with an odd number of floats (44.1 kHz at 33 ms) ends every second row of
  a batch between an I and a Q sample (`utils/spectrumfftworker.cpp:193`). The
  copy then begins with a Q, and its reader takes every Q for an I. `AlignedAsAsked`
  therefore speaks of the ends that lie between two pairs.
* Across two batches rows may be closer than the overlap asks for: after a reset
  that clears nothing (restoring the HF defaults), or a snapshot the ring overtook,
  the next batch begins at the oldest row the ring holds
  (`utils/spectrumfftworker.cpp:212`), and the window's gate measures only the
  newest row of a frame (`mainwindow/main_spectrum.cpp:966`). No row is drawn twice
  or out of order, which is what `NoRowTwice` says.
* `IqBuffer::clear()` without a reset of the worker (`main.cpp:7014`) leaves the
  worker's last end beyond the new total.
* A hardware change that finds its session gone while it stops sets Idle
  (`main.cpp:5814`) and leaves the stop's poll timer armed, and a start does not
  disarm it. If a stream is started before the timer's next tick (100 ms), later
  ticks take it for the one to be stopped: a second after the old stop they tell
  it to stop, and the window says Running of a reader that ends without a failure.
* A close can be lost to a hardware change. A change asked for while the window
  waits to be closed takes the stop for its own: it starts the stream again, or
  ends in Idle (`main.cpp:5814`), with `closeShutdownInProgress` still set, and
  from then on every further close is ignored (`main.cpp:5556`). `CloseSettles`
  says of which behaviours it speaks.
* The retry announced for a reader that fails does not happen for receivers other
  than a Fobos (`main.cpp:7310`); a client may exchange the receiver under a
  Fobos being read.
* A client may show something else than the server with nothing under way. The
  server shows a position that comes from NMEA, its clients hide it
  (`mainwindow/main_settings_json.cpp:509`), and the next `setParameters` of one of
  them carries the hidden position although nobody has edited it. `InStep` and
  `OnlyEditsSent` say what holds instead.
* Numbers that differ by at most 0.5 count as equal (`utils/appruntimeutils.cpp:87`),
  whatever they mean. A client's edit by that little, of `dmrSlicerRatio`,
  `hfNoiseCancelDepth`, `agileScanStepMhz` or `scanMeasurementBinMhz` for instance,
  is not sent by `setParameters`, and the acknowledgement takes it back.
* Clients: an observer's edit ends neither confirmed nor undone, which is why
  `Settles` speaks of waits only. A Stop or an answer to a request within the delay of an edit discards
  that edit's command; an edit taken back before its acknowledgement arrives is
  an empty patch; many of the server's own controls report nothing; a Start
  carries all settings. These are the exemptions `unsent` and `unreported` of
  `InStep`, and the reason `OnlyEditsSent` speaks of `setParameters`.
* A peer that connects and never says hello is not removed by the heartbeat
  (`network/networkcontroller.cpp:132`). A broadcast that reaches some peers only
  counts as sent (`:300`).
* Transmitter: "TX requires the user to arm RF output for every run"
  (`docs/hackrf_native_beta.md:40`), but only a failure, a change of backend, a
  load or a close takes the arming back. Starting a manual CW run after a pause
  leaves the dialog paused, so the key is pressed and nothing is sent
  (`transmit/transmitdialog.cpp:1272`). ATV does not notice that its first write
  ended the run (`:1261`), and leaves Start disabled. A release of F12 with another
  window active, or after another source was selected, is missed.

## 6. Assumptions worth knowing

* An asynchronous reader is assumed to deliver, before the settle time has
  elapsed, every block whose samples it received before the tune
  (`SettleElapsed`). Nothing in the code enforces it; the settle times are
  measured values. The same assumption covers rtl_tcp, whose reader sends a tune
  only when it comes round to it, up to 100 ms after the window stored it and
  possibly after the second clearing (`core/dataprocessor.cpp:736`): it is taken to
  have sent it before the settle time has elapsed. A synchronous reader needs no
  such assumption, because it loads the epoch before it reads.
* `ShownInTune` is about the frequency the hardware is tuned to. After a tune
  that failed, or while an Agile retune waits for its timer, the window labels
  its axis with the frequency it asked for (`ui.asked`) although samples and
  hardware are still at the old one (`center`); no caller of
  `applyCenterFrequencyToHardwareIfNeeded()` looks at its result. The model has
  both, and no property forbids it.
* The local copies of a frame the code leaves in moved-from members are reset
  to an empty frame in the model; nothing reads them.
* Clearing an empty buffer is not counted as a reset in `SpectrumPipeline`.
* RTL-SDR's native reader is cancelled by a worker like a Fobos's, but by its
  own library; `external` does not stand for it.
* `Transmitter`: the amplifier is configured on, which is the harder case; the
  simulator backend reaches no hardware. Closing the device waits for the
  library's thread, as its documentation and the code's use of it say.
* `NetworkController`: message framing is the identity on a reliable, ordered
  stream; a dead connection delivers nothing more. Only a client that is receiving
  reconnects by itself (`main.cpp:3755`), and only such clients lose their channel
  in the model; `ClientReconnects` says nothing of an idle one.
* `Starting` of the run state is set and left within one handler and not a
  state of the model.

## 7. Not modelled, and why

* **Numeric code**: FFT and GPU back ends, channelizers, demodulators, digital
  decoders (DMR, CW and others), video, GNSS correlation, hunters' detectors.
  Most of the repository's lines. They compute in one thread on floating point;
  TLA+ has nothing to say of them that a numerical test does not say better.
* **Drawing, widgets, dialogs, localisation, presets, settings files**: they copy
  values, and what they set in motion is modelled where it goes.
* **Scanning**: a step is a retune barrier, a settle time and a snapshot, the
  protocol `SpectrumPipeline` checks for live retunes; what remains is frequency
  arithmetic and assembling rows.
* **Recording**: sequential file writing in one thread, with a size that saturates
  and a header patched at stop. A unit test reaches it.
* **IQ, audio and spectrum streams of the network**: encoding, and dropping a
  frame that is incomplete; they enter the IQ buffer as untagged blocks, which
  `IqBuffer` has.
* **Vendor libraries and their wrappers**: only what the lifecycle and the
  transmitter rely on, as external definitions.
* **Of the modelled components**: live retunes inside the lifecycle, network-client
  mode and playback in its handlers, the processing mode that travels beside the
  settings, the calibration table, which clients do not send, and
  `alternativeInterfaceMode`, which an old form of the settings uses for another
  key, payload framing, the simulated transmitter, media choosers,
  out-of-memory paths.

What is modelled is a few thousand of the 110 000 lines. The share is small
because the code in which order matters is small.

## 8. Where it could go

Done, in the order in which it was planned: `IqBuffer`, `NetworkController`,
`RadioLifecycle`, `SpectrumPipeline`, `Transmitter`, `NetworkSettings`,
`AbstractIqBuffer` and `AbstractControl` with their refinements, and the theorems
of all six. Further:

1. Network-client mode and loading a recording as further sources of the
   pipeline, which clear the buffer without raising its epoch.
2. An abstract specification of the receiver's life (a run, its end, and who
   hears of it) for `RadioLifecycle` to implement.
3. The research recorder's window before and after a trigger, and the bounded
   block list of the remote audio player.
