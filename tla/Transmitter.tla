---------------------------- MODULE Transmitter ----------------------------
(***************************************************************************)
(* Transmitting with a HackRF: the dialog that starts, keys and stops a    *)
(* run (TransmitDialog, src/src/transmit/transmitdialog.cpp) and the       *)
(* backend that feeds the library (HackRfTransmitterBackend,               *)
(* src/src/transmit/hackrftransmitterbackend.cpp).                         *)
(*                                                                         *)
(* The dialog's handlers run one at a time in the UI thread.  The library  *)
(* calls fillTransfer() from a thread of its own whenever it wants samples *)
(* (FillTransfer); closing the device waits for that thread.  The sample   *)
(* queue counts in chunks of 20 ms, each tagged with the over it belongs   *)
(* to: a start or an un-muting begins a new one.  The RF amplifier is      *)
(* configured on, and the simulator, which reaches no hardware, is left    *)
(* out.  Generating, modulating and filtering samples is left out too.     *)
(***************************************************************************)
EXTENDS Integers, Sequences, SequencesExt

CONSTANTS
  Prebuffer,   \* chunks a live source collects before the stream starts
  LiveLimit,   \* limit of the queue for a live source
  FullLimit,   \* ... for any other
  Burst,       \* chunks written at once when a key is pressed or a file starts
  MaxOvers     \* bound: overs

ASSUME TransmitterAssumption ==
  /\ {Prebuffer, LiveLimit, FullLimit, Burst, MaxOvers} \subseteq Nat \ {0}
  /\ LiveLimit <= FullLimit /\ Burst <= LiveLimit

VARIABLES
  d,           \* the dialog
  b,           \* the backend with its device
  held,        \* what the user holds down: the key button, the key F12
  missed       \* a release of F12 did not reach the dialog's key (history)

vars == <<d, b, held, missed>>

\* text stands for image-sstv too: a finite waveform written at once.
Sources == {"text", "microphone", "microphone-ptt", "manual-cw", "audio-file", "image-atv"}
LiveKey == {"manual-cw", "microphone-ptt"}
Modulations == {"voice", "CW", "FT8"}

DialogType ==
  [source : Sources,        \* sourceCombo
   choosable : BOOLEAN,     \* ... is enabled
   modulation : Modulations,
   armed : BOOLEAN,         \* armCheck
   startable : BOOLEAN,     \* startButton is enabled
   active : BOOLEAN,        \* activeBackend is not null
   ptt : BOOLEAN,           \* pttMode
   keyed : BOOLEAN,         \* liveKeyPressed
   microphone : BOOLEAN,    \* audioInput
   progress : BOOLEAN,      \* progressTimer
   due : BOOLEAN,           \* its elapsed time has reached the run's limit
   ticking : BOOLEAN,       \* sourceTimer
   paused : BOOLEAN,        \* mediaPaused
   left : Nat,              \* chunks of mediaAudio after mediaPosition
   frame : BOOLEAN,         \* atvFrame is not empty
   keying : BOOLEAN]        \* the run was started to be keyed (history)

BackendType ==
  [running : BOOLEAN, streaming : BOOLEAN, outputEnabled : BOOLEAN,
   live : BOOLEAN,          \* configuration.liveSource
   queue : Seq(Nat),        \* sourceQueue after sourcePosition
   device : BOOLEAN,        \* device is open
   amplifier : BOOLEAN,     \* its RF amplifier is on
   air : BOOLEAN,           \* its library is transmitting
   over : Nat]              \* overs so far (history)

Init ==
  /\ \E source \in Sources, modulation \in Modulations :
       /\ modulation = "FT8" => source = "text"
       /\ modulation = "CW" => source \in {"text", "manual-cw"}
       /\ d = [source |-> source, choosable |-> TRUE, modulation |-> modulation,
               armed |-> FALSE, startable |-> TRUE, active |-> FALSE, ptt |-> FALSE,
               keyed |-> FALSE, microphone |-> FALSE, progress |-> FALSE, due |-> FALSE,
               ticking |-> FALSE, paused |-> FALSE, left |-> 0, frame |-> FALSE,
               keying |-> FALSE]
  /\ b = [running |-> FALSE, streaming |-> FALSE, outputEnabled |-> FALSE, live |-> FALSE,
          queue |-> <<>>, device |-> FALSE, amplifier |-> FALSE, air |-> FALSE, over |-> 0]
  /\ held = {} /\ missed = FALSE

-----------------------------------------------------------------------------
(* HackRfTransmitterBackend.  Where a call of the library may fail, "works" *)
(* says whether it does.                                                    *)

\* A command to the amplifier is lost without an open device, and closing the
\* device does not switch it.
Amplifier(h, on) == IF h.device THEN [h EXCEPT !.amplifier = on] ELSE h
CloseDevice(h) == [h EXCEPT !.device = FALSE, !.air = FALSE]

\* stop(), which start() begins with
MutantStop(h) ==
  [Amplifier(CloseDevice(h), FALSE)
     EXCEPT !.streaming = FALSE, !.running = FALSE, !.queue = <<>>]
Stopped(h) ==
  [CloseDevice(Amplifier(h, FALSE))
     EXCEPT !.streaming = FALSE, !.running = FALSE, !.queue = <<>>]

\* start(): any failure after the checks of the arguments closes the device.
Started(h, live, works) ==
  [Stopped(h) EXCEPT !.live = live, !.outputEnabled = TRUE, !.over = @ + 1,
                     !.running = works, !.device = works]

\* beginStreaming() when the library refuses: the amplifier is on already.
Refused(h) == [CloseDevice(Amplifier(h, FALSE)) EXCEPT !.running = FALSE]

\* beginStreaming()
BeginStreaming(h, works) ==
  LET on == Amplifier(h, TRUE)
  IN  IF works THEN [on EXCEPT !.air = TRUE, !.streaming = TRUE] ELSE Refused(on)

Limit(h) == IF h.live THEN LiveLimit ELSE FullLimit
MutantFits(h, n) == Len(h.queue) <= Limit(h)
Fits(h, n) == Len(h.queue) + n <= Limit(h)
Appended(h, n) == [h EXCEPT !.queue = @ \o [i \in 1 .. n |-> h.over]]
Prebuffered(h) == ~ h.live \/ Len(h.queue) >= Prebuffer

\* writeIq() of n chunks: whether it returns true, and the backend after it
WriteIq(h, n, works) ==
  IF ~ h.running THEN [ok |-> FALSE, h |-> h]
  ELSE IF ~ h.outputEnabled THEN [ok |-> TRUE, h |-> h]
  ELSE IF ~ Fits(h, n) THEN [ok |-> FALSE, h |-> h]
  ELSE LET full == Appended(h, n)
       IN  IF full.streaming \/ ~ Prebuffered(full) THEN [ok |-> TRUE, h |-> full]
           ELSE [ok |-> works, h |-> BeginStreaming(full, works)]

\* Un-muting begins an over.
NextOver(h) == IF h.outputEnabled THEN h.over ELSE h.over + 1

MutantSetOutputEnabled(h, on) ==
  IF on THEN [h EXCEPT !.outputEnabled = TRUE, !.over = NextOver(h)]
  ELSE [Amplifier(h, FALSE)
          EXCEPT !.outputEnabled = FALSE, !.streaming = FALSE, !.air = @ /\ ~ h.streaming]
MutantMuted(h, on) ==
  IF on THEN [h EXCEPT !.outputEnabled = TRUE, !.over = NextOver(h)]
  ELSE [h EXCEPT !.outputEnabled = FALSE, !.queue = <<>>]
\* setOutputEnabled() of a backend that runs
SetOutputEnabled(h, on) ==
  IF on THEN [h EXCEPT !.outputEnabled = TRUE, !.over = NextOver(h)]
  ELSE [Amplifier(h, FALSE)
          EXCEPT !.outputEnabled = FALSE, !.streaming = FALSE,
                 !.air = @ /\ ~ h.streaming, !.queue = <<>>]

\* fillTransfer(): the library takes some of what is queued, and zeros for
\* what is missing.
FillTransfer ==
  /\ b.air
  /\ \E n \in 1 .. Len(b.queue) : b' = [b EXCEPT !.queue = SubSeq(@, n + 1, Len(@))]
  /\ UNCHANGED <<d, held, missed>>

\* The device stops by itself: it was unplugged, or ran dry too often.
LibraryStops ==
  /\ b.air
  /\ b' = [b EXCEPT !.air = FALSE]
  /\ UNCHANGED <<d, held, missed>>

-----------------------------------------------------------------------------
(* TransmitDialog.  A handler takes the dialog and the backend together     *)
(* through its calls: s.d and s.b.                                          *)

Becomes(s) ==
  /\ d' = s.d /\ b' = s.b
  /\ missed' = (missed /\ s.d.keyed)

\* stopTransmission()
StopTransmission(s) ==
  [d |-> [s.d EXCEPT !.active = FALSE, !.progress = FALSE, !.ticking = FALSE,
                     !.microphone = FALSE, !.keyed = FALSE, !.ptt = FALSE, !.paused = FALSE,
                     !.left = 0, !.frame = FALSE, !.startable = TRUE, !.choosable = TRUE],
   b |-> Stopped(s.b)]

\* A write of a source that runs; one that fails ends the run.
Written(s, n, works) ==
  LET w == WriteIq(s.b, n, works)
  IN  IF w.ok THEN [s EXCEPT !.b = w.h] ELSE StopTransmission([s EXCEPT !.b = w.h])

\* processLiveSource(), n times
ProcessLiveSource(s, n, works) ==
  IF s.d.paused \/ ~ s.d.active \/ ~ s.b.running THEN s
  ELSE CASE s.d.source = "manual-cw" /\ s.d.keyed -> Written(s, n, works)
         [] s.d.source = "audio-file" ->
              IF s.d.left < n THEN StopTransmission(s)
              ELSE Written([s EXCEPT !.d.left = @ - n], n, works)
         [] s.d.source = "image-atv" /\ s.d.frame -> Written(s, n, works)
         [] OTHER -> s

SourceTimer ==
  /\ d.ticking
  /\ \E works \in BOOLEAN : Becomes(ProcessLiveSource([d |-> d, b |-> b], 1, works))
  /\ UNCHANGED held

\* readMicrophone()
ReadMicrophone ==
  /\ d.microphone /\ d.active /\ b.running
  /\ d.ptt => d.keyed
  /\ \E works \in BOOLEAN : Becomes(Written([d |-> d, b |-> b], 1, works))
  /\ UNCHANGED held

\* setLiveKey()
SetLiveKey(s, pressed, works) ==
  IF pressed = s.d.keyed \/ ~ s.d.active \/ ~ s.b.running THEN s
  ELSE LET set == [d |-> [s.d EXCEPT !.keyed = pressed],
                   b |-> SetOutputEnabled(s.b, pressed)]
       IN  IF s.d.source # "manual-cw" THEN set
           ELSE IF pressed
                THEN [ProcessLiveSource(set, Burst, works) EXCEPT !.d.ticking = TRUE]
                ELSE [set EXCEPT !.d.ticking = FALSE]

\* The part of every start that is common: the watchdog is on.
MutantGoing(k) == [k EXCEPT !.due = FALSE, !.startable = FALSE, !.choosable = FALSE]
Going(k) ==
  [k EXCEPT !.progress = TRUE, !.due = FALSE, !.startable = FALSE, !.choosable = FALSE]

\* A start that failed: the output is to be armed again.
Unarmed(s) == [d |-> [s.d EXCEPT !.armed = FALSE], b |-> Stopped(s.b)]

\* startTextSimulation(), and SSTV of startImageTransmission()
StartText(s, n, opens, works) ==
  LET w == WriteIq(Started(s.b, FALSE, opens), n, works)
  IN  IF w.ok THEN [d |-> Going(s.d), b |-> w.h] ELSE Unarmed([s EXCEPT !.b = w.h])

\* startMicrophoneSimulation(): with push-to-talk it starts muted.
StartMicrophone(s, opens, works) ==
  LET h == Started(s.b, TRUE, opens)
      ready == IF s.d.ptt THEN SetOutputEnabled(h, FALSE) ELSE h
  IN  IF opens /\ works THEN [d |-> [Going(s.d) EXCEPT !.microphone = TRUE], b |-> ready]
      ELSE Unarmed([s EXCEPT !.b = h])

\* startManualCw(): it starts muted, and leaves mediaPaused as it is.
StartManualCw(s, opens) ==
  LET h == Started(s.b, FALSE, opens)
  IN  IF opens THEN [d |-> Going(s.d), b |-> SetOutputEnabled(h, FALSE)]
      ELSE Unarmed([s EXCEPT !.b = h])

\* startAudioFile() with n chunks, and startImageTransmission() for ATV: the
\* latter does not notice that writing the first frames has ended the run.
StartMedia(s, n, opens, works) ==
  LET audio == s.d.source = "audio-file"
      begun == [d |-> [s.d EXCEPT !.left = IF audio THEN n ELSE 0, !.frame = ~ audio,
                                  !.paused = FALSE, !.progress = TRUE, !.due = FALSE],
                b |-> Started(s.b, TRUE, opens)]
      filled == ProcessLiveSource(begun, Burst, works)
  IN  IF ~ opens THEN Unarmed([s EXCEPT !.b = begun.b])
      ELSE IF audio /\ ~ filled.b.running THEN filled
      ELSE [filled EXCEPT !.d = [@ EXCEPT !.ticking = TRUE, !.startable = FALSE,
                                          !.choosable = FALSE]]

\* startTransmission(): ready says whether there is something to transmit.
StartTransmission(s, n, ready, opens, works) ==
  LET called == [s EXCEPT !.d.active = TRUE]
      going == [called EXCEPT !.d = [@ EXCEPT !.ptt = s.d.source = "microphone-ptt",
                                              !.keying = s.d.source \in LiveKey]]
  IN  IF ~ s.d.armed THEN called
      ELSE IF ~ ready THEN [going EXCEPT !.d.armed = @ /\ s.d.source # "text"]
      ELSE CASE s.d.source = "text" -> StartText(going, n, opens, works)
             [] s.d.source = "manual-cw" -> StartManualCw(going, opens)
             [] s.d.source \in {"microphone", "microphone-ptt"} ->
                  StartMicrophone(going, opens, works)
             [] OTHER -> StartMedia(going, n, opens, works)

\* The user clicks Start, or the key or Play button, which start too.
UserStart ==
  /\ d.startable \/ d.source \in LiveKey \cup {"audio-file", "image-atv"}
  /\ ~ (d.active /\ b.running) /\ "button" \notin held
  /\ b.over < MaxOvers
  /\ \E n \in {1, Burst, FullLimit + 1}, ready, opens, works \in BOOLEAN :
       Becomes(StartTransmission([d |-> d, b |-> b], n, ready, opens, works))
  /\ UNCHANGED held

\* Stop, or closeEvent(), which also takes the arming back.
UserStop ==
  /\ d.active
  /\ \E armed \in {d.armed, FALSE} :
       Becomes(StopTransmission([d |-> [d EXCEPT !.armed = armed], b |-> b]))
  /\ UNCHANGED held

\* updateProgress(): the waveform has been played, or the watchdog's time is up.
UpdateProgress ==
  /\ d.progress
  /\ IF ~ d.active \/ ~ b.running
     THEN Becomes([d |-> [d EXCEPT !.progress = FALSE], b |-> b])
     ELSE d.due /\ Becomes(StopTransmission([d |-> d, b |-> b]))
  /\ UNCHANGED held

TimePasses ==
  /\ d.progress /\ ~ d.due
  /\ d' = [d EXCEPT !.due = TRUE]
  /\ UNCHANGED <<b, held, missed>>

Pause ==
  /\ d.source \in {"audio-file", "image-atv"}
  /\ d' = [d EXCEPT !.paused = TRUE, !.ticking = FALSE]
  /\ UNCHANGED <<b, held, missed>>

Play ==
  /\ d.source \in {"audio-file", "image-atv"}
  /\ d.active /\ b.running
  /\ d' = [d EXCEPT !.paused = FALSE, !.ticking = TRUE]
  /\ UNCHANGED <<b, held, missed>>

Arm ==
  /\ d' = [d EXCEPT !.armed = ~ @]
  /\ UNCHANGED <<b, held, missed>>

\* updateModeUi(): it lets the user choose a source even during a run.
UpdateModeUi(k) ==
  LET textOnly == \/ k.modulation = "FT8"
                  \/ k.modulation = "CW" /\ k.source # "manual-cw"
  IN  [k EXCEPT !.choosable = TRUE, !.source = IF textOnly THEN "text" ELSE @]

SelectMode ==
  /\ "button" \notin held   \* it loses the focus, and is released, before
  /\ \/ \E modulation \in Modulations : d' = UpdateModeUi([d EXCEPT !.modulation = modulation])
     \/ /\ d.choosable
        /\ \E source \in Sources : d' = UpdateModeUi([d EXCEPT !.source = source])
  /\ UNCHANGED <<b, held, missed>>

-----------------------------------------------------------------------------
(* The key: liveKeyButton while it is pressed, or F12 through eventFilter() *)

\* An event of F12 is filtered only while a source with a key is selected, and
\* (inside) only if a widget of the dialog receives it.
Filtered(inside) == inside /\ d.source \in LiveKey

PressKey(key) ==
  /\ key \notin held /\ b.over < MaxOvers
  /\ key = "button" => d.source \in LiveKey
  /\ \E works, inside \in BOOLEAN :
       Becomes(IF key = "button" \/ Filtered(inside)
               THEN SetLiveKey([d |-> d, b |-> b], TRUE, works)
               ELSE [d |-> d, b |-> b])
  /\ held' = held \cup {key}

ReleaseKey(key) ==
  /\ key \in held
  /\ held' = held \ {key}
  /\ \E inside \in BOOLEAN :
       IF key = "button" \/ Filtered(inside)
       THEN Becomes(SetLiveKey([d |-> d, b |-> b], FALSE, TRUE))
       ELSE missed' = d.keyed /\ UNCHANGED <<d, b>>

\* The dialog's window is deactivated while a key is down.
WindowDeactivate ==
  /\ Filtered(TRUE) /\ d.keyed
  /\ Becomes(SetLiveKey([d |-> d, b |-> b], FALSE, TRUE))
  /\ UNCHANGED held

-----------------------------------------------------------------------------
Next ==
  \/ FillTransfer \/ LibraryStops
  \/ SourceTimer \/ ReadMicrophone \/ UpdateProgress \/ TimePasses
  \/ UserStart \/ UserStop \/ Pause \/ Play \/ Arm \/ SelectMode
  \/ \E key \in {"button", "F12"} : PressKey(key) \/ ReleaseKey(key)
  \/ WindowDeactivate

Spec == Init /\ [][Next]_vars

\* Time passes, and an armed timer of an event loop fires.
Fairness == WF_vars(TimePasses) /\ WF_vars(UpdateProgress)
FairSpec == Spec /\ Fairness

-----------------------------------------------------------------------------
(* Properties *)

\* Every field is of its type, and the queue never exceeds the limit of its
\* kind of source.
TypeOK ==
  /\ d \in DialogType
  /\ b \in BackendType
  /\ held \subseteq {"button", "F12"} /\ missed \in BOOLEAN
  /\ Len(b.queue) <= Limit(b)

\* Nothing said before the key was last released, or before the last stop, is
\* transmitted later: all that is queued belongs to the current over, and a
\* muted backend has nothing queued.
NothingStale ==
  /\ \A i \in 1 .. Len(b.queue) : b.queue[i] = b.over
  /\ ~ b.outputEnabled => b.queue = <<>>

\* A run that is keyed transmits only while the user holds the key, or after a
\* release of F12 that did not reach the dialog with a keyed source selected.
CarrierFollowsKey ==
  d.keying /\ (b.air \/ b.amplifier) => held # {} \/ missed

\* The RF amplifier is on only while the backend streams to an open device: it
\* is off before every close, and off whenever the output is muted.
AmplifierOff == b.amplifier => b.device /\ b.running /\ b.streaming

\* Every run ends: if nobody stops it, the waveform's end or the watchdog does,
\* whatever keys, sources and failures come between.
RunEnds == b.running ~> ~ b.running

=============================================================================
