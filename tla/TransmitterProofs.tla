-------------------------- MODULE TransmitterProofs --------------------------
(***************************************************************************)
(* What Transmitter promises for every size of the sample queue.           *)
(***************************************************************************)
EXTENDS Transmitter, SequenceTheorems, TLAPS

\* What the backend keeps true through every call: it streams only while it
\* runs un-muted, the library transmits only while it streams, the amplifier
\* is off otherwise, and only samples of the current over wait.
Good(h) ==
  /\ h \in BackendType
  /\ Len(h.queue) <= Limit(h)
  /\ h.running => h.device
  /\ h.streaming => h.running /\ h.outputEnabled
  /\ h.air => h.streaming
  /\ h.amplifier => h.device /\ h.running /\ h.streaming
  /\ \A i \in 1 .. Len(h.queue) : h.queue[i] = h.over
  /\ ~ h.outputEnabled => h.queue = <<>>

\* Dialog and backend as a handler passes them on.
State == [d : DialogType, b : BackendType]

\* Nothing runs that the dialog does not know of and whose progress timer is
\* not on.
Fit(s) == s \in State /\ Good(s.b) /\ (s.b.running => s.d.active /\ s.d.progress)

\* A run that was started to be keyed sends what it is given.
Live(s) == s.d.keying /\ s.b.running /\ s.b.outputEnabled

\* One state follows another without anything being keyed.
Tamer(t, s) == Fit(t) /\ (Live(t) => Live(s) /\ t.d.keyed = s.d.keyed)

LEMMA Limits ==
  /\ Prebuffer \in Nat /\ LiveLimit \in Nat /\ FullLimit \in Nat /\ Burst \in Nat
  /\ MaxOvers \in Nat
BY TransmitterAssumption

-----------------------------------------------------------------------------
(* The backend *)

LEMMA EmptyQueue == <<>> \in Seq(Nat) /\ Len(<<>>) = 0
OBVIOUS

LEMMA StoppedGood ==
  ASSUME NEW h, Good(h)
  PROVE  /\ Good(Stopped(h)) /\ ~ Stopped(h).running /\ Stopped(h).over = h.over
         /\ Stopped(h).outputEnabled = h.outputEnabled
<1>1. h \in BackendType /\ (h.amplifier => h.device)
  BY DEF Good
<1> DEFINE off == Amplifier(h, FALSE)
<1>2. /\ off \in BackendType /\ ~ off.amplifier
      /\ off.outputEnabled = h.outputEnabled /\ off.over = h.over
  BY <1>1 DEF Amplifier, BackendType
<1> HIDE DEF off
<1> DEFINE shut == CloseDevice(off)
<1>3. /\ shut \in BackendType /\ ~ shut.amplifier /\ ~ shut.air
      /\ shut.outputEnabled = h.outputEnabled /\ shut.over = h.over
  BY <1>2 DEF CloseDevice, BackendType
<1> HIDE DEF shut
<1> DEFINE t == [shut EXCEPT !.streaming = FALSE, !.running = FALSE, !.queue = <<>>]
<1>4. /\ t \in BackendType /\ ~ t.amplifier /\ ~ t.air /\ ~ t.streaming /\ ~ t.running
      /\ t.queue = <<>> /\ t.outputEnabled = h.outputEnabled /\ t.over = h.over
  BY <1>3, EmptyQueue DEF BackendType
<1>5. t = Stopped(h)
  BY DEF Stopped, shut, off
<1> HIDE DEF t
<1>6. Good(t)
  BY <1>4, EmptyQueue, Limits DEF Good, Limit
<1>7. QED BY <1>4, <1>5, <1>6

LEMMA StartedGood ==
  ASSUME NEW h, Good(h), NEW live \in BOOLEAN, NEW works \in BOOLEAN
  PROVE  /\ Good(Started(h, live, works)) /\ Started(h, live, works).running = works
<1> DEFINE g == Stopped(h)
           t == [g EXCEPT !.live = live, !.outputEnabled = TRUE, !.over = @ + 1,
                          !.running = works, !.device = works]
<1>1. Good(g) /\ ~ g.running /\ g \in BackendType
  BY StoppedGood DEF Good
<1>2. g.queue = <<>>
  BY DEF Stopped, CloseDevice, Amplifier, Good, BackendType
<1>3. ~ g.streaming /\ ~ g.air /\ ~ g.amplifier
  BY <1>1 DEF Good
<1>4. t = Started(h, live, works)
  BY DEF Started
<1> HIDE DEF g
<1>5. /\ t \in BackendType /\ ~ t.amplifier /\ ~ t.air /\ ~ t.streaming
      /\ t.running = works /\ t.device = works /\ t.queue = <<>> /\ t.outputEnabled
  <2>1. g.over + 1 \in Nat
    BY <1>1 DEF BackendType
  <2>2. QED BY <1>1, <1>2, <1>3, <2>1 DEF BackendType
<1> HIDE DEF t
<1>6. Good(t)
  BY <1>5, EmptyQueue, Limits DEF Good, Limit
<1>7. QED BY <1>4, <1>5, <1>6

\* What writing leaves alone: it neither starts a run nor un-mutes one.
LEMMA WriteGood ==
  ASSUME NEW h, Good(h), NEW n \in Nat, NEW works \in BOOLEAN
  PROVE  /\ Good(WriteIq(h, n, works).h) /\ WriteIq(h, n, works).ok \in BOOLEAN
         /\ WriteIq(h, n, works).h.outputEnabled = h.outputEnabled
         /\ WriteIq(h, n, works).h.running => h.running
<1> DEFINE w == WriteIq(h, n, works)
           full == Appended(h, n)
<1>0. h \in BackendType
  BY DEF Good
<1>1. CASE ~ h.running \/ ~ h.outputEnabled \/ ~ Fits(h, n)
  BY <1>1 DEF WriteIq
<1>2. CASE h.running /\ h.outputEnabled /\ Fits(h, n)
  <2> DEFINE new == [i \in 1 .. n |-> h.over]
             q == h.queue \o new
  <2>1. /\ h.queue \in Seq(Nat) /\ new \in Seq(Nat) /\ Len(new) = n
        /\ Len(h.queue) \in Nat /\ h.over \in Nat
    BY <1>0 DEF BackendType
  <2>2. /\ q \in Seq(Nat) /\ Len(q) = Len(h.queue) + n
        /\ \A i \in 1 .. Len(h.queue) + n :
             q[i] = IF i <= Len(h.queue) THEN h.queue[i] ELSE new[i - Len(h.queue)]
    <3> HIDE DEF new
    <3>1. QED BY <2>1, ConcatProperties
  <2>3. ASSUME NEW i \in 1 .. Len(q) PROVE q[i] = h.over
    <3>1. CASE i <= Len(h.queue)
      <4>1. i \in 1 .. Len(h.queue)
        BY <2>1, <2>2, <3>1
      <4>2. QED BY <2>2, <3>1, <4>1 DEF Good
    <3>2. CASE ~ (i <= Len(h.queue))
      <4>1. i - Len(h.queue) \in 1 .. n
        BY <2>1, <2>2, <3>2
      <4>2. q[i] = new[i - Len(h.queue)]
        BY <2>2, <3>2
      <4> HIDE DEF q
      <4>3. QED BY <4>1, <4>2
    <3>3. QED BY <3>1, <3>2
  <2>4. Len(q) <= Limit(h)
    BY <1>2, <2>2 DEF Fits
  <2> HIDE DEF q, new
  <2>5. full = [h EXCEPT !.queue = q]
    BY DEF Appended, q, new
  <2>6. /\ full \in BackendType /\ full.queue = q /\ full.running /\ full.outputEnabled
        /\ full.device /\ full.live = h.live /\ full.over = h.over
        /\ full.streaming = h.streaming /\ full.air = h.air
        /\ full.amplifier = h.amplifier
    BY <1>0, <1>2, <2>2, <2>5 DEF Good, BackendType
  <2> HIDE DEF full
  <2>7. Good(full)
    <3>1. Limit(full) = Limit(h)
      BY <2>6 DEF Limit
    <3>2. /\ h.air => h.streaming
          /\ h.amplifier => h.device /\ h.running /\ h.streaming
      BY DEF Good
    <3>3. /\ full.air => full.streaming
          /\ full.amplifier => full.device /\ full.running /\ full.streaming
      BY <2>6, <3>2
    <3>4. QED BY <2>3, <2>4, <2>6, <3>1, <3>3 DEF Good
  <2>8. CASE full.streaming \/ ~ Prebuffered(full)
    <3>1. w.ok = TRUE /\ w.h = full
      BY <1>2, <2>8 DEF WriteIq, full
    <3> HIDE DEF w
    <3>2. QED BY <1>2, <2>6, <2>7, <3>1 DEF w
  <2>9. CASE ~ full.streaming /\ Prebuffered(full)
    <3>1. w.ok = works /\ w.h = BeginStreaming(full, works)
      BY <1>2, <2>9 DEF WriteIq, full
    <3> DEFINE on == [full EXCEPT !.amplifier = TRUE]
    <3>2. Amplifier(full, TRUE) = on
      BY <2>6 DEF Amplifier
    <3>3. CASE works
      <4> DEFINE t == [on EXCEPT !.air = TRUE, !.streaming = TRUE]
      <4>1. BeginStreaming(full, works) = t
        BY <3>2, <3>3 DEF BeginStreaming
      <4>2. /\ t \in BackendType /\ t.queue = q /\ t.running /\ t.outputEnabled
            /\ t.device /\ t.over = h.over /\ t.streaming /\ t.live = h.live
        BY <2>6 DEF BackendType
      <4> HIDE DEF t
      <4>3. Limit(t) = Limit(h)
        BY <4>2 DEF Limit
      <4>4. Good(t)
        BY <2>3, <2>4, <4>2, <4>3 DEF Good
      <4> HIDE DEF w
      <4>5. QED BY <1>2, <3>1, <3>3, <4>1, <4>2, <4>4 DEF w
    <3>4. CASE ~ works
      <4> DEFINE t == [full EXCEPT !.amplifier = FALSE, !.device = FALSE, !.air = FALSE,
                                   !.running = FALSE]
      <4>1. BeginStreaming(full, works) = t
        <5>1. BeginStreaming(full, works) = Refused(on)
          BY <3>2, <3>4 DEF BeginStreaming
        <5>2. Amplifier(on, FALSE) = [full EXCEPT !.amplifier = FALSE]
          BY <2>6 DEF Amplifier, BackendType
        <5>3. QED BY <2>6, <5>1, <5>2 DEF Refused, CloseDevice, BackendType
      <4>2. /\ t \in BackendType /\ t.queue = q /\ ~ t.running /\ t.outputEnabled
            /\ ~ t.amplifier /\ ~ t.air
            /\ ~ t.streaming /\ t.over = h.over /\ t.live = h.live
        BY <2>6, <2>9 DEF BackendType
      <4> HIDE DEF t
      <4>3. Limit(t) = Limit(h)
        BY <4>2 DEF Limit
      <4>4. Good(t)
        BY <2>3, <2>4, <4>2, <4>3 DEF Good
      <4> HIDE DEF w
      <4>5. QED BY <1>2, <3>1, <3>4, <4>1, <4>2, <4>4 DEF w
    <3>5. QED BY <3>3, <3>4
  <2>10. QED BY <2>8, <2>9
<1>3. QED BY <1>1, <1>2

LEMMA OutputGood ==
  ASSUME NEW h, Good(h), NEW on \in BOOLEAN
  PROVE  /\ Good(SetOutputEnabled(h, on))
         /\ SetOutputEnabled(h, on).outputEnabled = on
         /\ SetOutputEnabled(h, on).running = h.running
<1>0. h \in BackendType
  BY DEF Good
<1>1. CASE on
  <2> DEFINE t == [h EXCEPT !.outputEnabled = TRUE, !.over = NextOver(h)]
  <2>1. t = SetOutputEnabled(h, on)
    BY <1>1 DEF SetOutputEnabled
  <2>2. /\ t \in BackendType /\ t.outputEnabled /\ t.queue = h.queue /\ t.live = h.live
        /\ t.running = h.running /\ t.streaming = h.streaming /\ t.device = h.device
        /\ t.air = h.air /\ t.amplifier = h.amplifier /\ t.over = NextOver(h)
    <3>1. NextOver(h) \in Nat
      BY <1>0 DEF NextOver, BackendType
    <3>2. QED BY <1>0, <3>1 DEF BackendType
  <2> HIDE DEF t
  <2>3. \A i \in 1 .. Len(t.queue) : t.queue[i] = t.over
    <3>1. CASE h.outputEnabled
      BY <2>2, <3>1 DEF Good, NextOver
    <3>2. CASE ~ h.outputEnabled
      <4>1. Len(t.queue) = 0
        BY <2>2, <3>2, EmptyQueue DEF Good
      <4>2. QED BY <4>1
    <3>3. QED BY <3>1, <3>2
  <2>4. Limit(t) = Limit(h)
    BY <2>2 DEF Limit
  <2>5. /\ Len(t.queue) <= Limit(t) /\ (t.running => t.device)
        /\ (t.streaming => t.running) /\ (t.air => t.streaming)
        /\ (t.amplifier => t.device /\ t.running /\ t.streaming)
    BY <2>2, <2>4 DEF Good
  <2>6. Good(t)
    BY <2>2, <2>3, <2>5 DEF Good
  <2>7. on = TRUE /\ t.outputEnabled = TRUE
    BY <1>1, <2>2 DEF BackendType
  <2>8. QED BY <2>1, <2>2, <2>6, <2>7
<1>2. CASE ~ on
  <2> DEFINE off == Amplifier(h, FALSE)
             t == [off EXCEPT !.outputEnabled = FALSE, !.streaming = FALSE,
                              !.air = @ /\ ~ h.streaming, !.queue = <<>>]
  <2>1. t = SetOutputEnabled(h, on)
    BY <1>2 DEF SetOutputEnabled
  <2>2. /\ off \in BackendType /\ ~ off.amplifier /\ off.running = h.running
        /\ off.air = h.air /\ off.device = h.device
    BY <1>0 DEF Amplifier, Good, BackendType
  <2> HIDE DEF off
  <2>3. (h.air => h.streaming) /\ (h.running => h.device)
    BY DEF Good
  <2>4. /\ t \in BackendType /\ ~ t.outputEnabled /\ ~ t.streaming /\ ~ t.amplifier
        /\ t.queue = <<>> /\ t.running = h.running /\ t.device = h.device /\ ~ t.air
    BY <2>2, <2>3, EmptyQueue DEF BackendType
  <2> HIDE DEF t
  <2>5. Good(t)
    BY <2>3, <2>4, EmptyQueue, Limits DEF Good, Limit
  <2>6. on = FALSE /\ t.outputEnabled = FALSE
    BY <1>2, <2>4 DEF BackendType
  <2>7. QED BY <2>1, <2>4, <2>5, <2>6
<1>3. QED BY <1>1, <1>2

-----------------------------------------------------------------------------
(* The dialog *)

\* A pair of dialog and backend is made of its two halves.
LEMMA Halves ==
  ASSUME NEW k \in DialogType, NEW h, Good(h), h.running => k.active /\ k.progress
  PROVE  Fit([d |-> k, b |-> h])
BY DEF Fit, State, Good

LEMMA StopTamer ==
  ASSUME NEW s \in State, Good(s.b)
  PROVE  /\ Fit(StopTransmission(s)) /\ ~ StopTransmission(s).b.running
         /\ \A u : Tamer(StopTransmission(s), u)
<1> DEFINE k == [s.d EXCEPT !.active = FALSE, !.progress = FALSE, !.ticking = FALSE,
                     !.microphone = FALSE, !.keyed = FALSE, !.ptt = FALSE, !.paused = FALSE,
                     !.left = 0, !.frame = FALSE, !.startable = TRUE, !.choosable = TRUE]
           t == [d |-> k, b |-> Stopped(s.b)]
<1>1. k \in DialogType
  BY DEF State, DialogType
<1>2. Good(Stopped(s.b)) /\ ~ Stopped(s.b).running
  BY StoppedGood
<1>3. t = StopTransmission(s)
  BY DEF StopTransmission
<1> HIDE DEF k
<1>4. Fit(t) /\ ~ t.b.running
  BY <1>1, <1>2, Halves
<1> HIDE DEF t
<1>5. QED BY <1>3, <1>4 DEF Tamer, Live

LEMMA TamerSelf ==
  ASSUME NEW s, Fit(s)
  PROVE  Tamer(s, s)
BY DEF Tamer

LEMMA TamerChain ==
  ASSUME NEW s, NEW t, NEW u, Tamer(t, s), Tamer(u, t)
  PROVE  Tamer(u, s)
BY DEF Tamer

\* Changing the dialog's other fields keys nothing.
LEMMA DialogTamer ==
  ASSUME NEW s, Fit(s), NEW k \in DialogType,
         k.active = s.d.active, k.keyed = s.d.keyed, k.keying = s.d.keying,
         s.b.running => k.progress
  PROVE  Tamer([d |-> k, b |-> s.b], s)
<1>1. Fit([d |-> k, b |-> s.b])
  BY Halves DEF Fit
<1>2. QED BY <1>1 DEF Tamer, Live

LEMMA WrittenTamer ==
  ASSUME NEW s, Fit(s), NEW n \in Nat, NEW works \in BOOLEAN
  PROVE  Tamer(Written(s, n, works), s)
<1> DEFINE w == WriteIq(s.b, n, works)
           t == [s EXCEPT !.b = w.h]
<1>1. /\ Good(w.h) /\ (w.h.running => s.b.running)
      /\ w.h.outputEnabled = s.b.outputEnabled
  BY WriteGood DEF Fit
<1> HIDE DEF w
<1>2. t = [d |-> s.d, b |-> w.h] /\ s.d \in DialogType /\ (s.b.running => s.d.active /\ s.d.progress)
  BY DEF Fit, State
<1>3. Fit(t)
  BY <1>1, <1>2, Halves
<1>4. Tamer(t, s)
  BY <1>1, <1>2, <1>3 DEF Tamer, Live
<1>5. Tamer(StopTransmission(t), s)
  BY <1>3, StopTamer DEF Fit
<1>6. Written(s, n, works) \in {t, StopTransmission(t)}
  BY DEF Written, w
<1> HIDE DEF t
<1>7. QED BY <1>4, <1>5, <1>6

LEMMA SourceTamer ==
  ASSUME NEW s, Fit(s), NEW n \in Nat, NEW works \in BOOLEAN
  PROVE  Tamer(ProcessLiveSource(s, n, works), s)
<1>1. Tamer(s, s) /\ Tamer(Written(s, n, works), s)
  BY TamerSelf, WrittenTamer
<1>2. Tamer(StopTransmission(s), s)
  BY StopTamer DEF Fit
<1>3. ASSUME ~ (s.d.left < n)
      PROVE  Tamer(Written([s EXCEPT !.d.left = @ - n], n, works), s)
  <2> DEFINE k == [s.d EXCEPT !.left = @ - n]
             t == [d |-> k, b |-> s.b]
  <2>0. s.d \in DialogType /\ s \in State
    BY DEF Fit, State
  <2>1. s.d.left - n \in Nat
    BY <1>3, <2>0 DEF DialogType
  <2>2. /\ k \in DialogType /\ k.active = s.d.active
        /\ k.keyed = s.d.keyed /\ k.keying = s.d.keying /\ k.progress = s.d.progress
    BY <2>0, <2>1 DEF DialogType
  <2>3. [s EXCEPT !.d.left = @ - n] = t
    BY <2>0 DEF State
  <2> HIDE DEF k
  <2>4. Tamer(t, s)
    BY <2>2, DialogTamer DEF Fit
  <2> HIDE DEF t
  <2>5. Tamer(Written(t, n, works), t)
    BY <2>4, WrittenTamer DEF Tamer
  <2>6. QED BY <2>3, <2>4, <2>5, TamerChain
<1>4. QED BY <1>1, <1>2, <1>3 DEF ProcessLiveSource

\* Pressing or releasing a key: what is live afterwards is keyed, and a
\* release leaves nothing live.
LEMMA KeyFit ==
  ASSUME NEW s, Fit(s), Live(s) => s.d.keyed, NEW pressed \in BOOLEAN, NEW works \in BOOLEAN
  PROVE  LET t == SetLiveKey(s, pressed, works)
         IN  Fit(t) /\ (Live(t) => t.d.keyed /\ pressed)
<1>0. s \in State /\ s.d \in DialogType /\ Good(s.b)
  BY DEF Fit, State
<1>1. CASE pressed = s.d.keyed \/ ~ s.d.active \/ ~ s.b.running
  <2>1. SetLiveKey(s, pressed, works) = s
    BY <1>1 DEF SetLiveKey
  <2>2. Live(s) => s.d.keyed /\ pressed
    BY <1>1 DEF Live, Fit
  <2>3. QED BY <2>1, <2>2
<1>2. CASE ~ (pressed = s.d.keyed \/ ~ s.d.active \/ ~ s.b.running)
  <2> DEFINE k == [s.d EXCEPT !.keyed = pressed]
             h == SetOutputEnabled(s.b, pressed)
             set == [d |-> k, b |-> h]
             run == ProcessLiveSource(set, Burst, works)
             on == [run EXCEPT !.d.ticking = TRUE]
             off == [set EXCEPT !.d.ticking = FALSE]
  <2>1. k \in DialogType /\ k.active /\ k.progress /\ k.keyed = pressed
    BY <1>0, <1>2 DEF DialogType, Fit
  <2>2. Good(h) /\ h.outputEnabled = pressed /\ h.running = s.b.running
    BY <1>0, OutputGood
  <2>3. SetLiveKey(s, pressed, works) =
          IF s.d.source # "manual-cw" THEN set ELSE IF pressed THEN on ELSE off
    BY <1>2 DEF SetLiveKey
  <2> HIDE DEF k, h
  <2>4. Fit(set) /\ (Live(set) => set.d.keyed /\ pressed)
    BY <2>1, <2>2, Halves DEF Live
  <2>5. ASSUME NEW u, Fit(u), NEW b0 \in BOOLEAN
        PROVE  Tamer([u EXCEPT !.d.ticking = b0], u)
    <3> DEFINE v == [u.d EXCEPT !.ticking = b0]
    <3>1. u \in State /\ u.d \in DialogType
      BY <2>5 DEF Fit, State
    <3>2. v \in DialogType /\ v.active = u.d.active /\ v.keyed = u.d.keyed
          /\ v.keying = u.d.keying /\ v.progress = u.d.progress
      BY <3>1 DEF DialogType
    <3>3. [u EXCEPT !.d.ticking = b0] = [d |-> v, b |-> u.b]
      BY <3>1 DEF State
    <3> HIDE DEF v
    <3>4. QED BY <2>5, <3>2, <3>3, DialogTamer DEF Fit
  <2> HIDE DEF set
  <2>6. Tamer(run, set)
    BY <2>4, SourceTamer, Limits
  <2> HIDE DEF run
  <2>7. Tamer(on, run) /\ Tamer(off, set)
    BY <2>4, <2>5, <2>6 DEF Tamer
  <2>8. Tamer(on, set)
    BY <2>6, <2>7, TamerChain
  <2> HIDE DEF on, off
  <2>9. QED BY <2>3, <2>4, <2>7, <2>8 DEF Tamer
<1>3. QED BY <1>1, <1>2

LEMMA WithBackend ==
  ASSUME NEW k, NEW h, NEW g
  PROVE  [[d |-> k, b |-> h] EXCEPT !.b = g] = [d |-> k, b |-> g]
OBVIOUS

LEMMA WithDialog ==
  ASSUME NEW s \in State, NEW x
  PROVE  [s EXCEPT !.d = x] = [d |-> x, b |-> s.b]
BY DEF State

LEMMA UnarmedFit ==
  ASSUME NEW k \in DialogType, NEW h, Good(h)
  PROVE  /\ Fit(Unarmed([d |-> k, b |-> h]))
         /\ ~ Unarmed([d |-> k, b |-> h]).b.running
<1> DEFINE j == [k EXCEPT !.armed = FALSE]
<1>1. j \in DialogType
  BY DEF DialogType
<1>2. Good(Stopped(h)) /\ ~ Stopped(h).running
  BY StoppedGood
<1>3. Unarmed([d |-> k, b |-> h]) = [d |-> j, b |-> Stopped(h)]
  BY DEF Unarmed
<1> HIDE DEF j
<1>4. QED BY <1>1, <1>2, <1>3, Halves

LEMMA GoingType ==
  ASSUME NEW k \in DialogType
  PROVE  /\ Going(k) \in DialogType /\ Going(k).active = k.active /\ Going(k).progress
         /\ Going(k).keying = k.keying /\ Going(k).ptt = k.ptt
BY DEF Going, DialogType

\* What a start leads to is not live: what is keyed starts muted.
Started0(t) == Fit(t) /\ ~ Live(t)

LEMMA StartTextFit ==
  ASSUME NEW k \in DialogType, k.active, ~ k.keying, NEW h, Good(h), NEW n \in Nat,
         NEW opens \in BOOLEAN, NEW works \in BOOLEAN
  PROVE  Started0(StartText([d |-> k, b |-> h], n, opens, works))
<1> DEFINE g == Started(h, FALSE, opens)
           w == WriteIq(g, n, works)
<1>1. Good(g)
  BY StartedGood
<1> HIDE DEF g
<1>2. Good(w.h)
  BY <1>1, WriteGood
<1> HIDE DEF w
<1>3. /\ Going(k) \in DialogType /\ Going(k).active /\ Going(k).progress
      /\ ~ Going(k).keying
  BY GoingType
<1>4. Started0([d |-> Going(k), b |-> w.h])
  BY <1>2, <1>3, Halves DEF Started0, Live
<1>5. Started0(Unarmed([d |-> k, b |-> w.h]))
  BY <1>2, UnarmedFit DEF Started0, Live
<1>6. StartText([d |-> k, b |-> h], n, opens, works)
        \in {[d |-> Going(k), b |-> w.h], Unarmed([d |-> k, b |-> w.h])}
  <2> DEFINE s == [d |-> k, b |-> h]
  <2>1. s.d = k /\ s.b = h /\ [s EXCEPT !.b = w.h] = [d |-> k, b |-> w.h]
    BY WithBackend
  <2> HIDE DEF s
  <2>2. QED BY <2>1, Zenon DEF StartText, s, w, g
<1>7. QED BY <1>4, <1>5, <1>6

LEMMA StartMicrophoneFit ==
  ASSUME NEW k \in DialogType, k.active, k.keying = k.ptt, NEW h, Good(h),
         NEW opens \in BOOLEAN, NEW works \in BOOLEAN
  PROVE  Started0(StartMicrophone([d |-> k, b |-> h], opens, works))
<1> DEFINE g == Started(h, TRUE, opens)
           ready == IF k.ptt THEN SetOutputEnabled(g, FALSE) ELSE g
           m == [Going(k) EXCEPT !.microphone = TRUE]
<1>1. Good(g)
  BY StartedGood
<1>2. /\ Going(k) \in DialogType /\ Going(k).active /\ Going(k).progress
      /\ Going(k).keying = k.keying /\ Going(k).ptt = k.ptt
  BY GoingType
<1>3. m \in DialogType /\ m.active /\ m.progress /\ m.keying = k.keying
  BY <1>2 DEF DialogType
<1>4. StartMicrophone([d |-> k, b |-> h], opens, works)
        \in {[d |-> m, b |-> ready], Unarmed([d |-> k, b |-> g])}
  <2> DEFINE s == [d |-> k, b |-> h]
  <2>1. s.d = k /\ s.b = h /\ [s EXCEPT !.b = g] = [d |-> k, b |-> g]
    BY WithBackend
  <2> HIDE DEF s
  <2>2. QED BY <2>1, Zenon DEF StartMicrophone, s
<1> HIDE DEF g, m
<1>5. Good(SetOutputEnabled(g, FALSE)) /\ SetOutputEnabled(g, FALSE).outputEnabled = FALSE
  BY <1>1, OutputGood
<1>6. Good(ready) /\ (k.keying => ~ ready.outputEnabled)
  BY <1>1, <1>5 DEF DialogType
<1> HIDE DEF ready
<1>7. Started0([d |-> m, b |-> ready])
  BY <1>3, <1>6, Halves DEF Started0, Live
<1>8. Started0(Unarmed([d |-> k, b |-> g]))
  BY <1>1, UnarmedFit DEF Started0, Live
<1>9. QED BY <1>4, <1>7, <1>8

LEMMA StartManualCwFit ==
  ASSUME NEW k \in DialogType, k.active, NEW h, Good(h), NEW opens \in BOOLEAN
  PROVE  Started0(StartManualCw([d |-> k, b |-> h], opens))
<1> DEFINE g == Started(h, FALSE, opens)
           muted == SetOutputEnabled(g, FALSE)
<1>1. Good(g)
  BY StartedGood
<1>2. StartManualCw([d |-> k, b |-> h], opens)
        \in {[d |-> Going(k), b |-> muted], Unarmed([d |-> k, b |-> g])}
  <2> DEFINE s == [d |-> k, b |-> h]
  <2>1. s.d = k /\ s.b = h /\ [s EXCEPT !.b = g] = [d |-> k, b |-> g]
    BY WithBackend
  <2> HIDE DEF s
  <2>2. QED BY <2>1, Zenon DEF StartManualCw, s
<1> HIDE DEF g
<1>3. Good(muted) /\ muted.outputEnabled = FALSE
  BY <1>1, OutputGood
<1> HIDE DEF muted
<1>4. Going(k) \in DialogType /\ Going(k).active /\ Going(k).progress
  BY GoingType
<1>5. Started0([d |-> Going(k), b |-> muted])
  BY <1>3, <1>4, Halves DEF Started0, Live
<1>6. Started0(Unarmed([d |-> k, b |-> g]))
  BY <1>1, UnarmedFit DEF Started0, Live
<1>7. QED BY <1>2, <1>5, <1>6

LEMMA StartMediaFit ==
  ASSUME NEW k \in DialogType, k.active, ~ k.keying, NEW h, Good(h), NEW n \in Nat,
         NEW opens \in BOOLEAN, NEW works \in BOOLEAN
  PROVE  Started0(StartMedia([d |-> k, b |-> h], n, opens, works))
<1> DEFINE audio == k.source = "audio-file"
           j == [k EXCEPT !.left = IF audio THEN n ELSE 0, !.frame = ~ audio,
                          !.paused = FALSE, !.progress = TRUE, !.due = FALSE]
           g == Started(h, TRUE, opens)
           begun == [d |-> j, b |-> g]
           filled == ProcessLiveSource(begun, Burst, works)
           on == [filled EXCEPT !.d = [@ EXCEPT !.ticking = TRUE, !.startable = FALSE,
                                                !.choosable = FALSE]]
<1>1. Good(g)
  BY StartedGood
<1>2. j \in DialogType /\ j.active /\ j.progress /\ ~ j.keying
  BY DEF DialogType
<1>3. StartMedia([d |-> k, b |-> h], n, opens, works)
        \in {Unarmed([d |-> k, b |-> g]), filled, on}
  <2> DEFINE s == [d |-> k, b |-> h]
  <2>1. s.d = k /\ s.b = h /\ [s EXCEPT !.b = g] = [d |-> k, b |-> g]
    BY WithBackend
  <2>2. begun.b = g
    OBVIOUS
  <2> HIDE DEF s
  <2>3. QED BY <2>1, <2>2, Zenon DEF StartMedia, s
<1> HIDE DEF g, j
<1>4. Fit(begun) /\ ~ Live(begun)
  BY <1>1, <1>2, Halves DEF Live
<1> HIDE DEF begun
<1>5. Tamer(filled, begun)
  BY <1>4, SourceTamer, Limits
<1> HIDE DEF filled
<1>6. Started0(filled)
  BY <1>4, <1>5 DEF Tamer, Started0
<1>7. Started0(on)
  <2> DEFINE v == [filled.d EXCEPT !.ticking = TRUE, !.startable = FALSE,
                                   !.choosable = FALSE]
  <2>1. filled \in State /\ filled.d \in DialogType /\ Fit(filled)
    BY <1>6 DEF Started0, Fit, State
  <2>2. v \in DialogType /\ v.active = filled.d.active /\ v.keyed = filled.d.keyed
        /\ v.keying = filled.d.keying /\ v.progress = filled.d.progress
    BY <2>1 DEF DialogType
  <2>3. on = [d |-> v, b |-> filled.b]
    BY <2>1 DEF State
  <2> HIDE DEF v, on
  <2>4. Tamer(on, filled)
    BY <2>1, <2>2, <2>3, DialogTamer DEF Fit
  <2>5. QED BY <1>6, <2>4 DEF Tamer, Started0
<1>8. Started0(Unarmed([d |-> k, b |-> g]))
  BY <1>1, UnarmedFit DEF Started0, Live
<1> HIDE DEF on
<1>9. QED BY <1>3, <1>6, <1>7, <1>8

LEMMA StartFit ==
  ASSUME NEW s, Fit(s), ~ s.b.running, NEW n \in Nat, NEW ready \in BOOLEAN,
         NEW opens \in BOOLEAN, NEW works \in BOOLEAN
  PROVE  Started0(StartTransmission(s, n, ready, opens, works))
<1>0. s \in State /\ s.d \in DialogType /\ Good(s.b)
  BY DEF Fit, State
<1> DEFINE ptt == s.d.source = "microphone-ptt"
           keying == s.d.source \in LiveKey
           text == s.d.source = "text"
           c == [s.d EXCEPT !.active = TRUE]
           k == [c EXCEPT !.ptt = ptt, !.keying = keying]
           j == [k EXCEPT !.armed = @ /\ ~ text]
           called == [d |-> c, b |-> s.b]
           going == [d |-> k, b |-> s.b]
           refused == [d |-> j, b |-> s.b]
<1>1. /\ c \in DialogType /\ c.active
      /\ k \in DialogType /\ k.active /\ k.source = s.d.source
      /\ k.ptt = ptt /\ k.keying = keying
      /\ j \in DialogType /\ j.active
  <2>1. ptt \in BOOLEAN /\ keying \in BOOLEAN /\ text \in BOOLEAN
    OBVIOUS
  <2> HIDE DEF ptt, keying, text
  <2>2. c \in DialogType /\ c.active /\ c.source = s.d.source
    BY <1>0 DEF DialogType
  <2> HIDE DEF c
  <2>3. k \in DialogType /\ k.active /\ k.source = s.d.source
        /\ k.ptt = ptt /\ k.keying = keying
    BY <2>1, <2>2 DEF DialogType
  <2> HIDE DEF k
  <2>4. (k.armed /\ ~ text) \in BOOLEAN
    OBVIOUS
  <2>5. j \in DialogType /\ j.active
    BY <2>1, <2>3, <2>4 DEF DialogType
  <2>6. QED BY <2>2, <2>3, <2>5
<1>2. /\ [s EXCEPT !.d.active = TRUE] = called
      /\ [called EXCEPT !.d = [@ EXCEPT !.ptt = ptt, !.keying = keying]] = going
      /\ [going EXCEPT !.d.armed = @ /\ s.d.source # "text"] = refused
  <2> HIDE DEF ptt, keying
  <2>1. [s EXCEPT !.d.active = TRUE] = called
    <3>1. [s EXCEPT !.d.active = TRUE] = [s EXCEPT !.d = c]
      OBVIOUS
    <3> HIDE DEF c
    <3>2. QED BY <1>0, <3>1, WithDialog
  <2> HIDE DEF c
  <2>2. [called EXCEPT !.d = [@ EXCEPT !.ptt = ptt, !.keying = keying]] = going
    OBVIOUS
  <2> HIDE DEF k
  <2>3. [going EXCEPT !.d.armed = @ /\ s.d.source # "text"] = refused
    OBVIOUS
  <2>4. QED BY <2>1, <2>2, <2>3
<1>3. ASSUME s.d.armed /\ ready
      PROVE  StartTransmission(s, n, ready, opens, works) =
               CASE s.d.source = "text" -> StartText(going, n, opens, works)
                 [] s.d.source = "manual-cw" -> StartManualCw(going, opens)
                 [] s.d.source \in {"microphone", "microphone-ptt"} ->
                      StartMicrophone(going, opens, works)
                 [] OTHER -> StartMedia(going, n, opens, works)
  <2> HIDE DEF called, going, refused
  <2>1. QED BY <1>2, <1>3 DEF StartTransmission
<1>4. Started0(called) /\ Started0(refused)
  <2> HIDE DEF c, k, j
  <2>1. QED BY <1>0, <1>1, Halves DEF Started0, Live
<1>a. CASE ~ s.d.armed
  <2> HIDE DEF called, going, refused
  <2>1. StartTransmission(s, n, ready, opens, works) = called
    BY <1>2, <1>a DEF StartTransmission
  <2>2. QED BY <2>1, <1>4
<1>b. CASE s.d.armed /\ ~ ready
  <2> HIDE DEF called, going, refused
  <2>1. StartTransmission(s, n, ready, opens, works) = refused
    BY <1>2, <1>b DEF StartTransmission
  <2>2. QED BY <2>1, <1>4
<1> HIDE DEF c, k, j
<1>5. CASE s.d.source = "text"
  <2>1. Started0(StartText(going, n, opens, works))
    BY <1>0, <1>1, <1>5, StartTextFit DEF LiveKey
  <2> HIDE DEF called, going, refused
  <2>2. QED BY <1>3, <1>a, <1>b, <1>5, <2>1
<1>6. CASE s.d.source = "manual-cw"
  <2>1. Started0(StartManualCw(going, opens))
    BY <1>0, <1>1, StartManualCwFit
  <2> HIDE DEF called, going, refused
  <2>2. QED BY <1>3, <1>a, <1>b, <1>6, <2>1
<1>7. CASE s.d.source \in {"microphone", "microphone-ptt"}
  <2>1. Started0(StartMicrophone(going, opens, works))
    BY <1>0, <1>1, <1>7, StartMicrophoneFit DEF LiveKey
  <2> HIDE DEF called, going, refused
  <2>2. QED BY <1>3, <1>a, <1>b, <1>7, <2>1
<1>8. CASE s.d.source \notin {"text", "manual-cw", "microphone", "microphone-ptt"}
  <2>1. Started0(StartMedia(going, n, opens, works))
    BY <1>0, <1>1, <1>8, StartMediaFit DEF LiveKey
  <2> HIDE DEF called, going, refused
  <2>2. QED BY <1>3, <1>a, <1>b, <1>8, <2>1
<1>9. QED BY <1>5, <1>6, <1>7, <1>8

-----------------------------------------------------------------------------
(* The steps *)

Now == [d |-> d, b |-> b]

\* The inductive invariant: what is live is keyed, by a key that is down or
\* whose release the dialog missed.
IInv ==
  /\ Fit(Now)
  /\ held \subseteq {"button", "F12"} /\ missed \in BOOLEAN
  /\ Live(Now) => d.keyed /\ (held # {} \/ missed)

LEMMA NowHalves ==
  /\ Now.d = d /\ Now.b = b
  /\ Now'.d = d' /\ Now'.b = b'
BY DEF Now

LEMMA StateOfNow == Fit(Now) => d \in DialogType /\ b \in BackendType /\ Good(b) /\ Now \in State
BY DEF Fit, State, Now

\* A handler that keys nothing keeps the invariant.
LEMMA TamerStep ==
  ASSUME IInv, NEW s, Tamer(s, Now), d' = s.d, b' = s.b, held' = held,
         missed' = (missed /\ s.d.keyed) \/ missed' = missed
  PROVE  IInv'
<1>1. s \in State /\ Fit(s) /\ (Live(s) => Live(Now) /\ s.d.keyed = Now.d.keyed)
  BY DEF Tamer, Fit
<1>2. Now' = s
  BY <1>1 DEF Now, State
<1>3. missed \in BOOLEAN /\ s.d.keyed \in BOOLEAN
  BY <1>1 DEF IInv, State, DialogType
<1>4. missed' \in BOOLEAN
  BY <1>3
<1>5. Live(s) => s.d.keyed /\ (held # {} \/ missed')
  BY <1>1, <1>3, NowHalves DEF IInv
<1>6. QED BY <1>1, <1>2, <1>4, <1>5 DEF IInv

\* So does one after which nothing is live.
LEMMA QuietStep ==
  ASSUME IInv, NEW s, Fit(s), ~ Live(s), d' = s.d, b' = s.b,
         held' \subseteq {"button", "F12"}, missed' \in BOOLEAN
  PROVE  IInv'
<1>1. s \in State
  BY DEF Fit
<1>2. Now' = s
  BY <1>1 DEF Now, State
<1>3. QED BY <1>2 DEF IInv

\* Steps that change other fields of the dialog.
LEMMA FieldStep ==
  ASSUME IInv, d' \in DialogType, d'.active = d.active, d'.keyed = d.keyed,
         d'.keying = d.keying, d'.progress = d.progress, UNCHANGED <<b, held, missed>>
  PROVE  IInv'
<1> DEFINE s == [d |-> d', b |-> b]
<1>1. Fit(Now)
  BY DEF IInv
<1>2. Tamer(s, Now)
  <2> DEFINE k == d'
  <2>1. k \in DialogType /\ k.active = Now.d.active /\ k.keyed = Now.d.keyed
        /\ k.keying = Now.d.keying /\ k.progress = Now.d.progress
    BY NowHalves
  <2> HIDE DEF k
  <2>2. Tamer([d |-> k, b |-> Now.b], Now)
    BY <1>1, <2>1, DialogTamer DEF Fit
  <2>3. QED BY <2>2, NowHalves DEF k
<1>3. d' = s.d /\ b' = s.b
  OBVIOUS
<1> HIDE DEF s
<1>4. QED BY <1>2, <1>3, TamerStep

LEMMA FillStep ==
  ASSUME IInv, FillTransfer
  PROVE  IInv'
<1>1. b \in BackendType /\ Good(b) /\ d \in DialogType
  BY StateOfNow DEF IInv
<1>2. PICK n \in 1 .. Len(b.queue) :
        b' = [b EXCEPT !.queue = SubSeq(b.queue, n + 1, Len(b.queue))]
  BY DEF FillTransfer
<1> DEFINE q == b.queue
           rest == SubSeq(q, n + 1, Len(q))
<1>3. q \in Seq(Nat) /\ Len(q) \in Nat /\ n \in Nat /\ n <= Len(q)
  BY <1>1 DEF BackendType
<1>4. /\ rest \in Seq(Nat) /\ Len(rest) = Len(q) - n
      /\ \A i \in 1 .. Len(rest) : rest[i] = q[n + i]
  <2> HIDE DEF q
  <2>1. CASE n = Len(q)
    BY <1>3, <2>1, SubSeqEmpty
  <2>2. CASE n < Len(q)
    BY <1>3, <2>2, SubSeqProperties
  <2>3. QED BY <1>3, <2>1, <2>2
<1>5. \A i \in 1 .. Len(rest) : rest[i] = b.over
  <2>1. \A i \in 1 .. Len(q) : q[i] = b.over
    BY <1>1 DEF Good
  <2> HIDE DEF q, rest
  <2>2. QED BY <1>3, <1>4, <2>1
<1> HIDE DEF rest
<1>6. /\ b' \in BackendType /\ b'.queue = rest /\ b'.live = b.live
      /\ b'.running = b.running /\ b'.device = b.device /\ b'.streaming = b.streaming
      /\ b'.outputEnabled = b.outputEnabled /\ b'.air = b.air
      /\ b'.amplifier = b.amplifier /\ b'.over = b.over
  BY <1>1, <1>2, <1>4 DEF BackendType, rest
<1>7. Good(b')
  <2>1. Limit(b') = Limit(b)
    BY <1>6 DEF Limit
  <2>2. Len(b'.queue) <= Limit(b')
    <3>1. Len(q) <= Limit(b) /\ Limit(b) \in Nat
      BY <1>1, Limits DEF Good, Limit
    <3> HIDE DEF q
    <3>2. QED BY <1>3, <1>4, <1>6, <2>1, <3>1
  <2>3. b'.outputEnabled
    BY <1>1, <1>6 DEF FillTransfer, Good
  <2>4. QED BY <1>1, <1>5, <1>6, <2>2, <2>3 DEF Good
<1>8. d' = d /\ held' = held /\ missed' = missed
  BY DEF FillTransfer
<1> DEFINE s == [d |-> d, b |-> b']
<1>9. Fit(s) /\ (Live(s) => Live(Now)) /\ s.d.keyed = Now.d.keyed
  <2>1. b.running => d.active /\ d.progress
    BY NowHalves DEF IInv, Fit
  <2>2. Fit(s)
    BY <1>1, <1>6, <1>7, <2>1, Halves
  <2>3. QED BY <1>6, <2>2, NowHalves DEF Live
<1>10. s.d = d' /\ s.b = b'
  BY <1>8
<1> HIDE DEF s
<1>11. QED BY <1>8, <1>9, <1>10, TamerStep DEF Tamer

LEMMA LibraryStep ==
  ASSUME IInv, LibraryStops
  PROVE  IInv'
<1>1. b \in BackendType /\ Good(b) /\ d \in DialogType
  BY StateOfNow DEF IInv
<1>2. /\ b' \in BackendType /\ b'.queue = b.queue /\ b'.live = b.live
      /\ b'.running = b.running /\ b'.device = b.device /\ b'.streaming = b.streaming
      /\ b'.outputEnabled = b.outputEnabled /\ ~ b'.air
      /\ b'.amplifier = b.amplifier /\ b'.over = b.over
  BY <1>1 DEF LibraryStops, BackendType
<1>3. Good(b')
  BY <1>1, <1>2 DEF Good, Limit
<1>4. d' = d /\ held' = held /\ missed' = missed
  BY DEF LibraryStops
<1> DEFINE s == [d |-> d, b |-> b']
<1>5. Fit(s) /\ (Live(s) => Live(Now)) /\ s.d.keyed = Now.d.keyed
  <2>1. b.running => d.active /\ d.progress
    BY NowHalves DEF IInv, Fit
  <2>2. Fit(s)
    BY <1>1, <1>2, <1>3, <2>1, Halves
  <2>3. QED BY <1>2, <2>2, NowHalves DEF Live
<1>6. s.d = d' /\ s.b = b'
  BY <1>4
<1> HIDE DEF s
<1>7. QED BY <1>4, <1>5, <1>6, TamerStep DEF Tamer

\* A key that goes down or up, filtered or not.
LEMMA KeyStep ==
  ASSUME IInv, NEW pressed \in BOOLEAN, NEW works \in BOOLEAN,
         Becomes(SetLiveKey(Now, pressed, works)),
         held' \subseteq {"button", "F12"}, pressed => held' # {}
  PROVE  IInv'
<1> DEFINE t == SetLiveKey(Now, pressed, works)
<1>1. Fit(t) /\ (Live(t) => t.d.keyed /\ pressed)
  <2>1. Fit(Now) /\ (Live(Now) => Now.d.keyed)
    BY NowHalves DEF IInv
  <2>2. QED BY <2>1, KeyFit
<1>2. d' = t.d /\ b' = t.b /\ missed' = (missed /\ t.d.keyed)
  BY DEF Becomes
<1> HIDE DEF t
<1>3. t \in State /\ t.d.keyed \in BOOLEAN /\ missed \in BOOLEAN
  BY <1>1 DEF Fit, State, DialogType, IInv
<1>4. Now' = t
  BY <1>2, <1>3 DEF Now, State
<1>5. QED BY <1>1, <1>2, <1>3, <1>4 DEF IInv

LEMMA PressStep ==
  ASSUME IInv, NEW key \in {"button", "F12"}, PressKey(key)
  PROVE  IInv'
<1>1. held' = held \cup {key} /\ held' \subseteq {"button", "F12"} /\ held' # {}
  BY DEF PressKey, IInv
<1>2. PICK works \in BOOLEAN, inside \in BOOLEAN :
        Becomes(IF key = "button" \/ Filtered(inside)
                THEN SetLiveKey(Now, TRUE, works) ELSE Now)
  BY DEF PressKey, Now
<1>3. CASE key = "button" \/ Filtered(inside)
  BY <1>1, <1>2, <1>3, KeyStep
<1>4. CASE ~ (key = "button" \/ Filtered(inside))
  <2>1. Becomes(Now)
    BY <1>2, <1>4
  <2>2. d' = d /\ b' = b /\ missed' = (missed /\ d.keyed)
    BY <2>1, NowHalves DEF Becomes
  <2>3. d \in DialogType
    BY StateOfNow DEF IInv
  <2>4. Now' = Now
    BY <2>2 DEF Now
  <2>5. d.keyed \in BOOLEAN /\ missed \in BOOLEAN
    BY <2>3 DEF DialogType, IInv
  <2>6. QED BY <1>1, <2>2, <2>4, <2>5 DEF IInv
<1>5. QED BY <1>3, <1>4

LEMMA ReleaseStep ==
  ASSUME IInv, NEW key \in {"button", "F12"}, ReleaseKey(key)
  PROVE  IInv'
<1>1. held' \subseteq {"button", "F12"}
  BY DEF ReleaseKey, IInv
<1>2. PICK inside \in BOOLEAN :
        IF key = "button" \/ Filtered(inside)
        THEN Becomes(SetLiveKey(Now, FALSE, TRUE))
        ELSE missed' = d.keyed /\ UNCHANGED <<d, b>>
  BY DEF ReleaseKey, Now
<1>3. CASE key = "button" \/ Filtered(inside)
  <2>1. Becomes(SetLiveKey(Now, FALSE, TRUE))
    BY <1>2, <1>3
  <2>2. QED BY <1>1, <2>1, KeyStep
<1>4. CASE ~ (key = "button" \/ Filtered(inside))
  <2>1. missed' = d.keyed /\ d' = d /\ b' = b
    BY <1>2, <1>4
  <2>2. d.keyed \in BOOLEAN
    BY StateOfNow DEF IInv, DialogType
  <2>3. Now' = Now
    BY <2>1 DEF Now
  <2>4. QED BY <1>1, <2>1, <2>2, <2>3 DEF IInv
<1>5. QED BY <1>3, <1>4

LEMMA ModeStep ==
  ASSUME IInv, SelectMode
  PROVE  IInv'
<1>1. d \in DialogType
  BY StateOfNow DEF IInv
<1>2. ASSUME NEW k \in DialogType, k.active = d.active, k.keyed = d.keyed,
             k.keying = d.keying, k.progress = d.progress, d' = UpdateModeUi(k)
      PROVE  IInv'
  <2> DEFINE source == IF \/ k.modulation = "FT8"
                          \/ k.modulation = "CW" /\ k.source # "manual-cw"
                       THEN "text" ELSE k.source
  <2>1. source \in Sources
    BY <1>2 DEF DialogType, Sources
  <2>2. d' = [k EXCEPT !.choosable = TRUE, !.source = source]
    BY <1>2 DEF UpdateModeUi
  <2> HIDE DEF source
  <2>3. /\ d' \in DialogType /\ d'.active = d.active /\ d'.keyed = d.keyed
        /\ d'.keying = d.keying /\ d'.progress = d.progress
    BY <1>2, <2>1, <2>2 DEF DialogType
  <2>4. UNCHANGED <<b, held, missed>>
    BY DEF SelectMode
  <2>5. QED BY <2>3, <2>4, FieldStep
<1>3. ASSUME NEW modulation \in Modulations,
             d' = UpdateModeUi([d EXCEPT !.modulation = modulation])
      PROVE  IInv'
  <2> DEFINE k == [d EXCEPT !.modulation = modulation]
  <2>1. k \in DialogType /\ k.active = d.active /\ k.keyed = d.keyed /\ k.keying = d.keying
        /\ k.progress = d.progress
    BY <1>1 DEF DialogType
  <2>2. d' = UpdateModeUi(k)
    BY <1>3
  <2> HIDE DEF k
  <2>3. QED BY <1>2, <2>1, <2>2
<1>4. ASSUME NEW source \in Sources, d' = UpdateModeUi([d EXCEPT !.source = source])
      PROVE  IInv'
  <2> DEFINE k == [d EXCEPT !.source = source]
  <2>1. k \in DialogType /\ k.active = d.active /\ k.keyed = d.keyed /\ k.keying = d.keying
        /\ k.progress = d.progress
    BY <1>1 DEF DialogType
  <2>2. d' = UpdateModeUi(k)
    BY <1>4
  <2> HIDE DEF k
  <2>3. QED BY <1>2, <2>1, <2>2
<1>5. QED BY <1>3, <1>4 DEF SelectMode

LEMMA StartStep ==
  ASSUME IInv, UserStart
  PROVE  IInv'
<1>1. Fit(Now) /\ ~ Now.b.running /\ d \in DialogType
  BY StateOfNow, NowHalves DEF UserStart, IInv, Fit
<1>2. PICK n \in {1, Burst, FullLimit + 1}, ready \in BOOLEAN, opens \in BOOLEAN,
           works \in BOOLEAN : Becomes(StartTransmission(Now, n, ready, opens, works))
  BY DEF UserStart, Now
<1> DEFINE t == StartTransmission(Now, n, ready, opens, works)
<1>3. n \in Nat
  BY Limits
<1>4. Started0(t)
  BY <1>1, <1>3, StartFit
<1>5. d' = t.d /\ b' = t.b /\ missed' = (missed /\ t.d.keyed)
  BY <1>2 DEF Becomes
<1> HIDE DEF t
<1>6. t.d.keyed \in BOOLEAN /\ missed \in BOOLEAN
  BY <1>4 DEF Started0, Fit, State, DialogType, IInv
<1>7. held' \subseteq {"button", "F12"}
  BY DEF UserStart, IInv
<1>8. Fit(t) /\ ~ Live(t) /\ missed' \in BOOLEAN
  BY <1>4, <1>5, <1>6 DEF Started0
<1>9. QED BY <1>5, <1>7, <1>8, QuietStep

LEMMA StopStep ==
  ASSUME IInv, UserStop
  PROVE  IInv'
<1>1. d \in DialogType /\ Good(b) /\ b \in BackendType
  BY StateOfNow DEF IInv
<1>2. PICK armed \in {d.armed, FALSE} :
        Becomes(StopTransmission([d |-> [d EXCEPT !.armed = armed], b |-> b]))
  BY DEF UserStop
<1> DEFINE k == [d EXCEPT !.armed = armed]
           s == [d |-> k, b |-> b]
           t == StopTransmission(s)
<1>3. k \in DialogType
  BY <1>1 DEF DialogType
<1> HIDE DEF k
<1>4. s \in State /\ s.b = b
  BY <1>1, <1>3 DEF State
<1> HIDE DEF s
<1>5. Tamer(t, Now)
  BY <1>1, <1>4, StopTamer
<1>6. d' = t.d /\ b' = t.b /\ missed' = (missed /\ t.d.keyed) /\ held' = held
  BY <1>2 DEF Becomes, UserStop, s, k
<1> HIDE DEF t
<1>7. QED BY <1>5, <1>6, TamerStep

LEMMA ProgressStep ==
  ASSUME IInv, UpdateProgress
  PROVE  IInv'
<1>1. d \in DialogType /\ Good(b) /\ Now \in State /\ Fit(Now)
  BY StateOfNow DEF IInv
<1>2. held' = held
  BY DEF UpdateProgress
<1>3. CASE ~ d.active \/ ~ b.running
  <2> DEFINE k == [d EXCEPT !.progress = FALSE]
             s == [d |-> k, b |-> b]
  <2>1. k \in DialogType /\ k.active = Now.d.active /\ k.keyed = Now.d.keyed
        /\ k.keying = Now.d.keying
    BY <1>1, NowHalves DEF DialogType
  <2>2. Becomes(s)
    BY <1>3 DEF UpdateProgress
  <2> HIDE DEF k
  <2>3. Tamer(s, Now)
    <3>1. Tamer([d |-> k, b |-> Now.b], Now)
      BY <1>1, <1>3, <2>1, NowHalves, DialogTamer DEF Fit
    <3>2. QED BY <3>1, NowHalves
  <2> HIDE DEF s
  <2>4. QED BY <1>2, <2>2, <2>3, TamerStep DEF Becomes
<1>4. CASE d.active /\ b.running
  <2>1. Becomes(StopTransmission(Now))
    BY <1>4 DEF UpdateProgress, Now
  <2>2. Tamer(StopTransmission(Now), Now)
    BY <1>1, StopTamer, NowHalves
  <2>3. QED BY <1>2, <2>1, <2>2, TamerStep DEF Becomes
<1>5. QED BY <1>3, <1>4

LEMMA Step == IInv /\ [Next]_vars => IInv'
<1> SUFFICES ASSUME IInv, [Next]_vars PROVE IInv'
  OBVIOUS
<1>0. d \in DialogType /\ Fit(Now) /\ (Live(Now) => Now.d.keyed)
  BY StateOfNow, NowHalves DEF IInv
<1>1. CASE SourceTimer
  <2>1. PICK works \in BOOLEAN : Becomes(ProcessLiveSource(Now, 1, works)) /\ held' = held
    BY <1>1 DEF SourceTimer, Now
  <2>2. Tamer(ProcessLiveSource(Now, 1, works), Now)
    BY <1>0, SourceTamer
  <2>3. QED BY <2>1, <2>2, TamerStep DEF Becomes
<1>2. CASE ReadMicrophone
  <2>1. PICK works \in BOOLEAN : Becomes(Written(Now, 1, works)) /\ held' = held
    BY <1>2 DEF ReadMicrophone, Now
  <2>2. Tamer(Written(Now, 1, works), Now)
    BY <1>0, WrittenTamer
  <2>3. QED BY <2>1, <2>2, TamerStep DEF Becomes
<1>3. CASE TimePasses
  BY <1>0, <1>3, FieldStep DEF TimePasses, DialogType
<1>4. CASE Pause
  BY <1>0, <1>4, FieldStep DEF Pause, DialogType
<1>5. CASE Play
  BY <1>0, <1>5, FieldStep DEF Play, DialogType
<1>6. CASE Arm
  BY <1>0, <1>6, FieldStep DEF Arm, DialogType
<1>7. CASE WindowDeactivate
  <2>1. Becomes(SetLiveKey(Now, FALSE, TRUE)) /\ held' = held
    BY <1>7 DEF WindowDeactivate, Now
  <2>2. QED BY <2>1, KeyStep DEF IInv
<1>8. CASE UNCHANGED vars
  <2>1. d' = d /\ b' = b /\ held' = held /\ missed' = missed
    BY <1>8 DEF vars
  <2>2. Now' = Now
    BY <2>1 DEF Now
  <2>3. QED BY <2>1, <2>2 DEF IInv
<1>9. QED
  BY <1>1, <1>2, <1>3, <1>4, <1>5, <1>6, <1>7, <1>8, FillStep, LibraryStep, PressStep,
     ReleaseStep, ModeStep, StartStep, StopStep, ProgressStep DEF Next

LEMMA InitIInv == Init => IInv
<1> SUFFICES ASSUME Init PROVE IInv
  OBVIOUS
<1>1. d \in DialogType /\ ~ d.active
  BY DEF Init, DialogType
<1>2. b \in BackendType /\ b.queue = <<>> /\ ~ b.running /\ ~ b.streaming /\ ~ b.air
      /\ ~ b.amplifier
  BY EmptyQueue DEF Init, BackendType
<1>3. Good(b)
  BY <1>2, EmptyQueue, Limits DEF Good, Limit
<1>4. Fit(Now) /\ ~ Live(Now)
  BY <1>1, <1>2, <1>3, Halves DEF Now, Live
<1>5. QED BY <1>4 DEF Init, IInv

\* IInv holds in every state, whatever is started, keyed, fails or stops.
THEOREM Invariance == Spec => []IInv
BY InitIInv, Step, PTL DEF Spec

-----------------------------------------------------------------------------
(* The theorems *)

LEMMA Promised == IInv => TypeOK /\ NothingStale /\ AmplifierOff /\ CarrierFollowsKey
<1> SUFFICES ASSUME IInv PROVE TypeOK /\ NothingStale /\ AmplifierOff /\ CarrierFollowsKey
  OBVIOUS
<1>1. d \in DialogType /\ b \in BackendType /\ Good(b)
  BY StateOfNow DEF IInv
<1>2. TypeOK
  BY <1>1 DEF TypeOK, Good, IInv
<1>3. NothingStale
  BY <1>1 DEF NothingStale, Good
<1>4. AmplifierOff
  BY <1>1 DEF AmplifierOff, Good
<1>5. CarrierFollowsKey
  <2>1. b.air \/ b.amplifier => b.running /\ b.outputEnabled
    BY <1>1 DEF Good
  <2>2. d.keying /\ b.running /\ b.outputEnabled => Live(Now)
    BY NowHalves DEF Live
  <2>3. QED BY <2>1, <2>2 DEF CarrierFollowsKey, IInv
<1>6. QED BY <1>2, <1>3, <1>4, <1>5

\* Every field keeps its type and the queue its limit, for every size of the
\* prebuffer, the limits and the bursts (writeIq).
THEOREM TypeCorrect == Spec => []TypeOK
BY Invariance, Promised, PTL

\* What a release or a stop cuts off is never sent later: setOutputEnabled()
\* and stop() leave nothing of an earlier over in the queue.
THEOREM NothingStaleCorrect == Spec => []NothingStale
BY Invariance, Promised, PTL

\* On every path of starting, refusing, muting and stopping, the amplifier is
\* off before the device is closed and whenever nothing is streamed.
THEOREM AmplifierCorrect == Spec => []AmplifierOff
BY Invariance, Promised, PTL

\* A keyed run is silent unless a key is down, or the dialog missed that F12
\* was released (setLiveKey, eventFilter).
THEOREM CarrierCorrect == Spec => []CarrierFollowsKey
BY Invariance, Promised, PTL

\* A run is never without its watchdog: while the backend runs, the dialog
\* knows of it and the progress timer that ends it is on, whichever source was
\* started, keyed, paused or exchanged for another (startTransmission,
\* updateProgress).  It is the part of RunEnds that holds in every state.
RunWatched == b.running => d.active /\ d.progress

THEOREM RunsWatched == Spec => []RunWatched
<1>1. IInv => RunWatched
  BY NowHalves DEF IInv, Fit, RunWatched
<1>2. QED BY <1>1, Invariance, PTL

\* A key that is up mutes: a run that was started to be keyed has its output
\* enabled only while the dialog holds the key for pressed (setLiveKey,
\* startMicrophoneSimulation, startManualCw).
KeyMutes == d.keying /\ b.running /\ b.outputEnabled => d.keyed

THEOREM KeysMute == Spec => []KeyMutes
<1>1. IInv => KeyMutes
  BY NowHalves DEF IInv, Live, KeyMutes
<1>2. QED BY <1>1, Invariance, PTL

=============================================================================
