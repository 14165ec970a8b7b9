----------------------- MODULE NetworkSettingsProofs -----------------------
(* NetworkSettings for any clients, settings and numbers of edits.  The      *)
(* invariant follows the news: the newest report on its way to a client, or  *)
(* without one the state the client holds as confirmed, agrees with the      *)
(* server but for what the server keeps to itself (Told); and what the       *)
(* client shows differs from what taking that over makes of it only where    *)
(* its user edited or its controls changed it (Mine).  The conversions of    *)
(* settings are any functions.                                               *)
EXTENDS NetworkSettings, TLAPS

IsReport(m) == m.kind # "role"

\* All settings but those not reported to c are the server's.
Agrees(settings, c) == \A key \in Keys \ unreported[c] : settings[key] = server[key]

\* The i-th message to c is the last report among them.
Newest(c, i) ==
  /\ i \in 1 .. Len(down[c]) /\ IsReport(down[c][i])
  /\ \A j \in i + 1 .. Len(down[c]) : ~ IsReport(down[c][j])

Told(c) ==
  /\ \A i \in 1 .. Len(down[c]) : Newest(c, i) => Agrees(down[c][i].settings, c)
  /\ (\A i \in 1 .. Len(down[c]) : ~ IsReport(down[c][i]))
       => \/ unreported[c] = Keys
          \/ client[c].valid /\ Agrees(client[c].confirmed, c)
  /\ client[c].ready \/ unreported[c] = Keys

\* What the client shows, where it did not depart from it by itself, is what
\* taking over makes of what is confirmed; the rest is waited for, or never sent.
MineOf(k, mine, kept) ==
  /\ k.valid => \A key \in Keys \ mine : k.pending[key] = TakenOver(k.confirmed)[key]
  /\ mine \subseteq kept \/ k.debounce \/ k.awaiting
Mine(c) == MineOf(client[c], edited[c], unsent[c])

\* A command of a client which knows the server has only what is its own.
OwnEdits(m) == m.kind = "setParameters" /\ m.known => DOMAIN m.settings \subseteq m.own
Owns(c) == \A i \in 1 .. Len(up[c]) : OwnEdits(up[c][i])

\* A connected client that knows no state of the server is going to be told:
\* it is about to ask, has asked, or a report is on its way.
Asked(c) ==
  client[c].ready /\ ~ client[c].valid =>
    \/ client[c].asks
    \/ \E i \in 1 .. Len(up[c]) : up[c][i].kind = "requestServerState"
    \/ \E i \in 1 .. Len(down[c]) : IsReport(down[c][i])

IInv == TypeOK /\ \A c \in Clients : Told(c) /\ Mine(c) /\ Owns(c)

-----------------------------------------------------------------------------
(* Settings and commands *)

LEMMA PatchType ==
  ASSUME NEW S \in SUBSET Keys, NEW f \in [S -> Values]
  PROVE  f \in Patches /\ DOMAIN f = S
BY DEF Patches

\* The conversions give settings.
LEMMA Conversions ==
  /\ \A settings \in Settings :
       /\ Taken[settings] \in Settings /\ Tuned[settings] \in Settings
       /\ Shown[settings] \in Settings /\ TakenOver(settings) \in Settings
  /\ \A key \in Keys, settings \in Settings : Adjusted[key][settings] \in Settings
<1>1. /\ Taken \in [Settings -> Settings] /\ Tuned \in [Settings -> Settings]
      /\ Shown \in [Settings -> Settings]
  BY SettingsAssumption
<1>2. ASSUME NEW key \in Keys, NEW settings \in Settings
      PROVE  Adjusted[key][settings] \in Settings
  <2>1. Adjusted \in [Keys -> [Settings -> Settings]]
    BY SettingsAssumption
  <2>2. Adjusted[key] \in [Settings -> Settings]
    BY <2>1
  <2> QED
    BY <2>2
<1>3. ASSUME NEW settings \in Settings
      PROVE  /\ Taken[settings] \in Settings /\ Tuned[settings] \in Settings
             /\ Shown[settings] \in Settings /\ TakenOver(settings) \in Settings
  <2>1. /\ Taken[settings] \in Settings /\ Tuned[settings] \in Settings
        /\ Shown[settings] \in Settings /\ Shown[Taken[settings]] \in Settings
    BY <1>1
  <2> DEFINE taken == Taken[settings]
             shown == Shown[taken]
  <2>2. taken \in [Keys -> Values] /\ shown \in [Keys -> Values]
    BY <2>1 DEF Settings
  <2>3. TakenOver(settings) = [key \in Keys |-> IF key \in Devices THEN shown[key] ELSE taken[key]]
    BY DEF TakenOver
  <2> HIDE DEF taken, shown
  <2>4. TakenOver(settings) \in [Keys -> Values]
    BY <2>2, <2>3
  <2> QED
    BY <2>1, <2>4 DEF Settings
<1> QED
  BY <1>2, <1>3

\* Where a client shows what taking over made of what is confirmed, but for
\* mine, what it would send with setParameters is in mine or was changed by
\* the taking over; and what it sends with either command is a patch.
LEMMA Sent ==
  ASSUME NEW k \in ClientType, NEW mine \in SUBSET Keys,
         k.valid => \A key \in Keys \ mine : k.pending[key] = TakenOver(k.confirmed)[key]
  PROVE  /\ ForCommand(k) \in Patches
         /\ Patch(k) \in Patches
         /\ k.valid => DOMAIN Patch(k) \subseteq mine \cup Differ(TakenOver(k.confirmed), k.confirmed)
<1>1. k.pending \in [Keys -> Values] /\ k.valid \in BOOLEAN
  BY DEF ClientType, Settings
<1>2. ForCommand(k) \in Patches
  <2> DEFINE S == IF k.valid THEN Keys ELSE Keys \ Devices
  <2>1. S \in SUBSET Keys /\ ForCommand(k) \in [S -> Values]
    BY <1>1 DEF ForCommand
  <2> QED
    BY <2>1, PatchType
<1>3. CASE k.valid
  <2> DEFINE D == {key \in Differ(k.pending, k.confirmed) :
                     <<key, k.pending[key], k.confirmed[key]>> \notin Near}
  <2>1. \A key \in Keys : ForCommand(k)[key] = k.pending[key]
    BY <1>3 DEF ForCommand
  <2>2. Patch(k) = [key \in D |-> ForCommand(k)[key]]
    BY <1>3 DEF Patch
  <2>3. D \in SUBSET Keys
    BY DEF Differ
  <2>4. D \subseteq mine \cup Differ(TakenOver(k.confirmed), k.confirmed)
    BY <1>3 DEF Differ
  <2> HIDE DEF D
  <2>5. Patch(k) \in [D -> Values]
    BY <1>1, <2>1, <2>2, <2>3
  <2> QED
    BY <1>2, <2>3, <2>4, <2>5, PatchType
<1>4. CASE ~ k.valid
  BY <1>2, <1>4 DEF Patch
<1> QED
  BY <1>3, <1>4

LEMMA WithType ==
  ASSUME NEW settings \in Settings, NEW patch \in Patches
  PROVE  With(settings, patch) \in Settings
<1> DEFINE merged == [key \in Keys |-> IF key \in DOMAIN patch THEN patch[key] ELSE settings[key]]
<1>1. PICK S \in SUBSET Keys : patch \in [S -> Values]
  BY DEF Patches
<1>2. merged \in Settings
  BY <1>1 DEF Settings
<1>3. With(settings, patch) = Tuned[Taken[merged]]
  BY DEF With
<1> HIDE DEF merged
<1> QED
  BY <1>2, <1>3, Conversions

\* A command that is no request carries a patch.
LEMMA CommandType ==
  ASSUME NEW m \in Commands, m.kind # "requestServerState"
  PROVE  m.settings \in Patches
BY DEF Commands

LEMMA ReportType ==
  /\ \A settings \in Settings :
       /\ [kind |-> "serverState", settings |-> settings] \in Reports
       /\ [kind |-> "settingsAck", settings |-> settings] \in Reports
  /\ \A control \in BOOLEAN : Role(control) \in Reports /\ ~ IsReport(Role(control))
  /\ \A m \in Reports : IsReport(m) => m.settings \in Settings
  /\ \A m \in Reports : ~ IsReport(m) => m.control \in BOOLEAN
BY DEF Reports, Role, IsReport

LEMMA AppendType ==
  ASSUME NEW S, NEW s \in Seq(S), NEW x \in S
  PROVE  Append(s, x) \in Seq(S)
OBVIOUS

LEMMA ConcatAt ==
  ASSUME NEW S, NEW s \in Seq(S), NEW t \in Seq(S), NEW n \in 1 .. Len(t)
  PROVE  (s \o t)[Len(s) + n] = t[n]
<1>1. Len(s) \in Nat /\ Len(t) \in Nat
  OBVIOUS
<1>2. Len(s) + n \in 1 .. Len(s) + Len(t) /\ ~ Len(s) + n <= Len(s)
  BY <1>1
<1>3. (Len(s) + n) - Len(s) = n
  BY <1>1
<1> QED
  BY <1>1, <1>2, <1>3

-----------------------------------------------------------------------------
(* The server *)

\* After a report every client that is connected has the server's settings as
\* the last message to it.
LEMMA Reporting ==
  ASSUME IInv, NEW settings \in Settings, NEW acknowledged \in SUBSET Clients,
         Report(settings, acknowledged), server' = settings, client' = client
  PROVE  /\ down' \in [Clients -> Seq(Reports)]
         /\ unreported' \in [Clients -> SUBSET Keys]
         /\ \A c \in Clients : Told(c)'
         /\ \A c \in Ready : \E i \in 1 .. Len(down'[c]) : IsReport(down'[c][i])
<1> DEFINE state == [kind |-> "serverState", settings |-> settings]
           ack == [kind |-> "settingsAck", settings |-> settings]
           news(c) == IF c \in acknowledged THEN <<ack, state>> ELSE <<state>>
<1>1. state \in Reports /\ ack \in Reports /\ IsReport(state) /\ state.settings = settings
  BY ReportType DEF IsReport
<1>2. down \in [Clients -> Seq(Reports)] /\ unreported \in [Clients -> SUBSET Keys]
  BY DEF IInv, TypeOK
<1>3. down' = [c \in Clients |-> IF c \notin Ready THEN down[c] ELSE down[c] \o news(c)]
  BY DEF Report
<1>4. unreported' = [c \in Clients |-> IF c \in Ready THEN {} ELSE unreported[c]]
  BY DEF Report
<1> HIDE DEF state, ack
<1>5. \A c \in Clients : news(c) \in Seq(Reports) /\ Len(news(c)) \in {1, 2}
                           /\ news(c)[Len(news(c))] = state
  BY <1>1
<1> HIDE DEF news
<1>6. down' \in [Clients -> Seq(Reports)]
  BY <1>2, <1>3, <1>5
<1>7. ASSUME NEW c \in Clients
      PROVE  /\ Told(c)'
             /\ c \in Ready => \E i \in 1 .. Len(down'[c]) : IsReport(down'[c][i])
  <2>1. CASE c \in Ready
    <3> DEFINE old == down[c]
               new == news(c)
    <3>0. old \in Seq(Reports) /\ new \in Seq(Reports) /\ down'[c] = old \o new
      BY <1>2, <1>3, <1>5, <2>1
    <3>a. Len(new) \in {1, 2} /\ new[Len(new)] = state
      BY <1>5
    <3> HIDE DEF old, new
    <3>1. Len(down'[c]) = Len(old) + Len(new) /\ Len(down'[c]) \in Nat \ {0}
      BY <3>0, <3>a
    <3>2. down'[c][Len(down'[c])] = state
      <4>1. Len(old) \in Nat
        BY <3>0
      <4>2. Len(new) \in 1 .. Len(new)
        BY <3>a
      <4>3. (old \o new)[Len(old) + Len(new)] = new[Len(new)]
        BY <3>0, <4>2, ConcatAt
      <4> QED
        BY <3>0, <3>a, <3>1, <4>3
    <3>3. ASSUME NEW i \in 1 .. Len(down'[c]), Newest(c, i)' PROVE i = Len(down'[c])
      <4>1. \A j \in i + 1 .. Len(down'[c]) : ~ IsReport(down'[c][j])
        BY <3>3 DEF Newest, IsReport
      <4> QED
        BY <1>1, <3>1, <3>2, <4>1
    <3>4. \A i \in 1 .. Len(down'[c]) : Newest(c, i)' => Agrees(down[c][i].settings, c)'
      BY <1>1, <3>2, <3>3 DEF Agrees
    <3>5. client[c]'.ready
      BY <2>1 DEF Ready
    <3>6. ~ \A i \in 1 .. Len(down'[c]) : ~ IsReport(down'[c][i])
      BY <1>1, <3>1, <3>2
    <3>7. Told(c)'
      BY <3>4, <3>5, <3>6 DEF Told, IsReport
    <3>8. \E i \in 1 .. Len(down'[c]) : IsReport(down'[c][i])
      BY <3>6 DEF IsReport
    <3> QED
      BY <3>7, <3>8
  <2>2. CASE c \notin Ready
    <3>1. unreported[c] = Keys
      BY <2>2 DEF Ready, IInv, Told
    <3>2. unreported'[c] = Keys
      BY <1>4, <2>2, <3>1
    <3> QED
      BY <2>2, <3>2 DEF Told, Agrees
  <2> QED
    BY <2>1, <2>2
<1>8. Ready \subseteq Clients
  BY DEF Ready
<1> QED
  BY <1>2, <1>4, <1>6, <1>7, <1>8

\* News of a role leaves what a client has been told as it is.
LEMMA RoleTold ==
  ASSUME IInv, NEW c \in Clients, NEW control \in BOOLEAN,
         down'[c] = Append(down[c], Role(control)),
         client'[c].valid = client[c].valid, client'[c].confirmed = client[c].confirmed,
         client'[c].ready \/ unreported'[c] = Keys,
         unreported'[c] = unreported[c], server' = server
  PROVE  Told(c)'
<1>1. down[c] \in Seq(Reports) /\ Role(control) \in Reports /\ ~ IsReport(Role(control))
  BY ReportType DEF IInv, TypeOK
<1> DEFINE m == Role(control)
<1> HIDE DEF m
<1>2. /\ Len(down'[c]) = Len(down[c]) + 1 /\ Len(down[c]) \in Nat
      /\ \A i \in 1 .. Len(down[c]) : down'[c][i] = down[c][i]
      /\ down'[c][Len(down[c]) + 1] = Role(control)
  BY <1>1
<1>3. Told(c)
  BY DEF IInv
<1>4. ASSUME NEW i \in 1 .. Len(down'[c]), Newest(c, i)'
      PROVE  i \in 1 .. Len(down[c]) /\ Newest(c, i)
  <2>1. i # Len(down[c]) + 1
    BY <1>1, <1>2, <1>4 DEF Newest, IsReport
  <2>2. i \in 1 .. Len(down[c])
    BY <1>2, <2>1
  <2> QED
    BY <1>2, <1>4, <2>2 DEF Newest, IsReport
<1>5. \A i \in 1 .. Len(down'[c]) : Newest(c, i)' => Agrees(down[c][i].settings, c)'
  BY <1>2, <1>3, <1>4 DEF Told, Agrees
<1>6. ASSUME \A i \in 1 .. Len(down'[c]) : ~ IsReport(down'[c][i])
      PROVE  \A i \in 1 .. Len(down[c]) : ~ IsReport(down[c][i])
  BY <1>2, <1>6
<1> QED
  BY <1>3, <1>5, <1>6 DEF Told, Agrees, IsReport

\* A client about whom nothing changes but what Mine and Owns look at.
LEMMA SameTold ==
  ASSUME NEW c \in Clients, Told(c),
         down'[c] = down[c], server' = server, unreported'[c] = unreported[c],
         client'[c].valid = client[c].valid, client'[c].confirmed = client[c].confirmed,
         client'[c].ready = client[c].ready
  PROVE  Told(c)'
BY DEF Told, Agrees, Newest, IsReport

LEMMA SameMine ==
  ASSUME NEW c \in Clients, Mine(c),
         client'[c] = client[c], edited'[c] = edited[c], unsent'[c] = unsent[c]
  PROVE  Mine(c)'
BY DEF Mine, MineOf

LEMMA SameOwns ==
  ASSUME NEW c \in Clients, Owns(c), up'[c] = up[c]
  PROVE  Owns(c)'
BY DEF Owns, OwnEdits

LEMMA AppendOwns ==
  ASSUME NEW c \in Clients, Owns(c), up[c] \in Seq(Commands),
         NEW m \in Commands, OwnEdits(m), up'[c] = Append(up[c], m)
  PROVE  Owns(c)'
<1>1. /\ Len(up'[c]) = Len(up[c]) + 1 /\ Len(up[c]) \in Nat
      /\ \A i \in 1 .. Len(up[c]) : up'[c][i] = up[c][i]
      /\ up'[c][Len(up[c]) + 1] = m
  OBVIOUS
<1>2. ASSUME NEW i \in 1 .. Len(up'[c]) PROVE OwnEdits(up'[c][i])
  <2>1. i \in 1 .. Len(up[c]) \/ i = Len(up[c]) + 1
    BY <1>1
  <2> QED
    BY <1>1, <2>1 DEF Owns
<1> QED
  BY <1>2 DEF Owns, OwnEdits

LEMMA TailOwns ==
  ASSUME NEW c \in Clients, Owns(c), up[c] \in Seq(Commands), up[c] # <<>>,
         up'[c] = Tail(up[c])
  PROVE  Owns(c)'
<1>1. /\ Len(up'[c]) = Len(up[c]) - 1 /\ Len(up[c]) \in Nat
      /\ \A i \in 1 .. Len(up'[c]) : up'[c][i] = up[c][i + 1]
  OBVIOUS
<1>2. ASSUME NEW i \in 1 .. Len(up'[c]) PROVE OwnEdits(up'[c][i])
  <2>1. i + 1 \in 1 .. Len(up[c])
    BY <1>1
  <2> QED
    BY <1>1, <2>1 DEF Owns
<1> QED
  BY <1>2 DEF Owns, OwnEdits

-----------------------------------------------------------------------------
(* The client *)

Part(c) == Told(c) /\ Mine(c) /\ Owns(c)

\* What a step of one client has to keep: types, and its own part.
ClientFits ==
  /\ client' \in [Clients -> ClientType] /\ up' \in [Clients -> Seq(Commands)]
  /\ edited' \in [Clients -> SUBSET Keys] /\ unsent' \in [Clients -> SUBSET Keys]
  /\ \A c \in Clients : Part(c)'

Grows(s, t) == \A i \in 1 .. Len(s) : i \in 1 .. Len(t) /\ t[i] = s[i]

LEMMA AppendGrows ==
  ASSUME NEW S, NEW s \in Seq(S), NEW x \in S
  PROVE  Grows(s, Append(s, x)) /\ Grows(s, s)
BY DEF Grows

\* What a step of c that sends settings leaves as it is.
Keeps(c) ==
  /\ client'[c].ready = client[c].ready /\ client'[c].valid = client[c].valid
  /\ client'[c].asks = client[c].asks /\ Grows(up[c], up'[c])
  /\ \A d \in Clients \ {c} : client'[d] = client[d] /\ up'[d] = up[d]

\* A command with settings: on its way, and waited for; or its edits are lost.
LEMMA Sending ==
  ASSUME IInv, NEW c \in Clients, NEW k \in ClientType,
         NEW kind \in {"setParameters", "start"}, NEW mine \in SUBSET Keys,
         SendSettings(c, k, kind, mine), UNCHANGED <<server, down, unreported>>,
         k.valid = client[c].valid, k.confirmed = client[c].confirmed,
         k.ready = client[c].ready, k.asks = client[c].asks, edited[c] \subseteq mine,
         \A key \in Keys \ mine : k.pending[key] = client[c].pending[key]
  PROVE  ClientFits /\ Keeps(c)
<1> DEFINE now == IF k.control THEN Refreshed(k) ELSE k
           changed == mine \cup Differ(k.pending, now.pending)
           departed == Differ(TakenOver(k.confirmed), k.confirmed)
           settings == IF kind = "start" THEN ForCommand(now) ELSE Patch(now)
           m == [kind |-> kind, settings |-> settings, known |-> k.valid,
                 own |-> changed \cup departed]
           waiting == [now EXCEPT !.awaiting = TRUE]
<1>1. /\ client \in [Clients -> ClientType] /\ up \in [Clients -> Seq(Commands)]
      /\ edited \in [Clients -> SUBSET Keys] /\ unsent \in [Clients -> SUBSET Keys]
  BY DEF IInv, TypeOK
<1>2. \A d \in Clients : Told(d) /\ Mine(d) /\ Owns(d)
  BY DEF IInv
<1>a. /\ now \in ClientType /\ now.valid = k.valid /\ now.confirmed = k.confirmed
      /\ now.ready = k.ready /\ now.asks = k.asks
  <2>1. Shown[k.pending] \in Settings
    BY Conversions DEF ClientType
  <2>2. /\ Refreshed(k) \in ClientType /\ Refreshed(k).valid = k.valid
        /\ Refreshed(k).confirmed = k.confirmed /\ Refreshed(k).ready = k.ready
        /\ Refreshed(k).asks = k.asks
    BY <2>1 DEF ClientType, Refreshed
  <2> QED
    BY <2>2
<1>b. changed \in SUBSET Keys /\ departed \in SUBSET Keys /\ mine \subseteq changed
  BY DEF Differ
<1>c. SendSettings(c, k, kind, mine) <=>
        /\ edited' = [edited EXCEPT ![c] = changed]
        /\ IF k.control /\ k.ready
           THEN /\ client' = [client EXCEPT ![c] = waiting]
                /\ up' = [up EXCEPT ![c] = Append(@, m)]
                /\ unsent' = [unsent EXCEPT ![c] = changed \ DOMAIN settings]
           ELSE /\ client' = [client EXCEPT ![c] = now]
                /\ unsent' = [unsent EXCEPT ![c] = changed]
                /\ UNCHANGED up
  BY Zenon DEF SendSettings
<1>d. \A key \in Keys \ changed : now.pending[key] = k.pending[key]
  BY DEF Differ
<1> HIDE DEF now
<1>3. now.valid => \A key \in Keys \ changed : now.pending[key] = TakenOver(now.confirmed)[key]
  <2> SUFFICES ASSUME now.valid, NEW key \in Keys \ changed
               PROVE  now.pending[key] = TakenOver(now.confirmed)[key]
    OBVIOUS
  <2>1. now.pending[key] = k.pending[key]
    BY <1>d
  <2> HIDE DEF changed
  <2>2. key \in Keys \ mine /\ key \in Keys \ edited[c]
    BY <1>b
  <2>3. k.pending[key] = client[c].pending[key]
    BY <2>2
  <2>4. client[c].pending[key] = TakenOver(client[c].confirmed)[key]
    BY <1>2, <1>a, <2>2 DEF Mine, MineOf
  <2> QED
    BY <1>a, <2>1, <2>3, <2>4
<1>4. /\ settings \in Patches
      /\ kind = "setParameters" /\ k.valid => DOMAIN settings \subseteq changed \cup departed
  <2> HIDE DEF changed
  <2> QED
    BY <1>3, <1>a, <1>b, Sent
<1>5. k.valid \in BOOLEAN
  BY DEF ClientType
<1> HIDE DEF settings, changed, departed
<1>6. m \in Commands /\ OwnEdits(m)
  BY <1>4, <1>5, <1>b DEF Commands, OwnEdits
<1>7. /\ waiting \in ClientType /\ waiting.awaiting = TRUE
      /\ waiting.valid = k.valid /\ waiting.confirmed = k.confirmed /\ waiting.ready = k.ready
      /\ waiting.pending = now.pending /\ waiting.asks = k.asks
  BY <1>a DEF ClientType
<1>8. CASE k.control /\ k.ready
  <2> HIDE DEF m, waiting
  <2>1. /\ client' = [client EXCEPT ![c] = waiting]
        /\ up' = [up EXCEPT ![c] = Append(@, m)]
        /\ edited' = [edited EXCEPT ![c] = changed]
        /\ unsent' = [unsent EXCEPT ![c] = changed \ DOMAIN settings]
    BY <1>8, <1>c
  <2>2. /\ client'[c] = waiting /\ up'[c] = Append(up[c], m) /\ edited'[c] = changed
        /\ \A d \in Clients \ {c} : /\ client'[d] = client[d] /\ up'[d] = up[d]
                                    /\ edited'[d] = edited[d] /\ unsent'[d] = unsent[d]
    BY <1>1, <2>1
  <2>3. /\ client' \in [Clients -> ClientType] /\ up' \in [Clients -> Seq(Commands)]
        /\ edited' \in [Clients -> SUBSET Keys] /\ unsent' \in [Clients -> SUBSET Keys]
    BY <1>1, <1>6, <1>7, <1>b, <2>1
  <2>4. Told(c)'
    BY <1>2, <1>7, <2>2, SameTold
  <2>5. Mine(c)'
    BY <1>3, <1>7, <1>a, <2>2 DEF Mine, MineOf
  <2>6. Owns(c)'
    BY <1>1, <1>2, <1>6, <2>2, AppendOwns
  <2>7. \A d \in Clients \ {c} : Told(d)' /\ Mine(d)' /\ Owns(d)'
    BY <1>2, <2>2, SameTold, SameMine, SameOwns
  <2>8. Grows(up[c], up'[c])
    BY <1>1, <1>6, <2>2, AppendGrows
  <2> QED
    BY <1>7, <2>2, <2>3, <2>4, <2>5, <2>6, <2>7, <2>8 DEF ClientFits, Part, Keeps
<1>9. CASE ~ (k.control /\ k.ready)
  <2>1. /\ client' = [client EXCEPT ![c] = now] /\ up' = up
        /\ edited' = [edited EXCEPT ![c] = changed]
        /\ unsent' = [unsent EXCEPT ![c] = changed]
    BY <1>9, <1>c
  <2>2. /\ client'[c] = now /\ edited'[c] = changed /\ unsent'[c] = changed
        /\ \A d \in Clients \ {c} : /\ client'[d] = client[d]
                                    /\ edited'[d] = edited[d] /\ unsent'[d] = unsent[d]
    BY <1>1, <2>1
  <2>3. /\ client' \in [Clients -> ClientType] /\ up' \in [Clients -> Seq(Commands)]
        /\ edited' \in [Clients -> SUBSET Keys] /\ unsent' \in [Clients -> SUBSET Keys]
    BY <1>1, <1>a, <1>b, <2>1
  <2>4. Told(c)'
    BY <1>2, <1>a, <2>2, SameTold
  <2>5. Mine(c)'
    BY <1>3, <2>2 DEF Mine, MineOf
  <2>6. \A d \in Clients : Owns(d)'
    BY <1>2, <2>1, SameOwns
  <2>7. \A d \in Clients \ {c} : Told(d)' /\ Mine(d)'
    BY <1>2, <2>2, SameTold, SameMine
  <2>8. Grows(up[c], up'[c])
    BY <2>1 DEF Grows
  <2> QED
    BY <1>a, <2>1, <2>2, <2>3, <2>4, <2>5, <2>6, <2>7, <2>8 DEF ClientFits, Part, Keeps
<1> QED
  BY <1>8, <1>9

\* A step of a client that sends no settings: it stays as the news has it, and
\* what it has edited is waited for, undone or given up.
LEMMA Keeping ==
  ASSUME IInv, NEW c \in Clients, NEW k \in ClientType, NEW mine \in SUBSET Keys,
         NEW kept \in SUBSET Keys,
         client' = [client EXCEPT ![c] = k],
         edited' = [edited EXCEPT ![c] = mine], unsent' = [unsent EXCEPT ![c] = kept],
         up' = up \/ up' = [up EXCEPT ![c] = Append(@, [kind |-> "requestServerState"])],
         MineOf(k, mine, kept), Told(c)',
         \A d \in Clients \ {c} : down'[d] = down[d],
         UNCHANGED <<server, unreported>>
  PROVE  ClientFits
<1> DEFINE m == [kind |-> "requestServerState"]
<1>1. /\ client \in [Clients -> ClientType] /\ up \in [Clients -> Seq(Commands)]
      /\ edited \in [Clients -> SUBSET Keys] /\ unsent \in [Clients -> SUBSET Keys]
  BY DEF IInv, TypeOK
<1>2. \A d \in Clients : Told(d) /\ Mine(d) /\ Owns(d)
  BY DEF IInv
<1>3. m \in Commands /\ OwnEdits(m)
  BY DEF Commands, OwnEdits
<1>4. up' = up \/ up' = [up EXCEPT ![c] = Append(@, m)]
  OBVIOUS
<1> HIDE DEF m
<1>5. /\ client'[c] = k /\ edited'[c] = mine /\ unsent'[c] = kept
      /\ \A d \in Clients \ {c} : /\ client'[d] = client[d] /\ up'[d] = up[d]
                                  /\ edited'[d] = edited[d] /\ unsent'[d] = unsent[d]
      /\ up'[c] = up[c] \/ up'[c] = Append(up[c], m)
  BY <1>1, <1>4
<1>6. /\ client' \in [Clients -> ClientType] /\ up' \in [Clients -> Seq(Commands)]
      /\ edited' \in [Clients -> SUBSET Keys] /\ unsent' \in [Clients -> SUBSET Keys]
  <2>1. up' \in [Clients -> Seq(Commands)]
    <3>1. CASE up' = up
      BY <1>1, <3>1
    <3>2. CASE up' = [up EXCEPT ![c] = Append(@, m)]
      <4>1. Append(up[c], m) \in Seq(Commands)
        BY <1>1, <1>3
      <4> QED
        BY <1>1, <3>2, <4>1, Zenon
    <3> QED
      BY <1>4, <3>1, <3>2
  <2> QED
    BY <1>1, <2>1
<1>7. Mine(c)'
  BY <1>5 DEF Mine, MineOf
<1>8. Owns(c)'
  BY <1>1, <1>2, <1>3, <1>5, AppendOwns, SameOwns
<1>9. \A d \in Clients \ {c} : Told(d)' /\ Mine(d)' /\ Owns(d)'
  BY <1>2, <1>5, SameTold, SameMine, SameOwns
<1> QED
  BY <1>6, <1>7, <1>8, <1>9 DEF ClientFits, Part

LEMMA EditFits ==
  ASSUME IInv, NEW c \in Clients, NEW key \in Keys, NEW value \in Values,
         NEW delayed \in BOOLEAN, Edit(c, key, value, delayed)
  PROVE  ClientFits /\ Keeps(c)
<1> DEFINE pending == client[c].pending
           shown == Adjusted[key][[pending EXCEPT ![key] = value]]
           k == [client[c] EXCEPT !.pending = shown]
           changed == Differ(pending, k.pending)
           mine == edited[c] \cup changed
           now == [k EXCEPT !.debounce = FALSE]
           later == [k EXCEPT !.debounce = @ \/ k.control]
<1>1. client[c] \in ClientType /\ edited \in [Clients -> SUBSET Keys]
      /\ unsent \in [Clients -> SUBSET Keys] /\ client \in [Clients -> ClientType]
  BY DEF IInv, TypeOK
<1>2. Told(c) /\ Mine(c)
  BY DEF IInv
<1>a. shown \in Settings
  <2>1. [pending EXCEPT ![key] = value] \in Settings
    BY <1>1 DEF ClientType, Settings
  <2> QED
    BY <2>1, Conversions
<1>b. /\ UNCHANGED <<server, down, unreported>>
      /\ IF delayed \/ ~ k.control
         THEN /\ client' = [client EXCEPT ![c] = later] /\ edited' = [edited EXCEPT ![c] = mine]
              /\ unsent' = [unsent EXCEPT ![c] = IF k.control THEN @ ELSE @ \cup changed]
              /\ UNCHANGED up
         ELSE SendSettings(c, now, "setParameters", mine)
  BY DEF Edit
<1> HIDE DEF shown
<1>3. /\ k \in ClientType /\ k.valid = client[c].valid /\ k.confirmed = client[c].confirmed
      /\ k.ready = client[c].ready /\ k.debounce = client[c].debounce
      /\ k.awaiting = client[c].awaiting /\ k.asks = client[c].asks
      /\ \A other \in Keys \ changed : k.pending[other] = client[c].pending[other]
  BY <1>1, <1>a DEF ClientType, Differ
<1>4. mine \in SUBSET Keys /\ edited[c] \subseteq mine /\ changed \subseteq mine
  BY <1>1 DEF Differ
<1>6. CASE ~ (delayed \/ ~ k.control)
  <2>1. SendSettings(c, now, "setParameters", mine)
    BY <1>6, <1>b
  <2> HIDE DEF k, mine, changed
  <2>2. /\ now \in ClientType /\ now.valid = k.valid /\ now.confirmed = k.confirmed
        /\ now.ready = k.ready /\ now.pending = k.pending /\ now.asks = k.asks
    BY <1>3 DEF ClientType
  <2> HIDE DEF now
  <2>3. \A other \in Keys \ mine : now.pending[other] = client[c].pending[other]
    BY <1>3, <1>4, <2>2
  <2> QED
    BY <1>3, <1>4, <1>b, <2>1, <2>2, <2>3, Sending
<1>7. CASE delayed \/ ~ k.control
  <2> DEFINE kept == IF k.control THEN unsent[c] ELSE unsent[c] \cup changed
  <2>1. /\ client' = [client EXCEPT ![c] = later] /\ edited' = [edited EXCEPT ![c] = mine]
        /\ unsent' = [unsent EXCEPT ![c] = IF k.control THEN @ ELSE @ \cup changed]
        /\ up' = up
    BY <1>7, <1>b
  <2>a. unsent' = [unsent EXCEPT ![c] = kept]
    BY <1>1, <2>1
  <2>b. kept \in SUBSET Keys
    BY <1>1 DEF Differ
  <2> HIDE DEF k, changed
  <2>2. /\ later \in ClientType /\ later.valid = k.valid /\ later.confirmed = k.confirmed
        /\ later.ready = k.ready /\ later.pending = k.pending /\ later.awaiting = k.awaiting
        /\ later.asks = k.asks
        /\ (k.control \/ k.debounce) => later.debounce
    BY <1>3 DEF ClientType
  <2>3. MineOf(later, mine, kept)
    BY <1>2, <1>3, <2>2 DEF Mine, MineOf
  <2> HIDE DEF later, mine, kept
  <2>4. client'[c] = later
    BY <1>1, <2>1
  <2>5. Told(c)'
    BY <1>2, <1>3, <1>b, <2>2, <2>4, SameTold
  <2>6. ClientFits
    BY <1>4, <1>b, <2>1, <2>a, <2>b, <2>2, <2>3, <2>5, Keeping
  <2>7. /\ \A d \in Clients \ {c} : client'[d] = client[d] /\ up'[d] = up[d]
        /\ Grows(up[c], up'[c])
    BY <1>1, <2>1 DEF Grows
  <2> QED
    BY <1>3, <2>2, <2>4, <2>6, <2>7 DEF Keeps
<1> QED
  BY <1>6, <1>7

LEMMA DebounceOver ==
  ASSUME NEW k \in ClientType
  PROVE  LET quiet == [k EXCEPT !.debounce = FALSE] IN
         /\ quiet \in ClientType /\ quiet.valid = k.valid /\ quiet.confirmed = k.confirmed
         /\ quiet.ready = k.ready /\ quiet.pending = k.pending /\ quiet.asks = k.asks
BY DEF ClientType

LEMMA SendingFits ==
  ASSUME IInv, NEW c \in Clients, DebounceTimer(c) \/ Start(c)
  PROVE  ClientFits /\ Keeps(c)
<1> DEFINE k == [client[c] EXCEPT !.debounce = FALSE]
<1>1. client[c] \in ClientType /\ edited[c] \in SUBSET Keys
  BY DEF IInv, TypeOK
<1>2. /\ k \in ClientType /\ k.valid = client[c].valid /\ k.confirmed = client[c].confirmed
      /\ k.ready = client[c].ready /\ k.pending = client[c].pending /\ k.asks = client[c].asks
  BY <1>1, DebounceOver
<1>3. PICK kind \in {"setParameters", "start"} : SendSettings(c, k, kind, edited[c])
  BY DEF DebounceTimer, Start
<1>4. UNCHANGED <<server, down, unreported>>
  BY DEF DebounceTimer, Start
<1> HIDE DEF k
<1> QED
  BY <1>1, <1>2, <1>3, <1>4, Sending

LEMMA GivingUpFits ==
  ASSUME IInv, NEW c \in Clients,
         OtherCommand(c) \/ RequestServerState(c) \/ AckTimeout(c)
  PROVE  ClientFits
<1>1. /\ client[c] \in ClientType /\ client \in [Clients -> ClientType]
      /\ edited \in [Clients -> SUBSET Keys] /\ unsent \in [Clients -> SUBSET Keys]
  BY DEF IInv, TypeOK
<1>2. Told(c) /\ Mine(c)
  BY DEF IInv
<1>3. UNCHANGED <<server, down, unreported>>
  BY DEF OtherCommand, RequestServerState, AckTimeout
<1>4. edited = [edited EXCEPT ![c] = edited[c]] /\ edited[c] \in SUBSET Keys
  BY <1>1
<1>5. CASE OtherCommand(c)
  <2> DEFINE k == [client[c] EXCEPT !.debounce = FALSE]
  <2>1. /\ client' = [client EXCEPT ![c] = k] /\ unsent' = [unsent EXCEPT ![c] = edited[c]]
        /\ edited' = edited /\ up' = up
    BY <1>5 DEF OtherCommand
  <2>2. /\ k \in ClientType /\ k.valid = client[c].valid /\ k.confirmed = client[c].confirmed
        /\ k.ready = client[c].ready /\ k.pending = client[c].pending
    BY <1>1, DebounceOver
  <2> HIDE DEF k
  <2>3. MineOf(k, edited[c], edited[c])
    BY <1>2, <2>2 DEF Mine, MineOf
  <2>4. Told(c)'
    BY <1>1, <1>2, <1>3, <2>1, <2>2, SameTold
  <2> QED
    BY <1>3, <1>4, <2>1, <2>2, <2>3, <2>4, Keeping
<1>6. CASE RequestServerState(c)
  <2> DEFINE asked == [client[c] EXCEPT !.asks = FALSE]
             k == [asked EXCEPT !.debounce = FALSE]
  <2>1. SendRequest(c, asked) /\ unsent' = [unsent EXCEPT ![c] = edited[c]] /\ edited' = edited
    BY <1>6 DEF RequestServerState
  <2>2. asked \in ClientType /\ asked.valid = client[c].valid
        /\ asked.confirmed = client[c].confirmed /\ asked.ready = client[c].ready
        /\ asked.pending = client[c].pending
    BY <1>1 DEF ClientType
  <2> HIDE DEF asked
  <2>3. /\ client' = [client EXCEPT ![c] = k]
        /\ up' = up \/ up' = [up EXCEPT ![c] = Append(@, [kind |-> "requestServerState"])]
    BY <2>1 DEF SendRequest
  <2>4. /\ k \in ClientType /\ k.valid = asked.valid /\ k.confirmed = asked.confirmed
        /\ k.ready = asked.ready /\ k.pending = asked.pending
    BY <2>2, DebounceOver
  <2> HIDE DEF k
  <2>5. MineOf(k, edited[c], edited[c])
    BY <1>2, <2>2, <2>4 DEF Mine, MineOf
  <2>6. Told(c)'
    BY <1>1, <1>2, <1>3, <2>2, <2>3, <2>4, SameTold
  <2> QED
    BY <1>3, <1>4, <2>1, <2>3, <2>4, <2>5, <2>6, Keeping
<1>7. CASE AckTimeout(c)
  <2> DEFINE back == Restored(client[c])
             k == [back EXCEPT !.debounce = FALSE]
             mine == IF client[c].valid THEN {} ELSE edited[c]
             kept == IF client[c].valid THEN {} ELSE edited[c]
  <2>1. /\ SendRequest(c, back)
        /\ edited' = [edited EXCEPT ![c] = mine] /\ unsent' = [unsent EXCEPT ![c] = kept]
    BY <1>1, <1>7 DEF AckTimeout
  <2>2. /\ back \in ClientType /\ back.valid = client[c].valid
        /\ back.confirmed = client[c].confirmed /\ back.ready = client[c].ready
        /\ back.pending = IF client[c].valid THEN TakenOver(client[c].confirmed)
                          ELSE client[c].pending
    <3>1. TakenOver(client[c].confirmed) \in Settings
      BY <1>1, Conversions DEF ClientType
    <3> QED
      BY <1>1, <3>1 DEF ClientType, Restored
  <2> HIDE DEF back
  <2>3. /\ client' = [client EXCEPT ![c] = k]
        /\ up' = up \/ up' = [up EXCEPT ![c] = Append(@, [kind |-> "requestServerState"])]
    BY <2>1 DEF SendRequest
  <2>4. /\ k \in ClientType /\ k.valid = back.valid /\ k.confirmed = back.confirmed
        /\ k.ready = back.ready /\ k.pending = back.pending
    BY <2>2, DebounceOver
  <2> HIDE DEF k
  <2>5. MineOf(k, mine, kept) /\ mine \in SUBSET Keys /\ kept \in SUBSET Keys
    BY <1>1, <2>2, <2>4 DEF MineOf
  <2>6. Told(c)'
    BY <1>1, <1>2, <1>3, <2>2, <2>3, <2>4, SameTold
  <2> HIDE DEF mine, kept
  <2> QED
    BY <1>3, <2>1, <2>3, <2>4, <2>5, <2>6, Keeping
<1> QED
  BY <1>5, <1>6, <1>7

\* Taking a message off the queue: a report becomes what the client knows, and
\* with no other behind it, that is the newest there is.
LEMMA TailTold ==
  ASSUME NEW c \in Clients, Told(c), down[c] \in Seq(Reports), down[c] # <<>>,
         down'[c] = Tail(down[c]), server' = server, unreported'[c] = unreported[c],
         client'[c].ready = client[c].ready,
         IF IsReport(Head(down[c]))
           THEN client'[c].valid /\ client'[c].confirmed = Head(down[c]).settings
           ELSE client'[c].valid = client[c].valid /\ client'[c].confirmed = client[c].confirmed
  PROVE  Told(c)'
<1>1. /\ Len(down'[c]) = Len(down[c]) - 1 /\ Len(down[c]) \in Nat \ {0}
      /\ \A i \in 1 .. Len(down'[c]) : down'[c][i] = down[c][i + 1]
      /\ Head(down[c]) = down[c][1]
  OBVIOUS
<1>2. ASSUME NEW i \in 1 .. Len(down'[c]), Newest(c, i)'
      PROVE  i + 1 \in 1 .. Len(down[c]) /\ Newest(c, i + 1)
  <2>1. i + 1 \in 1 .. Len(down[c]) /\ IsReport(down[c][i + 1])
    BY <1>1, <1>2 DEF Newest, IsReport
  <2>2. ASSUME NEW j \in (i + 1) + 1 .. Len(down[c]) PROVE ~ IsReport(down[c][j])
    <3>1. j - 1 \in i + 1 .. Len(down'[c]) /\ (j - 1) + 1 = j
      BY <1>1
    <3>2. j - 1 \in 1 .. Len(down'[c])
      BY <1>1, <3>1
    <3>3. ~ IsReport(down'[c][j - 1])
      BY <1>2, <3>1 DEF Newest, IsReport
    <3> QED
      BY <1>1, <3>1, <3>2, <3>3
  <2> QED
    BY <2>1, <2>2 DEF Newest
<1>3. \A i \in 1 .. Len(down'[c]) : Newest(c, i)' => Agrees(down[c][i].settings, c)'
  BY <1>1, <1>2 DEF Told, Agrees
<1>4. ASSUME \A i \in 1 .. Len(down'[c]) : ~ IsReport(down'[c][i])
      PROVE  \/ unreported'[c] = Keys
             \/ client'[c].valid /\ Agrees(client[c].confirmed, c)'
  <2>1. ASSUME NEW j \in 2 .. Len(down[c]) PROVE ~ IsReport(down[c][j])
    <3>1. j - 1 \in 1 .. Len(down'[c]) /\ (j - 1) + 1 = j
      BY <1>1
    <3> QED
      BY <1>1, <1>4, <3>1
  <2>2. CASE IsReport(Head(down[c]))
    <3>1. Newest(c, 1) /\ 1 \in 1 .. Len(down[c])
      BY <1>1, <2>1, <2>2 DEF Newest
    <3> QED
      BY <1>1, <2>2, <3>1 DEF Told, Agrees
  <2>3. CASE ~ IsReport(Head(down[c]))
    <3>1. ASSUME NEW i \in 1 .. Len(down[c]) PROVE ~ IsReport(down[c][i])
      <4>1. i = 1 \/ i \in 2 .. Len(down[c])
        BY <1>1
      <4> QED
        BY <1>1, <2>1, <2>3, <4>1
    <3> QED
      BY <2>3, <3>1 DEF Told, Agrees
  <2> QED
    BY <2>2, <2>3
<1>5. client'[c].ready \/ unreported'[c] = Keys
  BY DEF Told
<1> QED
  BY <1>3, <1>4, <1>5 DEF Told, IsReport

LEMMA ClientReceiveFits ==
  ASSUME IInv, NEW c \in Clients, ClientReceive(c)
  PROVE  ClientFits /\ down' \in [Clients -> Seq(Reports)]
<1> DEFINE m == Head(down[c])
<1>1. /\ client[c] \in ClientType /\ client \in [Clients -> ClientType]
      /\ edited \in [Clients -> SUBSET Keys] /\ unsent \in [Clients -> SUBSET Keys]
      /\ down \in [Clients -> Seq(Reports)] /\ down[c] \in Seq(Reports)
  BY DEF IInv, TypeOK
<1>2. Told(c) /\ Mine(c)
  BY DEF IInv
<1>3. /\ down[c] # <<>> /\ down' = [down EXCEPT ![c] = Tail(@)]
      /\ UNCHANGED <<server, up, unreported>>
  BY DEF ClientReceive
<1>4. /\ down' \in [Clients -> Seq(Reports)] /\ down'[c] = Tail(down[c])
      /\ \A d \in Clients \ {c} : down'[d] = down[d]
  <2>1. Tail(down[c]) \in Seq(Reports)
    BY <1>1, <1>3
  <2> QED
    BY <1>1, <1>3, <2>1, Zenon
<1>5. m \in Reports
  BY <1>1, <1>3
<1>6. /\ edited = [edited EXCEPT ![c] = edited[c]] /\ edited[c] \in SUBSET Keys
      /\ unsent = [unsent EXCEPT ![c] = unsent[c]] /\ unsent[c] \in SUBSET Keys
  BY <1>1
<1>7. CASE m.kind = "role"
  <2> DEFINE k == [client[c] EXCEPT !.control = m.control]
  <2>1. client' = [client EXCEPT ![c] = k] /\ edited' = edited /\ unsent' = unsent
    BY <1>7 DEF ClientReceive
  <2>2. m.control \in BOOLEAN /\ ~ IsReport(m)
    BY <1>5, <1>7, ReportType DEF IsReport
  <2> HIDE DEF m
  <2>3. /\ k \in ClientType /\ k.valid = client[c].valid /\ k.confirmed = client[c].confirmed
        /\ k.ready = client[c].ready /\ k.pending = client[c].pending
        /\ k.debounce = client[c].debounce /\ k.awaiting = client[c].awaiting
    BY <1>1, <2>2 DEF ClientType
  <2> HIDE DEF k
  <2>4. MineOf(k, edited[c], unsent[c])
    BY <1>2, <2>3 DEF Mine, MineOf
  <2>5. client'[c] = k
    BY <1>1, <2>1
  <2>6. Told(c)'
    BY <1>1, <1>2, <1>3, <1>4, <2>2, <2>3, <2>5, TailTold DEF m
  <2> QED
    BY <1>3, <1>4, <1>6, <2>1, <2>3, <2>4, <2>6, Keeping
<1>8. CASE m.kind # "role"
  <2> DEFINE k == Applied(client[c], m.settings)
  <2>1. /\ client' = [client EXCEPT ![c] = k] /\ edited' = [edited EXCEPT ![c] = {}]
        /\ unsent' = [unsent EXCEPT ![c] = {}]
    BY <1>8 DEF ClientReceive
  <2>2. m.settings \in Settings /\ IsReport(m)
    BY <1>5, <1>8, ReportType DEF IsReport
  <2> HIDE DEF m
  <2>3. /\ k \in ClientType /\ k.valid = TRUE /\ k.confirmed = m.settings
        /\ k.ready = client[c].ready /\ k.pending = TakenOver(m.settings)
    <3>1. TakenOver(m.settings) \in Settings
      BY <2>2, Conversions
    <3> QED
      BY <1>1, <2>2, <3>1 DEF ClientType, Applied
  <2> HIDE DEF k
  <2>4. MineOf(k, {}, {})
    BY <2>3 DEF MineOf
  <2>5. client'[c] = k
    BY <1>1, <2>1
  <2>6. Told(c)'
    BY <1>1, <1>2, <1>3, <1>4, <2>2, <2>3, <2>5, TailTold DEF m
  <2> QED
    BY <1>3, <1>4, <2>1, <2>3, <2>4, <2>6, Keeping
<1> QED
  BY <1>4, <1>7, <1>8

-----------------------------------------------------------------------------
(* The rest of the state, and the server's steps *)

Counters == edits' \in 0 .. MaxEdits /\ changes' \in 0 .. MaxChanges

ServerFits ==
  /\ server' \in Settings /\ controller' \in Clients \cup {None}
  /\ down' \in [Clients -> Seq(Reports)] /\ unreported' \in [Clients -> SUBSET Keys]

LEMMA Fitting ==
  ASSUME ClientFits, ServerFits, Counters
  PROVE  IInv'
BY DEF ClientFits, ServerFits, Counters, Part, IInv, TypeOK

LEMMA ClientStep ==
  ASSUME IInv, NEW c \in Clients, User(c) \/ System(c), ~ ServerReceive(c)
  PROVE  IInv'
<1>1. /\ server \in Settings /\ controller \in Clients \cup {None}
      /\ down \in [Clients -> Seq(Reports)] /\ unreported \in [Clients -> SUBSET Keys]
      /\ edits \in 0 .. MaxEdits /\ changes \in 0 .. MaxChanges
  BY DEF IInv, TypeOK
<1>2. MaxEdits \in Nat
  BY SettingsAssumption
<1>3. CASE \E key \in Keys, value \in Values, delayed \in BOOLEAN : Edit(c, key, value, delayed)
  <2>1. PICK key \in Keys, value \in Values, delayed \in BOOLEAN : Edit(c, key, value, delayed)
    BY <1>3
  <2>2. ClientFits
    BY <2>1, EditFits
  <2>3. ServerFits /\ Counters
    BY <1>1, <1>2, <2>1 DEF Edit, ServerFits, Counters
  <2> QED
    BY <2>2, <2>3, Fitting
<1>4. CASE DebounceTimer(c) \/ Start(c)
  <2>1. ClientFits
    BY <1>4, SendingFits
  <2>2. ServerFits /\ Counters
    BY <1>1, <1>2, <1>4 DEF DebounceTimer, Start, ServerFits, Counters
  <2> QED
    BY <2>1, <2>2, Fitting
<1>5. CASE OtherCommand(c) \/ RequestServerState(c) \/ AckTimeout(c)
  <2>1. ClientFits
    BY <1>5, GivingUpFits
  <2>2. ServerFits /\ Counters
    BY <1>1, <1>5 DEF OtherCommand, RequestServerState, AckTimeout, ServerFits, Counters
  <2> QED
    BY <2>1, <2>2, Fitting
<1>6. CASE ClientReceive(c)
  <2>1. ClientFits /\ down' \in [Clients -> Seq(Reports)]
    BY <1>6, ClientReceiveFits
  <2>2. ServerFits /\ Counters
    BY <1>1, <1>6, <2>1 DEF ClientReceive, ServerFits, Counters
  <2> QED
    BY <2>1, <2>2, Fitting
<1> QED
  BY <1>3, <1>4, <1>5, <1>6 DEF User, System

LEMMA ServerReceiveStep ==
  ASSUME IInv, NEW c \in Clients, ServerReceive(c)
  PROVE  IInv'
<1> DEFINE m == Head(up[c])
<1>1. /\ server \in Settings /\ controller \in Clients \cup {None}
      /\ down \in [Clients -> Seq(Reports)] /\ unreported \in [Clients -> SUBSET Keys]
      /\ edits \in 0 .. MaxEdits /\ changes \in 0 .. MaxChanges
      /\ up \in [Clients -> Seq(Commands)] /\ up[c] \in Seq(Commands)
      /\ client \in [Clients -> ClientType]
      /\ edited \in [Clients -> SUBSET Keys] /\ unsent \in [Clients -> SUBSET Keys]
  BY DEF IInv, TypeOK
<1>2. \A d \in Clients : Told(d) /\ Mine(d) /\ Owns(d)
  BY DEF IInv
<1>3. /\ up[c] # <<>> /\ up' = [up EXCEPT ![c] = Tail(@)]
      /\ UNCHANGED <<controller, client, edited, unsent, edits, changes>>
  BY DEF ServerReceive
<1>4. m \in Commands
  BY <1>1, <1>3
<1>5. up' \in [Clients -> Seq(Commands)] /\ up'[c] = Tail(up[c])
      /\ \A d \in Clients \ {c} : up'[d] = up[d]
  <2>1. Tail(up[c]) \in Seq(Commands)
    BY <1>1, <1>3
  <2> QED
    BY <1>1, <1>3, <2>1, Zenon
<1>6. \A d \in Clients : Mine(d)' /\ Owns(d)'
  BY <1>1, <1>2, <1>3, <1>5, TailOwns, SameOwns, SameMine
<1>7. server' \in Settings
  <2>1. m.kind # "requestServerState" => With(server, m.settings) \in Settings
    BY <1>1, <1>4, CommandType, WithType
  <2> QED
    BY <1>1, <2>1 DEF ServerReceive
<1>8. /\ down' \in [Clients -> Seq(Reports)] /\ unreported' \in [Clients -> SUBSET Keys]
      /\ \A d \in Clients : Told(d)'
  <2>1. CASE UNCHANGED <<server, down, unreported>>
    <3>1. client' = client
      BY <1>3
    <3>2. \A d \in Clients : Told(d)'
      BY <1>2, <2>1, <3>1, SameTold
    <3> QED
      BY <1>1, <2>1, <3>2
  <2>2. CASE \E acknowledged \in SUBSET Clients : Report(server', acknowledged)
    <3>1. PICK acknowledged \in SUBSET Clients : Report(server', acknowledged)
      BY <2>2
    <3>2. client' = client
      BY <1>3
    <3> QED
      BY <1>7, <3>1, <3>2, Reporting
  <2> QED
    BY <2>1, <2>2 DEF ServerReceive
<1>9. ClientFits /\ ServerFits /\ Counters
  BY <1>1, <1>3, <1>5, <1>6, <1>7, <1>8 DEF ClientFits, ServerFits, Counters, Part
<1> QED
  BY <1>9, Fitting

LEMMA ServerEditStep ==
  ASSUME IInv, NEW key \in Keys, NEW value \in Values, ServerEdit(key, value)
  PROVE  IInv'
<1>1. /\ server \in Settings /\ controller \in Clients \cup {None}
      /\ down \in [Clients -> Seq(Reports)] /\ unreported \in [Clients -> SUBSET Keys]
      /\ edits \in 0 .. MaxEdits /\ changes \in 0 .. MaxChanges
      /\ up \in [Clients -> Seq(Commands)]
      /\ client \in [Clients -> ClientType]
      /\ edited \in [Clients -> SUBSET Keys] /\ unsent \in [Clients -> SUBSET Keys]
  BY DEF IInv, TypeOK
<1>2. \A d \in Clients : Told(d) /\ Mine(d) /\ Owns(d)
  BY DEF IInv
<1>3. /\ server' = Adjusted[key][[server EXCEPT ![key] = value]]
      /\ UNCHANGED <<controller, client, up, edited, unsent, edits>>
      /\ changes' \in 0 .. MaxChanges
  BY <1>1, SettingsAssumption DEF ServerEdit
<1>4. server' \in Settings
  <2>1. [server EXCEPT ![key] = value] \in Settings
    BY <1>1 DEF Settings
  <2> QED
    BY <1>3, <2>1, Conversions
<1>5. \A d \in Clients : Mine(d)' /\ Owns(d)'
  BY <1>2, <1>3, SameMine, SameOwns
<1>6. /\ down' \in [Clients -> Seq(Reports)] /\ unreported' \in [Clients -> SUBSET Keys]
      /\ \A d \in Clients : Told(d)'
  <2>1. CASE key \in Reported
    <3>1. Report(server', {}) /\ client' = client
      BY <1>3, <2>1 DEF ServerEdit
    <3> QED
      BY <1>4, <3>1, Reporting
  <2>2. CASE key \notin Reported
    <3>1. /\ unreported' = [d \in Clients |-> unreported[d] \cup Differ(server, server')]
          /\ down' = down
      BY <2>2 DEF ServerEdit
    <3>2. ASSUME NEW d \in Clients PROVE Told(d)'
      <4>1. \A other \in Keys \ unreported'[d] :
              other \in Keys \ unreported[d] /\ server'[other] = server[other]
        BY <1>1, <3>1 DEF Differ
      <4>2. \A i \in 1 .. Len(down[d]) : Newest(d, i)' => Newest(d, i)
        BY <3>1 DEF Newest, IsReport
      <4>3. unreported[d] = Keys => unreported'[d] = Keys
        BY <1>1, <3>1 DEF Differ
      <4>4. \A settings : Agrees(settings, d) =>
              \A other \in Keys \ unreported'[d] : settings[other] = server'[other]
        BY <4>1 DEF Agrees
      <4>5. down'[d] = down[d] /\ client'[d] = client[d]
        BY <1>3, <3>1
      <4>6. Told(d)
        BY <1>2
      <4> QED
        BY <4>2, <4>3, <4>4, <4>5, <4>6 DEF Told, Agrees, IsReport
    <3>3. down' \in [Clients -> Seq(Reports)] /\ unreported' \in [Clients -> SUBSET Keys]
      BY <1>1, <3>1 DEF Differ
    <3> QED
      BY <3>2, <3>3
  <2> QED
    BY <2>1, <2>2
<1>7. ClientFits /\ ServerFits /\ Counters
  BY <1>1, <1>3, <1>4, <1>5, <1>6 DEF ClientFits, ServerFits, Counters, Part
<1> QED
  BY <1>7, Fitting

-----------------------------------------------------------------------------
(* Connections and control *)

LEMMA SetControllerStep ==
  ASSUME IInv, NEW c \in Clients, SetController(c)
  PROVE  IInv'
<1>1. /\ server \in Settings /\ controller \in Clients
      /\ down \in [Clients -> Seq(Reports)] /\ unreported \in [Clients -> SUBSET Keys]
      /\ edits \in 0 .. MaxEdits /\ changes \in 0 .. MaxChanges
      /\ up \in [Clients -> Seq(Commands)]
      /\ client \in [Clients -> ClientType]
      /\ edited \in [Clients -> SUBSET Keys] /\ unsent \in [Clients -> SUBSET Keys]
  BY DEF IInv, TypeOK, SetController
<1>2. \A d \in Clients : Told(d) /\ Mine(d) /\ Owns(d)
  BY DEF IInv
<1>3. /\ controller # c /\ controller' = c /\ changes' \in 0 .. MaxChanges
      /\ UNCHANGED <<server, client, up, unreported, edited, unsent, edits>>
      /\ down' = [down EXCEPT ![c] = Append(@, Role(TRUE)),
                              ![controller] = Append(@, Role(FALSE))]
  BY <1>1, SettingsAssumption DEF SetController
<1> DEFINE gained == Append(down[c], Role(TRUE))
           lost == Append(down[controller], Role(FALSE))
<1>4. gained \in Seq(Reports) /\ lost \in Seq(Reports)
  <2>1. Role(TRUE) \in Reports /\ Role(FALSE) \in Reports
    BY ReportType
  <2>2. down[c] \in Seq(Reports) /\ down[controller] \in Seq(Reports)
    BY <1>1
  <2> QED
    BY <2>1, <2>2, AppendType, Zenon
<1>5. down' = [down EXCEPT ![c] = gained, ![controller] = lost]
  BY <1>1, <1>3
<1>6. /\ down'[c] = Append(down[c], Role(TRUE))
      /\ down'[controller] = Append(down[controller], Role(FALSE))
      /\ \A d \in Clients \ {c, controller} : down'[d] = down[d]
  BY <1>1, <1>3
<1> HIDE DEF gained, lost
<1>7. down' \in [Clients -> Seq(Reports)]
  BY <1>1, <1>4, <1>5
<1>8. ASSUME NEW d \in Clients PROVE Told(d)'
  <2>1. d \in {c, controller} \/ down'[d] = down[d]
    BY <1>6
  <2>2. client'[d] = client[d] /\ unreported'[d] = unreported[d] /\ server' = server
    BY <1>3
  <2>3. client'[d].ready \/ unreported'[d] = Keys
    BY <1>2, <2>2 DEF Told
  <2> QED
    BY <1>1, <1>2, <1>6, <2>1, <2>2, <2>3, RoleTold, SameTold
<1>9. \A d \in Clients : Mine(d)' /\ Owns(d)'
  BY <1>2, <1>3, SameMine, SameOwns
<1>10. ClientFits /\ ServerFits /\ Counters
  BY <1>1, <1>3, <1>7, <1>8, <1>9 DEF ClientFits, ServerFits, Counters, Part
<1> QED
  BY <1>10, Fitting

LEMMA ConnectStep ==
  ASSUME IInv, NEW c \in Clients, Connect(c)
  PROVE  IInv'
<1>1. /\ server \in Settings /\ controller \in Clients \cup {None}
      /\ down \in [Clients -> Seq(Reports)] /\ unreported \in [Clients -> SUBSET Keys]
      /\ edits \in 0 .. MaxEdits /\ changes \in 0 .. MaxChanges
      /\ up \in [Clients -> Seq(Commands)]
      /\ client \in [Clients -> ClientType]
      /\ edited \in [Clients -> SUBSET Keys] /\ unsent \in [Clients -> SUBSET Keys]
  BY DEF IInv, TypeOK
<1>2. \A d \in Clients : Told(d) /\ Mine(d) /\ Owns(d)
  BY DEF IInv
<1>3. /\ controller' \in Clients \cup {None}
      /\ UNCHANGED <<server, up, down, unreported, edited, unsent, edits, changes>>
      /\ client' = [client EXCEPT ![c].ready = TRUE, ![c].asks = TRUE,
                                  ![c].control = controller' = c]
  BY <1>1 DEF Connect
<1> DEFINE control == controller' = c
           k == [client[c] EXCEPT !.ready = TRUE, !.asks = TRUE, !.control = control]
<1>a. control \in BOOLEAN
  OBVIOUS
<1>b. client' = [client EXCEPT ![c] = k]
  BY <1>1, <1>3
<1> HIDE DEF control
<1>c. /\ k \in ClientType
      /\ k.ready = TRUE /\ k.valid = client[c].valid /\ k.confirmed = client[c].confirmed
      /\ k.pending = client[c].pending /\ k.debounce = client[c].debounce
      /\ k.awaiting = client[c].awaiting
  BY <1>1, <1>a DEF ClientType
<1> HIDE DEF k
<1>4. client' \in [Clients -> ClientType]
  BY <1>1, <1>b, <1>c
<1>d. UNCHANGED <<server, up, down, unreported, edited, unsent>>
  BY <1>3
<1>5. client'[c] = k /\ \A d \in Clients \ {c} : client'[d] = client[d]
  BY <1>1, <1>b
<1>6. Told(c)' /\ Mine(c)'
  <2>1. Told(c)'
    BY <1>2, <1>5, <1>c, <1>d DEF Told, Agrees, Newest, IsReport
  <2>2. Mine(c)'
    BY <1>2, <1>5, <1>c, <1>d DEF Mine, MineOf
  <2> QED
    BY <2>1, <2>2
<1>7. \A d \in Clients \ {c} : Told(d)' /\ Mine(d)'
  BY <1>2, <1>3, <1>5, SameTold, SameMine
<1>8. \A d \in Clients : Owns(d)'
  BY <1>2, <1>3, SameOwns
<1>9. ClientFits /\ ServerFits /\ Counters
  BY <1>1, <1>3, <1>4, <1>6, <1>7, <1>8 DEF ClientFits, ServerFits, Counters, Part
<1> QED
  BY <1>9, Fitting

LEMMA LoseStep ==
  ASSUME IInv, NEW c \in Clients, Lose(c)
  PROVE  IInv'
<1>1. /\ server \in Settings /\ controller \in Clients \cup {None}
      /\ down \in [Clients -> Seq(Reports)] /\ unreported \in [Clients -> SUBSET Keys]
      /\ edits \in 0 .. MaxEdits /\ changes \in 0 .. MaxChanges
      /\ up \in [Clients -> Seq(Commands)]
      /\ client \in [Clients -> ClientType]
      /\ edited \in [Clients -> SUBSET Keys] /\ unsent \in [Clients -> SUBSET Keys]
  BY DEF IInv, TypeOK
<1>2. \A d \in Clients : Told(d) /\ Mine(d) /\ Owns(d)
  BY DEF IInv
<1>3. /\ changes' \in 0 .. MaxChanges
      /\ UNCHANGED <<server, edited, unsent, edits>>
      /\ client' = [client EXCEPT ![c].ready = FALSE, ![c].asks = FALSE]
      /\ up' = [up EXCEPT ![c] = <<>>]
      /\ unreported' = [unreported EXCEPT ![c] = Keys]
  BY <1>1, SettingsAssumption DEF Lose
<1>4. client' \in [Clients -> ClientType]
  BY <1>1, <1>3 DEF ClientType
<1>5. /\ client'[c].valid = client[c].valid /\ client'[c].confirmed = client[c].confirmed
      /\ client'[c].pending = client[c].pending /\ client'[c].debounce = client[c].debounce
      /\ client'[c].awaiting = client[c].awaiting
      /\ \A d \in Clients \ {c} : client'[d] = client[d]
  BY <1>1, <1>3 DEF ClientType
<1>6. /\ up' \in [Clients -> Seq(Commands)] /\ up'[c] = <<>>
      /\ \A d \in Clients \ {c} : up'[d] = up[d]
  BY <1>1, <1>3
<1>7. /\ unreported' \in [Clients -> SUBSET Keys] /\ unreported'[c] = Keys
      /\ \A d \in Clients \ {c} : unreported'[d] = unreported[d]
  BY <1>1, <1>3
<1>8. Told(c)'
  BY <1>7 DEF Told, Agrees
<1>9. Mine(c)' /\ \A d \in Clients \ {c} : Mine(d)'
  <2>1. Mine(c)'
    <3>1. /\ client[c].valid =>
               \A key \in Keys \ edited[c] : client[c].pending[key] = TakenOver(client[c].confirmed)[key]
          /\ edited[c] \subseteq unsent[c] \/ client[c].debounce \/ client[c].awaiting
      BY <1>2 DEF Mine, MineOf
    <3>2. edited'[c] = edited[c] /\ unsent'[c] = unsent[c]
      BY <1>3
    <3>3. client'[c].valid =>
            \A key \in Keys \ edited'[c] :
              client'[c].pending[key] = TakenOver(client'[c].confirmed)[key]
      BY <1>5, <3>1, <3>2
    <3>4. edited'[c] \subseteq unsent'[c] \/ client'[c].debounce \/ client'[c].awaiting
      BY <1>5, <3>1, <3>2, Zenon
    <3> QED
      BY <3>3, <3>4, Zenon DEF Mine, MineOf
  <2>2. \A d \in Clients \ {c} : Mine(d)'
    BY <1>2, <1>3, <1>5, SameMine
  <2> QED
    BY <2>1, <2>2
<1>10. Owns(c)' /\ \A d \in Clients \ {c} : Owns(d)'
  BY <1>2, <1>6, SameOwns DEF Owns
<1>11. /\ down' \in [Clients -> Seq(Reports)] /\ controller' \in Clients \cup {None}
       /\ \A d \in Clients \ {c} : Told(d)'
  <2>1. CASE \E next \in Ready \ {c} :
               /\ controller' = next
               /\ down' = [down EXCEPT ![c] = <<>>, ![next] = Append(@, Role(TRUE))]
    <3>1. PICK next \in Ready \ {c} :
            /\ controller' = next
            /\ down' = [down EXCEPT ![c] = <<>>, ![next] = Append(@, Role(TRUE))]
      BY <2>1
    <3> DEFINE gained == Append(down[next], Role(TRUE))
    <3>2. next \in Clients \ {c} /\ gained \in Seq(Reports)
      <4>1. next \in Clients \ {c}
        BY DEF Ready
      <4>2. Role(TRUE) \in Reports
        BY ReportType
      <4>3. down[next] \in Seq(Reports)
        BY <1>1, <4>1
      <4> QED
        BY <4>1, <4>2, <4>3, AppendType, Zenon
    <3>3. down' = [down EXCEPT ![c] = <<>>, ![next] = gained]
      BY <1>1, <3>1, <3>2
    <3>4. /\ down'[next] = Append(down[next], Role(TRUE))
          /\ \A d \in Clients \ {c, next} : down'[d] = down[d]
      BY <1>1, <3>1, <3>2
    <3> HIDE DEF gained
    <3>5. down' \in [Clients -> Seq(Reports)]
      <4>1. <<>> \in Seq(Reports)
        OBVIOUS
      <4>2. [down EXCEPT ![c] = <<>>] \in [Clients -> Seq(Reports)]
        BY <1>1, <4>1, Zenon
      <4>3. [[down EXCEPT ![c] = <<>>] EXCEPT ![next] = gained] \in [Clients -> Seq(Reports)]
        BY <3>2, <4>2
      <4> QED
        BY <3>3, <4>3
    <3>6. ASSUME NEW d \in Clients \ {c} PROVE Told(d)'
      <4>1. client'[d] = client[d] /\ unreported'[d] = unreported[d] /\ server' = server
        BY <1>3, <1>5, <1>7
      <4>2. client'[d].ready \/ unreported'[d] = Keys
        BY <1>2, <4>1 DEF Told
      <4> QED
        BY <1>2, <3>2, <3>4, <4>1, <4>2, RoleTold, SameTold
    <3> QED
      BY <3>1, <3>2, <3>5, <3>6
  <2>2. CASE /\ controller' = IF c = controller THEN None ELSE controller
             /\ down' = [down EXCEPT ![c] = <<>>]
    <3>1. down' \in [Clients -> Seq(Reports)] /\ \A d \in Clients \ {c} : down'[d] = down[d]
      BY <1>1, <2>2
    <3> QED
      BY <1>1, <1>2, <1>3, <1>5, <1>7, <2>2, <3>1, SameTold
  <2> QED
    BY <2>1, <2>2 DEF Lose
<1>12. ClientFits /\ ServerFits /\ Counters
  BY <1>1, <1>3, <1>4, <1>6, <1>7, <1>8, <1>9, <1>10, <1>11
    DEF ClientFits, ServerFits, Counters, Part
<1> QED
  BY <1>12, Fitting

-----------------------------------------------------------------------------
(* Theorems *)

LEMMA InitFits == Init => IInv
<1> SUFFICES ASSUME Init PROVE IInv
  OBVIOUS
<1>1. PICK mine \in Settings :
        client = [c \in Clients |->
          [ready |-> FALSE, control |-> FALSE, pending |-> mine, confirmed |-> mine,
           valid |-> FALSE, debounce |-> FALSE, awaiting |-> FALSE, asks |-> FALSE]]
  BY DEF Init
<1>2. client \in [Clients -> ClientType]
  BY <1>1 DEF ClientType
<1>3. /\ up = [c \in Clients |-> <<>>] /\ down = [c \in Clients |-> <<>>]
      /\ unreported = [c \in Clients |-> Keys] /\ server \in Settings /\ controller = None
      /\ edited = [c \in Clients |-> {}] /\ unsent = [c \in Clients |-> {}]
      /\ edits = 0 /\ changes = 0
  BY DEF Init
<1>4. TypeOK
  BY <1>2, <1>3, SettingsAssumption DEF TypeOK
<1>5. ASSUME NEW c \in Clients PROVE Told(c) /\ Mine(c) /\ Owns(c)
  <2>1. Told(c)
    BY <1>3 DEF Told, Agrees
  <2>2. Mine(c)
    BY <1>1, <1>3 DEF Mine, MineOf
  <2>3. Owns(c)
    BY <1>3 DEF Owns
  <2> QED
    BY <2>1, <2>2, <2>3
<1> QED
  BY <1>4, <1>5 DEF IInv

LEMMA Idle ==
  ASSUME IInv, UNCHANGED vars
  PROVE  IInv'
<1>1. /\ server' = server /\ controller' = controller /\ client' = client /\ up' = up
      /\ down' = down /\ unreported' = unreported /\ edited' = edited /\ unsent' = unsent
      /\ edits' = edits /\ changes' = changes
  BY DEF vars
<1>2. TypeOK'
  BY <1>1 DEF IInv, TypeOK
<1>3. \A c \in Clients : Told(c)' /\ Mine(c)' /\ Owns(c)'
  BY <1>1, SameTold, SameMine, SameOwns DEF IInv
<1> QED
  BY <1>2, <1>3 DEF IInv

LEMMA Invariance == Spec => []IInv
<1>1. IInv /\ [Next]_vars => IInv'
  <2> SUFFICES ASSUME IInv, [Next]_vars PROVE IInv'
    OBVIOUS
  <2>1. ASSUME NEW c \in Clients, User(c) \/ System(c) PROVE IInv'
    BY <2>1, ClientStep, ServerReceiveStep
  <2>2. ASSUME NEW c \in Clients, SetController(c) \/ Lose(c) \/ Connect(c) PROVE IInv'
    BY <2>2, SetControllerStep, LoseStep, ConnectStep
  <2>3. ASSUME NEW key \in Keys, NEW value \in Values, ServerEdit(key, value) PROVE IInv'
    BY <2>3, ServerEditStep
  <2>4. CASE UNCHANGED vars
    BY <2>4, Idle
  <2> QED
    BY <2>1, <2>2, <2>3, <2>4 DEF Next
<1> QED
  BY <1>1, InitFits, PTL DEF Spec

(* A client that does not know the server is told *)

LEMMA StillAsked ==
  ASSUME NEW c \in Clients, Asked(c),
         client'[c].ready => client[c].ready, client[c].valid => client'[c].valid,
         client[c].asks => client'[c].asks,
         Grows(up[c], up'[c]), Grows(down[c], down'[c])
  PROVE  Asked(c)'
BY DEF Asked, Grows, IsReport

\* Taking the first message off a queue leaves the others.
LEMMA TailLeaves ==
  ASSUME NEW S, NEW s \in Seq(S), s # <<>>, NEW i \in 1 .. Len(s), s[i] # Head(s)
  PROVE  i - 1 \in 1 .. Len(Tail(s)) /\ Tail(s)[i - 1] = s[i]
<1>1. i # 1 /\ Len(s) \in Nat /\ Len(Tail(s)) = Len(s) - 1
  OBVIOUS
<1>2. i - 1 \in 1 .. Len(s) - 1
  BY <1>1
<1> QED
  BY <1>1, <1>2

LEMMA AskedStep ==
  ASSUME IInv, [Next]_vars, \A c \in Clients : Asked(c)
  PROVE  \A c \in Clients : Asked(c)'
<1>1. /\ down \in [Clients -> Seq(Reports)] /\ up \in [Clients -> Seq(Commands)]
      /\ client \in [Clients -> ClientType]
  BY DEF IInv, TypeOK
<1>3. \A c \in Clients : Grows(up[c], up[c]) /\ Grows(down[c], down[c])
  BY DEF Grows
<1>4. ASSUME NEW c \in Clients, User(c) \/ System(c), NEW d \in Clients,
             ~ ServerReceive(c), ~ ClientReceive(c)
      PROVE  Asked(d)'
  <2>0. down' = down
    BY <1>4 DEF User, System, Edit, Start, OtherCommand, DebounceTimer, AckTimeout, RequestServerState
  <2>1. CASE (\E key \in Keys, value \in Values, delayed \in BOOLEAN : Edit(c, key, value, delayed))
             \/ DebounceTimer(c) \/ Start(c)
    <3>1. Keeps(c)
      BY <2>1, EditFits, SendingFits
    <3> QED
      BY <1>3, <2>0, <3>1, StillAsked DEF Keeps
  <2>2. CASE OtherCommand(c)
    <3>1. /\ up' = up /\ client'[d].ready = client[d].ready
          /\ client'[d].valid = client[d].valid /\ client'[d].asks = client[d].asks
      BY <1>1, <2>2 DEF OtherCommand, ClientType
    <3> QED
      BY <1>3, <2>0, <3>1, StillAsked
  <2>3. CASE RequestServerState(c) \/ AckTimeout(c)
    <3>1. PICK k \in ClientType :
            /\ SendRequest(c, k) /\ k.ready = client[c].ready /\ k.valid = client[c].valid
      <4>1. CASE RequestServerState(c)
        <5>1. [client[c] EXCEPT !.asks = FALSE] \in ClientType
          BY <1>1 DEF ClientType
        <5>2. /\ [client[c] EXCEPT !.asks = FALSE].ready = client[c].ready
              /\ [client[c] EXCEPT !.asks = FALSE].valid = client[c].valid
          BY <1>1 DEF ClientType
        <5> QED
          BY <4>1, <5>1, <5>2 DEF RequestServerState
      <4>2. CASE AckTimeout(c)
        <5>1. TakenOver(client[c].confirmed) \in Settings
          BY <1>1, Conversions DEF ClientType
        <5>2. /\ Restored(client[c]) \in ClientType
              /\ Restored(client[c]).ready = client[c].ready
              /\ Restored(client[c]).valid = client[c].valid
          BY <1>1, <5>1 DEF ClientType, Restored
        <5> QED
          BY <4>2, <5>2 DEF AckTimeout
      <4> QED
        BY <2>3, <4>1, <4>2
    <3>2. CASE d = c
      <4>1. client'[c].ready = k.ready /\ client'[c].valid = k.valid
        BY <1>1, <3>1 DEF SendRequest, ClientType
      <4>2. k.ready => up'[c] = Append(up[c], [kind |-> "requestServerState"])
        BY <1>1, <3>1 DEF SendRequest
      <4>3. [kind |-> "requestServerState"] \in Commands
        BY DEF Commands
      <4>4. k.ready => \E i \in 1 .. Len(up'[c]) : up'[c][i].kind = "requestServerState"
        <5> SUFFICES ASSUME k.ready
                     PROVE  \E i \in 1 .. Len(up'[c]) : up'[c][i].kind = "requestServerState"
          OBVIOUS
        <5>1. up[c] \in Seq(Commands)
          BY <1>1
        <5>2. /\ Len(up[c]) + 1 \in 1 .. Len(up'[c])
              /\ up'[c][Len(up[c]) + 1] = [kind |-> "requestServerState"]
          BY <4>2, <4>3, <5>1
        <5> QED
          BY <5>2
      <4> QED
        BY <3>2, <4>1, <4>4 DEF Asked
    <3>3. CASE d # c
      <4>1. client'[d] = client[d] /\ up'[d] = up[d]
        BY <1>1, <3>1, <3>3 DEF SendRequest
      <4> QED
        BY <1>3, <2>0, <4>1, StillAsked
    <3> QED
      BY <3>2, <3>3
  <2> QED
    BY <1>4, <2>1, <2>2, <2>3 DEF User, System
<1>5. ASSUME NEW c \in Clients, ClientReceive(c), NEW d \in Clients PROVE Asked(d)'
  <2> DEFINE m == Head(down[c])
  <2>1. /\ down[c] \in Seq(Reports) /\ down[c] # <<>> /\ up' = up
        /\ down' = [down EXCEPT ![c] = Tail(@)]
    BY <1>1, <1>5 DEF ClientReceive
  <2>2. CASE d # c
    <3>1. client'[d] = client[d] /\ down'[d] = down[d]
      BY <1>1, <1>5, <2>1, <2>2 DEF ClientReceive
    <3> QED
      BY <1>3, <2>1, <3>1, StillAsked
  <2>3. CASE d = c /\ m.kind # "role"
    <3>1. client'[c] = Applied(client[c], m.settings)
      BY <1>1, <1>5, <2>3 DEF ClientReceive
    <3>2. client'[c].valid
      BY <1>1, <3>1 DEF Applied, ClientType
    <3> QED
      BY <2>3, <3>2 DEF Asked
  <2>4. CASE d = c /\ m.kind = "role"
    <3>1. /\ client'[c].ready = client[c].ready /\ client'[c].valid = client[c].valid
          /\ client'[c].asks = client[c].asks
      BY <1>1, <1>5, <2>4 DEF ClientReceive, ClientType
    <3>2. ASSUME NEW i \in 1 .. Len(down[c]), IsReport(down[c][i])
          PROVE  \E j \in 1 .. Len(down'[c]) : IsReport(down'[c][j])
      <4>1. down[c][i] # m
        BY <2>4, <3>2 DEF IsReport
      <4>2. i - 1 \in 1 .. Len(Tail(down[c])) /\ Tail(down[c])[i - 1] = down[c][i]
        BY <2>1, <4>1, TailLeaves
      <4>3. down'[c] = Tail(down[c])
        BY <1>1, <2>1
      <4> QED
        BY <3>2, <4>2, <4>3
    <3> QED
      BY <2>1, <2>4, <3>1, <3>2 DEF Asked, IsReport
  <2> QED
    BY <2>2, <2>3, <2>4
\* A report reaches all that are connected.
<1>6. ASSUME NEW acknowledged \in SUBSET Clients, Report(server', acknowledged),
             server' \in Settings, client' = client, NEW d \in Clients
      PROVE  Asked(d)'
  <2>1. \A c \in Ready : \E i \in 1 .. Len(down'[c]) : IsReport(down'[c][i])
    BY <1>6, Reporting
  <2> QED
    BY <1>6, <2>1 DEF Asked, Ready, IsReport
<1>7. ASSUME NEW c \in Clients, ServerReceive(c), NEW d \in Clients PROVE Asked(d)'
  <2> DEFINE m == Head(up[c])
  <2>1. /\ up[c] \in Seq(Commands) /\ up[c] # <<>> /\ client' = client
        /\ up' = [up EXCEPT ![c] = Tail(@)]
    BY <1>1, <1>7 DEF ServerReceive
  <2>2. server' \in Settings
    <3>1. m \in Commands /\ server \in Settings
      BY <2>1 DEF IInv, TypeOK
    <3>2. m.kind # "requestServerState" => With(server, m.settings) \in Settings
      BY <3>1, CommandType, WithType
    <3> QED
      BY <1>7, <3>1, <3>2 DEF ServerReceive
  <2>3. CASE \E acknowledged \in SUBSET Clients : Report(server', acknowledged)
    BY <1>6, <2>1, <2>2, <2>3
  <2>4. CASE m.kind # "requestServerState" /\ down' = down
    <3>1. ASSUME NEW i \in 1 .. Len(up[d]), up[d][i].kind = "requestServerState"
          PROVE  \E j \in 1 .. Len(up'[d]) : up'[d][j].kind = "requestServerState"
      <4>1. CASE d = c
        <5>1. up[c][i] # m
          BY <2>4, <3>1, <4>1
        <5>2. i - 1 \in 1 .. Len(Tail(up[c])) /\ Tail(up[c])[i - 1] = up[c][i]
          BY <2>1, <4>1, <5>1, TailLeaves
        <5>3. up'[c] = Tail(up[c])
          BY <1>1, <2>1
        <5> QED
          BY <3>1, <4>1, <5>2, <5>3
      <4>2. CASE d # c
        <5>1. up'[d] = up[d]
          BY <1>1, <2>1, <4>2
        <5> QED
          BY <3>1, <5>1
      <4> QED
        BY <4>1, <4>2
    <3> QED
      BY <2>1, <2>4, <3>1 DEF Asked, IsReport
  <2> QED
    BY <1>7, <2>3, <2>4 DEF ServerReceive
<1>8. ASSUME NEW key \in Keys, NEW value \in Values, ServerEdit(key, value), NEW d \in Clients
      PROVE  Asked(d)'
  <2>1. client' = client /\ up' = up /\ server' = Adjusted[key][[server EXCEPT ![key] = value]]
    BY <1>8 DEF ServerEdit
  <2>2. server' \in Settings
    <3>1. [server EXCEPT ![key] = value] \in Settings
      BY DEF IInv, TypeOK, Settings
    <3> QED
      BY <2>1, <3>1, Conversions
  <2>3. CASE Report(server', {})
    BY <1>6, <2>1, <2>2, <2>3
  <2>4. CASE down' = down
    BY <1>3, <2>1, <2>4, StillAsked
  <2> QED
    BY <1>8, <2>3, <2>4 DEF ServerEdit
<1>9. ASSUME NEW c \in Clients, SetController(c) \/ Lose(c), NEW d \in Clients PROVE Asked(d)'
  <2>1. /\ Role(TRUE) \in Reports /\ Role(FALSE) \in Reports
    BY ReportType
  <2>2. \A e \in Clients : /\ Grows(down[e], Append(down[e], Role(TRUE)))
                          /\ Grows(down[e], Append(down[e], Role(FALSE)))
    BY <1>1, <2>1, AppendGrows
  <2>3. CASE SetController(c)
    <3>1. controller \in Clients \ {c} /\ client' = client /\ up' = up
      BY <2>3 DEF SetController, IInv, TypeOK
    <3>2. down'[d] \in {down[d], Append(down[d], Role(TRUE)), Append(down[d], Role(FALSE))}
      BY <1>1, <2>3, <3>1 DEF SetController
    <3> QED
      BY <1>3, <2>2, <3>1, <3>2, StillAsked
  <2>4. CASE Lose(c)
    <3>1. /\ client' = [client EXCEPT ![c].ready = FALSE, ![c].asks = FALSE]
          /\ up' = [up EXCEPT ![c] = <<>>]
      BY <2>4 DEF Lose
    <3>2. CASE d = c
      BY <1>1, <3>1, <3>2 DEF Asked, ClientType
    <3>3. CASE d # c
      <4>1. client'[d] = client[d] /\ up'[d] = up[d]
        BY <1>1, <3>1, <3>3
      <4>2. down'[d] \in {down[d], Append(down[d], Role(TRUE))}
        BY <1>1, <2>4, <3>3 DEF Lose, Ready
      <4> QED
        BY <1>3, <2>2, <4>1, <4>2, StillAsked
    <3> QED
      BY <3>2, <3>3
  <2> QED
    BY <1>9, <2>3, <2>4
<1>10. ASSUME NEW c \in Clients, Connect(c), NEW d \in Clients PROVE Asked(d)'
  <2>1. CASE d = c
    <3>1. client'[c].asks
      BY <1>1, <1>10 DEF Connect, ClientType
    <3> QED
      BY <2>1, <3>1 DEF Asked
  <2>2. CASE d # c
    <3>1. client'[d] = client[d] /\ up' = up /\ down' = down
      BY <1>1, <1>10, <2>2 DEF Connect
    <3> QED
      BY <1>3, <3>1, StillAsked
  <2> QED
    BY <2>1, <2>2
<1>11. CASE UNCHANGED vars
  BY <1>3, <1>11, StillAsked DEF vars
<1> QED
  BY <1>4, <1>5, <1>7, <1>8, <1>9, <1>10, <1>11 DEF Next

LEMMA AlwaysAsked == Spec => [](\A c \in Clients : Asked(c))
<1>1. Init => \A c \in Clients : Asked(c)
  BY DEF Init, Asked
<1>2. IInv /\ (\A c \in Clients : Asked(c)) /\ [Next]_vars => (\A c \in Clients : Asked(c))'
  BY AskedStep
<1> QED
  BY <1>1, <1>2, Invariance, PTL DEF Spec

\* Server and clients always hold a value for every setting, however partial
\* the commands are that applySettingsFromJson() takes in.
THEOREM TypeCorrect == Spec => []TypeOK
<1>1. IInv => TypeOK
  BY DEF IInv
<1> QED
  BY <1>1, Invariance, PTL

\* When nothing is under way for a client it holds the server's settings as
\* confirmed, but for those not reported to it, and shows what
\* applySettingsFromJson() makes of them, but for what it never sent; whatever
\* the conversions on the way do.
THEOREM InStepCorrect == Spec => []InStep
<1>1. IInv /\ (\A c \in Clients : Asked(c)) => InStep
  <2> SUFFICES ASSUME IInv, \A c \in Clients : Asked(c), NEW c \in Clients, Quiet(c)
               PROVE  /\ \A key \in Keys \ unreported[c] :
                           client[c].confirmed[key] = server[key]
                      /\ \A key \in Keys \ unsent[c] :
                           client[c].pending[key] = TakenOver(client[c].confirmed)[key]
    BY Zenon DEF InStep
  <2>1. Told(c) /\ Mine(c) /\ Asked(c)
    BY DEF IInv
  <2>2. /\ \A i \in 1 .. Len(down[c]) : FALSE
        /\ \A i \in 1 .. Len(up[c]) : FALSE
    BY DEF Quiet
  <2>3. client[c].valid
    BY <2>1, <2>2 DEF Asked, Quiet
  <2>4. ASSUME NEW key \in Keys \ unreported[c] PROVE client[c].confirmed[key] = server[key]
    BY <2>1, <2>2 DEF Told, Agrees
  <2>5. edited[c] \subseteq unsent[c]
    BY <2>1 DEF Mine, MineOf, Quiet
  <2>6. ASSUME NEW key \in Keys \ unsent[c]
        PROVE  client[c].pending[key] = TakenOver(client[c].confirmed)[key]
    BY <2>1, <2>3, <2>5 DEF Mine, MineOf
  <2> QED
    BY <2>4, <2>6
<1> QED
  BY <1>1, Invariance, AlwaysAsked, PTL

\* Once a client knows a state of the server, networkSettingsPatch() sends only
\* settings in which the client departed from it by itself: edited, shown
\* otherwise by its controls, or changed by taking the state over.
THEOREM OnlyEditsSentCorrect == Spec => []OnlyEditsSent
<1>1. IInv => OnlyEditsSent
  BY DEF IInv, Owns, OwnEdits, OnlyEditsSent
<1> QED
  BY <1>1, Invariance, PTL

\* What a user edited is not forgotten on the way: as long as it has not been
\* given up or taken over, the delay of scheduleRemoteSettingsCommand() or the
\* timer of the acknowledgement is armed, through every loss of a link and
\* every change of control.  It is the part of Settles that holds in every
\* state.
EditPursued ==
  \A c \in Clients :
    edited[c] \subseteq unsent[c] \/ client[c].debounce \/ client[c].awaiting

THEOREM EditsPursued == Spec => []EditPursued
<1>1. IInv => EditPursued
  BY DEF IInv, Mine, MineOf, EditPursued
<1> QED
  BY <1>1, Invariance, PTL
=============================================================================
