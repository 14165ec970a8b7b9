-------------------------- MODULE NetworkSettings --------------------------
(***************************************************************************)
(* The receiver's settings in a server and in the clients that show and    *)
(* change them (src/src/mainwindow/main_network.cpp).                      *)
(*                                                                         *)
(* A client edits its own copy at once and sends what differs from the     *)
(* last state of the server it knows, after a delay or immediately.  The   *)
(* server answers every command with an acknowledgement and reports its    *)
(* settings to all; either replaces the client's copy.  A client that gets *)
(* no answer goes back to the last state it knows and asks for the current *)
(* one.  Who controls is decided elsewhere (NetworkController): here       *)
(* control moves at any time, and the news of it travels with the rest.    *)
(*                                                                         *)
(* Taking over settings is not copying them: values are clamped and some   *)
(* follow from others, a client's controls show only what they can, and    *)
(* numbers within 0.5 of each other count as equal.  These conversions are *)
(* constants.  The keys do not include the calibration table, which        *)
(* clients do not send, and alternativeInterfaceMode, which an old form of *)
(* the settings uses for another one (main_settings_json.cpp:786-789).     *)
(***************************************************************************)
EXTENDS Integers, FiniteSets, Sequences, SequencesExt

CONSTANTS
  Clients,
  Keys, Values,  \* settings
  Taken,         \* what applySettingsFromJson() makes of settings
  Tuned,         \* what normalizeTuning() makes of them
  Adjusted,      \* what the handler of a setting's control makes of them all
  Shown,         \* what a client's controls show of settings
  Near,          \* jsonValuesEquivalent(): the values of a key that count as equal
  Reported,      \* keys whose change by the server's own user is reported
  Devices,       \* keys that select a receiver, which the server may not have
  None,          \* nobody controls
  MaxEdits,      \* bound: edits by the clients' users
  MaxChanges     \* bound: changes by the server's user, transfers, lost links

Settings == [Keys -> Values]

ASSUME SettingsAssumption ==
  /\ {Taken, Tuned, Shown} \subseteq [Settings -> Settings]
  /\ Adjusted \in [Keys -> [Settings -> Settings]]
  /\ Near \subseteq Keys \X Values \X Values
  /\ Reported \subseteq Keys /\ Devices \subseteq Keys
  /\ None \notin Clients
  /\ MaxEdits \in Nat /\ MaxChanges \in Nat

VARIABLES
  server,      \* the server's pendingSettings
  controller,  \* the client that controls
  client,      \* per client, what it keeps
  up, down,    \* per client, the messages on their way
  unreported,  \* per client, keys the server's user changed since the server
               \* last reported to it (history)
  edited,      \* per client, keys its user or its controls changed since it last
               \* took over or went back to a state of the server (history)
  unsent,      \* ... and of them, the keys no command is going to carry (history)
  edits, changes

vars == <<server, controller, client, up, down, unreported, edited, unsent, edits, changes>>

Patches == UNION {[S -> Values] : S \in SUBSET Keys}

ClientType ==
  [ready : BOOLEAN,      \* its channel is up
   control : BOOLEAN,    \* localClientHasControl
   pending : Settings,   \* pendingSettings
   confirmed : Settings, \* networkClientConfirmedSettingsJson
   valid : BOOLEAN,      \* networkClientConfirmedSettingsValid
   debounce : BOOLEAN,   \* networkSettingsDebounceTimer
   awaiting : BOOLEAN,   \* networkClientAwaitingSettingsAck, and its timer
   asks : BOOLEAN]       \* a request for the server's state is posted

\* A command carries settings; known and own record, for the properties,
\* whether the client knew a state of the server and in which keys it had
\* departed from that by itself.
Commands ==
  [kind : {"setParameters", "start"}, settings : Patches, known : BOOLEAN, own : SUBSET Keys]
    \cup {[kind |-> "requestServerState"]}
Reports == [kind : {"serverState", "settingsAck"}, settings : Settings]
             \cup [kind : {"role"}, control : BOOLEAN]

Ready == {c \in Clients : client[c].ready}

Init ==
  /\ server \in Settings
  /\ controller = None
  /\ \E mine \in Settings :
       client = [c \in Clients |->
         [ready |-> FALSE, control |-> FALSE, pending |-> mine, confirmed |-> mine,
          valid |-> FALSE, debounce |-> FALSE, awaiting |-> FALSE, asks |-> FALSE]]
  /\ up = [c \in Clients |-> <<>>] /\ down = [c \in Clients |-> <<>>]
  /\ unreported = [c \in Clients |-> Keys]
  /\ edited = [c \in Clients |-> {}] /\ unsent = [c \in Clients |-> {}]
  /\ edits = 0 /\ changes = 0

-----------------------------------------------------------------------------
(* The client *)

Differ(settings, others) == {key \in Keys : settings[key] # others[key]}

\* What a client shows once it has taken over settings: what
\* applySettingsFromJson() makes of them and, of the receiver, the one that
\* updateUiFromPendingSettings() finds in the list.
TakenOver(settings) ==
  [key \in Keys |-> IF key \in Devices THEN Shown[Taken[settings]][key] ELSE Taken[settings][key]]

\* networkClientSettingsForCommand(): no receiver is chosen before the list
\* of the server's is known.
ForCommand(k) == [key \in (IF k.valid THEN Keys ELSE Keys \ Devices) |-> k.pending[key]]

\* networkSettingsPatch()
Patch(k) ==
  LET all == ForCommand(k)
      differing == {key \in Differ(k.pending, k.confirmed) :
                      <<key, k.pending[key], k.confirmed[key]>> \notin Near}
  IN  IF k.valid THEN [key \in differing |-> all[key]] ELSE all

\* refreshSettingsFromUi()
Refreshed(k) == [k EXCEPT !.pending = Shown[@]]

\* sendRemoteControlCommand() of a command with settings; k is the client as
\* it is by then.  Without control or a channel nothing is sent, and nobody
\* tries again.
SendSettings(c, k, kind, mine) ==
  LET now == IF k.control THEN Refreshed(k) ELSE k
      changed == mine \cup Differ(k.pending, now.pending)
      settings == IF kind = "start" THEN ForCommand(now) ELSE Patch(now)
      departed == Differ(TakenOver(k.confirmed), k.confirmed)
      command == [kind |-> kind, settings |-> settings, known |-> k.valid,
                  own |-> changed \cup departed]
  IN  /\ edited' = [edited EXCEPT ![c] = changed]
      /\ IF k.control /\ k.ready
         THEN /\ client' = [client EXCEPT ![c] = [now EXCEPT !.awaiting = TRUE]]
              /\ up' = [up EXCEPT ![c] = Append(@, command)]
              /\ unsent' = [unsent EXCEPT ![c] = changed \ DOMAIN settings]
         ELSE /\ client' = [client EXCEPT ![c] = now]
              /\ unsent' = [unsent EXCEPT ![c] = changed]
              /\ UNCHANGED up

\* A handler of a control changes the setting, and with it those that follow
\* from it, and calls scheduleRemoteSettingsCommand(): at once, or after a
\* delay that further edits do not prolong.
Edit(c, key, value, delayed) ==
  LET pending == client[c].pending
      k == [client[c] EXCEPT !.pending = Adjusted[key][[@ EXCEPT ![key] = value]]]
      changed == Differ(pending, k.pending)
      mine == edited[c] \cup changed
  IN  /\ edits < MaxEdits /\ edits' = edits + 1
      /\ value # pending[key]
      /\ IF delayed \/ ~ k.control
         THEN /\ client' = [client EXCEPT ![c] = [k EXCEPT !.debounce = @ \/ k.control]]
              /\ edited' = [edited EXCEPT ![c] = mine]
              /\ unsent' = [unsent EXCEPT ![c] = IF k.control THEN @ ELSE @ \cup changed]
              /\ UNCHANGED up
         ELSE SendSettings(c, [k EXCEPT !.debounce = FALSE], "setParameters", mine)
      /\ UNCHANGED <<server, controller, down, unreported, changes>>

\* The delay is over.
DebounceTimer(c) ==
  /\ client[c].debounce
  /\ SendSettings(c, [client[c] EXCEPT !.debounce = FALSE], "setParameters", edited[c])
  /\ UNCHANGED <<server, controller, down, unreported, edits, changes>>

\* Start carries all settings; any command but setParameters cancels the delay.
Start(c) ==
  /\ edits < MaxEdits /\ edits' = edits + 1
  /\ SendSettings(c, [client[c] EXCEPT !.debounce = FALSE], "start", edited[c])
  /\ UNCHANGED <<server, controller, down, unreported, changes>>

\* Stop, and requests and answers about control, carry none: what the delay
\* was going to send is not sent.
OtherCommand(c) ==
  /\ client[c].debounce
  /\ client' = [client EXCEPT ![c].debounce = FALSE]
  /\ unsent' = [unsent EXCEPT ![c] = edited[c]]
  /\ UNCHANGED <<server, controller, up, down, unreported, edited, edits, changes>>

\* sendRemoteControlCommand("requestServerState")
SendRequest(c, k) ==
  /\ client' = [client EXCEPT ![c] = [k EXCEPT !.debounce = FALSE]]
  /\ up' = IF k.ready THEN [up EXCEPT ![c] = Append(@, [kind |-> "requestServerState"])] ELSE up

MutantRequestServerState(c) ==
  /\ client[c].asks /\ client[c].control
  /\ SendRequest(c, [client[c] EXCEPT !.asks = FALSE])
  /\ unsent' = [unsent EXCEPT ![c] = edited[c]]
  /\ UNCHANGED <<server, controller, down, unreported, edited, edits, changes>>
\* The request posted when the channel became ready.
RequestServerState(c) ==
  /\ client[c].asks
  /\ SendRequest(c, [client[c] EXCEPT !.asks = FALSE])
  /\ unsent' = [unsent EXCEPT ![c] = edited[c]]
  /\ UNCHANGED <<server, controller, down, unreported, edited, edits, changes>>

\* handleNetworkSettingsAckTimeout(): back to the last state known
Restored(k) ==
  [k EXCEPT !.awaiting = FALSE, !.pending = IF k.valid THEN TakenOver(k.confirmed) ELSE @]

AckTimeout(c) ==
  /\ client[c].awaiting
  /\ SendRequest(c, Restored(client[c]))
  /\ edited' = [edited EXCEPT ![c] = IF client[c].valid THEN {} ELSE @]
  /\ unsent' = [unsent EXCEPT ![c] = IF client[c].valid THEN {} ELSE edited[c]]
  /\ UNCHANGED <<server, controller, down, unreported, edits, changes>>

MutantApplied(k, settings) ==
  [k EXCEPT !.pending = TakenOver(settings), !.valid = TRUE, !.awaiting = FALSE]
\* applyAuthoritativeNetworkState(): whatever it answers, and whatever has
\* been edited since.  What is kept as confirmed is what was received.
Applied(k, settings) ==
  [k EXCEPT !.pending = TakenOver(settings), !.confirmed = settings, !.valid = TRUE,
            !.awaiting = FALSE]

\* onNetworkControlCommandReceived() of a client
ClientReceive(c) ==
  /\ down[c] # <<>>
  /\ down' = [down EXCEPT ![c] = Tail(@)]
  /\ LET m == Head(down[c])
     IN  IF m.kind = "role"
         THEN /\ client' = [client EXCEPT ![c].control = m.control]
              /\ UNCHANGED <<edited, unsent>>
         ELSE /\ client' = [client EXCEPT ![c] = Applied(@, m.settings)]
              /\ edited' = [edited EXCEPT ![c] = {}]
              /\ unsent' = [unsent EXCEPT ![c] = {}]
  /\ UNCHANGED <<server, controller, up, unreported, edits, changes>>

-----------------------------------------------------------------------------
(* The server *)

MutantReport(settings, acknowledged) ==
  LET told == IF acknowledged = {} THEN Ready ELSE Ready \cap acknowledged
  IN  /\ down' = [c \in Clients |-> IF c \notin told THEN down[c]
           ELSE Append(down[c], [kind |-> "settingsAck", settings |-> settings])]
      /\ unreported' = [c \in Clients |-> IF c \in told THEN {} ELSE unreported[c]]
\* sendServerStateToClients(), after an acknowledgement to one of them
Report(settings, acknowledged) ==
  LET state == [kind |-> "serverState", settings |-> settings]
      ack == [kind |-> "settingsAck", settings |-> settings]
  IN  /\ down' = [c \in Clients |->
           IF c \notin Ready THEN down[c]
           ELSE down[c] \o (IF c \in acknowledged THEN <<ack, state>> ELSE <<state>>)]
      /\ unreported' = [c \in Clients |-> IF c \in Ready THEN {} ELSE unreported[c]]

MutantWith(settings, patch) == patch
\* applySettingsFromJson() of the server: conversions apply to all settings,
\* the ones outside the patch included.
With(settings, patch) ==
  Tuned[Taken[[key \in Keys |-> IF key \in DOMAIN patch THEN patch[key] ELSE settings[key]]]]

\* onNetworkControlCommandReceived() of the server: an observer's command is
\* rejected without a report; an unknown receiver rejects all of the command.
ServerReceive(c) ==
  /\ up[c] # <<>>
  /\ up' = [up EXCEPT ![c] = Tail(@)]
  /\ LET m == Head(up[c])
     IN  \/ /\ m.kind = "requestServerState"
            /\ Report(server, {})
            /\ UNCHANGED server
         \/ /\ m.kind # "requestServerState" /\ c # controller
            /\ UNCHANGED <<server, down, unreported>>
         \/ /\ m.kind # "requestServerState" /\ c = controller
            /\ DOMAIN m.settings \cap Devices # {}
            /\ Report(server, {c})
            /\ UNCHANGED server
         \/ /\ m.kind # "requestServerState" /\ c = controller
            /\ server' = With(server, m.settings)
            /\ Report(server', {c})
  /\ UNCHANGED <<controller, client, edited, unsent, edits, changes>>

\* The server's own user, or its GNSS receiver: only some of the handlers
\* report what they change.
ServerEdit(key, value) ==
  /\ changes < MaxChanges /\ changes' = changes + 1
  /\ value # server[key]
  /\ server' = Adjusted[key][[server EXCEPT ![key] = value]]
  /\ IF key \in Reported THEN Report(server', {})
     ELSE /\ unreported' = [c \in Clients |-> unreported[c] \cup Differ(server, server')]
          /\ UNCHANGED down
  /\ UNCHANGED <<controller, client, up, edited, unsent, edits>>

-----------------------------------------------------------------------------
(* Connections and control, as far as settings depend on them *)

Role(control) == [kind |-> "role", control |-> control]

\* Control moves to a client that asked for it.
SetController(c) ==
  /\ c \in Ready \ {controller} /\ controller # None
  /\ changes < MaxChanges /\ changes' = changes + 1
  /\ controller' = c
  /\ down' = [down EXCEPT ![c] = Append(@, Role(TRUE)),
                          ![controller] = Append(@, Role(FALSE))]
  /\ UNCHANGED <<server, client, up, unreported, edited, unsent, edits>>

\* The link is lost with all that is on it; another client takes over.
Lose(c) ==
  /\ client[c].ready
  /\ changes < MaxChanges /\ changes' = changes + 1
  /\ client' = [client EXCEPT ![c].ready = FALSE, ![c].asks = FALSE]
  /\ up' = [up EXCEPT ![c] = <<>>]
  /\ LET others == Ready \ {c}
     IN  \/ /\ c = controller /\ others # {}
            /\ \E next \in others :
                 /\ controller' = next
                 /\ down' = [down EXCEPT ![c] = <<>>, ![next] = Append(@, Role(TRUE))]
         \/ /\ c # controller \/ others = {}
            /\ controller' = IF c = controller THEN None ELSE controller
            /\ down' = [down EXCEPT ![c] = <<>>]
  /\ unreported' = [unreported EXCEPT ![c] = Keys]
  /\ UNCHANGED <<server, edited, unsent, edits>>

\* channelReady: the first client to arrive controls.
Connect(c) ==
  /\ ~ client[c].ready
  /\ controller' = IF controller = None THEN c ELSE controller
  /\ client' = [client EXCEPT ![c].ready = TRUE, ![c].asks = TRUE,
                              ![c].control = controller' = c]
  /\ UNCHANGED <<server, up, down, unreported, edited, unsent, edits, changes>>

-----------------------------------------------------------------------------
User(c) ==
  \/ \E key \in Keys, value \in Values, delayed \in BOOLEAN : Edit(c, key, value, delayed)
  \/ Start(c) \/ OtherCommand(c)

System(c) ==
  \/ DebounceTimer(c) \/ AckTimeout(c) \/ RequestServerState(c)
  \/ ClientReceive(c) \/ ServerReceive(c)

Next ==
  \/ \E c \in Clients : User(c) \/ System(c) \/ SetController(c) \/ Lose(c) \/ Connect(c)
  \/ \E key \in Keys, value \in Values : ServerEdit(key, value)

Spec == Init /\ [][Next]_vars

\* Messages are delivered and armed timers fire; users and links act or not.
Fairness ==
  \A c \in Clients :
    /\ WF_vars(DebounceTimer(c)) /\ WF_vars(AckTimeout(c)) /\ WF_vars(RequestServerState(c))
    /\ WF_vars(ClientReceive(c)) /\ WF_vars(ServerReceive(c))
FairSpec == Spec /\ Fairness

-----------------------------------------------------------------------------
(* Properties *)

\* Server and clients keep a value for every setting, whatever part of them a
\* command carried, and what travels is a command or a report.
TypeOK ==
  /\ server \in Settings /\ controller \in Clients \cup {None}
  /\ client \in [Clients -> ClientType]
  /\ up \in [Clients -> Seq(Commands)] /\ down \in [Clients -> Seq(Reports)]
  /\ {unreported, edited, unsent} \subseteq [Clients -> SUBSET Keys]
  /\ edits \in 0 .. MaxEdits /\ changes \in 0 .. MaxChanges

\* Nothing is under way for a client: no timer, no request, no message.
Quiet(c) ==
  /\ client[c].ready
  /\ ~ client[c].debounce /\ ~ client[c].awaiting /\ ~ client[c].asks
  /\ up[c] = <<>> /\ down[c] = <<>>

\* When nothing is under way for a client, the settings it holds as confirmed
\* are the server's, but for those the server has not reported; and it shows
\* what taking them over makes of them, but for what was edited and never sent.
\* It may show something else than the server: applySettingsFromJson() hides
\* a position that comes from NMEA, which the server shows.
InStep ==
  \A c \in Clients : Quiet(c) =>
    LET known == client[c].confirmed
    IN  /\ \A key \in Keys \ unreported[c] : known[key] = server[key]
        /\ \A key \in Keys \ unsent[c] : client[c].pending[key] = TakenOver(known)[key]

\* A client that knows a state of the server sends, on a change of parameters,
\* only settings in which it departed from that state by itself: because its
\* user edited them, because its controls show them otherwise, or because
\* taking the state over changed them.  It never writes back an old value of a
\* setting that somebody else has changed.
OnlyEditsSent ==
  \A c \in Clients : \A i \in 1 .. Len(up[c]) :
    up[c][i].kind = "setParameters" /\ up[c][i].known =>
      DOMAIN up[c][i].settings \subseteq up[c][i].own

\* Every wait of a connected client ends: the delay of an edit, the wait for an
\* acknowledgement, the request for the server's state, and what is on its way
\* in either direction.  Whether an edit ends confirmed it does not say: an
\* observer's, or one whose sending Stop cancels, ends neither confirmed nor
\* undone.
Settles == \A c \in Clients : <>[](client[c].ready => Quiet(c))

=============================================================================
