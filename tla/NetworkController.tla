------------------------- MODULE NetworkController -------------------------
(***************************************************************************)
(* The control channel, src/src/network/networkcontroller.cpp, and the     *)
(* transfer of control in src/src/mainwindow/main_network.cpp.             *)
(*                                                                         *)
(* One application is the server, the others are clients.  The first peer  *)
(* that says hello controls the receiver, later ones observe and may ask   *)
(* the controller for its role.  Every handler runs to completion in the   *)
(* event loop of its application, so a handler is a step.  Each direction  *)
(* of a connection is a queue of messages; a connection can die silently   *)
(* (dead), and then only a heartbeat timeout finds out.  Pings and pongs   *)
(* are not queued: a timeout may hit any peer and must hit a dead one.     *)
(***************************************************************************)
EXTENDS Integers, Sequences, FiniteSets, SequencesExt

CONSTANTS
  Clients,         \* client applications
  AddressOf,       \* the network address of each client
  MaxConnections,  \* bound: connections that exist or are referred to at once
  MaxFailures,     \* bound: lost links, crashes, false timeouts, users disconnecting
  MaxRequests      \* bound: requests for control, connecting before the timer does

Connections == 1 .. MaxConnections
None == 0

ASSUME NetworkAssumption ==
  /\ Clients # {} /\ None \notin Clients
  /\ DOMAIN AddressOf = Clients
  /\ MaxConnections \in Nat \ {0}
  /\ MaxFailures \in Nat /\ MaxRequests \in Nat

VARIABLES
  serving,     \* the server application is in NetworkMode::Server
  pending,     \* established connections the server has not accepted yet
  peers,       \* peerSockets, in the order of acceptance
  ready,       \* readyPeerSockets
  controller,  \* peerSocket
  heartbeat,   \* heartbeatTimer of the server is active
  blocked,     \* blockedPriorityRequesterKeys
  owner,       \* the client that opened a connection
  dead,        \* connections that deliver nothing any more
  up, down,    \* messages on their way to the server and to the client
  socket,      \* clientSocket of each client
  phase,       \* "off" outside client mode, "closed" without a clientSocket,
               \* then its progress; "ready" is controlReady
  mine,        \* localClientHasControl
  retry,       \* networkClientReconnectPending
  dialogs,     \* open "Control Request" boxes of each client, newest last
  asked,       \* connections that have asked for control (history)
  failures, requests

serverVars == <<serving, pending, peers, ready, controller, heartbeat, blocked>>
clientVars == <<socket, phase, mine, retry, dialogs>>
wires == <<owner, dead, up, down>>
vars == <<serverVars, clientVars, wires, asked, failures, requests>>

-----------------------------------------------------------------------------
(* Messages and wires *)

Hello == [t |-> "hello"]
Ok == [t |-> "ok"]
Role(can) == [t |-> "role", can |-> can]
RequestPriority == [t |-> "requestPriority"]
PriorityRequest(i) == [t |-> "priorityRequest", who |-> i]
PriorityResponse(i, accepted, block) ==
  [t |-> "priorityResponse", who |-> i, accepted |-> accepted, block |-> block]

ToServer == {Hello, RequestPriority} \cup
            [t : {"priorityResponse"}, who : Connections, accepted : BOOLEAN, block : BOOLEAN]
ToClient == {Ok} \cup {Role(can) : can \in BOOLEAN} \cup
            {PriorityRequest(i) : i \in Connections}

\* The ends of a connection that are still open.
ServerEnd(i) == i \in pending \/ i \in ToSet(peers)
ClientEnd(i) == owner[i] # None /\ socket[owner[i]] = i
Live(i) == ServerEnd(i) /\ ClientEnd(i) /\ i \notin dead

\* Messages into a closed or dead connection are lost.
SendDown(msgs) ==
  down' = [i \in Connections |-> IF ClientEnd(i) /\ i \notin dead
                                 THEN down[i] \o msgs[i] ELSE down[i]]
Nothing == [i \in Connections |-> <<>>]
To(i, m) == [Nothing EXCEPT ![i] = <<m>>]

\* up with the head of i consumed.
Received(i) == up' = [up EXCEPT ![i] = Tail(@)]

\* Identifiers a message or a dialog still refers to.
Mentioned ==
  {m.who : m \in {x \in UNION {ToSet(up[i]) : i \in Connections} : x.t = "priorityResponse"}} \cup
  {m.who : m \in {x \in UNION {ToSet(down[i]) : i \in Connections} : x.t = "priorityRequest"}} \cup
  UNION {ToSet(dialogs[c]) : c \in Clients}

\* nextPeerId++: an identifier nothing refers to any more is as good as new.
InUse == {i \in Connections : ServerEnd(i) \/ ClientEnd(i)}
MutantFresh(i) == i \notin InUse
Fresh(i) == i \notin InUse \cup Mentioned

Init ==
  /\ serving = TRUE
  /\ pending = {} /\ peers = <<>> /\ ready = {}
  /\ controller = None
  /\ heartbeat = FALSE
  /\ blocked = {}
  /\ owner = [i \in Connections |-> None]
  /\ dead = {}
  /\ up = Nothing /\ down = Nothing
  /\ socket = [c \in Clients |-> None]
  /\ phase = [c \in Clients |-> "off"]
  /\ mine = [c \in Clients |-> TRUE]
  /\ retry = [c \in Clients |-> FALSE]
  /\ dialogs = [c \in Clients |-> <<>>]
  /\ asked = {}
  /\ failures = 0 /\ requests = 0

-----------------------------------------------------------------------------
(* The server *)

\* broadcastRoleUpdates(): every ready peer learns its role.
Roles(rs, k) == [i \in Connections |-> IF i \in rs THEN <<Role(i = k)>> ELSE <<>>]

\* The controller promoteControllerIfNeeded() leaves behind.
MutantNobodyPromoted(ps, rs, k) == IF k \in rs THEN k ELSE None
MutantStalePointer(ps, rs, k) == k
Promoted(ps, rs, k) ==
  LET candidates == {n \in DOMAIN ps : ps[n] \in rs}
      first == CHOOSE n \in candidates : \A m \in candidates : n <= m
  IN  IF k \in rs THEN k
      ELSE IF candidates = {} THEN None ELSE ps[first]

\* Roles promoteControllerIfNeeded() broadcasts: only if it promoted someone.
MutantPromotionNews(rs, k) == Nothing
PromotionNews(rs, k) ==
  IF k = controller \/ k = None THEN Nothing ELSE Roles(rs, k)

\* closePeerSocket(i) and promoteControllerIfNeeded(), as every handler of a
\* lost peer calls them.
DropPeer(i) ==
  LET ps == RemoveAt(peers, CHOOSE n \in DOMAIN peers : peers[n] = i)
      rs == ready \ {i}
      k  == Promoted(ps, rs, controller)
  IN  /\ peers' = ps
      /\ ready' = rs
      /\ controller' = k
      /\ heartbeat' = (heartbeat /\ k # None)
      /\ SendDown(PromotionNews(rs, k))
      /\ up' = [up EXCEPT ![i] = <<>>]
      /\ UNCHANGED <<serving, pending, blocked>>

\* newConnection
Accept(i) ==
  /\ i \in pending
  /\ pending' = pending \ {i}
  /\ peers' = Append(peers, i)
  /\ UNCHANGED <<serving, ready, controller, heartbeat, blocked, clientVars,
                 wires, asked, failures, requests>>

\* disconnected or errorOccurred: the client has closed its end.  An error
\* may overtake data that is still on its way.
PeerGone(i) ==
  /\ i \in ToSet(peers) /\ ~ ClientEnd(i) /\ i \notin dead
  /\ DropPeer(i)
  /\ UNCHANGED <<owner, dead, clientVars, asked, failures, requests>>

\* The heartbeat timer finds a peer silent for too long.  Only peers that
\* have said hello have a valid timer.
HeartbeatTimeout(i) ==
  /\ heartbeat /\ i \in ready
  /\ i \in dead \/ failures < MaxFailures
  /\ failures' = IF i \in dead THEN failures ELSE failures + 1
  /\ DropPeer(i)
  /\ UNCHANGED <<owner, dead, clientVars, asked, requests>>

\* processLine(HELLO)
MutantEchoed(i, k) == To(i, Hello)
MutantNoRole(i, k) == To(i, Ok)
Welcome(i, k) ==
  LET roles == IF i = k THEN Roles(ready \cup {i}, k) ELSE To(i, Role(FALSE))
  IN  [roles EXCEPT ![i] = <<Ok>> \o @]

ReceiveHello(i) ==
  /\ Head(up[i]) = Hello
  /\ LET k == IF controller = None THEN i ELSE controller
     IN  IF i \in ready
         THEN UNCHANGED <<ready, controller, heartbeat, down>>
         ELSE /\ ready' = ready \cup {i}
              /\ controller' = k
              /\ heartbeat' = TRUE
              /\ SendDown(Welcome(i, k))
  /\ UNCHANGED <<blocked, asked>>

\* setControllerPeer()
SetController(i) ==
  IF i \in ready
  THEN controller' = i /\ SendDown(Roles(ready, i))
  ELSE UNCHANGED <<controller, down>>

\* requestPriority.  A controller there is can always be written to, so the
\* request reaches it, and the code's fallback for a write that fails is left
\* out; without one the requester gets the role at once.  A refusal only shows
\* its client a notice, so priorityDenied is no message here.
ReceiveRequestPriority(i) ==
  /\ Head(up[i]) = RequestPriority
  /\ asked' = asked \cup {i}
  /\ IF i = controller
     THEN SendDown(To(i, Role(TRUE))) /\ UNCHANGED controller
     ELSE IF AddressOf[owner[i]] \in blocked
     THEN UNCHANGED <<controller, down>>
     ELSE IF controller = None
     THEN SetController(i)
     ELSE SendDown(To(controller, PriorityRequest(i))) /\ UNCHANGED controller
  /\ UNCHANGED <<ready, heartbeat, blocked>>

\* priorityResponse
ReceivePriorityResponse(i) ==
  LET m == Head(up[i])
  IN  /\ m.t = "priorityResponse"
      /\ IF i # controller
         THEN UNCHANGED <<controller, blocked, down>>
         ELSE /\ blocked' = IF m.block /\ ~ m.accepted /\ m.who \in ToSet(peers)
                            THEN blocked \cup {AddressOf[owner[m.who]]} ELSE blocked
              /\ IF m.accepted /\ m.who \in ready
                 THEN SetController(m.who)
                 ELSE UNCHANGED <<controller, down>>
      /\ UNCHANGED <<ready, heartbeat, asked>>

\* processSocketData(): one line of a peer.
ServerReceive(i) ==
  /\ i \in ToSet(peers) /\ up[i] # <<>>
  /\ \/ ReceiveHello(i)
     \/ ReceiveRequestPriority(i)
     \/ ReceivePriorityResponse(i)
  /\ Received(i)
  /\ UNCHANGED <<serving, pending, peers, owner, dead, clientVars, failures, requests>>

\* stop()
StopServer ==
  /\ serving /\ failures < MaxFailures
  /\ failures' = failures + 1
  /\ serving' = FALSE
  /\ pending' = {} /\ peers' = <<>> /\ ready' = {}
  /\ controller' = None
  /\ heartbeat' = FALSE
  /\ up' = Nothing
  /\ UNCHANGED <<blocked, owner, dead, down, clientVars, asked, requests>>

\* startServer()
StartServer ==
  /\ ~ serving
  /\ serving' = TRUE
  /\ UNCHANGED <<pending, peers, ready, controller, heartbeat, blocked, clientVars,
                 wires, asked, failures, requests>>

-----------------------------------------------------------------------------
(* A client *)

\* closeClientSocket(), and what channelError makes the main window do while
\* it is receiving: try again in 1.5 s.
LoseChannel(c) ==
  /\ socket' = [socket EXCEPT ![c] = None]
  /\ phase' = [phase EXCEPT ![c] = "closed"]
  /\ retry' = [retry EXCEPT ![c] = TRUE]
  /\ down' = [down EXCEPT ![socket[c]] = <<>>]
  /\ UNCHANGED <<serverVars, owner, dead, up, mine, dialogs, asked, requests>>

\* testClientConnection(): drop the old socket and connect a new one.
TestClientConnection(c, i) ==
  /\ Fresh(i) /\ \A j \in 1 .. i - 1 : ~ Fresh(j)
  /\ socket' = [socket EXCEPT ![c] = i]
  /\ phase' = [phase EXCEPT ![c] = "connecting"]
  /\ mine' = [mine EXCEPT ![c] = TRUE]
  /\ owner' = [owner EXCEPT ![i] = c]
  /\ pending' = IF serving THEN pending \cup {i} ELSE pending
  /\ dead' = dead \ {i}
  /\ up' = [up EXCEPT ![i] = <<>>]
  /\ down' = [j \in Connections |-> IF j \in {i, socket[c]} THEN <<>> ELSE down[j]]
  /\ asked' = asked \ {i}
  /\ UNCHANGED <<serving, peers, ready, controller, heartbeat, blocked, dialogs,
                 failures>>

\* The user connects; a reconnect timer that is running keeps running.
Connect(c) ==
  /\ phase[c] = "off" \/ (phase[c] = "closed" /\ requests < MaxRequests)
  /\ requests' = IF phase[c] = "off" THEN requests ELSE requests + 1
  /\ \E i \in Connections : TestClientConnection(c, i)
  /\ UNCHANGED retry

\* The reconnect timer of a client that is receiving: it cuts short a connection
\* that is not ready yet.
Reconnect(c) ==
  /\ retry[c]
  /\ retry' = [retry EXCEPT ![c] = FALSE]
  /\ UNCHANGED requests
  /\ IF phase[c] \in {"off", "ready"}
     THEN UNCHANGED <<serverVars, wires, socket, phase, mine, dialogs, asked, failures>>
     ELSE \E i \in Connections : TestClientConnection(c, i)

\* stop() in a client: the user disconnects for good.
Disconnect(c) ==
  /\ phase[c] # "off" /\ failures < MaxFailures
  /\ failures' = failures + 1
  /\ socket' = [socket EXCEPT ![c] = None]
  /\ phase' = [phase EXCEPT ![c] = "off"]
  /\ mine' = [mine EXCEPT ![c] = TRUE]
  /\ down' = [i \in Connections |-> IF i = socket[c] THEN <<>> ELSE down[i]]
  /\ UNCHANGED <<serverVars, owner, dead, up, retry, dialogs, asked, requests>>

\* connected: sendHello().
Connected(c) ==
  /\ phase[c] = "connecting" /\ ServerEnd(socket[c]) /\ socket[c] \notin dead
  /\ phase' = [phase EXCEPT ![c] = "handshake"]
  /\ up' = [up EXCEPT ![socket[c]] = Append(@, Hello)]
  /\ UNCHANGED <<serverVars, owner, dead, down, socket, mine, retry, dialogs,
                 asked, failures, requests>>

\* disconnected or errorOccurred: the server has closed, or never listened.
ServerGone(c) ==
  /\ socket[c] # None /\ ~ ServerEnd(socket[c]) /\ socket[c] \notin dead
  /\ LoseChannel(c)
  /\ UNCHANGED failures

\* handshakeTimer: no answer to the hello within 3 s.
MutantTimerStoppedEarly(c) == phase[c] = "connecting"
HandshakePending(c) == phase[c] \in {"connecting", "handshake"}

HandshakeTimeout(c) ==
  /\ HandshakePending(c)
  /\ Live(socket[c]) => failures < MaxFailures
  /\ failures' = IF Live(socket[c]) THEN failures + 1 ELSE failures
  /\ LoseChannel(c)

\* handleConnectionLost(): the server has been silent for too long.
ServerSilent(c) ==
  /\ phase[c] = "ready"
  /\ Live(socket[c]) => failures < MaxFailures
  /\ failures' = IF Live(socket[c]) THEN failures + 1 ELSE failures
  /\ LoseChannel(c)

\* processSocketData(): one line of the server.  A request for control opens
\* a box whose event loop keeps handling messages.
ClientReceive(c) ==
  LET i == socket[c]
      m == Head(down[i])
  IN  /\ i # None /\ down[i] # <<>>
      /\ down' = [down EXCEPT ![i] = Tail(@)]
      /\ phase' = IF m = Ok THEN [phase EXCEPT ![c] = "ready"] ELSE phase
      /\ mine' = IF m.t = "role" THEN [mine EXCEPT ![c] = m.can] ELSE mine
      /\ dialogs' = IF m.t = "priorityRequest" /\ mine[c]
                    THEN [dialogs EXCEPT ![c] = Append(@, m.who)] ELSE dialogs
      /\ retry' = IF m = Ok THEN [retry EXCEPT ![c] = FALSE] ELSE retry
      /\ UNCHANGED <<serverVars, owner, dead, up, socket, asked, failures, requests>>

\* sendControlCommand(): nothing is sent unless the channel is ready.
SendUp(c, m) ==
  up' = IF phase[c] = "ready" /\ Live(socket[c])
        THEN [up EXCEPT ![socket[c]] = Append(@, m)] ELSE up

\* The user asks for control.
RequestControl(c) ==
  /\ phase[c] = "ready" /\ ~ mine[c]
  /\ requests < MaxRequests
  /\ requests' = requests + 1
  /\ SendUp(c, RequestPriority)
  /\ UNCHANGED <<serverVars, owner, dead, down, clientVars, asked, failures>>

\* The user answers the topmost box; to block counts only with a refusal.
AnswerRequest(c, accepted, block) ==
  /\ dialogs[c] # <<>>
  /\ dialogs' = [dialogs EXCEPT ![c] = Front(@)]
  /\ SendUp(c, PriorityResponse(Last(dialogs[c]), accepted, block))
  /\ UNCHANGED <<serverVars, owner, dead, down, socket, phase, mine, retry,
                 asked, failures, requests>>

-----------------------------------------------------------------------------
(* Failures *)

\* The link of a connection dies without either end noticing.
LinkDies(i) ==
  /\ Live(i) /\ failures < MaxFailures
  /\ failures' = failures + 1
  /\ dead' = dead \cup {i}
  /\ up' = [up EXCEPT ![i] = <<>>]
  /\ down' = [down EXCEPT ![i] = <<>>]
  /\ UNCHANGED <<serverVars, owner, clientVars, asked, requests>>

\* The host of a client goes down; the application is started again later.
ClientCrash(c) ==
  /\ socket[c] # None /\ failures < MaxFailures
  /\ failures' = failures + 1
  /\ dead' = dead \cup {socket[c]}
  /\ socket' = [socket EXCEPT ![c] = None]
  /\ phase' = [phase EXCEPT ![c] = "off"]
  /\ mine' = [mine EXCEPT ![c] = TRUE]
  /\ retry' = [retry EXCEPT ![c] = FALSE]
  /\ dialogs' = [dialogs EXCEPT ![c] = <<>>]
  /\ up' = [up EXCEPT ![socket[c]] = <<>>]
  /\ down' = [down EXCEPT ![socket[c]] = <<>>]
  /\ UNCHANGED <<serverVars, owner, asked, requests>>

Next ==
  \/ \E i \in Connections :
       \/ Accept(i) \/ PeerGone(i) \/ HeartbeatTimeout(i) \/ ServerReceive(i)
       \/ LinkDies(i)
  \/ StopServer \/ StartServer
  \/ \E c \in Clients :
       \/ Connect(c) \/ Reconnect(c) \/ Disconnect(c) \/ Connected(c) \/ ServerGone(c)
       \/ HandshakeTimeout(c) \/ ServerSilent(c) \/ ClientReceive(c)
       \/ RequestControl(c) \/ ClientCrash(c)
       \/ AnswerRequest(c, TRUE, FALSE) \/ \E block \in BOOLEAN : AnswerRequest(c, FALSE, block)

Spec == Init /\ [][Next]_vars

\* Event loops serve every ready event, and timers fire.  Reconnect is strong
\* only because MaxConnections may leave no identifier free for a while.
Fairness ==
  /\ \A i \in Connections :
       /\ WF_vars(Accept(i)) /\ WF_vars(PeerGone(i)) /\ WF_vars(ServerReceive(i))
       /\ WF_vars(i \in dead /\ HeartbeatTimeout(i))
  /\ \A c \in Clients :
       /\ SF_vars(Reconnect(c)) /\ WF_vars(Connected(c)) /\ WF_vars(ServerGone(c))
       /\ WF_vars(ClientReceive(c))
       /\ WF_vars(~ Live(socket[c]) /\ HandshakeTimeout(c))
       /\ WF_vars(~ Live(socket[c]) /\ ServerSilent(c))

FairSpec == Spec /\ Fairness

-----------------------------------------------------------------------------
(* What it implements *)

\* The control of the receiver as the server's users see it.
Control == INSTANCE AbstractControl WITH
  Peers    <- Connections,
  Nobody   <- None,
  accepted <- peers,
  ready    <- ready,
  holder   <- controller,
  wishes   <- asked

\* Whatever is lost, closed, answered late or asked twice: every connection is
\* accepted once, a ready peer always has the control, the longest-standing one
\* succeeds a holder that is lost, and a holder that stays loses it only to a
\* peer that asked for it in this very connection (promoteControllerIfNeeded,
\* closePeerSocket, setControllerPeer).
ImplementsControl == Control!Spec

-----------------------------------------------------------------------------
(* Properties *)

TypeOK ==
  /\ serving \in BOOLEAN /\ heartbeat \in BOOLEAN
  /\ pending \subseteq Connections /\ ready \subseteq Connections
  /\ peers \in Seq(Connections)
  /\ controller \in Connections \cup {None}
  /\ blocked \subseteq Range(AddressOf)
  /\ owner \in [Connections -> Clients \cup {None}]
  /\ dead \subseteq Connections /\ asked \subseteq Connections
  /\ up \in [Connections -> Seq(ToServer)] /\ down \in [Connections -> Seq(ToClient)]
  /\ socket \in [Clients -> Connections \cup {None}]
  /\ phase \in [Clients -> {"off", "closed", "connecting", "handshake", "ready"}]
  /\ mine \in [Clients -> BOOLEAN] /\ retry \in [Clients -> BOOLEAN]
  /\ dialogs \in [Clients -> Seq(Connections)]
  /\ failures \in 0 .. MaxFailures /\ requests \in 0 .. MaxRequests

\* As long as a peer is ready, one of the ready peers controls the receiver
\* and the heartbeat that would find it dead is running.
SomeoneControls ==
  /\ controller # None => controller \in ready
  /\ ready # {} => controller # None /\ heartbeat
  /\ ready \subseteq ToSet(peers)

\* What client c will believe of its role once it has read everything sent.
Belief(i) ==
  LET roles == {n \in DOMAIN down[i] : down[i][n].t = "role"}
      last == CHOOSE n \in roles : \A m \in roles : m <= n
  IN  IF roles = {} THEN mine[owner[i]] ELSE down[i][last].can

\* Once its messages have arrived a client believes in its role exactly if
\* the server does: no hand-over, promotion or reconnection leaves two
\* controllers or none behind.
RoleAgreement == \A i \in ready : Live(i) => (Belief(i) <=> i = controller)

\* A controller whose connection is gone does not keep the receiver.
DeadControllerReplaced ==
  \A i \in Connections : (controller = i /\ ~ Live(i)) ~> (controller # i \/ Live(i))

\* A client that is receiving when it connects, or loses its channel, gets a
\* channel once the server is there for good, unless its user gives up.  (Only
\* such a client starts the reconnect timer; one that is idle waits for its user.)
ClientReconnects ==
  <>[] serving => \A c \in Clients :
    phase[c] \in {"closed", "connecting", "handshake"} ~> phase[c] \in {"ready", "off"}
=============================================================================
