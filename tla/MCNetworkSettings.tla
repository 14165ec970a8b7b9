------------------------- MODULE MCNetworkSettings -------------------------
(* The settings of a server on a small instance: two clients and a setting   *)
(* for each way in which taking settings over is not copying them.           *)
EXTENDS NetworkSettings

CONSTANTS a, b

MCClients == {a, b}
Listening == "listeningFrequency" \* its handler reports, and moves the center
Center == "centerFrequency"       \* its two values are within 0.5 Hz
Device == "deviceIndex"           \* a client's list has only the first
Position == "qthPositionVisible"  \* hidden on taking over, as its source is NMEA
MCKeys == {Listening, Center, Device, Position}
MCReported == {Listening}
MCDevices == {Device}

MCTaken == [s \in Settings |-> [s EXCEPT ![Position] = 0]]
MCTuned == [s \in Settings |-> [s EXCEPT ![Center] = s[Listening]]]
MCAdjusted ==
  [key \in Keys |-> IF key \in {Listening, Center} THEN MCTuned ELSE [s \in Settings |-> s]]
MCShown == [s \in Settings |-> [s EXCEPT ![Device] = 0]]
MCNear == {Center} \X Values \X Values

\* A client that controls and knows the server's state, one of those that Init
\* reaches, and one that has not connected yet.
InControl ==
  [ready |-> TRUE, control |-> TRUE, pending |-> TakenOver(server), confirmed |-> server,
   valid |-> TRUE, debounce |-> FALSE, awaiting |-> FALSE, asks |-> FALSE]
Fresh(mine) ==
  [ready |-> FALSE, control |-> FALSE, pending |-> mine, confirmed |-> mine,
   valid |-> FALSE, debounce |-> FALSE, awaiting |-> FALSE, asks |-> FALSE]

MCInit ==
  /\ server = [key \in Keys |-> IF key \in {Position, Device} THEN 1 ELSE 0] /\ controller = a
  /\ client = [c \in Clients |-> IF c = a THEN InControl ELSE Fresh([key \in Keys |-> 0])]
  /\ up = [c \in Clients |-> <<>>] /\ down = [c \in Clients |-> <<>>]
  /\ unreported = [c \in Clients |-> IF c = a THEN {} ELSE Keys]
  /\ edited = [c \in Clients |-> {}] /\ unsent = [c \in Clients |-> {}]
  /\ edits = 0 /\ changes = 0

MCSpec == MCInit /\ [][Next]_vars /\ Fairness
=============================================================================
