--------------------------- MODULE AbstractControl ---------------------------
(***************************************************************************)
(* Who controls the receiver, as the users of a server and its clients may *)
(* rely on it: without sockets, queues of messages, dialogs and timers.    *)
(*                                                                         *)
(* Peers are accepted once each and queue up in that order; those that     *)
(* have said hello are ready.  The first to be ready holds the control.    *)
(* When the holder leaves, the ready peer that was accepted before the     *)
(* other ready ones succeeds it in the same step; while it stays it hands  *)
(* the control over, and only to a ready peer that has wished for it since *)
(* it was accepted.                                                        *)
(***************************************************************************)
EXTENDS Naturals, Sequences, SequencesExt

CONSTANTS
  Peers,
  Nobody   \* the holder while nobody is ready

VARIABLES
  accepted,  \* the peers, in the order in which they were accepted
  ready,     \* those that have said hello
  holder,    \* the one that controls the receiver
  wishes     \* those that have wished to

vars == <<accepted, ready, holder, wishes>>

Init ==
  /\ accepted = <<>>
  /\ ready = {}
  /\ holder = Nobody
  /\ wishes = {}

Enter(i) ==
  /\ i \notin ToSet(accepted)
  /\ accepted' = Append(accepted, i)
  /\ UNCHANGED <<ready, holder, wishes>>

\* The first ready peer gets the control with its welcome.
Join(i) ==
  /\ i \in ToSet(accepted) /\ i \notin ready
  /\ ready' = ready \cup {i}
  /\ holder' = IF ready = {} THEN i ELSE holder
  /\ UNCHANGED <<accepted, wishes>>

\* h is the first in the queue ps among rs.
Succeeds(h, ps, rs) ==
  IF rs = {} THEN h = Nobody
  ELSE \E n \in DOMAIN ps : /\ h = ps[n] /\ h \in rs
                            /\ \A m \in DOMAIN ps : ps[m] \in rs => n <= m

\* The others keep their places.
Leave(i) ==
  /\ \E n \in DOMAIN accepted : accepted[n] = i /\ accepted' = RemoveAt(accepted, n)
  /\ i \notin ToSet(accepted')
  /\ ready' = ready \ {i}
  /\ IF holder = i THEN Succeeds(holder', accepted', ready') ELSE holder' = holder
  /\ UNCHANGED wishes

Wish(i) ==
  /\ i \in ToSet(accepted)
  /\ wishes' = wishes \cup {i}
  /\ UNCHANGED <<accepted, ready, holder>>

HandOver(i) ==
  /\ i \in ready \cap wishes
  /\ holder \in ready
  /\ holder' = i
  /\ UNCHANGED <<accepted, ready, wishes>>

\* A wish ends with the connection it was made in, at the latest when another
\* connection takes its name.
Forget(i) ==
  /\ i \notin ToSet(accepted)
  /\ wishes' = wishes \ {i}
  /\ UNCHANGED <<accepted, ready, holder>>

\* The server stops.
Close ==
  /\ accepted' = <<>>
  /\ ready' = {}
  /\ holder' = Nobody
  /\ UNCHANGED wishes

Next ==
  \/ \E i \in Peers : Enter(i) \/ Join(i) \/ Leave(i) \/ Wish(i) \/ HandOver(i) \/ Forget(i)
  \/ Close

Spec == Init /\ [][Next]_vars
=============================================================================
