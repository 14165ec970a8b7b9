-------------------------- MODULE MCRadioLifecycle --------------------------
(* Small instances of RadioLifecycle for TLC. *)
EXTENDS RadioLifecycle

\* A Fobos is selected and stays so, and nothing but its driver keeps a reader
\* for the six seconds after which the poll gives up.
FobosStep ==
  /\ Next
  /\ ~ ui'.external
  /\ PollGivesUp => proc.thread = "reading"

FobosSpec == Init /\ ~ ui.external /\ [][FobosStep]_vars /\ Fairness
=============================================================================
