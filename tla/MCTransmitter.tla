--------------------------- MODULE MCTransmitter ---------------------------
(* The transmitter on a small instance: a live source prebuffers two        *)
(* chunks, its queue holds three, and there are three overs.                *)
EXTENDS Transmitter
=============================================================================
