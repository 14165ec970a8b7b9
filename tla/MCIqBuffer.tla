----------------------------- MODULE MCIqBuffer -----------------------------
(* Small instances of IqBuffer for TLC. *)
EXTENDS IqBuffer

\* Audio off: blocks go to the snapshot ring only.
RingOnly == {<<FALSE, TRUE>>}

\* Replay: blocks go to the audio queue only.
QueueOnly == {<<TRUE, FALSE>>}

\* Live reception with the audio on and off, and replay.
AllModes == {<<FALSE, TRUE>>, <<TRUE, FALSE>>, <<TRUE, TRUE>>}

-----------------------------------------------------------------------------
=============================================================================
