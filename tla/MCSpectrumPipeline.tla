------------------------- MODULE MCSpectrumPipeline -------------------------
(* Small instances of SpectrumPipeline for TLC. *)
EXTENDS SpectrumPipeline, TLC

\* A receiver read by a library's callback, a Fobos read synchronously, and an
\* Agile Fobos read by callbacks.
AllStreams ==
  {[kind |-> "external", sync |-> FALSE], [kind |-> "fobos", sync |-> TRUE],
   [kind |-> "agile", sync |-> FALSE]}
SyncFobos == {[kind |-> "fobos", sync |-> TRUE]}

\* FFTs of less than a block, half overlapping, in batches, and single ones of more.
Overlapping == [floats |-> 4, overlapHop |-> 2, interval |-> 1, batch |-> TRUE]
Single      == [floats |-> 8, overlapHop |-> 8, interval |-> 0, batch |-> FALSE]
AllSettings == {Overlapping, Single}
OneSetting  == {Overlapping}

\* Nothing tells the frequencies apart.
Interchangeable == Permutations(Frequencies)

-----------------------------------------------------------------------------
=============================================================================
