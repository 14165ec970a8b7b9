-------------------------- MODULE AbstractIqBuffer --------------------------
(***************************************************************************)
(* What the users of the shared IQ buffer rely on, without ring, mutexes,  *)
(* chunks and sequence numbers.                                            *)
(*                                                                         *)
(* Since the last clear() the receiver has written a log of floats, known  *)
(* by their position and by the epoch claimed for them.  Asking for a      *)
(* snapshot yields, at once, a run of consecutive floats of that log; the  *)
(* audio thread takes the blocks of a queue that may lose its oldest ones; *)
(* and clear() ends log, queue and epoch in one step.                      *)
(*                                                                         *)
(* It only judges steps: what is written, queued or returned is whatever   *)
(* the primed variable says, within what the action allows.                *)
(***************************************************************************)
EXTENDS Integers, Sequences

CONSTANTS
  Readers,  \* threads that take snapshots
  Epochs    \* what clear() may set the epoch to

VARIABLES
  epoch,       \* the epoch of the log
  generation,  \* how often the log was begun
  length,      \* floats in the log
  queue,       \* blocks the audio thread has not taken
  returned     \* the snapshot each reader holds, <<>> for none

vars == <<epoch, generation, length, queue, returned>>

Init ==
  /\ epoch = 1
  /\ generation = 1
  /\ length = 0
  /\ queue = <<>>
  /\ returned = [r \in Readers |-> <<>>]

\* The epochs a float or a block of the current log may claim.
Marks == {0, epoch}

\* The log grows.
Write ==
  /\ length' > length
  /\ UNCHANGED <<epoch, generation, queue, returned>>

\* A block joins the queue at its end; the k oldest blocks may be lost.
Enqueue ==
  /\ queue' # <<>>
  /\ queue'[Len(queue')].epoch \in Marks
  /\ \E k \in 0 .. Len(queue) :
       queue' = Append(SubSeq(queue, k + 1, Len(queue)), queue'[Len(queue')])
  /\ UNCHANGED <<epoch, generation, length, returned>>

\* The audio thread takes the oldest block.
Dequeue ==
  /\ queue # <<>>
  /\ queue' = Tail(queue)
  /\ UNCHANGED <<epoch, generation, length, returned>>

\* All blocks are lost, the audio being off or a block exceeding the limits.
Flush ==
  /\ queue' = <<>>
  /\ UNCHANGED <<epoch, generation, length, returned>>

\* Everything written and queued so far is gone; 0 keeps the epoch.
Restart(e) ==
  /\ epoch' = IF e # 0 THEN e ELSE epoch
  /\ generation' = generation + 1
  /\ length' = 0
  /\ queue' = <<>>
  /\ UNCHANGED returned

\* s is a run of consecutive floats of the log.
IsRun(s) ==
  /\ s # <<>>
  /\ s[1].at + Len(s) <= length
  /\ \A k \in 1 .. Len(s) : /\ s[k].gen = generation
                            /\ s[k].at = s[1].at + k - 1
                            /\ s[k].epoch \in Marks

Return(r) ==
  /\ IsRun(returned'[r])
  /\ returned' = [returned EXCEPT ![r] = returned'[r]]
  /\ UNCHANGED <<epoch, generation, length, queue>>

\* The reader asks again.
Forget(r) ==
  /\ returned' = [returned EXCEPT ![r] = <<>>]
  /\ UNCHANGED <<epoch, generation, length, queue>>

Next ==
  \/ Write
  \/ Enqueue \/ Dequeue \/ Flush
  \/ \E e \in Epochs \cup {0} : Restart(e)
  \/ \E r \in Readers : Return(r) \/ Forget(r)

Spec == Init /\ [][Next]_vars
=============================================================================
