----------------------------- MODULE RoundRobin -----------------------------
(***************************************************************************)
(* What the scheduler promises: a queue of processes whose head is the one *)
(* running.  Switching sends the head to the tail; a new process joins at  *)
(* the tail, behind every process that was there before it.                *)
(***************************************************************************)
EXTENDS Sequences, SequencesExt

CONSTANT Pid

VARIABLE queue

Init == queue = <<>>

Join == \E p \in Pid \ ToSet(queue) : queue' = Append(queue, p)

Rotate == queue # <<>> /\ queue' = Append(Tail(queue), Head(queue))

Next == Join \/ Rotate

Spec == Init /\ [][Next]_queue

=============================================================================
