------------------------------ MODULE Scheduler ------------------------------
(***************************************************************************)
(* The process ring of src/src/processes/scheduler/scheduler.c.            *)
(*                                                                         *)
(* A node is named by its pid, its index from scheduler_start, and         *)
(* scheduler_front by the number of nodes below it: nodes are carved one   *)
(* after the other out of a region that init_scheduler reserves once.      *)
(* free_process is never called in the program, so the list it feeds,      *)
(* scheduler_free_list, is always empty and left out.                      *)
(***************************************************************************)
EXTENDS Integers, KernelPanic

CONSTANTS
  PID_MAX,      \* processes the region is reserved for (16)
  ProcessSize,  \* sizeof(Process), the unit of the reservation (98)
  NodeSize      \* sizeof(SchedulerNode), the unit of allocation (108)

ASSUME RegionAssumption ==
  /\ PID_MAX \in Nat \ {0}
  /\ ProcessSize \in Nat \ {0}
  /\ NodeSize \in Nat \ {0}

\* scheduler_end, as an offset from scheduler_start.
scheduler_end == PID_MAX * ProcessSize

\* The nodes that start inside the region.
Node == {n \in 0 .. scheduler_end - 1 : n * NodeSize < scheduler_end}

NoProcess == -1

VARIABLES
  scheduler_front,  \* nodes carved so far
  current_process,  \* node of the running process, or NoProcess
  next,             \* ring links, by node
  prev

scheduler_vars == <<scheduler_front, current_process, next, prev, halted>>

Scheduled == 0 .. scheduler_front - 1

-----------------------------------------------------------------------------

init_scheduler ==
  /\ scheduler_front = 0
  /\ current_process = NoProcess
  /\ next = [n \in Node |-> NoProcess]
  /\ prev = [n \in Node |-> NoProcess]

\* A call of alloc_process in such a state panics.
TooManyProcesses == scheduler_front * NodeSize >= scheduler_end

alloc_process(node) ==
  /\ ~TooManyProcesses
  /\ node = scheduler_front
  /\ scheduler_front' = scheduler_front + 1

\* The first node makes a ring of its own and becomes current.
FirstNode(node) ==
  /\ current_process = NoProcess
  /\ next' = [next EXCEPT ![node] = node]
  /\ prev' = [prev EXCEPT ![node] = node]
  /\ current_process' = node

\* A later node goes into the ring between two neighbours.
Between(node, before, after) ==
  /\ current_process # NoProcess
  /\ next' = [next EXCEPT ![node] = after, ![before] = node]
  /\ prev' = [prev EXCEPT ![node] = before, ![after] = node]
  /\ UNCHANGED current_process

\* Mutant: the new node goes in front of the current one.
schedule_process_in_front(node) ==
  /\ alloc_process(node)
  /\ FirstNode(node) \/ Between(node, current_process, next[current_process])

\* Mutant: the back link of the current node is left as it was.
schedule_process_half_linked(node) ==
  /\ alloc_process(node)
  /\ \/ FirstNode(node)
     \/ /\ current_process # NoProcess
        /\ next' = [next EXCEPT ![node] = current_process,
                                ![prev[current_process]] = node]
        /\ prev' = [prev EXCEPT ![node] = prev[current_process]]
        /\ UNCHANGED current_process

\* The new node goes right behind the current one.
schedule_process(node) ==
  /\ alloc_process(node)
  /\ FirstNode(node) \/ Between(node, prev[current_process], current_process)

\* The callers only switch once a process has been scheduled.
scheduler_next_process ==
  /\ current_process' = next[current_process]
  /\ UNCHANGED <<scheduler_front, next, prev>>

-----------------------------------------------------------------------------
(***************************************************************************)
(* The scheduler with callers that schedule and switch in any order.       *)
(***************************************************************************)

SchedInit == init_scheduler /\ halted = FALSE

Schedule ==
  /\ NotHalted
  /\ \E node \in Node : schedule_process(node)
  /\ UNCHANGED halted

Switch ==
  /\ NotHalted
  /\ current_process # NoProcess
  /\ scheduler_next_process
  /\ UNCHANGED halted

Refuse ==
  /\ TooManyProcesses
  /\ kernel_panic
  /\ UNCHANGED <<scheduler_front, current_process, next, prev>>

SchedStopped == halted /\ UNCHANGED scheduler_vars

SchedNext == Schedule \/ Switch \/ Refuse \/ SchedStopped

SchedSpec == SchedInit /\ [][SchedNext]_scheduler_vars

\* Before the first switch, kernel_entry only schedules.
BootSpec == SchedInit /\ [][Schedule \/ Refuse]_scheduler_vars

-----------------------------------------------------------------------------

\* The state stays within its types, and the nodes in use within the region.
SchedTypeOK ==
  /\ scheduler_front \in Nat
  /\ Scheduled \subseteq Node
  /\ current_process \in Scheduled \cup {NoProcess}
  /\ next \in [Node -> Node \cup {NoProcess}]
  /\ prev \in [Node -> Node \cup {NoProcess}]
  /\ halted \in BOOLEAN

\* The index after i in a ring of as many nodes as are scheduled.
After(i) == IF i = scheduler_front THEN 1 ELSE i + 1

\* ring lists the scheduled nodes, each once, from the current one, in the
\* order next leads through them; prev leads back.
IsRing(ring) ==
  /\ scheduler_front # 0 => ring[1] = current_process
  /\ \A i, k \in 1 .. scheduler_front : ring[i] = ring[k] => i = k
  /\ \A n \in Scheduled : \E i \in 1 .. scheduler_front : ring[i] = n
  /\ \A i \in 1 .. scheduler_front :
        next[ring[i]] = ring[After(i)] /\ prev[ring[After(i)]] = ring[i]

(***************************************************************************)
(* The scheduled nodes form one ring, closed and doubly linked, whatever   *)
(* the order of scheduling and switching (scheduler.c 46-60: four links    *)
(* are set, two of which coincide when the ring has one node).             *)
(***************************************************************************)
OneRing == \E ring \in [1 .. scheduler_front -> Scheduled] : IsRing(ring)

\* The scheduled nodes in ring order from the current one.
RingOrder ==
  LET step[k \in 0 .. scheduler_front] ==
        IF k = 0 THEN current_process ELSE next[step[k - 1]]
  IN  [k \in 1 .. scheduler_front |-> step[k - 1]]

(***************************************************************************)
(* The ring is a round-robin queue: switching sends the running process to *)
(* the tail, and a new process waits behind all those that were there      *)
(* (scheduler.c 46-65).                                                    *)
(***************************************************************************)
Queue == INSTANCE RoundRobin WITH Pid <- Node, queue <- RingOrder
ImplementsRoundRobin == Queue!Spec

(***************************************************************************)
(* The region reserved by init_scheduler (scheduler.c 39-43) holds every   *)
(* node carved from it, as the test in alloc_process means to ensure.      *)
(***************************************************************************)
NodesFitReservation == scheduler_front * NodeSize <= scheduler_end

=============================================================================
