------------------------------ MODULE MCMemory ------------------------------
(***************************************************************************)
(* What fills memory and hands it out, in one run: the boot loader, the    *)
(* immortal allocator, the page-frame allocator, memmove, and the          *)
(* scheduler, which hands out the nodes of its ring.  They share nothing,  *)
(* so that a behaviour exercises one of them, chosen at the start, and     *)
(* leaves the others as they are.                                          *)
(***************************************************************************)
EXTENDS FrameAllocator, ImmortalAllocator, MemoryMove, BootLoader

\* Words that look like links: to a frame of the page space, and to a page below it.
MCClientWords ==
  {Pointer(PAGE_SPACE_START),
   [present |-> TRUE, user |-> TRUE, address |-> PAGE_SPACE_START - 1]}

\* Sizes below and above what is left of a unit of alignment; one request of nothing.
MCRequests == [size : {0, 1, 3}, alignment : {0, 4}, zeroed : BOOLEAN]

VARIABLE part   \* the part that moves

\* The ring and the pages each have a panic of their own.
CONSTANTS PID_MAX, ProcessSize, NodeSize
VARIABLES scheduler_front, current_process, next, prev, ring_halted

Ring == INSTANCE Scheduler WITH halted <- ring_halted

ring_vars == <<scheduler_front, current_process, next, prev, ring_halted>>

vars == <<frame_vars, immortal_vars, move_vars, loader_vars, ring_vars, part>>

Init ==
  /\ FrameInit /\ ImmortalInit /\ MoveInit /\ LoaderInit /\ Ring!SchedInit
  /\ part \in {"frames", "arena", "memmove", "loader", "ring"}
  \* What a part does not look at begins one way only.
  /\ part # "frames"  => ram = [f \in Frame |-> ZeroPage]
  /\ part # "memmove" => bytes = [a \in Location |-> 0]

Next ==
  /\ UNCHANGED part
  /\ \/ /\ part = "frames" /\ FrameNext
        /\ UNCHANGED <<immortal_vars, move_vars, loader_vars, ring_vars>>
     \/ /\ part = "arena" /\ ImmortalNext
        /\ UNCHANGED <<frame_vars, move_vars, loader_vars, ring_vars>>
     \/ /\ part = "memmove" /\ MoveNext
        /\ UNCHANGED <<frame_vars, immortal_vars, loader_vars, ring_vars>>
     \/ /\ part = "loader" /\ LoaderNext
        /\ UNCHANGED <<frame_vars, immortal_vars, move_vars, ring_vars>>
     \/ /\ part = "ring" /\ Ring!SchedNext
        /\ UNCHANGED <<frame_vars, immortal_vars, move_vars, loader_vars>>

Spec == Init /\ [][Next]_vars

-----------------------------------------------------------------------------
\* The ring is a round-robin queue: what Scheduler promises of it (see there).
ImplementsRoundRobin == Ring!ImplementsRoundRobin

=============================================================================
