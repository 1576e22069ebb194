--------------------------- MODULE DisjointBlocks ---------------------------
(***************************************************************************)
(* What an allocator that never takes anything back promises: each block   *)
(* lies in the arena, begins at a multiple of its alignment, and overlaps  *)
(* none that was handed out before; and a request is refused only when its *)
(* block would not fit behind all of them.                                 *)
(***************************************************************************)
EXTENDS Integers

CONSTANTS Arena, Alignments, Sizes

VARIABLES
  blocks,    \* the blocks handed out, each with its start and its size
  refused    \* the requests refused, each with its size and its alignment

Bytes(block) == block.start .. block.start + block.size - 1

Fits(block) ==
  /\ Bytes(block) \subseteq Arena
  /\ \A other \in blocks : Bytes(block) \cap Bytes(other) = {}

Behind(start) == \A other \in blocks : other.start < start

Init == blocks = {} /\ refused = {}

Allocate ==
  \E start \in Arena, alignment \in Alignments, size \in Sizes :
    LET block == [start |-> start, size |-> size]
    IN  /\ start % alignment = 0
        /\ Fits(block)
        /\ blocks' = blocks \cup {block}
        /\ UNCHANGED refused

Refuse ==
  \E alignment \in Alignments, size \in Sizes :
    /\ \A start \in Arena :
         start % alignment = 0 /\ Behind(start)
           => ~Fits([start |-> start, size |-> size])
    /\ refused' = refused \cup {[size |-> size, alignment |-> alignment]}
    /\ UNCHANGED blocks

Spec == Init /\ [][Allocate \/ Refuse]_<<blocks, refused>>

=============================================================================
