----------------------------- MODULE FramePool ------------------------------
(***************************************************************************)
(* What a page-frame allocator promises its clients: a frame it hands out  *)
(* was nobody's, and only a holder gives one back.  How the free frames    *)
(* are found, and where the record of them is kept, is left open.          *)
(***************************************************************************)
EXTENDS Naturals

CONSTANT Frame

VARIABLE holders    \* how many clients hold each frame

Init == holders = [f \in Frame |-> 0]

Allocate == \E f \in Frame : holders[f] = 0 /\ holders' = [holders EXCEPT ![f] = 1]

Release == \E f \in Frame : holders[f] = 1 /\ holders' = [holders EXCEPT ![f] = 0]

Next == Allocate \/ Release

Spec == Init /\ [][Next]_holders

=============================================================================
