----------------------------- MODULE KernelPanic -----------------------------
(***************************************************************************)
(* kernel_panic of src/src/assert.c: interrupts off, a message, then halt, *)
(* an endless jump (boot.asm).  Nothing runs after it, so the only state   *)
(* it leaves is that the machine has stopped.                              *)
(***************************************************************************)

VARIABLE halted

NotHalted == halted = FALSE

kernel_panic == NotHalted /\ halted' = TRUE

=============================================================================
