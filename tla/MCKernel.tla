------------------------------ MODULE MCKernel ------------------------------
(***************************************************************************)
(* Kernel with tables of three entries: page 0 is the kernel's, page 1     *)
(* user code, page 2 the guard below the stack, pages 3 to 5 the stack,    *)
(* and pages 6 to 8 are nothing.  User code stores a word that looks like  *)
(* a present entry leading into the page space.                            *)
(***************************************************************************)
EXTENDS KernelProperties

MCClientWords ==
  {[present |-> TRUE, user |-> TRUE, address |-> PAGE_SPACE_START + 1]}

=============================================================================
