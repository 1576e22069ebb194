-------------------------- MODULE KernelProperties --------------------------
(***************************************************************************)
(* What makes Kernel correct: who owns which frame, what the MMU can see,  *)
(* and that the kernel always finds its way back to user code.             *)
(***************************************************************************)
EXTENDS Kernel

Labels ==
  {"setup", "enqueue", "switch", "create_VAS", "create_stack_pt", "create_stack",
   "resume", "user", "fault", "grow", "free_VAS", "free_pagetable"}

\* The state stays within its types; a stack never grows out of its region.
KernelTypeOK ==
  /\ FrameTypeOK
  /\ SchedTypeOK
  /\ pc \in Labels
  /\ kernel_pt \in Frame \cup {NULL}
  /\ pdt \in [Node -> Frame \cup {NULL}]
  /\ lowest_stack_page \in [Node -> {0} \cup STACK_START .. STACK_TOP - 1]
  /\ cr2 \in Page
  /\ cr3 \in Frame \cup {NULL}
  /\ paging \in BOOLEAN
  /\ new_pdt \in Frame \cup {NULL}
  /\ stack_pt \in Frame \cup {NULL}
  /\ i \in 0 .. STACK_TOP - 1
  /\ j \in 0 .. PT_ENTRIES
  /\ orphans \subseteq Frame

-----------------------------------------------------------------------------

\* The entries of a table that map something.
Mounted(table) == {s \in Slot : ram[table][s].present}

\* The user half of an address space, and the tables of it.
UserEntries(dir) == Mounted(dir) \ {0}
Tables(dir) == {ram[dir][e].address : e \in UserEntries(dir)}

\* create_VAS has returned and process_ends has not come yet.
HasSpace == pc \in {"resume", "user", "fault", "grow", "free_VAS", "free_pagetable"}

\* What free_VAS has not returned yet: entries of the directory, each with a
\* table, and entries of the tables, each with a page.
Freeing     == pc \in {"free_VAS", "free_pagetable"}
LeftEntries == {e \in UserEntries(directory) : Freeing => i <= e}
LeftPages(e) ==
  {s \in Mounted(ram[directory][e].address) : Freeing /\ e = i => j <= s}

\* The places that stand for a frame, each with the frame.
Owners ==
  {o \in {<<kernel_pt, "kernel_pt", 0, 0>>, <<new_pdt, "new_pdt", 0, 0>>,
          <<stack_pt, "stack_pt", 0, 0>>} : o[1] # NULL}
  \cup {<<frame, "orphan", 0, 0>> : frame \in orphans}
  \cup IF HasSpace
       THEN {<<directory, "pdt", 0, 0>>}
            \cup {<<ram[directory][e].address, "table", e, 0>> : e \in LeftEntries}
            \cup UNION {{<<ram[ram[directory][e].address][s].address, "page", e, s>> :
                           s \in LeftPages(e)} : e \in LeftEntries}
       ELSE {}

(***************************************************************************)
(* At every step, those of create_VAS, of the page-fault handler and of    *)
(* free_VAS included, a frame is out exactly when one place stands for it, *)
(* and only one: the kernel's table, a local of create_VAS, the directory  *)
(* of an ended process or of the current one, or an entry of that one's    *)
(* directory or tables that free_VAS has not come to (paging.c 46-67,      *)
(* 69-83, 155-173, 208-214).                                               *)
(***************************************************************************)
EveryFrameHasOneOwner ==
  /\ held = {o[1] : o \in Owners}
  /\ \A o, p \in Owners : o[1] = p[1] => o = p

(***************************************************************************)
(* While a process runs, its stack is mapped without a gap from            *)
(* lowest_stack_page to the top, and no other user page is: the handler    *)
(* may start from lowest_stack_page (paging.c 208-214), and a fresh        *)
(* address space has no entry left over from the frame's earlier life.     *)
(***************************************************************************)
StackIsContiguous ==
  pc = "user" =>
    \A p \in Page :
      p >= STACK_START =>
        (Accessible(cr3, p) <=> lowest_stack_page[current_process] <= p /\ p < STACK_TOP)

(***************************************************************************)
(* Only the current process has an address space: there is no context to   *)
(* come back to, so any other would never be freed (process.c 22-51).      *)
(***************************************************************************)
OneAddressSpace == \A n \in Scheduled \ {current_process} : pdt[n] = NULL

(***************************************************************************)
(* Whenever the MMU is on, it uses the current process's directory, whose  *)
(* first entry leads to the untouched identity map the kernel runs in; a   *)
(* fault or an exit could not be handled otherwise (paging.c 19-38, 72;    *)
(* process.c 51-53).                                                       *)
(***************************************************************************)
KernelStaysMapped ==
  paging =>
    /\ cr3 = directory /\ cr3 # NULL
    /\ ram[cr3][0] = Entry(kernel_pt)
    /\ ram[kernel_pt] = KernelTable

(***************************************************************************)
(* With paging on, no frame changes hands and no directory or table of the *)
(* address space changes, neither by the kernel, which reaches frames by   *)
(* their physical address, nor by user code, which reaches only its pages  *)
(* (paging.c 198, 215; syscalls.c 15).                                     *)
(***************************************************************************)
TablesStableWhilePaging ==
  [][paging =>
       /\ holders' = holders
       /\ \A f \in {kernel_pt, cr3} \cup Tables(cr3) : ram'[f] = ram[f]]_vars

(***************************************************************************)
(* A fault the handler returns from is resolved: the access that caused it *)
(* succeeds when it is retried (paging.c 207-216).                         *)
(***************************************************************************)
FaultIsResolved ==
  [][pc = "grow" /\ pc' = "user" => Accessible(cr3, cr2) /\ UNCHANGED <<ram, cr3>>]_vars

(***************************************************************************)
(* The kernel is left again: boot, a fault and an exit all lead to user    *)
(* code or to a panic, so the loops of the handler and of free_VAS end.    *)
(***************************************************************************)
KernelReturnsToUser == pc # "user" ~> (pc = "user" \/ halted)

(***************************************************************************)
(* "i'll need to restart process, so here we are" (process.h 26): where    *)
(* memory holds the kernel's table and one largest address space, as every *)
(* instance checked does, no start and no restart of a process panics.     *)
(***************************************************************************)
RestartNeverFails == pc # "enqueue" => NotHalted

=============================================================================
