------------------------------- MODULE Kernel -------------------------------
(***************************************************************************)
(* Processes and their address spaces: kernel_entry from                   *)
(* setup_kernel_paging on (entry.c), enqueue_process and switch_process    *)
(* (processes/process.c), address spaces and the page-fault handler        *)
(* (paging.c), and the exit system call (syscalls.c), over the frame       *)
(* allocator and the scheduler.                                            *)
(*                                                                         *)
(* Processes run to completion: a process is entered by switch_process and *)
(* leaves by exit or by a fault that ends it, and is then restarted from   *)
(* scratch when its turn comes.  The kernel's code between two user        *)
(* instructions is cut at its calls of the frame allocator, so that a      *)
(* frame read after it was freed, or a panic half-way, shows.              *)
(*                                                                         *)
(* Memory is counted in pages, and a stack page grows by whole pages, so   *)
(* the byte addresses of the code (cr2, lowest_stack_page) are page        *)
(* numbers here: lowest_stack_page is aligned, and i > cr2 holds of an     *)
(* aligned i exactly when it holds of the page numbers.                    *)
(*                                                                         *)
(* Locals and registers that nothing reads again are set back to 0.        *)
(***************************************************************************)
EXTENDS FrameAllocator, Scheduler

CONSTANTS
  NULL_END,  \* first page user code may touch (0x7)
  USER_END   \* first page past user code (0x80)

ASSUME PagingAssumption ==
  /\ NULL_END \in Nat /\ USER_END \in Nat
  /\ NULL_END <= USER_END /\ USER_END <= PT_ENTRIES
  /\ PT_ENTRIES >= 2
  /\ PT_ENTRIES <= PAGE_SPACE_START

Page == 0 .. PT_ENTRIES * PT_ENTRIES - 1
STACK_START == PT_ENTRIES      \* 0x400000
STACK_TOP   == 2 * PT_ENTRIES  \* 0x800000

VARIABLES
  pc,                 \* where the machine is: in user code, or in the kernel
  kernel_pt,          \* the table of the identity map
  pdt,                \* page directory of each process, or NULL
  lowest_stack_page,  \* per process
  cr2, cr3, paging,   \* faulting page, directory the MMU uses, cr0.PG
  new_pdt, stack_pt,  \* locals of create_VAS
  i, j,               \* loop variables of the handlers, free_VAS, free_pagetable
  orphans             \* history: directories of processes that have ended

allocator == <<frame_edge, frame_free_list, ram, holders>>
scheduler == <<scheduler_front, current_process, next, prev>>
processes == <<pdt, lowest_stack_page>>
mmu       == <<cr2, cr3, paging>>
locals    == <<new_pdt, stack_pt, i, j>>

vars == <<allocator, scheduler, processes, mmu, locals, pc, kernel_pt, orphans, halted>>

-----------------------------------------------------------------------------

Entry(frame) == [present |-> TRUE, user |-> TRUE, address |-> frame]

\* The identity map of the first PT_ENTRIES pages.
KernelTable ==
  [s \in Slot |-> [present |-> TRUE,
                   user    |-> NULL_END <= s /\ s < USER_END,
                   address |-> s]]

\* The directory and table entries that translate a virtual page.
PDE(dir, page) == ram[dir][page \div PT_ENTRIES]
PTE(dir, page) == ram[PDE(dir, page).address][page % PT_ENTRIES]

is_mounted(dir, page) == PDE(dir, page).present /\ PTE(dir, page).present

\* The MMU lets user code through.
Accessible(dir, page) ==
  is_mounted(dir, page) /\ PDE(dir, page).user /\ PTE(dir, page).user

\* Its only caller mounts where a table exists already: stack pages, below
\* the one create_VAS mounted.
mount_page(dir, page, frame) ==
  ram' = [ram EXCEPT ![PDE(dir, page).address][page % PT_ENTRIES] = Entry(frame)]

directory == pdt[current_process]

At(label) == pc = label /\ NotHalted

-----------------------------------------------------------------------------
(***************************************************************************)
(* Boot.                                                                   *)
(***************************************************************************)

\* The process structures start as whatever malloc_immortal found in memory.
Init ==
  /\ FrameInit
  /\ init_scheduler
  /\ pc = "setup"
  /\ kernel_pt = NULL
  /\ pdt = [n \in Node |-> PAGE_SPACE_START]
  /\ lowest_stack_page = [n \in Node |-> 0]
  /\ cr2 = 0 /\ cr3 = NULL /\ paging = FALSE
  /\ new_pdt = NULL /\ stack_pt = NULL /\ i = 0 /\ j = 0
  /\ orphans = {}

setup_kernel_paging ==
  /\ At("setup")
  /\ \E frame \in Frame :
        /\ malloc_page(frame)
        /\ ram' = [ram EXCEPT ![frame] = KernelTable]
        /\ kernel_pt' = frame
  /\ pc' = "enqueue"
  /\ UNCHANGED <<scheduler, processes, mmu, locals, orphans, halted>>

\* kernel_entry schedules some processes, then switches.
enqueue_process ==
  /\ At("enqueue")
  /\ \E node \in Node :
        /\ schedule_process(node)
        /\ pdt' = [pdt EXCEPT ![node] = NULL]
  /\ pc' \in {"enqueue", "switch"}
  /\ UNCHANGED <<allocator, lowest_stack_page, mmu, locals, kernel_pt, orphans, halted>>

-----------------------------------------------------------------------------
(***************************************************************************)
(* switch_process and the address space it builds.                         *)
(***************************************************************************)

switch_process ==
  /\ At("switch")
  /\ scheduler_next_process
  /\ pc' = IF pdt[current_process'] = NULL THEN "create_VAS" ELSE "resume"
  /\ UNCHANGED <<allocator, processes, mmu, locals, kernel_pt, orphans, halted>>

create_VAS_pdt ==
  /\ At("create_VAS")
  /\ \E frame \in Frame :
        /\ malloc_page(frame)
        /\ ram' = [ram EXCEPT ![frame] = [ZeroPage EXCEPT ![0] = Entry(kernel_pt)]]
        /\ new_pdt' = frame
  /\ pc' = "create_stack_pt"
  /\ UNCHANGED <<scheduler, processes, mmu, stack_pt, i, j, kernel_pt, orphans, halted>>

TakeTable(frame) ==
  /\ At("create_stack_pt")
  /\ stack_pt' = frame
  /\ pc' = "create_stack"
  /\ UNCHANGED <<scheduler, processes, mmu, new_pdt, i, j, kernel_pt, orphans, halted>>

\* Mutant: malloc_page where calloc_page is needed.
create_VAS_stack_pt_dirty ==
  \E frame \in Frame : malloc_page(frame) /\ UNCHANGED ram /\ TakeTable(frame)

create_VAS_stack_pt == \E frame \in Frame : calloc_page(frame) /\ TakeTable(frame)

\* The top stack page; then create_VAS returns and the process is filled in.
create_VAS_stack ==
  /\ At("create_stack")
  /\ \E frame \in Frame :
        /\ malloc_page(frame)
        /\ ram' = [ram EXCEPT ![stack_pt][PT_ENTRIES - 1] = Entry(frame),
                              ![new_pdt][1] = Entry(stack_pt)]
  /\ pdt' = [pdt EXCEPT ![current_process] = new_pdt]
  /\ lowest_stack_page' = [lowest_stack_page EXCEPT ![current_process] = STACK_TOP - 1]
  /\ new_pdt' = NULL /\ stack_pt' = NULL
  /\ pc' = "resume"
  /\ UNCHANGED <<scheduler, mmu, i, j, kernel_pt, orphans, halted>>

\* set_cr3(dir), enable_paging, restore_context.
Enter(dir) ==
  /\ At("resume")
  /\ cr3' = dir
  /\ paging' = TRUE
  /\ pc' = "user"
  /\ UNCHANGED <<allocator, scheduler, processes, cr2, locals, kernel_pt, orphans, halted>>

\* Mutant: cr3 is set for the first process only.
resume_stale_cr3 == Enter(IF cr3 = NULL THEN directory ELSE cr3)

resume == Enter(directory)

-----------------------------------------------------------------------------
(***************************************************************************)
(* User code: it stores to pages it can reach, faults on those it cannot,  *)
(* and may exit.  It is taken not to overwrite the kernel's image, which   *)
(* the identity map lets it reach.                                         *)
(***************************************************************************)

user_store ==
  /\ At("user")
  /\ \E page \in Page, s \in Slot, w \in ClientWords :
        /\ Accessible(cr3, page)
        /\ PTE(cr3, page).address \in Frame
        /\ ram' = [ram EXCEPT ![PTE(cr3, page).address][s] = w]
  /\ UNCHANGED <<frame_edge, frame_free_list, holders, scheduler, processes, mmu,
                 locals, pc, kernel_pt, orphans, halted>>

user_fault ==
  /\ At("user")
  /\ \E page \in Page : ~Accessible(cr3, page) /\ cr2' = page
  /\ pc' = "fault"
  /\ UNCHANGED <<allocator, scheduler, processes, cr3, paging, locals, kernel_pt,
                 orphans, halted>>

\* disable_paging, then free_VAS from entry 1.
exit ==
  /\ At("user")
  /\ paging' = FALSE
  /\ pc' = "free_VAS" /\ i' = 1
  /\ UNCHANGED <<allocator, scheduler, processes, cr2, cr3, new_pdt, stack_pt, j,
                 kernel_pt, orphans, halted>>

-----------------------------------------------------------------------------
(***************************************************************************)
(* pagefault_handler: a fault in the stack region mounts every page from   *)
(* the lowest one down to the faulting one; any other ends the process.    *)
(***************************************************************************)

InStack(page) == STACK_START <= page /\ page < STACK_TOP

Handle(pg) ==
  /\ At("fault")
  /\ paging' = pg
  /\ IF InStack(cr2)
     THEN pc' = "grow" /\ i' = lowest_stack_page[current_process] /\ UNCHANGED cr2
     ELSE pc' = "free_VAS" /\ i' = 1 /\ cr2' = 0
  /\ UNCHANGED <<allocator, scheduler, processes, cr3, new_pdt, stack_pt, j,
                 kernel_pt, orphans, halted>>

\* Mutant: the handler works with paging left on.
pagefault_handler_paged == Handle(TRUE)

\* disable_paging, then one of the two ways.
pagefault_handler == Handle(FALSE)

\* Mutant: the loop stops above the faulting page.
GrowingShort == i > cr2 + 1

\* Mutant: the loop never gets to an end.
GrowingForever == i > 0

Growing == i > cr2

grow_stack ==
  /\ At("grow") /\ Growing
  /\ IF is_mounted(directory, i - 1)
     THEN UNCHANGED allocator
     ELSE \E frame \in Frame : malloc_page(frame) /\ mount_page(directory, i - 1, frame)
  /\ i' = i - 1
  /\ lowest_stack_page' = [lowest_stack_page EXCEPT ![current_process] = i - 1]
  /\ UNCHANGED <<scheduler, pdt, mmu, new_pdt, stack_pt, j, pc, kernel_pt, orphans, halted>>

\* enable_paging and return to the faulting instruction.
grow_done ==
  /\ At("grow") /\ ~Growing
  /\ paging' = TRUE
  /\ pc' = "user"
  /\ i' = 0 /\ cr2' = 0
  /\ UNCHANGED <<allocator, scheduler, processes, cr3, new_pdt, stack_pt, j,
                 kernel_pt, orphans, halted>>

-----------------------------------------------------------------------------
(***************************************************************************)
(* free_VAS: every page of every table, then the table; not the directory. *)
(***************************************************************************)

Table == ram[directory][i].address

WalkDirectory(past_absent) ==
  /\ At("free_VAS") /\ i < PT_ENTRIES
  /\ IF ram[directory][i].present
     THEN pc' = "free_pagetable" /\ UNCHANGED i
     ELSE i' = past_absent /\ UNCHANGED pc
  /\ UNCHANGED <<allocator, scheduler, processes, mmu, new_pdt, stack_pt, j,
                 kernel_pt, orphans, halted>>

\* Mutant: an absent entry is looked at again.
free_VAS_next_stuck == WalkDirectory(i)

free_VAS_next == WalkDirectory(i + 1)

FreeEntry(present) ==
  /\ At("free_pagetable") /\ j < PT_ENTRIES
  /\ IF present
     THEN free_page(ram[Table][j].address)
     ELSE UNCHANGED allocator
  /\ j' = j + 1
  /\ UNCHANGED <<scheduler, processes, mmu, new_pdt, stack_pt, i, pc, kernel_pt,
                 orphans, halted>>

\* Mutant: the last entry of a table is missed, the topmost stack page.
free_pagetable_one_short == FreeEntry(j < PT_ENTRIES - 1 /\ ram[Table][j].present)

free_pagetable == FreeEntry(ram[Table][j].present)

free_VAS_table ==
  /\ At("free_pagetable") /\ j = PT_ENTRIES
  /\ free_page(Table)
  /\ i' = i + 1 /\ j' = 0
  /\ pc' = "free_VAS"
  /\ UNCHANGED <<scheduler, processes, mmu, new_pdt, stack_pt, kernel_pt, orphans,
                 halted>>

End(dir) ==
  /\ At("free_VAS") /\ i = PT_ENTRIES
  /\ pdt' = [pdt EXCEPT ![current_process] = dir]
  /\ orphans' = orphans \cup {directory}
  /\ i' = 0
  /\ pc' = "switch"
  /\ UNCHANGED <<allocator, scheduler, lowest_stack_page, mmu, new_pdt, stack_pt, j,
                 kernel_pt, halted>>

\* Mutant: the process keeps its directory.
process_ends_with_pdt == End(directory)

\* Back in exit or the handler: the process has no directory any more.
process_ends == End(NULL)

-----------------------------------------------------------------------------

\* The calls that may panic: malloc_page with no frame left, and
\* schedule_process with no room left.
Allocating ==
  \/ pc \in {"setup", "create_VAS", "create_stack_pt", "create_stack"}
  \/ pc = "grow" /\ Growing /\ ~is_mounted(directory, i - 1)

panic ==
  /\ \/ Allocating /\ OutOfMemory
     \/ pc = "enqueue" /\ TooManyProcesses
  /\ kernel_panic
  /\ UNCHANGED <<allocator, scheduler, processes, mmu, locals, pc, kernel_pt, orphans>>

halt == halted /\ UNCHANGED vars

KernelStep ==
  \/ setup_kernel_paging \/ enqueue_process \/ switch_process
  \/ create_VAS_pdt \/ create_VAS_stack_pt \/ create_VAS_stack \/ resume
  \/ pagefault_handler \/ grow_stack \/ grow_done
  \/ free_VAS_next \/ free_pagetable \/ free_VAS_table \/ process_ends
  \/ panic

UserStep == user_store \/ user_fault \/ exit

Next == KernelStep \/ UserStep \/ halt

\* The processor keeps executing the kernel; user code may do as it likes.
Spec == Init /\ [][Next]_vars /\ WF_vars(KernelStep)

=============================================================================
