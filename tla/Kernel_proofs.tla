---------------------------- MODULE Kernel_proofs ----------------------------
(***************************************************************************)
(* Proofs about Kernel: who owns which frame at every point of the         *)
(* kernel's code, for any page space, table size, number of processes and  *)
(* user code.                                                              *)
(*                                                                         *)
(* The invariant speaks of the states between two calls of the frame       *)
(* allocator, where an address space is half built or half freed: what the *)
(* properties say of user code is what is left of it there.                *)
(***************************************************************************)
EXTENDS KernelProperties, FrameAllocator_proofs, Scheduler_proofs

-----------------------------------------------------------------------------
(***************************************************************************)
(* The address space of the current process, as far as it exists.          *)
(***************************************************************************)

\* Its one table, which maps the stack, and the table's lowest entry in use.
StackTable == ram[directory][1].address
Lowest     == lowest_stack_page[current_process] - STACK_START

\* free_VAS has not returned the table yet.
HasTable == HasSpace /\ (pc = "free_VAS" => i = 1)

\* The entries whose pages free_pagetable has not returned yet.
Unfreed ==
  {s \in Slot : HasTable /\ Lowest <= s /\ (pc = "free_pagetable" => j <= s)}

StackFrame(s) == ram[StackTable][s].address
StackFrames   == {StackFrame(s) : s \in Unfreed}

\* The frames of the tables: the kernel's, the directory or the one that is
\* being built, and the stack's table or the one that is being built.
Structure ==
  ({kernel_pt, new_pdt, stack_pt} \ {NULL})
  \cup (IF HasSpace THEN {directory} ELSE {})
  \cup (IF HasTable THEN {StackTable} ELSE {})

-----------------------------------------------------------------------------
(***************************************************************************)
(* The inductive invariant.                                                *)
(***************************************************************************)

\* The allocator and the ring, whose own invariants hold under any client
\* that keeps their contracts.
Parts ==
  /\ FrameTypeOK
  /\ FreeListInv
  /\ SchedInv

\* Where each local and register is in use, and in which range.
Locals ==
  /\ pc \in Labels
  /\ pdt \in [Node -> Frame \cup {NULL}]
  /\ lowest_stack_page \in [Node -> {0} \cup STACK_START .. STACK_TOP - 1]
  /\ cr2 \in Page
  /\ cr3 \in Frame \cup {NULL}
  /\ paging \in BOOLEAN /\ (paging <=> pc \in {"user", "fault"})
  /\ kernel_pt \in IF pc = "setup" THEN {NULL} ELSE Frame
  /\ new_pdt \in IF pc \in {"create_stack_pt", "create_stack"} THEN Frame ELSE {NULL}
  /\ stack_pt \in IF pc = "create_stack" THEN Frame ELSE {NULL}
  /\ orphans \subseteq Frame
  /\ pc = "grow" => i = lowest_stack_page[current_process]
  /\ pc = "free_VAS" => i \in 1 .. PT_ENTRIES
  /\ pc = "free_pagetable" => i = 1 /\ j \in 0 .. PT_ENTRIES
  /\ pc \notin {"grow", "free_VAS", "free_pagetable"} => i = 0
  /\ pc # "free_pagetable" => j = 0

\* Only the current process has an address space, and only in between.
Spaces ==
  /\ pc \notin {"setup", "enqueue"} => current_process # NoProcess
  /\ \A n \in Scheduled : n # current_process \/ ~HasSpace => pdt[n] = NULL
  /\ HasSpace => directory \in Frame /\ Lowest \in Slot
  /\ pc \in {"user", "fault", "grow"} => cr3 = directory

\* What the tables contain.
Tabled ==
  /\ pc # "setup" => ram[kernel_pt] = KernelTable
  /\ pc \in {"create_stack_pt", "create_stack"} =>
       ram[new_pdt] = [ZeroPage EXCEPT ![0] = Entry(kernel_pt)]
  /\ pc = "create_stack" => ram[stack_pt] = ZeroPage
  /\ HasSpace =>
       /\ ram[directory][0] = Entry(kernel_pt)
       /\ ram[directory][1] = Entry(StackTable)
       /\ \A e \in Slot \ {0, 1} : ~ram[directory][e].present
  /\ HasTable =>
       \A s \in Slot :
         IF s < Lowest THEN ~ram[StackTable][s].present
                       ELSE ram[StackTable][s] = Entry(StackFrame(s))

\* No frame has two owners, and every frame that is out has one.
Owned ==
  /\ held = Structure \cup orphans \cup StackFrames
  /\ Structure \cap orphans = {}
  /\ StackFrames \cap (Structure \cup orphans) = {}
  /\ \A s, t \in Unfreed : StackFrame(s) = StackFrame(t) => s = t

\* Those of Structure are distinct.
Distinct ==
  /\ kernel_pt # NULL => kernel_pt \notin {new_pdt, stack_pt}
  /\ new_pdt # NULL => new_pdt # stack_pt
  /\ HasSpace => kernel_pt # directory
  /\ HasTable => StackTable \notin {kernel_pt, directory}

\* A fault in the stack region lies below what is mounted.
Faults ==
  /\ pc = "fault" => ~Accessible(cr3, cr2)
  /\ pc = "grow" => InStack(cr2) /\ cr2 <= i

KernelInv ==
  Parts /\ Locals /\ Spaces /\ Tabled /\ Owned /\ Distinct /\ Faults

-----------------------------------------------------------------------------
LEMMA PageZero == 0 \in Page /\ 1 \in 1 .. PT_ENTRIES
<1>1. PT_ENTRIES \in Nat /\ PT_ENTRIES >= 2
  BY PagingAssumption, PageSpaceAssumption
<1>2. 1 <= PT_ENTRIES * PT_ENTRIES
  BY <1>1, SMT
<1> QED
  BY <1>1, <1>2 DEF Page

(***************************************************************************)
(* The two indices of a page; the stack region is what entry 1 maps.       *)
(***************************************************************************)
LEMMA PageIndices ==
  ASSUME NEW p \in Page
  PROVE  /\ p \div PT_ENTRIES \in Slot
         /\ p % PT_ENTRIES \in Slot
         /\ p < STACK_START => p \div PT_ENTRIES = 0 /\ p % PT_ENTRIES = p
         /\ InStack(p) => p \div PT_ENTRIES = 1 /\ p % PT_ENTRIES = p - STACK_START
         /\ p >= STACK_TOP => p \div PT_ENTRIES \notin {0, 1}
<1> DEFINE q == p \div PT_ENTRIES
           r == p % PT_ENTRIES
<1>1. PT_ENTRIES \in Nat /\ PT_ENTRIES >= 2 /\ p \in Nat
  BY PagingAssumption, PageSpaceAssumption DEF Page
<1>2. q \in Nat /\ r \in 0 .. PT_ENTRIES - 1 /\ p = q * PT_ENTRIES + r
  BY <1>1, SMT
<1>3. p < PT_ENTRIES * PT_ENTRIES
  BY <1>1 DEF Page
<1>4. q < PT_ENTRIES
  BY <1>1, <1>2, <1>3, SMT
<1>5. p < PT_ENTRIES => q = 0
  BY <1>1, <1>2, SMT
<1>6. PT_ENTRIES <= p /\ p < 2 * PT_ENTRIES => q = 1
  BY <1>1, <1>2, SMT
<1>7. p >= 2 * PT_ENTRIES => q >= 2
  BY <1>1, <1>2, SMT
<1> HIDE DEF q, r
<1>8. /\ q = 0 => r = p
      /\ q = 1 => r = p - PT_ENTRIES
  BY <1>1, <1>2
<1> QED
  BY <1>1, <1>2, <1>4, <1>5, <1>6, <1>7, <1>8 DEF q, r, Slot, InStack, STACK_START, STACK_TOP

(***************************************************************************)
(* Once booted there is a current process, and its lowest stack page is in *)
(* the stack region while it has an address space.                         *)
(***************************************************************************)
LEMMA CurrentProcess ==
  ASSUME KernelInv, pc \notin {"setup", "enqueue"}
  PROVE  /\ current_process \in Scheduled
         /\ current_process \in Node
         /\ HasSpace => /\ Lowest \in Slot
                        /\ lowest_stack_page[current_process] = Lowest + STACK_START
                        /\ lowest_stack_page[current_process] \in STACK_START .. STACK_TOP - 1
<1>1. current_process \in Scheduled /\ current_process \in Node
  BY DEF KernelInv, Spaces, Parts, SchedInv, SchedTypeOK
<1>2. /\ lowest_stack_page[current_process] \in {0} \cup STACK_START .. STACK_TOP - 1
      /\ HasSpace => Lowest \in Slot
  BY <1>1 DEF KernelInv, Locals, Spaces
<1>3. PT_ENTRIES \in Nat /\ PT_ENTRIES >= 2
  BY PagingAssumption, PageSpaceAssumption
<1> QED
  BY <1>1, <1>2, <1>3 DEF Lowest, Slot, STACK_START, STACK_TOP

(***************************************************************************)
(* What the directory of the current process translates: the identity map  *)
(* below the stack region, the table's entries in it, nothing above.       *)
(***************************************************************************)
LEMMA Translation ==
  ASSUME KernelInv, HasTable, NEW p \in Page
  PROVE  /\ p < STACK_START => PTE(directory, p).address \notin Frame
         /\ InStack(p) => /\ PTE(directory, p) = ram[StackTable][p - STACK_START]
                          /\ p - STACK_START \in Slot
         /\ STACK_START <= p =>
              /\ is_mounted(directory, p) <=> lowest_stack_page[current_process] <= p
                                              /\ p < STACK_TOP
              /\ Accessible(directory, p) <=> is_mounted(directory, p)
<1>1. /\ HasSpace
      /\ PT_ENTRIES \in Nat /\ PT_ENTRIES >= 2 /\ PT_ENTRIES <= PAGE_SPACE_START
      /\ p \in Nat
  BY PagingAssumption, PageSpaceAssumption DEF HasTable, Page
<1>2. ASSUME p < STACK_START
      PROVE  PTE(directory, p).address \notin Frame
  <2>1. PDE(directory, p) = Entry(kernel_pt) /\ pc # "setup"
    BY <1>1, <1>2, PageIndices DEF PDE, KernelInv, Tabled, HasSpace
  <2>2. PTE(directory, p) = KernelTable[p] /\ p \in Slot
    BY <1>1, <1>2, <2>1, PageIndices DEF PTE, KernelInv, Tabled, Entry, Slot, STACK_START
  <2> QED
    BY <1>1, <1>2, <2>2, PageSpaceAssumption DEF KernelTable, Frame, STACK_START
<1>3. ASSUME InStack(p)
      PROVE  /\ PTE(directory, p) = ram[StackTable][p - STACK_START]
             /\ PDE(directory, p) = Entry(StackTable)
             /\ p - STACK_START \in Slot
  BY <1>1, <1>3, PageIndices DEF PTE, PDE, KernelInv, Tabled, Entry
<1>4. ASSUME InStack(p)
      PROVE  /\ is_mounted(directory, p) <=> lowest_stack_page[current_process] <= p
             /\ Accessible(directory, p) <=> is_mounted(directory, p)
  <2> DEFINE s == p - STACK_START
  <2>1. Lowest \in Slot /\ lowest_stack_page[current_process] = Lowest + STACK_START
    BY <1>1, CurrentProcess DEF HasSpace
  <2>2. s < Lowest <=> p < lowest_stack_page[current_process]
    BY <1>1, <2>1 DEF Slot, STACK_START
  <2>3. s \in Slot /\ PTE(directory, p) = ram[StackTable][s] /\ PDE(directory, p) = Entry(StackTable)
    BY <1>3, <1>4
  <2> HIDE DEF s
  <2>4. IF s < Lowest THEN ~ram[StackTable][s].present
                      ELSE ram[StackTable][s] = Entry(StackFrame(s))
    BY <2>3 DEF KernelInv, Tabled
  <2>5. PDE(directory, p).present /\ PDE(directory, p).user
    BY <2>3 DEF Entry
  <2>6. /\ ~(s < Lowest) => PTE(directory, p).present /\ PTE(directory, p).user
        /\ s < Lowest => ~PTE(directory, p).present
    BY <2>3, <2>4 DEF Entry
  <2>7. ~(s < Lowest) <=> lowest_stack_page[current_process] <= p
    BY <2>1, <2>2, <1>1, <2>3 DEF Slot, STACK_START
  <2> QED
    BY <2>5, <2>6, <2>7 DEF is_mounted, Accessible
<1>5. ASSUME p >= STACK_TOP
      PROVE  ~is_mounted(directory, p)
  <2>1. p \div PT_ENTRIES \in Slot \ {0, 1}
    BY <1>5, PageIndices
  <2>2. \A e \in Slot \ {0, 1} : ~ram[directory][e].present
    BY <1>1 DEF KernelInv, Tabled
  <2> QED
    BY <2>1, <2>2 DEF is_mounted, PDE
<1> QED
  BY <1>1, <1>2, <1>3, <1>4, <1>5 DEF InStack, STACK_START, STACK_TOP, Accessible

(***************************************************************************)
(* Everything the kernel writes to a frame is made of words.               *)
(***************************************************************************)
LEMMA WhatIsWritten ==
  /\ KernelTable \in [Slot -> Word]
  /\ ZeroPage \in [Slot -> Word]
  /\ \A f \in Frame : Entry(f) \in Word
  /\ {0, 1} \subseteq Slot /\ PT_ENTRIES - 1 \in Slot
  /\ NULL \notin Frame
<1>1. /\ PT_ENTRIES \in Nat /\ PT_ENTRIES >= 2 /\ PT_ENTRIES <= PAGE_SPACE_START
      /\ PAGE_SPACE_START \in Nat \ {0} /\ PAGE_SPACE_END \in Nat
      /\ PAGE_SPACE_START < PAGE_SPACE_END
  BY PagingAssumption, PageSpaceAssumption
<1>2. KernelTable \in [Slot -> Word]
  BY <1>1 DEF KernelTable, Word, Slot
<1>3. ZeroPage \in [Slot -> Word]
  BY <1>1 DEF ZeroPage, Pointer, NULL, Word
<1>4. \A f \in Frame : Entry(f) \in Word
  BY <1>1 DEF Frame, Entry, Word
<1> QED
  BY <1>1, <1>2, <1>3, <1>4 DEF Slot, Frame, NULL

(***************************************************************************)
(* Before the first call of malloc_page nothing is held.                   *)
(***************************************************************************)
LEMMA KernelInitInv == Init => KernelInv
<1> SUFFICES ASSUME Init PROVE KernelInv
  OBVIOUS
<1>1. pc = "setup" /\ ~HasSpace /\ ~HasTable /\ Unfreed = {} /\ StackFrames = {}
  BY DEF Init, HasSpace, HasTable, Unfreed, StackFrames
<1>2. Parts
  BY InitFrames, InitRing DEF Init, FrameInit, Parts
<1>3. Locals
  <2>1. pdt \in [Node -> Frame \cup {NULL}]
    BY PageSpaceAssumption DEF Init, Frame
  <2>2. lowest_stack_page \in [Node -> {0} \cup STACK_START .. STACK_TOP - 1]
    BY DEF Init
  <2>3. cr2 \in Page
    BY PageZero DEF Init
  <2>4. /\ kernel_pt = NULL /\ new_pdt = NULL /\ stack_pt = NULL /\ cr3 = NULL
        /\ orphans = {} /\ i = 0 /\ j = 0 /\ paging = FALSE
    BY DEF Init
  <2> QED
    BY <1>1, <2>1, <2>2, <2>3, <2>4 DEF Locals, Labels
<1>4. Spaces
  BY <1>1 DEF Init, init_scheduler, Scheduled, Spaces
<1>5. Tabled
  BY <1>1 DEF Tabled
<1>6. Structure = {} /\ orphans = {} /\ held = {}
  BY <1>1 DEF Init, FrameInit, Structure, held
<1>7. Owned
  BY <1>1, <1>6 DEF Owned
<1>8. Distinct /\ Faults
  BY <1>1 DEF Init, Distinct, Faults
<1> QED
  BY <1>2, <1>3, <1>4, <1>5, <1>7, <1>8 DEF KernelInv

(***************************************************************************)
(* Everything held is a frame; what is somebody's is held.                 *)
(***************************************************************************)
LEMMA OwnedFrames ==
  ASSUME KernelInv
  PROVE  /\ held \subseteq Frame
         /\ Structure \subseteq held /\ orphans \subseteq held /\ StackFrames \subseteq held
         /\ kernel_pt # NULL => kernel_pt \in Structure
         /\ new_pdt # NULL => new_pdt \in Structure
         /\ stack_pt # NULL => stack_pt \in Structure
         /\ HasSpace => directory \in Structure
         /\ HasTable => StackTable \in Structure
         /\ \A s \in Unfreed : StackFrame(s) \in StackFrames
BY DEF KernelInv, Owned, held, Structure, StackFrames

(***************************************************************************)
(* Steps that leave the tables and the allocator alone only move between   *)
(* points of the code that agree on what is freed.                         *)
(***************************************************************************)
LEMMA TablesUntouched ==
  ASSUME KernelInv, HasSpace, HasSpace',
         ram' \in [Frame -> [Slot -> Word]],
         \A f \in Frame \ StackFrames : ram'[f] = ram[f],
         UNCHANGED <<frame_edge, frame_free_list, holders>>,
         UNCHANGED <<scheduler, processes, new_pdt, stack_pt, kernel_pt, orphans, halted>>,
         HasTable' <=> HasTable, Unfreed' = Unfreed,
         pc' \in {"user", "fault", "grow"} => cr3' = directory
  PROVE  Parts' /\ Spaces' /\ Tabled' /\ Owned' /\ Distinct'
<1>1. /\ UNCHANGED <<scheduler_front, current_process, next, prev>>
      /\ UNCHANGED <<pdt, lowest_stack_page, new_pdt, stack_pt, kernel_pt, orphans, halted>>
  BY DEF scheduler, processes
<1>2. Parts'
  <2>1. FrameTypeOK' /\ FreeListInv'
    BY <1>1, OwnedFrames, StoreKeepsFreeList DEF KernelInv, Parts, FrameTypeOK
  <2>2. SchedInv'
    BY <1>1, RingUntouched DEF KernelInv, Parts, FrameTypeOK
  <2> QED
    BY <2>1, <2>2 DEF Parts
<1>3. \A f \in Structure : ram'[f] = ram[f]
  BY OwnedFrames DEF KernelInv, Owned
<1>4. /\ pc \notin {"setup", "enqueue", "create_stack_pt", "create_stack"}
      /\ pc' \notin {"setup", "enqueue", "create_stack_pt", "create_stack"}
  BY DEF HasSpace
<1>5. ram'[kernel_pt] = ram[kernel_pt]
  BY <1>3, <1>4, OwnedFrames, WhatIsWritten DEF KernelInv, Locals
<1>6. directory' = directory /\ ram'[directory] = ram[directory]
  BY <1>1, <1>3, OwnedFrames DEF directory
<1>7. /\ StackTable' = StackTable /\ Lowest' = Lowest
      /\ Scheduled' = Scheduled /\ held' = held
      /\ HasTable => ram'[StackTable] = ram[StackTable]
  BY <1>1, <1>3, <1>6, OwnedFrames DEF StackTable, Lowest, Scheduled, held
<1>8. HasTable => \A s : StackFrame(s)' = StackFrame(s)
  BY <1>7 DEF StackFrame
<1>9. Unfreed # {} => HasTable
  BY DEF Unfreed
<1>10. Structure' = Structure /\ StackFrames' = StackFrames
  BY <1>1, <1>6, <1>7, <1>8, <1>9 DEF Structure, StackFrames
<1>11. Spaces'
  BY <1>1, <1>4, <1>6, <1>7 DEF KernelInv, Spaces
<1>12. Tabled'
  BY <1>1, <1>4, <1>5, <1>6, <1>7, <1>8 DEF KernelInv, Tabled
<1>13. Owned'
  BY <1>1, <1>7, <1>8, <1>9, <1>10 DEF KernelInv, Owned
<1>14. Distinct'
  BY <1>1, <1>6, <1>7 DEF KernelInv, Distinct
<1> QED
  BY <1>2, <1>11, <1>12, <1>13, <1>14

LEMMA SpaceUntouched ==
  ASSUME KernelInv, HasSpace, HasSpace',
         UNCHANGED <<allocator, scheduler, processes, new_pdt, stack_pt, kernel_pt,
                     orphans, halted>>,
         HasTable' <=> HasTable, Unfreed' = Unfreed,
         pc' \in {"user", "fault", "grow"} => cr3' = directory
  PROVE  Parts' /\ Spaces' /\ Tabled' /\ Owned' /\ Distinct'
BY TablesUntouched DEF allocator, KernelInv, Parts, FrameTypeOK

(***************************************************************************)
(* A store of user code reaches a page of the stack and nothing else.      *)
(***************************************************************************)
LEMMA StoreReaches ==
  ASSUME KernelInv, pc = "user", NEW p \in Page,
         Accessible(directory, p), PTE(directory, p).address \in Frame
  PROVE  /\ STACK_START <= p /\ p < STACK_TOP
         /\ PTE(directory, p).address \in StackFrames
<1>1. HasSpace /\ HasTable /\ PT_ENTRIES \in Nat /\ PT_ENTRIES >= 2 /\ p \in Nat
  BY PagingAssumption, PageSpaceAssumption DEF HasSpace, HasTable, Page
<1>2. STACK_START <= p
  BY <1>1, Translation DEF STACK_START
<1>3. p < STACK_TOP /\ lowest_stack_page[current_process] <= p
  BY <1>1, <1>2, Translation
<1>4. PTE(directory, p) = ram[StackTable][p - STACK_START] /\ p - STACK_START \in Slot
  BY <1>1, <1>2, <1>3, Translation DEF InStack
<1>5. Lowest <= p - STACK_START
  BY <1>1, <1>3, CurrentProcess DEF HasSpace, Slot, STACK_START
<1>6. p - STACK_START \in Unfreed
  BY <1>1, <1>4, <1>5 DEF Unfreed
<1> QED
  BY <1>2, <1>3, <1>4, <1>6 DEF StackFrames, StackFrame

LEMMA ResumeStep == KernelInv /\ resume => KernelInv'
<1> SUFFICES ASSUME KernelInv, resume PROVE KernelInv'
  OBVIOUS
<1>1. /\ pc = "resume" /\ pc' = "user" /\ cr3' = directory /\ paging' = TRUE
      /\ UNCHANGED <<allocator, scheduler, processes, cr2, locals, kernel_pt, orphans, halted>>
  BY DEF resume, Enter, At
<1>2. HasSpace /\ HasTable /\ HasSpace' /\ HasTable' /\ Unfreed' = Unfreed
  BY <1>1 DEF HasSpace, HasTable, Unfreed, Lowest, scheduler, processes
<1>3. Parts' /\ Spaces' /\ Tabled' /\ Owned' /\ Distinct'
  BY <1>1, <1>2, SpaceUntouched DEF locals
<1>4. Locals'
  BY <1>1, <1>2 DEF KernelInv, Locals, Spaces, Labels, locals, processes
<1> QED
  BY <1>1, <1>3, <1>4 DEF KernelInv, Faults

LEMMA UserFaultStep == KernelInv /\ user_fault => KernelInv'
<1> SUFFICES ASSUME KernelInv, user_fault PROVE KernelInv'
  OBVIOUS
<1>1. /\ pc = "user" /\ pc' = "fault"
      /\ cr2' \in Page /\ ~Accessible(cr3, cr2')
      /\ UNCHANGED <<allocator, scheduler, processes, cr3, paging, locals, kernel_pt,
                     orphans, halted>>
  BY DEF user_fault, At
<1>2. HasSpace /\ HasTable /\ HasSpace' /\ HasTable' /\ Unfreed' = Unfreed
  BY <1>1 DEF HasSpace, HasTable, Unfreed, Lowest, scheduler, processes
<1>3. Parts' /\ Spaces' /\ Tabled' /\ Owned' /\ Distinct'
  BY <1>1, <1>2, SpaceUntouched DEF locals, KernelInv, Spaces
<1>4. Locals'
  BY <1>1, <1>2 DEF KernelInv, Locals, Labels, locals, processes
<1>5. Faults'
  BY <1>1 DEF Faults, Accessible, is_mounted, PDE, PTE, allocator
<1> QED
  BY <1>3, <1>4, <1>5 DEF KernelInv

LEMMA ExitStep == KernelInv /\ exit => KernelInv'
<1> SUFFICES ASSUME KernelInv, exit PROVE KernelInv'
  OBVIOUS
<1>1. /\ pc = "user" /\ pc' = "free_VAS" /\ paging' = FALSE /\ i' = 1
      /\ UNCHANGED <<allocator, scheduler, processes, cr2, cr3, new_pdt, stack_pt, j,
                     kernel_pt, orphans, halted>>
  BY DEF exit, At
<1>2. HasSpace /\ HasTable /\ HasSpace' /\ HasTable' /\ Unfreed' = Unfreed
  BY <1>1 DEF HasSpace, HasTable, Unfreed, Lowest, scheduler, processes
<1>3. Parts' /\ Spaces' /\ Tabled' /\ Owned' /\ Distinct'
  BY <1>1, <1>2, SpaceUntouched
<1>4. Locals'
  BY <1>1, PageZero DEF KernelInv, Locals, Labels, processes
<1> QED
  BY <1>1, <1>3, <1>4 DEF KernelInv, Faults

LEMMA HandlerStep == KernelInv /\ pagefault_handler => KernelInv'
<1> SUFFICES ASSUME KernelInv, pagefault_handler PROVE KernelInv'
  OBVIOUS
<1>1. /\ pc = "fault" /\ paging' = FALSE
      /\ UNCHANGED <<allocator, scheduler, processes, cr3, new_pdt, stack_pt, j,
                     kernel_pt, orphans, halted>>
  BY DEF pagefault_handler, Handle, At
<1>2. \/ InStack(cr2) /\ pc' = "grow" /\ i' = lowest_stack_page[current_process] /\ cr2' = cr2
      \/ ~InStack(cr2) /\ pc' = "free_VAS" /\ i' = 1 /\ cr2' = 0
  BY DEF pagefault_handler, Handle
<1>3. HasSpace /\ HasTable /\ HasSpace' /\ HasTable' /\ Unfreed' = Unfreed
  BY <1>1, <1>2 DEF HasSpace, HasTable, Unfreed, Lowest, scheduler, processes
<1>4. Parts' /\ Spaces' /\ Tabled' /\ Owned' /\ Distinct'
  BY <1>1, <1>2, <1>3, SpaceUntouched DEF KernelInv, Spaces
<1>5. 0 \in Page
  BY PageZero
<1>6. Locals'
  BY <1>1, <1>2, <1>5, PageZero
     DEF KernelInv, Locals, Labels, processes, scheduler
<1>7. Faults'
  <2>1. CASE InStack(cr2)
    <3>1. /\ cr2 \in Page /\ cr2 >= STACK_START /\ cr2 < STACK_TOP
          /\ ~Accessible(directory, cr2)
      BY <1>1, <2>1 DEF KernelInv, Locals, Faults, Spaces, InStack
    <3>2. ~(lowest_stack_page[current_process] <= cr2)
      BY <1>3, <3>1, Translation
    <3>3. lowest_stack_page[current_process] \in Nat /\ cr2 \in Nat
      BY <3>1, <1>1, <1>3, CurrentProcess, PageSpaceAssumption DEF Page, STACK_START
    <3> QED
      BY <1>2, <2>1, <3>2, <3>3 DEF Faults, InStack
  <2>2. CASE ~InStack(cr2)
    BY <1>2, <2>2 DEF Faults
  <2> QED
    BY <2>1, <2>2
<1> QED
  BY <1>4, <1>6, <1>7 DEF KernelInv

LEMMA GrowDoneStep == KernelInv /\ grow_done => KernelInv'
<1> SUFFICES ASSUME KernelInv, grow_done PROVE KernelInv'
  OBVIOUS
<1>1. /\ pc = "grow" /\ pc' = "user" /\ paging' = TRUE /\ i' = 0 /\ cr2' = 0
      /\ UNCHANGED <<allocator, scheduler, processes, cr3, new_pdt, stack_pt, j,
                     kernel_pt, orphans, halted>>
  BY DEF grow_done, At
<1>2. HasSpace /\ HasTable /\ HasSpace' /\ HasTable' /\ Unfreed' = Unfreed
  BY <1>1 DEF HasSpace, HasTable, Unfreed, Lowest, scheduler, processes
<1>3. Parts' /\ Spaces' /\ Tabled' /\ Owned' /\ Distinct'
  BY <1>1, <1>2, SpaceUntouched DEF KernelInv, Spaces
<1>4. 0 \in Page
  BY PageZero
<1>5. Locals'
  BY <1>1, <1>4 DEF KernelInv, Locals, Labels, processes
<1> QED
  BY <1>1, <1>3, <1>5 DEF KernelInv, Faults

LEMMA WalkStep == KernelInv /\ free_VAS_next => KernelInv'
<1> SUFFICES ASSUME KernelInv, free_VAS_next PROVE KernelInv'
  OBVIOUS
<1>1. /\ pc = "free_VAS" /\ i < PT_ENTRIES
      /\ UNCHANGED <<allocator, scheduler, processes, mmu, new_pdt, stack_pt, j,
                     kernel_pt, orphans, halted>>
  BY DEF free_VAS_next, WalkDirectory, At
<1>2. \/ ram[directory][i].present /\ pc' = "free_pagetable" /\ i' = i
      \/ ~ram[directory][i].present /\ pc' = "free_VAS" /\ i' = i + 1
  BY <1>1 DEF free_VAS_next, WalkDirectory
<1>3. i \in 1 .. PT_ENTRIES /\ i \in Slot /\ HasSpace /\ j = 0
  BY <1>1, PagingAssumption, PageSpaceAssumption DEF KernelInv, Locals, HasSpace, Slot
<1>4. ram[directory][i].present <=> i = 1
  BY <1>3 DEF KernelInv, Tabled, Entry
<1>5. \/ pc' = "free_pagetable" /\ i = 1 /\ i' = 1
      \/ pc' = "free_VAS" /\ i # 1 /\ i' = i + 1
  BY <1>2, <1>4
<1>6. HasSpace' /\ (HasTable' <=> HasTable)
  BY <1>1, <1>3, <1>5 DEF HasSpace, HasTable
<1>7. Unfreed' = Unfreed
  BY <1>1, <1>3, <1>5, <1>6 DEF Unfreed, Lowest, scheduler, processes, Slot
<1>8. Parts' /\ Spaces' /\ Tabled' /\ Owned' /\ Distinct'
  BY <1>1, <1>3, <1>5, <1>6, <1>7, SpaceUntouched
<1>9. Locals'
  BY <1>1, <1>3, <1>5, PagingAssumption, PageSpaceAssumption
     DEF KernelInv, Locals, Labels, processes, mmu
<1> QED
  BY <1>5, <1>8, <1>9 DEF KernelInv, Faults

LEMMA UserStoreStep == KernelInv /\ user_store => KernelInv'
<1> SUFFICES ASSUME KernelInv, user_store PROVE KernelInv'
  OBVIOUS
<1>1. /\ pc = "user"
      /\ UNCHANGED <<frame_edge, frame_free_list, holders, scheduler, processes, mmu,
                     locals, pc, kernel_pt, orphans, halted>>
  BY DEF user_store, At
<1>2. PICK p \in Page, s \in Slot, w \in ClientWords :
        /\ Accessible(cr3, p)
        /\ PTE(cr3, p).address \in Frame
        /\ ram' = [ram EXCEPT ![PTE(cr3, p).address][s] = w]
  BY DEF user_store
<1>3. cr3 = directory
  BY <1>1 DEF KernelInv, Spaces
<1>4. PTE(directory, p).address \in StackFrames
  BY <1>1, <1>2, <1>3, StoreReaches
<1>5. /\ ram' \in [Frame -> [Slot -> Word]]
      /\ \A f \in Frame \ StackFrames : ram'[f] = ram[f]
  BY <1>2, <1>3, <1>4, ClientWordsAssumption DEF KernelInv, Parts, FrameTypeOK
<1>6. HasSpace /\ HasTable /\ HasSpace' /\ HasTable' /\ Unfreed' = Unfreed
  BY <1>1 DEF HasSpace, HasTable, Unfreed, Lowest, scheduler, processes, locals
<1>7. cr3' = directory
  BY <1>1, <1>3 DEF mmu
<1>8. Parts' /\ Spaces' /\ Tabled' /\ Owned' /\ Distinct'
  BY <1>1, <1>5, <1>6, <1>7, TablesUntouched DEF locals
<1>9. Locals'
  BY <1>1 DEF KernelInv, Locals, mmu, locals, processes, scheduler
<1> QED
  BY <1>1, <1>8, <1>9 DEF KernelInv, Faults

-----------------------------------------------------------------------------
(***************************************************************************)
(* While no process has an address space, what is held is what create_VAS  *)
(* and setup_kernel_paging hold, and the directories left over.            *)
(***************************************************************************)
LEMMA NoSpace ==
  ASSUME ~HasSpace
  PROVE  /\ ~HasTable /\ Unfreed = {} /\ StackFrames = {}
         /\ Structure = {kernel_pt, new_pdt, stack_pt} \ {NULL}
BY DEF HasTable, Unfreed, StackFrames, Structure

LEMMA EnqueueStep == KernelInv /\ enqueue_process => KernelInv'
<1> SUFFICES ASSUME KernelInv, enqueue_process PROVE KernelInv'
  OBVIOUS
<1>1. /\ pc = "enqueue" /\ pc' \in {"enqueue", "switch"}
      /\ UNCHANGED <<allocator, lowest_stack_page, mmu, locals, kernel_pt, orphans, halted>>
  BY DEF enqueue_process, At
<1>2. PICK node \in Node :
        schedule_process(node) /\ pdt' = [pdt EXCEPT ![node] = NULL]
  BY DEF enqueue_process
<1>3. ~HasSpace /\ ~HasSpace'
  BY <1>1 DEF HasSpace
<1>12. /\ ~HasTable' /\ Unfreed' = {} /\ StackFrames' = {}
       /\ Structure' = {kernel_pt', new_pdt', stack_pt'} \ {NULL}
  BY <1>3 DEF HasTable, Unfreed, StackFrames, Structure
<1>4. halted' \in BOOLEAN
  BY <1>1 DEF KernelInv, Parts, FrameTypeOK
<1>5. SchedInv'
  BY <1>2, <1>4, ScheduleRing DEF KernelInv, Parts
<1>6. Scheduled' = Scheduled \cup {node}
  BY <1>2, NewNode DEF schedule_process, KernelInv, Parts, SchedInv
<1>7. Parts'
  <2>1. FrameTypeOK' /\ FreeListInv'
    BY <1>1, StoreKeepsFreeList DEF KernelInv, Parts, FrameTypeOK, allocator
  <2> QED
    BY <2>1, <1>5 DEF Parts
<1>8. Locals'
  BY <1>1, <1>2 DEF KernelInv, Locals, Labels, mmu, locals
<1>9. Spaces'
  <2>1. current_process' # NoProcess
    BY <1>2, <1>4, <1>5, NewNode DEF schedule_process, FirstNode, Between, KernelInv, Parts,
       SchedInv, SchedTypeOK, NoProcess, Node
  <2>2. \A n \in Scheduled' : pdt'[n] = NULL
    BY <1>2, <1>3, <1>6 DEF KernelInv, Spaces, Locals, Parts, SchedInv, SchedTypeOK
  <2> QED
    BY <2>1, <2>2, <1>1, <1>3 DEF Spaces
<1>10. Tabled' /\ Distinct' /\ Faults'
  BY <1>1, <1>3, <1>12, NoSpace DEF KernelInv, Tabled, Distinct, Faults, allocator, locals
<1>11. Owned'
  <2>1. StackFrames = {} /\ StackFrames' = {} /\ Unfreed' = {}
    BY <1>3, <1>12, NoSpace
  <2>2. Structure' = Structure
    BY <1>1, <1>3, <1>12, NoSpace DEF locals
  <2>3. held' = held
    BY <1>1 DEF held, allocator
  <2> QED
    BY <2>1, <2>2, <2>3, <1>1 DEF KernelInv, Owned
<1> QED
  BY <1>7, <1>8, <1>9, <1>10, <1>11 DEF KernelInv

LEMMA SwitchStep == KernelInv /\ switch_process => KernelInv'
<1> SUFFICES ASSUME KernelInv, switch_process PROVE KernelInv'
  OBVIOUS
<1>1. /\ pc = "switch" /\ scheduler_next_process
      /\ UNCHANGED <<allocator, processes, mmu, locals, kernel_pt, orphans, halted>>
  BY DEF switch_process, At
<1>2. ~HasSpace /\ halted' \in BOOLEAN /\ current_process # NoProcess
  BY <1>1 DEF HasSpace, KernelInv, Parts, FrameTypeOK, Spaces
<1>3. SchedInv'
  BY <1>1, <1>2, SwitchRing DEF KernelInv, Parts
<1>4. Scheduled' = Scheduled
  BY <1>1 DEF scheduler_next_process, Scheduled
<1>5. current_process' # NoProcess /\ current_process' \in Scheduled
  BY <1>1, <1>2, <1>3, <1>4
     DEF SchedInv, SchedTypeOK, scheduler_next_process, KernelInv, Parts
<1>6. pc' = "create_VAS" /\ \A n \in Scheduled' : pdt'[n] = NULL
  BY <1>1, <1>2, <1>4, <1>5 DEF switch_process, KernelInv, Spaces, processes
<1>7. ~HasSpace'
  BY <1>6 DEF HasSpace
<1>13. /\ ~HasTable' /\ Unfreed' = {} /\ StackFrames' = {}
       /\ Structure' = {kernel_pt', new_pdt', stack_pt'} \ {NULL}
  BY <1>7 DEF HasTable, Unfreed, StackFrames, Structure
<1>8. Parts'
  <2>1. FrameTypeOK' /\ FreeListInv'
    BY <1>1, StoreKeepsFreeList DEF KernelInv, Parts, FrameTypeOK, allocator
  <2> QED
    BY <2>1, <1>3 DEF Parts
<1>9. Locals'
  BY <1>1, <1>6 DEF KernelInv, Locals, Labels, mmu, locals, processes
<1>10. Spaces'
  BY <1>5, <1>6, <1>7 DEF Spaces
<1>11. Tabled' /\ Distinct' /\ Faults'
  BY <1>1, <1>2, <1>6, <1>7, <1>13, NoSpace DEF KernelInv, Tabled, Distinct, Faults, allocator, locals
<1>12. Owned'
  <2>1. StackFrames = {} /\ StackFrames' = {} /\ Unfreed' = {}
    BY <1>2, <1>13, NoSpace
  <2>2. Structure' = Structure
    BY <1>1, <1>2, <1>13, NoSpace DEF locals
  <2>3. held' = held
    BY <1>1 DEF held, allocator
  <2> QED
    BY <2>1, <2>2, <2>3, <1>1 DEF KernelInv, Owned
<1> QED
  BY <1>8, <1>9, <1>10, <1>11, <1>12 DEF KernelInv

\* The directory of the process that ends is nobody's but the history's.
LEMMA ProcessEndsStep == KernelInv /\ process_ends => KernelInv'
<1> SUFFICES ASSUME KernelInv, process_ends PROVE KernelInv'
  OBVIOUS
<1>1. /\ pc = "free_VAS" /\ i = PT_ENTRIES /\ pc' = "switch" /\ i' = 0
      /\ pdt' = [pdt EXCEPT ![current_process] = NULL]
      /\ orphans' = orphans \cup {directory}
      /\ UNCHANGED <<allocator, scheduler, lowest_stack_page, mmu, new_pdt, stack_pt, j,
                     kernel_pt, halted>>
  BY DEF process_ends, End, At
<1>2. HasSpace /\ ~HasTable /\ ~HasSpace' /\ ~HasTable'
  BY <1>1, PagingAssumption DEF HasSpace, HasTable
<1>3. /\ Unfreed = {} /\ Unfreed' = {} /\ StackFrames = {} /\ StackFrames' = {}
  BY <1>2 DEF Unfreed, StackFrames
<1>4. new_pdt = NULL /\ stack_pt = NULL /\ kernel_pt \in Frame /\ directory \in Frame
  BY <1>1, <1>2 DEF KernelInv, Locals, Spaces
<1>5. Structure = {kernel_pt, directory} /\ Structure' = {kernel_pt}
  BY <1>1, <1>2, <1>4, WhatIsWritten DEF Structure
<1>6. Parts'
  <2>1. FrameTypeOK' /\ FreeListInv'
    BY <1>1, StoreKeepsFreeList DEF KernelInv, Parts, FrameTypeOK, allocator
  <2>2. SchedInv'
    BY <1>1, RingUntouched DEF KernelInv, Parts, FrameTypeOK, scheduler
  <2> QED
    BY <2>1, <2>2 DEF Parts
<1>7. Locals'
  BY <1>1, <1>4 DEF KernelInv, Locals, Labels, mmu
<1>8. Spaces'
  BY <1>1, <1>2, CurrentProcess DEF KernelInv, Spaces, Locals, scheduler, Scheduled, Parts,
     SchedInv, SchedTypeOK
<1>9. Tabled' /\ Distinct' /\ Faults'
  BY <1>1, <1>2, <1>4 DEF KernelInv, Tabled, Distinct, Faults, allocator
<1>10. Owned'
  <2>1. held' = held /\ held = {kernel_pt, directory} \cup orphans
    BY <1>1, <1>3, <1>5 DEF held, allocator, KernelInv, Owned
  <2>2. kernel_pt # directory /\ kernel_pt \notin orphans
    BY <1>2, <1>5 DEF KernelInv, Distinct, Owned
  <2> QED
    BY <1>1, <1>3, <1>5, <2>1, <2>2 DEF Owned
<1> QED
  BY <1>6, <1>7, <1>8, <1>9, <1>10 DEF KernelInv

-----------------------------------------------------------------------------
(***************************************************************************)
(* A frame malloc_page returns belongs to nobody, whatever the caller      *)
(* writes to it and to frames it holds before it calls again.              *)
(***************************************************************************)
LEMMA NewFrame ==
  ASSUME KernelInv, NEW frame \in Frame, malloc_page(frame),
         ram' \in [Frame -> [Slot -> Word]],
         \A f \in Frame \ (held \cup {frame}) : ram'[f] = ram[f],
         UNCHANGED <<scheduler, halted>>
  PROVE  /\ Parts'
         /\ frame \notin Structure \cup orphans \cup StackFrames
         /\ held' = Structure \cup orphans \cup StackFrames \cup {frame}
         /\ Scheduled' = Scheduled
         /\ Pool!Allocate
<1>1. halted' \in BOOLEAN
  BY DEF KernelInv, Parts, FrameTypeOK
<1>2. /\ frame \in Frame \ held /\ held' = held \cup {frame}
      /\ holders' = [holders EXCEPT ![frame] = @ + 1]
      /\ FrameTypeOK' /\ FreeListInv'
  BY <1>1, MallocPage DEF KernelInv, Parts
<1>3. SchedInv' /\ Scheduled' = Scheduled
  BY <1>1, RingUntouched DEF KernelInv, Parts, scheduler, Scheduled
<1>4. Pool!Allocate
  <2>1. holders[frame] = 0
    BY <1>2 DEF held
  <2>2. holders' = [holders EXCEPT ![frame] = 1]
    BY <1>2, <2>1
  <2> QED
    BY <1>2, <2>1, <2>2 DEF Pool!Allocate
<1> QED
  BY <1>2, <1>3, <1>4 DEF Parts, KernelInv, Owned

LEMMA SetupStep == KernelInv /\ setup_kernel_paging => KernelInv' /\ Pool!Allocate
<1> SUFFICES ASSUME KernelInv, setup_kernel_paging PROVE KernelInv' /\ Pool!Allocate
  OBVIOUS
<1>1. /\ pc = "setup" /\ pc' = "enqueue"
      /\ UNCHANGED <<scheduler, processes, mmu, locals, orphans, halted>>
  BY DEF setup_kernel_paging, At
<1>2. PICK frame \in Frame :
        /\ malloc_page(frame)
        /\ ram' = [ram EXCEPT ![frame] = KernelTable]
        /\ kernel_pt' = frame
  BY DEF setup_kernel_paging
<1>3. ~HasSpace /\ ~HasSpace' /\ ~HasTable /\ ~HasTable'
  BY <1>1 DEF HasSpace, HasTable
<1>4. Unfreed = {} /\ Unfreed' = {} /\ StackFrames = {} /\ StackFrames' = {}
  BY <1>3 DEF Unfreed, StackFrames
<1>5. /\ ram' \in [Frame -> [Slot -> Word]]
      /\ ram'[frame] = KernelTable
      /\ \A f \in Frame \ {frame} : ram'[f] = ram[f]
  BY <1>2, WhatIsWritten DEF KernelInv, Parts, FrameTypeOK
<1>6. /\ Parts' /\ frame \notin Structure \cup orphans \cup StackFrames
      /\ held' = Structure \cup orphans \cup StackFrames \cup {frame}
      /\ Scheduled' = Scheduled /\ Pool!Allocate
  BY <1>1, <1>2, <1>5, NewFrame
<1>7. /\ kernel_pt = NULL /\ new_pdt = NULL /\ stack_pt = NULL
      /\ new_pdt' = NULL /\ stack_pt' = NULL
  BY <1>1 DEF KernelInv, Locals, locals
<1>8. Structure = {} /\ Structure' = {frame}
  BY <1>2, <1>3, <1>7, WhatIsWritten DEF Structure
<1>9. Locals'
  BY <1>1, <1>2, <1>7 DEF KernelInv, Locals, Labels, mmu, locals, processes
<1>10. Spaces'
  BY <1>1, <1>3, <1>6 DEF KernelInv, Spaces, processes, scheduler
<1>11. Tabled' /\ Faults'
  BY <1>1, <1>2, <1>3, <1>5 DEF Tabled, Faults
<1>12. Distinct'
  BY <1>2, <1>3, <1>7, WhatIsWritten DEF Distinct
<1>13. Owned'
  BY <1>1, <1>4, <1>6, <1>8 DEF Owned
<1> QED
  BY <1>6, <1>9, <1>10, <1>11, <1>12, <1>13 DEF KernelInv

LEMMA CreatePdtStep == KernelInv /\ create_VAS_pdt => KernelInv' /\ Pool!Allocate
<1> SUFFICES ASSUME KernelInv, create_VAS_pdt PROVE KernelInv' /\ Pool!Allocate
  OBVIOUS
<1>1. /\ pc = "create_VAS" /\ pc' = "create_stack_pt"
      /\ UNCHANGED <<scheduler, processes, mmu, stack_pt, i, j, kernel_pt, orphans, halted>>
  BY DEF create_VAS_pdt, At
<1>2. PICK frame \in Frame :
        /\ malloc_page(frame)
        /\ ram' = [ram EXCEPT ![frame] = [ZeroPage EXCEPT ![0] = Entry(kernel_pt)]]
        /\ new_pdt' = frame
  BY DEF create_VAS_pdt
<1>3. ~HasSpace /\ ~HasSpace' /\ ~HasTable /\ ~HasTable'
  BY <1>1 DEF HasSpace, HasTable
<1>4. Unfreed = {} /\ Unfreed' = {} /\ StackFrames = {} /\ StackFrames' = {}
  BY <1>3 DEF Unfreed, StackFrames
<1>5. kernel_pt \in Frame /\ new_pdt = NULL /\ stack_pt = NULL /\ stack_pt' = NULL
  BY <1>1 DEF KernelInv, Locals
<1>6. [ZeroPage EXCEPT ![0] = Entry(kernel_pt)] \in [Slot -> Word]
  BY <1>5, WhatIsWritten
<1>7. /\ ram' \in [Frame -> [Slot -> Word]]
      /\ ram'[frame] = [ZeroPage EXCEPT ![0] = Entry(kernel_pt)]
      /\ \A f \in Frame \ {frame} : ram'[f] = ram[f]
  BY <1>2, <1>6 DEF KernelInv, Parts, FrameTypeOK
<1>8. /\ Parts' /\ frame \notin Structure \cup orphans \cup StackFrames
      /\ held' = Structure \cup orphans \cup StackFrames \cup {frame}
      /\ Scheduled' = Scheduled /\ Pool!Allocate
  BY <1>1, <1>2, <1>7, NewFrame
<1>9. Structure = {kernel_pt} /\ Structure' = {kernel_pt, frame}
  BY <1>1, <1>2, <1>3, <1>5, WhatIsWritten DEF Structure
<1>10. kernel_pt # frame /\ ram'[kernel_pt] = KernelTable
  BY <1>1, <1>5, <1>7, <1>8, <1>9 DEF KernelInv, Tabled
<1>11. Locals'
  BY <1>1, <1>2, <1>5 DEF KernelInv, Locals, Labels, mmu, processes
<1>12. Spaces'
  BY <1>1, <1>3, <1>8 DEF KernelInv, Spaces, processes, scheduler
<1>13. Tabled' /\ Faults'
  BY <1>1, <1>2, <1>3, <1>7, <1>10 DEF Tabled, Faults
<1>14. Distinct'
  BY <1>1, <1>2, <1>3, <1>5, <1>10, WhatIsWritten DEF Distinct
<1>15. Owned'
  BY <1>1, <1>4, <1>8, <1>9 DEF KernelInv, Owned
<1> QED
  BY <1>8, <1>11, <1>12, <1>13, <1>14, <1>15 DEF KernelInv

LEMMA CreateTableStep == KernelInv /\ create_VAS_stack_pt => KernelInv' /\ Pool!Allocate
<1> SUFFICES ASSUME KernelInv, create_VAS_stack_pt PROVE KernelInv' /\ Pool!Allocate
  OBVIOUS
<1>1. PICK frame \in Frame : calloc_page(frame) /\ TakeTable(frame)
  BY DEF create_VAS_stack_pt
<1>2. /\ pc = "create_stack_pt" /\ pc' = "create_stack" /\ stack_pt' = frame
      /\ UNCHANGED <<scheduler, processes, mmu, new_pdt, i, j, kernel_pt, orphans, halted>>
      /\ malloc_page(frame) /\ ram' = [ram EXCEPT ![frame] = ZeroPage]
  BY <1>1 DEF TakeTable, calloc_page, At
<1>3. ~HasSpace /\ ~HasSpace' /\ ~HasTable /\ ~HasTable'
  BY <1>2 DEF HasSpace, HasTable
<1>4. Unfreed = {} /\ Unfreed' = {} /\ StackFrames = {} /\ StackFrames' = {}
  BY <1>3 DEF Unfreed, StackFrames
<1>5. kernel_pt \in Frame /\ new_pdt \in Frame /\ stack_pt = NULL
  BY <1>2 DEF KernelInv, Locals
<1>6. /\ ram' \in [Frame -> [Slot -> Word]]
      /\ ram'[frame] = ZeroPage
      /\ \A f \in Frame \ {frame} : ram'[f] = ram[f]
  BY <1>2, WhatIsWritten DEF KernelInv, Parts, FrameTypeOK
<1>7. /\ Parts' /\ frame \notin Structure \cup orphans \cup StackFrames
      /\ held' = Structure \cup orphans \cup StackFrames \cup {frame}
      /\ Scheduled' = Scheduled /\ Pool!Allocate
  BY <1>2, <1>6, NewFrame
<1>8. Structure = {kernel_pt, new_pdt} /\ Structure' = {kernel_pt, new_pdt, frame}
  BY <1>2, <1>3, <1>5, WhatIsWritten DEF Structure
<1>9. /\ kernel_pt # frame /\ ram'[kernel_pt] = ram[kernel_pt]
      /\ new_pdt # frame /\ ram'[new_pdt] = ram[new_pdt]
  BY <1>5, <1>6, <1>7, <1>8
<1>10. Locals'
  BY <1>2, <1>5 DEF KernelInv, Locals, Labels, mmu, processes
<1>11. Spaces'
  BY <1>2, <1>3, <1>7 DEF KernelInv, Spaces, processes, scheduler
<1>12. Tabled' /\ Faults'
  BY <1>2, <1>3, <1>6, <1>9 DEF KernelInv, Tabled, Faults
<1>13. Distinct'
  BY <1>2, <1>3, <1>5, <1>9, WhatIsWritten DEF KernelInv, Distinct
<1>14. Owned'
  BY <1>2, <1>4, <1>7, <1>8 DEF KernelInv, Owned
<1> QED
  BY <1>7, <1>10, <1>11, <1>12, <1>13, <1>14 DEF KernelInv

\* The address space comes into being when create_VAS returns.
LEMMA CreateStackStep == KernelInv /\ create_VAS_stack => KernelInv' /\ Pool!Allocate
<1> SUFFICES ASSUME KernelInv, create_VAS_stack PROVE KernelInv' /\ Pool!Allocate
  OBVIOUS
<1>1. /\ pc = "create_stack" /\ pc' = "resume"
      /\ pdt' = [pdt EXCEPT ![current_process] = new_pdt]
      /\ lowest_stack_page' = [lowest_stack_page EXCEPT ![current_process] = STACK_TOP - 1]
      /\ new_pdt' = NULL /\ stack_pt' = NULL
      /\ UNCHANGED <<scheduler, mmu, i, j, kernel_pt, orphans, halted>>
  BY DEF create_VAS_stack, At
<1>2. PICK frame \in Frame :
        /\ malloc_page(frame)
        /\ ram' = [ram EXCEPT ![stack_pt][PT_ENTRIES - 1] = Entry(frame),
                              ![new_pdt][1] = Entry(stack_pt)]
  BY DEF create_VAS_stack
<1>3. PT_ENTRIES \in Nat /\ PT_ENTRIES >= 2
  BY PagingAssumption, PageSpaceAssumption
<1>4. ~HasSpace /\ ~HasTable /\ HasSpace' /\ HasTable'
  BY <1>1 DEF HasSpace, HasTable
<1>5. Unfreed = {} /\ StackFrames = {}
  BY <1>4 DEF Unfreed, StackFrames
<1>6. /\ kernel_pt \in Frame /\ new_pdt \in Frame /\ stack_pt \in Frame
      /\ kernel_pt # new_pdt /\ kernel_pt # stack_pt /\ new_pdt # stack_pt
  BY <1>1, WhatIsWritten DEF KernelInv, Locals, Distinct
<1>7. Structure = {kernel_pt, new_pdt, stack_pt} /\ Structure \subseteq held
  BY <1>4, <1>6, WhatIsWritten, OwnedFrames DEF Structure
<1>8. /\ ram[new_pdt] = [ZeroPage EXCEPT ![0] = Entry(kernel_pt)]
      /\ ram[stack_pt] = ZeroPage
      /\ ram[kernel_pt] = KernelTable
  BY <1>1 DEF KernelInv, Tabled
<1>9. /\ ram' \in [Frame -> [Slot -> Word]]
      /\ ram'[stack_pt] = [ZeroPage EXCEPT ![PT_ENTRIES - 1] = Entry(frame)]
      /\ ram'[new_pdt] = [ram[new_pdt] EXCEPT ![1] = Entry(stack_pt)]
      /\ \A f \in Frame \ {new_pdt, stack_pt} : ram'[f] = ram[f]
  BY <1>2, <1>6, <1>8, WhatIsWritten DEF KernelInv, Parts, FrameTypeOK
<1>10. /\ Parts' /\ frame \notin Structure \cup orphans \cup StackFrames
       /\ held' = Structure \cup orphans \cup StackFrames \cup {frame}
       /\ Scheduled' = Scheduled /\ Pool!Allocate
  BY <1>1, <1>2, <1>7, <1>9, NewFrame
<1>11. current_process \in Node /\ current_process \in Scheduled /\ current_process' = current_process
  BY <1>1, CurrentProcess DEF scheduler
<1>12. directory' = new_pdt /\ lowest_stack_page'[current_process] = STACK_TOP - 1
  BY <1>1, <1>11 DEF directory, KernelInv, Locals
<1>13. Lowest' = PT_ENTRIES - 1
  BY <1>3, <1>11, <1>12 DEF Lowest, STACK_START, STACK_TOP
<1>14. StackTable' = stack_pt
  <2>1. ram'[new_pdt][1] = Entry(stack_pt)
    BY <1>8, <1>9, WhatIsWritten
  <2> QED
    BY <1>12, <2>1 DEF StackTable, Entry
<1>15. Unfreed' = {PT_ENTRIES - 1}
  BY <1>1, <1>3, <1>4, <1>13 DEF Unfreed, Slot
<1>16. StackFrame(PT_ENTRIES - 1)' = frame
  <2>1. ram'[stack_pt][PT_ENTRIES - 1] = Entry(frame)
    BY <1>9, WhatIsWritten
  <2> QED
    BY <1>14, <2>1 DEF StackFrame, Entry
<1>17. StackFrames' = {frame}
  BY <1>15, <1>16 DEF StackFrames
<1>18. Structure' = {kernel_pt, new_pdt, stack_pt}
  BY <1>1, <1>4, <1>6, <1>12, <1>14, WhatIsWritten DEF Structure
<1>19. Locals'
  <2>1. pdt' \in [Node -> Frame \cup {NULL}]
    BY <1>1, <1>6 DEF KernelInv, Locals
  <2>2. STACK_TOP - 1 \in STACK_START .. STACK_TOP - 1
    BY <1>3 DEF STACK_TOP, STACK_START
  <2>3. lowest_stack_page' \in [Node -> {0} \cup STACK_START .. STACK_TOP - 1]
    BY <1>1, <2>2 DEF KernelInv, Locals
  <2> QED
    BY <1>1, <2>1, <2>3 DEF KernelInv, Locals, Labels, mmu
<1>20. Spaces'
  <2>1. \A n \in Scheduled : n # current_process => pdt'[n] = NULL
    BY <1>1 DEF KernelInv, Spaces
  <2>2. directory' \in Frame /\ Lowest' \in Slot
    BY <1>6, <1>12, <1>13, WhatIsWritten
  <2>3. current_process' # NoProcess
    BY <1>1, <1>11 DEF KernelInv, Spaces
  <2> QED
    BY <1>1, <1>4, <1>10, <1>11, <2>1, <2>2, <2>3 DEF Spaces
<1>21. Tabled'
  <2>1. ram'[kernel_pt] = KernelTable
    BY <1>6, <1>8, <1>9
  <2>2. /\ ram'[new_pdt][0] = Entry(kernel_pt)
        /\ ram'[new_pdt][1] = Entry(stack_pt)
        /\ \A e \in Slot \ {0, 1} : ~ram'[new_pdt][e].present
    BY <1>8, <1>9, WhatIsWritten DEF ZeroPage, Pointer
  <2>3. \A s \in Slot : s < PT_ENTRIES - 1 => ~ram'[stack_pt][s].present
    BY <1>3, <1>9, WhatIsWritten DEF ZeroPage, Pointer, Slot
  <2>4. ram'[stack_pt][PT_ENTRIES - 1] = Entry(frame)
    BY <1>9, WhatIsWritten
  <2>5. \A s \in Slot : s < PT_ENTRIES - 1 \/ s = PT_ENTRIES - 1
    BY <1>3 DEF Slot
  <2>6. \A s \in Slot :
          IF s < Lowest' THEN ~ram'[stack_pt][s].present
                         ELSE ram'[stack_pt][s] = Entry(StackFrame(s)')
    BY <1>3, <1>13, <1>16, <2>3, <2>4, <2>5
  <2> QED
    BY <1>1, <1>12, <1>14, <2>1, <2>2, <2>6 DEF Tabled
<1>22. Owned'
  <2>1. frame \notin Structure' \cup orphans' /\ Structure' = Structure
    BY <1>1, <1>7, <1>10, <1>18
  <2>2. Structure' \cap orphans' = {}
    BY <1>1, <2>1 DEF KernelInv, Owned
  <2> QED
    BY <1>1, <1>5, <1>10, <1>15, <1>17, <2>1, <2>2 DEF Owned
<1>23. Distinct'
  BY <1>1, <1>6, <1>12, <1>14 DEF Distinct
<1>24. Faults'
  BY <1>1 DEF Faults
<1> QED
  BY <1>10, <1>19, <1>20, <1>21, <1>22, <1>23, <1>24 DEF KernelInv

\* What grow_stack finds below the lowest page is never mounted.
LEMMA BelowIsUnmounted ==
  ASSUME KernelInv, pc = "grow", i > cr2
  PROVE  /\ i - 1 \in Page /\ i - 1 >= STACK_START /\ i - 1 < STACK_TOP - 1
         /\ ~is_mounted(directory, i - 1)
         /\ (i - 1) \div PT_ENTRIES = 1 /\ (i - 1) % PT_ENTRIES = Lowest - 1
         /\ Lowest - 1 \in Slot
<1>1. HasSpace /\ HasTable /\ PT_ENTRIES \in Nat /\ PT_ENTRIES >= 2
  BY PagingAssumption, PageSpaceAssumption DEF HasSpace, HasTable
<1>2. /\ i = Lowest + STACK_START /\ Lowest \in Slot
      /\ lowest_stack_page[current_process] = i /\ i \in STACK_START .. STACK_TOP - 1
  BY <1>1, CurrentProcess DEF KernelInv, Locals, HasSpace
<1>3. cr2 \in Page /\ cr2 >= STACK_START
  BY DEF KernelInv, Faults, Locals, InStack
<1>4. i - 1 >= STACK_START /\ i - 1 < STACK_TOP - 1
  BY <1>1, <1>2, <1>3 DEF Page, STACK_START, STACK_TOP
<1>5. i - 1 \in Page
  <2>1. 2 * PT_ENTRIES <= PT_ENTRIES * PT_ENTRIES
    BY <1>1, SMT
  <2> QED
    BY <1>1, <1>2, <1>4, <2>1 DEF Page, STACK_START, STACK_TOP
<1>6. ~is_mounted(directory, i - 1)
  BY <1>1, <1>2, <1>4, <1>5, Translation DEF STACK_START, STACK_TOP
<1>7. InStack(i - 1)
  BY <1>1, <1>2, <1>4 DEF InStack, STACK_START, STACK_TOP
<1> QED
  BY <1>1, <1>2, <1>4, <1>5, <1>6, <1>7, PageIndices DEF Slot, STACK_START, STACK_TOP

LEMMA GrowStep == KernelInv /\ grow_stack => KernelInv' /\ Pool!Allocate
<1> SUFFICES ASSUME KernelInv, grow_stack PROVE KernelInv' /\ Pool!Allocate
  OBVIOUS
<1>1. /\ pc = "grow" /\ pc' = "grow" /\ i > cr2 /\ i' = i - 1
      /\ lowest_stack_page' = [lowest_stack_page EXCEPT ![current_process] = i - 1]
      /\ UNCHANGED <<scheduler, pdt, mmu, new_pdt, stack_pt, j, kernel_pt, orphans, halted>>
  BY DEF grow_stack, At, Growing
<1>2. HasSpace /\ HasTable /\ HasSpace' /\ HasTable'
  BY <1>1 DEF HasSpace, HasTable
<1>25. PICK low \in Slot : low = Lowest - 1
  BY <1>1, BelowIsUnmounted
<1>3. /\ i - 1 \in Page /\ i - 1 >= STACK_START /\ i - 1 < STACK_TOP - 1
      /\ ~is_mounted(directory, i - 1)
      /\ (i - 1) \div PT_ENTRIES = 1 /\ (i - 1) % PT_ENTRIES = low
  BY <1>1, <1>25, BelowIsUnmounted
<1>4. PICK frame \in Frame : malloc_page(frame) /\ mount_page(directory, i - 1, frame)
  BY <1>1, <1>3 DEF grow_stack
<1>5. /\ current_process \in Node /\ current_process \in Scheduled
      /\ current_process' = current_process
      /\ i = Lowest + STACK_START /\ Lowest \in Slot
  BY <1>1, <1>2, CurrentProcess DEF scheduler, KernelInv, Locals
<1>6. ram' = [ram EXCEPT ![StackTable][low] = Entry(frame)]
  BY <1>3, <1>4 DEF mount_page, PDE, StackTable
<1>7. /\ StackTable \in Structure /\ directory \in Structure /\ kernel_pt \in Structure
      /\ Structure \subseteq held /\ held \subseteq Frame
  BY <1>1, <1>2, OwnedFrames, WhatIsWritten DEF KernelInv, Locals
<1>8. /\ ram' \in [Frame -> [Slot -> Word]]
      /\ ram'[StackTable][low] = Entry(frame)
      /\ \A s \in Slot \ {low} : ram'[StackTable][s] = ram[StackTable][s]
      /\ \A f \in Frame \ {StackTable} : ram'[f] = ram[f]
  BY <1>3, <1>6, <1>7, WhatIsWritten DEF KernelInv, Parts, FrameTypeOK
<1>9. /\ Parts' /\ frame \notin Structure \cup orphans \cup StackFrames
      /\ held' = Structure \cup orphans \cup StackFrames \cup {frame}
      /\ Scheduled' = Scheduled /\ Pool!Allocate
  BY <1>1, <1>4, <1>7, <1>8, NewFrame
<1>10. StackTable # directory /\ StackTable # kernel_pt
  BY <1>2 DEF KernelInv, Distinct
<1>11. /\ directory' = directory /\ ram'[directory] = ram[directory]
       /\ ram'[kernel_pt] = ram[kernel_pt]
       /\ StackTable' = StackTable
  BY <1>1, <1>5, <1>7, <1>8, <1>10 DEF directory, StackTable
<1>12. lowest_stack_page'[current_process] = i - 1
  BY <1>1, <1>5 DEF KernelInv, Locals
<1>13. Lowest' = low
  BY <1>5, <1>12, <1>25, PageSpaceAssumption DEF Lowest, Slot, STACK_START
<1>14. low < Lowest /\ \A s \in Slot : low <= s <=> Lowest <= s \/ s = low
  BY <1>3, <1>5, <1>25, PageSpaceAssumption DEF Slot
<1>15. Unfreed' = Unfreed \cup {low} /\ low \notin Unfreed
  BY <1>1, <1>2, <1>3, <1>13, <1>14, <1>5, PageSpaceAssumption DEF Unfreed, Slot
<1>16. /\ StackFrame(low)' = frame
       /\ \A s \in Slot \ {low} : StackFrame(s)' = StackFrame(s)
  <2>1. Entry(frame).address = frame
    BY DEF Entry
  <2> QED
    BY <1>8, <1>11, <2>1 DEF StackFrame
<1>17. StackFrames' = StackFrames \cup {frame} /\ \A s \in Unfreed : s \in Slot \ {low}
  BY <1>15, <1>16 DEF StackFrames, Unfreed
<1>18. Structure' = Structure
  BY <1>1, <1>2, <1>11 DEF Structure
<1>19. Locals'
  <2>1. i - 1 \in STACK_START .. STACK_TOP - 1
    BY <1>3, <1>5, PageSpaceAssumption DEF STACK_START, STACK_TOP, Slot
  <2>2. lowest_stack_page' \in [Node -> {0} \cup STACK_START .. STACK_TOP - 1]
    BY <1>1, <2>1 DEF KernelInv, Locals
  <2> QED
    BY <1>1, <1>5, <1>12, <2>2 DEF KernelInv, Locals, Labels, mmu
<1>20. Spaces'
  BY <1>1, <1>2, <1>3, <1>5, <1>9, <1>11, <1>13 DEF KernelInv, Spaces, mmu
<1>21. Tabled'
  <2>1. \A s \in Slot :
          IF s < low THEN ~ram'[StackTable][s].present
                     ELSE ram'[StackTable][s] = Entry(StackFrame(s)')
    <3> TAKE s \in Slot
    <3>1. CASE s = low
      BY <3>1, <1>8, <1>16, <1>3, PageSpaceAssumption DEF Slot
    <3>2. CASE s # low
      <4>1. s < low <=> s < Lowest
        BY <3>2, <1>5, <1>14, <1>25, PageSpaceAssumption DEF Slot
      <4>2. ram'[StackTable][s] = ram[StackTable][s] /\ StackFrame(s)' = StackFrame(s)
        BY <3>2, <1>8, <1>16
      <4> QED
        BY <4>1, <4>2, <1>2 DEF KernelInv, Tabled
    <3> QED
      BY <3>1, <3>2
  <2> QED
    BY <1>1, <1>2, <1>11, <1>13, <2>1 DEF KernelInv, Tabled
<1>22. Owned'
  <2>1. \A s, t \in Unfreed' : StackFrame(s)' = StackFrame(t)' => s = t
    BY <1>9, <1>15, <1>16, <1>17 DEF KernelInv, Owned, StackFrames
  <2>2. frame \notin Structure \cup orphans
    BY <1>9
  <2> QED
    BY <1>1, <1>9, <1>17, <1>18, <2>1, <2>2 DEF KernelInv, Owned
<1>23. Distinct'
  BY <1>1, <1>2, <1>11 DEF KernelInv, Distinct
<1>24. Faults'
  BY <1>1, <1>5, PageSpaceAssumption DEF KernelInv, Faults, mmu, Locals, Page, Slot, STACK_START
<1> QED
  BY <1>9, <1>19, <1>20, <1>21, <1>22, <1>23, <1>24 DEF KernelInv

-----------------------------------------------------------------------------
(***************************************************************************)
(* free_VAS gives back, page by page and then the table, exactly what the  *)
(* process still has, and reads no entry of a frame it gave back.          *)
(***************************************************************************)
LEMMA FreePagetableStep == 
  KernelInv /\ free_pagetable => KernelInv' /\ (Pool!Release \/ UNCHANGED holders)
<1> SUFFICES ASSUME KernelInv, free_pagetable
             PROVE  KernelInv' /\ (Pool!Release \/ UNCHANGED holders)
  OBVIOUS
<1>1. /\ pc = "free_pagetable" /\ pc' = "free_pagetable" /\ j < PT_ENTRIES /\ j' = j + 1
      /\ UNCHANGED <<scheduler, processes, mmu, new_pdt, stack_pt, i, kernel_pt,
                     orphans, halted>>
  BY DEF free_pagetable, FreeEntry, At
<1>2. HasSpace /\ HasTable /\ HasSpace' /\ HasTable' /\ i = 1 /\ Table = StackTable
  BY <1>1 DEF HasSpace, HasTable, KernelInv, Locals, Table, StackTable
<1>3. PICK k \in Slot : k = j
  BY <1>1, PageSpaceAssumption DEF KernelInv, Locals, Slot
<1>4. Lowest \in Slot /\ Lowest' = Lowest
  BY <1>1, <1>2 DEF KernelInv, Spaces, Lowest, scheduler, processes
<1>5. ram[StackTable][k].present <=> Lowest <= k
  <2>1. k < Lowest <=> ~(Lowest <= k)
    BY <1>4, PageSpaceAssumption DEF Slot
  <2>2. IF k < Lowest THEN ~ram[StackTable][k].present
                      ELSE ram[StackTable][k] = Entry(StackFrame(k))
    BY <1>2 DEF KernelInv, Tabled
  <2> QED
    BY <2>1, <2>2 DEF Entry
<1>6. Unfreed' = Unfreed \ {k}
  BY <1>1, <1>2, <1>3, <1>4, PageSpaceAssumption DEF Unfreed, Slot
<1>7. Locals'
  BY <1>1, <1>3, PageSpaceAssumption DEF KernelInv, Locals, Labels, mmu, processes, Slot
<1>8. CASE ~(Lowest <= k)
  <2>1. UNCHANGED allocator
    BY <1>3, <1>2, <1>5, <1>8 DEF free_pagetable, FreeEntry
  <2>2. k \notin Unfreed
    BY <1>8 DEF Unfreed
  <2>3. Parts' /\ Spaces' /\ Tabled' /\ Owned' /\ Distinct'
    BY <1>1, <1>2, <1>6, <2>1, <2>2, SpaceUntouched
  <2> QED
    BY <1>1, <1>7, <2>1, <2>3 DEF KernelInv, Faults, allocator
<1>9. CASE Lowest <= k
  <2> DEFINE F == StackFrame(k)
  <2>1. free_page(F)
    BY <1>3, <1>2, <1>5, <1>9 DEF free_pagetable, FreeEntry, StackFrame
  <2>2. k \in Unfreed
    BY <1>1, <1>2, <1>3, <1>9 DEF Unfreed, Slot
  <2>3. F \in StackFrames /\ F \in held /\ F \notin Structure \cup orphans
    BY <2>2, OwnedFrames DEF KernelInv, Owned
  <2>4. halted' \in BOOLEAN
    BY <1>1 DEF KernelInv, Parts, FrameTypeOK
  <2>5. PICK f \in held : f = F
    BY <2>3
  <2>6. /\ held' = held \ {f}
        /\ holders' = [holders EXCEPT ![f] = 0]
        /\ \A g \in Frame \ {f} : ram'[g] = ram[g]
        /\ FrameTypeOK' /\ FreeListInv'
    BY <2>1, <2>4, <2>5, FreePage DEF KernelInv, Parts
  <2>7. Parts'
    BY <1>1, <2>4, <2>6, RingUntouched DEF KernelInv, Parts, scheduler
  <2>8. \A g \in Structure : ram'[g] = ram[g]
    BY <2>3, <2>5, <2>6, OwnedFrames
  <2>9. /\ directory \in Structure /\ StackTable \in Structure /\ kernel_pt \in Structure
    BY <1>1, <1>2, OwnedFrames, WhatIsWritten DEF KernelInv, Locals
  <2>10. /\ directory' = directory /\ ram'[directory] = ram[directory]
         /\ StackTable' = StackTable /\ ram'[StackTable] = ram[StackTable]
         /\ ram'[kernel_pt] = ram[kernel_pt]
         /\ Scheduled' = Scheduled
    BY <1>1, <2>8, <2>9 DEF directory, StackTable, scheduler, processes, Scheduled
  <2>11. \A s : StackFrame(s)' = StackFrame(s)
    BY <2>10 DEF StackFrame
  <2>12. Structure' = Structure
    BY <1>1, <1>2, <2>10 DEF Structure
  <2>13. StackFrames' = StackFrames \ {f}
    <3>1. \A s \in Unfreed : StackFrame(s) = f => s = k
      BY <2>2, <2>5 DEF KernelInv, Owned
    <3>2. \A s \in Unfreed' : s \in Unfreed /\ s # k
      BY <1>6
    <3> QED
      BY <1>6, <2>5, <2>11, <3>1, <3>2 DEF StackFrames
  <2>14. Spaces'
    BY <1>1, <1>2, <1>4, <2>10 DEF KernelInv, Spaces, scheduler, processes
  <2>15. Tabled'
    BY <1>1, <1>2, <1>4, <2>10, <2>11 DEF KernelInv, Tabled
  <2>16. Owned'
    <3>1. \A s, t \in Unfreed' : StackFrame(s)' = StackFrame(t)' => s = t
      BY <1>6, <2>11 DEF KernelInv, Owned
    <3>2. held' = Structure \cup orphans \cup StackFrames'
      BY <2>3, <2>5, <2>6, <2>13 DEF KernelInv, Owned
    <3> QED
      BY <1>1, <2>12, <2>13, <3>1, <3>2 DEF KernelInv, Owned
  <2>17. Distinct' /\ Faults'
    BY <1>1, <1>2, <2>10 DEF KernelInv, Distinct, Faults
  <2>18. Pool!Release
    BY <2>6 DEF held, KernelInv, Parts, FrameTypeOK, Pool!Release
  <2> QED
    BY <1>7, <2>7, <2>18, <2>14, <2>15, <2>16, <2>17 DEF KernelInv
<1> QED
  BY <1>8, <1>9

LEMMA FreeTableStep == KernelInv /\ free_VAS_table => KernelInv' /\ Pool!Release
<1> SUFFICES ASSUME KernelInv, free_VAS_table PROVE KernelInv' /\ Pool!Release
  OBVIOUS
<1>1. /\ pc = "free_pagetable" /\ pc' = "free_VAS" /\ j = PT_ENTRIES /\ j' = 0
      /\ i' = i + 1
      /\ free_page(Table)
      /\ UNCHANGED <<scheduler, processes, mmu, new_pdt, stack_pt, kernel_pt, orphans,
                     halted>>
  BY DEF free_VAS_table, At
<1>2. HasSpace /\ HasTable /\ HasSpace' /\ ~HasTable' /\ i = 1 /\ i' = 2
  BY <1>1 DEF HasSpace, HasTable, KernelInv, Locals
<1>3. Unfreed = {} /\ Unfreed' = {} /\ StackFrames = {} /\ StackFrames' = {}
  BY <1>1, <1>2, PageSpaceAssumption DEF Unfreed, StackFrames, Slot
<1>4. /\ directory \in Structure /\ StackTable \in Structure /\ kernel_pt \in Structure
      /\ Structure \subseteq held /\ held \subseteq Frame
      /\ kernel_pt \in Frame /\ new_pdt = NULL /\ stack_pt = NULL
      /\ StackTable # directory /\ StackTable # kernel_pt
  BY <1>1, <1>2, OwnedFrames, WhatIsWritten DEF KernelInv, Locals, Distinct
<1>5. PICK t \in held : t = StackTable /\ free_page(t)
  BY <1>1, <1>2, <1>4 DEF Table, StackTable
<1>6. halted' \in BOOLEAN
  BY <1>1 DEF KernelInv, Parts, FrameTypeOK
<1>7. /\ held' = held \ {t}
      /\ holders' = [holders EXCEPT ![t] = 0]
      /\ \A g \in Frame \ {t} : ram'[g] = ram[g]
      /\ FrameTypeOK' /\ FreeListInv'
  BY <1>5, <1>6, FreePage DEF KernelInv, Parts
<1>8. Parts'
  BY <1>1, <1>6, <1>7, RingUntouched DEF KernelInv, Parts, scheduler
<1>9. /\ directory' = directory /\ ram'[directory] = ram[directory]
      /\ StackTable' = StackTable /\ Lowest' = Lowest
      /\ ram'[kernel_pt] = ram[kernel_pt]
      /\ Scheduled' = Scheduled
  BY <1>1, <1>4, <1>5, <1>7
     DEF directory, StackTable, Lowest, scheduler, processes, Scheduled
<1>10. Structure = {kernel_pt, directory, t} /\ Structure' = {kernel_pt, directory}
  BY <1>1, <1>2, <1>4, <1>5, <1>9, WhatIsWritten DEF Structure
<1>11. Locals'
  BY <1>1, <1>2, PagingAssumption, PageSpaceAssumption
     DEF KernelInv, Locals, Labels, mmu, processes
<1>12. Spaces'
  BY <1>1, <1>2, <1>9 DEF KernelInv, Spaces, scheduler, processes
<1>13. Tabled'
  BY <1>1, <1>2, <1>9 DEF KernelInv, Tabled
<1>14. Owned'
  BY <1>1, <1>3, <1>4, <1>5, <1>7, <1>10 DEF KernelInv, Owned
<1>15. Distinct' /\ Faults'
  BY <1>1, <1>2, <1>4, <1>9 DEF KernelInv, Distinct, Faults
<1>16. Pool!Release
  BY <1>7 DEF held, KernelInv, Parts, FrameTypeOK, Pool!Release
<1> QED
  BY <1>8, <1>16, <1>11, <1>12, <1>13, <1>14, <1>15 DEF KernelInv

\* A panic, and what follows it, leave everything as it is.
LEMMA HaltStep ==
  ASSUME KernelInv, halted' \in BOOLEAN,
         UNCHANGED <<allocator, scheduler, processes, mmu, locals, pc, kernel_pt, orphans>>
  PROVE  KernelInv'
<1>1. /\ UNCHANGED <<frame_edge, frame_free_list, ram, holders>>
      /\ UNCHANGED <<scheduler_front, current_process, next, prev>>
      /\ UNCHANGED <<pdt, lowest_stack_page, cr2, cr3, paging, new_pdt, stack_pt, i, j>>
      /\ UNCHANGED <<pc, kernel_pt, orphans>>
  BY DEF allocator, scheduler, processes, mmu, locals
<1>2. Parts'
  <2>1. FrameTypeOK' /\ FreeListInv'
    BY <1>1, StoreKeepsFreeList DEF KernelInv, Parts, FrameTypeOK
  <2> QED
    BY <1>1, <2>1, RingUntouched DEF KernelInv, Parts
<1>3. /\ HasSpace' = HasSpace /\ HasTable' = HasTable /\ directory' = directory
      /\ StackTable' = StackTable /\ Lowest' = Lowest /\ Scheduled' = Scheduled
      /\ held' = held /\ \A s : StackFrame(s)' = StackFrame(s)
  BY <1>1 DEF HasSpace, HasTable, directory, StackTable, Lowest, Scheduled, held, StackFrame
<1>4. Unfreed' = Unfreed /\ StackFrames' = StackFrames /\ Structure' = Structure
  BY <1>1, <1>3 DEF Unfreed, StackFrames, Structure
<1>5. Locals' /\ Spaces' /\ Tabled'
  BY <1>1, <1>3 DEF KernelInv, Locals, Spaces, Tabled
<1>6. Owned' /\ Distinct'
  BY <1>1, <1>3, <1>4 DEF KernelInv, Owned, Distinct
<1>7. Faults'
  BY <1>1 DEF KernelInv, Faults, Accessible, is_mounted, PDE, PTE
<1> QED
  BY <1>2, <1>5, <1>6, <1>7 DEF KernelInv

LEMMA KernelNextInv == KernelInv /\ [Next]_vars => KernelInv'
<1> SUFFICES ASSUME KernelInv, [Next]_vars PROVE KernelInv'
  OBVIOUS
<1>1. CASE KernelStep
  <2>1. CASE panic
    BY <2>1, HaltStep DEF panic, kernel_panic
  <2> QED
    BY <1>1, <2>1, SetupStep, EnqueueStep, SwitchStep, CreatePdtStep, CreateTableStep,
       CreateStackStep, ResumeStep, HandlerStep, GrowStep, GrowDoneStep, WalkStep,
       FreePagetableStep, FreeTableStep, ProcessEndsStep DEF KernelStep
<1>2. CASE UserStep
  BY <1>2, UserStoreStep, UserFaultStep, ExitStep DEF UserStep
<1>3. CASE UNCHANGED vars
  BY <1>3, HaltStep DEF vars, KernelInv, Parts, FrameTypeOK
<1> QED
  BY <1>1, <1>2, <1>3 DEF Next, halt

LEMMA KernelInvAlways == Spec => []KernelInv
BY KernelInitInv, KernelNextInv, PTL DEF Spec

-----------------------------------------------------------------------------
(***************************************************************************)
(* entry.c, paging.c, process.c, syscalls.c: every variable of the kernel  *)
(* keeps its type; in particular a stack never grows out of its region,    *)
(* and no loop index leaves its table.                                     *)
(***************************************************************************)
THEOREM KernelTypeCorrect == Spec => []KernelTypeOK
<1>1. KernelInv => KernelTypeOK
  <2> SUFFICES ASSUME KernelInv PROVE KernelTypeOK
    OBVIOUS
  <2>1. PT_ENTRIES \in Nat /\ PT_ENTRIES >= 2
    BY PagingAssumption, PageSpaceAssumption
  <2>2. i \in 0 .. STACK_TOP - 1
    <3>1. CASE pc = "grow"
      BY <3>1, <2>1, CurrentProcess
         DEF KernelInv, Locals, HasSpace, STACK_START, STACK_TOP
    <3>2. CASE pc = "free_VAS"
      BY <3>2, <2>1 DEF KernelInv, Locals, STACK_TOP
    <3>3. CASE pc \notin {"grow", "free_VAS"}
      BY <3>3, <2>1 DEF KernelInv, Locals, STACK_TOP
    <3> QED
      BY <3>1, <3>2, <3>3
  <2>3. j \in 0 .. PT_ENTRIES
    BY <2>1 DEF KernelInv, Locals
  <2> QED
    BY <2>2, <2>3 DEF KernelInv, Locals, Parts, SchedInv, KernelTypeOK
<1> QED
  BY <1>1, KernelInvAlways, PTL

(***************************************************************************)
(* process.c 22-51: no process but the current one ever has an address     *)
(* space, so none is lost when a process is restarted from scratch.        *)
(***************************************************************************)
THEOREM SpacesDoNotPileUp == Spec => []OneAddressSpace
<1>1. KernelInv => OneAddressSpace
  BY DEF KernelInv, Spaces, OneAddressSpace
<1> QED
  BY <1>1, KernelInvAlways, PTL

(***************************************************************************)
(* scheduler.c 46-65, called from entry.c and process.c: the kernel keeps  *)
(* the contract under which the processes form one ring.                   *)
(***************************************************************************)
THEOREM KernelKeepsOneRing == Spec => []OneRing
<1>1. KernelInv => OneRing
  BY DEF KernelInv, Parts, SchedInv
<1> QED
  BY <1>1, KernelInvAlways, PTL

(***************************************************************************)
(* paging.c 19-38, 72; process.c 51-53: whenever paging is on, the current *)
(* directory leads to the kernel's identity map, and nobody wrote to it.   *)
(***************************************************************************)
THEOREM KernelIsAlwaysMapped == Spec => []KernelStaysMapped
<1>1. KernelInv => KernelStaysMapped
  <2> SUFFICES ASSUME KernelInv, paging
               PROVE  /\ cr3 = directory /\ cr3 # NULL
                      /\ ram[cr3][0] = Entry(kernel_pt)
                      /\ ram[kernel_pt] = KernelTable
    BY DEF KernelStaysMapped
  <2>1. pc \in {"user", "fault"} /\ HasSpace
    BY DEF KernelInv, Locals, HasSpace
  <2> QED
    BY <2>1, WhatIsWritten DEF KernelInv, Spaces, Tabled
<1> QED
  BY <1>1, KernelInvAlways, PTL

(***************************************************************************)
(* paging.c 60, 208-214: while a process runs, the pages it can reach from *)
(* the stack region on are those from its lowest stack page to the top.    *)
(***************************************************************************)
THEOREM StackHasNoGap == Spec => []StackIsContiguous
<1>1. KernelInv => StackIsContiguous
  <2> SUFFICES ASSUME KernelInv, pc = "user", NEW p \in Page, p >= STACK_START
               PROVE  Accessible(cr3, p) <=>
                        lowest_stack_page[current_process] <= p /\ p < STACK_TOP
    BY DEF StackIsContiguous
  <2>1. cr3 = directory /\ HasTable
    BY DEF KernelInv, Spaces, HasSpace, HasTable
  <2>2. STACK_START <= p
    BY PageSpaceAssumption DEF Page, STACK_START
  <2> QED
    BY <2>1, <2>2, Translation
<1> QED
  BY <1>1, KernelInvAlways, PTL

(***************************************************************************)
(* What the properties call the tables and the pages of an address space.  *)
(***************************************************************************)
LEMMA UserHalf ==
  ASSUME KernelInv, pc \in {"user", "fault"}
  PROVE  /\ UserEntries(directory) = {1}
         /\ Tables(directory) = {StackTable}
         /\ Mounted(StackTable) = Unfreed
<1>1. HasSpace /\ HasTable /\ Lowest \in Slot
  BY DEF HasSpace, HasTable, KernelInv, Spaces
<1>2. UserEntries(directory) = {1}
  BY <1>1, WhatIsWritten DEF KernelInv, Tabled, UserEntries, Mounted, Entry
<1>3. Tables(directory) = {StackTable}
  BY <1>2 DEF Tables, StackTable
<1>4. Mounted(StackTable) = Unfreed
  <2>1. ASSUME NEW s \in Slot
        PROVE  ram[StackTable][s].present <=> Lowest <= s
    <3>1. s < Lowest <=> ~(Lowest <= s)
      BY <1>1, PageSpaceAssumption DEF Slot
    <3>2. IF s < Lowest THEN ~ram[StackTable][s].present
                        ELSE ram[StackTable][s] = Entry(StackFrame(s))
      BY <1>1 DEF KernelInv, Tabled
    <3> QED
      BY <3>1, <3>2 DEF Entry
  <2> QED
    BY <1>1, <2>1 DEF Mounted, Unfreed
<1> QED
  BY <1>2, <1>3, <1>4

(***************************************************************************)
(* paging.c 198, 215; syscalls.c 15: with paging on, no frame changes      *)
(* hands, and the tables of the address space stay what they are, whatever *)
(* user code stores.                                                       *)
(***************************************************************************)
THEOREM NothingMovesWhilePaging == Spec => TablesStableWhilePaging
<1> DEFINE Stable ==
      paging => /\ holders' = holders
                /\ \A f \in {kernel_pt, cr3} \cup Tables(cr3) : ram'[f] = ram[f]
<1>1. KernelInv /\ [Next]_vars => [Stable]_vars
  <2> SUFFICES ASSUME KernelInv, Next, paging PROVE Stable
    OBVIOUS
  <2>1. pc \in {"user", "fault"} /\ HasSpace /\ HasTable /\ cr3 = directory
    BY DEF KernelInv, Locals, Spaces, HasSpace, HasTable
  <2>2. \/ user_store
        \/ user_fault \/ exit \/ pagefault_handler \/ panic \/ halt
    BY <2>1 DEF Next, KernelStep, UserStep, At, setup_kernel_paging, enqueue_process,
       switch_process, create_VAS_pdt, create_VAS_stack_pt, TakeTable, create_VAS_stack,
       resume, Enter, grow_stack, grow_done, free_VAS_next, WalkDirectory,
       free_pagetable, FreeEntry, free_VAS_table, process_ends, End
  <2>3. CASE user_fault \/ exit \/ pagefault_handler \/ panic \/ halt
    BY <2>3 DEF user_fault, exit, pagefault_handler, Handle, panic, halt, vars, allocator
  <2>4. CASE user_store
    <3>1. PICK p \in Page, s \in Slot, w \in ClientWords :
            /\ Accessible(cr3, p)
            /\ PTE(cr3, p).address \in Frame
            /\ ram' = [ram EXCEPT ![PTE(cr3, p).address][s] = w]
      BY <2>4 DEF user_store
    <3>2. pc = "user" /\ holders' = holders
      BY <2>4 DEF user_store, At
    <3>3. PTE(directory, p).address \in StackFrames
      BY <2>1, <3>1, <3>2, StoreReaches
    <3>4. {kernel_pt, cr3} \cup Tables(cr3) \subseteq Structure
      BY <2>1, OwnedFrames, UserHalf, WhatIsWritten DEF KernelInv, Locals
    <3>5. \A f \in Structure : f \in Frame /\ f # PTE(directory, p).address
      BY <3>3, OwnedFrames DEF KernelInv, Owned
    <3> QED
      BY <2>1, <3>1, <3>2, <3>4, <3>5 DEF KernelInv, Parts, FrameTypeOK
  <2> QED
    BY <2>2, <2>3, <2>4
<1>2. TablesStableWhilePaging <=> [][Stable]_vars
  BY DEF TablesStableWhilePaging
<1> HIDE DEF Stable
<1> QED
  BY <1>1, <1>2, KernelInvAlways, PTL DEF Spec

(***************************************************************************)
(* paging.c 207-216: when the handler returns to the instruction that      *)
(* faulted, that page is mounted for user code.                            *)
(***************************************************************************)
THEOREM FaultsAreResolved == Spec => FaultIsResolved
<1> DEFINE Resolved ==
      pc = "grow" /\ pc' = "user" => Accessible(cr3, cr2) /\ UNCHANGED <<ram, cr3>>
<1>1. KernelInv /\ [Next]_vars => [Resolved]_vars
  <2> SUFFICES ASSUME KernelInv, Next, pc = "grow", pc' = "user"
               PROVE  Accessible(cr3, cr2) /\ UNCHANGED <<ram, cr3>>
    OBVIOUS
  <2>1. grow_done
    BY DEF Next, KernelStep, UserStep, At, setup_kernel_paging, enqueue_process,
       switch_process, create_VAS_pdt, create_VAS_stack_pt, TakeTable, create_VAS_stack,
       resume, Enter, pagefault_handler, Handle, grow_stack, free_VAS_next, WalkDirectory,
       free_pagetable, FreeEntry, free_VAS_table, process_ends, End,
       user_store, user_fault, exit, panic, halt, vars
  <2>2. HasSpace /\ HasTable /\ cr3 = directory
    BY DEF KernelInv, Spaces, HasSpace, HasTable
  <2>3. i = lowest_stack_page[current_process] /\ cr2 \in Page /\ InStack(cr2) /\ cr2 <= i
    BY DEF KernelInv, Locals, Faults
  <2>4. i \in Nat /\ cr2 \in Nat /\ STACK_START <= cr2 /\ cr2 < STACK_TOP
    BY <2>2, <2>3, CurrentProcess, PageSpaceAssumption DEF Page, InStack, STACK_START
  <2>5. i = cr2
    BY <2>1, <2>3, <2>4 DEF grow_done, Growing
  <2> QED
    BY <2>1, <2>2, <2>3, <2>4, <2>5, Translation DEF grow_done, allocator
<1>2. FaultIsResolved <=> [][Resolved]_vars
  BY DEF FaultIsResolved
<1> HIDE DEF Resolved
<1> QED
  BY <1>1, <1>2, KernelInvAlways, PTL DEF Spec

(***************************************************************************)
(* The entries free_VAS has not come to, whatever the kernel is doing.     *)
(***************************************************************************)
LEMMA LeftOver ==
  ASSUME KernelInv, HasSpace
  PROVE  /\ LeftEntries = IF HasTable THEN {1} ELSE {}
         /\ HasTable => LeftPages(1) = Unfreed
<1>1. Lowest \in Slot /\ {0, 1} \subseteq Slot
  BY WhatIsWritten DEF KernelInv, Spaces
<1>2. UserEntries(directory) = {1}
  BY <1>1 DEF KernelInv, Tabled, UserEntries, Mounted, Entry
<1>3. HasTable <=> (Freeing => i <= 1)
  BY DEF KernelInv, Locals, HasTable, Freeing
<1>4. LeftEntries = IF HasTable THEN {1} ELSE {}
  BY <1>2, <1>3 DEF LeftEntries
<1>5. ASSUME HasTable, NEW s \in Slot
      PROVE  ram[StackTable][s].present <=> Lowest <= s
  <2>1. s < Lowest <=> ~(Lowest <= s)
    BY <1>1, PageSpaceAssumption DEF Slot
  <2>2. IF s < Lowest THEN ~ram[StackTable][s].present
                      ELSE ram[StackTable][s] = Entry(StackFrame(s))
    BY <1>5 DEF KernelInv, Tabled
  <2> QED
    BY <2>1, <2>2 DEF Entry
<1>6. ASSUME HasTable, NEW s \in Slot
      PROVE  (Freeing /\ 1 = i => j <= s) <=> (pc = "free_pagetable" => j <= s)
  <2>1. pc = "free_VAS" => j = 0 /\ j <= s
    BY <1>1, PageSpaceAssumption DEF KernelInv, Locals, Slot
  <2> QED
    BY <2>1 DEF KernelInv, Locals, Freeing
<1>7. ASSUME HasTable PROVE LeftPages(1) = Unfreed
  BY <1>5, <1>6, <1>7 DEF LeftPages, Mounted, StackTable, Unfreed
<1> QED
  BY <1>4, <1>7

\* Owners, without the tables they are read off.
TableOwners ==
  {o \in {<<kernel_pt, "kernel_pt", 0, 0>>, <<new_pdt, "new_pdt", 0, 0>>,
          <<stack_pt, "stack_pt", 0, 0>>} : o[1] # NULL}
  \cup (IF HasSpace THEN {<<directory, "pdt", 0, 0>>} ELSE {})
  \cup (IF HasTable THEN {<<StackTable, "table", 1, 0>>} ELSE {})
OrphanOwners == {<<frame, "orphan", 0, 0>> : frame \in orphans}
PageOwners   == {<<StackFrame(s), "page", 1, s>> : s \in Unfreed}

LEMMA WhoOwns ==
  ASSUME KernelInv
  PROVE  Owners = TableOwners \cup OrphanOwners \cup PageOwners
<1>1. CASE ~HasSpace
  BY <1>1 DEF Owners, TableOwners, OrphanOwners, PageOwners, HasTable, Unfreed
<1>2. CASE HasSpace /\ ~HasTable
  BY <1>2, LeftOver DEF Owners, TableOwners, OrphanOwners, PageOwners, Unfreed
<1>3. CASE HasSpace /\ HasTable
  <2>1. LeftEntries = {1} /\ LeftPages(1) = Unfreed
    BY <1>3, LeftOver
  <2>2. UNION {{<<ram[ram[directory][e].address][s].address, "page", e, s>> :
                  s \in LeftPages(e)} : e \in LeftEntries}
          = {<<ram[ram[directory][1].address][s].address, "page", 1, s>> : s \in Unfreed}
    BY <2>1
  <2>3. @ = PageOwners
    BY DEF PageOwners, StackFrame, StackTable
  <2>4. {<<ram[directory][e].address, "table", e, 0>> : e \in LeftEntries}
          = {<<StackTable, "table", 1, 0>>}
    BY <2>1 DEF StackTable
  <2> QED
    BY <1>3, <2>2, <2>3, <2>4 DEF Owners, TableOwners, OrphanOwners
<1> QED
  BY <1>1, <1>2, <1>3

(***************************************************************************)
(* paging.c 46-67, 69-83, 155-173, 208-214: at every step of the kernel,   *)
(* with an address space half built, grown or half freed as well as in     *)
(* user code, every frame that is out has exactly one owner: ending        *)
(* processes loses none but their directories, and no frame is mapped      *)
(* twice.                                                                  *)
(***************************************************************************)
THEOREM FramesHaveOneOwner == Spec => []EveryFrameHasOneOwner
<1>1. KernelInv => EveryFrameHasOneOwner
  <2> SUFFICES ASSUME KernelInv PROVE EveryFrameHasOneOwner
    OBVIOUS
  <2>1. /\ \A o \in TableOwners : o[1] \in Structure
        /\ \A f \in Structure : \E o \in TableOwners : f = o[1]
    <3>1. \A o \in TableOwners : o[1] \in Structure
      BY DEF TableOwners, Structure
    <3>2. ASSUME NEW f \in Structure PROVE \E o \in TableOwners : f = o[1]
      <4>1. CASE f = kernel_pt /\ f # NULL
        <5>1. <<f, "kernel_pt", 0, 0>> \in TableOwners
          BY <4>1 DEF TableOwners
        <5> QED
          BY <5>1
      <4>2. CASE f = new_pdt /\ f # NULL
        <5>1. <<f, "new_pdt", 0, 0>> \in TableOwners
          BY <4>2 DEF TableOwners
        <5> QED
          BY <5>1
      <4>3. CASE f = stack_pt /\ f # NULL
        <5>1. <<f, "stack_pt", 0, 0>> \in TableOwners
          BY <4>3 DEF TableOwners
        <5> QED
          BY <5>1
      <4>4. CASE HasSpace /\ f = directory
        <5>1. <<f, "pdt", 0, 0>> \in TableOwners
          BY <4>4 DEF TableOwners
        <5> QED
          BY <5>1
      <4>5. CASE HasTable /\ f = StackTable
        <5>1. <<f, "table", 1, 0>> \in TableOwners
          BY <4>5 DEF TableOwners
        <5> QED
          BY <5>1
      <4> QED
        BY <4>1, <4>2, <4>3, <4>4, <4>5 DEF Structure
    <3> QED
      BY <3>1, <3>2
  <2>2. /\ \A o \in OrphanOwners : o[1] \in orphans
        /\ \A f \in orphans : \E o \in OrphanOwners : f = o[1]
    <3>1. ASSUME NEW f \in orphans PROVE \E o \in OrphanOwners : f = o[1]
      <4>1. <<f, "orphan", 0, 0>> \in OrphanOwners
        BY DEF OrphanOwners
      <4> QED
        BY <4>1
    <3> QED
      BY <3>1 DEF OrphanOwners
  <2>3. /\ \A o \in PageOwners : o[1] \in StackFrames
        /\ \A f \in StackFrames : \E o \in PageOwners : f = o[1]
    <3>1. ASSUME NEW f \in StackFrames PROVE \E o \in PageOwners : f = o[1]
      <4>1. PICK s \in Unfreed : f = StackFrame(s)
        BY DEF StackFrames
      <4>2. <<f, "page", 1, s>> \in PageOwners
        BY <4>1 DEF PageOwners
      <4> QED
        BY <4>2
    <3> QED
      BY <3>1 DEF PageOwners, StackFrames
  <2>4. held = {o[1] : o \in Owners}
    BY <2>1, <2>2, <2>3, WhoOwns DEF KernelInv, Owned
  <2>5. \A o, p \in TableOwners : o[1] = p[1] => o = p
    BY DEF TableOwners, KernelInv, Distinct, Locals, HasSpace, HasTable
  <2>6. \A o, p \in OrphanOwners : o[1] = p[1] => o = p
    BY DEF OrphanOwners
  <2>7. \A o, p \in PageOwners : o[1] = p[1] => o = p
    BY DEF PageOwners, KernelInv, Owned
  <2>8. /\ Structure \cap orphans = {}
        /\ StackFrames \cap (Structure \cup orphans) = {}
    BY DEF KernelInv, Owned
  <2>9. \A o, p \in Owners : o[1] = p[1] => o = p
    BY <2>1, <2>2, <2>3, <2>5, <2>6, <2>7, <2>8, WhoOwns
  <2> QED
    BY <2>4, <2>9 DEF EveryFrameHasOneOwner
<1> QED
  BY <1>1, KernelInvAlways, PTL

-----------------------------------------------------------------------------
(***************************************************************************)
(* memmgnt.c 122-131, called from paging.c 46-67: the kernel keeps the     *)
(* allocator's contract.  It never frees a frame it does not hold, nor one *)
(* twice, and is never handed one it holds; so through every life and      *)
(* death of a process the allocator is a pool of frames to it.             *)
(***************************************************************************)
THEOREM KernelImplementsPool == Spec => ImplementsPool
<1>1. Init => Pool!Init
  BY DEF Init, FrameInit, Pool!Init
<1>2. KernelInv /\ [Next]_vars => [Pool!Next]_holders
  <2> SUFFICES ASSUME KernelInv, [Next]_vars
               PROVE  Pool!Allocate \/ Pool!Release \/ UNCHANGED holders
    BY DEF Pool!Next
  <2>1. CASE \/ enqueue_process \/ switch_process \/ resume \/ pagefault_handler \/ grow_done
             \/ free_VAS_next \/ process_ends \/ panic \/ UserStep \/ halt \/ UNCHANGED vars
    BY <2>1 DEF enqueue_process, switch_process, resume, Enter, pagefault_handler, Handle,
       grow_done, free_VAS_next, WalkDirectory, process_ends, End, panic, UserStep,
       user_store, user_fault, exit, halt, vars, allocator
  <2> QED
    BY <2>1, SetupStep, CreatePdtStep, CreateTableStep, CreateStackStep, GrowStep,
       FreePagetableStep, FreeTableStep DEF Next, KernelStep
<1> QED
  BY <1>1, <1>2, KernelInvAlways, PTL DEF Spec, ImplementsPool, Pool!Spec

(***************************************************************************)
(* memmgnt.c 108-131: under the kernel and any user code, the links of the *)
(* returned frames lead through all of them, though the same words were    *)
(* table entries and the process's data before.                            *)
(***************************************************************************)
THEOREM KernelFreeListWhole == Spec => []FreeListComplete
<1>1. KernelInv => FreeListComplete
  BY FreeListCounted DEF KernelInv, Parts
<1> QED
  BY <1>1, KernelInvAlways, PTL

(***************************************************************************)
(* scheduler.c 46-65, called from entry.c and process.c: the processes the *)
(* kernel runs take turns as in the queue of RoundRobin.  Enqueueing puts  *)
(* a process behind all the others, every switch sends the running one to  *)
(* the tail, and page faults, exits and paging leave the queue alone.      *)
(***************************************************************************)
THEOREM KernelIsRoundRobin == Spec => ImplementsRoundRobin
<1>1. Init => Queue!Init
  BY QueueInit DEF Init
<1>2. KernelInv /\ [Next]_vars => [Queue!Next]_RingOrder
  <2> SUFFICES ASSUME KernelInv, [Next]_vars
               PROVE  Queue!Join \/ Queue!Rotate \/ UNCHANGED RingOrder
    BY DEF Queue!Next
  <2>1. CASE enqueue_process
    BY <2>1, ScheduleJoins DEF enqueue_process, KernelInv, Parts
  <2>2. CASE switch_process
    <3>1. current_process \in Scheduled
      BY <2>2, CurrentProcess DEF switch_process, At
    <3>2. current_process # NoProcess
      BY <3>1 DEF Scheduled, NoProcess, KernelInv, Parts, SchedInv, SchedTypeOK
    <3> QED
      BY <2>2, <3>2, SwitchRotates DEF switch_process, KernelInv, Parts
  <2>3. CASE \/ setup_kernel_paging \/ create_VAS_pdt \/ create_VAS_stack_pt
             \/ create_VAS_stack \/ resume
    <3>1. UNCHANGED scheduler
      BY <2>3 DEF setup_kernel_paging, create_VAS_pdt, create_VAS_stack_pt, TakeTable,
         create_VAS_stack, resume, Enter, scheduler
    <3> QED
      BY <3>1, RingStays DEF scheduler
  <2>4. CASE \/ pagefault_handler \/ grow_stack \/ grow_done \/ free_VAS_next
             \/ free_pagetable \/ free_VAS_table \/ process_ends
    <3>1. UNCHANGED scheduler
      BY <2>4 DEF pagefault_handler, Handle, grow_stack, grow_done, free_VAS_next,
         WalkDirectory, free_pagetable, FreeEntry, free_VAS_table, process_ends, End,
         scheduler
    <3> QED
      BY <3>1, RingStays DEF scheduler
  <2>5. CASE panic \/ UserStep \/ halt \/ UNCHANGED vars
    <3>1. UNCHANGED scheduler
      BY <2>5 DEF panic, UserStep, user_store, user_fault, exit, halt, vars, scheduler
    <3> QED
      BY <3>1, RingStays DEF scheduler
  <2> QED
    BY <2>1, <2>2, <2>3, <2>4, <2>5 DEF Next, KernelStep
<1> QED
  BY <1>1, <1>2, KernelInvAlways, PTL DEF Spec, ImplementsRoundRobin, Queue!Spec

=============================================================================
