--------------------------- MODULE FrameAllocator ---------------------------
(***************************************************************************)
(* The page-frame allocator of src/src/memmgnt.c: malloc_page, calloc_page *)
(* and free_page.                                                          *)
(*                                                                         *)
(* Physical memory is counted in pages.  Frames below frame_edge have been *)
(* handed out at least once; a frame that came back is kept on a singly    *)
(* linked list whose links live in the frames themselves, in word 0, so    *)
(* the list shares its storage with whatever a client writes to a frame.   *)
(* The same words, read by the MMU, are page-table entries.                *)
(***************************************************************************)
EXTENDS Integers, FiniteSets, KernelPanic

CONSTANTS
  PAGE_SPACE_START,  \* first frame of the page space (0x400000 / 0x1000)
  PAGE_SPACE_END,    \* first page past it (0x40000000 / 0x1000)
  PT_ENTRIES,        \* words of a frame, when it is a table (1024)
  ClientWords        \* the words a client may store in a frame it holds

ASSUME PageSpaceAssumption ==
  /\ PAGE_SPACE_START \in Nat \ {0}
  /\ PAGE_SPACE_END \in Nat
  /\ PAGE_SPACE_START < PAGE_SPACE_END
  /\ PT_ENTRIES \in Nat \ {0}

NULL == 0

Frame == PAGE_SPACE_START .. PAGE_SPACE_END - 1
Slot  == 0 .. PT_ENTRIES - 1

\* A 32-bit word of a frame.  As a table entry it has the three fields the
\* kernel ever varies; as a pointer it is its address (pages are aligned, so
\* a stored pointer has the flag bits clear).
Word == [present : BOOLEAN, user : BOOLEAN, address : 0 .. PAGE_SPACE_END - 1]

ASSUME ClientWordsAssumption == ClientWords \subseteq Word

Pointer(page) == [present |-> FALSE, user |-> FALSE, address |-> page]
ZeroPage == [s \in Slot |-> Pointer(NULL)]

VARIABLES
  frame_edge,       \* the lowest frame that was never handed out
  frame_free_list,  \* head of the list of returned frames, or NULL
  ram,              \* contents of the page space
  holders           \* history: how often each frame is handed out and not returned

frame_vars == <<frame_edge, frame_free_list, ram, holders, halted>>

\* The frames that are somebody's.
held == {f \in Frame : holders[f] # 0}

-----------------------------------------------------------------------------

\* Mutant: the panic is decided before the free list is looked at.
OutOfMemory_ignores_list == frame_edge >= PAGE_SPACE_END - 1

\* A call of malloc_page in such a state panics.
OutOfMemory ==
  /\ frame_free_list = NULL
  /\ frame_edge >= PAGE_SPACE_END - 1

\* malloc_page takes the head of the list and leaves rest as its head.
TakeReturned(page, rest) ==
  /\ frame_free_list # NULL
  /\ page = frame_free_list
  /\ frame_free_list' = rest
  /\ UNCHANGED frame_edge

\* malloc_page takes the frame at the edge.
TakeFresh(page) ==
  /\ frame_free_list = NULL
  /\ page = frame_edge
  /\ frame_edge' = frame_edge + 1
  /\ UNCHANGED frame_free_list

\* Mutant: the head of the list is returned and stays on it.
malloc_page_keeps_head(page) ==
  /\ ~OutOfMemory
  /\ TakeReturned(page, frame_free_list) \/ TakeFresh(page)
  /\ holders' = [holders EXCEPT ![page] = @ + 1]

\* malloc_page returns page: the head of the list, else the edge.
malloc_page(page) ==
  /\ ~OutOfMemory
  /\ \/ TakeReturned(page, ram[frame_free_list][0].address)
     \/ TakeFresh(page)
  /\ holders' = [holders EXCEPT ![page] = @ + 1]

\* Mutant: the clearing runs on into the next frame.
calloc_page_overruns(page) ==
  /\ malloc_page(page)
  /\ ram' = [f \in Frame |-> IF f \in {page, page + 1} THEN ZeroPage ELSE ram[f]]

\* The returned frame is cleared whatever it held before.
calloc_page(page) ==
  /\ malloc_page(page)
  /\ ram' = [ram EXCEPT ![page] = ZeroPage]

\* The link is written over the first word of the returned frame.
PushReturned(page, rest) ==
  /\ ram' = [ram EXCEPT ![page][0] = Pointer(rest)]
  /\ frame_free_list' = page
  /\ holders' = [holders EXCEPT ![page] = @ - 1]
  /\ UNCHANGED frame_edge

\* Mutant: the frame becomes the whole list.
free_page_drops_list(page) == PushReturned(page, NULL)

free_page(page) == PushReturned(page, frame_free_list)

-----------------------------------------------------------------------------
(***************************************************************************)
(* The allocator with a client that keeps the contract: it frees only      *)
(* frames it holds, and writes only to frames it holds.                    *)
(***************************************************************************)

\* Nothing clears the page space before the first malloc_page: at power-on it
\* holds the same word everywhere, any of those a client might leave there.
InitialRam ==
  {[f \in Frame |-> [s \in Slot |-> w]] : w \in ClientWords \cup {Pointer(NULL)}}

FrameInit ==
  /\ frame_edge = PAGE_SPACE_START
  /\ frame_free_list = NULL
  /\ ram \in InitialRam
  /\ holders = [f \in Frame |-> 0]
  /\ halted = FALSE

Malloc ==
  /\ NotHalted
  /\ \E page \in Frame : malloc_page(page)
  /\ UNCHANGED <<ram, halted>>

Calloc ==
  /\ NotHalted
  /\ \E page \in Frame : calloc_page(page)
  /\ UNCHANGED halted

Free ==
  /\ NotHalted
  /\ \E page \in held : free_page(page)
  /\ UNCHANGED halted

Store ==
  /\ NotHalted
  /\ \E page \in held, s \in Slot, w \in ClientWords :
        ram' = [ram EXCEPT ![page][s] = w]
  /\ UNCHANGED <<frame_edge, frame_free_list, holders, halted>>

Exhausted ==
  /\ OutOfMemory
  /\ kernel_panic
  /\ UNCHANGED <<frame_edge, frame_free_list, ram, holders>>

Stopped == halted /\ UNCHANGED frame_vars

FrameNext == Malloc \/ Calloc \/ Free \/ Store \/ Exhausted \/ Stopped

FrameSpec == FrameInit /\ [][FrameNext]_frame_vars

-----------------------------------------------------------------------------

\* The state stays within its types, and no frame is held twice.
FrameTypeOK ==
  /\ frame_edge \in PAGE_SPACE_START .. PAGE_SPACE_END - 1
  /\ frame_free_list \in Frame \cup {NULL}
  /\ ram \in [Frame -> [Slot -> Word]]
  /\ holders \in [Frame -> {0, 1}]
  /\ held \subseteq PAGE_SPACE_START .. frame_edge - 1
  /\ halted \in BOOLEAN

Returned == (PAGE_SPACE_START .. frame_edge - 1) \ held

Link(f) == ram[f][0].address

\* list enumerates, from the head, the frames the list links together.
IsFreeList(n, list) ==
  /\ frame_free_list = IF n = 0 THEN NULL ELSE list[1]
  /\ \A i \in 1 .. n : Link(list[i]) = IF i = n THEN NULL ELSE list[i + 1]
  /\ \A i, k \in 1 .. n : list[i] = list[k] => i = k
  /\ \A f \in Returned : \E i \in 1 .. n : list[i] = f

(***************************************************************************)
(* The links found in memory, followed from frame_free_list, lead through  *)
(* every returned frame exactly once and end in NULL: no frame is lost,    *)
(* none is reached twice, and no word a client stored is taken for a link  *)
(* (memmgnt.c 108-131, the list that lives in the frames it lists).        *)
(***************************************************************************)
FreeListComplete ==
  LET n == Cardinality(Returned)
  IN  \E list \in [1 .. n -> Returned] : IsFreeList(n, list)

(***************************************************************************)
(* malloc_page hands out only frames nobody holds, so that no two clients  *)
(* ever share one (memmgnt.c 108-120).                                     *)
(***************************************************************************)
Pool == INSTANCE FramePool
ImplementsPool == Pool!Spec

(***************************************************************************)
(* The allocator gives up only when every frame but the top one is held:   *)
(* freed frames are all used before that (memmgnt.c 110-116).              *)
(***************************************************************************)
PanicsOnlyWhenUsedUp == halted => held = Frame \ {PAGE_SPACE_END - 1}

(***************************************************************************)
(* Allocating or freeing one frame leaves the contents of every frame that *)
(* stays held alone, the links it writes and the pages it clears included  *)
(* (memmgnt.c 122-131).                                                    *)
(***************************************************************************)
HeldContentsUntouched ==
  [][holders' # holders => \A f \in held \cap held' : ram'[f] = ram[f]]_frame_vars

=============================================================================
