------------------------ MODULE FrameAllocator_proofs ------------------------
(***************************************************************************)
(* Proofs about FrameAllocator: each operation keeps the free list whole,  *)
(* and the specification implements FramePool.                             *)
(***************************************************************************)
EXTENDS FrameAllocator, FunctionTheorems, FiniteSetTheorems, TLAPS

FreeListInv ==
  \E n \in Nat : \E list \in [1 .. n -> Returned] : IsFreeList(n, list)

FrameInv ==
  /\ FrameTypeOK
  /\ FreeListInv
  /\ halted => OutOfMemory

(***************************************************************************)
(* The chain of the invariant has one entry per returned frame, so the     *)
(* form the run checks follows from it.                                    *)
(***************************************************************************)
LEMMA FreeListCounted == FreeListInv => FreeListComplete
<1> SUFFICES ASSUME FreeListInv PROVE FreeListComplete
  OBVIOUS
<1>1. PICK n \in Nat : \E list \in [1 .. n -> Returned] : IsFreeList(n, list)
  BY DEF FreeListInv
<1>2. PICK list \in [1 .. n -> Returned] : IsFreeList(n, list)
  BY <1>1
<1>3. list \in Bijection(1 .. n, Returned)
  BY <1>2, Fun_IsBij DEF IsFreeList
<1>4. Cardinality(Returned) = n
  BY <1>3, FS_CountingElements DEF ExistsBijection
<1> QED
  BY <1>2, <1>4 DEF FreeListComplete

(***************************************************************************)
(* A returned frame is a frame, below the edge and held by nobody; NULL is *)
(* none of them.                                                           *)
(***************************************************************************)
LEMMA ReturnedFrames ==
  ASSUME FrameTypeOK
  PROVE  /\ Returned \subseteq Frame \ held
         /\ NULL \notin Frame
         /\ NULL \notin Returned
BY PageSpaceAssumption DEF FrameTypeOK, Returned, Frame, NULL

(***************************************************************************)
(* malloc_page with the list not empty: the head of the chain goes, the    *)
(* rest of the chain is the list of what remains.                          *)
(***************************************************************************)
LEMMA PopKeepsFreeList ==
  ASSUME FrameTypeOK, FreeListInv,
         NEW page,
         TakeReturned(page, ram[frame_free_list][0].address),
         held' = held \cup {page},
         \A f \in Frame \ (held \cup {page}) : ram'[f] = ram[f]
  PROVE  /\ page \in Returned
         /\ frame_free_list' \in Frame \cup {NULL}
         /\ FreeListInv'
<1>1. PICK n \in Nat : \E list \in [1 .. n -> Returned] : IsFreeList(n, list)
  BY DEF FreeListInv
<1>2. PICK list \in [1 .. n -> Returned] : IsFreeList(n, list)
  BY <1>1
<1>3. n # 0
  BY <1>2 DEF IsFreeList, TakeReturned
<1>4. page = list[1] /\ page \in Returned
  BY <1>2, <1>3 DEF IsFreeList, TakeReturned
<1>5. Returned' = Returned \ {page}
  BY <1>4 DEF Returned, TakeReturned
<1>6. frame_free_list' = IF n = 1 THEN NULL ELSE list[2]
  BY <1>2, <1>3, <1>4 DEF IsFreeList, TakeReturned, Link
<1>7. frame_free_list' \in Frame \cup {NULL}
  BY <1>6, <1>2, <1>3, ReturnedFrames
<1> DEFINE rest == [i \in 1 .. n - 1 |-> list[i + 1]]
<1>8. n - 1 \in Nat
  BY <1>3
<1>9. \A i \in 1 .. n - 1 : /\ i + 1 \in 1 .. n
                            /\ rest[i] = list[i + 1]
                            /\ rest[i] \in Returned \ {page}
  BY <1>2, <1>3, <1>4 DEF IsFreeList
<1>10. rest \in [1 .. n - 1 -> Returned']
  BY <1>5, <1>9
<1>11. IsFreeList(n - 1, rest)'
  <2>1. frame_free_list' = IF n - 1 = 0 THEN NULL ELSE rest[1]
    BY <1>3, <1>6
  <2>2. \A i \in 1 .. n - 1 :
           Link(rest[i])' = IF i = n - 1 THEN NULL ELSE rest[i + 1]
    <3> TAKE i \in 1 .. n - 1
    <3>1. ram'[rest[i]] = ram[rest[i]]
      BY <1>9, ReturnedFrames
    <3>2. Link(list[i + 1]) = IF i + 1 = n THEN NULL ELSE list[i + 2]
      BY <1>9, <1>2 DEF IsFreeList
    <3>3. i # n - 1 => rest[i + 1] = list[i + 2]
      BY <1>8
    <3> QED
      BY <3>1, <3>2, <3>3, <1>9, <1>8 DEF Link
  <2>3. \A i, k \in 1 .. n - 1 : rest[i] = rest[k] => i = k
    BY <1>9, <1>2 DEF IsFreeList
  <2>4. \A f \in Returned' : \E i \in 1 .. n - 1 : rest[i] = f
    <3> TAKE f \in Returned'
    <3>1. PICK k \in 1 .. n : list[k] = f
      BY <1>2, <1>5 DEF IsFreeList
    <3>2. k # 1
      BY <3>1, <1>4, <1>5
    <3>3. k - 1 \in 1 .. n - 1 /\ rest[k - 1] = f
      BY <3>1, <3>2
    <3> QED
      BY <3>3
  <2> HIDE DEF rest
  <2> QED
    BY <2>1, <2>2, <2>3, <2>4 DEF IsFreeList, Link
<1> HIDE DEF rest
<1> QED
  BY <1>4, <1>7, <1>8, <1>10, <1>11 DEF FreeListInv

(***************************************************************************)
(* malloc_page with the list empty: the frame at the edge is new to        *)
(* everybody, and the list stays empty.                                    *)
(***************************************************************************)
LEMMA FreshKeepsFreeList ==
  ASSUME FrameTypeOK, FreeListInv,
         NEW page,
         ~OutOfMemory,
         TakeFresh(page),
         held' = held \cup {page}
  PROVE  /\ page \in Frame \ held
         /\ frame_edge' \in PAGE_SPACE_START .. PAGE_SPACE_END - 1
         /\ FreeListInv'
<1>1. /\ page = frame_edge
      /\ page \in Frame \ held
      /\ frame_edge < PAGE_SPACE_END - 1
  BY PageSpaceAssumption DEF TakeFresh, OutOfMemory, FrameTypeOK, Frame
<1>2. frame_edge' \in PAGE_SPACE_START .. PAGE_SPACE_END - 1
  BY <1>1, PageSpaceAssumption DEF TakeFresh, FrameTypeOK
<1>3. PICK n \in Nat : \E list \in [1 .. n -> Returned] : IsFreeList(n, list)
  BY DEF FreeListInv
<1>4. PICK list \in [1 .. n -> Returned] : IsFreeList(n, list)
  BY <1>3
<1>5. n = 0
  <2>1. SUFFICES ASSUME n # 0 PROVE FALSE
    OBVIOUS
  <2>2. frame_free_list \in Returned
    BY <2>1, <1>4 DEF IsFreeList
  <2> QED
    BY <2>2, ReturnedFrames DEF TakeFresh
<1>6. Returned = {}
  BY <1>4, <1>5 DEF IsFreeList
<1>7. Returned' = {}
  BY <1>1, <1>6, PageSpaceAssumption DEF Returned, TakeFresh, FrameTypeOK
<1>8. list \in [1 .. 0 -> Returned']
  BY <1>4, <1>5, <1>6, <1>7
<1>9. IsFreeList(0, list)'
  BY <1>4, <1>5, <1>7 DEF IsFreeList, TakeFresh
<1> QED
  BY <1>1, <1>2, <1>8, <1>9 DEF FreeListInv

(***************************************************************************)
(* What a caller of malloc_page or calloc_page gets, and what is left: the *)
(* frame was nobody's, and the list is whole, if the contents of no frame  *)
(* change on the way but of those held and of the one handed out.          *)
(***************************************************************************)
LEMMA MallocPage ==
  ASSUME FrameTypeOK, FreeListInv,
         NEW page,
         malloc_page(page),
         ram' \in [Frame -> [Slot -> Word]],
         \A f \in Frame \ (held \cup {page}) : ram'[f] = ram[f],
         halted' \in BOOLEAN
  PROVE  /\ page \in Frame \ held
         /\ held' = held \cup {page}
         /\ holders' = [holders EXCEPT ![page] = @ + 1]
         /\ FrameTypeOK'
         /\ FreeListInv'
<1>1. /\ page \in Frame
      /\ holders' = [holders EXCEPT ![page] = @ + 1]
  BY PageSpaceAssumption
     DEF malloc_page, TakeReturned, TakeFresh, FrameTypeOK, Frame
<1>2. held' = held \cup {page}
  BY <1>1 DEF FrameTypeOK, held
<1>3. page \notin held => holders' \in [Frame -> {0, 1}]
  BY <1>1 DEF FrameTypeOK, held
<1>4. CASE TakeReturned(page, ram[frame_free_list][0].address)
  <2>1. /\ page \in Returned
        /\ frame_free_list' \in Frame \cup {NULL}
        /\ FreeListInv'
    BY <1>2, <1>4, PopKeepsFreeList
  <2>2. page \notin held
    BY <2>1 DEF Returned
  <2>3. FrameTypeOK'
    BY <2>1, <2>2, <1>2, <1>3, <1>4 DEF FrameTypeOK, TakeReturned, Returned
  <2> QED
    BY <1>1, <1>2, <2>1, <2>2, <2>3
<1>5. CASE TakeFresh(page)
  <2>1. ~OutOfMemory
    BY DEF malloc_page
  <2>2. /\ page \in Frame \ held
        /\ frame_edge' \in PAGE_SPACE_START .. PAGE_SPACE_END - 1
        /\ FreeListInv'
    BY <1>2, <1>5, <2>1, FreshKeepsFreeList
  <2>3. held' \subseteq PAGE_SPACE_START .. frame_edge' - 1
    BY <1>2, <1>5 DEF FrameTypeOK, TakeFresh
  <2>4. FrameTypeOK'
    BY <2>2, <2>3, <1>3, <1>5 DEF FrameTypeOK, TakeFresh
  <2> QED
    BY <2>2, <2>4, <1>1, <1>2
<1> QED
  BY <1>4, <1>5 DEF malloc_page

(***************************************************************************)
(* free_page of a held frame puts it at the head of the chain.             *)
(***************************************************************************)
LEMMA FreePage ==
  ASSUME FrameTypeOK, FreeListInv,
         NEW page \in held,
         free_page(page),
         halted' \in BOOLEAN
  PROVE  /\ held' = held \ {page}
         /\ holders' = [holders EXCEPT ![page] = 0]
         /\ \A f \in Frame \ {page} : ram'[f] = ram[f]
         /\ FrameTypeOK'
         /\ FreeListInv'
<1>1. /\ page \in Frame
      /\ 0 \in Slot
      /\ frame_free_list \in 0 .. PAGE_SPACE_END - 1
  BY PageSpaceAssumption DEF FrameTypeOK, Frame, Slot, NULL
<1>2. /\ holders' = [holders EXCEPT ![page] = 0]
      /\ held' = held \ {page}
      /\ frame_free_list' = page
      /\ frame_edge' = frame_edge
      /\ ram' = [ram EXCEPT ![page][0] = Pointer(frame_free_list)]
  <2>1. holders' = [holders EXCEPT ![page] = @ - 1] /\ holders[page] = 1
    BY <1>1 DEF free_page, PushReturned, FrameTypeOK, held
  <2>2. holders' = [holders EXCEPT ![page] = 0]
    BY <2>1
  <2>3. held' = held \ {page}
    BY <2>2, <1>1 DEF FrameTypeOK, held
  <2> QED
    BY <2>2, <2>3 DEF free_page, PushReturned
<1>3. \A f \in Frame \ {page} : ram'[f] = ram[f]
  BY <1>1, <1>2 DEF FrameTypeOK
<1>4. Link(page)' = frame_free_list
  BY <1>1, <1>2 DEF FrameTypeOK, Link, Pointer
<1>5. Pointer(frame_free_list) \in Word
  BY <1>1 DEF Pointer, Word
<1>6. FrameTypeOK'
  BY <1>1, <1>2, <1>5 DEF FrameTypeOK
<1>7. Returned' = Returned \cup {page} /\ page \notin Returned
  BY <1>2 DEF Returned, FrameTypeOK
<1>8. PICK n \in Nat : \E list \in [1 .. n -> Returned] : IsFreeList(n, list)
  BY DEF FreeListInv
<1>9. PICK list \in [1 .. n -> Returned] : IsFreeList(n, list)
  BY <1>8
<1> DEFINE longer == [i \in 1 .. n + 1 |-> IF i = 1 THEN page ELSE list[i - 1]]
<1>10. /\ longer[1] = page
       /\ \A i \in 1 .. n : longer[i + 1] = list[i] /\ list[i] \in Returned
  BY <1>9
<1>11. \A i \in 2 .. n + 1 : i - 1 \in 1 .. n /\ longer[i] = list[i - 1]
  OBVIOUS
<1>12. longer \in [1 .. n + 1 -> Returned']
  BY <1>7, <1>9
<1>13. IsFreeList(n + 1, longer)'
  <2>1. frame_free_list' = IF n + 1 = 0 THEN NULL ELSE longer[1]
    BY <1>2, <1>10
  <2>2. \A i \in 1 .. n + 1 :
           Link(longer[i])' = IF i = n + 1 THEN NULL ELSE longer[i + 1]
    <3> TAKE i \in 1 .. n + 1
    <3>1. CASE i = 1
      <4>1. frame_free_list = IF n = 0 THEN NULL ELSE list[1]
        BY <1>9 DEF IsFreeList
      <4>2. n # 0 => longer[2] = list[1]
        BY <1>10
      <4> QED
        BY <3>1, <4>1, <4>2, <1>4, <1>10
    <3>2. CASE i # 1
      <4>1. i - 1 \in 1 .. n /\ longer[i] = list[i - 1]
        BY <3>2, <1>11
      <4>2. list[i - 1] \in Frame \ {page}
        BY <4>1, <1>7, <1>10, ReturnedFrames
      <4>3. Link(longer[i])' = Link(list[i - 1])
        BY <4>1, <4>2, <1>3 DEF Link
      <4>4. Link(list[i - 1]) = IF i - 1 = n THEN NULL ELSE list[i]
        BY <4>1, <1>9 DEF IsFreeList
      <4>5. i # n + 1 => longer[i + 1] = list[i]
        BY <4>1, <1>10
      <4> QED
        BY <4>3, <4>4, <4>5, <4>1
    <3> QED
      BY <3>1, <3>2
  <2>3. \A i, k \in 1 .. n + 1 : longer[i] = longer[k] => i = k
    <3> TAKE i, k \in 1 .. n + 1
    <3>1. \A m \in 1 .. n + 1 : m # 1 => longer[m] # page
      <4> TAKE m \in 1 .. n + 1
      <4> HAVE m # 1
      <4>1. m - 1 \in 1 .. n /\ longer[m] = list[m - 1]
        BY <1>11
      <4> QED
        BY <4>1, <1>7, <1>10
    <3>2. CASE i = 1 \/ k = 1
      <4> HIDE DEF longer
      <4> QED
        BY <3>1, <3>2, <1>10
    <3>3. CASE i # 1 /\ k # 1
      <4>1. i \in 2 .. n + 1 /\ k \in 2 .. n + 1
        BY <3>3
      <4>2. /\ i - 1 \in 1 .. n /\ longer[i] = list[i - 1]
            /\ k - 1 \in 1 .. n /\ longer[k] = list[k - 1]
        BY <4>1, <1>11
      <4>3. list[i - 1] = list[k - 1] => i - 1 = k - 1
        BY <4>2, <1>9 DEF IsFreeList
      <4> QED
        BY <4>1, <4>2, <4>3
    <3> QED
      BY <3>2, <3>3
  <2>4. \A f \in Returned' : \E i \in 1 .. n + 1 : longer[i] = f
    <3> TAKE f \in Returned'
    <3>1. CASE f = page
      BY <3>1, <1>10
    <3>2. CASE f # page
      <4>1. PICK k \in 1 .. n : list[k] = f
        BY <3>2, <1>7, <1>9 DEF IsFreeList
      <4>2. k + 1 \in 1 .. n + 1 /\ longer[k + 1] = f
        BY <4>1, <1>10
      <4> QED
        BY <4>2
    <3> QED
      BY <3>1, <3>2
  <2> HIDE DEF longer
  <2> QED
    BY <2>1, <2>2, <2>3, <2>4 DEF IsFreeList, Link
<1> HIDE DEF longer
<1> QED
  BY <1>2, <1>3, <1>6, <1>12, <1>13 DEF FreeListInv

(***************************************************************************)
(* Whatever a client stores in a frame it holds, the list does not see it. *)
(***************************************************************************)
LEMMA StoreKeepsFreeList ==
  ASSUME FrameTypeOK, FreeListInv,
         ram' \in [Frame -> [Slot -> Word]],
         \A f \in Frame \ held : ram'[f] = ram[f],
         UNCHANGED <<frame_edge, frame_free_list, holders>>,
         halted' \in BOOLEAN
  PROVE  FrameTypeOK' /\ FreeListInv'
<1>1. FrameTypeOK'
  BY DEF FrameTypeOK, held
<1>2. Returned' = Returned
  BY DEF Returned, held
<1>3. PICK n \in Nat : \E list \in [1 .. n -> Returned] : IsFreeList(n, list)
  BY DEF FreeListInv
<1>4. PICK list \in [1 .. n -> Returned] : IsFreeList(n, list)
  BY <1>3
<1>5. \A i \in 1 .. n : ram'[list[i]] = ram[list[i]]
  BY <1>4, ReturnedFrames
<1>6. IsFreeList(n, list)'
  BY <1>2, <1>4, <1>5 DEF IsFreeList, Link
<1> QED
  BY <1>1, <1>2, <1>4, <1>6 DEF FreeListInv


-----------------------------------------------------------------------------

(***************************************************************************)
(* An empty list, nothing held, any garbage in memory.                     *)
(***************************************************************************)
LEMMA InitFrames ==
  ASSUME frame_edge = PAGE_SPACE_START, frame_free_list = NULL,
         ram \in InitialRam, holders = [f \in Frame |-> 0],
         halted = FALSE
  PROVE  FrameTypeOK /\ FreeListInv
<1>1. Pointer(NULL) \in Word
  BY PageSpaceAssumption DEF Pointer, NULL, Word
<1>2. ram \in [Frame -> [Slot -> Word]]
  BY <1>1, ClientWordsAssumption DEF InitialRam
<1>3. FrameTypeOK
  <2>1. frame_edge \in PAGE_SPACE_START .. PAGE_SPACE_END - 1
    BY PageSpaceAssumption
  <2>2. held = {} /\ holders \in [Frame -> {0, 1}] /\ halted \in BOOLEAN
    BY DEF held
  <2> QED
    BY <1>2, <2>1, <2>2 DEF FrameTypeOK
<1>4. Returned = {}
  BY PageSpaceAssumption DEF Returned
<1> DEFINE none == [i \in 1 .. 0 |-> NULL]
<1>5. none \in [1 .. 0 -> Returned]
  OBVIOUS
<1>6. IsFreeList(0, none)
  BY <1>4 DEF IsFreeList
<1> QED
  BY <1>3, <1>5, <1>6 DEF FreeListInv

LEMMA InitInv == FrameInit => FrameInv
BY InitFrames DEF FrameInit, FrameInv

LEMMA NextInv == FrameInv /\ [FrameNext]_frame_vars => FrameInv'
<1> SUFFICES ASSUME FrameInv, [FrameNext]_frame_vars PROVE FrameInv'
  OBVIOUS
<1> USE DEF FrameInv, NotHalted
<1>1. CASE Malloc
  <2>1. PICK page \in Frame : malloc_page(page)
    BY <1>1 DEF Malloc
  <2>2. ram' = ram /\ halted' = halted /\ halted = FALSE
    BY <1>1 DEF Malloc
  <2> QED
    BY <2>1, <2>2, MallocPage DEF FrameTypeOK
<1>2. CASE Calloc
  <2>1. PICK page \in Frame : calloc_page(page)
    BY <1>2 DEF Calloc
  <2>2. halted' = halted /\ halted = FALSE
    BY <1>2 DEF Calloc
  <2>3. malloc_page(page) /\ ram' = [ram EXCEPT ![page] = ZeroPage]
    BY <2>1 DEF calloc_page
  <2>4. ZeroPage \in [Slot -> Word]
    BY PageSpaceAssumption DEF ZeroPage, Pointer, NULL, Word
  <2>5. /\ ram' \in [Frame -> [Slot -> Word]]
        /\ \A f \in Frame \ {page} : ram'[f] = ram[f]
    BY <2>3, <2>4 DEF FrameTypeOK
  <2> QED
    BY <2>2, <2>3, <2>5, MallocPage
<1>3. CASE Free
  <2>1. PICK page \in held : free_page(page)
    BY <1>3 DEF Free
  <2>2. halted' = halted /\ halted = FALSE
    BY <1>3 DEF Free
  <2> QED
    BY <2>1, <2>2, FreePage
<1>4. CASE Store
  <2>1. PICK page \in held, s \in Slot, w \in ClientWords :
           ram' = [ram EXCEPT ![page][s] = w]
    BY <1>4 DEF Store
  <2>2. /\ UNCHANGED <<frame_edge, frame_free_list, holders, halted>>
        /\ halted = FALSE
    BY <1>4 DEF Store
  <2>3. /\ ram' \in [Frame -> [Slot -> Word]]
        /\ \A f \in Frame \ held : ram'[f] = ram[f]
    BY <2>1, ClientWordsAssumption DEF FrameTypeOK
  <2> QED
    BY <2>2, <2>3, StoreKeepsFreeList DEF FrameTypeOK
<1>5. CASE Exhausted
  <2>1. UNCHANGED <<frame_edge, frame_free_list, ram, holders>> /\ halted' = TRUE
    BY <1>5 DEF Exhausted, kernel_panic
  <2>2. OutOfMemory'
    BY <1>5, <2>1 DEF Exhausted, OutOfMemory
  <2>3. FrameTypeOK' /\ FreeListInv'
    BY <2>1, StoreKeepsFreeList DEF FrameTypeOK
  <2> QED
    BY <2>2, <2>3
<1>6. CASE UNCHANGED frame_vars
  <2>1. FrameTypeOK' /\ FreeListInv'
    BY <1>6, StoreKeepsFreeList DEF FrameTypeOK, frame_vars
  <2> QED
    BY <2>1, <1>6 DEF frame_vars, OutOfMemory
<1> QED
  BY <1>1, <1>2, <1>3, <1>4, <1>5, <1>6 DEF FrameNext, Stopped

LEMMA InvAlways == FrameSpec => []FrameInv
BY InitInv, NextInv, PTL DEF FrameSpec

(***************************************************************************)
(* memmgnt.c 103-131: the allocator's variables keep their types, for any  *)
(* page space and any words the clients store.                             *)
(***************************************************************************)
THEOREM TypeCorrect == FrameSpec => []FrameTypeOK
<1>1. FrameInv => FrameTypeOK
  BY DEF FrameInv
<1> QED
  BY <1>1, InvAlways, PTL

(***************************************************************************)
(* memmgnt.c 108-131: following the links found in memory from the head    *)
(* visits every returned frame once and ends, whatever the clients do to   *)
(* the frames they hold.                                                   *)
(***************************************************************************)
THEOREM FreeListWhole == FrameSpec => []FreeListComplete
<1>1. FrameInv => FreeListComplete
  BY FreeListCounted DEF FrameInv
<1> QED
  BY <1>1, InvAlways, PTL

(***************************************************************************)
(* memmgnt.c 114-115: at the panic every frame but the last is held, so no *)
(* frame was lost on the way and exactly one is never used.                *)
(***************************************************************************)
THEOREM PanicIsTight == FrameSpec => []PanicsOnlyWhenUsedUp
<1>1. FrameInv => PanicsOnlyWhenUsedUp
  <2> SUFFICES ASSUME FrameInv, halted
               PROVE  held = Frame \ {PAGE_SPACE_END - 1}
    BY DEF PanicsOnlyWhenUsedUp
  <2>1. PICK n \in Nat : \E list \in [1 .. n -> Returned] : IsFreeList(n, list)
    BY DEF FrameInv, FreeListInv
  <2>2. PICK list \in [1 .. n -> Returned] : IsFreeList(n, list)
    BY <2>1
  <2>3. frame_free_list = NULL /\ frame_edge = PAGE_SPACE_END - 1
    BY PageSpaceAssumption DEF FrameInv, OutOfMemory, FrameTypeOK
  <2>4. n = 0
    <3>1. SUFFICES ASSUME n # 0 PROVE FALSE
      OBVIOUS
    <3>2. frame_free_list \in Returned
      BY <3>1, <2>2 DEF IsFreeList
    <3> QED
      BY <3>2, <2>3, ReturnedFrames DEF FrameInv
  <2>5. Returned = {}
    BY <2>2, <2>4 DEF IsFreeList
  <2>6. held = PAGE_SPACE_START .. frame_edge - 1
    BY <2>5 DEF FrameInv, FrameTypeOK, Returned
  <2>7. Frame \ {PAGE_SPACE_END - 1} = PAGE_SPACE_START .. (PAGE_SPACE_END - 1) - 1
    BY PageSpaceAssumption DEF Frame
  <2> QED
    BY <2>3, <2>6, <2>7
<1> QED
  BY <1>1, InvAlways, PTL

(***************************************************************************)
(* Every step of the allocator is a step of the pool or changes nothing    *)
(* that the pool sees.                                                     *)
(***************************************************************************)
LEMMA PoolStep == FrameInv /\ [FrameNext]_frame_vars => [Pool!Next]_holders
<1> SUFFICES ASSUME FrameInv, [FrameNext]_frame_vars
             PROVE  Pool!Next \/ holders' = holders
  OBVIOUS
<1>1. ASSUME NEW page, malloc_page(page),
             ram' \in [Frame -> [Slot -> Word]],
             \A f \in Frame \ {page} : ram'[f] = ram[f],
             halted' \in BOOLEAN
      PROVE  Pool!Next
  <2>1. page \in Frame \ held /\ holders' = [holders EXCEPT ![page] = @ + 1]
    BY <1>1, MallocPage DEF FrameInv
  <2>2. holders[page] = 0
    BY <2>1 DEF held
  <2>3. holders' = [holders EXCEPT ![page] = 1]
    BY <2>1, <2>2
  <2> QED
    BY <2>1, <2>2, <2>3 DEF Pool!Next, Pool!Allocate
<1>2. CASE Malloc
  BY <1>2, <1>1 DEF Malloc, FrameInv, FrameTypeOK
<1>3. CASE Calloc
  <2>1. PICK page \in Frame : calloc_page(page)
    BY <1>3 DEF Calloc
  <2>2. ZeroPage \in [Slot -> Word]
    BY PageSpaceAssumption DEF ZeroPage, Pointer, NULL, Word
  <2>3. /\ malloc_page(page)
        /\ ram' \in [Frame -> [Slot -> Word]]
        /\ \A f \in Frame \ {page} : ram'[f] = ram[f]
    BY <2>1, <2>2 DEF calloc_page, FrameInv, FrameTypeOK
  <2>4. halted' \in BOOLEAN
    BY <1>3 DEF Calloc, FrameInv, FrameTypeOK
  <2> QED
    BY <2>3, <2>4, <1>1
<1>4. CASE Free
  <2>1. PICK page \in held : free_page(page)
    BY <1>4 DEF Free
  <2>2. holders' = [holders EXCEPT ![page] = 0]
    BY <1>4, <2>1, FreePage DEF Free, FrameInv, FrameTypeOK
  <2>3. page \in Frame /\ holders[page] = 1
    BY <2>1 DEF held, FrameInv, FrameTypeOK
  <2> QED
    BY <2>2, <2>3 DEF Pool!Next, Pool!Release
<1>5. CASE Store \/ Exhausted \/ UNCHANGED frame_vars
  BY <1>5 DEF Store, Exhausted, frame_vars
<1> QED
  BY <1>2, <1>3, <1>4, <1>5 DEF FrameNext, Stopped

(***************************************************************************)
(* memmgnt.c 108-131: a frame malloc_page hands out was held by nobody.    *)
(* The list in memory implements the abstract pool of frames.              *)
(***************************************************************************)
THEOREM AllocatorImplementsPool == FrameSpec => ImplementsPool
<1>1. FrameInit => Pool!Init
  BY DEF FrameInit, Pool!Init
<1> QED
  BY <1>1, InvAlways, PoolStep, PTL DEF FrameSpec, ImplementsPool, Pool!Spec

(***************************************************************************)
(* memmgnt.c 122-131: no call of the allocator writes to a frame that is   *)
(* held before and after it.                                               *)
(***************************************************************************)
THEOREM HeldContentsKept == FrameSpec => HeldContentsUntouched
<1> DEFINE Kept == holders' # holders => \A f \in held \cap held' : ram'[f] = ram[f]
<1>1. FrameInv /\ [FrameNext]_frame_vars => [Kept]_frame_vars
  <2> SUFFICES ASSUME FrameInv, [FrameNext]_frame_vars, holders' # holders,
                      NEW f \in held, f \in held'
               PROVE  ram'[f] = ram[f]
    OBVIOUS
  <2>1. f \in Frame
    BY PageSpaceAssumption DEF FrameInv, FrameTypeOK, Frame
  <2>2. CASE Malloc
    BY <2>2 DEF Malloc
  <2>3. CASE Calloc
    <3>1. PICK page \in Frame : calloc_page(page)
      BY <2>3 DEF Calloc
    <3>2. /\ malloc_page(page)
          /\ ram' = [ram EXCEPT ![page] = ZeroPage]
          /\ halted' \in BOOLEAN
      BY <3>1, <2>3 DEF calloc_page, Calloc, FrameInv, FrameTypeOK
    <3>3. ZeroPage \in [Slot -> Word]
      BY PageSpaceAssumption DEF ZeroPage, Pointer, NULL, Word
    <3>4. page \notin held
      <4>1. /\ ram' \in [Frame -> [Slot -> Word]]
            /\ \A g \in Frame \ {page} : ram'[g] = ram[g]
        BY <3>2, <3>3 DEF FrameInv, FrameTypeOK
      <4> QED
        BY <3>2, <4>1, MallocPage DEF FrameInv
    <3> QED
      BY <3>2, <3>4, <2>1 DEF FrameInv, FrameTypeOK
  <2>4. CASE Free
    <3>1. PICK page \in held : free_page(page)
      BY <2>4 DEF Free
    <3>2. /\ held' = held \ {page}
          /\ \A g \in Frame \ {page} : ram'[g] = ram[g]
      BY <3>1, <2>4, FreePage DEF Free, FrameInv, FrameTypeOK
    <3> QED
      BY <3>2, <2>1
  <2>5. CASE Store \/ Exhausted \/ UNCHANGED frame_vars
    BY <2>5 DEF Store, Exhausted, frame_vars
  <2> QED
    BY <2>2, <2>3, <2>4, <2>5 DEF FrameNext, Stopped
<1>2. HeldContentsUntouched <=> [][Kept]_frame_vars
  BY DEF HeldContentsUntouched
<1> HIDE DEF Kept
<1> QED
  BY <1>1, <1>2, InvAlways, PTL DEF FrameSpec

=============================================================================
