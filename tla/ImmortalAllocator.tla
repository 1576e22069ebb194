------------------------- MODULE ImmortalAllocator -------------------------
(***************************************************************************)
(* The allocator of memory that is never freed: malloc_immortal and        *)
(* calloc_immortal of src/src/memmgnt.c.  Of its two arenas only the       *)
(* second is ever looked at, the one between the first megabyte and the    *)
(* page space; the first holds the image and the stack.                    *)
(*                                                                         *)
(* A call raises current in two steps, a read and a write, and keeps       *)
(* interrupts off in between, so that the handler of an interrupt may call *)
(* the allocator too (none does today).  It leaves the interrupt flag as   *)
(* it found it: the kernel calls it before its sti, while nothing handles  *)
(* interrupts yet, and after it (entry.c 21-41).                           *)
(***************************************************************************)
EXTENDS Integers

CONSTANTS
  ARENA_START, ARENA_END,  \* the second arena (0x100000, 0x400000)
  ADDRESS_SPACE,           \* values of a pointer (2^32)
  Requests                 \* what is asked for

ASSUME ArenaAssumption ==
  /\ ARENA_START \in Nat
  /\ ARENA_END \in Nat
  /\ ARENA_START < ARENA_END
  /\ ADDRESS_SPACE \in Nat
  /\ ARENA_END < ADDRESS_SPACE
  /\ Requests \subseteq [size : 0 .. ADDRESS_SPACE - 1, alignment : Nat, zeroed : BOOLEAN]
  \* Rounding up does not leave the address space.
  /\ \A r \in Requests : ARENA_END + r.alignment < ADDRESS_SPACE

Address == ARENA_START .. ARENA_END - 1

\* The two that call it: the kernel, and the handler that interrupted it.
Caller == {"kernel", "handler"}

VARIABLES
  current,        \* the lowest address of the arena that was not handed out
  interrupts_on,  \* the processor's interrupt flag
  running,        \* who executes
  started,        \* history: the kernel has turned interrupts on
  call,           \* per caller: the step of its call, the request, its locals
  blocks,         \* history: what was handed out
  dirty,          \* the bytes of the arena that are not zero
  promised        \* history: what the owner of a block relies on finding in it

immortal_vars ==
  <<current, interrupts_on, running, started, call, blocks, dirty, promised>>

NoCall == [step |-> "out", size |-> 0, alignment |-> 1, zeroed |-> FALSE,
           cur |-> ARENA_START, eflags |-> FALSE]

Block(start, size) == [start |-> start, size |-> size]

BytesOf(block) == block.start .. block.start + block.size - 1

\* Interrupts are off since boot.asm; the arena is whatever the BIOS left in it.
ImmortalInit ==
  /\ current = ARENA_START
  /\ interrupts_on = FALSE /\ running = "kernel" /\ started = FALSE
  /\ call = [c \in Caller |-> NoCall]
  /\ blocks = {}
  /\ dirty = Address
  /\ promised = [b \in {} |-> "nothing"]

-----------------------------------------------------------------------------

\* After kernel_panic, which turns interrupts off, nothing executes.
Panicked(c) == call[c].step = "panicked"
Alive == \A c \in Caller : ~Panicked(c)

\* The step of the call of c that executes.
At(c, step) == running = c /\ call[c].step = step

Begin(c, flag) ==
  /\ At(c, "out")
  /\ \E r \in Requests :
       /\ r.size # 0            \* else NULL at once
       /\ call' = [call EXCEPT ![c] =
            [step |-> "look", size |-> r.size, zeroed |-> r.zeroed,
             alignment |-> IF r.alignment = 0 THEN 1 ELSE r.alignment,
             cur |-> ARENA_START, eflags |-> interrupts_on]]
  /\ interrupts_on' = flag
  /\ UNCHANGED <<current, running, started, blocks, dirty, promised>>

\* Mutant: the call leaves interrupts as they are.
pushfd_cli_forgotten(c) == Begin(c, interrupts_on)

pushfd_cli(c) == Begin(c, FALSE)

RoundUp(address, alignment) ==
  ((address + (alignment - 1)) \div alignment) * alignment

Fits(cur, size) ==
  cur < ARENA_END /\ (ARENA_END - cur) % ADDRESS_SPACE >= size

look(c) ==
  LET cur == RoundUp(current, call[c].alignment)
  IN  /\ At(c, "look")
      /\ Fits(cur, call[c].size)
      /\ call' = [call EXCEPT ![c].cur = cur, ![c].step = "carve"]
      /\ UNCHANGED <<current, interrupts_on, running, started, blocks, dirty, promised>>

no_memory(c) ==
  /\ At(c, "look")
  /\ ~Fits(RoundUp(current, call[c].alignment), call[c].size)
  /\ call' = [call EXCEPT ![c].step = "panicked"]
  /\ interrupts_on' = FALSE
  /\ UNCHANGED <<current, running, started, blocks, dirty, promised>>

carve(c) ==
  /\ At(c, "carve")
  /\ current' = call[c].cur + call[c].size
  /\ blocks' = blocks \cup {Block(call[c].cur, call[c].size)}
  /\ call' = [call EXCEPT ![c].step = "popfd"]
  /\ UNCHANGED <<interrupts_on, running, started, dirty, promised>>

Hand(c, content) ==
  /\ call' = [call EXCEPT ![c] = NoCall]
  /\ promised' = [b \in DOMAIN promised \cup {Block(call[c].cur, call[c].size)} |->
                    IF b \in DOMAIN promised THEN promised[b] ELSE content]

End(c, flag) ==
  /\ At(c, "popfd")
  /\ interrupts_on' = flag
  /\ \/ ~call[c].zeroed /\ Hand(c, "nothing")
     \/ /\ call[c].zeroed
        /\ call' = [call EXCEPT ![c].step = "memzero"]
        /\ UNCHANGED promised
  /\ UNCHANGED <<current, running, started, blocks, dirty>>

\* Mutant: sti in place of popfd.
popfd_sti(c) == End(c, TRUE)

popfd(c) == End(c, call[c].eflags)

\* What calloc_immortal adds, with interrupts as its caller has them.
Clear(c, bytes) ==
  /\ At(c, "memzero")
  /\ dirty' = dirty \ bytes
  /\ Hand(c, "zeros")
  /\ UNCHANGED <<current, interrupts_on, running, started, blocks>>

\* Mutant: memzero of current, where malloc_immortal has just raised it, not of its result.
memzero_from_current(c) == Clear(c, current - call[c].size .. current - 1)

memzero(c) == Clear(c, BytesOf(Block(call[c].cur, call[c].size)))

-----------------------------------------------------------------------------
(***************************************************************************)
(* The callers and the processor.                                          *)
(***************************************************************************)

sti ==
  /\ At("kernel", "out")
  /\ ~started
  /\ started' = TRUE /\ interrupts_on' = TRUE
  /\ UNCHANGED <<current, running, call, blocks, dirty, promised>>

interrupt ==
  /\ running = "kernel" /\ interrupts_on
  /\ running' = "handler" /\ interrupts_on' = FALSE
  /\ UNCHANGED <<current, started, call, blocks, dirty, promised>>

iret ==
  /\ At("handler", "out")
  /\ running' = "kernel" /\ interrupts_on' = TRUE
  /\ UNCHANGED <<current, started, call, blocks, dirty, promised>>

\* An owner fills its block with other bytes than zero.
store(block) ==
  /\ Alive
  /\ dirty' = dirty \cup BytesOf(block)
  /\ promised' = [promised EXCEPT ![block] = "stored"]
  /\ UNCHANGED <<current, interrupts_on, running, started, call, blocks>>

ImmortalStopped == ~Alive /\ UNCHANGED immortal_vars

ImmortalNext ==
  \/ \E c \in Caller :
       pushfd_cli(c) \/ look(c) \/ no_memory(c) \/ carve(c) \/ popfd(c) \/ memzero(c)
  \/ sti \/ interrupt \/ iret
  \/ \E block \in DOMAIN promised : store(block)
  \/ ImmortalStopped

ImmortalSpec == ImmortalInit /\ [][ImmortalNext]_immortal_vars

-----------------------------------------------------------------------------

\* The requests that ended in a panic.
refused == {[size |-> call[c].size, alignment |-> call[c].alignment] :
              c \in {d \in Caller : Panicked(d)}}

(***************************************************************************)
(* Blocks lie in the arena, aligned as asked, and never overlap, though a  *)
(* handler may allocate between any two instructions of the kernel at      *)
(* which interrupts are on; and the panic comes only when the block asked  *)
(* for would not fit behind the others (memmgnt.c 63-75).                  *)
(***************************************************************************)
Arena == INSTANCE DisjointBlocks WITH
  Arena <- Address,
  Alignments <- ({r.alignment : r \in Requests} \ {0}) \cup {1},
  Sizes <- {r.size : r \in Requests}
ImplementsArena == Arena!Spec

(***************************************************************************)
(* No call turns interrupts on for a caller that had them off: not before  *)
(* the kernel's sti, when the descriptor table is not there yet, and not   *)
(* in a handler (memmgnt.c 63-70: pushfd and popfd around cli).            *)
(***************************************************************************)
InterruptsStayOff == interrupts_on => started /\ running = "kernel"

(***************************************************************************)
(* Zeros where calloc_immortal promised them, and what an owner stored,    *)
(* stay until the owner stores (memmgnt.c 78-82: memzero runs with         *)
(* interrupts on, and a handler may take and fill a block meanwhile).      *)
(***************************************************************************)
ContentsKept ==
  \A b \in DOMAIN promised :
    /\ promised[b] = "zeros"  => BytesOf(b) \cap dirty = {}
    /\ promised[b] = "stored" => BytesOf(b) \subseteq dirty

=============================================================================
