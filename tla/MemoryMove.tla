----------------------------- MODULE MemoryMove -----------------------------
(***************************************************************************)
(* memmove of src/src/memmgnt.c, byte by byte.  Its two regions may        *)
(* overlap either way: it chooses the direction of its loop so that no     *)
(* byte is overwritten before it was copied.  Its callers today (vga.c)    *)
(* copy between the page and the screen, which never overlap; the next one *)
(* will rely on the rest.                                                  *)
(*                                                                         *)
(* Addresses are below half of the address space, as the page space ends   *)
(* at 1 GiB, so that the difference of two of them fits a ptrdiff_t.       *)
(***************************************************************************)
EXTENDS Integers

CONSTANTS
  MEMORY_SIZE,   \* bytes of memory
  Content        \* what a byte may hold

ASSUME MemoryAssumption == MEMORY_SIZE \in Nat

Location == 0 .. MEMORY_SIZE - 1

VARIABLES
  bytes,             \* [Location -> Content]
  loop,              \* "idle", "down" or "up": which of the two loops runs
  dest, src, count,  \* the arguments
  i,                 \* the loop's counter
  before             \* history: bytes at the call

move_vars == <<bytes, loop, dest, src, count, i, before>>

MoveInit ==
  /\ bytes \in [Location -> Content]
  /\ loop = "idle"
  /\ dest = 0 /\ src = 0 /\ count = 0 /\ i = 0
  /\ before = bytes

-----------------------------------------------------------------------------

\* Mutant: always from the beginning, as memcpy does.
Backwards_never(d, s, n) == FALSE

\* The direction: from the end if the destination begins inside the source.
Backwards(d, s, n) == d - s > 0 /\ d - s < n

\* The regions lie in memory: no caller passes others.
memmove(d, s, n) ==
  /\ loop = "idle"
  /\ d + n <= MEMORY_SIZE /\ s + n <= MEMORY_SIZE
  /\ dest' = d /\ src' = s /\ count' = n /\ i' = 0
  /\ loop' = IF Backwards(d, s, n) THEN "down" ELSE "up"
  /\ before' = bytes
  /\ UNCHANGED bytes

CopyByte(k) ==
  /\ i < count
  /\ bytes' = [bytes EXCEPT ![dest + k] = bytes[src + k]]
  /\ i' = i + 1
  /\ UNCHANGED <<loop, dest, src, count, before>>

copy_down == loop = "down" /\ CopyByte(count - i - 1)

copy_up == loop = "up" /\ CopyByte(i)

return ==
  /\ loop # "idle" /\ i = count
  /\ loop' = "idle"
  /\ UNCHANGED <<bytes, dest, src, count, i, before>>

MoveNext ==
  \/ \E d, s \in Location, n \in 0 .. MEMORY_SIZE : memmove(d, s, n)
  \/ copy_down \/ copy_up \/ return

MoveSpec == MoveInit /\ [][MoveNext]_move_vars

-----------------------------------------------------------------------------

\* The state stays within its types, and the regions within memory.
MoveTypeOK ==
  /\ bytes \in [Location -> Content] /\ before \in [Location -> Content]
  /\ loop \in {"idle", "down", "up"}
  /\ dest \in Nat /\ src \in Nat /\ count \in Nat
  /\ dest + count <= MEMORY_SIZE /\ src + count <= MEMORY_SIZE
  /\ i \in 0 .. count

(***************************************************************************)
(* When memmove is done, the destination holds what the source held before *)
(* it began, however the two overlap, and no other byte has changed        *)
(* (memmgnt.c 11-22).                                                      *)
(***************************************************************************)
MoveIsCopy ==
  loop = "idle" =>
    \A a \in Location :
      bytes[a] = IF a \in dest .. dest + count - 1 THEN before[src + (a - dest)] ELSE before[a]

=============================================================================
