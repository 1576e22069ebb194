# A verification development for OSE

OSE is a small 32-bit x86 kernel: a boot sector loads it, `kernel_entry`
(`src/src/entry.c`) brings up interrupts, the timer and the PS/2 keyboard, turns
on paging, and then runs processes one after the other. This directory holds
TLA+ models of it, TLC configurations that check them on small instances, and
proofs checked by TLAPS for all sizes. Paths below are relative to `src/src/`.

## 1. The system and its components

| component | state | operations | called by / shares state with |
|---|---|---|---|
| panic (`assert.c`) | the machine stops | `kernel_panic` | everyone |
| page-frame allocator (`memmgnt.c` 94-131) | `frame_edge`, `frame_free_list`, and the links stored **in** the free frames | `malloc_page`, `calloc_page`, `free_page` | paging; the MMU reads the same frames |
| scheduler (`processes/scheduler/`) | a region, `scheduler_front`, a doubly linked ring, `current_process` | `init_scheduler`, `schedule_process`, `scheduler_next_process` | processes, page-fault handler, `exit` |
| processes (`processes/process.c`, `syscalls.c`) | `Process`: directory, stack bound, entry point, saved registers | `enqueue_process`, `switch_process`, `exit` | scheduler, paging |
| paging (`paging.c`) | the identity-map table, per-process directories and tables, `cr2`, `cr3`, `cr0.PG` | `setup_kernel_paging`, `create_VAS`, `free_VAS`, `pagefault_handler` | frame allocator, processes |
| immortal allocator (`memmgnt.c` 46-82) | the end of what was handed out | `malloc_immortal`, `calloc_immortal` | initialisation, before and after its `sti`; under `cli` |
| memory primitives (`memmgnt.c` 11-44, 84-92) | none | `memmove`, `memset`, `memcmp`, `strlen` | everyone |
| interrupt dispatch (`interrupts.c` 1-163, `boot.asm` 143-177) | IDT, `handlerTable`, the interrupt flag | `init_interrupts`, `set_interrupt_handler`, `universal_interrupt_handler` | every handler |
| 8259 (`interrupts.c` 165-282) | the two masks | `init_pic`, `enable_io_devices`, `disable_io_devices` | timer, PS/2 |
| timer (`pit.c`, `pit_handler.asm`) | `millis`, `millis_fractions` (64-bit fixed point in two words) | `init_timer`, `timer_handler` | read by the PS/2 driver without a lock |
| PS/2 controller and devices (`drivers/ps2/`) | `ps2_status`, `devices`, and what is on the wire | `init_ps2_controller`, `ps2_reset_devices`, `ps2_detect_devices` | the devices answer whenever they like |
| keyboard (`drivers/ps2/ps2_keyboard.c`) | command queue, `fail_count`, `flags`, `fullcode`, `bytes_to_receive` | `init_ps2_keyboard`, `keyboard_handler` | runs as an interrupt handler |
| printing (`console.c` 43-344) | none | `vsnprintf` and the functions around it | everyone; into the console's buffer |
| console (`console.c`) | per console: window, cursor, line buffer, attribute | `cputc`, `cwrite`, `cflush`, `cscroll`, escape sequences, `vcprintf` | keyboard handler and kernel code |
| VGA (`drivers/vga/vga.c`) | `vga_buffer`, the screen, `buffer_sync` | `vga_print_char`, `vga_copy`, `vga_fill`, `vga_flush` | console |
| ACPI (`acpi.c`) | `RSDP`, `RSDT`, `FADT` | `init_acpi` | PS/2 controller |
| boot loader (`boot.asm`) | the cylinder/head/sector counters | reads the image, enters protected mode | BIOS |

What is hard in it, and what must hold:

* **Memory is recycled by type-less words.** A frame is a page, a page table, a
  directory or a node of the free list in turn, and the same words are read by
  user code, by the MMU and by `malloc_page`. No frame may have two owners,
  none may be lost, and no word left from one life may be read in the next.
* **The page-fault handler runs between any two user instructions**, turns the
  MMU off, and must mount what faulted or end the process; its loop, and those
  of `free_VAS`, must end; the MMU must never be on with a directory that does
  not map the kernel.
* **Processes end and are restarted for ever**, so what one run takes the end
  of it must return.
* **The ring** is edited while a process of it runs.
* **Devices answer late, not at all, or twice**; their answers are matched to
  questions only by order, and a time-out is followed by a retry.
* **Interrupt handlers** interrupt the initialisation that sets them up, and
  read-modify-write state of two words that others read without a lock.
* **The first switch to a process** runs with interrupts on and the `Process` as
  its stack.
* **A question to the PS/2 controller** is answered in the same buffer that keys
  come in, without a mark which is which.
* **Arithmetic at the edge**: unsigned differences, counters that loops share,
  the sum of a pointer and a length, cylinders, heads and sectors.
* **Capacity limits**: page space, arena, process region, command queue, console
  buffer.

## 2. The modules, and how they correspond to the code

| module | models | built on |
|---|---|---|
| `KernelPanic` | `kernel_panic`: the flag `halted`, after which nothing happens | |
| `FramePool` | what an allocator promises (abstract) | |
| `FrameAllocator` | `malloc_page`, `calloc_page`, `free_page`; implements `FramePool` | `KernelPanic` |
| `RoundRobin` | what the scheduler promises (abstract) | |
| `Scheduler` | `init_scheduler`, `alloc_process`, `schedule_process`, `scheduler_next_process`; implements `RoundRobin` | `KernelPanic` |
| `Kernel`, `KernelProperties` | boot from `setup_kernel_paging` on, processes, address spaces, page faults, exit | both of the above, extended |
| `DisjointBlocks` | what an allocator that takes nothing back promises (abstract) | |
| `ImmortalAllocator` | `malloc_immortal`, `calloc_immortal`, called by the kernel and by a handler; implements `DisjointBlocks` | |
| `MemoryMove` | `memmove` | |
| `BootLoader` | the loop of `boot.asm` that reads the kernel | |
| `AcpiTables` | `init_acpi`: the search for the root pointer and the FADT | |
| `Ps2Wire` | the one-byte output buffer of the controller and the devices behind it | |
| `Ps2Controller` | `init_ps2_controller` | `Ps2Wire`, `AcpiTables` |
| `Ps2Devices` | reset and identification of the two PS/2 devices at boot | `Ps2Wire` |
| `Ps2Boot` | the three one after the other, on one wire, while somebody may type | `Ps2Controller`, `Ps2Devices` |
| `Keyboard` | command queue, `init_ps2_keyboard`, `keyboard_handler` | `Ps2Wire` |
| `Timer` | the clock, its interrupt, and the polling waits that read it | |
| `Interrupts` | descriptors, trampolines, the two 8259s, `kernel_entry`'s order of setting them up, taking an interrupt and returning from it, the switch to a process | `KernelPanic` |
| `Machine` | interrupts that tick the clock, and the waits of the kernel and of the keyboard's handler in between | `Interrupts`, `Timer` |
| `Printf` | `vsnprintf` and `bound_string_format_integer` | |
| `Vga` | the page, the screen, and `buffer_sync` between them | |
| `Paper` | an endless roll of lines, what a console promises (abstract) | |
| `Console` | `cputc`, `vcprintf`, `clear_console`, `cflush` with wrapping, scrolling, backspace and escape sequences | `Vga`, `Paper` |
| `MC*` | values of the constants for TLC; `MCMemory` and `MCConsole` also put components that share nothing into one run, in which a behaviour exercises one of them | |
| `*_proofs` | theorems and their proofs (`Memory_proofs`: those about `ImmortalAllocator`, `MemoryMove` and `BootLoader`; `Machine_proofs`: about `Timer` and `Machine`; `Console_proofs`: about `Printf` and `Console`) | the module named; `Kernel_proofs` also on those of `FrameAllocator` and `Scheduler` |

Operators and variables carry the names of the C functions and variables they
translate. An operator whose name ends in what a bug would do
(`free_page_drops_list`, `GrowingShort`) is a mutant: no specification uses it;
put in place of the definition below it, it makes one property fail, which shows
that the property has teeth. `PROJECT.json` lists which mutant breaks which
property, and the source lines of every definition.

**`FrameAllocator`.** Physical memory is counted in pages. `ram` is the contents
of the page space, a function from frames to tables of `Word`s, because a link
of the free list is a word of a free frame (`memmgnt.c` 110-112, 129-130) and
the same word is a page-table entry to the MMU. A word keeps the three fields
the kernel varies (present, user, address). `holders` is a history variable that
counts how often each frame is out; the clients in `FrameNext` free only what
they hold and write only what they hold, which is what `paging.c` does, as
`Kernel` checks. `Exhausted` is the panic of line 115.

**`Scheduler`.** A node is its index in the region carved by `alloc_process`;
`next` and `prev` are the links. `free_process` is never called, so its list is
left out.

**`Kernel`.** `pc` says where the single processor is. One action stands for the
code between two calls of the frame allocator: `create_VAS` is
`create_VAS_pdt`, `create_VAS_stack_pt`, `create_VAS_stack`; the loop of
`pagefault_handler` is `grow_stack`, `grow_done`; the two nested loops of
`free_VAS` are `free_VAS_next`, `free_pagetable`, `free_VAS_table`. User code is
`user_store` (any word of `ClientWords` to any page the MMU lets through, words
that look like table entries among them), `user_fault` (any page it may not
touch) and `exit`. `paging` is `cr0.PG`; the switch to user code is `resume`.
Byte addresses (`cr2`, `lowest_stack_page`) are page numbers; the module's header
says why this loses nothing. `orphans` is a history variable: the directories
whose process has ended. `Owners` (`KernelProperties`) lists every place that stands
for a frame at the step the kernel is at.

**`ImmortalAllocator`.** A call is five steps: `pushfd_cli`, `look` (round up and
compare), `carve` (the write of `current`), `popfd`, and `memzero` for
`calloc_immortal`. `interrupt` may come wherever the flag is on, and the handler
may call too (none does today; the `cli` is there for it). `dirty` is the set of
bytes that are not zero, `promised` what the owner of each block may rely on.
Only the second arena appears, since the loop of line 66 begins at it.

**`MemoryMove`** copies byte by byte over one small memory, for every source,
destination and length. **`BootLoader`** keeps the registers of the loop and what
lies in memory behind the boot sector, in sectors.

**`AcpiTables`, `Ps2Controller`, `Ps2Boot`.** Memory is a function from paragraphs
to what a search can see there. A command to the controller that is answered and
the read of the answer are two steps, and any byte that arrives between them is
read instead. `Clocked` says which device may send at all: the clock lines are
what the driver uses to keep the devices quiet. What a null `RSDP` leads to is
any outcome.

**`Ps2Devices`.** `pc`, `channel` and `try` are the control of
`ps2_reset_devices` and then `ps2_detect_devices`, with one action per send and
per read. The devices answer a byte with the bytes a keyboard or mouse answers,
or with `RSD`. A read may time out when nothing is left to come, and, unless
everything is `prompt`, at any moment; a send may time out too then, and leaves
the routing of `WRITE_CHANNEL1_DEVICE` in force. Which channel a byte came from is part of
the wire and not seen by the driver, which never looks at the bit that says so.

**`Keyboard`.** The handler of one interrupt is one action (it runs with
interrupts off): `acknowledged`, `resend`, `prefix` or `code`, the four branches
of the chain in `keyboard_handler`. `buffer`, `head`, `tail` are the queue of
channel 0, `fail_count`, `bytes_to_receive`, `fullcode`, `flags` the handler's
statics. One scan code of each shape stands for the table of
`ps2_keyboard_keys.c`. What becomes of a key (`send_make_key` prints it) is left
out: it is appended to `decoded`.

**`Timer`.** Every read of `millis` and of `millis_fractions` in a wait is a step
of its own, the handler another; `F`, the number of fractions in a millisecond,
is a parameter. `now` is the exact time. Apart from the state, `init_timer`,
`reload_value` and `mils` are what the functions of `pit.c` make of a frequency: the
number the chip counts down from, and what a tick adds to the clock.

**`Interrupts`.** `pc` is the statement of `kernel_entry` about to run and
`step` the field of a descriptor about to be written
(`direct_set_interrupt_handler` writes five bit fields one by one). A gate keeps
both halves of its target, so that one that is half written can be told. The
trampolines are laid out as `generate_trampolines` lays them out, one after the
other, and an interrupt pushes the vector of the code that lies where its gate
points. `frames` is the stack of interrupts taken, each with the flag `iret`
restores and the words below the saved registers. `restore_context` makes the
`ctx` of a `Process` the stack and takes fourteen words from it one pop after the
other; `intact` tells whether an interrupt has meanwhile pushed more than was
taken. User code has an empty kernel stack, for that is what `tss.esp0` does.
Short stretches under `cli` (`malloc_immortal`) are left out here: they only
forbid interrupts.

**`Machine`.** The clock of `Timer` goes on only by an interrupt that a device
raised, that was unmasked and deliverable, and whose gate leads to
`timer_handler`. The kernel waits while it looks for devices and when it sends
the keyboard its first command; the keyboard's handler waits with interrupts off.
The module extends both and joins their actions, so that every step of the clock
and of the kernel's waits is one of `Timer`'s, and what is proved of `Timer` holds
here; the handler's wait is a second instance of it.

**`Printf`.** One action is one round of the loop of `vsnprintf`: a plain
character, or a directive with its padding. A format is a sequence of characters
and of directives with their parts read off, and its arguments match it
(`Matched`): what `printf` does otherwise is undefined. `memory` is the buffer and two
bytes on each side of it; `end` wraps as the pointer does.

**`Console` and `Vga`.** One console covers the whole page, as in the program
(`console.c` 15-32). `here` is its `Console` structure with its buffer; `Vga`'s
`page` is `vga_buffer`, `screen` the memory the adapter shows. A round of the
loop of `cflush` is one action, with the `scroll_if_below` before it and the
branch for the byte it meets. The same bytes go to a `Paper`, which knows lines
but neither pages nor scrolling; the property compares what the screen shows with
its last lines. Two colours and three letters stand for all.

## 3. What the runs check

Passing runs:

| run | instance | properties |
|---|---|---|
| `memory` | 4 frames of 2 words; an arena of 5 bytes, sizes 1 and 3, alignments 0 and 4; a memory of 5 bytes; an image of 10 sectors on 3 cylinders of 2 heads and 2 sectors; a region for 5 processes of 9, nodes of 10 | `FreeListComplete`, `PanicsOnlyWhenUsedUp`, `ImplementsPool`, `HeldContentsUntouched`; `ImplementsArena`, `InterruptsStayOff`, `ContentsKept`; `MoveIsCopy`; `ImageInOrder`; `ImplementsRoundRobin` |
| `kernel` | 9 frames, tables of 3 entries (user code page, guard page, stack of 3 pages, an unmapped third), 2 processes | `KernelTypeOK`, `EveryFrameHasOneOwner`, `StackIsContiguous`, `OneAddressSpace`, `KernelStaysMapped`, `TablesStableWhilePaging`, `FaultIsResolved`, `KernelReturnsToUser`, `OneRing` |
| `ps2_boot` | 5 firmwares, 5 controllers, 4 paragraphs to search; 3 attempts, 2 bytes not understood, one key; anything but a mouse on channel 1, in time; and a slow keyboard on a busy controller | `FirstSoundTables`, `StatusIsTrue`, `ConfiguredForHandler`, `KeyboardFound`, `BootEnds` |
| `keyboard` | queue of 8, threshold 3, 7 keys (all shapes), 3 presses or releases, 4 bytes not understood | `KeyboardTypeOK`, `AcceptedInOrder`, `StallsOnlyAtThreshold`, `KeysDecodedInOrder` |
| `machine` | 3 lines, 7 vectors, with and without a keyboard, both experiments of `experiments.c`; 8 fractions, ticks of 5 5/8 ms, time-out 1/2 ms, 4 ticks | `DeliveredIsHandled`, `HandlersDoNotNest`, `IretFindsItsFrame`, `RequestIsServed`, `RestartUndisturbed`; `DeadlineIsSound`, `NoEarlyTimeout`, `WaitEnds`, `HandlerSendsInTime` |
| `console` | a page of 2 by 2, a buffer of 6, 3 letters, 4 texts, 6 calls; words of 8 bits, every set of flags, fields too short, fitting and too long | `ScreenShowsText`; `TextIsCut`, `NumbersReadBack` |

The properties' comments in the modules say what they mean and which lines they
are about. `KernelTypeOK` and `KeyboardTypeOK` are type invariants that bound
something a loop counts; the types of the frame allocator, the scheduler, the timer,
`memmove` and the boot loader are only proved, not run. Of the properties in this
table, section 4 says which are proved for every size as well.

**Why the bounds are enough.** *Frames:* four frames allow a list of three, with
a head, a middle and an end, while another frame is out and the edge is reached;
the proofs cover every size. *Arena:* five bytes and an alignment of four make
every case of the comparison occur: a fit to the last byte, one byte too many, and
a rounding past the end. *memmove* and *boot loader:* every overlap of every
length within five bytes; ten sectors cross the ends of a track, a head and a
cylinder. *Kernel:* nine frames are one more than the largest
address space and the kernel's table need, so a directory is leaked, frames are
recycled as tables after they were pages, and memory runs out, all within the run;
three entries per table are the fewest with a stack that grows twice and a
directory entry that stays absent. *Scheduler:* five nodes have neighbours that
differ on every side of an insertion. *PS/2:* `GarbledBound` is one less than the
attempts in `ps2_boot`, the most for which the driver can succeed; in
`keyboard` it is one more than the threshold, so that the threshold is reached
and passed. In `ps2_boot` one thing at a time is out of the ordinary (`Ordinary`,
`OneFault`): an unusual firmware meets an ordinary controller or the other way
round (a root pointer in either region or both, behind a damaged one or nowhere; a
damaged FADT before a sound one, or none that is sound; a damaged root table), and in
the slow world one byte is garbled or one key pressed; a key
alone comes at every step. Three presses let any key be followed by any other, and a key by one
of another shape and back; a leak of state from one key into the next needs two.
*Timer:* the low word wraps with three values of the carry pattern, and a wait may start at
any of them. `TickBound` ends the run, and the waits stop two ticks before it;
the theorems about `Timer` have no such bound in their length.
*Interrupts:* the vectors are the ones something uses and one exception nobody
handles; nothing but the ticks is counted. Experiment 0, which
`entry.c` 42 does not choose, is in it because it is the only code that changes a
gate after its line was unmasked. *Console:* two lines of two letters are the
least on which wrapping, scrolling and the two copies of a line differ; six calls
fill the page and scroll it more than once. *Printf:* each number is printed alone,
with all flags, and one format mixes the other conversions, with every `n` from
none to more than enough.

**Fairness.** `Kernel` assumes the processor keeps executing kernel code
(`WF(KernelStep)`); user code may loop for ever, so nothing is assumed of it.
`Ps2Boot` assumes the kernel
goes on and a byte on its way arrives; of the devices it does not assume that
they answer, of the controller it does, for the code waits for it without a
time-out. `Machine` assumes that kernel code and handlers go on; that the timer
keeps asking for interrupts (`WF(device(0))`; other devices may stay silent);
that a pending interrupt is taken when nothing of higher priority is, strong
fairness, since the timer may come first any number of times but, its tick being
longer than its handler, not before every instruction; that a wait of the kernel
is not interrupted before every instruction; and that the controller takes a
byte sooner or later (`SF(taken)`). The last is needed only by the sends of the
keyboard's handler, where interrupts are off and the clock stands still: without
it TLC finds the behaviour in which the handler waits for ever, and
`RequestIsServed` fails. It is the one promise the code asks of the hardware and
does not protect itself against. `Keyboard` takes every send of the handler to
succeed, which is `HandlerSendsInTime`.

**Deadlock** is checked everywhere but in `machine` and `interrupted_restore`, where
a panic stops the machine and, in the former, the bound on ticks stops the waits.
`halted`, `done`, `rest` and the like are explicit stuttering steps.

## 4. What is proved

By TLAPS, for every value of the constants that satisfies the named assumptions.

**`FrameAllocator_proofs`** (from `PageSpaceAssumption`, `ClientWordsAssumption`):
`TypeCorrect`, `FreeListWhole`, `PanicIsTight`, `AllocatorImplementsPool`,
`HeldContentsKept`. The inductive invariant is `FrameTypeOK` with the list made
explicit: there are `n` and an enumeration of the returned frames that the
links in memory follow. `FreeListComplete` alone fixes `n` as a cardinality; the
proof carries the enumeration, shows that a push puts one element in front and
a pop removes the first, that a client's store to a held frame changes no link
because no held frame is on the list, and turns the enumeration into a
cardinality at the end. That an allocated frame was nobody's (the step of the
refinement) follows from the head of the list being a returned frame.

**`Scheduler_proofs`** (from `RegionAssumption`): `SchedTypeCorrect`, `RingIsOne`
and `RingIsRoundRobin`. The invariant is `OneRing` itself with the types; a switch
rotates the enumeration by one, an insertion appends to it. Without the types, nothing
says that the new node is not on the ring already. That the ring implements
`RoundRobin` needs the value of `RingOrder`, a recursive function that follows
`next`, at every length: the ring of the invariant is a function of the kind its
definition asks for, so there is one (`StepsExist`), and where one first differed from
the ring it would not follow `next` (`StepsFollowRing`, by `LeastNumber`: a set of
numbers that is not empty has a least one, which is induction without an operator
as a parameter). The theorem states `ImplementsRoundRobin` of `Scheduler`; the
`memory` run checks it through `MCMemory`'s instance of that module.

**`Kernel_proofs`** (from the two above, and `PagingAssumption`: a table has at
least the two entries the kernel uses, and the tables of the identity map lie
below the page space): `KernelTypeCorrect`, `FramesHaveOneOwner`,
`SpacesDoNotPileUp` (`OneAddressSpace`), `StackHasNoGap`, `KernelIsAlwaysMapped`,
`NothingMovesWhilePaging`, `FaultsAreResolved`, `KernelKeepsOneRing`, `KernelIsRoundRobin`,
`KernelFreeListWhole` and `KernelImplementsPool`, for every page space, size of a
table, number of processes and user code. Half of the kernel's steps are inside
`create_VAS`, `pagefault_handler` and `free_VAS`, with an address space half built or
half freed. `FramesHaveOneOwner` is about those as well: it counts locals of
`create_VAS` among the owners, and entries as far as `free_VAS` has not come to them.
The others are claims about the moments user code runs or a fault has been handled.
None is inductive. `KernelInv` says what is true in between:
- `Locals`: which local and register is in use at which `pc`, and in which range;
- `Spaces`: only the current process has a directory, and only from the end of
  `create_VAS` to the end of `free_VAS`;
- `Tabled`: what the words of every table in use are, `free_VAS`'s counters included:
  below `Lowest` nothing is present, from there on an entry maps a stack page;
- `Owned`: the frames handed out are, without overlap, the tables (`Structure`), the
  leaked directories (`orphans`) and the stack pages not yet returned;
- `Distinct`: no two tables share a frame; and `Faults`: a stack fault is below what is
  mounted, so the loop that mounts pages goes down to it.

`Tabled` rests on `Owned`, because a user store, a free or a `calloc_page` must not hit
a table; `Owned` rests on `Tabled`, because `free_VAS` frees what the words say. The
lemmas of the frame allocator are used as its contract: `Kernel` keeps it
(a frame that is freed is held), so the list stays whole under page tables as under
any client, and the kernel implements `FramePool` itself. In the same way, the ring is
kept by what `Scheduler_proofs` shows of one insertion and one switch, and the kernel's
processes take turns as `RoundRobin` says (`KernelIsRoundRobin`).

**`Memory_proofs`**, about the immortal allocator (from `ArenaAssumption`): `InterruptsOffInCalls`
(`InterruptsStayOff`), `BlocksKeepContents` (`ContentsKept`), and
`ImmortalImplementsArena`, that the blocks are disjoint, aligned and inside the
arena, for every arena, size and alignment whose rounding stays in the address
space. `ImmortalInv` says that a caller between its `cli` and its `popfd` is the one
that runs, with interrupts off, and that it restores the flag its caller may
have (`OneAtATime`); hence what it read of `current` is still true when it
carves (`ReadIsFresh`), every block lies below `current` (`Stacked`), and a block
that its caller is still clearing is in no other caller's hands (`OwnersApart`).
Without the first part a handler's call between `look` and `carve` would hand out the
same bytes twice.

About `MemoryMove` and `BootLoader`: `MoveTypeCorrect`, `MoveCopies` (from
`MemoryAssumption`), for every size of memory. The invariant says which part of the destination is
copied, and that of the source the part still to be copied is as it was: that
is where the direction of the loop enters. `LoaderTypeCorrect`, `LoadedInOrder` (from
`DriveAssumption`), for every geometry, disk and length of the image. The invariant
relates the place `es` to cylinder, head and sector, which the property does
not mention; it holds for disks with fewer sectors than the loop assumes since
the read beyond the last one fails.

**`Machine_proofs`**, about the clock (from `TimerAssumption`): `TimerTypeCorrect`,
`NoTimeIsLost`, `DeadlineHolds`, `TimeoutsAreNotEarly`, for every length of a tick,
time-out and number of fractions. Neither of the last two is inductive: the invariant
adds what a wait between its reads knows, that the `millis` it read or compared is not
ahead of the clock (`NotAhead`), and of which moment the first word of the deadline is
(`ReadMillisKept`). With it, `ms # millis` at the second look can only mean that
the clock has passed the deadline.

About `init_timer`, whose numbers are too large for TLC: `NearestReload` (the right
number for every frequency from 55 to 65535, 180 among them) and `SlowRatesAreCut`
(from 18 to 54 it is not: the first quotient is cut to sixteen bits, and the timer is
much too fast); `TickIsTrue`, how exactly a tick adds the time that passed, for every
`F` and every number to count down from; with the `F` of the code, 2^32,
`TickFitsItsWords` (no product overflows) and `KernelTick` (between 5.5 and 6 ms).
`TickIsAMillisecond` shows for the frequencies from 55 to 999 that `interrupt_millis`
is not 0, the one conjunct of `TimerAssumption` that the types do not give. The
quotients are bounded by their defining inequalities, multiplied out, since the
divisor is a variable.

About interrupts (from `InterruptsAssumption`, `TimerAssumption`, and
`MachineAssumption`: a time-out is not zero): `InterruptsAreHandled`
(`DeliveredIsHandled`), `HandlersStandAlone` (`HandlersDoNotNest`), `IretIsRight`
(`IretFindsItsFrame`), `RestartsUndisturbed`, `HandlerAlwaysSends`
(`HandlerSendsInTime`) and `MachineImplementsTimer` (`NoEarlyTimeout`).
`InterruptsInv` says, for each step of `kernel_entry` and each field of a descriptor
that is being written, what the gates lead to (`GatesLead`, `Written`), that a line
is unmasked only when gate and handler are there (`LinesReady`), and where interrupts
are off (`OffWhen`). That a gate leads to its own vector's trampoline needs the
layout of `generate_trampolines`, a recursive function: the proof exhibits the
function that the definition asks for, so that its value is known at every vector.
Each step of the machine is a step of `Interrupts` and one of `Timer` or of neither,
so that `InterruptsInv` and `TimerInv` are invariants of the machine by the lemmas about
each. `HandlerSends` adds that in the wait of the keyboard's handler the deadline
is that of the standing clock, which can never be passed.

**`Keyboard_proofs`** (from `KeyboardAssumption`: the queue is longer than the seven
commands put into it, the threshold fits its byte): `KeyboardTypeCorrect`,
`CommandsTakenInOrder` (`AcceptedInOrder`), `StallsAtThreshold`
(`StallsOnlyAtThreshold`) and `KeysAreDecoded` (`KeysDecodedInOrder`), for any
number of keys of every shape and of bytes asked for again. The controller gives the
handler one byte at a time without a mark whether it answers a command or
is part of a key. The proof sees what is waiting and what is still to come as one
stream (`OnWay`), with at most one answer, in front. `CommandsInv` relates the answer,
the head of the queue, the fail counter and what the keyboard has taken: the byte the
answer is about is the one at the head (`Asked`), and nothing is on its way before
the first command (`Before`). `KeysInv` says that there is a stream of scan codes, laid
out in the codes of the keys typed (`Laid`), of which what is on its way is the rest
(`Ahead`), and that the statics of the handler are what the bytes of the
current code, read so far, make of them (`Reading`, `DecoderAt`). Neither can do without
the other: without `CommandsInv` an answer could turn up inside a code, without
`DecoderAt` the last byte of one code could be taken for the first of the next.

**`Ps2Boot_proofs`** (from `FirmwareAssumption`, `ChipsAssumption`, `Ps2Assumption`):
`FirstTablesTaken` (`FirstSoundTables`), `StatusesAreTrue` (`StatusIsTrue`),
`HandlerFindsController` (`ConfiguredForHandler`) and `KeyboardIsFound`
(`KeyboardFound`), for every firmware, controller and first configuration. `AcpiInv` is
about what was passed over: no paragraph before `ebda_p` and no entry before the `i`-th
is sound; and a search ends without a table only at the end of the second region, or of
the list (`SearchOver`). The driver of the controller takes whatever byte is there for the answer to
its last question, so the invariant names, for each step at which it reads, the byte
that is to come (`Awaited`), and says that where nobody types nothing else is on the
wire (`OnlyAnswers`). From it follow what the configuration is (`ConfigKnown`, with the
lemmas `WithBit` and `WithoutBit`: one bit of a byte changes and no other) and what is
known of the channels (`StatusKnown`), step by step. The one byte left over from before
is the reason that `OnlyAnswers` starts behind the read that empties the buffer.

`KeyboardIsFound` has two hypotheses about what the machine is given: no mouse is on
channel 1 (`NoMouseBehind`; a mouse there announces itself after its self test, and
`ps2_mouse` shows what comes of the byte), and the devices ask for fewer bytes again
than there are attempts (`EnoughAttempts`). Its invariant (`DevicesInv`) sees the wire
as one stream from the channel the driver is at: at rest nothing is on it, and while
the driver waits exactly what is left of the answer it waits for (`Replied`, `Coming`).
That the attempts suffice needs their number related to the bytes not understood so far
(`try <= garbled + 1`), and that channel 0's result survives channel 1's detection
needs to be said for every later step (`Identified`). It starts where the controller's
initialisation ends, by the one step from which channel 0 can be OK (`DriverStarts`),
and so rests on `OnlyAnswers` and `StatusKnown`.

**`Console_proofs`**, about `Printf` (from `PrintfAssumption`): `TextIsAlwaysCut`
has one hypothesis (`BuffersEnd`): no buffer reaches the end of the
address space with its `n`; `sprintf` is the run of a call that does. Its invariant says
what memory holds in the middle of a call (`Stored`: what was produced so far, up to
`end`, and nothing else) and that the arguments that are left are those of the items
that are left. What is produced is a sequence of characters whatever the flags, the
width and the precision, negative ones included (`PrintedText`), and the numerals rest
on repeated division coming to an end within a word's digits (`NumeralIs`).

`NumbersAlwaysReadBack` (`NumbersReadBack`) needs no such hypothesis: it is about what
is produced, stored or not. Its invariant is the arguments that are left
(`ArgumentsLeft`); the rest is about one directive. The property reads a text as its
reader does, from the last character that is no blank, digit by digit; the proof
has the divisions that made the digits, and shows by induction on the
digits that what was read so far is what the division at that place had left
(`ValueIs`), zeros in front adding nothing. Sign, prefix and numeral are
where the property looks for them because no digit is a blank (`LaidOut`). That the width
is reached and not passed is arithmetic about the three loops that share the
counter: exactly one of them gets the room that is left (`RoomIsShared`), the
zeros of the second only where the precision asks for none. Last, the word that is formatted
is the number the argument stands for, through the narrowing of `h` and the negation in
`unsigned` of a negative one, remainders of 2^w both (`SignedShort`, `SignedWord`).

About `Console` (from `PageAssumption`, `PaperAssumption`: the roll has as many lines as
a page or more, and `ConsoleAssumption`): `ScreenAlwaysShowsText` (`ScreenShowsText`),
for every page, buffer, set of letters and of texts, and every length of a behaviour.
The property speaks of the moments when nothing waits; in between, the screen is behind
what was written by whatever is in the buffer, by a byte that `cputc` holds back, and by a
scroll. `ConsoleInv` says by what exactly (`Kept`): the buffer, from `pos` on, holds
whole items (`Queued`), and there is a sequence of sheets, the first of which is what
the page shows now (`OnPaper`), each the result of writing one more item, the last
what was written. So a round of `cflush` has to be right for one item only
(`RoundShown`, `EscapeShown`), on a page that shows some sheet: the page has
moved up exactly when the sheet has (`RolledUp`), and a line of the roll that the page has
not reached yet is blank (`Roll`), as is the row that `cscroll` fills. That `here`
shows the *page* in ordinary memory, and that the screen agrees with it whenever no one writes,
are two parts of the invariant; a backspace that reads the screen is the reason for
the exception in the property. A text of several items is many items at once
(`KeptWithText`): `FlattenSeq` and `WriteAll` are recursive functions, whose values are
known by exhibiting them (`SpelledOneByOne`, `WrittenOneByOne`).

The bounds that keep the instances finite (`TickBound`, `EventBound`, `GarbledBound`,
`WriteBound`, with `LineBound` for the lines it can fill) are any natural numbers in the theorems: they limit how long a behaviour is, by no
fixed amount.

Only model-checked is liveness: `KernelReturnsToUser`, `BootEnds`, `RequestIsServed`,
`WaitEnds`; the provers have no rule for fairness and `ENABLED`.

## 5. Where the program and its documentation part

Each of these is a run whose property states what the program says and which TLC
refutes.

* `node_overrun`: the region is reserved in units of `Process` and carved in units
  of `SchedulerNode`; the fifteenth node ends past `scheduler_end`
  (`scheduler.c` 26, 40), and the sixteenth process is refused although `PID_MAX` is 16.
* `leaked_directory`: `free_VAS` leaves the page directory, so every restart of a
  process costs a frame for good (`paging.c` 163-173).
* `ps2_mouse`: the byte a mouse sends after its self test is not read by the
  reset and shifts every later answer: the keyboard beside it is not identified,
  so `entry.c` 35-37 does not initialise it.
* `ps2_late_answer`: an answer that comes after its time-out answers the next
  question instead, possibly to the other channel.
* `interrupted_restore`: the first `restore_context` runs with interrupts on and
  the stack inside the `Process` (`process.c` 53, `boot.asm` 165-177); a key
  pressed between two pops overwrites the entry point and the arguments that
  `exit` starts the process from again. The later switches are safe
  (`RestartUndisturbed`).
* `sprintf`: `vsprintf` passes `SIZE_MAX`, and `s + n` wraps for every buffer:
  nothing of the text is stored, and a NUL is, two bytes before the buffer
  (`console.c` 177, 336-341, 396). Nothing in the kernel calls it.

Seen while modelling, and not the subject of a run:

* `malloc_page` panics when `frame_edge` reaches `PAGE_SPACE_END - PAGE_SIZE`, so
  the last page is never handed out (`memmgnt.c` 114); `PanicsOnlyWhenUsedUp`
  and its theorem say so exactly.
* A backspace right after the bottom line filled up reads the screen, which is
  one scroll behind the page, and erases the wrong cell (`vga.c` 44-46);
  a text longer than the rest of the buffer is cut and a NUL is shown
  (`console.c` 378-389). `ScreenShowsText` excepts what comes after either.
* The codes 39 and 49, "default colour", fall outside the test of `console.c`
  475-476 and do nothing.
* At the resend threshold the keyboard driver drops a command and sends nothing
  more (`ps2_keyboard.c` 385-393): the queue stays as it is
  (`StallsOnlyAtThreshold`).
* A key pressed while `init_ps2_controller` runs is taken for an answer
  (`ps2_controller.c` 39-48): a working controller may be left unknown or configured
  from a scan code. `StatusIsTrue` and `ConfiguredForHandler` except it.
* The self test of some controllers resets the command byte, which is then not
  written in full: translation stays on, and `ConfiguredForHandler` excepts them.
* Without a root pointer `init_acpi` follows NULL (`acpi.c` 63).
* `popfd` restores an undefined word when built with GCC 15 or later
  (`interrupts.h` 54-56).

## 6. What is not modelled

* User code overwriting the kernel's image through the identity map (the user
  half of the first 4 MiB): nothing the kernel promises would survive it.
* Branches no caller reaches: `mount_page` on an absent directory entry, large
  pages, `free_process`.
* A page fault in the kernel itself, which panics: in the model it does not
  arise, since the kernel runs with paging off whenever it reaches for frames.
* The values of saved registers, and the text of messages.
* `millis` wrapping after 49 days; all waits are at boot.
* Non-maskable and spurious interrupts, and lines nobody enables but the mouse's.
* Several consoles on one page; the program has one.
* How `vsnprintf` reads flags and numbers off the text of a format; a format that
  ends inside a directive.
* `interrupt_frequency` (`pit.c` 41-44), which nothing reads, and the bytes sent to the
  timer chip. `memcmp`, `strlen` and `memset`: single loops without state.
* The rest of `boot.asm` before the kernel: straight-line set-up of segments and
  of the video mode.
* Key code tables, names of devices, logging, and the macros of `ports.h`,
  `utils.h`, `logger.h`. The user code of `experiments.c` is any user code to
  `Kernel`.

## 7. Plan

Nothing of what this document set out to do is left. Modelled: everything listed in
section 2. Proved: every safety property of the passing runs, and the arithmetic of
`init_timer`. The temporal properties under fairness stay with TLC, as section 4
says. Every proof also goes through with a third of the provers' usual time-outs.
