----------------------------- MODULE Interrupts -----------------------------
(***************************************************************************)
(* The interrupt descriptor table, the two 8259 controllers, and the way   *)
(* an interrupt takes into its handler and back: interrupts.c, the         *)
(* trampolines it generates, collect_ctx and restore_context of boot.asm,  *)
(* and the order in which kernel_entry (entry.c 19-43) sets handlers up,   *)
(* unmasks lines and turns interrupts on.                                  *)
(*                                                                         *)
(* Descriptors are written one bit field at a time, so that an interrupt   *)
(* may come between any two of them.  Only the vectors somebody uses are   *)
(* kept; a gate is its type, its privilege, the two halves of its target,  *)
(* and its present bit.                                                    *)
(***************************************************************************)
EXTENDS Integers, Sequences, SequencesExt, FiniteSets, KernelPanic

CONSTANT Experiments   \* what experiment may be called with; entry.c 42 says 1

ASSUME InterruptsAssumption == Experiments \subseteq {0, 1} /\ Experiments # {}

DIVISION_ERROR_VECTOR == 0
GP == 13
PF == 14
SYSTEM_TIMER_VECTOR == 32
KEYBOARD_VECTOR == 33
MOUSE_VECTOR == 44
EXIT_VECTOR == 49
Vectors == {DIVISION_ERROR_VECTOR, GP, PF, SYSTEM_TIMER_VECTOR, KEYBOARD_VECTOR,
            MOUSE_VECTOR, EXIT_VECTOR}

EXCEPTION_COUNT == 32

\* What unwind_context takes from the stack before iret, in words.
CONTEXT_WORDS == 14
NULL == "NULL"

\* The request lines in use: timer and keyboard, and the mouse on the second controller.
Lines == {0, 1, 12}
CASCADE == 2

\* IODevice: the lines of one controller, and whether it is the second (0x100).
SYSTEM_TIMER == [slave |-> FALSE, lines |-> {0}]
KEYBOARD     == [slave |-> FALSE, lines |-> {1}]

VARIABLES
  pc, step,       \* where kernel_entry is, and in which field of a descriptor
  idt,            \* [vector -> gate]
  handlerTable,   \* [vector -> handler or NULL]
  masked,         \* the mask registers: lines of master and slave that are masked
  base,           \* the vector of line 0
  automatic_EOI,
  pending,        \* lines that ask for an interrupt
  in_service,     \* lines whose interrupt has begun and not been ended
  interrupts_on,  \* the processor's interrupt flag
  frames,         \* interrupts taken and not returned from, the last one last
  started,        \* history: user code has run
  intact          \* the fields of the Process below its ctx are as they were set

pic      == <<masked, base, automatic_EOI>>
tables   == <<idt, handlerTable>>
requests == <<pending, in_service>>
process  == <<started, intact>>

interrupts_vars ==
  <<pc, step, tables, pic, requests, interrupts_on, frames, process, halted>>

-----------------------------------------------------------------------------
(***************************************************************************)
(* Trampolines: eight bytes for each of the 256 vectors, one after the     *)
(* other: push a dummy error code (cs) where the processor pushes none,    *)
(* push the vector, jump to collect_ctx, and a byte of padding in the      *)
(* place of the first push.                                                *)
(***************************************************************************)

\* Mutant: the page fault missing from the list.
has_error_code_no_pf(vector) == vector \in {8, 10, 11, 12, 13, 17, 21, 29, 30}

has_error_code(vector) == vector \in {8, 10, 11, 12, 13, 14, 17, 21, 29, 30}

\* The exceptions for which the processor itself pushes an error code.
PushesErrorCode == {8, 10, 11, 12, 13, 14, 17, 21, 29, 30}
ErrorCode(exception) == IF exception \in PushesErrorCode THEN 1 ELSE 0

TrampolineLength(vector) ==
  (IF has_error_code(vector) THEN 0 ELSE 1) + 7 + (IF has_error_code(vector) THEN 1 ELSE 0)

\* The offset at which the code for a vector is laid down.
generate_trampolines[vector \in 0 .. 255] ==
  IF vector = 0 THEN 0
  ELSE generate_trampolines[vector - 1] + TrampolineLength(vector - 1)

\* Targets of a gate: an offset into the trampolines, or timer_handler, which is elsewhere.
Trampoline(vector) == 8 * vector
TIMER == -1
NoTarget == -2
IsTarget(t) ==
  t = TIMER \/ \E v \in Vectors : t = generate_trampolines[v]
VectorPushedAt(t) == CHOOSE v \in Vectors : t = generate_trampolines[v]

Gate(type, dpl, target, present) ==
  [type |-> type, dpl |-> dpl, offset_low |-> target, offset_high |-> target,
   present |-> present]

\* The order in which direct_set_interrupt_handler writes a descriptor.
Fields == <<"type", "dpl", "offset_low", "offset_high", "present">>

-----------------------------------------------------------------------------
(***************************************************************************)
(* Before init_interrupts the table is the BIOS's real-mode one, lines     *)
(* have its vectors, and interrupts are off (boot.asm).                    *)
(***************************************************************************)
Init ==
  /\ pc = "init_interrupts" /\ step = 0
  /\ idt = [v \in Vectors |-> Gate("INTERRUPT_GATE", "KERNEL_PL", NoTarget, FALSE)]
  /\ handlerTable = [v \in Vectors |-> NULL]
  /\ masked = [master |-> {}, slave |-> {}]
  /\ base = 8
  /\ automatic_EOI = FALSE
  /\ pending = {} /\ in_service = {}
  /\ interrupts_on = FALSE
  /\ frames = <<>>
  /\ started = FALSE /\ intact = TRUE
  /\ halted = FALSE

\* kernel_entry goes on: it is not interrupted.
Runs(from) == NotHalted /\ frames = <<>> /\ pc = from

Proceed(from, to) == Runs(from) /\ pc' = to /\ step' = 0

init_interrupts ==
  /\ Proceed("init_interrupts", "set_pagefault")
  /\ idt' = [v \in Vectors |->
               Gate("INTERRUPT_GATE", "KERNEL_PL", Trampoline(v), v < EXCEPTION_COUNT)]
  /\ handlerTable' = [v \in Vectors |-> NULL]
  /\ UNCHANGED <<pic, requests, interrupts_on, frames, process, halted>>

\* The field-by-field writes of a descriptor; the first of them is step "first".
direct_set_interrupt_handler(from, first, to, vector, type, dpl, target) ==
  LET written == step - first + 1
      field   == Fields[written]
  IN /\ Runs(from)
     /\ step >= first
     /\ idt' = [idt EXCEPT ![vector][field] = Gate(type, dpl, target, TRUE)[field]]
     /\ IF written = Len(Fields) THEN pc' = to /\ step' = 0
                                 ELSE pc' = from /\ step' = step + 1
     /\ UNCHANGED <<handlerTable, pic, requests, interrupts_on, frames, process, halted>>

set_interrupt_handler(from, to, vector, type, dpl, handler) ==
  \/ /\ Runs(from)
     /\ step = 0
     /\ handlerTable' = [handlerTable EXCEPT ![vector] = handler]
     /\ step' = 1
     /\ UNCHANGED <<pc, idt, pic, requests, interrupts_on, frames, process, halted>>
  \/ direct_set_interrupt_handler(from, 1, to, vector, type, dpl, Trampoline(vector))

set_pagefault ==
  set_interrupt_handler("set_pagefault", "init_pic", PF, "INTERRUPT_GATE", "KERNEL_PL",
                        "pagefault_handler")

\* The four initialisation words, which also forget the requests so far, then both masks.
InitPic(first_vector, eoi) ==
  /\ Proceed("init_pic", "set_timer")
  /\ masked' = [master |-> 0 .. 7, slave |-> 0 .. 7]
  /\ base' = first_vector
  /\ automatic_EOI' = eoi
  /\ pending' = {} /\ in_service' = {}
  /\ UNCHANGED <<tables, interrupts_on, frames, process, halted>>

\* Mutant: the handlers are to end their interrupts themselves, and none does.
init_pic_no_eoi == InitPic(SYSTEM_TIMER_VECTOR, FALSE)

init_pic == InitPic(SYSTEM_TIMER_VECTOR, TRUE)

set_timer ==
  direct_set_interrupt_handler("set_timer", 0, "enable_timer", SYSTEM_TIMER_VECTOR,
                               "INTERRUPT_GATE", "KERNEL_PL", TIMER)

enable_io_devices(from, to, devices) ==
  /\ Proceed(from, to)
  /\ masked' = IF devices.slave THEN [masked EXCEPT !.slave = @ \ devices.lines]
                                ELSE [masked EXCEPT !.master = @ \ devices.lines]
  /\ UNCHANGED <<tables, base, automatic_EOI, requests, interrupts_on, frames, process,
                 halted>>

\* Mutant: the bits written back unchanged.
disable_io_devices_nothing(from, to, devices) ==
  /\ Proceed(from, to)
  /\ UNCHANGED <<tables, pic, requests, interrupts_on, frames, process, halted>>

disable_io_devices(from, to, devices) ==
  /\ Proceed(from, to)
  /\ masked' = IF devices.slave THEN [masked EXCEPT !.slave = @ \cup devices.lines]
                                ELSE [masked EXCEPT !.master = @ \cup devices.lines]
  /\ UNCHANGED <<tables, base, automatic_EOI, requests, interrupts_on, frames, process,
                 halted>>

enable_timer == enable_io_devices("enable_timer", "sti", SYSTEM_TIMER)

sti ==
  /\ Proceed("sti", "detected")
  /\ interrupts_on' = TRUE
  /\ UNCHANGED <<tables, pic, requests, frames, process, halted>>

\* The PS/2 driver has found a keyboard, or not (entry.c 35).
detected ==
  /\ \E to \in {"set_keyboard", "register_syscalls"} : Proceed("detected", to)
  /\ UNCHANGED <<tables, pic, requests, interrupts_on, frames, process, halted>>

\* Mutant: the timer may interrupt the handler.
set_keyboard_trap ==
  set_interrupt_handler("set_keyboard", "enable_keyboard", KEYBOARD_VECTOR,
                        "TRAP_GATE", "KERNEL_PL", "keyboard_handler")

set_keyboard ==
  set_interrupt_handler("set_keyboard", "enable_keyboard", KEYBOARD_VECTOR,
                        "INTERRUPT_GATE", "KERNEL_PL", "keyboard_handler")

enable_keyboard == enable_io_devices("enable_keyboard", "send_first", KEYBOARD)

\* The first command goes to the keyboard, whose line is open already.
send_first ==
  /\ Proceed("send_first", "register_syscalls")
  /\ UNCHANGED <<tables, pic, requests, interrupts_on, frames, process, halted>>

\* Mutant: a trap gate leaves interrupts on.
register_syscalls_trap ==
  set_interrupt_handler("register_syscalls", "experiment", EXIT_VECTOR, "TRAP_GATE",
                        "USER_PL", "exit")

register_syscalls ==
  set_interrupt_handler("register_syscalls", "experiment", EXIT_VECTOR, "INTERRUPT_GATE",
                        "USER_PL", "exit")

\* experiment: the timer off, and in experiment 0 its gate changed and the timer on again.
experiment == disable_io_devices("experiment", "experiment_n", SYSTEM_TIMER)

choose_experiment ==
  /\ \E n \in Experiments :
       Proceed("experiment_n", IF n = 0 THEN "set_clr" ELSE "switch_process")
  /\ UNCHANGED <<tables, pic, requests, interrupts_on, frames, process, halted>>

set_clr ==
  set_interrupt_handler("set_clr", "enable_clr", SYSTEM_TIMER_VECTOR, "INTERRUPT_GATE",
                        "KERNEL_PL", "clr")

enable_clr == enable_io_devices("enable_clr", "switch_process", SYSTEM_TIMER)

\* restore_context makes the ctx of the process, inside its Process, the stack.
\* exit and pagefault_handler come here with interrupts off.
SwitchProcess ==
  /\ pc' = "restore_context" /\ step' = 0
  /\ frames' = <<>>
  /\ UNCHANGED <<tables, pic, requests, interrupts_on, process, halted>>

switch_process == Runs("switch_process") /\ SwitchProcess

\* unwind_context: popa, four pops of a segment register, and two words dropped;
\* step counts the words that were taken.
pop ==
  /\ Runs("restore_context") /\ step < CONTEXT_WORDS
  /\ step' = CASE step = 0 -> 8 [] step \in 8 .. 11 -> step + 1 [] step = 12 -> CONTEXT_WORDS
  /\ UNCHANGED <<pc, tables, pic, requests, interrupts_on, frames, process, halted>>

\* The flags of a process, 0x202, have interrupts on.
iret ==
  /\ Runs("restore_context") /\ step = CONTEXT_WORDS
  /\ pc' = "user" /\ step' = 0
  /\ interrupts_on' = TRUE
  /\ started' = TRUE
  /\ UNCHANGED <<tables, pic, requests, frames, intact, halted>>

restore_context == pop \/ iret

kernel_entry ==
  \/ init_interrupts \/ set_pagefault \/ init_pic \/ set_timer \/ enable_timer \/ sti
  \/ detected \/ set_keyboard \/ enable_keyboard \/ send_first
  \/ register_syscalls \/ experiment \/ choose_experiment \/ set_clr \/ enable_clr
  \/ switch_process \/ restore_context

-----------------------------------------------------------------------------
(***************************************************************************)
(* The processor takes an interrupt.                                       *)
(***************************************************************************)

Whole(gate) ==
  gate.present /\ gate.offset_low = gate.offset_high /\ IsTarget(gate.offset_low)

\* What an interrupt puts on the stack, in words, at least: the processor three;
\* timer_handler two, a trampoline and collect_ctx fourteen and universal_interrupt_-
\* handler more.
Depth(direct) == IF direct THEN 5 ELSE 18

\* While the stack is the ctx of a process, that is more than lies between the
\* stack pointer and the fields of its Process below.
Overwrites(direct) == pc = "restore_context" /\ frames = <<>> /\ Depth(direct) > step

(***************************************************************************)
(* Through a whole gate: the flags saved and, by an interrupt gate,        *)
(* interrupts off; "words" counts what lies on the stack between the saved *)
(* registers of collect_ctx and the processor's frame.  A gate that is not *)
(* present ends in the panic of another exception, and a torn one          *)
(* anywhere; the model stops in both cases.                                *)
(***************************************************************************)
Enter(vector, pushes) ==
  LET gate == idt[vector]
      direct == gate.offset_low = TIMER
      pushed == VectorPushedAt(gate.offset_low)
  IN IF ~Whole(gate)
     THEN kernel_panic /\ UNCHANGED <<frames, interrupts_on, intact>>
     ELSE /\ frames' = Append(frames,
               [handler |-> IF direct THEN "timer_handler" ELSE "universal",
                vector  |-> IF direct THEN vector ELSE pushed,
                eflags  |-> interrupts_on,
                words   |-> pushes + IF direct THEN 0
                                     ELSE 1 + IF has_error_code(pushed) THEN 0 ELSE 1])
          /\ interrupts_on' = (interrupts_on /\ gate.type = "TRAP_GATE")
          /\ intact' = (intact /\ ~Overwrites(direct))
          /\ UNCHANGED halted

Unmasked(line) ==
  IF line < 8 THEN line \notin masked.master
              ELSE line - 8 \notin masked.slave /\ CASCADE \notin masked.master

\* Priority: a line of the second controller comes in at the cascade line of the first.
Rank(line) == IF line < 8 THEN 10 * line ELSE 10 * CASCADE + line

Deliverable(line) ==
  /\ interrupts_on
  /\ line \in pending /\ Unmasked(line)
  /\ \A other \in Lines :
       Rank(other) < Rank(line) => ~(other \in pending /\ Unmasked(other))
  /\ \A other \in in_service : Rank(line) < Rank(other)

\* A device asks for an interrupt; a request that waits already is not counted twice.
\* A tick of the timer is longer than its handler runs.
raise(line) ==
  /\ NotHalted
  /\ line = 0 => \A i \in 1 .. Len(frames) : frames[i].vector # SYSTEM_TIMER_VECTOR
  /\ pending' = pending \cup {line}
  /\ UNCHANGED <<pc, step, tables, pic, in_service, interrupts_on, frames, process,
                 halted>>

deliver(line) ==
  /\ NotHalted
  /\ Deliverable(line)
  /\ pending' = pending \ {line}
  /\ in_service' = IF automatic_EOI THEN in_service ELSE in_service \cup {line}
  /\ Enter(base + line, 0)
  /\ UNCHANGED <<pc, step, tables, pic, started>>

\* User code faults, or executes an int instruction, which its gate must allow.
InUser == Runs("user")

FromUser(vector, pushes) ==
  /\ InUser
  /\ Enter(vector, pushes)
  /\ UNCHANGED <<pc, step, tables, pic, requests, started>>

fault(exception) == FromUser(exception, ErrorCode(exception))

page_fault == fault(PF)

divide == fault(DIVISION_ERROR_VECTOR)

int(vector) ==
  IF idt[vector].dpl = "USER_PL" THEN FromUser(vector, 0) ELSE fault(GP)

-----------------------------------------------------------------------------
(***************************************************************************)
(* The handler of the last frame runs.                                     *)
(***************************************************************************)

Handling(handlers) ==
  /\ NotHalted
  /\ frames # <<>>
  /\ IF Last(frames).handler = "universal"
     THEN handlerTable[Last(frames).vector] \in handlers
     ELSE "timer_handler" \in handlers

\* Back to the interrupted code, by iret: its flags come back with it.
Return ==
  /\ frames' = Front(frames)
  /\ interrupts_on' = Last(frames).eflags
  /\ UNCHANGED <<pc, step, tables, pic, requests, process, halted>>

handler_returns ==
  Handling({"timer_handler", "keyboard_handler", "clr", "pagefault_handler"}) /\ Return

\* exit, and a page fault that ends its process, leave for another process.
handler_switches == Handling({"exit", "pagefault_handler"}) /\ SwitchProcess

\* universal_interrupt_handler finds nothing in the table.
unhandled ==
  /\ Handling({NULL})
  /\ kernel_panic
  /\ UNCHANGED <<pc, step, tables, pic, requests, interrupts_on, frames, process>>

Handler == handler_returns \/ handler_switches \/ unhandled

Next ==
  \/ kernel_entry
  \/ Handler
  \/ \E line \in Lines : raise(line) \/ deliver(line)
  \/ page_fault \/ divide \/ \E vector \in Vectors : int(vector)

(***************************************************************************)
(* Kernel code goes on; a pending interrupt is taken when the processor    *)
(* may take it, which is before the next instruction.  Strong fairness,    *)
(* because an interrupt of higher priority may come first, but not before  *)
(* every instruction: a tick of the timer is many of them long.            *)
(***************************************************************************)
Spec ==
  /\ Init /\ [][Next]_interrupts_vars
  /\ WF_interrupts_vars(kernel_entry) /\ WF_interrupts_vars(Handler)
  /\ \A line \in Lines : SF_interrupts_vars(deliver(line))

-----------------------------------------------------------------------------

(***************************************************************************)
(* An interrupt the processor may take now finds a whole descriptor and,   *)
(* behind a trampoline, a handler: whatever is unmasked was set up before, *)
(* and nothing is changed while it can be used (entry.c 26-28,             *)
(* ps2_keyboard.c 105-121, experiments.c 27-33).                           *)
(***************************************************************************)
DeliveredIsHandled ==
  \A line \in Lines :
    Deliverable(line) =>
      LET gate == idt[base + line]
      IN /\ Whole(gate)
         /\ gate.offset_low # TIMER =>
              handlerTable[VectorPushedAt(gate.offset_low)] # NULL

(***************************************************************************)
(* A handler is never interrupted: the handlers share statics (flags,      *)
(* fullcode), the console and the current process, and lock nothing.       *)
(***************************************************************************)
HandlersDoNotNest == Len(frames) <= 1

(***************************************************************************)
(* On its way out collect_ctx drops two words, the vector and the error    *)
(* code, before iret (boot.asm 172); timer_handler drops none.  That is   *)
(* what lies there, whether the processor pushed an error code or not.     *)
(***************************************************************************)
IretFindsItsFrame ==
  \A i \in 1 .. Len(frames) :
    frames[i].words = IF frames[i].handler = "universal" THEN 2 ELSE 0

(***************************************************************************)
(* A request that is not masked is served, although no handler ends its    *)
(* interrupt: AUTOMATIC_EOI does (entry.c 25).  Masking it or a panic end  *)
(* the wait too.                                                           *)
(***************************************************************************)
RequestIsServed ==
  \A line \in Lines :
    line \in pending /\ Unmasked(line)
      ~> line \notin pending \/ ~Unmasked(line) \/ halted

(***************************************************************************)
(* "i'll need to restart process" (process.h 26): what is needed to start  *)
(* a process again, kept below its ctx in its Process, survives the switch *)
(* to it, where its ctx is the stack (process.c 51-53, boot.asm 165-177).  *)
(***************************************************************************)
RestartFieldsKept == intact

(***************************************************************************)
(* The switches that end a process are safe: exit and the page fault       *)
(* handler come to restore_context with interrupts off (syscalls.c 21, 25, *)
(* paging.c 219-225).                                                      *)
(***************************************************************************)
RestartUndisturbed == [][started /\ intact => intact']_interrupts_vars

=============================================================================
