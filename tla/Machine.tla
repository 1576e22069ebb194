------------------------------ MODULE Machine ------------------------------
(***************************************************************************)
(* Interrupts and the clock together: a tick is an interrupt of the timer  *)
(* that was raised, delivered, and handled by timer_handler, and the waits *)
(* of Timer go on between interrupts or inside one.  The kernel waits      *)
(* while it looks for PS/2 devices and when it sends the keyboard its      *)
(* first command; the keyboard's handler waits when it sends the next.     *)
(*                                                                         *)
(* In the handler interrupts are off and the clock stands still.  A send   *)
(* there ends when the controller takes the byte, or never.                *)
(***************************************************************************)
EXTENDS Interrupts, Timer      \* Timer's variables are those of the kernel's waits

\* A time-out of nothing would be over at the first look at the clock.
ASSUME MachineAssumption == TIMEOUT_MSF > 0

VARIABLES
  handler_pc, handler_ms, handler_msf, handler_begin, handler_computed

Keyboard == INSTANCE Timer WITH
  wait_pc <- handler_pc, ms <- handler_ms, msf <- handler_msf,
  begin <- handler_begin, computed <- handler_computed

keyboard_wait == <<handler_pc, handler_ms, handler_msf, handler_begin, handler_computed>>

machine_vars == <<interrupts_vars, timer_vars, keyboard_wait>>

MachineInit == Init /\ TimerInit /\ Keyboard!TimerInit

-----------------------------------------------------------------------------

kernel_runs ==
  /\ wait_pc = "idle"
  /\ kernel_entry
  /\ UNCHANGED <<timer_vars, keyboard_wait>>

Waits == pc \in {"detected", "send_first"} /\ Runs(pc)

kernel_waits ==
  /\ Waits
  /\ Wait
  /\ UNCHANGED <<interrupts_vars, keyboard_wait>>

\* timer_handler, which is over before anything else can happen.
timer_ticks ==
  /\ Handling({"timer_handler"}) /\ Return
  /\ timer_handler
  /\ UNCHANGED keyboard_wait

Sent == handler_pc \in {"ready", "timed_out"}

\* At most one byte is sent for each that is received.
keyboard_sends ==
  /\ Handling({"keyboard_handler"}) /\ ~Sent
  /\ Keyboard!Wait
  /\ UNCHANGED <<interrupts_vars, wait>>

handler_ends ==
  /\ ~Handling({"timer_handler"})
  /\ Handler
  /\ \/ handler_pc = "idle" /\ UNCHANGED <<timer_vars, keyboard_wait>>
     \/ Sent /\ Keyboard!return /\ UNCHANGED wait

handlers == timer_ticks \/ keyboard_sends \/ handler_ends

\* The controller takes the byte.
taken == keyboard_sends /\ Keyboard!ready

\* Ticks are counted up to a bound.
device(line) ==
  /\ line = 0 => now + tick <= TickBound * tick
  /\ raise(line)
  /\ UNCHANGED <<timer_vars, keyboard_wait>>

processor(line) == deliver(line) /\ UNCHANGED <<timer_vars, keyboard_wait>>

user ==
  /\ page_fault \/ divide \/ \E vector \in Vectors : int(vector)
  /\ UNCHANGED <<timer_vars, keyboard_wait>>

MachineNext ==
  \/ kernel_runs \/ kernel_waits \/ handlers \/ user
  \/ \E line \in Lines : device(line) \/ processor(line)

(***************************************************************************)
(* As for Interrupts, and: the timer goes on ticking; somebody typing does *)
(* not interrupt before every instruction of a wait; and the controller    *)
(* takes a byte sooner or later, which only the handler's sends need.      *)
(***************************************************************************)
MachineSpec ==
  /\ MachineInit /\ [][MachineNext]_machine_vars
  /\ WF_machine_vars(kernel_runs) /\ SF_machine_vars(kernel_waits)
  /\ WF_machine_vars(handlers) /\ SF_machine_vars(taken)
  /\ WF_machine_vars(device(0))
  /\ \A line \in Lines : SF_machine_vars(processor(line))

-----------------------------------------------------------------------------
(***************************************************************************)
(* A send of the keyboard's handler is never given up: the commands of the *)
(* queue are popped by answers, and after a byte that was not sent none    *)
(* would come (ps2_keyboard.c 380-393; nobody looks at the result).        *)
(***************************************************************************)
HandlerSendsInTime == handler_pc # "timed_out"

=============================================================================
