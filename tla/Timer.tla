------------------------------- MODULE Timer -------------------------------
(***************************************************************************)
(* The clock of pit.c and pit_handler.asm, and the waits with a time-out   *)
(* of drivers/ps2/ps2_device_general.c (ps2_device_send, ps2_device_read). *)
(*                                                                         *)
(* The clock is a fixed-point number of milliseconds in two words.  The    *)
(* timer's interrupt handler adds to both, with a carry; a wait reads them *)
(* one after the other with interrupts enabled, so a tick may fall between *)
(* any two reads.  A wait happens within the first 49 days, before millis  *)
(* wraps: ticks are counted up to TickBound, and a wait begins with two or *)
(* more of them left.                                                      *)
(***************************************************************************)
EXTENDS Integers

CONSTANTS
  F,                           \* fractions per millisecond (2^32)
  interrupt_millis,            \* what a tick adds
  interrupt_millis_fractions,
  TIMEOUT_MSF,                 \* the time-out, in fractions (2^31)
  TickBound                    \* how many ticks are looked at, at most

ASSUME TimerAssumption ==
  /\ F \in Nat \ {0}
  /\ interrupt_millis \in Nat
  /\ interrupt_millis_fractions \in 0 .. F - 1
  /\ TIMEOUT_MSF \in 0 .. F - 1
  /\ TickBound \in Nat
  /\ interrupt_millis > 0      \* a tick is longer than the time-out

-----------------------------------------------------------------------------
(***************************************************************************)
(* What init_timer makes of a frequency: the value the timer chip counts   *)
(* down from, and from it what a tick adds to the clock.                   *)
(***************************************************************************)

PIT_ACTUAL_FREQUENCY == 3579545
PIT_INTERNAL_DIVIDER == 3

\* The fractions are computed with ten bits more, and these dropped at the end.
SPARE == 1024

Rounded(n, d) == n \div d + (IF n % d > d \div 2 THEN 1 ELSE 0)

\* Both quotients are cut to sixteen bits.
init_timer(frequency) ==
  CASE frequency >= 65536 -> 0
    [] frequency < (PIT_ACTUAL_FREQUENCY \div 65536) \div PIT_INTERNAL_DIVIDER -> 65535
    [] OTHER -> Rounded(Rounded(PIT_ACTUAL_FREQUENCY, frequency) % 65536,
                        PIT_INTERNAL_DIVIDER) % 65536

\* The chip takes 0 for 65536, and no 1.
reload_value(value) == IF value = 1 THEN 2 ELSE IF value = 0 THEN 65536 ELSE value

mils(reload) ==
  (((PIT_INTERNAL_DIVIDER * 1000 * F * SPARE) \div PIT_ACTUAL_FREQUENCY + 1) * reload) \div SPARE

\* The two words of mils are interrupt_millis and interrupt_millis_fractions.
tick == interrupt_millis * F + interrupt_millis_fractions

VARIABLES
  millis, millis_fractions,  \* the clock
  now,                       \* history: the time the ticks add up to
  wait_pc,                   \* step of the wait
  ms, msf,                   \* its locals: the deadline
  begin, computed            \* history: when the deadline's two words were read

clock      == <<millis, millis_fractions, now>>
wait       == <<wait_pc, ms, msf, begin, computed>>
timer_vars == <<clock, wait>>

TimerInit ==
  /\ millis = 0 /\ millis_fractions = 0 /\ now = 0
  /\ wait_pc = "idle"
  /\ ms = 0 /\ msf = 0
  /\ begin = 0 /\ computed = 0

-----------------------------------------------------------------------------

\* Carry out of the low word, and into the high one.
AddToClock(carry) ==
  /\ now + tick <= TickBound * tick
  /\ millis_fractions' = (millis_fractions + interrupt_millis_fractions) % F
  /\ millis' = millis + interrupt_millis + carry
  /\ now' = now + tick
  /\ UNCHANGED wait

timer_handler ==
  AddToClock((millis_fractions + interrupt_millis_fractions) \div F)

-----------------------------------------------------------------------------
(***************************************************************************)
(* A wait: the deadline, then a loop of a look at the clock and a look at  *)
(* the status port.                                                        *)
(***************************************************************************)

read_millis ==
  /\ wait_pc = "idle"
  /\ now + 2 * tick <= TickBound * tick
  /\ ms' = millis /\ begin' = now
  /\ wait_pc' = "fractions"
  /\ UNCHANGED <<clock, msf, computed>>

\* Mutant: the carry of the deadline is lost.
add_32fp32_no_carry(h, l) == ms' = h /\ msf' = (l + TIMEOUT_MSF) % F

add_32fp32(h, l) ==
  /\ ms' = h + (l + TIMEOUT_MSF) \div F
  /\ msf' = (l + TIMEOUT_MSF) % F

read_fractions ==
  /\ wait_pc = "fractions"
  /\ add_32fp32(ms, millis_fractions) /\ computed' = now
  /\ wait_pc' = "compare"
  /\ UNCHANGED <<clock, begin>>

Step(from, to) ==
  /\ wait_pc = from /\ wait_pc' = to
  /\ UNCHANGED <<clock, ms, msf, begin, computed>>

\* ms > millis || (ms == millis && msf > millis_fractions), read by read.
\* Mutant: the fractions compared whatever the milliseconds.
look_millis_fractions == Step("compare", IF ms > millis THEN "compare_low" ELSE "compare_again")

look_millis == Step("compare", IF ms > millis THEN "poll" ELSE "compare_again")
look_millis_again == Step("compare_again", IF ms = millis THEN "compare_low" ELSE "timed_out")
look_fractions ==
  Step("compare_low", IF msf > millis_fractions THEN "poll" ELSE "timed_out")

\* The status port says the device is not ready, or that it is.
not_ready == Step("poll", "compare")
ready     == Step("poll", "ready")

return ==
  /\ wait_pc \in {"ready", "timed_out"}
  /\ wait_pc' = "idle" /\ ms' = 0 /\ msf' = 0 /\ begin' = 0 /\ computed' = 0
  /\ UNCHANGED clock

Wait ==
  \/ read_millis \/ read_fractions \/ look_millis \/ look_millis_again
  \/ look_fractions \/ not_ready \/ ready \/ return

TimerNext == timer_handler \/ Wait

TimerSpec == TimerInit /\ [][TimerNext]_timer_vars /\ WF_timer_vars(timer_handler) /\ WF_timer_vars(Wait)

-----------------------------------------------------------------------------

deadline == ms * F + msf

\* The state stays within its types.
TimerTypeOK ==
  /\ millis \in Nat /\ millis_fractions \in 0 .. F - 1
  /\ now \in 0 .. TickBound * tick
  /\ wait_pc \in {"idle", "fractions", "compare", "compare_again", "compare_low", "poll",
                  "ready", "timed_out"}
  /\ ms \in Nat /\ msf \in 0 .. F - 1
  /\ begin \in Nat /\ computed \in Nat

\* The two words of the clock are the time that has passed.
ClockIsExact == millis * F + millis_fractions = now

Waiting == wait_pc \in {"compare", "compare_again", "compare_low", "poll", "timed_out"}

(***************************************************************************)
(* The deadline is the time-out after the moment it was computed, never    *)
(* later, and earlier only by what a tick between the two reads tears off, *)
(* less than what the ticks in between added to millis                     *)
(* (ps2_device_general.c 45-47, 60-62).                                    *)
(***************************************************************************)
DeadlineIsSound ==
  Waiting =>
    /\ deadline <= computed + TIMEOUT_MSF
    /\ computed = begin => deadline = computed + TIMEOUT_MSF
    /\ deadline > begin + TIMEOUT_MSF - F

(***************************************************************************)
(* The mirror of it: a wait whose device never becomes ready gives up no   *)
(* earlier than its deadline, though its two words are compared with       *)
(* reads of the clock a tick may fall between (ps2_device_general.c 49,    *)
(* 65).                                                                    *)
(***************************************************************************)
NoEarlyTimeout == wait_pc = "timed_out" => now >= deadline

(***************************************************************************)
(* Every wait ends, whatever the device does, as long as the timer ticks.  *)
(***************************************************************************)
WaitEnds == wait_pc = "fractions" ~> wait_pc = "idle"

=============================================================================
