--------------------------- MODULE Machine_proofs ---------------------------
(***************************************************************************)
(* Proofs about the clock, the interrupts, and the machine they make, for  *)
(* every tick, time-out and number of fractions that satisfy               *)
(* TimerAssumption.                                                        *)
(*                                                                         *)
(* What the descriptors, masks and handlers are at each step of            *)
(* kernel_entry is an inductive invariant of Interrupts; a step of the     *)
(* machine is a step of Interrupts and one of Timer, or leaves them alone, *)
(* so that both invariants hold of the machine as well.                    *)
(***************************************************************************)
EXTENDS Machine, TLAPS

-----------------------------------------------------------------------------
(***************************************************************************)
(* The clock, and a wait that reads it.                                    *)
(***************************************************************************)

\* What a wait that has read only millis knows of the time it did that at.
ReadMillisKept ==
  wait_pc = "fractions" =>
    /\ ms * F <= begin /\ begin < ms * F + F
    /\ begin <= now
    /\ begin = now => ms = millis

\* The clock is not behind what was read of it, or compared with it.
NotAhead == wait_pc \in {"fractions", "compare_again", "compare_low"} => ms <= millis

TimerInv ==
  /\ TimerTypeOK /\ ClockIsExact
  /\ ReadMillisKept /\ NotAhead
  /\ DeadlineIsSound /\ NoEarlyTimeout

-----------------------------------------------------------------------------

\* The carry of a sum of two words.
LEMMA CarryFact ==
  ASSUME NEW a \in 0 .. F - 1, NEW b \in 0 .. F - 1
  PROVE  /\ (a + b) \div F = IF a + b < F THEN 0 ELSE 1
         /\ (a + b) % F = IF a + b < F THEN a + b ELSE a + b - F
BY TimerAssumption

LEMMA ProductFacts ==
  ASSUME NEW a \in Nat, NEW b \in Nat
  PROVE  /\ a * F \in Nat
         /\ (a + b) * F = a * F + b * F
         /\ (a + b + 1) * F = a * F + b * F + F
         /\ (a + 1) * F = a * F + F
         /\ a <= b => a * F <= b * F
         /\ a < b => a * F + F <= b * F
<1>1. F \in Nat /\ F > 0
  BY TimerAssumption
<1>2. /\ a * F \in Nat
      /\ (a + b) * F = a * F + b * F
      /\ (a + b + 1) * F = a * F + b * F + F
      /\ (a + 1) * F = a * F + F
  BY <1>1
<1>3. ASSUME a <= b PROVE a * F <= b * F
  <2>1. PICK d \in Nat : b = a + d
    BY <1>3
  <2>2. b * F = a * F + d * F /\ d * F \in Nat
    BY <1>1, <2>1
  <2> QED
    BY <1>1, <1>2, <2>2
<1>4. ASSUME a < b PROVE a * F + F <= b * F
  <2>1. PICK d \in Nat : b = a + 1 + d
    BY <1>4
  <2>2. b * F = a * F + F + d * F /\ d * F \in Nat
    BY <1>1, <2>1
  <2> QED
    BY <1>1, <1>2, <2>2
<1> QED
  BY <1>2, <1>3, <1>4

\* A tick takes time.
LEMMA TickFact == tick \in Nat /\ tick > 0
<1>1. interrupt_millis * F \in Nat /\ F <= interrupt_millis * F
  BY TimerAssumption, ProductFacts, 1 * F = F
<1> QED
  BY <1>1, TimerAssumption DEF tick

LEMMA InitInv == TimerInit => TimerInv
<1> SUFFICES ASSUME TimerInit PROVE TimerInv
  OBVIOUS
<1>1. TickBound * tick \in Nat
  BY TickFact, TimerAssumption
<1> QED
  BY <1>1, TimerAssumption, ProductFacts
     DEF TimerInit, TimerInv, TimerTypeOK, ClockIsExact, ReadMillisKept, NotAhead,
         DeadlineIsSound, Waiting, NoEarlyTimeout

\* A tick adds itself to both words and leaves what the wait knows true.
LEMMA TickKeepsInv == TimerInv /\ timer_handler => TimerInv'
<1> SUFFICES ASSUME TimerInv, timer_handler PROVE TimerInv'
  OBVIOUS
<1> DEFINE sum == millis_fractions + interrupt_millis_fractions
<1> USE TimerAssumption DEF timer_handler, AddToClock, wait, TimerInv, TimerTypeOK
<1>1. /\ sum \div F = IF sum < F THEN 0 ELSE 1
      /\ millis_fractions' = IF sum < F THEN sum ELSE sum - F
  BY CarryFact
<1>2. millis' = millis + interrupt_millis + IF sum < F THEN 0 ELSE 1
  BY <1>1
<1>3. millis' * F = millis * F + interrupt_millis * F + IF sum < F THEN 0 ELSE F
  BY <1>2, ProductFacts
<1>4. ClockIsExact'
  <2>1. millis * F \in Nat /\ interrupt_millis * F \in Nat
    BY ProductFacts
  <2> QED
    BY <1>1, <1>3, <2>1 DEF ClockIsExact, tick
<1>5. now' > now /\ now' \in 0 .. TickBound * tick
  BY TickFact
<1>6. TimerTypeOK'
  BY <1>1, <1>2, <1>5
<1>7. millis' >= millis
  BY <1>2
<1>8. ReadMillisKept' /\ NotAhead'
  BY <1>5, <1>7 DEF ReadMillisKept, NotAhead
<1>9. DeadlineIsSound' /\ NoEarlyTimeout'
  <2>1. deadline' = deadline /\ deadline \in Nat
    BY ProductFacts DEF deadline
  <2> QED
    BY <1>5, <2>1 DEF DeadlineIsSound, Waiting, NoEarlyTimeout
<1> QED
  BY <1>4, <1>6, <1>8, <1>9

LEMMA WaitKeepsInv == TimerInv /\ Wait => TimerInv'
<1> SUFFICES ASSUME TimerInv, Wait PROVE TimerInv'
  OBVIOUS
<1> USE TimerAssumption DEF TimerInv, TimerTypeOK
<1>1. millis * F \in Nat /\ ms * F \in Nat /\ deadline \in Nat
  BY ProductFacts DEF deadline
<1>2. CASE read_millis
  <2>1. ms' = millis /\ begin' = now /\ now' = now /\ millis' = millis
    BY <1>2 DEF read_millis, clock
  <2>2. ReadMillisKept' /\ NotAhead'
    BY <1>1, <2>1 DEF ReadMillisKept, NotAhead, ClockIsExact
  <2> QED
    BY <1>2, <2>1, <2>2
       DEF read_millis, clock, ClockIsExact, DeadlineIsSound, Waiting, NoEarlyTimeout
<1>3. CASE read_fractions
  <2> DEFINE sum == millis_fractions + TIMEOUT_MSF
  <2>1. /\ ms' = ms + IF sum < F THEN 0 ELSE 1
        /\ msf' = IF sum < F THEN sum ELSE sum - F
    <3>1. /\ sum \div F = IF sum < F THEN 0 ELSE 1
          /\ sum % F = IF sum < F THEN sum ELSE sum - F
      BY CarryFact
    <3>2. ms' = ms + sum \div F /\ msf' = sum % F
      BY <1>3 DEF read_fractions, add_32fp32
    <3> HIDE DEF sum
    <3> QED
      BY <3>1, <3>2
  <2>2. ms' * F = ms * F + IF sum < F THEN 0 ELSE F
    BY <2>1, ProductFacts
  <2>3. deadline' = ms * F + sum
    BY <1>1, <2>1, <2>2 DEF deadline
  <2>4. ms * F <= millis * F
    BY <1>3, ProductFacts DEF read_fractions, NotAhead
  <2>5. DeadlineIsSound'
    BY <1>1, <1>3, <2>3, <2>4
       DEF read_fractions, clock, ClockIsExact, ReadMillisKept, DeadlineIsSound, Waiting
  <2> QED
    BY <1>3, <2>1, <2>5
       DEF read_fractions, clock, ClockIsExact, ReadMillisKept, NotAhead, NoEarlyTimeout
<1>4. ASSUME look_millis \/ look_fractions \/ not_ready \/ ready \/ look_millis_again
      PROVE  UNCHANGED <<clock, ms, msf, begin, computed, deadline>>
  BY <1>4 DEF look_millis, look_fractions, not_ready, ready, look_millis_again, Step, clock,
              deadline
<1>5. CASE look_millis
  BY <1>4, <1>5
     DEF look_millis, Step, clock, ClockIsExact, ReadMillisKept, NotAhead, DeadlineIsSound,
         Waiting, NoEarlyTimeout
<1>6. CASE look_millis_again
  <2>1. wait_pc' = "timed_out" => now >= deadline
    <3>1. ASSUME wait_pc' = "timed_out" PROVE ms < millis
      BY <1>6, <3>1 DEF look_millis_again, Step, NotAhead
    <3> QED
      BY <1>1, <3>1, ProductFacts DEF ClockIsExact, deadline
  <2> QED
    BY <1>4, <1>6, <2>1
       DEF look_millis_again, Step, clock, ClockIsExact, ReadMillisKept, NotAhead,
           DeadlineIsSound, Waiting, NoEarlyTimeout
<1>7. CASE look_fractions
  <2>1. wait_pc' = "timed_out" => now >= deadline
    <3>1. ASSUME wait_pc' = "timed_out" PROVE ms <= millis /\ msf <= millis_fractions
      BY <1>7, <3>1 DEF look_fractions, Step, NotAhead
    <3> QED
      BY <1>1, <3>1, ProductFacts DEF ClockIsExact, deadline
  <2> QED
    BY <1>4, <1>7, <2>1
       DEF look_fractions, Step, clock, ClockIsExact, ReadMillisKept, NotAhead,
           DeadlineIsSound, Waiting, NoEarlyTimeout
<1>8. CASE not_ready \/ ready
  BY <1>4, <1>8
     DEF not_ready, ready, Step, clock, ClockIsExact, ReadMillisKept, NotAhead,
         DeadlineIsSound, Waiting, NoEarlyTimeout
<1>9. CASE return
  BY <1>9
     DEF return, clock, ClockIsExact, ReadMillisKept, NotAhead, DeadlineIsSound, Waiting,
         NoEarlyTimeout
<1> QED
  BY <1>2, <1>3, <1>5, <1>6, <1>7, <1>8, <1>9 DEF Wait

LEMMA StutterKeepsInv == TimerInv /\ UNCHANGED timer_vars => TimerInv'
BY DEF TimerInv, timer_vars, clock, wait, TimerTypeOK, ClockIsExact, ReadMillisKept, NotAhead,
       DeadlineIsSound, Waiting, deadline, NoEarlyTimeout

LEMMA TimerInvariant == TimerSpec => []TimerInv
<1>1. TimerInv /\ [TimerNext]_timer_vars => TimerInv'
  BY TickKeepsInv, WaitKeepsInv, StutterKeepsInv DEF TimerNext
<1> QED
  BY <1>1, InitInv, PTL DEF TimerSpec

-----------------------------------------------------------------------------

(***************************************************************************)
(* The state stays within its types.                                       *)
(***************************************************************************)
THEOREM TimerTypeCorrect == TimerSpec => []TimerTypeOK
BY TimerInvariant, PTL DEF TimerInv

(***************************************************************************)
(* However many ticks there were, the two words hold the time they add up  *)
(* to: no carry is lost (pit_handler.asm 13-16).                           *)
(***************************************************************************)
THEOREM NoTimeIsLost == TimerSpec => []ClockIsExact
BY TimerInvariant, PTL DEF TimerInv

(***************************************************************************)
(* A deadline is the time-out after its computation, and earlier only by   *)
(* less than a millisecond if a tick fell between the two reads            *)
(* (ps2_device_general.c 45-47, 60-62).                                    *)
(***************************************************************************)
THEOREM DeadlineHolds == TimerSpec => []DeadlineIsSound
BY TimerInvariant, PTL DEF TimerInv

(***************************************************************************)
(* No wait gives up before its deadline, wherever ticks fall between its   *)
(* reads of the clock (ps2_device_general.c 49, 65).                       *)
(***************************************************************************)
THEOREM TimeoutsAreNotEarly == TimerSpec => []NoEarlyTimeout
BY TimerInvariant, PTL DEF TimerInv

-----------------------------------------------------------------------------
(***************************************************************************)
(* What init_timer makes of a frequency. SMT is named where numbers are    *)
(* large: the other provers write them out as sums of ones.                *)
(***************************************************************************)

LEMMA Quotient ==
  ASSUME NEW n \in Nat, NEW d \in Nat \ {0}
  PROVE  n \div d \in Nat /\ n % d \in 0 .. d - 1 /\ n = d * (n \div d) + (n % d)
  OBVIOUS

\* Rounded is off by no more than half a unit.
LEMMA RoundedFact ==
  ASSUME NEW n \in Nat, NEW d \in Nat \ {0}
  PROVE  /\ Rounded(n, d) \in Nat
         /\ 2 * (d * Rounded(n, d)) <= 2 * n + d
         /\ 2 * n <= 2 * (d * Rounded(n, d)) + d
<1>1. PICK q \in Nat, r \in 0 .. d - 1 : q = n \div d /\ r = n % d /\ n = d * q + r
  BY Quotient
<1>2. \A m \in Nat : m > d \div 2 <=> 2 * m > d
  OBVIOUS
<1>3. CASE 2 * r > d
  <2>1. Rounded(n, d) = q + 1
    BY <1>1, <1>2, <1>3 DEF Rounded
  <2>2. d * (q + 1) = d * q + d /\ d * q \in Nat
    OBVIOUS
  <2> QED
    BY <1>1, <1>3, <2>1, <2>2
<1>4. CASE ~(2 * r > d)
  <2>1. Rounded(n, d) = q
    BY <1>1, <1>2, <1>4 DEF Rounded
  <2>2. d * q \in Nat
    OBVIOUS
  <2> QED
    BY <1>1, <1>4, <2>1, <2>2
<1> QED
  BY <1>3, <1>4

\* A product grows with its factor.
LEMMA Grows ==
  ASSUME NEW a \in Nat, NEW b \in Nat, NEW m \in Nat, a <= b
  PROVE  m * a <= m * b /\ m * a \in Nat /\ m * b \in Nat
<1>1. PICK c \in Nat : b = a + c
  OBVIOUS
<1>2. m * b = m * a + m * c /\ m * c \in Nat /\ m * a \in Nat
  BY <1>1
<1> QED
  BY <1>2

LEMMA Square ==
  ASSUME NEW f \in Nat, 65536 <= f
  PROVE  f * 65536 <= f * f
BY Grows, SMT

Reload(frequency) == reload_value(init_timer(frequency))

\* x is the first of the two quotients and r the second, both rounded.
Quotients(frequency, x, r) ==
  /\ Reload(frequency) = r /\ r >= 2
  /\ 2 * (frequency * x) <= 2 * 3579545 + frequency
  /\ 2 * 3579545 <= 2 * (frequency * x) + frequency
  /\ 3 * r <= x + 1 /\ x <= 3 * r + 1

\* From 55 on, nothing is lost where the quotients are cut to sixteen bits.
LEMMA ReloadFact ==
  ASSUME NEW frequency \in Nat, 55 <= frequency, frequency <= 65535
  PROVE  \E x, r \in Nat : Quotients(frequency, x, r)
<1>1. PICK x \in Nat : /\ x = Rounded(3579545, frequency)
                       /\ 2 * (frequency * x) <= 2 * 3579545 + frequency
                       /\ 2 * 3579545 <= 2 * (frequency * x) + frequency
  <2>1. /\ Rounded(3579545, frequency) \in Nat
        /\ 2 * (frequency * Rounded(3579545, frequency)) <= 2 * 3579545 + frequency
        /\ 2 * 3579545 <= 2 * (frequency * Rounded(3579545, frequency)) + frequency
    BY RoundedFact, SMT
  <2>2. PICK x \in Nat : x = Rounded(3579545, frequency)
    BY <2>1, SMT
  <2> QED
    BY <2>1, <2>2, SMT
<1>2. x <= 65083
  <2> SUFFICES ASSUME x >= 65084 PROVE FALSE
    BY SMT
  <2>1. frequency * 65084 <= frequency * x
    BY Grows, SMT
  <2> QED
    BY <1>1, <2>1, SMT
<1>3. x >= 55
  <2> SUFFICES ASSUME x <= 54 PROVE FALSE
    BY SMT
  <2>1. frequency * x <= frequency * 54 /\ frequency * x \in Nat
    BY Grows, SMT
  <2> QED
    BY <1>1, <2>1, SMT
<1>4. PICK r \in Nat : r = Rounded(x, 3) /\ 3 * r <= x + 1 /\ x <= 3 * r + 1
  <2>1. /\ Rounded(x, 3) \in Nat
        /\ 2 * (3 * Rounded(x, 3)) <= 2 * x + 3 /\ 2 * x <= 2 * (3 * Rounded(x, 3)) + 3
    BY RoundedFact, SMT
  <2>2. PICK r \in Nat : r = Rounded(x, 3)
    BY <2>1, SMT
  <2> QED
    BY <2>1, <2>2, SMT
<1>5. 2 <= r /\ r <= 65535
  BY <1>2, <1>3, <1>4, SMT
<1>6. init_timer(frequency) = r
  <2>1. ~(frequency >= 65536)
    BY SMT
  <2>2. ~(frequency < (3579545 \div 65536) \div 3)
    BY SMT
  <2>3. x % 65536 = x
    BY <1>2, SMT
  <2>4. r % 65536 = r
    BY <1>5, SMT
  <2> QED
    BY <1>1, <1>4, <2>1, <2>2, <2>3, <2>4, SMT
       DEF init_timer, PIT_ACTUAL_FREQUENCY, PIT_INTERNAL_DIVIDER
<1>7. Reload(frequency) = r
  BY <1>5, <1>6, SMT DEF Reload, reload_value
<1>8. Quotients(frequency, x, r)
  BY <1>1, <1>4, <1>5, <1>7, SMT DEF Quotients
<1> QED
  BY <1>8, SMT

(***************************************************************************)
(* For every frequency from 55 to 65535 the timer counts down from the     *)
(* number that is nearest to a third of 3579545 / frequency, though it is  *)
(* rounded twice and cut to sixteen bits in between (pit.c 26-27).         *)
(***************************************************************************)
THEOREM NearestReload ==
  ASSUME NEW frequency \in Nat, 55 <= frequency, frequency <= 65535
  PROVE  /\ 2 * (3 * frequency * Reload(frequency)) <= 2 * PIT_ACTUAL_FREQUENCY + 3 * frequency
         /\ 2 * PIT_ACTUAL_FREQUENCY <= 2 * (3 * frequency * Reload(frequency)) + 3 * frequency
<1>1. PICK x \in Nat, r \in Nat : Quotients(frequency, x, r)
  BY ReloadFact, SMT
<1>2. frequency * (3 * r) <= frequency * (x + 1)
  BY <1>1, Grows, SMT DEF Quotients
<1>3. frequency * x <= frequency * (3 * r + 1)
  BY <1>1, Grows, SMT DEF Quotients
<1>4. /\ frequency * (3 * r) = 3 * frequency * r
      /\ frequency * (x + 1) = frequency * x + frequency
      /\ frequency * (3 * r + 1) = 3 * frequency * r + frequency
      /\ frequency * x \in Nat /\ 3 * frequency * r \in Nat
  BY SMT
<1> QED
  BY <1>1, <1>2, <1>3, <1>4, SMT DEF PIT_ACTUAL_FREQUENCY, Quotients

(***************************************************************************)
(* From 18 to 54 ticks a second the first quotient does not fit sixteen    *)
(* bits, and what is left of it makes the timer too fast: the number it    *)
(* counts down from falls short of the right one by 21844 or more (pit.c   *)
(* 26). Nothing in the kernel asks for such a frequency.                   *)
(***************************************************************************)
THEOREM SlowRatesAreCut ==
  ASSUME NEW frequency \in Nat, 18 <= frequency, frequency <= 54
  PROVE  3 * frequency * (Reload(frequency) + 21844) <= PIT_ACTUAL_FREQUENCY
<1>1. PICK x \in Nat : /\ x = Rounded(3579545, frequency)
                       /\ 2 * (frequency * x) <= 2 * 3579545 + frequency
                       /\ 2 * 3579545 <= 2 * (frequency * x) + frequency
  <2>1. /\ Rounded(3579545, frequency) \in Nat
        /\ 2 * (frequency * Rounded(3579545, frequency)) <= 2 * 3579545 + frequency
        /\ 2 * 3579545 <= 2 * (frequency * Rounded(3579545, frequency)) + frequency
    BY RoundedFact, SMT
  <2>2. PICK x \in Nat : x = Rounded(3579545, frequency)
    BY <2>1, SMT
  <2> QED
    BY <2>1, <2>2, SMT
\* The quotient lies between those of the least and the greatest frequency.
<1>2. ASSUME NEW least \in Nat, least <= frequency
      PROVE  least * (2 * x) <= 2 * 3579545 + frequency
  <2>1. (2 * x) * least <= (2 * x) * frequency
    BY <1>2, Grows, SMT
  <2> QED
    BY <1>1, <2>1, SMT
<1>3. ASSUME NEW greatest \in Nat, frequency <= greatest
      PROVE  2 * 3579545 <= greatest * (2 * x) + frequency
  <2>1. (2 * x) * frequency <= (2 * x) * greatest
    BY <1>3, Grows, SMT
  <2> QED
    BY <1>1, <2>1, SMT
<1>4. PICK y \in Nat : y = x % 65536 /\ 700 <= y /\ y + 65536 <= x
  <2>1. CASE frequency >= 28
    <3>1. 66286 <= x /\ x <= 127842
      BY <1>2, <1>3, <2>1, SMT
    <3> QED
      BY <3>1, SMT
  <2>2. CASE frequency <= 27 /\ frequency >= 19
    <3>1. 132574 <= x /\ x <= 188399
      BY <1>2, <1>3, <2>2, SMT
    <3> QED
      BY <3>1, SMT
  <2>3. CASE frequency = 18
    <3>1. x = 198864
      BY <1>1, <2>3, SMT
    <3> QED
      BY <3>1, SMT
  <2> QED
    BY <2>1, <2>2, <2>3, SMT
<1>5. PICK r \in Nat : r = Rounded(y, 3) /\ 3 * r <= y + 1 /\ y <= 3 * r + 1
  <2>1. /\ Rounded(y, 3) \in Nat
        /\ 2 * (3 * Rounded(y, 3)) <= 2 * y + 3 /\ 2 * y <= 2 * (3 * Rounded(y, 3)) + 3
    BY RoundedFact, SMT
  <2>2. PICK r \in Nat : r = Rounded(y, 3)
    BY <2>1, SMT
  <2> QED
    BY <2>1, <2>2, SMT
<1>6. y <= 65535
  BY <1>1, <1>4, SMT
<1>7. Reload(frequency) = r
  <2>1. 2 <= r /\ r <= 65535 /\ r % 65536 = r
    BY <1>4, <1>5, <1>6, SMT
  <2>2. ~(frequency >= 65536) /\ ~(frequency < (3579545 \div 65536) \div 3)
    BY SMT
  <2>3. init_timer(frequency) = r
    BY <1>1, <1>4, <1>5, <2>1, <2>2, SMT
       DEF init_timer, PIT_ACTUAL_FREQUENCY, PIT_INTERNAL_DIVIDER
  <2> QED
    BY <2>1, <2>3, SMT DEF Reload, reload_value
<1>8. frequency * (3 * r + 65535) <= frequency * x
  BY <1>4, <1>5, Grows, SMT
<1>9. /\ frequency * (3 * r + 65535) = 3 * (frequency * r) + 65535 * frequency
      /\ 3 * frequency * (r + 21844) = 3 * (frequency * r) + 65532 * frequency
      /\ frequency * r \in Nat /\ frequency * x \in Nat
  BY SMT
<1> QED
  BY <1>1, <1>7, <1>8, <1>9, SMT DEF PIT_ACTUAL_FREQUENCY

(***************************************************************************)
(* A tick adds the time the timer takes to count down, 3 * reload /        *)
(* 3579545 seconds: less by no full fraction of a millisecond, and more by *)
(* at most the 1024th part of a fraction for every unit of reload, for     *)
(* every number of fractions in a millisecond (pit.c 46-48).               *)
(***************************************************************************)
THEOREM TickIsTrue ==
  ASSUME NEW reload \in Nat
  PROVE  /\ 3000 * F * reload < PIT_ACTUAL_FREQUENCY * (mils(reload) + 1)
         /\ PIT_ACTUAL_FREQUENCY * (SPARE * mils(reload))
              <= SPARE * (3000 * F * reload) + PIT_ACTUAL_FREQUENCY * reload
<1>1. PICK q \in Nat, m \in Nat :
        /\ q = (3000 * F * 1024) \div 3579545
        /\ 3579545 * q <= 3072000 * F /\ 3072000 * F < 3579545 * (q + 1)
        /\ m = mils(reload)
        /\ 1024 * m <= (q + 1) * reload /\ (q + 1) * reload < 1024 * m + 1024
  <2>1. 3000 * F * 1024 = 3072000 * F /\ 3072000 * F \in Nat
    BY TimerAssumption, SMT
  <2>2. PICK q \in Nat : /\ q = (3072000 * F) \div 3579545
                         /\ 3579545 * q <= 3072000 * F /\ 3072000 * F < 3579545 * (q + 1)
    BY <2>1, SMT
  <2>3. (q + 1) * reload \in Nat
    BY SMT
  <2>4. mils(reload) = ((q + 1) * reload) \div 1024
    BY <2>1, <2>2, SMT DEF mils, SPARE, PIT_ACTUAL_FREQUENCY, PIT_INTERNAL_DIVIDER
  <2> QED
    BY <2>1, <2>2, <2>3, <2>4, SMT
<1>2. /\ reload * (3579545 * q) <= reload * (3072000 * F)
      /\ reload * (3072000 * F) <= reload * (3579545 * (q + 1))
  BY <1>1, Grows, TimerAssumption, SMT
<1>3. PICK s \in Nat, t \in Nat, u \in Nat :
        /\ s = q * reload /\ t = F * reload /\ u = (q + 1) * reload /\ u = s + reload
        /\ reload * (3579545 * q) = 3579545 * s
        /\ reload * (3072000 * F) = 3072000 * t
        /\ reload * (3579545 * (q + 1)) = 3579545 * u
        /\ 3000 * F * reload = 3000 * t
  BY TimerAssumption, SMT
<1> QED
  BY <1>1, <1>2, <1>3, SMT DEF PIT_ACTUAL_FREQUENCY, SPARE

(***************************************************************************)
(* Up to 999 times a second a tick is a millisecond or longer, so that     *)
(* interrupt_millis is not 0 and the waits of the PS/2 driver, which count *)
(* on it, are right (pit.c 47, ps2_device_general.c 45-65).                *)
(***************************************************************************)
THEOREM TickIsAMillisecond ==
  ASSUME NEW frequency \in Nat, 55 <= frequency, frequency <= 999
  PROVE  mils(Reload(frequency)) \div F > 0
<1>1. PICK r \in Nat : r = Reload(frequency) /\ r >= 1194
  <2>0. PICK x \in Nat, r \in Nat : Quotients(frequency, x, r)
    BY ReloadFact, SMT
  <2>1. /\ Reload(frequency) = r
        /\ 2 * 3579545 <= 2 * (frequency * x) + frequency
        /\ 3 * r <= x + 1 /\ x <= 3 * r + 1
    BY <2>0, SMT DEF Quotients
  <2>2. SUFFICES ASSUME r <= 1193 PROVE FALSE
    BY <2>1, SMT
  <2>3. x <= 3580
    BY <2>1, <2>2, SMT
  <2>4. frequency * x <= frequency * 3580
    BY <2>3, Grows, SMT
  <2> QED
    BY <2>1, <2>4, SMT
<1> DEFINE m == mils(r)
<1>2. 3000 * F * r < 3579545 * (m + 1)
  BY TickIsTrue, SMT DEF PIT_ACTUAL_FREQUENCY
<1>3. m \in Nat
  <2>1. (3 * 1000 * F * 1024) \div 3579545 \in Nat
    BY TimerAssumption, SMT
  <2>2. ((3 * 1000 * F * 1024) \div 3579545 + 1) * r \in Nat
    BY <2>1, SMT
  <2> QED
    BY <2>2, SMT DEF mils, SPARE, PIT_ACTUAL_FREQUENCY, PIT_INTERNAL_DIVIDER
<1> HIDE DEF m
<1>4. F * 1194 <= F * r /\ 3000 * F * r = 3000 * (F * r) /\ F * r \in Nat
  BY <1>1, Grows, TimerAssumption, SMT
<1>5. F <= m /\ F \in Nat \ {0}
  BY <1>2, <1>3, <1>4, TimerAssumption, SMT
<1>6. m \div F # 0
  <2>1. m \div F \in Nat /\ m % F \in 0 .. F - 1 /\ m = F * (m \div F) + (m % F)
    BY <1>3, <1>5, Quotient, SMT
  <2> QED
    BY <1>5, <2>1, SMT
<1>7. m \div F \in Nat
  BY <1>3, <1>5, Quotient, SMT
<1> QED
  BY <1>1, <1>6, <1>7, SMT DEF m

(***************************************************************************)
(* With 2^32 fractions in a millisecond every number on the way to the two *)
(* words fits the unsigned integers of the code: 64 bits, and 32 for       *)
(* interrupt_millis (pit.c 46-48).                                         *)
(***************************************************************************)
THEOREM TickFitsItsWords ==
  ASSUME F = 4294967296, NEW reload \in Nat, reload <= 65536
  PROVE  /\ PIT_INTERNAL_DIVIDER * 1000 * F * SPARE < F * F
         /\ ((PIT_INTERNAL_DIVIDER * 1000 * F * SPARE) \div PIT_ACTUAL_FREQUENCY + 1) * reload
              < F * F
         /\ mils(reload) \div F <= 54
<1> USE DEF PIT_INTERNAL_DIVIDER, SPARE, PIT_ACTUAL_FREQUENCY
<1>1. PIT_INTERNAL_DIVIDER * 1000 * F * SPARE = 13194139533312000
  BY SMT
<1>2. 13194139533312000 \div PIT_ACTUAL_FREQUENCY = 3685982305
  BY SMT
<1>3. mils(reload) = (3685982306 * reload) \div 1024
  BY <1>1, <1>2, SMT DEF mils
<1>4. 3685982306 * reload <= 3685982306 * 65536
  BY SMT
<1>5. mils(reload) \div F <= 54
  BY <1>3, <1>4, SMT
<1> DEFINE f == F
<1>6. f \in Nat /\ 65536 <= f /\ 241564536406016 < f * 65536
  BY SMT
<1> HIDE DEF f
<1>7. 241564536406016 < f * f
  BY <1>6, Square, SMT
<1>8. 241564536406016 < F * F
  BY <1>7, SMT DEF f
<1> QED
  BY <1>1, <1>2, <1>4, <1>5, <1>8, SMT

(***************************************************************************)
(* The kernel asks for 180 ticks a second (entry.c 26): each of them is    *)
(* five milliseconds and a half and a little more.                         *)
(***************************************************************************)
THEOREM KernelTick ==
  ASSUME F = 4294967296
  PROVE  LET m == mils(Reload(180))
         IN  m \div F = 5 /\ m % F >= F \div 2
<1>1. init_timer(180) = 6629
  BY SMT DEF init_timer, Rounded, PIT_ACTUAL_FREQUENCY, PIT_INTERNAL_DIVIDER
<1>2. Reload(180) = 6629
  BY <1>1, SMT DEF Reload, reload_value
<1>3. mils(6629) = (3685982306 * 6629) \div 1024
  <2>1. 3 * 1000 * F * 1024 = 13194139533312000
    BY SMT
  <2>2. 13194139533312000 \div 3579545 = 3685982305
    BY SMT
  <2> QED
    BY <2>1, <2>2, SMT DEF mils, SPARE, PIT_ACTUAL_FREQUENCY, PIT_INTERNAL_DIVIDER
<1> QED
  BY <1>2, <1>3, SMT

-----------------------------------------------------------------------------
(***************************************************************************)
(* The interrupts.                                                         *)
(***************************************************************************)

\* kernel_entry before the masks are set, and before interrupts are on.
BeforePic == {"init_interrupts", "set_pagefault", "init_pic"}
BeforeSti == BeforePic \cup {"set_timer", "enable_timer", "sti"}
\* Steps with the line of the timer masked.
TimerOff == {"set_timer", "enable_timer", "experiment_n", "set_clr", "enable_clr"}
AfterSti ==
  {"detected", "set_keyboard", "enable_keyboard", "send_first", "register_syscalls",
   "experiment", "experiment_n", "set_clr", "enable_clr", "switch_process"}
Places == BeforeSti \cup AfterSti \cup {"restore_context", "user"}

Targets(v) == IF v = SYSTEM_TIMER_VECTOR THEN {TIMER, Trampoline(v)} ELSE {Trampoline(v)}

HandlerNames == {NULL, "pagefault_handler", "clr", "keyboard_handler", "exit"}

Handlers(v) ==
  {NULL} \cup CASE v = PF -> {"pagefault_handler"}
              [] v = SYSTEM_TIMER_VECTOR -> {"clr"}
              [] v = KEYBOARD_VECTOR -> {"keyboard_handler"}
              [] v = EXIT_VECTOR -> {"exit"}
              [] OTHER -> {}

Gates == [type : {"INTERRUPT_GATE"}, dpl : {"KERNEL_PL", "USER_PL"},
          offset_low : Int, offset_high : Int, present : BOOLEAN]

Frames == [handler : {"timer_handler", "universal"}, vector : Vectors,
           eflags : BOOLEAN, words : Int]

InterruptsTyped ==
  /\ pc \in Places /\ step \in 0 .. CONTEXT_WORDS
  /\ idt \in [Vectors -> Gates]
  /\ handlerTable \in [Vectors -> HandlerNames]
  /\ masked \in [master : SUBSET (0 .. 7), slave : SUBSET (0 .. 7)]
  /\ interrupts_on \in BOOLEAN /\ started \in BOOLEAN /\ intact \in BOOLEAN
  /\ frames # <<>> => frames = <<frames[1]>> /\ frames[1] \in Frames

\* An interrupt is handled with interrupts off, and came while they were on.
HandledAlone == frames # <<>> => ~interrupts_on

\* Every descriptor leads to its own trampoline, the timer's perhaps to its handler.
GatesLead ==
  \A v \in Vectors :
    /\ pc # "init_interrupts" =>
         {idt[v].offset_low, idt[v].offset_high} \subseteq Targets(v)
    /\ handlerTable[v] \in Handlers(v)
    /\ idt[v].dpl = "USER_PL" => v = EXIT_VECTOR
    /\ idt[v].present => pc # "init_interrupts"

\* What an interrupt of the timer needs, and one of the keyboard.
TimerReady ==
  /\ idt[SYSTEM_TIMER_VECTOR].present
  /\ idt[SYSTEM_TIMER_VECTOR].offset_low = idt[SYSTEM_TIMER_VECTOR].offset_high
  /\ \/ idt[SYSTEM_TIMER_VECTOR].offset_low = TIMER
     \/ handlerTable[SYSTEM_TIMER_VECTOR] = "clr"

KeyboardReady ==
  idt[KEYBOARD_VECTOR].present /\ handlerTable[KEYBOARD_VECTOR] = "keyboard_handler"

\* A line is open only if its interrupt is ready for.
LinesReady ==
  pc \notin BeforePic =>
    /\ base = SYSTEM_TIMER_VECTOR
    /\ CASCADE \in masked.master
    /\ 0 \notin masked.master => TimerReady
    /\ 1 \notin masked.master => KeyboardReady
    /\ pc \in TimerOff => 0 \in masked.master

\* How far a descriptor that is being written has come, or a context that is being popped.
Written ==
  /\ pc = "restore_context" => step \in {0, CONTEXT_WORDS} \cup 8 .. 12
  /\ pc \in {"set_pagefault", "set_keyboard", "register_syscalls", "set_clr"} => step <= 5
  /\ pc = "set_timer" =>
       /\ step <= 4
       /\ step > 2 => idt[SYSTEM_TIMER_VECTOR].offset_low = TIMER
       /\ step > 3 => idt[SYSTEM_TIMER_VECTOR].offset_high = TIMER
  /\ pc \in {"enable_timer", "enable_clr"} => TimerReady
  /\ pc = "set_keyboard" /\ step > 0 =>
       handlerTable[KEYBOARD_VECTOR] = "keyboard_handler"
  /\ pc = "enable_keyboard" => KeyboardReady
  /\ pc = "set_clr" =>
       /\ step > 0 => handlerTable[SYSTEM_TIMER_VECTOR] = "clr"
       /\ step > 3 => idt[SYSTEM_TIMER_VECTOR].offset_low = Trampoline(SYSTEM_TIMER_VECTOR)
       /\ step > 4 => idt[SYSTEM_TIMER_VECTOR].offset_high = Trampoline(SYSTEM_TIMER_VECTOR)

\* Interrupts are off until sti, and in every restart of a process.
OffWhen ==
  /\ pc \in BeforeSti => ~interrupts_on /\ frames = <<>>
  /\ started => pc \in {"restore_context", "user"}
  /\ started /\ pc = "restore_context" => ~interrupts_on /\ frames = <<>>

InterruptsInv ==
  /\ InterruptsTyped /\ HandledAlone /\ GatesLead /\ LinesReady /\ Written /\ OffWhen
  /\ IretFindsItsFrame

\* What a send of the keyboard's handler knows: the clock stands still.
HandlerSends ==
  handler_pc # "idle" =>
    /\ frames # <<>> /\ Last(frames).handler = "universal"
    /\ handlerTable[Last(frames).vector] = "keyboard_handler"
    /\ handler_pc # "timed_out"
    /\ handler_pc = "fractions" => handler_ms = millis
    /\ handler_pc \in {"compare", "compare_again", "compare_low", "poll"} =>
         \/ handler_ms = millis /\ handler_msf = millis_fractions + TIMEOUT_MSF
         \/ handler_ms = millis + 1
    /\ handler_pc \in {"compare_again", "compare_low"} => handler_ms = millis

HandlerPlaces == {"idle", "fractions", "compare", "compare_again", "compare_low", "poll",
                  "ready", "timed_out"}

MachineInv ==
  InterruptsInv /\ TimerInv /\ handler_pc \in HandlerPlaces /\ HandlerSends

-----------------------------------------------------------------------------
(***************************************************************************)
(* The trampolines.                                                        *)
(***************************************************************************)

\* All trampolines have the same length, with a push of an error code or with padding.
LEMMA LengthIsEight == \A vector : TrampolineLength(vector) = 8
BY DEF TrampolineLength

LEMMA TrampolinesFollow ==
  /\ generate_trampolines[0] = 0
  /\ \A v \in 1 .. 255 : generate_trampolines[v] = generate_trampolines[v - 1] + 8
<1> DEFINE Laid(g) ==
      g = [vector \in 0 .. 255 |-> IF vector = 0 THEN 0
                                   ELSE g[vector - 1] + TrampolineLength(vector - 1)]
<1>1. Laid([vector \in 0 .. 255 |-> 8 * vector])
  BY LengthIsEight
<1>2. \E g : Laid(g)
  BY <1>1
<1>3. Laid(generate_trampolines)
  <2>1. generate_trampolines = CHOOSE g : Laid(g)
    BY DEF generate_trampolines
  <2> HIDE DEF Laid
  <2> QED
    BY <1>2, <2>1
<1> QED
  BY <1>3, LengthIsEight

\* The trampoline of every vector in use is where its gate says.
LEMMA TrampolinesAt == \A v \in Vectors : generate_trampolines[v] = Trampoline(v)
BY TrampolinesFollow
   DEF Vectors, Trampoline, DIVISION_ERROR_VECTOR, GP, PF, SYSTEM_TIMER_VECTOR,
       KEYBOARD_VECTOR, MOUSE_VECTOR, EXIT_VECTOR

\* A trampoline pushes the vector it was laid down for.
LEMMA PushedIsVector ==
  ASSUME NEW v \in Vectors
  PROVE  /\ IsTarget(Trampoline(v)) /\ Trampoline(v) # TIMER
         /\ VectorPushedAt(Trampoline(v)) = v
<1>1. Vectors \subseteq Nat
  BY DEF Vectors, DIVISION_ERROR_VECTOR, GP, PF, SYSTEM_TIMER_VECTOR, KEYBOARD_VECTOR,
         MOUSE_VECTOR, EXIT_VECTOR
<1>2. \A w \in Vectors : Trampoline(v) = generate_trampolines[w] <=> w = v
  BY <1>1, TrampolinesAt DEF Trampoline
<1>3. VectorPushedAt(Trampoline(v)) = v
  BY <1>2 DEF VectorPushedAt
<1> QED
  BY <1>1, <1>2, <1>3 DEF IsTarget, Trampoline, TIMER

-----------------------------------------------------------------------------
(***************************************************************************)
(* Descriptors.                                                            *)
(***************************************************************************)

LEMMA VectorNumbers ==
  /\ Vectors = {0, 13, 14, 32, 33, 44, 49} /\ Vectors \subseteq Nat
  /\ DIVISION_ERROR_VECTOR = 0 /\ GP = 13 /\ PF = 14 /\ SYSTEM_TIMER_VECTOR = 32
  /\ KEYBOARD_VECTOR = 33 /\ MOUSE_VECTOR = 44 /\ EXIT_VECTOR = 49
BY DEF Vectors, DIVISION_ERROR_VECTOR, GP, PF, SYSTEM_TIMER_VECTOR, KEYBOARD_VECTOR,
       MOUSE_VECTOR, EXIT_VECTOR

\* Field n of one gate is written, in the order of Fields.
FieldWritten(n, vector, dpl, target) ==
  idt' = [idt EXCEPT ![vector][Fields[n]] =
            Gate("INTERRUPT_GATE", dpl, target, TRUE)[Fields[n]]]

LEMMA OneFieldWritten ==
  ASSUME InterruptsTyped,
         NEW n \in 1 .. 5, NEW vector \in Vectors,
         NEW dpl \in {"KERNEL_PL", "USER_PL"}, NEW target \in Int,
         FieldWritten(n, vector, dpl, target)
  PROVE  /\ idt' \in [Vectors -> Gates]
         /\ \A v \in Vectors \ {vector} : idt'[v] = idt[v]
         /\ idt'[vector].dpl = IF n = 2 THEN dpl ELSE idt[vector].dpl
         /\ idt'[vector].offset_low = IF n = 3 THEN target ELSE idt[vector].offset_low
         /\ idt'[vector].offset_high = IF n = 4 THEN target ELSE idt[vector].offset_high
         /\ idt'[vector].present <=> (n = 5 \/ idt[vector].present)
<1> DEFINE gate == Gate("INTERRUPT_GATE", dpl, target, TRUE)
<1>1. idt \in [Vectors -> Gates] /\ idt[vector] \in Gates
  BY DEF InterruptsTyped
<1>2. \A v \in Vectors \ {vector} : idt'[v] = idt[v]
  BY <1>1 DEF FieldWritten
<1>3. /\ gate.type = "INTERRUPT_GATE" /\ gate.dpl = dpl /\ gate.offset_low = target
      /\ gate.offset_high = target /\ gate.present = TRUE
  BY DEF Gate
<1>4. idt'[vector] = [idt[vector] EXCEPT ![Fields[n]] = gate[Fields[n]]]
  BY <1>1 DEF FieldWritten
<1>5. idt' = [idt EXCEPT ![vector] = idt'[vector]]
  BY <1>1, <1>4 DEF FieldWritten
<1> HIDE DEF gate
<1>6. CASE n = 1
  <2>1. idt'[vector] = [idt[vector] EXCEPT !.type = "INTERRUPT_GATE"]
    BY <1>3, <1>4, <1>6 DEF Fields
  <2>2. idt'[vector] \in Gates
    BY <1>1, <2>1 DEF Gates
  <2>3. idt' \in [Vectors -> Gates]
    BY <1>1, <1>5, <2>2
  <2> QED
    BY <1>1, <1>2, <1>6, <2>1, <2>2, <2>3 DEF Gates
<1>7. CASE n = 2
  <2>1. idt'[vector] = [idt[vector] EXCEPT !.dpl = dpl]
    BY <1>3, <1>4, <1>7 DEF Fields
  <2>2. idt'[vector] \in Gates
    BY <1>1, <2>1 DEF Gates
  <2>3. idt' \in [Vectors -> Gates]
    BY <1>1, <1>5, <2>2
  <2> QED
    BY <1>1, <1>2, <1>7, <2>1, <2>2, <2>3 DEF Gates
<1>8. CASE n = 3
  <2>1. idt'[vector] = [idt[vector] EXCEPT !.offset_low = target]
    BY <1>3, <1>4, <1>8 DEF Fields
  <2>2. idt'[vector] \in Gates
    BY <1>1, <2>1 DEF Gates
  <2>3. idt' \in [Vectors -> Gates]
    BY <1>1, <1>5, <2>2
  <2> QED
    BY <1>1, <1>2, <1>8, <2>1, <2>2, <2>3 DEF Gates
<1>9. CASE n = 4
  <2>1. idt'[vector] = [idt[vector] EXCEPT !.offset_high = target]
    BY <1>3, <1>4, <1>9 DEF Fields
  <2>2. idt'[vector] \in Gates
    BY <1>1, <2>1 DEF Gates
  <2>3. idt' \in [Vectors -> Gates]
    BY <1>1, <1>5, <2>2
  <2> QED
    BY <1>1, <1>2, <1>9, <2>1, <2>2, <2>3 DEF Gates
<1>10. CASE n = 5
  <2>1. idt'[vector] = [idt[vector] EXCEPT !.present = TRUE]
    BY <1>3, <1>4, <1>10 DEF Fields
  <2>2. idt'[vector] \in Gates
    BY <1>1, <2>1 DEF Gates
  <2>3. idt' \in [Vectors -> Gates]
    BY <1>1, <1>5, <2>2
  <2>4. idt'[vector].present
    BY <1>1, <2>1 DEF Gates
  <2> QED
    BY <1>1, <1>2, <1>10, <2>1, <2>2, <2>3, <2>4 DEF Gates
<1> QED
  BY <1>6, <1>7, <1>8, <1>9, <1>10

-----------------------------------------------------------------------------
(***************************************************************************)
(* Each step of Interrupts keeps its invariant.                            *)
(***************************************************************************)

LEMMA InterruptsInitInv == Init => InterruptsInv
<1> SUFFICES ASSUME Init PROVE InterruptsInv
  OBVIOUS
<1> USE VectorNumbers DEF Init, Gate, NoTarget
<1>1. InterruptsTyped
  <2>1. idt \in [Vectors -> Gates]
    BY DEF Gates
  <2>2. handlerTable \in [Vectors -> HandlerNames]
    BY DEF HandlerNames
  <2>3. masked \in [master : SUBSET (0 .. 7), slave : SUBSET (0 .. 7)]
    OBVIOUS
  <2>4. pc \in Places /\ step \in 0 .. CONTEXT_WORDS
    BY DEF Places, BeforeSti, BeforePic, CONTEXT_WORDS
  <2>5. interrupts_on \in BOOLEAN /\ started \in BOOLEAN /\ intact \in BOOLEAN
    OBVIOUS
  <2>6. frames = <<>>
    OBVIOUS
  <2> HIDE DEF Init
  <2> QED
    BY <2>1, <2>2, <2>3, <2>4, <2>5, <2>6 DEF InterruptsTyped
<1>2. GatesLead
  BY DEF GatesLead, Handlers
<1>3. LinesReady /\ Written /\ OffWhen
  BY DEF LinesReady, Written, OffWhen, BeforeSti, BeforePic
<1> QED
  BY <1>1, <1>2, <1>3 DEF InterruptsInv, HandledAlone, IretFindsItsFrame

\* Without a frame, there is nothing to say of frames.
LEMMA NoFrames ==
  ASSUME frames' = <<>>
  PROVE  HandledAlone' /\ IretFindsItsFrame'
BY DEF HandledAlone, IretFindsItsFrame

\* The steps of kernel_entry that leave descriptors and handlers alone.
LEMMA PlainStep ==
  ASSUME InterruptsInv,
         \/ init_pic \/ enable_timer \/ sti \/ detected \/ enable_keyboard \/ send_first
         \/ experiment \/ choose_experiment \/ enable_clr \/ switch_process
         \/ restore_context
  PROVE  InterruptsInv'
<1> USE VectorNumbers, InterruptsAssumption DEF InterruptsInv
<1>1. idt' = idt /\ handlerTable' = handlerTable /\ frames = <<>> /\ frames' = <<>>
  BY DEF init_pic, InitPic, enable_timer, sti, detected, enable_keyboard, send_first,
         experiment, choose_experiment, enable_clr, switch_process, restore_context, pop,
         iret, enable_io_devices, disable_io_devices, Proceed, Runs, SwitchProcess, tables
<1>2. InterruptsTyped'
  <2>1. pc' \in Places /\ step' \in 0 .. CONTEXT_WORDS
    BY <1>1
       DEF init_pic, InitPic, enable_timer, sti, detected, enable_keyboard, send_first,
           experiment, choose_experiment, enable_clr, switch_process, restore_context, pop,
           iret, enable_io_devices, disable_io_devices, Proceed, Runs, SwitchProcess,
           InterruptsTyped, Written, Places, BeforeSti, BeforePic, AfterSti, CONTEXT_WORDS
  <2>2. masked' \in [master : SUBSET (0 .. 7), slave : SUBSET (0 .. 7)]
    BY <1>1
       DEF init_pic, InitPic, enable_timer, sti, detected, enable_keyboard, send_first,
           experiment, choose_experiment, enable_clr, switch_process, restore_context, pop,
           iret, enable_io_devices, disable_io_devices, Proceed, Runs, SwitchProcess,
           InterruptsTyped, pic, SYSTEM_TIMER, KEYBOARD
  <2>3. interrupts_on' \in BOOLEAN /\ started' \in BOOLEAN /\ intact' \in BOOLEAN
    BY <1>1
       DEF init_pic, InitPic, enable_timer, sti, detected, enable_keyboard, send_first,
           experiment, choose_experiment, enable_clr, switch_process, restore_context, pop,
           iret, enable_io_devices, disable_io_devices, Proceed, Runs, SwitchProcess,
           InterruptsTyped, process
  <2> QED
    BY <1>1, <2>1, <2>2, <2>3 DEF InterruptsTyped
<1>3. GatesLead'
  BY <1>1
     DEF init_pic, InitPic, enable_timer, sti, detected, enable_keyboard, send_first,
         experiment, choose_experiment, enable_clr, switch_process, restore_context, pop,
         iret, enable_io_devices, disable_io_devices, Proceed, Runs, SwitchProcess, GatesLead
<1>4. LinesReady'
  BY <1>1
     DEF init_pic, InitPic, enable_timer, sti, detected, enable_keyboard, send_first,
         experiment, choose_experiment, enable_clr, switch_process, restore_context, pop,
         iret, enable_io_devices, disable_io_devices, Proceed, Runs, SwitchProcess, pic,
         LinesReady, Written, BeforeSti, BeforePic, AfterSti, TimerReady, KeyboardReady,
         TimerOff, SYSTEM_TIMER, KEYBOARD, CASCADE, InterruptsTyped
<1>5. Written'
  BY <1>1
     DEF init_pic, InitPic, enable_timer, sti, detected, enable_keyboard, send_first,
         experiment, choose_experiment, enable_clr, switch_process, restore_context, pop,
         iret, enable_io_devices, disable_io_devices, Proceed, Runs, SwitchProcess,
         Written, TimerReady, CONTEXT_WORDS
<1>6. OffWhen'
  BY <1>1
     DEF init_pic, InitPic, enable_timer, sti, detected, enable_keyboard, send_first,
         experiment, choose_experiment, enable_clr, switch_process, restore_context, pop,
         iret, enable_io_devices, disable_io_devices, Proceed, Runs, SwitchProcess, process,
         OffWhen, BeforeSti, BeforePic
<1> QED
  BY <1>1, <1>2, <1>3, <1>4, <1>5, <1>6, NoFrames

LEMMA TablesLaidDown ==
  ASSUME InterruptsInv, init_interrupts
  PROVE  InterruptsInv'
<1> USE VectorNumbers DEF InterruptsInv, init_interrupts, Proceed, Runs
<1>1. frames = <<>> /\ frames' = <<>> /\ pc = "init_interrupts" /\ pc' = "set_pagefault"
  OBVIOUS
<1>2. \A v \in Vectors :
        /\ Gate("INTERRUPT_GATE", "KERNEL_PL", Trampoline(v), v < EXCEPTION_COUNT) \in Gates
        /\ idt'[v].dpl = "KERNEL_PL"
        /\ idt'[v].offset_low = Trampoline(v) /\ idt'[v].offset_high = Trampoline(v)
  BY DEF Gate, Gates, Trampoline, EXCEPTION_COUNT
<1>3. InterruptsTyped'
  BY <1>1, <1>2
     DEF InterruptsTyped, Places, BeforeSti, BeforePic, HandlerNames, CONTEXT_WORDS, pic,
         process
<1>4. GatesLead'
  BY <1>1, <1>2 DEF GatesLead, Targets, Handlers
<1>5. LinesReady' /\ Written' /\ OffWhen'
  BY <1>1 DEF LinesReady, Written, OffWhen, BeforeSti, BeforePic, process
<1> QED
  BY <1>1, <1>3, <1>4, <1>5, NoFrames

\* What a step of set_interrupt_handler leaves alone, and how far it comes.
WritesOn(from, to, vector, handler) ==
  /\ pc = from /\ frames = <<>> /\ frames' = <<>>
  /\ UNCHANGED <<pic, process, interrupts_on>>
  /\ \A v \in Vectors \ {vector} :
       idt'[v] = idt[v] /\ handlerTable'[v] = handlerTable[v]
  /\ handlerTable'[vector] = IF step = 0 THEN handler ELSE handlerTable[vector]
  /\ idt'[vector].offset_low =
       IF step = 3 THEN Trampoline(vector) ELSE idt[vector].offset_low
  /\ idt'[vector].offset_high =
       IF step = 4 THEN Trampoline(vector) ELSE idt[vector].offset_high
  /\ idt'[vector].present <=> (step = 5 \/ idt[vector].present)
  /\ IF step = 5 THEN pc' = to /\ step' = 0 ELSE pc' = from /\ step' = step + 1

\* What the four uses of set_interrupt_handler have in common.
LEMMA HandlerSet ==
  ASSUME InterruptsInv,
         NEW from, NEW to, NEW vector \in Vectors, NEW dpl \in {"KERNEL_PL", "USER_PL"},
         NEW handler,
         dpl = "USER_PL" => vector = EXIT_VECTOR,
         handler \in Handlers(vector), handler # NULL,
         {from, to} \subseteq Places \ {"init_interrupts"}, step <= 5,
         set_interrupt_handler(from, to, vector, "INTERRUPT_GATE", dpl, handler)
  PROVE  /\ InterruptsTyped' /\ HandledAlone' /\ GatesLead' /\ IretFindsItsFrame'
         /\ WritesOn(from, to, vector, handler)
<1> USE VectorNumbers DEF InterruptsInv
<1>1. /\ pc = from /\ frames = <<>> /\ frames' = <<>>
      /\ UNCHANGED <<pic, process, interrupts_on>>
  BY DEF set_interrupt_handler, direct_set_interrupt_handler, Runs
<1>2. step \in 0 .. 5 /\ Trampoline(vector) \in Int
  BY DEF InterruptsTyped, Trampoline, CONTEXT_WORDS
<1>3. handler \in HandlerNames
  BY DEF Handlers, HandlerNames
<1>4. CASE step = 0
  <2>1. /\ handlerTable' = [handlerTable EXCEPT ![vector] = handler]
        /\ step' = 1 /\ pc' = pc /\ idt' = idt
    BY <1>4 DEF set_interrupt_handler, direct_set_interrupt_handler
  <2>2. InterruptsTyped'
    BY <1>1, <1>3, <2>1 DEF InterruptsTyped, CONTEXT_WORDS, pic, process
  <2>3. GatesLead'
    BY <1>1, <2>1 DEF GatesLead, InterruptsTyped
  <2> QED
    BY <1>1, <1>4, <2>1, <2>2, <2>3, NoFrames DEF InterruptsTyped, WritesOn
<1>5. CASE step # 0
  <2>1. /\ direct_set_interrupt_handler(from, 1, to, vector, "INTERRUPT_GATE", dpl,
                                       Trampoline(vector))
        /\ handlerTable' = handlerTable
    BY <1>5 DEF set_interrupt_handler, direct_set_interrupt_handler
  <2>2. /\ idt' \in [Vectors -> Gates]
        /\ \A v \in Vectors \ {vector} : idt'[v] = idt[v]
        /\ idt'[vector].dpl = IF step = 2 THEN dpl ELSE idt[vector].dpl
        /\ idt'[vector].offset_low = IF step = 3 THEN Trampoline(vector)
                                                 ELSE idt[vector].offset_low
        /\ idt'[vector].offset_high = IF step = 4 THEN Trampoline(vector)
                                                  ELSE idt[vector].offset_high
        /\ idt'[vector].present <=> (step = 5 \/ idt[vector].present)
        /\ IF step = 5 THEN pc' = to /\ step' = 0 ELSE pc' = from /\ step' = step + 1
    <3>1. PICK n \in 1 .. 5 : n = step
      BY <1>2, <1>5
    <3>2. /\ FieldWritten(n, vector, dpl, Trampoline(vector))
          /\ IF step = 5 THEN pc' = to /\ step' = 0 ELSE pc' = from /\ step' = step + 1
      BY <1>2, <2>1, <3>1, n - 1 + 1 = n, Len(Fields) = 5
         DEF direct_set_interrupt_handler, FieldWritten, Fields
    <3>3. /\ idt' \in [Vectors -> Gates]
          /\ \A v \in Vectors \ {vector} : idt'[v] = idt[v]
          /\ idt'[vector].dpl = IF n = 2 THEN dpl ELSE idt[vector].dpl
          /\ idt'[vector].offset_low = IF n = 3 THEN Trampoline(vector)
                                                ELSE idt[vector].offset_low
          /\ idt'[vector].offset_high = IF n = 4 THEN Trampoline(vector)
                                                 ELSE idt[vector].offset_high
          /\ idt'[vector].present <=> (n = 5 \/ idt[vector].present)
      BY <1>2, <3>2, OneFieldWritten
    <3> QED
      BY <3>1, <3>2, <3>3
  <2>3. pc' \in Places /\ step' \in 0 .. CONTEXT_WORDS
    BY <1>1, <1>2, <2>2 DEF InterruptsTyped, CONTEXT_WORDS
  <2>4. InterruptsTyped'
    BY <1>1, <2>1, <2>2, <2>3 DEF InterruptsTyped, pic, process
  <2>5. pc # "init_interrupts"
    BY <1>1
  <2>6. Trampoline(vector) \in Targets(vector)
    BY DEF Targets
  <2>7. GatesLead'
    <3> SUFFICES ASSUME NEW v \in Vectors
                 PROVE  /\ {idt'[v].offset_low, idt'[v].offset_high} \subseteq Targets(v)
                        /\ handlerTable'[v] \in Handlers(v)
                        /\ idt'[v].dpl = "USER_PL" => v = EXIT_VECTOR
                        /\ pc' # "init_interrupts"
      BY DEF GatesLead
    <3>1. pc' # "init_interrupts"
      BY <1>1, <2>2, <2>5
    <3> QED
      BY <2>1, <2>2, <2>5, <2>6, <3>1 DEF GatesLead
  <2> QED
    BY <1>1, <1>2, <1>5, <2>1, <2>2, <2>4, <2>7, NoFrames DEF WritesOn
<1> QED
  BY <1>4, <1>5

LEMMA PagefaultSet ==
  ASSUME InterruptsInv, set_pagefault
  PROVE  InterruptsInv'
<1> DEFINE vector == PF
<1>1. /\ set_interrupt_handler("set_pagefault", "init_pic", vector,
                               "INTERRUPT_GATE", "KERNEL_PL", "pagefault_handler")
      /\ pc = "set_pagefault"
  BY DEF set_pagefault, set_interrupt_handler, direct_set_interrupt_handler, Runs
<1>2. /\ vector \in Vectors
      /\ "pagefault_handler" \in Handlers(vector) /\ "pagefault_handler" # NULL
      /\ {"set_pagefault", "init_pic"} \subseteq Places \ {"init_interrupts"}
  BY VectorNumbers DEF Handlers, NULL, Places, BeforeSti, BeforePic, AfterSti
<1>3. step <= 5 /\ step \in 0 .. CONTEXT_WORDS
  BY <1>1 DEF InterruptsInv, Written, InterruptsTyped
<1>4. /\ InterruptsTyped' /\ HandledAlone' /\ GatesLead' /\ IretFindsItsFrame'
      /\ WritesOn("set_pagefault", "init_pic", vector, "pagefault_handler")
  BY <1>1, <1>2, <1>3, HandlerSet
<1>5. LinesReady'
  BY <1>1, <1>3, <1>4, VectorNumbers
     DEF WritesOn, InterruptsInv, LinesReady, Written, TimerReady, KeyboardReady, TimerOff,
         BeforeSti, BeforePic, AfterSti, pic
<1>6. Written'
  BY <1>1, <1>3, <1>4, VectorNumbers
     DEF WritesOn, InterruptsInv, Written, TimerReady, KeyboardReady, CONTEXT_WORDS
<1>7. OffWhen'
  BY <1>1, <1>4
     DEF WritesOn, InterruptsInv, OffWhen, BeforeSti, BeforePic, AfterSti, process
<1> QED
  BY <1>4, <1>5, <1>6, <1>7 DEF InterruptsInv

LEMMA KeyboardSet ==
  ASSUME InterruptsInv, set_keyboard
  PROVE  InterruptsInv'
<1> DEFINE vector == KEYBOARD_VECTOR
<1>1. /\ set_interrupt_handler("set_keyboard", "enable_keyboard", vector,
                               "INTERRUPT_GATE", "KERNEL_PL", "keyboard_handler")
      /\ pc = "set_keyboard"
  BY DEF set_keyboard, set_interrupt_handler, direct_set_interrupt_handler, Runs
<1>2. /\ vector \in Vectors
      /\ "keyboard_handler" \in Handlers(vector) /\ "keyboard_handler" # NULL
      /\ {"set_keyboard", "enable_keyboard"} \subseteq Places \ {"init_interrupts"}
  BY VectorNumbers DEF Handlers, NULL, Places, BeforeSti, BeforePic, AfterSti
<1>3. step <= 5 /\ step \in 0 .. CONTEXT_WORDS
  BY <1>1 DEF InterruptsInv, Written, InterruptsTyped
<1>4. /\ InterruptsTyped' /\ HandledAlone' /\ GatesLead' /\ IretFindsItsFrame'
      /\ WritesOn("set_keyboard", "enable_keyboard", vector, "keyboard_handler")
  BY <1>1, <1>2, <1>3, HandlerSet
<1>5. LinesReady'
  BY <1>1, <1>3, <1>4, VectorNumbers
     DEF WritesOn, InterruptsInv, LinesReady, Written, TimerReady, KeyboardReady, TimerOff,
         BeforeSti, BeforePic, AfterSti, pic
<1>6. Written'
  BY <1>1, <1>3, <1>4, VectorNumbers
     DEF WritesOn, InterruptsInv, Written, TimerReady, KeyboardReady, CONTEXT_WORDS
<1>7. OffWhen'
  BY <1>1, <1>4
     DEF WritesOn, InterruptsInv, OffWhen, BeforeSti, BeforePic, AfterSti, process
<1> QED
  BY <1>4, <1>5, <1>6, <1>7 DEF InterruptsInv

LEMMA SyscallsRegistered ==
  ASSUME InterruptsInv, register_syscalls
  PROVE  InterruptsInv'
<1> DEFINE vector == EXIT_VECTOR
<1>1. /\ set_interrupt_handler("register_syscalls", "experiment", vector,
                               "INTERRUPT_GATE", "USER_PL", "exit")
      /\ pc = "register_syscalls"
  BY DEF register_syscalls, set_interrupt_handler, direct_set_interrupt_handler, Runs
<1>2. /\ vector \in Vectors
      /\ "exit" \in Handlers(vector) /\ "exit" # NULL
      /\ {"register_syscalls", "experiment"} \subseteq Places \ {"init_interrupts"}
  BY VectorNumbers DEF Handlers, NULL, Places, BeforeSti, BeforePic, AfterSti
<1>3. step <= 5 /\ step \in 0 .. CONTEXT_WORDS
  BY <1>1 DEF InterruptsInv, Written, InterruptsTyped
<1>4. /\ InterruptsTyped' /\ HandledAlone' /\ GatesLead' /\ IretFindsItsFrame'
      /\ WritesOn("register_syscalls", "experiment", vector, "exit")
  BY <1>1, <1>2, <1>3, HandlerSet
<1>5. LinesReady'
  BY <1>1, <1>3, <1>4, VectorNumbers
     DEF WritesOn, InterruptsInv, LinesReady, Written, TimerReady, KeyboardReady, TimerOff,
         BeforeSti, BeforePic, AfterSti, pic
<1>6. Written'
  BY <1>1, <1>3, <1>4, VectorNumbers
     DEF WritesOn, InterruptsInv, Written, TimerReady, KeyboardReady, CONTEXT_WORDS
<1>7. OffWhen'
  BY <1>1, <1>4
     DEF WritesOn, InterruptsInv, OffWhen, BeforeSti, BeforePic, AfterSti, process
<1> QED
  BY <1>4, <1>5, <1>6, <1>7 DEF InterruptsInv

LEMMA ClrSet ==
  ASSUME InterruptsInv, set_clr
  PROVE  InterruptsInv'
<1> DEFINE vector == SYSTEM_TIMER_VECTOR
<1>1. /\ set_interrupt_handler("set_clr", "enable_clr", vector,
                               "INTERRUPT_GATE", "KERNEL_PL", "clr")
      /\ pc = "set_clr"
  BY DEF set_clr, set_interrupt_handler, direct_set_interrupt_handler, Runs
<1>2. /\ vector \in Vectors
      /\ "clr" \in Handlers(vector) /\ "clr" # NULL
      /\ {"set_clr", "enable_clr"} \subseteq Places \ {"init_interrupts"}
  BY VectorNumbers DEF Handlers, NULL, Places, BeforeSti, BeforePic, AfterSti
<1>3. step <= 5 /\ step \in 0 .. CONTEXT_WORDS
  BY <1>1 DEF InterruptsInv, Written, InterruptsTyped
<1>4. /\ InterruptsTyped' /\ HandledAlone' /\ GatesLead' /\ IretFindsItsFrame'
      /\ WritesOn("set_clr", "enable_clr", vector, "clr")
  BY <1>1, <1>2, <1>3, HandlerSet
<1>5. LinesReady'
  BY <1>1, <1>3, <1>4, VectorNumbers
     DEF WritesOn, InterruptsInv, LinesReady, Written, TimerReady, KeyboardReady, TimerOff,
         BeforeSti, BeforePic, AfterSti, pic
<1>6. Written'
  BY <1>1, <1>3, <1>4, VectorNumbers
     DEF WritesOn, InterruptsInv, Written, TimerReady, KeyboardReady, CONTEXT_WORDS
<1>7. OffWhen'
  BY <1>1, <1>4
     DEF WritesOn, InterruptsInv, OffWhen, BeforeSti, BeforePic, AfterSti, process
<1> QED
  BY <1>4, <1>5, <1>6, <1>7 DEF InterruptsInv

LEMMA TimerSet ==
  ASSUME InterruptsInv, set_timer
  PROVE  InterruptsInv'
<1> USE VectorNumbers DEF InterruptsInv
<1> DEFINE vector == SYSTEM_TIMER_VECTOR
<1>1. /\ pc = "set_timer" /\ frames = <<>> /\ frames' = <<>> /\ handlerTable' = handlerTable
      /\ UNCHANGED <<pic, process, interrupts_on>>
  BY DEF set_timer, direct_set_interrupt_handler, Runs
<1>2. step \in 0 .. 4 /\ TIMER \in Int /\ vector \in Vectors
  BY <1>1 DEF Written, InterruptsTyped, TIMER, CONTEXT_WORDS
<1>3. PICK n \in 1 .. 5 : n = step + 1
  BY <1>2
<1>4. /\ FieldWritten(n, vector, "KERNEL_PL", TIMER)
      /\ IF n = 5 THEN pc' = "enable_timer" /\ step' = 0
                  ELSE pc' = "set_timer" /\ step' = step + 1
  BY <1>2, <1>3, step - 0 + 1 = n, Len(Fields) = 5
     DEF set_timer, direct_set_interrupt_handler, FieldWritten, Fields
<1>5. /\ idt' \in [Vectors -> Gates]
      /\ \A v \in Vectors \ {vector} : idt'[v] = idt[v]
      /\ idt'[vector].dpl = IF n = 2 THEN "KERNEL_PL" ELSE idt[vector].dpl
      /\ idt'[vector].offset_low = IF n = 3 THEN TIMER ELSE idt[vector].offset_low
      /\ idt'[vector].offset_high = IF n = 4 THEN TIMER ELSE idt[vector].offset_high
      /\ idt'[vector].present <=> (n = 5 \/ idt[vector].present)
  BY <1>2, <1>4, OneFieldWritten
<1>6. InterruptsTyped'
  BY <1>1, <1>2, <1>4, <1>5
     DEF InterruptsTyped, Places, BeforeSti, BeforePic, AfterSti, CONTEXT_WORDS, pic, process
<1>7. GatesLead'
  BY <1>1, <1>4, <1>5 DEF GatesLead, Targets
<1>8. LinesReady'
  BY <1>1, <1>4, <1>5 DEF LinesReady, BeforePic, TimerOff, TimerReady, KeyboardReady, pic
<1>9. Written'
  BY <1>1, <1>2, <1>3, <1>4, <1>5 DEF Written, TimerReady
<1>10. OffWhen'
  BY <1>1, <1>4 DEF OffWhen, BeforeSti, BeforePic, process
<1> QED
  BY <1>1, <1>6, <1>7, <1>8, <1>9, <1>10, NoFrames

LEMMA EntryStep == InterruptsInv /\ kernel_entry => InterruptsInv'
BY TablesLaidDown, PlainStep, PagefaultSet, TimerSet, KeyboardSet, SyscallsRegistered, ClrSet
   DEF kernel_entry

-----------------------------------------------------------------------------
(***************************************************************************)
(* Interrupts are taken and returned from.                                 *)
(***************************************************************************)

\* A line that can be delivered is one of the two that are ready.
LEMMA DeliverableIsReady ==
  ASSUME InterruptsInv, NEW line \in Lines, Deliverable(line)
  PROVE  /\ base + line \in {SYSTEM_TIMER_VECTOR, KEYBOARD_VECTOR}
         /\ base + line = SYSTEM_TIMER_VECTOR => TimerReady
         /\ base + line = KEYBOARD_VECTOR => KeyboardReady
         /\ pc \notin BeforeSti /\ interrupts_on /\ frames = <<>>
<1>1. interrupts_on /\ Unmasked(line)
  BY DEF Deliverable
<1>2. frames = <<>> /\ pc \notin BeforeSti
  BY <1>1 DEF InterruptsInv, HandledAlone, OffWhen
<1>3. base = 32 /\ CASCADE \in masked.master
  BY <1>2, VectorNumbers DEF InterruptsInv, LinesReady, BeforeSti
<1>4. line \in {0, 1} /\ line \notin masked.master
  BY <1>1, <1>3 DEF Lines, Unmasked
<1> QED
  BY <1>1, <1>2, <1>3, <1>4, VectorNumbers DEF InterruptsInv, LinesReady, BeforeSti

\* A whole gate is that of its vector's trampoline, or of timer_handler.
LEMMA WholeGate ==
  ASSUME InterruptsInv, NEW v \in Vectors, Whole(idt[v])
  PROVE  \/ idt[v].offset_low = TIMER /\ v = SYSTEM_TIMER_VECTOR
         \/ /\ idt[v].offset_low = Trampoline(v) /\ idt[v].offset_low # TIMER
            /\ VectorPushedAt(idt[v].offset_low) = v
BY PushedIsVector DEF Whole, InterruptsInv, GatesLead, Targets

LEMMA ReadyIsWhole ==
  ASSUME InterruptsInv, pc # "init_interrupts"
  PROVE  /\ TimerReady => Whole(idt[SYSTEM_TIMER_VECTOR])
         /\ KeyboardReady => Whole(idt[KEYBOARD_VECTOR])
<1>1. {SYSTEM_TIMER_VECTOR, KEYBOARD_VECTOR} \subseteq Vectors
  BY DEF Vectors
<1>2. IsTarget(TIMER)
  BY DEF IsTarget
<1> QED
  BY <1>1, <1>2, PushedIsVector, VectorNumbers
     DEF InterruptsInv, GatesLead, Targets, TimerReady, KeyboardReady, Whole

\* Taking an interrupt: the machine stops, or a frame is pushed and interrupts are off.
LEMMA EnterKeepsInv ==
  ASSUME InterruptsInv, frames = <<>>,
         NEW v \in Vectors, Enter(v, ErrorCode(v)), pc \notin BeforeSti,
         UNCHANGED <<pc, step, tables, pic, started>>,
         ~(started /\ pc = "restore_context")
  PROVE  InterruptsInv'
<1> USE VectorNumbers DEF InterruptsInv
<1>1. UNCHANGED <<idt, handlerTable, masked, base>>
  BY DEF tables, pic
<1>2. GatesLead' /\ LinesReady' /\ Written'
  BY <1>1 DEF GatesLead, LinesReady, Written, TimerReady, KeyboardReady
<1>3. CASE ~Whole(idt[v])
  <2>1. UNCHANGED <<frames, interrupts_on, intact>>
    BY <1>3 DEF Enter
  <2> QED
    BY <1>1, <1>2, <2>1 DEF InterruptsTyped, HandledAlone, OffWhen, IretFindsItsFrame
<1>4. CASE Whole(idt[v])
  <2> DEFINE direct == idt[v].offset_low = TIMER
  <2> DEFINE words ==
        ErrorCode(v) + IF direct THEN 0 ELSE 1 + IF has_error_code(v) THEN 0 ELSE 1
  <2>1. idt[v] \in Gates /\ idt[v].type = "INTERRUPT_GATE" /\ pc # "init_interrupts"
    BY <1>4 DEF InterruptsTyped, Gates, Whole, GatesLead
  <2>2. words = IF direct THEN 0 ELSE 2
    BY <1>4, WholeGate
       DEF ErrorCode, PushesErrorCode, has_error_code
  <2>3. PICK f : f = [handler |-> IF direct THEN "timer_handler" ELSE "universal",
                      vector  |-> v, eflags |-> interrupts_on, words |-> words]
    OBVIOUS
  <2>4. frames' = <<f>>
    <3>1. frames' = Append(frames,
             [handler |-> IF direct THEN "timer_handler" ELSE "universal",
              vector  |-> IF direct THEN v ELSE VectorPushedAt(idt[v].offset_low),
              eflags  |-> interrupts_on,
              words   |-> ErrorCode(v) + IF direct THEN 0
                ELSE 1 + IF has_error_code(VectorPushedAt(idt[v].offset_low)) THEN 0 ELSE 1])
      BY <1>4 DEF Enter
    <3>2. f = [handler |-> IF direct THEN "timer_handler" ELSE "universal",
               vector  |-> IF direct THEN v ELSE VectorPushedAt(idt[v].offset_low),
               eflags  |-> interrupts_on,
               words   |-> ErrorCode(v) + IF direct THEN 0
                 ELSE 1 + IF has_error_code(VectorPushedAt(idt[v].offset_low)) THEN 0 ELSE 1]
      <4>1. CASE direct
        BY <2>3, <4>1
      <4>2. CASE ~direct
        <5>1. VectorPushedAt(idt[v].offset_low) = v
          BY <1>4, <4>2, WholeGate
        <5> QED
          BY <2>3, <4>2, <5>1
      <4> QED
        BY <4>1, <4>2
    <3>3. frames' = Append(frames, f)
      BY <3>1, <3>2
    <3> QED
      BY <3>3
  <2>5. f \in Frames /\ f.eflags = interrupts_on
    BY <2>2, <2>3 DEF Frames, InterruptsTyped
  <2>6. ~interrupts_on' /\ interrupts_on' \in BOOLEAN
    <3>1. interrupts_on' = (interrupts_on /\ idt[v].type = "TRAP_GATE")
      BY <1>4 DEF Enter
    <3> QED
      BY <2>1, <3>1
  <2>7. intact' \in BOOLEAN
    BY <1>4 DEF Enter
  <2>8. frames' = <<frames'[1]>> /\ frames'[1] = f
    BY <2>4
  <2>9. InterruptsTyped'
    BY <1>1, <2>5, <2>6, <2>7, <2>8 DEF InterruptsTyped
  <2>10. HandledAlone'
    BY <2>6 DEF HandledAlone
  <2>11. OffWhen'
    BY <2>6 DEF OffWhen
  <2>12. IretFindsItsFrame'
    <3>1. f.words = IF f.handler = "universal" THEN 2 ELSE 0
      BY <2>2, <2>3
    <3>2. \A i \in 1 .. Len(frames') : frames'[i] = f
      BY <2>4
    <3> QED
      BY <3>1, <3>2 DEF IretFindsItsFrame
  <2> QED
    BY <1>2, <2>9, <2>10, <2>11, <2>12
<1> QED
  BY <1>3, <1>4

LEMMA DeliverStep ==
  ASSUME InterruptsInv, NEW line \in Lines, deliver(line)
  PROVE  InterruptsInv'
<1>1. Deliverable(line) /\ Enter(base + line, 0) /\ UNCHANGED <<pc, step, tables, pic, started>>
  BY DEF deliver
<1>2. /\ base + line \in Vectors /\ ErrorCode(base + line) = 0
      /\ pc \notin BeforeSti /\ interrupts_on /\ frames = <<>>
  BY <1>1, DeliverableIsReady, VectorNumbers DEF ErrorCode, PushesErrorCode
<1>3. ~(started /\ pc = "restore_context")
  BY <1>2 DEF InterruptsInv, OffWhen
<1> QED
  BY <1>1, <1>2, <1>3, EnterKeepsInv

LEMMA UserStep ==
  ASSUME InterruptsInv, page_fault \/ divide \/ \E vector \in Vectors : int(vector)
  PROVE  InterruptsInv'
<1>1. PICK v \in Vectors : FromUser(v, ErrorCode(v))
  <2>1. ASSUME NEW v \in Vectors, int(v) PROVE FromUser(v, ErrorCode(v)) \/ fault(GP)
    <3>1. CASE idt[v].dpl = "USER_PL"
      <4>1. v = EXIT_VECTOR
        BY <3>1 DEF InterruptsInv, GatesLead
      <4>2. ErrorCode(v) = 0
        BY <4>1, VectorNumbers DEF ErrorCode, PushesErrorCode
      <4> QED
        BY <2>1, <3>1, <4>2 DEF int
    <3> QED
      BY <2>1, <3>1 DEF int
  <2> QED
    BY <2>1, VectorNumbers DEF page_fault, divide, fault
<1>2. /\ frames = <<>> /\ pc = "user" /\ Enter(v, ErrorCode(v))
      /\ UNCHANGED <<pc, step, tables, pic, started>>
  BY <1>1 DEF FromUser, InUser, Runs
<1> QED
  BY <1>2, EnterKeepsInv DEF BeforeSti, BeforePic

LEMMA HandlerStep ==
  ASSUME InterruptsInv, Handler
  PROVE  InterruptsInv'
<1> USE DEF InterruptsInv
<1>1. frames # <<>>
  BY DEF Handler, handler_returns, handler_switches, unhandled, Handling
<1>2. /\ frames = <<frames[1]>> /\ frames[1] \in Frames /\ ~interrupts_on
      /\ pc \notin BeforeSti
      /\ ~(started /\ pc = "restore_context")
  BY <1>1 DEF InterruptsTyped, HandledAlone, OffWhen
<1>3. CASE Return
  <2>1. /\ UNCHANGED <<pc, step, idt, handlerTable, masked, base, started, intact>>
        /\ frames' = <<>> /\ interrupts_on' = frames[1].eflags
    <3>1. PICK f : f = frames[1]
      OBVIOUS
    <3>2. frames = <<f>>
      BY <1>2, <3>1
    <3> QED
      BY <1>3, <3>1, <3>2 DEF Return, Front, Last, tables, pic, process
  <2>2. interrupts_on' \in BOOLEAN
    BY <1>2, <2>1 DEF Frames
  <2>3. InterruptsTyped'
    BY <2>1, <2>2 DEF InterruptsTyped
  <2>4. GatesLead' /\ LinesReady' /\ Written'
    BY <2>1 DEF GatesLead, LinesReady, Written, TimerReady, KeyboardReady
  <2>5. OffWhen'
    BY <1>2, <2>1 DEF OffWhen
  <2> QED
    BY <2>1, <2>3, <2>4, <2>5, NoFrames
<1>4. CASE SwitchProcess
  <2>1. /\ UNCHANGED <<idt, handlerTable, masked, base, interrupts_on, started, intact>>
        /\ pc' = "restore_context" /\ step' = 0 /\ frames' = <<>>
    BY <1>4 DEF SwitchProcess, tables, pic, process
  <2>2. InterruptsTyped'
    BY <2>1 DEF InterruptsTyped, Places, CONTEXT_WORDS
  <2>3. GatesLead' /\ Written'
    BY <1>2, <2>1 DEF GatesLead, Written, BeforeSti, BeforePic
  <2>4. LinesReady'
    BY <1>2, <2>1 DEF LinesReady, TimerReady, KeyboardReady, TimerOff, BeforeSti
  <2>5. OffWhen'
    BY <1>2, <2>1 DEF OffWhen, BeforeSti, BeforePic
  <2> QED
    BY <2>1, <2>2, <2>3, <2>4, <2>5, NoFrames
<1>5. CASE unhandled
  <2>1. UNCHANGED <<pc, step, idt, handlerTable, masked, base, interrupts_on, started, intact,
                    frames>>
    BY <1>5 DEF unhandled, tables, pic, process
  <2> QED
    BY <2>1
       DEF InterruptsTyped, HandledAlone, GatesLead, LinesReady, Written, OffWhen,
           IretFindsItsFrame, TimerReady, KeyboardReady
<1> QED
  BY <1>3, <1>4, <1>5 DEF Handler, handler_returns, handler_switches

LEMMA InterruptsNextInv == InterruptsInv /\ [Next]_interrupts_vars => InterruptsInv'
<1> SUFFICES ASSUME InterruptsInv, [Next]_interrupts_vars PROVE InterruptsInv'
  OBVIOUS
<1>1. ASSUME UNCHANGED <<pc, step, idt, handlerTable, masked, base, interrupts_on, started,
                         intact, frames>>
      PROVE  InterruptsInv'
  BY <1>1
     DEF InterruptsInv, InterruptsTyped, HandledAlone, GatesLead, LinesReady, Written, OffWhen,
         IretFindsItsFrame, TimerReady, KeyboardReady
<1>2. ASSUME NEW line \in Lines, raise(line) PROVE InterruptsInv'
  BY <1>1, <1>2 DEF raise, tables, pic, process
<1>3. CASE UNCHANGED interrupts_vars
  BY <1>1, <1>3 DEF interrupts_vars, tables, pic, process
<1> QED
  BY <1>2, <1>3, EntryStep, HandlerStep, DeliverStep, UserStep DEF Next

-----------------------------------------------------------------------------
(***************************************************************************)
(* The machine.                                                            *)
(***************************************************************************)

LEMMA IsInterruptsStep == [MachineNext]_machine_vars => [Next]_interrupts_vars
<1> SUFFICES ASSUME MachineNext PROVE [Next]_interrupts_vars
  BY DEF machine_vars
<1>1. CASE kernel_runs
  BY <1>1 DEF kernel_runs, Next
<1>2. CASE kernel_waits
  BY <1>2 DEF kernel_waits
<1>3. CASE timer_ticks
  BY <1>3 DEF timer_ticks, Next, Handler, handler_returns, Handling
<1>4. CASE keyboard_sends
  BY <1>4 DEF keyboard_sends
<1>5. CASE handler_ends
  BY <1>5 DEF handler_ends, Next
<1>6. CASE user
  BY <1>6 DEF user, Next
<1>7. ASSUME NEW line \in Lines, device(line) \/ processor(line) PROVE Next
  BY <1>7 DEF device, processor, Next
<1> QED
  BY <1>1, <1>2, <1>3, <1>4, <1>5, <1>6, <1>7 DEF MachineNext, handlers

\* The clock and the kernel's waits: ticks are interrupts of the timer.
LEMMA IsTimerStep == [MachineNext]_machine_vars => [TimerNext]_timer_vars
<1> SUFFICES ASSUME MachineNext PROVE [TimerNext]_timer_vars
  BY DEF machine_vars
<1>1. CASE kernel_waits
  BY <1>1 DEF kernel_waits, TimerNext
<1>2. CASE timer_ticks
  BY <1>2 DEF timer_ticks, TimerNext
<1>3. CASE keyboard_sends
  <2>1. UNCHANGED clock
    BY <1>3
       DEF keyboard_sends, Keyboard!Wait, Keyboard!read_millis, Keyboard!read_fractions,
           Keyboard!look_millis, Keyboard!look_millis_again, Keyboard!look_fractions,
           Keyboard!not_ready, Keyboard!ready, Keyboard!return, Keyboard!Step, Keyboard!clock,
           clock
  <2> QED
    BY <1>3, <2>1 DEF keyboard_sends, timer_vars
<1>4. CASE handler_ends
  BY <1>4 DEF handler_ends, timer_vars, Keyboard!return, Keyboard!clock, clock
<1>5. CASE kernel_runs \/ user
  BY <1>5 DEF kernel_runs, user
<1>6. ASSUME NEW line \in Lines, device(line) \/ processor(line) PROVE UNCHANGED timer_vars
  BY <1>6 DEF device, processor
<1> QED
  BY <1>1, <1>2, <1>3, <1>4, <1>5, <1>6 DEF MachineNext, handlers

\* Whatever does not touch the wait of the handler, its frame or the clock.
LEMMA SendUndisturbed ==
  ASSUME HandlerSends, handler_pc \in HandlerPlaces,
         UNCHANGED keyboard_wait,
         handler_pc = "idle" \/ UNCHANGED <<frames, handlerTable, millis, millis_fractions>>
  PROVE  HandlerSends' /\ handler_pc' \in HandlerPlaces
BY DEF HandlerSends, keyboard_wait

\* A wait in the handler of the keyboard: no tick can come, so no deadline passes.
LEMMA KeyboardSendsStep ==
  ASSUME MachineInv, keyboard_sends
  PROVE  HandlerSends' /\ handler_pc' \in HandlerPlaces
<1> USE TimerAssumption, MachineAssumption
<1>1. /\ frames # <<>> /\ Last(frames).handler = "universal"
      /\ handlerTable[Last(frames).vector] = "keyboard_handler"
      /\ UNCHANGED <<frames, handlerTable>>
      /\ handler_pc \notin {"ready", "timed_out"}
  BY DEF keyboard_sends, Handling, Sent, interrupts_vars, tables
<1>2. UNCHANGED <<millis, millis_fractions>>
  BY DEF keyboard_sends, Keyboard!Wait, Keyboard!read_millis, Keyboard!read_fractions,
         Keyboard!look_millis, Keyboard!look_millis_again, Keyboard!look_fractions,
         Keyboard!not_ready, Keyboard!ready, Keyboard!return, Keyboard!Step, Keyboard!clock
<1>3. millis \in Nat /\ millis_fractions \in 0 .. F - 1
  BY DEF MachineInv, TimerInv, TimerTypeOK
<1>4. SUFFICES ASSUME handler_pc' # "idle"
               PROVE  /\ handler_pc' \in HandlerPlaces \ {"timed_out"}
                      /\ handler_pc' = "fractions" => handler_ms' = millis
                      /\ handler_pc' \in {"compare", "compare_again", "compare_low", "poll"} =>
                           \/ /\ handler_ms' = millis
                              /\ handler_msf' = millis_fractions + TIMEOUT_MSF
                           \/ handler_ms' = millis + 1
                      /\ handler_pc' \in {"compare_again", "compare_low"} =>
                           handler_ms' = millis
  BY <1>1, <1>2 DEF HandlerSends, HandlerPlaces
<1> USE DEF HandlerPlaces
<1>5. CASE Keyboard!read_millis
  BY <1>5 DEF Keyboard!read_millis
<1>6. CASE Keyboard!read_fractions
  <2> DEFINE sum == millis_fractions + TIMEOUT_MSF
  <2>1. /\ sum \div F = IF sum < F THEN 0 ELSE 1
        /\ sum % F = IF sum < F THEN sum ELSE sum - F
    BY <1>3, CarryFact
  <2>2. /\ handler_ms' = handler_ms + sum \div F /\ handler_msf' = sum % F
        /\ handler_pc = "fractions" /\ handler_pc' = "compare"
    BY <1>6 DEF Keyboard!read_fractions, Keyboard!add_32fp32
  <2>3. handler_ms = millis
    BY <2>2 DEF MachineInv, HandlerSends
  <2> HIDE DEF sum
  <2>4. (handler_ms' = millis /\ handler_msf' = sum) \/ handler_ms' = millis + 1
    BY <1>3, <2>1, <2>2, <2>3
  <2> QED
    BY <2>2, <2>4 DEF sum
<1>7. CASE \/ Keyboard!look_millis \/ Keyboard!look_millis_again \/ Keyboard!look_fractions
           \/ Keyboard!not_ready \/ Keyboard!ready
  <2>1. handler_ms' = handler_ms /\ handler_msf' = handler_msf
    BY <1>7 DEF Keyboard!look_millis, Keyboard!look_millis_again, Keyboard!look_fractions,
                Keyboard!not_ready, Keyboard!ready, Keyboard!Step
  <2>2. handler_pc \in {"compare", "compare_again", "compare_low", "poll"}
    BY <1>7 DEF Keyboard!look_millis, Keyboard!look_millis_again, Keyboard!look_fractions,
                Keyboard!not_ready, Keyboard!ready, Keyboard!Step
  <2>3. /\ \/ handler_ms = millis /\ handler_msf = millis_fractions + TIMEOUT_MSF
           \/ handler_ms = millis + 1
        /\ handler_pc \in {"compare_again", "compare_low"} => handler_ms = millis
    BY <2>2 DEF MachineInv, HandlerSends
  <2>4. handler_msf > millis_fractions \/ handler_ms > millis
    BY <1>3, <2>3
  <2>5. handler_pc = "compare_low" => handler_msf > millis_fractions
    BY <1>3, <2>3
  <2> QED
    BY <1>3, <1>7, <2>1, <2>2, <2>3, <2>5
       DEF Keyboard!look_millis, Keyboard!look_millis_again, Keyboard!look_fractions,
           Keyboard!not_ready, Keyboard!ready, Keyboard!Step
<1>8. CASE Keyboard!return
  BY <1>8 DEF Keyboard!return
<1> QED
  BY <1>5, <1>6, <1>7, <1>8 DEF keyboard_sends, Keyboard!Wait

LEMMA MachineInitInv == MachineInit => MachineInv
BY InterruptsInitInv, InitInv
   DEF MachineInit, MachineInv, HandlerSends, HandlerPlaces, Keyboard!TimerInit

LEMMA MachineNextInv == MachineInv /\ [MachineNext]_machine_vars => MachineInv'
<1> SUFFICES ASSUME MachineInv, [MachineNext]_machine_vars PROVE MachineInv'
  OBVIOUS
<1>1. InterruptsInv'
  BY IsInterruptsStep, InterruptsNextInv DEF MachineInv
<1>2. TimerInv'
  BY IsTimerStep, TickKeepsInv, WaitKeepsInv, StutterKeepsInv DEF MachineInv, TimerNext
<1>3. frames = <<>> => handler_pc = "idle"
  BY DEF MachineInv, HandlerSends
<1>4. HandlerSends' /\ handler_pc' \in HandlerPlaces
  <2> USE DEF MachineInv
  <2>1. CASE UNCHANGED machine_vars
    BY <2>1, SendUndisturbed
       DEF machine_vars, interrupts_vars, tables, timer_vars, clock
  <2>2. CASE kernel_runs \/ kernel_waits \/ user
    <3>1. UNCHANGED keyboard_wait
      BY <2>2 DEF kernel_runs, kernel_waits, user
    <3>2. frames = <<>>
      BY <2>2
         DEF kernel_runs, kernel_waits, user, Waits, Runs, kernel_entry, init_interrupts,
             set_pagefault, set_interrupt_handler, direct_set_interrupt_handler, init_pic,
             InitPic, set_timer, enable_timer, enable_io_devices, sti, detected, set_keyboard,
             enable_keyboard, send_first, register_syscalls, experiment, disable_io_devices,
             choose_experiment, set_clr, enable_clr, switch_process, restore_context, pop,
             iret, Proceed, page_fault, divide, int, fault, FromUser, InUser
    <3> QED
      BY <1>3, <3>1, <3>2, SendUndisturbed
  <2>3. CASE timer_ticks
    <3>1. handler_pc = "idle"
      BY <2>3 DEF timer_ticks, Handling, HandlerSends
    <3> QED
      BY <2>3, <3>1, SendUndisturbed DEF timer_ticks
  <2>4. CASE keyboard_sends
    BY <2>4, KeyboardSendsStep
  <2>5. CASE handler_ends
    <3>1. CASE handler_pc = "idle" /\ UNCHANGED keyboard_wait
      BY <3>1, SendUndisturbed
    <3>2. CASE Keyboard!return
      BY <3>2 DEF Keyboard!return, HandlerSends, HandlerPlaces
    <3> QED
      BY <2>5, <3>1, <3>2 DEF handler_ends
  <2>6. ASSUME NEW line \in Lines, device(line)
        PROVE  HandlerSends' /\ handler_pc' \in HandlerPlaces
    <3>1. UNCHANGED <<frames, handlerTable, millis, millis_fractions, keyboard_wait>>
      BY <2>6 DEF device, raise, tables, timer_vars, clock
    <3> QED
      BY <3>1, SendUndisturbed
  <2>7. ASSUME NEW line \in Lines, processor(line)
        PROVE  HandlerSends' /\ handler_pc' \in HandlerPlaces
    <3>1. frames = <<>> /\ UNCHANGED keyboard_wait
      BY <2>7, DeliverableIsReady DEF processor, deliver
    <3> QED
      BY <1>3, <3>1, SendUndisturbed
  <2> QED
    BY <2>1, <2>2, <2>3, <2>4, <2>5, <2>6, <2>7 DEF MachineNext, handlers
<1> QED
  BY <1>1, <1>2, <1>4 DEF MachineInv

LEMMA MachineInvAlways == MachineSpec => []MachineInv
BY MachineInitInv, MachineNextInv, PTL DEF MachineSpec

-----------------------------------------------------------------------------

(***************************************************************************)
(* Whatever interrupt the processor may take, at any step of kernel_entry, *)
(* of a handler or of user code, finds a whole descriptor and a handler:   *)
(* a line is unmasked after its descriptor is written, and masked before   *)
(* it is changed (entry.c 26-28, ps2_keyboard.c 105-121, experiments.c     *)
(* 27-33).                                                                 *)
(***************************************************************************)
THEOREM InterruptsAreHandled == MachineSpec => []DeliveredIsHandled
<1>1. InterruptsInv => DeliveredIsHandled
  <2> SUFFICES ASSUME InterruptsInv, NEW line \in Lines, Deliverable(line)
               PROVE  /\ Whole(idt[base + line])
                      /\ idt[base + line].offset_low # TIMER =>
                           handlerTable[VectorPushedAt(idt[base + line].offset_low)] # NULL
    BY DEF DeliveredIsHandled
  <2>1. /\ base + line \in {SYSTEM_TIMER_VECTOR, KEYBOARD_VECTOR}
        /\ base + line = SYSTEM_TIMER_VECTOR => TimerReady
        /\ base + line = KEYBOARD_VECTOR => KeyboardReady
        /\ pc # "init_interrupts"
    BY DeliverableIsReady DEF BeforeSti, BeforePic
  <2>2. base + line \in Vectors
    BY <2>1 DEF Vectors
  <2>3. Whole(idt[base + line])
    BY <2>1, ReadyIsWhole
  <2>4. ASSUME idt[base + line].offset_low # TIMER
        PROVE  handlerTable[base + line] # NULL
    <3>1. CASE base + line = SYSTEM_TIMER_VECTOR
      <4>1. handlerTable[SYSTEM_TIMER_VECTOR] = "clr"
        BY <2>1, <2>4, <3>1 DEF TimerReady
      <4> QED
        BY <3>1, <4>1 DEF NULL
    <3>2. CASE base + line = KEYBOARD_VECTOR
      <4>1. handlerTable[KEYBOARD_VECTOR] = "keyboard_handler"
        BY <2>1, <3>2 DEF KeyboardReady
      <4> QED
        BY <3>2, <4>1 DEF NULL
    <3> QED
      BY <2>1, <3>1, <3>2
  <2> QED
    BY <2>2, <2>3, <2>4, WholeGate
<1> QED
  BY <1>1, MachineInvAlways, PTL DEF MachineInv

(***************************************************************************)
(* Handlers never nest: every gate clears the interrupt flag, and user     *)
(* code, which can take an exception with interrupts on, is left for one   *)
(* handler at a time.  The statics of the handlers need no lock            *)
(* (ps2_keyboard.c 356-393, interrupts.c 46-57).                           *)
(***************************************************************************)
THEOREM HandlersStandAlone == MachineSpec => []HandlersDoNotNest
<1>1. InterruptsInv => HandlersDoNotNest
  <2> SUFFICES ASSUME InterruptsInv PROVE Len(frames) <= 1
    BY DEF HandlersDoNotNest
  <2>1. CASE frames = <<>>
    BY <2>1
  <2>2. ASSUME NEW f, frames = <<f>> PROVE Len(frames) <= 1
    BY <2>2
  <2>3. frames = <<>> \/ frames = <<frames[1]>>
    BY DEF InterruptsInv, InterruptsTyped
  <2> QED
    BY <2>1, <2>2, <2>3
<1> QED
  BY <1>1, MachineInvAlways, PTL DEF MachineInv

(***************************************************************************)
(* iret finds the processor's frame on the stack, whichever vector was     *)
(* taken: the trampolines, each at eight times its vector, push an error   *)
(* code just where the processor pushes none (interrupts.c 59-97, boot.asm *)
(* 165-173).                                                               *)
(***************************************************************************)
THEOREM IretIsRight == MachineSpec => []IretFindsItsFrame
BY MachineInvAlways, PTL DEF MachineInv, InterruptsInv

(***************************************************************************)
(* A send of the keyboard's handler is never given up, for every tick and  *)
(* time-out: interrupts are off, the clock stands still, and the deadline  *)
(* stays ahead of it (ps2_keyboard.c 380-393, ps2_device_general.c 44-57). *)
(***************************************************************************)
THEOREM HandlerAlwaysSends == MachineSpec => []HandlerSendsInTime
<1>1. MachineInv => HandlerSendsInTime
  BY DEF MachineInv, HandlerSends, HandlerSendsInTime
<1> QED
  BY <1>1, MachineInvAlways, PTL

\* What a process is restarted from is written over only before the first one has run.
LEMMA RestartStep ==
  InterruptsInv /\ [Next]_interrupts_vars => [started /\ intact => intact']_interrupts_vars
<1> SUFFICES ASSUME InterruptsInv, Next, started, intact PROVE intact'
  OBVIOUS
<1>1. ASSUME NEW v, NEW pushes, Enter(v, pushes), pc # "restore_context" PROVE intact'
  BY <1>1 DEF Enter, Overwrites
<1>2. CASE kernel_entry
  BY <1>2
     DEF kernel_entry, init_interrupts, set_pagefault, set_interrupt_handler,
         direct_set_interrupt_handler, init_pic, InitPic, set_timer, enable_timer,
         enable_io_devices, sti, detected, set_keyboard, enable_keyboard, send_first,
         register_syscalls, experiment, disable_io_devices, choose_experiment, set_clr,
         enable_clr, switch_process, restore_context, pop, iret, SwitchProcess, process
<1>3. CASE Handler
  BY <1>3
     DEF Handler, handler_returns, handler_switches, unhandled, Return, SwitchProcess, process
<1>4. ASSUME NEW line \in Lines, raise(line) PROVE intact'
  BY <1>4 DEF raise, process
<1>5. ASSUME NEW line \in Lines, deliver(line) PROVE intact'
  <2>1. pc # "restore_context"
    BY <1>5 DEF deliver, Deliverable, InterruptsInv, OffWhen
  <2> QED
    BY <1>1, <1>5, <2>1 DEF deliver
<1>6. CASE page_fault \/ divide \/ \E vector \in Vectors : int(vector)
  <2>1. \E v, pushes : FromUser(v, pushes)
    BY <1>6 DEF page_fault, divide, int, fault
  <2> QED
    BY <1>1, <2>1 DEF FromUser, InUser, Runs
<1> QED
  BY <1>2, <1>3, <1>4, <1>5, <1>6 DEF Next

(***************************************************************************)
(* Once user code has run, no switch to a process lets an interrupt write  *)
(* over what the process is restarted from: exit and the page fault        *)
(* handler come to restore_context with interrupts off (syscalls.c 13-22,  *)
(* process.c 51-53, boot.asm 165-177).                                     *)
(***************************************************************************)
THEOREM RestartsUndisturbed == MachineSpec => RestartUndisturbed
<1>1. MachineInv /\ [MachineNext]_machine_vars => [started /\ intact => intact']_interrupts_vars
  BY IsInterruptsStep, RestartStep DEF MachineInv
<1> QED
  BY <1>1, MachineInvAlways, PTL DEF MachineSpec, RestartUndisturbed

(***************************************************************************)
(* The clock of the machine, whose ticks are interrupts that may be        *)
(* masked, late or lost, still implements the clock of Timer, and so do    *)
(* the kernel's waits: what is proved of them there holds here.            *)
(***************************************************************************)
THEOREM MachineImplementsTimer ==
  MachineSpec => /\ TimerInit /\ [][TimerNext]_timer_vars
                 /\ [](DeadlineIsSound /\ NoEarlyTimeout)
<1>1. MachineInv => DeadlineIsSound /\ NoEarlyTimeout
  BY DEF MachineInv, TimerInv
<1> QED
  BY <1>1, IsTimerStep, MachineInvAlways, PTL DEF MachineSpec, MachineInit

=============================================================================
