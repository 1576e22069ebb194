------------------------------ MODULE Ps2Boot ------------------------------
(***************************************************************************)
(* How the kernel comes to know its keyboard (entry.c 20, 31-33): the      *)
(* firmware's tables say whether there may be a controller, its            *)
(* initialisation finds out which channels work, and these are reset and   *)
(* identified.  The three run one after the other on the same wire; a byte *)
(* that one of them leaves there is the next one's first answer.           *)
(*                                                                         *)
(* Somebody may be typing meanwhile, the key that started the machine for  *)
(* a first.  A world is prompt when nobody does, but for a byte that was   *)
(* in the output buffer all along.                                         *)
(***************************************************************************)
EXTENDS Ps2Devices, Ps2Controller

CONSTANTS
  KeyBytes,   \* bytes of scan codes
  TypedBound  \* how many of them, at most

ASSUME KeysAssumption == KeyBytes \subseteq Byte /\ TypedBound \in Nat

VARIABLE typed   \* history: how many there were

boot_vars == <<ps2_vars, acpi_vars, controller_vars, typed>>

BootInit == AcpiInit /\ ControllerInit /\ Init /\ ok = {} /\ typed = 0

-----------------------------------------------------------------------------

acpi == init_acpi /\ UNCHANGED <<ps2_vars, controller_vars, typed>>

Working(status) == {ch \in Channel : status[ch] = CHANNEL_OK}

controller ==
  /\ acpi_step = "done"
  /\ init_ps2_controller
  /\ ok' = Working(ps2_status')
  /\ UNCHANGED <<acpi_vars, world, driver, route, garbled, typed>>

ClockOff(ch) == IF ch = 0 THEN CLOCK0_OFF ELSE CLOCK1_OFF

\* ENABLE_CHANNEL0 and ENABLE_CHANNEL1 of ps2_reset_device.
Enable ==
  config' = IF pc = "reset" /\ channel \in ok
            THEN Configured(Without(config, ClockOff(channel)))
            ELSE config

devices_driver ==
  /\ at = "done"
  /\ Driver
  /\ Enable
  /\ UNCHANGED <<acpi_vars, chip, at, cmd, second_channel_present, ps2_status, typed>>

Clocked(s) == s \in Channel => ~IsSet(config, ClockOff(s))

arrive ==
  /\ \E s \in Source : Clocked(s) /\ Deliver(s)
  /\ UNCHANGED <<acpi_vars, controller_vars, world, ok, driver, route, garbled, typed>>

Typed(key) ==
  /\ attached[0] = "keyboard"
  /\ typed < TypedBound
  /\ typed' = typed + 1
  /\ UNCHANGED <<acpi_vars, controller_vars, world, ok, driver, route, garbled>>

left_over ==
  /\ at = "present" /\ output = Empty
  /\ \E key \in KeyBytes : Typed(key) /\ output' = <<0, key>> /\ UNCHANGED pending

press ==
  /\ ~prompt
  /\ \E key \in KeyBytes : Typed(key) /\ Answer(0, <<key>>)

booted == pc = "done" /\ UNCHANGED boot_vars

BootNext ==
  acpi \/ controller \/ devices_driver \/ arrive \/ left_over \/ press \/ booted

\* The kernel goes on, and what is on its way arrives.
Fairness ==
  WF_boot_vars(acpi) /\ WF_boot_vars(controller) /\ WF_boot_vars(devices_driver)
  /\ WF_boot_vars(arrive)

BootSpec == BootInit /\ [][BootNext]_boot_vars /\ Fairness

-----------------------------------------------------------------------------

(***************************************************************************)
(* Once the controller is initialised, and nobody types, a channel is      *)
(* known for what it is: absent as the tables or the controller say,       *)
(* unknown if the controller failed its test, else as its own test found   *)
(* it (ps2_controller.c 51-113).                                           *)
(***************************************************************************)
StatusIsTrue ==
  at = "done" /\ prompt /\ RSDP # NULL =>
    ps2_status =
      CASE ~ps2_controller_present(firmware.memory[RSDP].revision) ->
             [ch \in Channel |-> ABSENT]
        [] ps2_controller_present(firmware.memory[RSDP].revision) /\ ~chip.passes ->
             [ch \in Channel |-> UNINITIALIZED]
        [] OTHER ->
             [ch \in Channel |-> IF ch = 0 \/ chip.second THEN chip.tests[ch] ELSE ABSENT]

(***************************************************************************)
(* The interrupt handler of the keyboard finds what it is written for: a   *)
(* controller that asks for interrupts, with the clock of the keyboard on  *)
(* and without translation.  Nobody may type, and the self test must leave *)
(* the configuration alone (ps2_controller.c 71-79, 118-125,               *)
(* ps2_device_general.c 95-99).                                            *)
(***************************************************************************)
ConfiguredForHandler ==
  pc = "done" /\ prompt /\ 0 \in ok /\ ~chip.resets =>
    /\ IsSet(config, IRQ0)
    /\ ~IsSet(config, CLOCK0_OFF)
    /\ ~IsSet(config, TRANSLATION)

(***************************************************************************)
(* The boot ends whatever is typed and when: each wait without a time-out  *)
(* is for a byte that comes, though perhaps not the one that was asked for *)
(* (ps2_controller.c 39-48).                                               *)
(***************************************************************************)
BootEnds == <>(pc = "done")

=============================================================================
