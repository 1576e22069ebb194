---------------------------- MODULE Ps2Controller ----------------------------
(***************************************************************************)
(* init_ps2_controller of drivers/ps2/ps2_controller.c: it looks whether   *)
(* the tables of AcpiTables deny the controller, tests it and its          *)
(* channels, and leaves it configured for the drivers after it.            *)
(*                                                                         *)
(* A question to the controller is answered by one byte in the output      *)
(* buffer, where bytes of the devices arrive too as soon as the clock of   *)
(* their channel is on.  The driver waits for a byte without a time-out    *)
(* and takes whichever comes.                                              *)
(***************************************************************************)
EXTENDS Ps2Wire, AcpiTables

CONSTANTS
  Chips,           \* what the controller may be like
  DefaultConfig    \* the configuration after a self test that resets it

\* The bits of the command byte the driver reads or writes.
IRQ0 == 1
IRQ1 == 2
CLOCK0_OFF == 16
CLOCK1_OFF == 32
TRANSLATION == 64

PS2_SELF_TEST_SUCCESS == 85
PS2_SELF_TEST_FAILURE == 252

\* PS2ChannelStatus, in four bits.
CHANNEL_OK == 0
ABSENT == 8
UNINITIALIZED == 15

ASSUME ChipsAssumption ==
  /\ Chips \subseteq [passes : BOOLEAN,              \* its self test
                      resets : BOOLEAN,              \* and forgets its configuration there
                      second : BOOLEAN,              \* it has a second channel
                      tests  : [Channel -> 0 .. 4]]  \* what it finds testing the channels
  /\ DefaultConfig \in 0 .. 255

VARIABLES
  chip,
  config,    \* the controller's command byte
  at,        \* step of init_ps2_controller
  cmd,       \* its local of that name
  second_channel_present,
  ps2_status

controller_vars == <<chip, config, at, cmd, second_channel_present, ps2_status>>

ControllerInit ==
  /\ chip \in Chips
  /\ config = DefaultConfig
  /\ at = "present" /\ cmd = 0 /\ second_channel_present = FALSE
  /\ ps2_status = [ch \in Channel |-> UNINITIALIZED]

-----------------------------------------------------------------------------

IsSet(byte, bit) == (byte \div bit) % 2 = 1

With(byte, bit)    == IF IsSet(byte, bit) THEN byte ELSE byte + bit
Without(byte, bit) == IF IsSet(byte, bit) THEN byte - bit ELSE byte

\* The clock of a second channel that is not there stays off.
Configured(byte) == IF chip.second THEN byte ELSE With(byte, CLOCK1_OFF)

\* A command that is not answered, and one that is.
Command(from, to, byte) ==
  /\ at = from /\ at' = to
  /\ config' = Configured(byte)
  /\ UNCHANGED <<wire, chip, cmd, second_channel_present, ps2_status>>

Ask(from, to, answer) ==
  /\ at = from /\ at' = to
  /\ Answer(CONTROLLER, <<answer>>)
  /\ UNCHANGED <<chip, config, cmd, second_channel_present, ps2_status>>

\* With revision 0, or without a FADT, nothing can say that it is absent.
ps2_controller_present(revision) ==
  revision = 0 \/ FADT = NULL \/ firmware.entry[FADT].has_8042

\* A null RSDP reads any revision.
check_present ==
  /\ at = "present"
  /\ \E revision \in IF RSDP = NULL THEN {0, 2} ELSE {firmware.memory[RSDP].revision} :
       IF ps2_controller_present(revision)
       THEN at' = "disable0" /\ UNCHANGED ps2_status
       ELSE at' = "done" /\ ps2_status' = [ch \in Channel |-> ABSENT]
  /\ UNCHANGED <<wire, chip, config, cmd, second_channel_present>>

\* Mutant: a byte left in the buffer stays there.
flush_nothing ==
  /\ at = "flush" /\ at' = "read1"
  /\ UNCHANGED <<wire, chip, config, cmd, second_channel_present, ps2_status>>

\* One read of the data port, whether a byte is there or not.
flush ==
  /\ at = "flush" /\ at' = "read1"
  /\ output' = Empty
  /\ UNCHANGED <<pending, chip, config, cmd, second_channel_present, ps2_status>>

commands ==
  \/ Command("disable0", "disable1", With(config, CLOCK0_OFF))
  \/ Command("disable1", "flush", With(config, CLOCK1_OFF))
  \/ Command("enable1", "read2", Without(config, CLOCK1_OFF))
  \/ Command("disable1_again", "read3", With(config, CLOCK1_OFF))
  \/ \E n \in 1 .. 4 :
       Ask(<<"read1", "read2", "read3", "read4">>[n],
           <<"config1", "config2", "config3", "config4">>[n], config)
  \/ Ask("test0", "tested0", chip.tests[0])
  \/ Ask("test1", "tested1", chip.tests[1])
  \/ Command("write1", "self_test", cmd)
  \/ Command("write3", "test0", cmd)
  \/ Command("write4", "done", cmd)

self_test ==
  /\ at = "self_test" /\ at' = "self_tested"
  /\ Answer(CONTROLLER, <<IF chip.passes THEN PS2_SELF_TEST_SUCCESS ELSE PS2_SELF_TEST_FAILURE>>)
  /\ config' = IF chip.resets THEN Configured(DefaultConfig) ELSE config
  /\ UNCHANGED <<chip, cmd, second_channel_present, ps2_status>>

\* Mutant: scan codes go on being translated.
FirstConfig_translated(byte) == Without(Without(Without(byte, IRQ0), IRQ1), CLOCK0_OFF)

\* What is written before the self test.
FirstConfig(byte) ==
  Without(Without(Without(Without(byte, IRQ0), IRQ1), CLOCK0_OFF), TRANSLATION)

\* A byte is read from the data port, and the driver goes on from one step to another.
Take(from, to) == at = from /\ ReadByte(0 .. 255) /\ at' = to /\ UNCHANGED <<chip, config>>

read_config ==
  /\ \/ /\ Take("config1", "write1")
        /\ cmd' = FirstConfig(output[2])
     \/ /\ Take("config3", "write3")
        /\ cmd' = Without(Without(output[2], IRQ1), CLOCK1_OFF)
     \/ /\ Take("config4", "write4")
        /\ cmd' = With(With(output[2], IRQ0), IRQ1)
  /\ UNCHANGED <<second_channel_present, ps2_status>>

self_tested ==
  /\ Take("self_tested", IF output[2] = PS2_SELF_TEST_SUCCESS THEN "enable1" ELSE "done")
  /\ UNCHANGED <<cmd, second_channel_present, ps2_status>>

look_for_second ==
  LET there == ~IsSet(output[2], CLOCK1_OFF)
  IN  /\ Take("config2", IF there THEN "disable1_again" ELSE "test0")
      /\ second_channel_present' = there
      /\ ps2_status' = IF there THEN ps2_status ELSE [ps2_status EXCEPT ![1] = ABSENT]
      /\ cmd' = output[2]

\* Four bits of the byte are kept.
tested ==
  /\ \/ /\ Take("tested0", IF second_channel_present THEN "test1" ELSE "read4")
        /\ ps2_status' = [ps2_status EXCEPT ![0] = output[2] % 16]
     \/ /\ Take("tested1", "read4")
        /\ ps2_status' = [ps2_status EXCEPT ![1] = output[2] % 16]
  /\ UNCHANGED <<cmd, second_channel_present>>

init_ps2_controller ==
  \/ check_present \/ commands \/ flush \/ self_test
  \/ read_config \/ self_tested \/ look_for_second \/ tested

=============================================================================
