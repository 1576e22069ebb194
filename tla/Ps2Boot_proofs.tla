--------------------------- MODULE Ps2Boot_proofs ---------------------------
(***************************************************************************)
(* Proofs about Ps2Boot: what the search for the firmware's tables finds,  *)
(* and what the initialisation of the controller knows and leaves behind,  *)
(* for every firmware, controller and configuration, and whatever is       *)
(* plugged in.                                                             *)
(*                                                                         *)
(* The driver takes the byte that comes for the answer.  Where nobody      *)
(* types, the invariant says at each of its steps which byte that is.      *)
(***************************************************************************)
EXTENDS Ps2Boot, TLAPS

-----------------------------------------------------------------------------
(***************************************************************************)
(* The search for the tables.                                              *)
(***************************************************************************)

FirstRoot(p) == validate_RSDP(p) /\ \A q \in Searched : q < p => ~validate_RSDP(q)

\* The entries before the i-th were looked at, and FADT is the first that will do.
FirstEntry ==
  IF FADT = NULL
  THEN \A k \in 1 .. i - 1 : k <= Len(firmware.entry) => ~IsFADT(firmware.entry[k])
  ELSE /\ FADT \in 1 .. i - 1
       /\ IsFADT(firmware.entry[FADT])
       /\ \A k \in 1 .. FADT - 1 : ~IsFADT(firmware.entry[k])

\* Nothing was left out at the end.
SearchOver ==
  acpi_step = "done" =>
    IF RSDP = NULL
    THEN \A p \in Searched : ~validate_RSDP(p)
    ELSE IF firmware.checksum = 0 THEN i > Len(firmware.entry) ELSE FADT = NULL

AcpiInv ==
  /\ firmware \in Firmwares
  /\ acpi_step \in {"find_RSDP", "entries", "done"}
  /\ ebda_p \in Searched \cup {BIOS_ROM_END} /\ i \in Nat \ {0}
  /\ acpi_step = "find_RSDP" =>
       /\ RSDP = NULL /\ FADT = NULL /\ i = 1
       /\ \A p \in Searched : p < ebda_p => ~validate_RSDP(p)
  /\ RSDP # NULL => RSDP \in Searched /\ FirstRoot(RSDP) /\ FirstEntry
  /\ acpi_step = "entries" => RSDP # NULL /\ firmware.checksum = 0
  /\ SearchOver

-----------------------------------------------------------------------------
(***************************************************************************)
(* The controller.                                                         *)
(***************************************************************************)

Word8 == 0 .. 255

\* Every place of the driver at which it reads a byte, and the answer it is to get.
Awaited ==
  [config1 |-> config, config2 |-> config, config3 |-> config, config4 |-> config,
   self_tested |-> IF chip.passes THEN PS2_SELF_TEST_SUCCESS ELSE PS2_SELF_TEST_FAILURE,
   tested0 |-> chip.tests[0], tested1 |-> chip.tests[1]]

Asking == {"config1", "config2", "config3", "config4", "self_tested", "tested0", "tested1"}

\* Before the self test, and what comes before the buffer is emptied; the search
\* for a second channel; the tests of the channels; and the last configuration.
Unflushed == {"present", "disable0", "disable1", "flush"}
BeforeTest == Unflushed \cup {"read1", "config1", "write1", "self_test", "self_tested"}
Search == {"enable1", "read2", "config2"}
Second == {"disable1_again", "read3", "config3", "write3"}
Test0  == {"test0", "tested0"}
Test1  == {"test1", "tested1"}
Tested == {"read4", "config4", "write4"}
AfterTest == Search \cup Second \cup Test0 \cup Test1 \cup Tested

ControllerTyped ==
  /\ chip \in Chips
  /\ config \in Word8 /\ cmd \in Word8
  /\ at \in BeforeTest \cup AfterTest \cup {"done"}
  /\ ps2_status \in [Channel -> 0 .. 15]
  /\ at # "present" => acpi_step = "done"
  /\ at # "done" => pc = "reset"
  /\ ok = Working(ps2_status)

\* On their way are no bytes but those of the controller itself.
Only(bytes) == pending = [s \in Source |-> IF s = CONTROLLER THEN bytes ELSE <<>>]

Answering(byte) ==
  \/ output = Empty /\ Only(<<byte>>)
  \/ output = <<CONTROLLER, byte>> /\ Only(<<>>)

OnlyAnswers ==
  /\ at \in Asking => Answering(Awaited[at])
  /\ at \in Unflushed => Only(<<>>)
  /\ at \notin Asking \cup Unflushed \cup {"done"} => output = Empty /\ Only(<<>>)

\* The clock of the keyboard on, and no translation.
Plain(byte) == ~IsSet(byte, CLOCK0_OFF) /\ ~IsSet(byte, TRANSLATION)

ConfigKnown ==
  /\ at \in {"write1"} => Plain(cmd)
  /\ at = "self_test" => Plain(config)
  /\ at \in AfterTest \cup {"self_tested"} /\ ~chip.resets => Plain(config)
  /\ at \in {"write3", "write4"} /\ ~chip.resets => Plain(cmd)
  /\ at = "write4" => IsSet(cmd, IRQ0)
  /\ at = "done" /\ 0 \in ok =>
       IsSet(config, IRQ0) /\ (~chip.resets => Plain(config))

Statuses(status0, status1) ==
  ps2_status = [ch \in Channel |-> IF ch = 0 THEN status0 ELSE status1]

StatusKnown ==
  /\ at \in AfterTest => chip.passes
  /\ at \in BeforeTest \cup Search \cup Second => Statuses(UNINITIALIZED, UNINITIALIZED)
  /\ at \in {"read2", "config2"} => (IsSet(config, CLOCK1_OFF) <=> ~chip.second)
  /\ at \in Second \cup Test1 => chip.second
  /\ at \in Second \cup Test0 \cup Test1 \cup Tested =>
       second_channel_present = chip.second
  /\ at \in Test0 =>
       Statuses(UNINITIALIZED, IF chip.second THEN UNINITIALIZED ELSE ABSENT)
  /\ at \in Test1 => Statuses(chip.tests[0], UNINITIALIZED)
  /\ at \in Tested =>
       Statuses(chip.tests[0], IF chip.second THEN chip.tests[1] ELSE ABSENT)
  /\ at \notin {"present", "done"} /\ RSDP # NULL =>
       ps2_controller_present(firmware.memory[RSDP].revision)

BootInv ==
  /\ AcpiInv
  /\ ControllerTyped
  /\ prompt => OnlyAnswers /\ ConfigKnown /\ StatusKnown
  /\ StatusIsTrue

-----------------------------------------------------------------------------
(***************************************************************************)
(* Setting and clearing one bit of a byte does that and nothing else.      *)
(***************************************************************************)
Bit == {IRQ0, IRQ1, CLOCK0_OFF, CLOCK1_OFF, TRANSLATION}

LEMMA WithBit ==
  ASSUME NEW byte \in Word8, NEW x \in Bit
  PROVE  /\ With(byte, x) \in Word8
         /\ \A y \in Bit : IsSet(With(byte, x), y) <=> x = y \/ IsSet(byte, y)
<1> USE DEF Bit, IRQ0, IRQ1, CLOCK0_OFF, CLOCK1_OFF, TRANSLATION, Word8, With, IsSet
<1>1. CASE x = 1
  BY <1>1
<1>2. CASE x = 2
  BY <1>2
<1>3. CASE x = 16
  BY <1>3
<1>4. CASE x = 32
  BY <1>4
<1>5. CASE x = 64
  BY <1>5
<1> QED
  BY <1>1, <1>2, <1>3, <1>4, <1>5

LEMMA WithoutBit ==
  ASSUME NEW byte \in Word8, NEW x \in Bit
  PROVE  /\ Without(byte, x) \in Word8
         /\ \A y \in Bit : IsSet(Without(byte, x), y) <=> x # y /\ IsSet(byte, y)
<1> USE DEF Bit, IRQ0, IRQ1, CLOCK0_OFF, CLOCK1_OFF, TRANSLATION, Word8, Without, IsSet
<1>1. CASE x = 1
  BY <1>1
<1>2. CASE x = 2
  BY <1>2
<1>3. CASE x = 16
  BY <1>3
<1>4. CASE x = 32
  BY <1>4
<1>5. CASE x = 64
  BY <1>5
<1> QED
  BY <1>1, <1>2, <1>3, <1>4, <1>5

(***************************************************************************)
(* The search passes over what is not sound and keeps the first that is.   *)
(***************************************************************************)
LEMMA Paragraphs ==
  /\ {EBDA_START, EBDA_end, BIOS_ROM_START, BIOS_ROM_END} \subseteq Nat
  /\ EBDA_START < EBDA_end /\ EBDA_end < BIOS_ROM_START /\ BIOS_ROM_START < BIOS_ROM_END
  /\ \A p : p \in Searched <=>
       /\ p \in Nat
       /\ \/ EBDA_START <= p /\ p < EBDA_end
          \/ BIOS_ROM_START <= p /\ p < BIOS_ROM_END
  /\ NULL \notin Searched
<1>1. /\ {EBDA_START, EBDA_end, BIOS_ROM_START, BIOS_ROM_END} \subseteq Nat
      /\ 0 < EBDA_START /\ EBDA_START < EBDA_end
      /\ EBDA_end < BIOS_ROM_START /\ BIOS_ROM_START < BIOS_ROM_END
  BY FirmwareAssumption
<1> QED
  BY <1>1 DEF Searched, NULL

LEMMA SameFirmware ==
  ASSUME firmware' = firmware
  PROVE  /\ \A p : validate_RSDP(p)' <=> validate_RSDP(p)
         /\ \A p : FirstRoot(p)' <=> FirstRoot(p)
<1>1. \A p : validate_RSDP(p)' <=> validate_RSDP(p)
  BY DEF validate_RSDP
<1> QED
  BY <1>1 DEF FirstRoot

LEMMA AcpiStart ==
  ASSUME AcpiInit
  PROVE  AcpiInv
<1>1. EBDA_START \in Searched /\ \A p \in Searched : ~(p < EBDA_START)
  BY Paragraphs
<1> QED
  BY <1>1 DEF AcpiInit, AcpiInv, SearchOver

LEMMA AcpiStep ==
  ASSUME AcpiInv, init_acpi
  PROVE  AcpiInv'
<1>1. CASE find_RSDP
  <2>1. /\ ebda_p \in Searched /\ acpi_step = "find_RSDP"
        /\ firmware \in Firmwares /\ RSDP = NULL /\ FADT = NULL /\ i = 1
        /\ \A p \in Searched : p < ebda_p => ~validate_RSDP(p)
    BY <1>1 DEF find_RSDP, AcpiInv
  <2>2. CASE validate_RSDP(ebda_p)
    <3>1. /\ RSDP' = ebda_p
          /\ acpi_step' = IF firmware.checksum = 0 THEN "entries" ELSE "done"
          /\ UNCHANGED <<firmware, ebda_p, i, FADT>>
      <4>1. Accept
        BY <1>1, <2>2 DEF find_RSDP
      <4> QED
        BY <4>1 DEF Accept
    <3>2. FirstRoot(RSDP)'
      BY <2>1, <2>2, <3>1, SameFirmware DEF FirstRoot
    <3>3. FirstEntry'
      BY <2>1, <3>1 DEF FirstEntry
    <3>4. RSDP' # NULL
      BY <2>1, <3>1, Paragraphs
    <3>5. acpi_step' \in {"entries", "done"}
          /\ (acpi_step' = "entries" <=> firmware'.checksum = 0)
      BY <3>1
    <3>6. SearchOver'
      BY <2>1, <3>1, <3>4, <3>5 DEF SearchOver
    <3> QED
      BY <2>1, <3>1, <3>2, <3>3, <3>4, <3>5, <3>6 DEF AcpiInv
  <2>3. CASE ~validate_RSDP(ebda_p)
    <3>1. /\ ebda_p' = IF ebda_p + 1 = EBDA_end THEN BIOS_ROM_START ELSE ebda_p + 1
          /\ UNCHANGED <<firmware, acpi_step, i, RSDP, FADT>>
      BY <1>1, <2>3 DEF find_RSDP, MoveOn, Pass
    <3>2. ebda_p' \in Searched \cup {BIOS_ROM_END}
      BY <2>1, <3>1, Paragraphs
    <3>3. \A p \in Searched : p < ebda_p' => p <= ebda_p
      BY <2>1, <3>1, Paragraphs
    <3>4. \A p \in Searched : p < ebda_p' => ~validate_RSDP(p)
      <4>1. \A p \in Searched : p <= ebda_p => p < ebda_p \/ p = ebda_p
        BY <2>1, Paragraphs
      <4> QED
        BY <2>1, <2>3, <3>3, <4>1
    <3>5. \A p \in Searched : p < ebda_p' => ~validate_RSDP(p)'
      BY <3>1, <3>4, SameFirmware
    <3> QED
      BY <2>1, <3>1, <3>2, <3>5 DEF AcpiInv, SearchOver
  <2> QED
    BY <2>2, <2>3
<1>2. CASE null_RSDP
  <2>1. /\ acpi_step = "find_RSDP" /\ ebda_p \notin Searched
        /\ acpi_step' = "done"
        /\ UNCHANGED <<firmware, ebda_p, i, RSDP>>
    BY <1>2 DEF null_RSDP
  <2>2. /\ firmware \in Firmwares /\ RSDP = NULL /\ i = 1
        /\ ebda_p = BIOS_ROM_END
        /\ \A p \in Searched : p < ebda_p => ~validate_RSDP(p)
    BY <2>1 DEF AcpiInv
  <2>3. \A p \in Searched : p < BIOS_ROM_END
    BY Paragraphs
  <2>4. \A p \in Searched : ~validate_RSDP(p)'
    BY <2>1, <2>2, <2>3, SameFirmware
  <2> QED
    BY <2>1, <2>2, <2>4 DEF AcpiInv, SearchOver
<1>3. CASE next_entry
  <2>1. /\ RSDP' = RSDP /\ RSDP # NULL /\ FirstRoot(RSDP) /\ firmware' = firmware
        /\ firmware.checksum = 0 /\ ebda_p' = ebda_p
    BY <1>3 DEF next_entry, ReadEntry, AcpiInv
  <2>2. FirstEntry'
    <3>1. i \in Nat \ {0} /\ firmware' = firmware /\ FirstEntry
      BY <1>3, <2>1 DEF next_entry, ReadEntry, AcpiInv
    <3>2. CASE i > Len(firmware.entry)
      <4>1. FADT' = FADT /\ i' = i
        BY <1>3, <3>1, <3>2 DEF next_entry, ReadEntry
      <4> QED
        BY <3>1, <4>1 DEF FirstEntry
    <3>3. CASE i <= Len(firmware.entry)
      <4>1. /\ FADT' = (IF FADT = NULL /\ IsFADT(firmware.entry[i]) THEN i ELSE FADT)
            /\ i' = i + 1
        BY <1>3, <3>3 DEF next_entry, ReadEntry
      <4>2. \A k \in 1 .. i : k = i \/ k \in 1 .. i - 1
        BY <3>1
      <4>3. CASE FADT = NULL /\ IsFADT(firmware.entry[i])
        <5>1. FADT' = i /\ i # NULL /\ i \in 1 .. i' - 1
          BY <3>1, <4>1, <4>3 DEF NULL
        <5> QED
          BY <3>1, <3>3, <4>3, <5>1 DEF FirstEntry, IsFADT
      <4>4. CASE FADT = NULL /\ ~IsFADT(firmware.entry[i])
        <5>1. FADT' = NULL /\ i' - 1 = i
          BY <3>1, <4>1, <4>4
        <5>2. \A k \in 1 .. i' - 1 : k <= Len(firmware.entry) => ~IsFADT(firmware.entry[k])
          BY <3>1, <4>2, <4>4, <5>1 DEF FirstEntry
        <5> QED
          BY <3>1, <5>1, <5>2 DEF FirstEntry, IsFADT
      <4>5. CASE FADT # NULL
        <5>1. FADT' = FADT /\ FADT \in 1 .. i' - 1
          BY <3>1, <4>1, <4>5 DEF FirstEntry
        <5> QED
          BY <3>1, <4>5, <5>1 DEF FirstEntry, IsFADT
      <4> QED
        BY <4>3, <4>4, <4>5
    <3> QED
      <4>1. Len(firmware.entry) \in Nat
        BY FirmwareAssumption DEF AcpiInv
      <4> QED
        BY <3>1, <3>2, <3>3, <4>1
  <2>3. SearchOver' /\ acpi_step' \in {"entries", "done"} /\ i' \in Nat \ {0}
    <3>1. Len(firmware.entry) \in Nat /\ i \in Nat \ {0}
      BY FirmwareAssumption DEF AcpiInv
    <3> QED
      BY <1>3, <2>1, <3>1 DEF next_entry, ReadEntry, SearchOver
  <2>4. RSDP \in Searched /\ firmware \in Firmwares /\ ebda_p \in Searched \cup {BIOS_ROM_END}
    BY <2>1 DEF AcpiInv
  <2>5. FirstRoot(RSDP)'
    BY <2>1, SameFirmware DEF FirstRoot
  <2> QED
    BY <2>1, <2>2, <2>3, <2>4, <2>5 DEF AcpiInv
<1> QED
  BY <1>1, <1>2, <1>3 DEF init_acpi

-----------------------------------------------------------------------------
(***************************************************************************)
(* The bytes.                                                              *)
(***************************************************************************)
LEMMA OneByte ==
  \A byte : <<>> \o <<byte>> = <<byte>> /\ Head(<<byte>>) = byte /\ Tail(<<byte>>) = <<>>
            /\ <<byte>> # <<>> /\ <<CONTROLLER, byte>> # <<>> /\ <<CONTROLLER, byte>>[2] = byte
OBVIOUS

\* An answer is on its way after a command, if nothing was before it.
LEMMA AnswerComes ==
  ASSUME NEW byte, output = Empty, Only(<<>>), Answer(CONTROLLER, <<byte>>)
  PROVE  Answering(byte)'
<1>1. output' = Empty
  BY DEF Answer
<1>2. pending' = [s \in Source |-> IF s = CONTROLLER THEN <<>> \o <<byte>> ELSE <<>>]
  BY DEF Answer, Only, Source, CONTROLLER, Channel
<1>3. Only(<<byte>>)'
  BY <1>2, OneByte DEF Only
<1> QED
  BY <1>1, <1>3 DEF Answering

\* What is read is that answer.
LEMMA AnswerIsRead ==
  ASSUME NEW byte, NEW bytes, Answering(byte), ReadByte(bytes)
  PROVE  output[2] = byte /\ output' = Empty /\ Only(<<>>)'
<1>1. output = <<CONTROLLER, byte>> /\ Only(<<>>)
  BY DEF Answering, ReadByte
<1> QED
  BY <1>1, OneByte DEF ReadByte, Only

\* A byte that arrives is that answer.
LEMMA AnswerArrives ==
  ASSUME NEW byte, Answering(byte), NEW src \in Source, Deliver(src)
  PROVE  Answering(byte)'
<1>1. output = Empty /\ Only(<<byte>>)
  BY OneByte DEF Answering, Deliver, Empty
<1>2. src = CONTROLLER
  BY <1>1 DEF Only, Deliver
<1>3. output' = <<CONTROLLER, byte>>
  BY <1>1, <1>2, OneByte DEF Only, Deliver
<1>4. pending' = [s \in Source |-> IF s = CONTROLLER THEN <<>> ELSE <<>>]
  BY <1>1, <1>2, OneByte DEF Only, Deliver
<1> QED
  BY <1>3, <1>4 DEF Answering, Only

LEMMA NothingArrives ==
  ASSUME Only(<<>>), NEW src \in Source, Deliver(src)
  PROVE  FALSE
BY DEF Only, Deliver

-----------------------------------------------------------------------------
(***************************************************************************)
(* The steps of init_ps2_controller.  Each lemma is about the part of the  *)
(* invariant that speaks of the controller.                                *)
(***************************************************************************)
ControllerInv ==
  ControllerTyped /\ (prompt => OnlyAnswers /\ ConfigKnown /\ StatusKnown) /\ StatusIsTrue

\* What a step of the controller's initialisation leaves alone.
AtBoot ==
  /\ acpi_step = "done"
  /\ ok' = Working(ps2_status')
  /\ UNCHANGED <<acpi_vars, world, driver>>

LEMMA ChipFacts ==
  ASSUME chip \in Chips
  PROVE  /\ chip.passes \in BOOLEAN /\ chip.resets \in BOOLEAN /\ chip.second \in BOOLEAN
         /\ chip.tests[0] \in 0 .. 4 /\ chip.tests[1] \in 0 .. 4
         /\ DefaultConfig \in Word8
BY ChipsAssumption DEF Channel, Word8

\* The clock of a second channel goes on only if there is one.
LEMMA ConfiguredByte ==
  ASSUME chip \in Chips, NEW byte \in Word8
  PROVE  /\ Configured(byte) \in Word8
         /\ Plain(byte) => Plain(Configured(byte))
         /\ IsSet(byte, IRQ0) => IsSet(Configured(byte), IRQ0)
         /\ IsSet(Configured(byte), CLOCK1_OFF) <=> ~chip.second \/ IsSet(byte, CLOCK1_OFF)
<1>1. {IRQ0, IRQ1, CLOCK0_OFF, CLOCK1_OFF, TRANSLATION} \subseteq Bit
  BY DEF Bit
<1>2. /\ CLOCK0_OFF # CLOCK1_OFF /\ TRANSLATION # CLOCK1_OFF /\ IRQ0 # CLOCK1_OFF
  BY DEF IRQ0, CLOCK0_OFF, CLOCK1_OFF, TRANSLATION
<1>3. chip.second \in BOOLEAN
  BY ChipFacts
<1> QED
  BY <1>1, <1>2, <1>3, WithBit DEF Configured, Plain

LEMMA FirstConfigIsPlain ==
  ASSUME NEW byte \in Word8
  PROVE  FirstConfig(byte) \in Word8 /\ Plain(FirstConfig(byte))
<1>1. {IRQ0, IRQ1, CLOCK0_OFF, TRANSLATION} \subseteq Bit
  BY DEF Bit
<1>2. CLOCK0_OFF # TRANSLATION
  BY DEF CLOCK0_OFF, TRANSLATION
<1> DEFINE b0 == Without(byte, IRQ0)
           b1 == Without(b0, IRQ1)
           b2 == Without(b1, CLOCK0_OFF)
           b3 == Without(b2, TRANSLATION)
<1>3. b0 \in Word8
  BY <1>1, WithoutBit
<1> HIDE DEF b0
<1>4. b1 \in Word8
  BY <1>1, <1>3, WithoutBit
<1> HIDE DEF b1
<1>5. b2 \in Word8 /\ ~IsSet(b2, CLOCK0_OFF)
  BY <1>1, <1>4, WithoutBit
<1> HIDE DEF b2
<1>6. b3 \in Word8 /\ ~IsSet(b3, CLOCK0_OFF) /\ ~IsSet(b3, TRANSLATION)
  BY <1>1, <1>2, <1>5, WithoutBit
<1> QED
  BY <1>6 DEF b0, b1, b2, b3, FirstConfig, Plain

LEMMA CheckPresent ==
  ASSUME ControllerInv, AtBoot, check_present
  PROVE  ControllerInv'
<1> USE DEF ControllerInv, AtBoot, check_present
<1>1. CASE at' = "disable0" /\ UNCHANGED ps2_status
  <2>1. ControllerTyped'
    BY <1>1 DEF ControllerTyped, BeforeTest, Unflushed, driver, world, acpi_vars,
       Working
  <2>2. prompt => OnlyAnswers' /\ ConfigKnown'
    BY <1>1 DEF OnlyAnswers, ConfigKnown, Asking, Unflushed, BeforeTest, AfterTest,
       Search, Second, Test0, Test1, Tested, wire, Only
  <2>3. RSDP # NULL => ps2_controller_present(firmware.memory[RSDP].revision)'
    BY <1>1 DEF ps2_controller_present, acpi_vars
  <2>4. prompt => StatusKnown'
    BY <1>1, <2>3 DEF StatusKnown, Unflushed, BeforeTest, AfterTest, Search, Second,
       Test0, Test1, Tested, Statuses, acpi_vars
  <2> QED
    BY <1>1, <2>1, <2>2, <2>4 DEF StatusIsTrue, world
<1>2. CASE at' = "done" /\ ps2_status' = [ch \in Channel |-> ABSENT]
  <2>0. 0 \notin ok'
    BY <1>2 DEF Working, ABSENT, CHANNEL_OK, Channel
  <2>1. ControllerTyped'
    BY <1>2 DEF ControllerTyped, driver, world, acpi_vars, Working, ABSENT
  <2>2. prompt => OnlyAnswers' /\ ConfigKnown'
    BY <1>2, <2>0 DEF OnlyAnswers, ConfigKnown, Asking, Unflushed, BeforeTest,
       AfterTest, Search, Second, Test0, Test1, Tested
  <2>3. prompt => StatusKnown'
    BY <1>2 DEF StatusKnown, Unflushed, BeforeTest, AfterTest, Search, Second, Test0,
       Test1, Tested
  <2>4. StatusIsTrue'
    BY <1>2 DEF StatusIsTrue, ps2_controller_present, acpi_vars
  <2> QED
    BY <2>1, <2>2, <2>3, <2>4 DEF world
<1> QED
  BY <1>1, <1>2

\* Writing the status of the second channel.
LEMMA SecondStatus ==
  ASSUME NEW status, NEW a, NEW b, status = [ch \in Channel |-> IF ch = 0 THEN a ELSE a]
  PROVE  [status EXCEPT ![1] = b] = [ch \in Channel |-> IF ch = 0 THEN a ELSE b]
<1> DEFINE one == [status EXCEPT ![1] = b]
           two == [ch \in Channel |-> IF ch = 0 THEN a ELSE b]
<1>1. one = [ch \in Channel |-> one[ch]]
  OBVIOUS
<1>2. \A ch \in Channel : one[ch] = two[ch]
  BY DEF Channel
<1> QED
  BY <1>1, <1>2

\* The steps, one by one.

LEMMA Disable0 ==
  ASSUME ControllerInv, AtBoot, Command("disable0", "disable1", With(config, CLOCK0_OFF))
  PROVE  ControllerInv'
<1> USE DEF ControllerInv, AtBoot, Asking, Unflushed, BeforeTest, AfterTest,
            Search, Second, Test0, Test1, Tested
<1>1. at = "disable0" /\ at' = "disable1"
      /\ config' = Configured(With(config, CLOCK0_OFF))
  BY DEF Command
<1>2. UNCHANGED <<wire, chip, cmd, second_channel_present, ps2_status>>
  BY DEF Command
<1>3. With(config, CLOCK0_OFF) \in Word8
  BY WithBit DEF ControllerTyped, Bit
<1>4. /\ config' \in Word8
      /\ Plain(With(config, CLOCK0_OFF)) => Plain(config')
      /\ IsSet(With(config, CLOCK0_OFF), IRQ0) => IsSet(config', IRQ0)
      /\ IsSet(config', CLOCK1_OFF) <=>
           ~chip.second \/ IsSet(With(config, CLOCK0_OFF), CLOCK1_OFF)
  BY <1>1, <1>3, ConfiguredByte DEF ControllerTyped
<1>t. ControllerTyped'
  BY <1>1, <1>2, <1>4 DEF ControllerTyped, driver, acpi_vars, Working
<1>w. prompt => OnlyAnswers'
  BY <1>1, <1>2 DEF OnlyAnswers, wire, Only
<1>c. prompt => ConfigKnown'
  BY <1>1, <1>2, <1>4 DEF ConfigKnown
<1>s. prompt => StatusKnown'
  BY <1>1, <1>2, <1>4 DEF StatusKnown, Statuses, ps2_controller_present, acpi_vars
<1>p. StatusIsTrue'
  BY <1>1, <1>2 DEF StatusIsTrue
<1> QED
  BY <1>t, <1>w, <1>c, <1>s, <1>p DEF world

LEMMA Disable1 ==
  ASSUME ControllerInv, AtBoot, Command("disable1", "flush", With(config, CLOCK1_OFF))
  PROVE  ControllerInv'
<1> USE DEF ControllerInv, AtBoot, Asking, Unflushed, BeforeTest, AfterTest,
            Search, Second, Test0, Test1, Tested
<1>1. at = "disable1" /\ at' = "flush"
      /\ config' = Configured(With(config, CLOCK1_OFF))
  BY DEF Command
<1>2. UNCHANGED <<wire, chip, cmd, second_channel_present, ps2_status>>
  BY DEF Command
<1>3. With(config, CLOCK1_OFF) \in Word8
  BY WithBit DEF ControllerTyped, Bit
<1>4. /\ config' \in Word8
      /\ Plain(With(config, CLOCK1_OFF)) => Plain(config')
      /\ IsSet(With(config, CLOCK1_OFF), IRQ0) => IsSet(config', IRQ0)
      /\ IsSet(config', CLOCK1_OFF) <=>
           ~chip.second \/ IsSet(With(config, CLOCK1_OFF), CLOCK1_OFF)
  BY <1>1, <1>3, ConfiguredByte DEF ControllerTyped
<1>t. ControllerTyped'
  BY <1>1, <1>2, <1>4 DEF ControllerTyped, driver, acpi_vars, Working
<1>w. prompt => OnlyAnswers'
  BY <1>1, <1>2 DEF OnlyAnswers, wire, Only
<1>c. prompt => ConfigKnown'
  BY <1>1, <1>2, <1>4 DEF ConfigKnown
<1>s. prompt => StatusKnown'
  BY <1>1, <1>2, <1>4 DEF StatusKnown, Statuses, ps2_controller_present, acpi_vars
<1>p. StatusIsTrue'
  BY <1>1, <1>2 DEF StatusIsTrue
<1> QED
  BY <1>t, <1>w, <1>c, <1>s, <1>p DEF world

LEMMA Enable1 ==
  ASSUME ControllerInv, AtBoot, Command("enable1", "read2", Without(config, CLOCK1_OFF))
  PROVE  ControllerInv'
<1> USE DEF ControllerInv, AtBoot, Asking, Unflushed, BeforeTest, AfterTest,
            Search, Second, Test0, Test1, Tested
<1>1. at = "enable1" /\ at' = "read2" /\ config' = Configured(Without(config, CLOCK1_OFF))
  BY DEF Command
<1>2. UNCHANGED <<wire, chip, cmd, second_channel_present, ps2_status>>
  BY DEF Command
<1>3. Without(config, CLOCK1_OFF) \in Word8
  BY WithoutBit DEF ControllerTyped, Bit
<1>4. /\ config' \in Word8
      /\ Plain(Without(config, CLOCK1_OFF)) => Plain(config')
      /\ IsSet(Without(config, CLOCK1_OFF), IRQ0) => IsSet(config', IRQ0)
      /\ IsSet(config', CLOCK1_OFF) <=>
           ~chip.second \/ IsSet(Without(config, CLOCK1_OFF), CLOCK1_OFF)
  BY <1>1, <1>3, ConfiguredByte DEF ControllerTyped
<1>5. /\ Plain(config) => Plain(Without(config, CLOCK1_OFF))
      /\ ~IsSet(Without(config, CLOCK1_OFF), CLOCK1_OFF)
  <2>1. CLOCK0_OFF # CLOCK1_OFF /\ TRANSLATION # CLOCK1_OFF
        /\ {CLOCK0_OFF, CLOCK1_OFF, TRANSLATION} \subseteq Bit
    BY DEF CLOCK0_OFF, CLOCK1_OFF, TRANSLATION, Bit
  <2> QED
    BY <2>1, WithoutBit DEF ControllerTyped, Plain
<1>t. ControllerTyped'
  BY <1>1, <1>2, <1>4 DEF ControllerTyped, driver, acpi_vars, Working
<1>w. prompt => OnlyAnswers'
  BY <1>1, <1>2 DEF OnlyAnswers, wire, Only
<1>c. prompt => ConfigKnown'
  BY <1>1, <1>2, <1>4, <1>5 DEF ConfigKnown
<1>s. prompt => StatusKnown'
  BY <1>1, <1>2, <1>4, <1>5 DEF StatusKnown, Statuses, ps2_controller_present,
     acpi_vars, wire, Only
<1>p. StatusIsTrue'
  BY <1>1, <1>2 DEF StatusIsTrue
<1> QED
  BY <1>t, <1>w, <1>c, <1>s, <1>p DEF world

LEMMA Disable1Again ==
  ASSUME ControllerInv, AtBoot, Command("disable1_again", "read3", With(config, CLOCK1_OFF))
  PROVE  ControllerInv'
<1> USE DEF ControllerInv, AtBoot, Asking, Unflushed, BeforeTest, AfterTest,
            Search, Second, Test0, Test1, Tested
<1>1. at = "disable1_again" /\ at' = "read3"
      /\ config' = Configured(With(config, CLOCK1_OFF))
  BY DEF Command
<1>2. UNCHANGED <<wire, chip, cmd, second_channel_present, ps2_status>>
  BY DEF Command
<1>3. With(config, CLOCK1_OFF) \in Word8
  BY WithBit DEF ControllerTyped, Bit
<1>4. /\ config' \in Word8
      /\ Plain(With(config, CLOCK1_OFF)) => Plain(config')
      /\ IsSet(With(config, CLOCK1_OFF), IRQ0) => IsSet(config', IRQ0)
      /\ IsSet(config', CLOCK1_OFF) <=>
           ~chip.second \/ IsSet(With(config, CLOCK1_OFF), CLOCK1_OFF)
  BY <1>1, <1>3, ConfiguredByte DEF ControllerTyped
<1>5. /\ Plain(config) => Plain(With(config, CLOCK1_OFF))
      /\ IsSet(With(config, CLOCK1_OFF), CLOCK1_OFF)
  <2>1. CLOCK0_OFF # CLOCK1_OFF /\ TRANSLATION # CLOCK1_OFF
        /\ {CLOCK0_OFF, CLOCK1_OFF, TRANSLATION} \subseteq Bit
    BY DEF CLOCK0_OFF, CLOCK1_OFF, TRANSLATION, Bit
  <2> QED
    BY <2>1, WithBit DEF ControllerTyped, Plain
<1>t. ControllerTyped'
  BY <1>1, <1>2, <1>4 DEF ControllerTyped, driver, acpi_vars, Working
<1>w. prompt => OnlyAnswers'
  BY <1>1, <1>2 DEF OnlyAnswers, wire, Only
<1>c. prompt => ConfigKnown'
  BY <1>1, <1>2, <1>4, <1>5 DEF ConfigKnown
<1>s. prompt => StatusKnown'
  BY <1>1, <1>2, <1>4, <1>5 DEF StatusKnown, Statuses, ps2_controller_present,
     acpi_vars, wire, Only
<1>p. StatusIsTrue'
  BY <1>1, <1>2 DEF StatusIsTrue
<1> QED
  BY <1>t, <1>w, <1>c, <1>s, <1>p DEF world

LEMMA Write1 ==
  ASSUME ControllerInv, AtBoot, Command("write1", "self_test", cmd)
  PROVE  ControllerInv'
<1> USE DEF ControllerInv, AtBoot, Asking, Unflushed, BeforeTest, AfterTest,
            Search, Second, Test0, Test1, Tested
<1>1. at = "write1" /\ at' = "self_test" /\ config' = Configured(cmd)
  BY DEF Command
<1>2. UNCHANGED <<wire, chip, cmd, second_channel_present, ps2_status>>
  BY DEF Command
<1>3. cmd \in Word8
  BY ConfiguredByte DEF ControllerTyped, Bit
<1>4. /\ config' \in Word8
      /\ Plain(cmd) => Plain(config')
      /\ IsSet(cmd, IRQ0) => IsSet(config', IRQ0)
      /\ IsSet(config', CLOCK1_OFF) <=> ~chip.second \/ IsSet(cmd, CLOCK1_OFF)
  BY <1>1, <1>3, ConfiguredByte DEF ControllerTyped
<1>t. ControllerTyped'
  BY <1>1, <1>2, <1>4 DEF ControllerTyped, driver, acpi_vars, Working
<1>w. prompt => OnlyAnswers'
  BY <1>1, <1>2 DEF OnlyAnswers, wire, Only
<1>c. prompt => ConfigKnown'
  BY <1>1, <1>2, <1>4 DEF ConfigKnown
<1>s. prompt => StatusKnown'
  BY <1>1, <1>2, <1>4 DEF StatusKnown, Statuses, ps2_controller_present, acpi_vars
<1>p. StatusIsTrue'
  BY <1>1, <1>2 DEF StatusIsTrue
<1> QED
  BY <1>t, <1>w, <1>c, <1>s, <1>p DEF world

LEMMA Write3 ==
  ASSUME ControllerInv, AtBoot, Command("write3", "test0", cmd)
  PROVE  ControllerInv'
<1> USE DEF ControllerInv, AtBoot, Asking, Unflushed, BeforeTest, AfterTest,
            Search, Second, Test0, Test1, Tested
<1>1. at = "write3" /\ at' = "test0" /\ config' = Configured(cmd)
  BY DEF Command
<1>2. UNCHANGED <<wire, chip, cmd, second_channel_present, ps2_status>>
  BY DEF Command
<1>3. cmd \in Word8
  BY ConfiguredByte DEF ControllerTyped, Bit
<1>4. /\ config' \in Word8
      /\ Plain(cmd) => Plain(config')
      /\ IsSet(cmd, IRQ0) => IsSet(config', IRQ0)
      /\ IsSet(config', CLOCK1_OFF) <=> ~chip.second \/ IsSet(cmd, CLOCK1_OFF)
  BY <1>1, <1>3, ConfiguredByte DEF ControllerTyped
<1>t. ControllerTyped'
  BY <1>1, <1>2, <1>4 DEF ControllerTyped, driver, acpi_vars, Working
<1>w. prompt => OnlyAnswers'
  BY <1>1, <1>2 DEF OnlyAnswers, wire, Only
<1>c. prompt => ConfigKnown'
  BY <1>1, <1>2, <1>4 DEF ConfigKnown
<1>s. prompt => StatusKnown'
  BY <1>1, <1>2, <1>4 DEF StatusKnown, Statuses, ps2_controller_present, acpi_vars
<1>p. StatusIsTrue'
  BY <1>1, <1>2 DEF StatusIsTrue
<1> QED
  BY <1>t, <1>w, <1>c, <1>s, <1>p DEF world

LEMMA Write4 ==
  ASSUME ControllerInv, AtBoot, Command("write4", "done", cmd)
  PROVE  ControllerInv'
<1> USE DEF ControllerInv, AtBoot, Asking, Unflushed, BeforeTest, AfterTest,
            Search, Second, Test0, Test1, Tested
<1>1. at = "write4" /\ at' = "done" /\ config' = Configured(cmd)
  BY DEF Command
<1>2. UNCHANGED <<wire, chip, cmd, second_channel_present, ps2_status>>
  BY DEF Command
<1>3. cmd \in Word8
  BY ConfiguredByte DEF ControllerTyped, Bit
<1>4. /\ config' \in Word8
      /\ Plain(cmd) => Plain(config')
      /\ IsSet(cmd, IRQ0) => IsSet(config', IRQ0)
      /\ IsSet(config', CLOCK1_OFF) <=> ~chip.second \/ IsSet(cmd, CLOCK1_OFF)
  BY <1>1, <1>3, ConfiguredByte DEF ControllerTyped
<1>t. ControllerTyped'
  BY <1>1, <1>2, <1>4 DEF ControllerTyped, driver, acpi_vars, Working
<1>w. prompt => OnlyAnswers'
  BY <1>1, <1>2 DEF OnlyAnswers, wire, Only
<1>c. prompt => ConfigKnown'
  BY <1>1, <1>2, <1>4 DEF ConfigKnown
<1>s. prompt => StatusKnown'
  BY <1>1, <1>2, <1>4 DEF StatusKnown, Statuses, ps2_controller_present, acpi_vars
<1>p. StatusIsTrue'
  <2> SUFFICES ASSUME prompt, RSDP # NULL
               PROVE  /\ ps2_controller_present(firmware.memory[RSDP].revision) /\ chip.passes
                      /\ ps2_status = [ch \in Channel |->
                           IF ch = 0 \/ chip.second THEN chip.tests[ch] ELSE ABSENT]
    BY <1>1, <1>2 DEF StatusIsTrue, ps2_controller_present, acpi_vars, world
  <2>1. /\ ps2_controller_present(firmware.memory[RSDP].revision) /\ chip.passes
        /\ Statuses(chip.tests[0], IF chip.second THEN chip.tests[1] ELSE ABSENT)
    BY <1>1 DEF StatusKnown
  <2> QED
    BY <2>1 DEF Statuses, Channel
<1> QED
  BY <1>t, <1>w, <1>c, <1>s, <1>p DEF world

LEMMA AskConfig1 ==
  ASSUME ControllerInv, AtBoot, Ask("read1", "config1", config)
  PROVE  ControllerInv'
<1> USE DEF ControllerInv, AtBoot, Asking, Unflushed, BeforeTest, AfterTest,
            Search, Second, Test0, Test1, Tested
<1>1. at = "read1" /\ at' = "config1" /\ Answer(CONTROLLER, <<config>>)
  BY DEF Ask
<1>2. UNCHANGED <<chip, config, cmd, second_channel_present, ps2_status>>
  BY DEF Ask
<1>3. ASSUME NEW byte, byte = config, prompt PROVE Answering(byte)'
  BY <1>1, <1>3, AnswerComes DEF OnlyAnswers
<1>4. prompt => Answering(Awaited[at])'
  BY <1>1, <1>2, <1>3 DEF Awaited, Answering, Only
<1>t. ControllerTyped'
  BY <1>1, <1>2 DEF ControllerTyped, driver, acpi_vars, Working
<1>w. prompt => OnlyAnswers'
  BY <1>1, <1>4 DEF OnlyAnswers, Only
<1>c. prompt => ConfigKnown'
  BY <1>1, <1>2 DEF ConfigKnown
<1>s. prompt => StatusKnown'
  BY <1>1, <1>2 DEF StatusKnown, Statuses, ps2_controller_present, acpi_vars
<1>p. StatusIsTrue'
  BY <1>1 DEF StatusIsTrue
<1> QED
  BY <1>t, <1>w, <1>c, <1>s, <1>p DEF world

LEMMA AskConfig2 ==
  ASSUME ControllerInv, AtBoot, Ask("read2", "config2", config)
  PROVE  ControllerInv'
<1> USE DEF ControllerInv, AtBoot, Asking, Unflushed, BeforeTest, AfterTest,
            Search, Second, Test0, Test1, Tested
<1>1. at = "read2" /\ at' = "config2" /\ Answer(CONTROLLER, <<config>>)
  BY DEF Ask
<1>2. UNCHANGED <<chip, config, cmd, second_channel_present, ps2_status>>
  BY DEF Ask
<1>3. ASSUME NEW byte, byte = config, prompt PROVE Answering(byte)'
  BY <1>1, <1>3, AnswerComes DEF OnlyAnswers
<1>4. prompt => Answering(Awaited[at])'
  BY <1>1, <1>2, <1>3 DEF Awaited, Answering, Only
<1>t. ControllerTyped'
  BY <1>1, <1>2 DEF ControllerTyped, driver, acpi_vars, Working
<1>w. prompt => OnlyAnswers'
  BY <1>1, <1>4 DEF OnlyAnswers, Only
<1>c. prompt => ConfigKnown'
  BY <1>1, <1>2 DEF ConfigKnown
<1>s. prompt => StatusKnown'
  BY <1>1, <1>2 DEF StatusKnown, Statuses, ps2_controller_present, acpi_vars
<1>p. StatusIsTrue'
  BY <1>1 DEF StatusIsTrue
<1> QED
  BY <1>t, <1>w, <1>c, <1>s, <1>p DEF world

LEMMA AskConfig3 ==
  ASSUME ControllerInv, AtBoot, Ask("read3", "config3", config)
  PROVE  ControllerInv'
<1> USE DEF ControllerInv, AtBoot, Asking, Unflushed, BeforeTest, AfterTest,
            Search, Second, Test0, Test1, Tested
<1>1. at = "read3" /\ at' = "config3" /\ Answer(CONTROLLER, <<config>>)
  BY DEF Ask
<1>2. UNCHANGED <<chip, config, cmd, second_channel_present, ps2_status>>
  BY DEF Ask
<1>3. ASSUME NEW byte, byte = config, prompt PROVE Answering(byte)'
  BY <1>1, <1>3, AnswerComes DEF OnlyAnswers
<1>4. prompt => Answering(Awaited[at])'
  BY <1>1, <1>2, <1>3 DEF Awaited, Answering, Only
<1>t. ControllerTyped'
  BY <1>1, <1>2 DEF ControllerTyped, driver, acpi_vars, Working
<1>w. prompt => OnlyAnswers'
  BY <1>1, <1>4 DEF OnlyAnswers, Only
<1>c. prompt => ConfigKnown'
  BY <1>1, <1>2 DEF ConfigKnown
<1>s. prompt => StatusKnown'
  BY <1>1, <1>2 DEF StatusKnown, Statuses, ps2_controller_present, acpi_vars
<1>p. StatusIsTrue'
  BY <1>1 DEF StatusIsTrue
<1> QED
  BY <1>t, <1>w, <1>c, <1>s, <1>p DEF world

LEMMA AskConfig4 ==
  ASSUME ControllerInv, AtBoot, Ask("read4", "config4", config)
  PROVE  ControllerInv'
<1> USE DEF ControllerInv, AtBoot, Asking, Unflushed, BeforeTest, AfterTest,
            Search, Second, Test0, Test1, Tested
<1>1. at = "read4" /\ at' = "config4" /\ Answer(CONTROLLER, <<config>>)
  BY DEF Ask
<1>2. UNCHANGED <<chip, config, cmd, second_channel_present, ps2_status>>
  BY DEF Ask
<1>3. ASSUME NEW byte, byte = config, prompt PROVE Answering(byte)'
  BY <1>1, <1>3, AnswerComes DEF OnlyAnswers
<1>4. prompt => Answering(Awaited[at])'
  BY <1>1, <1>2, <1>3 DEF Awaited, Answering, Only
<1>t. ControllerTyped'
  BY <1>1, <1>2 DEF ControllerTyped, driver, acpi_vars, Working
<1>w. prompt => OnlyAnswers'
  BY <1>1, <1>4 DEF OnlyAnswers, Only
<1>c. prompt => ConfigKnown'
  BY <1>1, <1>2 DEF ConfigKnown
<1>s. prompt => StatusKnown'
  BY <1>1, <1>2 DEF StatusKnown, Statuses, ps2_controller_present, acpi_vars
<1>p. StatusIsTrue'
  BY <1>1 DEF StatusIsTrue
<1> QED
  BY <1>t, <1>w, <1>c, <1>s, <1>p DEF world

LEMMA AskTest0 ==
  ASSUME ControllerInv, AtBoot, Ask("test0", "tested0", chip.tests[0])
  PROVE  ControllerInv'
<1> USE DEF ControllerInv, AtBoot, Asking, Unflushed, BeforeTest, AfterTest,
            Search, Second, Test0, Test1, Tested
<1>1. at = "test0" /\ at' = "tested0" /\ Answer(CONTROLLER, <<chip.tests[0]>>)
  BY DEF Ask
<1>2. UNCHANGED <<chip, config, cmd, second_channel_present, ps2_status>>
  BY DEF Ask
<1>3. ASSUME NEW byte, byte = chip.tests[0], prompt PROVE Answering(byte)'
  BY <1>1, <1>3, AnswerComes DEF OnlyAnswers
<1>4. prompt => Answering(Awaited[at])'
  BY <1>1, <1>2, <1>3 DEF Awaited, Answering, Only
<1>t. ControllerTyped'
  BY <1>1, <1>2 DEF ControllerTyped, driver, acpi_vars, Working
<1>w. prompt => OnlyAnswers'
  BY <1>1, <1>4 DEF OnlyAnswers, Only
<1>c. prompt => ConfigKnown'
  BY <1>1, <1>2 DEF ConfigKnown
<1>s. prompt => StatusKnown'
  BY <1>1, <1>2 DEF StatusKnown, Statuses, ps2_controller_present, acpi_vars
<1>p. StatusIsTrue'
  BY <1>1 DEF StatusIsTrue
<1> QED
  BY <1>t, <1>w, <1>c, <1>s, <1>p DEF world

LEMMA AskTest1 ==
  ASSUME ControllerInv, AtBoot, Ask("test1", "tested1", chip.tests[1])
  PROVE  ControllerInv'
<1> USE DEF ControllerInv, AtBoot, Asking, Unflushed, BeforeTest, AfterTest,
            Search, Second, Test0, Test1, Tested
<1>1. at = "test1" /\ at' = "tested1" /\ Answer(CONTROLLER, <<chip.tests[1]>>)
  BY DEF Ask
<1>2. UNCHANGED <<chip, config, cmd, second_channel_present, ps2_status>>
  BY DEF Ask
<1>3. ASSUME NEW byte, byte = chip.tests[1], prompt PROVE Answering(byte)'
  BY <1>1, <1>3, AnswerComes DEF OnlyAnswers
<1>4. prompt => Answering(Awaited[at])'
  BY <1>1, <1>2, <1>3 DEF Awaited, Answering, Only
<1>t. ControllerTyped'
  BY <1>1, <1>2 DEF ControllerTyped, driver, acpi_vars, Working
<1>w. prompt => OnlyAnswers'
  BY <1>1, <1>4 DEF OnlyAnswers, Only
<1>c. prompt => ConfigKnown'
  BY <1>1, <1>2 DEF ConfigKnown
<1>s. prompt => StatusKnown'
  BY <1>1, <1>2 DEF StatusKnown, Statuses, ps2_controller_present, acpi_vars
<1>p. StatusIsTrue'
  BY <1>1 DEF StatusIsTrue
<1> QED
  BY <1>t, <1>w, <1>c, <1>s, <1>p DEF world

LEMMA Flush ==
  ASSUME ControllerInv, AtBoot, flush
  PROVE  ControllerInv'
<1> USE DEF ControllerInv, AtBoot, Asking, Unflushed, BeforeTest, AfterTest,
            Search, Second, Test0, Test1, Tested
<1>1. at = "flush" /\ at' = "read1" /\ output' = Empty
  BY DEF flush
<1>2. UNCHANGED <<pending, chip, config, cmd, second_channel_present, ps2_status>>
  BY DEF flush
<1>t. ControllerTyped'
  BY <1>1, <1>2 DEF ControllerTyped, driver, acpi_vars, Working
<1>w. prompt => OnlyAnswers'
  BY <1>1, <1>2 DEF OnlyAnswers, Only
<1>c. prompt => ConfigKnown'
  BY <1>1, <1>2 DEF ConfigKnown
<1>s. prompt => StatusKnown'
  BY <1>1, <1>2 DEF StatusKnown, Statuses, ps2_controller_present, acpi_vars
<1>p. StatusIsTrue'
  BY <1>1 DEF StatusIsTrue
<1> QED
  BY <1>t, <1>w, <1>c, <1>s, <1>p DEF world

LEMMA SelfTest ==
  ASSUME ControllerInv, AtBoot, self_test
  PROVE  ControllerInv'
<1> USE DEF ControllerInv, AtBoot, Asking, Unflushed, BeforeTest, AfterTest,
            Search, Second, Test0, Test1, Tested
<1>1. at = "self_test" /\ at' = "self_tested"
  BY DEF self_test
<1>2. UNCHANGED <<chip, cmd, second_channel_present, ps2_status>>
  BY DEF self_test
<1> DEFINE byte == IF chip.passes THEN PS2_SELF_TEST_SUCCESS ELSE PS2_SELF_TEST_FAILURE
<1>3. prompt => Answering(byte)'
  BY <1>1, AnswerComes DEF self_test, OnlyAnswers
<1>4. prompt => Answering(Awaited[at])'
  BY <1>1, <1>2, <1>3 DEF Awaited, Answering, Only
<1>5. config' \in Word8 /\ (~chip.resets => config' = config)
  BY ChipFacts, ConfiguredByte DEF self_test, ControllerTyped
<1>t. ControllerTyped'
  BY <1>1, <1>2, <1>5 DEF ControllerTyped, driver, acpi_vars, Working
<1>w. prompt => OnlyAnswers'
  BY <1>1, <1>4 DEF OnlyAnswers, Only
<1>c. prompt => ConfigKnown'
  BY <1>1, <1>2, <1>5 DEF ConfigKnown
<1>s. prompt => StatusKnown'
  BY <1>1, <1>2 DEF StatusKnown, Statuses, ps2_controller_present, acpi_vars
<1>p. StatusIsTrue'
  BY <1>1 DEF StatusIsTrue
<1> QED
  BY <1>t, <1>w, <1>c, <1>s, <1>p DEF world

LEMMA ReadConfig1 ==
  ASSUME ControllerInv, AtBoot, at = "config1", read_config
  PROVE  ControllerInv'
<1> USE DEF ControllerInv, AtBoot, Asking, Unflushed, BeforeTest, AfterTest,
            Search, Second, Test0, Test1, Tested
<1>1. at = "config1" /\ at' = "write1"
      /\ ReadByte(Word8) /\ UNCHANGED <<chip, config>>
  BY DEF read_config, Take, Word8
<1>2. prompt => output[2] = config /\ output' = Empty /\ Only(<<>>)'
  BY <1>1, AnswerIsRead DEF OnlyAnswers, Awaited
<1>3. output[2] \in Word8
  BY <1>1 DEF ReadByte
<1>4. cmd' = FirstConfig(output[2]) /\ UNCHANGED <<second_channel_present, ps2_status>>
  BY DEF read_config, Take
<1>5. cmd' \in Word8 /\ Plain(cmd')
  BY <1>3, <1>4, FirstConfigIsPlain
<1>t. ControllerTyped'
  BY <1>1, <1>4, <1>5 DEF ControllerTyped, driver, acpi_vars, Working
<1>w. prompt => OnlyAnswers'
  BY <1>1, <1>2 DEF OnlyAnswers, Only
<1>c. prompt => ConfigKnown'
  BY <1>1, <1>2, <1>4, <1>5 DEF ConfigKnown
<1>s. prompt => StatusKnown'
  BY <1>1, <1>4 DEF StatusKnown, Statuses, ps2_controller_present, acpi_vars
<1>p. StatusIsTrue'
  BY <1>1 DEF StatusIsTrue
<1> QED
  BY <1>t, <1>w, <1>c, <1>s, <1>p DEF world

LEMMA ReadConfig3 ==
  ASSUME ControllerInv, AtBoot, at = "config3", read_config
  PROVE  ControllerInv'
<1> USE DEF ControllerInv, AtBoot, Asking, Unflushed, BeforeTest, AfterTest,
            Search, Second, Test0, Test1, Tested
<1>1. at = "config3" /\ at' = "write3"
      /\ ReadByte(Word8) /\ UNCHANGED <<chip, config>>
  BY DEF read_config, Take, Word8
<1>2. prompt => output[2] = config /\ output' = Empty /\ Only(<<>>)'
  BY <1>1, AnswerIsRead DEF OnlyAnswers, Awaited
<1>3. output[2] \in Word8
  BY <1>1 DEF ReadByte
<1>4. cmd' = Without(Without(output[2], IRQ1), CLOCK1_OFF)
      /\ UNCHANGED <<second_channel_present, ps2_status>>
  BY DEF read_config, Take
<1>5. cmd' \in Word8 /\ (Plain(output[2]) => Plain(cmd'))
  <2>1. {IRQ1, CLOCK0_OFF, CLOCK1_OFF, TRANSLATION} \subseteq Bit
    BY DEF Bit
  <2> DEFINE byte == Without(output[2], IRQ1)
  <2>2. byte \in Word8 /\ (Plain(output[2]) => Plain(byte))
    BY <1>3, <2>1, WithoutBit DEF Plain
  <2> HIDE DEF byte
  <2>3. LET b == Without(byte, CLOCK1_OFF) IN b \in Word8 /\ (Plain(byte) => Plain(b))
    BY <2>1, <2>2, WithoutBit DEF Plain
  <2> QED
    BY <1>4, <2>2, <2>3 DEF byte
<1>t. ControllerTyped'
  BY <1>1, <1>4, <1>5 DEF ControllerTyped, driver, acpi_vars, Working
<1>w. prompt => OnlyAnswers'
  BY <1>1, <1>2 DEF OnlyAnswers, Only
<1>c. prompt => ConfigKnown'
  BY <1>1, <1>2, <1>4, <1>5 DEF ConfigKnown
<1>s. prompt => StatusKnown'
  BY <1>1, <1>4 DEF StatusKnown, Statuses, ps2_controller_present, acpi_vars
<1>p. StatusIsTrue'
  BY <1>1 DEF StatusIsTrue
<1> QED
  BY <1>t, <1>w, <1>c, <1>s, <1>p DEF world

LEMMA ReadConfig4 ==
  ASSUME ControllerInv, AtBoot, at = "config4", read_config
  PROVE  ControllerInv'
<1> USE DEF ControllerInv, AtBoot, Asking, Unflushed, BeforeTest, AfterTest,
            Search, Second, Test0, Test1, Tested
<1>1. at = "config4" /\ at' = "write4"
      /\ ReadByte(Word8) /\ UNCHANGED <<chip, config>>
  BY DEF read_config, Take, Word8
<1>2. prompt => output[2] = config /\ output' = Empty /\ Only(<<>>)'
  BY <1>1, AnswerIsRead DEF OnlyAnswers, Awaited
<1>3. output[2] \in Word8
  BY <1>1 DEF ReadByte
<1>4. cmd' = With(With(output[2], IRQ0), IRQ1)
      /\ UNCHANGED <<second_channel_present, ps2_status>>
  BY DEF read_config, Take
<1>5. cmd' \in Word8 /\ IsSet(cmd', IRQ0) /\ (Plain(output[2]) => Plain(cmd'))
  <2>1. {IRQ0, IRQ1, CLOCK0_OFF, TRANSLATION} \subseteq Bit
    BY DEF Bit
  <2>2. {IRQ0, IRQ1} \cap {CLOCK0_OFF, TRANSLATION} = {}
    BY DEF IRQ0, IRQ1, CLOCK0_OFF, TRANSLATION
  <2> DEFINE byte == With(output[2], IRQ0)
  <2>3. byte \in Word8 /\ IsSet(byte, IRQ0) /\ (Plain(output[2]) => Plain(byte))
    BY <1>3, <2>1, <2>2, WithBit DEF Plain
  <2> HIDE DEF byte
  <2>4. LET b == With(byte, IRQ1) IN b \in Word8 /\ IsSet(b, IRQ0) /\ (Plain(byte) => Plain(b))
    BY <2>1, <2>2, <2>3, WithBit DEF Plain
  <2> QED
    BY <1>4, <2>3, <2>4 DEF byte
<1>t. ControllerTyped'
  BY <1>1, <1>4, <1>5 DEF ControllerTyped, driver, acpi_vars, Working
<1>w. prompt => OnlyAnswers'
  BY <1>1, <1>2 DEF OnlyAnswers, Only
<1>c. prompt => ConfigKnown'
  BY <1>1, <1>2, <1>4, <1>5 DEF ConfigKnown
<1>s. prompt => StatusKnown'
  BY <1>1, <1>4 DEF StatusKnown, Statuses, ps2_controller_present, acpi_vars
<1>p. StatusIsTrue'
  BY <1>1 DEF StatusIsTrue
<1> QED
  BY <1>t, <1>w, <1>c, <1>s, <1>p DEF world

LEMMA SelfTested ==
  ASSUME ControllerInv, AtBoot, self_tested
  PROVE  ControllerInv'
<1> USE DEF ControllerInv, AtBoot, Asking, Unflushed, BeforeTest, AfterTest,
            Search, Second, Test0, Test1, Tested
<1>1. at = "self_tested"
      /\ at' = (IF output[2] = PS2_SELF_TEST_SUCCESS THEN "enable1" ELSE "done")
      /\ ReadByte(Word8) /\ UNCHANGED <<chip, config>>
  BY DEF self_tested, Take, Word8
<1>2. prompt =>
        /\ output[2] = IF chip.passes THEN PS2_SELF_TEST_SUCCESS ELSE PS2_SELF_TEST_FAILURE
        /\ output' = Empty /\ Only(<<>>)'
  BY <1>1, AnswerIsRead DEF OnlyAnswers, Awaited
<1>3. output[2] \in Word8
  BY <1>1 DEF ReadByte
<1>4. UNCHANGED <<cmd, second_channel_present, ps2_status>>
  BY DEF self_tested
<1>5. prompt => at' = IF chip.passes THEN "enable1" ELSE "done"
  BY <1>1, <1>2 DEF PS2_SELF_TEST_SUCCESS, PS2_SELF_TEST_FAILURE
<1>6. prompt => 0 \notin ok'
  BY <1>1, <1>4 DEF StatusKnown, Statuses, Working, UNINITIALIZED, CHANNEL_OK, Channel
<1>t. ControllerTyped'
  BY <1>1, <1>4 DEF ControllerTyped, driver, acpi_vars, Working
<1>w. prompt => OnlyAnswers'
  BY <1>1, <1>2 DEF OnlyAnswers, Only
<1>c. prompt => ConfigKnown'
  BY <1>1, <1>2, <1>4, <1>6 DEF ConfigKnown
<1>s. prompt => StatusKnown'
  BY <1>1, <1>4, <1>5 DEF StatusKnown, Statuses, ps2_controller_present, acpi_vars
<1>p. StatusIsTrue'
  <2> SUFFICES ASSUME prompt, RSDP # NULL, at' = "done"
               PROVE  /\ ps2_controller_present(firmware.memory[RSDP].revision) /\ ~chip.passes
                      /\ ps2_status = [ch \in Channel |-> UNINITIALIZED]
    BY <1>1, <1>4 DEF StatusIsTrue, ps2_controller_present, acpi_vars, world
  <2>1. /\ ps2_controller_present(firmware.memory[RSDP].revision)
        /\ Statuses(UNINITIALIZED, UNINITIALIZED)
    BY <1>1 DEF StatusKnown
  <2> QED
    BY <1>5, <2>1 DEF Statuses, Channel
<1> QED
  BY <1>t, <1>w, <1>c, <1>s, <1>p DEF world

LEMMA LookForSecond ==
  ASSUME ControllerInv, AtBoot, look_for_second
  PROVE  ControllerInv'
<1> USE DEF ControllerInv, AtBoot, Asking, Unflushed, BeforeTest, AfterTest,
            Search, Second, Test0, Test1, Tested
<1>1. at = "config2"
      /\ at' = (IF ~IsSet(output[2], CLOCK1_OFF) THEN "disable1_again" ELSE "test0")
      /\ ReadByte(Word8) /\ UNCHANGED <<chip, config>>
  BY DEF look_for_second, Take, Word8
<1>2. prompt => output[2] = config /\ output' = Empty /\ Only(<<>>)'
  BY <1>1, AnswerIsRead DEF OnlyAnswers, Awaited
<1>3. output[2] \in Word8
  BY <1>1 DEF ReadByte
<1>4. /\ second_channel_present' = ~IsSet(output[2], CLOCK1_OFF)
      /\ ps2_status' = IF ~IsSet(output[2], CLOCK1_OFF) THEN ps2_status
                       ELSE [ps2_status EXCEPT ![1] = ABSENT]
      /\ cmd' = output[2]
  BY DEF look_for_second
<1>5. prompt => (~IsSet(output[2], CLOCK1_OFF) <=> chip.second) /\ chip.second \in BOOLEAN
  BY <1>1, <1>2, ChipFacts DEF StatusKnown, ControllerTyped
<1>6. prompt => Statuses(UNINITIALIZED, UNINITIALIZED)
  BY <1>1 DEF StatusKnown
<1>7. prompt => Statuses(UNINITIALIZED, IF chip.second THEN UNINITIALIZED ELSE ABSENT)'
  <2>1. CASE prompt /\ chip.second
    BY <1>1, <1>4, <1>5, <1>6, <2>1 DEF Statuses
  <2>2. CASE prompt /\ ~chip.second
    <3>1. ps2_status' = [ps2_status EXCEPT ![1] = ABSENT]
      BY <1>4, <1>5, <2>2
    <3>2. ps2_status' = [ch \in Channel |-> IF ch = 0 THEN UNINITIALIZED ELSE ABSENT]
      <4>1. ps2_status = [ch \in Channel |-> IF ch = 0 THEN UNINITIALIZED ELSE UNINITIALIZED]
        BY <1>6, <2>2, Zenon DEF Statuses
      <4>2. [ps2_status EXCEPT ![1] = ABSENT]
              = [ch \in Channel |-> IF ch = 0 THEN UNINITIALIZED ELSE ABSENT]
        BY <4>1, SecondStatus, SMTT(30)
      <4> QED
        BY <3>1, <4>2, Zenon
    <3> QED
      BY <1>1, <2>2, <3>2 DEF Statuses
  <2> QED
    BY <2>1, <2>2
<1>9. ps2_status' \in [Channel -> 0 .. 15]
  <2>1. ps2_status' = ps2_status \/ ps2_status' = [ps2_status EXCEPT ![1] = ABSENT]
    BY <1>4
  <2> QED
    BY <2>1 DEF ControllerTyped, ABSENT
<1>8. prompt /\ chip.second => Statuses(UNINITIALIZED, UNINITIALIZED)'
  BY <1>1, <1>7 DEF Statuses
<1>t. ControllerTyped'
  BY <1>1, <1>3, <1>4, <1>9 DEF ControllerTyped, driver, world, acpi_vars, Working,
     ABSENT, Only
<1>w. prompt => OnlyAnswers'
  BY <1>1, <1>2 DEF OnlyAnswers, Only
<1>c. prompt => ConfigKnown'
  BY <1>1, <1>2, <1>4 DEF ConfigKnown
<1>s. prompt => StatusKnown'
  BY <1>1, <1>4, <1>5, <1>7, <1>8 DEF StatusKnown, Statuses, ps2_controller_present,
     acpi_vars, Only
<1>p. StatusIsTrue'
  BY <1>1 DEF StatusIsTrue
<1> QED
  BY <1>t, <1>w, <1>c, <1>s, <1>p DEF world

LEMMA Tested0 ==
  ASSUME ControllerInv, AtBoot, at = "tested0", tested
  PROVE  ControllerInv'
<1> USE DEF ControllerInv, AtBoot, Asking, Unflushed, BeforeTest, AfterTest,
            Search, Second, Test0, Test1, Tested
<1>1. at = "tested0"
      /\ at' = (IF second_channel_present THEN "test1" ELSE "read4")
      /\ ReadByte(Word8) /\ UNCHANGED <<chip, config>>
  BY DEF tested, Take, Word8
<1>2. prompt => output[2] = chip.tests[0] /\ output' = Empty /\ Only(<<>>)'
  BY <1>1, AnswerIsRead DEF OnlyAnswers, Awaited
<1>3. output[2] \in Word8
  BY <1>1 DEF ReadByte
<1>4. ps2_status' = [ps2_status EXCEPT ![0] = output[2] % 16]
      /\ UNCHANGED <<cmd, second_channel_present>>
  BY DEF tested, Take
<1>5. prompt => output[2] % 16 = chip.tests[0]
  BY <1>2, ChipFacts DEF ControllerTyped
<1>6. output[2] % 16 \in 0 .. 15
  BY <1>3 DEF Word8
<1>7. prompt => /\ second_channel_present = chip.second
                /\ Statuses(chip.tests[0], IF chip.second THEN UNINITIALIZED ELSE ABSENT)'
                /\ chip.second => Statuses(chip.tests[0], UNINITIALIZED)'
                /\ ~chip.second => Statuses(chip.tests[0], IF chip.second THEN chip.tests[1] ELSE ABSENT)'
  BY <1>1, <1>4, <1>5 DEF StatusKnown, Statuses, Channel
<1>t. ControllerTyped'
  BY <1>1, <1>3, <1>4, <1>6 DEF ControllerTyped, driver, world, acpi_vars, Working,
     ABSENT, Only
<1>w. prompt => OnlyAnswers'
  BY <1>1, <1>2 DEF OnlyAnswers, Only
<1>c. prompt => ConfigKnown'
  BY <1>1, <1>2, <1>4 DEF ConfigKnown
<1>s. prompt => StatusKnown'
  BY <1>1, <1>4, <1>7 DEF StatusKnown, Statuses, ps2_controller_present, acpi_vars
<1>p. StatusIsTrue'
  BY <1>1 DEF StatusIsTrue
<1> QED
  BY <1>t, <1>w, <1>c, <1>s, <1>p DEF world

LEMMA Tested1 ==
  ASSUME ControllerInv, AtBoot, at = "tested1", tested
  PROVE  ControllerInv'
<1> USE DEF ControllerInv, AtBoot, Asking, Unflushed, BeforeTest, AfterTest,
            Search, Second, Test0, Test1, Tested
<1>1. at = "tested1" /\ at' = "read4"
      /\ ReadByte(Word8) /\ UNCHANGED <<chip, config>>
  BY DEF tested, Take, Word8
<1>2. prompt => output[2] = chip.tests[1] /\ output' = Empty /\ Only(<<>>)'
  BY <1>1, AnswerIsRead DEF OnlyAnswers, Awaited
<1>3. output[2] \in Word8
  BY <1>1 DEF ReadByte
<1>4. ps2_status' = [ps2_status EXCEPT ![1] = output[2] % 16]
      /\ UNCHANGED <<cmd, second_channel_present>>
  BY DEF tested, Take
<1>5. prompt => output[2] % 16 = chip.tests[1]
  BY <1>2, ChipFacts DEF ControllerTyped
<1>6. output[2] % 16 \in 0 .. 15
  BY <1>3 DEF Word8
<1>7. prompt => /\ second_channel_present = chip.second /\ chip.second
                /\ Statuses(chip.tests[0], IF chip.second THEN chip.tests[1] ELSE ABSENT)'
  BY <1>1, <1>4, <1>5 DEF StatusKnown, Statuses, Channel
<1>t. ControllerTyped'
  BY <1>1, <1>3, <1>4, <1>6 DEF ControllerTyped, driver, world, acpi_vars, Working,
     ABSENT, Only
<1>w. prompt => OnlyAnswers'
  BY <1>1, <1>2 DEF OnlyAnswers, Only
<1>c. prompt => ConfigKnown'
  BY <1>1, <1>2, <1>4 DEF ConfigKnown
<1>s. prompt => StatusKnown'
  BY <1>1, <1>4, <1>7 DEF StatusKnown, Statuses, ps2_controller_present, acpi_vars
<1>p. StatusIsTrue'
  BY <1>1 DEF StatusIsTrue
<1> QED
  BY <1>t, <1>w, <1>c, <1>s, <1>p DEF world

LEMMA ControllerStep ==
  ASSUME ControllerInv, AtBoot, init_ps2_controller
  PROVE  ControllerInv'
<1>1. CASE check_present
  BY <1>1, CheckPresent
<1>2. CASE commands
  <2>1. ASSUME NEW n \in 1 .. 4,
               Ask(<<"read1", "read2", "read3", "read4">>[n],
                   <<"config1", "config2", "config3", "config4">>[n], config)
        PROVE  ControllerInv'
    <3>1. n = 1 \/ n = 2 \/ n = 3 \/ n = 4
      OBVIOUS
    <3> QED
      BY <2>1, <3>1, AskConfig1, AskConfig2, AskConfig3, AskConfig4
  <2> QED
    BY <1>2, <2>1, Disable0, Disable1, Enable1, Disable1Again, AskTest0, AskTest1,
       Write1, Write3, Write4 DEF commands
<1>3. CASE flush
  BY <1>3, Flush
<1>4. CASE self_test
  BY <1>4, SelfTest
<1>5. CASE read_config
  <2>1. at = "config1" \/ at = "config3" \/ at = "config4"
    BY <1>5 DEF read_config, Take
  <2> QED
    BY <1>5, <2>1, ReadConfig1, ReadConfig3, ReadConfig4
<1>6. CASE self_tested
  BY <1>6, SelfTested
<1>7. CASE look_for_second
  BY <1>7, LookForSecond
<1>8. CASE tested
  <2>1. at = "tested0" \/ at = "tested1"
    BY <1>8 DEF tested, Take
  <2> QED
    BY <1>8, <2>1, Tested0, Tested1
<1> QED
  BY <1>1, <1>2, <1>3, <1>4, <1>5, <1>6, <1>7, <1>8 DEF init_ps2_controller

-----------------------------------------------------------------------------
(***************************************************************************)
(* The whole boot.                                                         *)
(***************************************************************************)

LEMMA BootStart == BootInit => BootInv
<1> SUFFICES ASSUME BootInit PROVE BootInv
  OBVIOUS
<1>1. AcpiInv
  BY AcpiStart DEF BootInit
<1>2. /\ at = "present" /\ ps2_status = [ch \in Channel |-> UNINITIALIZED] /\ ok = {}
      /\ output = Empty /\ Only(<<>>)
  BY DEF BootInit, ControllerInit, Init, WireInit, Only
<1>3. ControllerTyped
  <2>1. chip \in Chips /\ config \in Word8 /\ cmd \in Word8 /\ pc = "reset"
    BY ChipFacts DEF BootInit, ControllerInit, Init, Word8
  <2>2. Working(ps2_status) = {}
    BY <1>2 DEF Working, UNINITIALIZED, CHANNEL_OK
  <2>3. ps2_status \in [Channel -> 0 .. 15]
    BY <1>2 DEF UNINITIALIZED
  <2> QED
    BY <1>2, <2>1, <2>2, <2>3 DEF ControllerTyped, BeforeTest, Unflushed
<1>4. OnlyAnswers /\ ConfigKnown
  BY <1>2 DEF OnlyAnswers, ConfigKnown, Asking, Unflushed, AfterTest, Search, Second,
     Test0, Test1, Tested
<1>5. StatusKnown
  BY <1>2 DEF StatusKnown, AfterTest, BeforeTest, Unflushed, Search, Second, Test0,
     Test1, Tested, Statuses
<1>6. StatusIsTrue
  BY <1>2 DEF StatusIsTrue
<1> QED
  BY <1>1, <1>3, <1>4, <1>5, <1>6 DEF BootInv

\* What is known of the tables and the controller does not change behind its back.
LEMMA ControllerRests ==
  ASSUME ControllerInv, UNCHANGED <<acpi_vars, controller_vars, world, ok, pc>>
  PROVE  /\ ControllerTyped' /\ StatusIsTrue'
         /\ prompt => ConfigKnown' /\ StatusKnown'
<1> USE DEF acpi_vars, controller_vars, world
<1>1. ControllerTyped'
  BY DEF ControllerInv, ControllerTyped, Working
<1>2. StatusIsTrue'
  BY DEF ControllerInv, StatusIsTrue, ps2_controller_present
<1>3. prompt => ConfigKnown'
  BY DEF ControllerInv, ConfigKnown, Plain, IsSet
<1>4. prompt => StatusKnown'
  BY DEF ControllerInv, StatusKnown, Statuses, IsSet, ps2_controller_present
<1> QED
  BY <1>1, <1>2, <1>3, <1>4

LEMMA TablesRest ==
  ASSUME AcpiInv, UNCHANGED acpi_vars
  PROVE  AcpiInv'
BY DEF acpi_vars, AcpiInv, SearchOver, FirstRoot, FirstEntry, validate_RSDP

LEMMA ArrivalStep ==
  ASSUME ControllerInv, arrive
  PROVE  prompt => OnlyAnswers'
<1> SUFFICES ASSUME prompt PROVE OnlyAnswers'
  OBVIOUS
<1>1. OnlyAnswers /\ UNCHANGED <<at, chip, config>>
  BY DEF ControllerInv, arrive, controller_vars
<1>2. PICK src \in Source : Deliver(src)
  BY DEF arrive
<1>3. ASSUME at \in Asking PROVE Answering(Awaited[at])'
  <2>1. ASSUME NEW byte, byte = Awaited[at] PROVE Answering(byte)'
    BY <1>1, <1>2, <1>3, <2>1, AnswerArrives DEF OnlyAnswers
  <2>2. (Awaited[at])' = Awaited[at]
    BY <1>1 DEF Awaited
  <2> QED
    BY <2>1, <2>2 DEF Answering, Only
<1>4. at \in Asking \cup {"done"}
  BY <1>1, <1>2, NothingArrives DEF OnlyAnswers
<1> QED
  BY <1>1, <1>3, <1>4 DEF OnlyAnswers, Asking, Unflushed

\* The clock of a device is all that the driver behind changes of the configuration.
LEMMA DeviceStep ==
  ASSUME ControllerInv, devices_driver
  PROVE  ControllerInv'
<1>1. /\ at = "done" /\ Driver /\ Enable
      /\ UNCHANGED <<acpi_vars, chip, at, cmd, second_channel_present, ps2_status>>
  BY DEF devices_driver
<1>2. UNCHANGED <<world, ok>>
  BY <1>1 DEF Driver, skip_channel, send_reset, send_scan_command, answered,
     not_answered, read_id_low, read_id_high
<1>3. /\ config' \in Word8
      /\ Plain(config) => Plain(config')
      /\ IsSet(config, IRQ0) => IsSet(config', IRQ0)
  <2> DEFINE byte == Without(config, ClockOff(channel))
  <2>1. ClockOff(channel) \in Bit /\ {IRQ0, CLOCK0_OFF, TRANSLATION} \subseteq Bit
    BY DEF ClockOff, Bit
  <2>2. IRQ0 \notin {CLOCK0_OFF, CLOCK1_OFF}
    BY DEF IRQ0, CLOCK0_OFF, CLOCK1_OFF
  <2>3. config \in Word8 /\ chip \in Chips
    BY DEF ControllerInv, ControllerTyped
  <2>4. byte \in Word8 /\ (Plain(config) => Plain(byte)) /\ (IsSet(config, IRQ0) => IsSet(byte, IRQ0))
    BY <2>1, <2>2, <2>3, WithoutBit DEF Plain, ClockOff
  <2> HIDE DEF byte
  <2>5. config' = IF pc = "reset" /\ channel \in ok THEN Configured(byte) ELSE config
    BY <1>1 DEF Enable, byte
  <2> QED
    BY <2>3, <2>4, <2>5, ConfiguredByte
<1>4. ControllerTyped'
  BY <1>1, <1>2, <1>3 DEF ControllerInv, ControllerTyped, acpi_vars, Working
<1>5. StatusIsTrue'
  BY <1>1, <1>2 DEF ControllerInv, StatusIsTrue, ps2_controller_present, acpi_vars,
     world
<1>6. prompt => OnlyAnswers'
  BY <1>1 DEF OnlyAnswers, Asking, Unflushed
<1>7. prompt => ConfigKnown'
  BY <1>1, <1>2, <1>3 DEF ControllerInv, ConfigKnown, AfterTest, Search, Second, Test0,
     Test1, Tested
<1>8. prompt => StatusKnown'
  BY <1>1 DEF StatusKnown, AfterTest, BeforeTest, Unflushed, Search, Second, Test0,
     Test1, Tested
<1> QED
  BY <1>2, <1>4, <1>5, <1>6, <1>7, <1>8 DEF ControllerInv, world

LEMMA BootStep == BootInv /\ [BootNext]_boot_vars => BootInv'
<1> SUFFICES ASSUME BootInv, [BootNext]_boot_vars PROVE BootInv'
  OBVIOUS
<1> USE DEF BootInv
<1>0. AcpiInv /\ ControllerInv
  BY DEF ControllerInv
<1>q. ASSUME AcpiInv', ControllerInv', prompt' = prompt PROVE BootInv'
  BY <1>q DEF ControllerInv
<1>1. CASE acpi
  <2>1. AcpiInv'
    BY <1>0, <1>1, AcpiStep DEF acpi
  <2>2. at = "present"
    BY <1>0, <1>1 DEF acpi, init_acpi, find_RSDP, null_RSDP, next_entry, ReadEntry, ControllerInv,
       ControllerTyped
  <2>3. UNCHANGED <<wire, ok, world, pc, controller_vars>>
    BY <1>1 DEF acpi, ps2_vars, driver
  <2>4. ControllerTyped' /\ StatusIsTrue'
    BY <1>0, <2>2, <2>3 DEF ControllerInv, ControllerTyped, StatusIsTrue,
       controller_vars, Working
  <2>5. prompt => OnlyAnswers' /\ ConfigKnown'
    BY <1>0, <2>2, <2>3 DEF ControllerInv, OnlyAnswers, ConfigKnown, controller_vars,
       wire, Only, Asking, Unflushed, AfterTest, Search, Second, Test0, Test1, Tested
  <2>6. prompt => StatusKnown'
    BY <1>0, <2>2, <2>3 DEF ControllerInv, StatusKnown, controller_vars, Statuses,
       AfterTest, BeforeTest, Unflushed, Search, Second, Test0, Test1, Tested
  <2> QED
    BY <1>q, <2>1, <2>3, <2>4, <2>5, <2>6 DEF ControllerInv, world
<1>2. CASE controller
  <2>1. AtBoot /\ init_ps2_controller
    BY <1>2 DEF controller, AtBoot
  <2> QED
    BY <1>0, <1>q, <2>1, ControllerStep, TablesRest DEF AtBoot, world
<1>3. CASE devices_driver
  <2>1. UNCHANGED <<acpi_vars, world>>
    BY <1>3 DEF devices_driver, Driver, skip_channel, send_reset, send_scan_command,
       answered, not_answered, read_id_low, read_id_high
  <2> QED
    BY <1>0, <1>3, <1>q, <2>1, DeviceStep, TablesRest DEF world
<1>4. CASE arrive
  <2>1. UNCHANGED <<acpi_vars, controller_vars, world, ok, pc>>
    BY <1>4 DEF arrive, driver
  <2> QED
    BY <1>0, <1>4, <1>q, <2>1, ArrivalStep, ControllerRests,
       TablesRest DEF ControllerInv, world
<1>5. CASE left_over
  <2>1. UNCHANGED <<acpi_vars, controller_vars, world, ok, pc, pending>> /\ at = "present"
    BY <1>5 DEF left_over, Typed, driver
  <2>2. prompt => OnlyAnswers'
    BY <1>0, <2>1 DEF ControllerInv, OnlyAnswers, Asking, Unflushed, Only,
       controller_vars
  <2> QED
    BY <1>0, <1>q, <2>1, <2>2, ControllerRests, TablesRest DEF ControllerInv, world
<1>6. CASE press
  <2>1. UNCHANGED <<acpi_vars, controller_vars, world, ok, pc>> /\ ~prompt
    BY <1>6 DEF press, Typed, driver
  <2> QED
    BY <1>0, <1>q, <2>1, ControllerRests, TablesRest DEF ControllerInv, world
<1>7. CASE booted \/ UNCHANGED boot_vars
  <2>1. UNCHANGED <<acpi_vars, controller_vars, world, ok, pc, wire>>
    BY <1>7 DEF booted, boot_vars, ps2_vars, driver
  <2>2. prompt => OnlyAnswers'
    BY <1>0, <2>1 DEF ControllerInv, OnlyAnswers, Answering, Awaited, Only,
       controller_vars, wire
  <2> QED
    BY <1>0, <1>q, <2>1, <2>2, ControllerRests, TablesRest DEF ControllerInv, world
<1> QED
  BY <1>1, <1>2, <1>3, <1>4, <1>5, <1>6, <1>7 DEF BootNext

LEMMA BootInvariant == BootSpec => []BootInv
BY BootStart, BootStep, PTL DEF BootSpec

(***************************************************************************)
(* init_acpi takes the first sound root pointer of both regions, and of a  *)
(* sound root table the first sound FADT; it ends without one only if the  *)
(* firmware has none (acpi.c 28-76).                                       *)
(***************************************************************************)
THEOREM FirstTablesTaken == BootSpec => []FirstSoundTables
<1>1. BootInv => FirstSoundTables
  <2> SUFFICES ASSUME AcpiInv, acpi_step = "done" PROVE FirstSoundTables
    BY DEF BootInv, FirstSoundTables
  <2>1. CASE RSDP = NULL
    BY <2>1 DEF AcpiInv, SearchOver, FirstSoundTables
  <2>2. CASE RSDP # NULL
    <3>1. \A k : SoundFADT(k) <=> IsFADT(firmware.entry[k])
      BY DEF SoundFADT, IsFADT
    <3>2. FirstRoot(RSDP) /\ FirstEntry
      BY <2>2 DEF AcpiInv
    <3>3. FADT = NULL /\ firmware.checksum = 0 => \A k \in DOMAIN firmware.entry : ~SoundFADT(k)
      <4>1. firmware.checksum = 0 => i > Len(firmware.entry) /\ i \in Nat
        BY <2>2 DEF AcpiInv, SearchOver
      <4>2. firmware.entry \in Seq(Table)
        BY FirmwareAssumption DEF AcpiInv
      <4>3. DOMAIN firmware.entry = 1 .. Len(firmware.entry) /\ Len(firmware.entry) \in Nat
        BY <4>2
      <4> QED
        BY <3>1, <3>2, <4>1, <4>3 DEF FirstEntry
    <3>4. FADT # NULL => /\ firmware.checksum = 0 /\ SoundFADT(FADT)
                         /\ \A k \in 1 .. FADT - 1 : ~SoundFADT(k)
      <4>1. FADT # NULL => firmware.checksum = 0
        BY <2>2 DEF AcpiInv, SearchOver
      <4> QED
        BY <3>1, <3>2, <4>1 DEF FirstEntry
    <3> QED
      BY <2>2, <3>2, <3>3, <3>4 DEF FirstRoot, FirstSoundTables
  <2> QED
    BY <2>1, <2>2
<1> QED
  BY <1>1, BootInvariant, PTL

(***************************************************************************)
(* While nobody types, every channel's status is what the tables, the      *)
(* controller and its tests say, though the driver takes any byte for an   *)
(* answer (ps2_controller.c 51-113).                                       *)
(***************************************************************************)
THEOREM StatusesAreTrue == BootSpec => []StatusIsTrue
<1>1. BootInv => StatusIsTrue
  BY DEF BootInv
<1> QED
  BY <1>1, BootInvariant, PTL

(***************************************************************************)
(* The keyboard's handler finds the controller as it needs it, whatever    *)
(* the configuration was before, unless the self test resets it            *)
(* (ps2_controller.c 71-79, 118-125).                                      *)
(***************************************************************************)
THEOREM HandlerFindsController == BootSpec => []ConfiguredForHandler
<1>1. BootInv => ConfiguredForHandler
  BY DEF BootInv, ControllerTyped, ConfigKnown, Plain, ConfiguredForHandler
<1> QED
  BY <1>1, BootInvariant, PTL

-----------------------------------------------------------------------------
(***************************************************************************)
(* The devices, in a world where all is prompt, a keyboard is on channel   *)
(* 0, and no mouse on channel 1.                                           *)
(***************************************************************************)

\* On their way are these bytes of device ch.
Stream(ch, bytes) ==
  \/ output = Empty /\ pending = [s \in Source |-> IF s = ch THEN bytes ELSE <<>>]
  \/ /\ bytes # <<>> /\ output = <<ch, Head(bytes)>>
     /\ pending = [s \in Source |-> IF s = ch THEN Tail(bytes) ELSE <<>>]

\* What the driver sends from, and what it reads at.
Resting == {"reset", "disable_scan", "identify", "done"}
Waiting == {"reset_ack", "reset_bat", "disable_ack", "identify_ack", "id_low", "id_high"}
Detection == {"disable_scan", "disable_ack", "identify", "identify_ack", "id_low", "id_high"}

\* The answers of a keyboard that are left at each step.
Coming ==
  [reset_ack |-> {<<ACK, BAT>>, <<RSD>>}, reset_bat |-> {<<BAT>>},
   disable_ack |-> {<<ACK>>, <<RSD>>}, identify_ack |-> {<<ACK, 171, 131>>, <<RSD>>},
   id_low |-> {<<171, 131>>}, id_high |-> {<<131>>}]

\* What is left of an answer, if there is a device to answer.
Left ==
  IF attached[channel] = "keyboard" THEN Coming[pc]
  ELSE IF pc \in {"reset_ack", "disable_ack"} THEN {<<>>} ELSE {}

\* It is on its way, and a request to send again was counted.
Replied ==
  \E bytes \in Left :
    /\ Stream(channel, bytes)
    /\ channel = 0 /\ bytes = <<RSD>> => try <= garbled

DevicesTyped ==
  /\ \E w \in Worlds : attached = w.attached /\ prompt = w.prompt
  /\ channel \in Channel /\ try \in Nat /\ low \in Int /\ garbled \in 0 .. GarbledBound
  /\ prompt => ~route
  /\ pc \in Resting \cup Waiting
  /\ devices \in [Channel -> Int]
  /\ ok \subseteq Channel
  /\ at # "done" => pc = "reset" /\ channel = 0 /\ try = 1

Identified ==
  /\ pc \in Resting => Stream(0, <<>>)
  /\ pc \in Waiting => Replied
  /\ channel = 0 => try <= garbled + 1
  /\ pc = "identify" => attached[channel] = "keyboard"
  /\ pc = "id_high" => low = 171
  /\ pc = "done" \/ (pc \in Detection /\ channel = 1) => devices[0] = MF_KEYBOARD

KeyboardThere == prompt /\ attached[0] = "keyboard" /\ 0 \in ok

DevicesInv == DevicesTyped /\ (KeyboardThere /\ at = "done" => Identified)

\* Nothing but a mouse that announces itself shifts the answers, and a device
\* understands a byte before the driver gives up.
NoMouseBehind == \A w \in Worlds : w.prompt => w.attached[1] # "mouse"
EnoughAttempts == GarbledBound < RETRY_COUNT

LEMMA SameBytes ==
  ASSUME NEW S, NEW t \in Seq(S), NEW u \in Seq(S), Len(t) = Len(u),
         \A k \in 1 .. Len(t) : t[k] = u[k]
  PROVE  t = u
OBVIOUS

LEMMA JoinedBytes ==
  ASSUME NEW S, NEW t \in Seq(S), NEW u \in Seq(S)
  PROVE  /\ t \o u \in Seq(S) /\ Len(t \o u) = Len(t) + Len(u)
         /\ \A k \in 1 .. Len(t) : (t \o u)[k] = t[k]
         /\ \A k \in 1 .. Len(u) : (t \o u)[Len(t) + k] = u[k]
OBVIOUS

LEMMA Bytes ==
  /\ \A a : Head(<<a>>) = a /\ Tail(<<a>>) = <<>> /\ <<a>> # <<>>
  /\ \A a, b : Head(<<a, b>>) = a /\ Tail(<<a, b>>) = <<b>> /\ <<a, b>> # <<>>
  /\ \A a, b, c : Head(<<a, b, c>>) = a /\ Tail(<<a, b, c>>) = <<b, c>> /\ <<a, b, c>> # <<>>
  /\ \A a : <<a>> \o <<>> = <<a>>
  /\ \A a, b : <<a>> \o <<b>> = <<a, b>>
  /\ \A a, b, c : <<a>> \o <<b, c>> = <<a, b, c>>
<1>1. \A a : Head(<<a>>) = a /\ Tail(<<a>>) = <<>> /\ <<a>> # <<>>
  OBVIOUS
<1>2. \A a, b : Head(<<a, b>>) = a /\ Tail(<<a, b>>) = <<b>> /\ <<a, b>> # <<>>
  OBVIOUS
<1>3. \A a, b, c : Head(<<a, b, c>>) = a /\ Tail(<<a, b, c>>) = <<b, c>> /\ <<a, b, c>> # <<>>
  OBVIOUS
<1>4. \A a : <<a>> \o <<>> = <<a>>
  OBVIOUS
<1>5. \A a, b : <<a>> \o <<b>> = <<a, b>>
  <2> TAKE a, b
  <2> DEFINE S == {a, b}
             one == <<a>>
             more == <<b>>
             t == one \o more
             u == <<a, b>>
  <2>1. one \in Seq(S) /\ Len(one) = 1 /\ one[1] = a
    OBVIOUS
  <2>2. more \in Seq(S) /\ Len(more) = 1 /\ more[1] = b
    OBVIOUS
  <2>3. u \in Seq(S) /\ Len(u) = 2 /\ u[1] = a /\ u[2] = b
    OBVIOUS
  <2> HIDE DEF one, more, u, S
  <2>4. /\ t \in Seq(S) /\ Len(t) = Len(one) + Len(more)
        /\ \A k \in 1 .. Len(one) : t[k] = one[k]
        /\ \A k \in 1 .. Len(more) : t[Len(one) + k] = more[k]
    <3>1. one \in Seq(S) /\ more \in Seq(S)
      BY <2>1, <2>2
    <3> QED
      BY <3>1, JoinedBytes
  <2> HIDE DEF t
  <2>5. 1 \in 1 .. Len(one) /\ 1 \in 1 .. Len(more)
    BY <2>1, <2>2
  <2>6. Len(t) = 2 /\ t[1] = a /\ t[2] = b
    BY <2>1, <2>2, <2>4, <2>5
  <2>7. \A k \in 1 .. Len(t) : t[k] = u[k]
    BY <2>3, <2>6
  <2>8. t = u
    BY <2>3, <2>4, <2>6, <2>7, SameBytes
  <2> QED
    BY <2>8 DEF t, u, one, more
<1>6. \A a, b, c : <<a>> \o <<b, c>> = <<a, b, c>>
  <2> TAKE a, b, c
  <2> DEFINE S == {a, b, c}
             one == <<a>>
             more == <<b, c>>
             t == one \o more
             u == <<a, b, c>>
  <2>1. one \in Seq(S) /\ Len(one) = 1 /\ one[1] = a
    OBVIOUS
  <2>2. more \in Seq(S) /\ Len(more) = 2 /\ more[1] = b /\ more[2] = c
    OBVIOUS
  <2>3. u \in Seq(S) /\ Len(u) = 3 /\ u[1] = a /\ u[2] = b /\ u[3] = c
    OBVIOUS
  <2> HIDE DEF one, more, u, S
  <2>4. /\ t \in Seq(S) /\ Len(t) = Len(one) + Len(more)
        /\ \A k \in 1 .. Len(one) : t[k] = one[k]
        /\ \A k \in 1 .. Len(more) : t[Len(one) + k] = more[k]
    <3>1. one \in Seq(S) /\ more \in Seq(S)
      BY <2>1, <2>2
    <3> QED
      BY <3>1, JoinedBytes
  <2> HIDE DEF t
  <2>5. 1 \in 1 .. Len(one) /\ 1 \in 1 .. Len(more) /\ 2 \in 1 .. Len(more)
    BY <2>1, <2>2
  <2>6. Len(t) = 3 /\ t[1] = a /\ t[2] = b /\ t[3] = c
    BY <2>1, <2>2, <2>4, <2>5
  <2>7. \A k \in 1 .. Len(t) : t[k] = u[k]
    BY <2>3, <2>6
  <2>8. t = u
    BY <2>3, <2>4, <2>6, <2>7, SameBytes
  <2> QED
    BY <2>8 DEF t, u, one, more
<1> QED
  BY <1>1, <1>2, <1>3, <1>4, <1>5, <1>6

LEMMA Different ==
  /\ ACK = 250 /\ RSD = 254 /\ BAT = 170
  /\ \A a, b : <<a, b>> # <<RSD>>
  /\ \A a, b, c : <<a, b, c>> # <<RSD>>
  /\ <<ACK>> # <<RSD>> /\ <<BAT>> # <<RSD>> /\ <<131>> # <<RSD>>
BY DEF ACK, RSD, BAT

LEMMA KeyboardReplies ==
  /\ Replies("keyboard", "RESET") = <<ACK, BAT>>
  /\ Replies("keyboard", "DISABLE_SCAN") = <<ACK>>
  /\ Replies("keyboard", "IDENTIFY") = <<ACK, 171, 131>>
<1>1. Replies("keyboard", "RESET") = <<ACK, BAT>> \o <<>>
  BY DEF Replies
<1>2. <<ACK, BAT>> \o <<>> = <<ACK, BAT>>
  OBVIOUS
<1>3. Replies("keyboard", "IDENTIFY") = <<ACK>> \o <<171, 131>>
  BY DEF Replies, Identity
<1>4. <<ACK>> \o <<171, 131>> = <<ACK, 171, 131>>
  BY Bytes
<1>5. Replies("keyboard", "DISABLE_SCAN") = <<ACK>>
  BY DEF Replies
<1> QED
  BY <1>1, <1>2, <1>3, <1>4, <1>5

LEMMA StreamStarts ==
  ASSUME NEW ch \in Channel, NEW bytes, \A b : b = bytes => <<>> \o b = b,
         Stream(0, <<>>), Answer(ch, bytes)
  PROVE  Stream(ch, bytes)'
<1>1. output = Empty /\ pending = [s \in Source |-> <<>>]
  BY DEF Stream
<1>2. pending' = [s \in Source |-> IF s = ch THEN <<>> \o bytes ELSE <<>>]
  BY <1>1 DEF Answer, Source
<1> QED
  BY <1>1, <1>2 DEF Stream, Answer

LEMMA StreamArrives ==
  ASSUME NEW ch \in Channel, NEW bytes, Stream(ch, bytes), NEW src \in Source, Deliver(src)
  PROVE  Stream(ch, bytes)'
<1>1. output = Empty /\ pending = [s \in Source |-> IF s = ch THEN bytes ELSE <<>>]
  BY DEF Stream, Deliver, Empty
<1>2. src = ch /\ bytes # <<>>
  BY <1>1 DEF Deliver
<1>3. output' = <<ch, Head(bytes)>>
  BY <1>1, <1>2 DEF Deliver
<1>4. pending' = [s \in Source |-> IF s = ch THEN Tail(bytes) ELSE <<>>]
  BY <1>1, <1>2 DEF Deliver
<1> QED
  BY <1>2, <1>3, <1>4 DEF Stream

LEMMA StreamIsRead ==
  ASSUME NEW ch \in Channel, NEW bytes, Stream(ch, bytes), NEW set, ReadByte(set)
  PROVE  bytes # <<>> /\ Head(bytes) \in set /\ output[2] = Head(bytes) /\ Stream(ch, Tail(bytes))'
<1>1. /\ bytes # <<>> /\ output = <<ch, Head(bytes)>>
      /\ pending = [s \in Source |-> IF s = ch THEN Tail(bytes) ELSE <<>>]
  BY DEF Stream, ReadByte
<1>2. output' = Empty /\ pending' = pending
  BY DEF ReadByte
<1> QED
  BY <1>1, <1>2 DEF ReadByte, Stream

LEMMA StreamEnds ==
  ASSUME NEW ch \in Channel, NEW bytes, Stream(ch, bytes), Silent
  PROVE  bytes = <<>>
<1>1. output = Empty /\ pending[ch] = <<>> /\ ch \in Source
  BY DEF Silent, Source
<1> QED
  BY <1>1 DEF Stream, Empty

LEMMA NoStream ==
  ASSUME NEW ch \in Channel, Stream(ch, <<>>)
  PROVE  Stream(0, <<>>) /\ Silent
<1>1. output = Empty /\ pending = [s \in Source |-> <<>>]
  BY DEF Stream
<1> QED
  BY <1>1 DEF Stream, Silent

\* Sending to a device that rests puts its answer on the way.
LEMMA SendStarts ==
  ASSUME NEW ch \in Channel, ch = channel, ~route, Stream(0, <<>>),
         NEW query \in {"RESET", "DISABLE_SCAN", "IDENTIFY"}, Send(query),
         attached[ch] \in {"keyboard", "none"},
         garbled \in Nat, GarbledBound \in Nat, garbled <= GarbledBound
  PROVE  /\ garbled' \in 0 .. GarbledBound /\ garbled <= garbled' /\ ~route'
         /\ attached[ch] = "none" => Stream(ch, <<>>)'
         /\ attached[ch] = "keyboard" =>
              \E bytes \in {Replies("keyboard", query), <<RSD>>} :
                Stream(ch, bytes)' /\ (bytes = <<RSD>> => garbled' = garbled + 1)
<1>1. Receive(ch, query) /\ ~route'
  BY DEF Send, Channel
<1>2. CASE attached[ch] = "none"
  <2>1. UNCHANGED <<wire, garbled>>
    BY <1>1, <1>2 DEF Receive
  <2>2. Stream(ch, <<>>)'
    BY <2>1 DEF Stream, wire
  <2> QED
    BY <1>1, <1>2, <2>1, <2>2
<1>3. CASE attached[ch] = "keyboard"
  <2>1. CASE Answer(ch, Replies("keyboard", query)) /\ UNCHANGED garbled
    <3>1. \A b : b = Replies("keyboard", query) => <<>> \o b = b
      BY Bytes DEF Replies, Identity
    <3>2. ASSUME NEW bytes, bytes = Replies("keyboard", query) PROVE Stream(ch, bytes)'
      BY <2>1, <3>1, <3>2, StreamStarts
    <3>3. Replies("keyboard", query) # <<RSD>>
      BY KeyboardReplies, Different
    <3> QED
      BY <1>1, <1>3, <2>1, <3>2, <3>3
  <2>2. CASE garbled < GarbledBound /\ Answer(ch, <<RSD>>) /\ garbled' = garbled + 1
    <3>1. \A b : b = <<RSD>> => <<>> \o b = b
      OBVIOUS
    <3>2. Stream(ch, <<RSD>>)'
      BY <2>2, <3>1, StreamStarts
    <3> QED
      BY <1>1, <1>3, <2>2, <3>2
  <2> QED
    BY <1>1, <1>3, <2>1, <2>2 DEF Receive
<1> QED
  BY <1>2, <1>3

\* What is attached where, and that the state of the driver's loops is of its type.
LEMMA Attached ==
  ASSUME NoMouseBehind, DevicesTyped, KeyboardThere
  PROVE  /\ \A ch \in Channel : attached[ch] \in {"keyboard", "none"}
         /\ attached[0] = "keyboard" /\ ~route /\ RETRY_COUNT \in Nat /\ GarbledBound \in Nat
<1>1. PICK w \in Worlds : attached = w.attached /\ prompt = w.prompt
  BY DEF DevicesTyped
<1>2. w.attached \in [Channel -> Device] /\ w.attached[1] # "mouse"
  BY <1>1, Ps2Assumption DEF NoMouseBehind, KeyboardThere
<1> QED
  BY <1>1, <1>2, Ps2Assumption DEF KeyboardThere, DevicesTyped, Device, Channel

(***************************************************************************)
(* The control of the two loops.                                           *)
(***************************************************************************)

Loops == {"reset", "disable_scan"}

LEMMA ChannelsGoOn ==
  ASSUME DevicesTyped, NextChannel
  PROVE  /\ channel' \in Channel /\ try' = 1 /\ pc' \in Loops \cup {"done"}
         /\ channel' = 1 - channel
         /\ pc \notin Detection /\ pc # "done" =>
              pc' = "reset" \/ (pc' = "disable_scan" /\ channel' = 0)
         /\ pc \in Detection /\ channel = 0 => pc' = "disable_scan" /\ channel' = 1
         /\ pc \in Detection /\ channel = 1 => pc' = "done" /\ channel' = 0
BY DEF DevicesTyped, NextChannel, Loop, Loops, Channel, Detection, Resting, Waiting

\* The driver goes to the next channel, and nothing is left on the wire.
LEMMA TurnEnds ==
  ASSUME DevicesTyped, NextChannel, Stream(0, <<>>)', garbled' = garbled,
         pc # "done", pc \in Detection => devices'[0] = MF_KEYBOARD
  PROVE  Identified'
<1>1. /\ channel' \in Channel /\ try' = 1 /\ pc' \in Loops \cup {"done"}
      /\ channel' = 1 - channel /\ channel \in Channel /\ garbled \in Nat
      /\ pc \notin Detection => pc' = "reset" \/ (pc' = "disable_scan" /\ channel' = 0)
  BY ChannelsGoOn DEF DevicesTyped
<1>2. pc' \in Resting /\ pc' \notin Waiting
  BY <1>1 DEF Loops, Resting, Waiting
<1>3. pc' = "done" \/ (pc' \in Detection /\ channel' = 1) => pc \in Detection
  BY <1>1 DEF Detection, Channel
<1>4. try' <= garbled' + 1
  BY <1>1
<1>5. pc' \notin {"identify", "id_high"}
  BY <1>1 DEF Loops
<1> QED
  BY <1>2, <1>3, <1>4, <1>5 DEF Identified

\* The driver tries again; on channel 0 it may, since a byte was not understood.
LEMMA TriesAgain ==
  ASSUME DevicesTyped, Identified, EnoughAttempts, RETRY_COUNT \in Nat, GarbledBound \in Nat,
         Again, Stream(0, <<>>)', garbled' = garbled, devices' = devices,
         pc \in Waiting, channel = 0 => try <= garbled
  PROVE  Identified'
<1> DEFINE more == try < RETRY_COUNT
<1>1. /\ channel' \in Channel /\ pc' \in Loops \cup {"done"}
      /\ more => channel' = channel /\ try' = try + 1 /\ pc' = Loop
      /\ ~more => NextChannel
  BY DEF DevicesTyped, Again, AgainWhile, NextChannel, Loop, Loops, Channel
<1>2. channel = 0 => more
  BY DEF EnoughAttempts, DevicesTyped
<1>3. CASE more
  <2>1. pc' \in Loops /\ channel' = channel /\ try' = try + 1
    BY <1>1, <1>3 DEF Loop, Loops
  <2>2. pc' = "disable_scan" => pc \in Detection
    BY <1>1, <1>3 DEF Loop, Waiting, Detection
  <2>3. pc' \in Resting /\ pc' \notin Waiting /\ pc' \notin {"done", "identify", "id_high"}
    BY <2>1 DEF Loops, Resting, Waiting
  <2>4. channel' = 0 => try' <= garbled' + 1
    BY <2>1 DEF DevicesTyped
  <2>5. pc' \in Detection => pc \in Detection
    BY <2>1, <2>2 DEF Loops, Detection
  <2> QED
    BY <2>1, <2>3, <2>4, <2>5 DEF Identified
<1>4. CASE ~more
  <2>1. channel = 1 /\ pc # "done" /\ NextChannel
    BY <1>1, <1>2, <1>4 DEF DevicesTyped, Channel, Waiting
  <2>2. pc \in Detection => devices'[0] = MF_KEYBOARD
    BY <2>1 DEF Identified
  <2> QED
    BY <2>1, <2>2, TurnEnds
<1> QED
  BY <1>3, <1>4

LEMMA AtLeastOne == \A a \in Nat : 1 <= a + 1
OBVIOUS

LEMMA OneMore ==
  \A a, b, c \in Nat : a <= b + 1 /\ b <= c => a <= c + 1
OBVIOUS

\* Sending puts the answer of the channel's device on the way.
LEMMA SendStep ==
  ASSUME DevicesTyped, Identified, KeyboardThere, NoMouseBehind,
         UNCHANGED <<world, ok, low, devices>>,
         NEW query, NEW label,
         \/ query = "RESET" /\ label = "reset_ack" /\ pc = "reset"
         \/ query = "DISABLE_SCAN" /\ label = "disable_ack" /\ pc = "disable_scan"
         \/ query = "IDENTIFY" /\ label = "identify_ack" /\ pc = "identify",
         Send(query), GoTo(label)
  PROVE  Identified'
<1>1. /\ \A ch \in Channel : attached[ch] \in {"keyboard", "none"}
      /\ attached[0] = "keyboard" /\ ~route /\ GarbledBound \in Nat
  BY Attached
<1>2. pc' = label /\ channel' = channel /\ try' = try /\ attached' = attached
  BY DEF GoTo, world
<1>3. label \in Waiting /\ label \notin Resting /\ label \notin {"identify", "id_high", "done"}
  BY DEF Waiting, Resting
<1>4. Stream(0, <<>>) /\ pc # "done"
  BY DEF Identified, Resting
<1>5. PICK ch \in Channel : ch = channel
  BY DEF DevicesTyped
<1>6. /\ garbled' \in 0 .. GarbledBound /\ garbled <= garbled'
      /\ attached[ch] = "none" => Stream(ch, <<>>)'
      /\ attached[ch] = "keyboard" =>
           \E bytes \in {Replies("keyboard", query), <<RSD>>} :
             Stream(ch, bytes)' /\ (bytes = <<RSD>> => garbled' = garbled + 1)
  BY <1>1, <1>4, <1>5, SendStarts DEF DevicesTyped
<1>7. garbled \in Nat /\ garbled' \in Nat /\ try \in Nat
  BY <1>6 DEF DevicesTyped
<1>8. channel = 0 => try <= garbled + 1 /\ try <= garbled' + 1
  <2>1. channel = 0 => try <= garbled + 1
    BY DEF Identified
  <2>2. garbled <= garbled'
    BY <1>6
  <2> QED
    BY <1>7, <2>1, <2>2, OneMore
<1>9. Replied'
  <2>1. CASE attached[ch] = "none"
    <3>1. label # "identify_ack" /\ ch # 0
      BY <1>1, <1>5, <2>1 DEF Identified
    <3>2. <<>> \in Left'
      BY <1>2, <1>5, <2>1, <3>1 DEF Left
    <3>3. Stream(ch, <<>>)'
      BY <1>6, <2>1
    <3> QED
      BY <1>2, <1>5, <3>1, <3>2, <3>3 DEF Replied, Stream
  <2>2. CASE attached[ch] = "keyboard"
    <3>1. Left' = Coming[label]
      BY <1>2, <1>5, <2>2 DEF Left
    <3>2. {Replies("keyboard", query), <<RSD>>} \subseteq Coming[label]
      BY KeyboardReplies DEF Coming
    <3>3. PICK bytes \in {Replies("keyboard", query), <<RSD>>} :
            Stream(ch, bytes)' /\ (bytes = <<RSD>> => garbled' = garbled + 1)
      BY <1>6, <2>2
    <3>4. channel = 0 /\ bytes = <<RSD>> => try <= garbled'
      BY <1>8, <3>3
    <3> QED
      BY <1>2, <1>5, <3>1, <3>2, <3>3, <3>4 DEF Replied, Stream
  <2> QED
    BY <1>1, <2>1, <2>2
<1>10. pc' \in Detection /\ channel' = 1 => pc \in Detection /\ channel = 1
  BY <1>2 DEF Detection
<1> QED
  BY <1>2, <1>3, <1>8, <1>9, <1>10 DEF Identified

(***************************************************************************)
(* What the driver reads is the next byte of the answer it waits for.      *)
(***************************************************************************)
LEMMA AnswerIsNext ==
  ASSUME DevicesTyped, Identified, pc \in Waiting, NEW set, ReadByte(set)
  PROVE  \E ch \in Channel : \E bytes \in Coming[pc] :
           /\ ch = channel /\ attached[ch] = "keyboard"
           /\ Head(bytes) \in set /\ output[2] = Head(bytes)
           /\ Stream(ch, Tail(bytes))'
           /\ channel = 0 /\ bytes = <<RSD>> => try <= garbled
<1>1. PICK ch \in Channel : ch = channel
  BY DEF DevicesTyped
<1>2. PICK bytes \in Left :
        Stream(ch, bytes) /\ (channel = 0 /\ bytes = <<RSD>> => try <= garbled)
  BY <1>1 DEF Identified, Replied
<1>3. bytes # <<>> /\ Head(bytes) \in set /\ output[2] = Head(bytes) /\ Stream(ch, Tail(bytes))'
  BY <1>2, StreamIsRead
<1>4. attached[ch] = "keyboard" /\ bytes \in Coming[pc]
  BY <1>1, <1>2, <1>3 DEF Left
<1> QED
  BY <1>1, <1>2, <1>3, <1>4

\* Nothing is left to read only where there is no device.
LEMMA NoAnswer ==
  ASSUME DevicesTyped, Identified, pc \in Waiting, Silent
  PROVE  attached[channel] # "keyboard" /\ pc \in {"reset_ack", "disable_ack"} /\ Stream(0, <<>>)
<1>1. PICK ch \in Channel : ch = channel
  BY DEF DevicesTyped
<1>2. PICK bytes \in Left : Stream(ch, bytes)
  BY <1>1 DEF Identified, Replied
<1>3. bytes = <<>>
  BY <1>2, StreamEnds
<1>4. \A label \in Waiting : <<>> \notin Coming[label]
  BY Bytes DEF Waiting, Coming
<1>5. attached[channel] # "keyboard" /\ pc \in {"reset_ack", "disable_ack"}
  BY <1>2, <1>3, <1>4 DEF Left
<1>6. Stream(0, <<>>)
  BY <1>2, <1>3, NoStream
<1> QED
  BY <1>5, <1>6

\* The driver waits for the rest of an answer.
LEMMA AnswerGoesOn ==
  ASSUME DevicesTyped, Identified, pc \in Waiting,
         NEW ch \in Channel, ch = channel, attached[ch] = "keyboard",
         NEW label \in {"reset_bat", "id_low", "id_high"}, GoTo(label),
         pc = "reset_ack" => label = "reset_bat",
         label # "reset_bat" => pc \in Detection,
         NEW bytes \in Coming[label], bytes # <<RSD>>, Stream(ch, bytes)',
         label = "id_high" => low' = 171,
         UNCHANGED <<world, devices, garbled>>
  PROVE  Identified'
<1>1. pc' = label /\ channel' = ch /\ channel' = channel /\ try' = try /\ attached' = attached
  BY DEF GoTo, world
<1>2. label \in Waiting /\ label \notin Resting /\ label \notin {"identify", "done"}
  BY DEF Waiting, Resting
<1>3. Left' = Coming[label]
  BY <1>1 DEF Left
<1>4. Replied'
  BY <1>1, <1>3 DEF Replied, Stream
<1>5. label \in Detection => label # "reset_bat"
  BY DEF Detection
<1>6. pc' \in Detection /\ channel' = 1 => pc \in Detection /\ channel = 1
  BY <1>1, <1>5
<1> QED
  BY <1>1, <1>2, <1>4, <1>6 DEF Identified

(***************************************************************************)
(* The steps of the driver.                                                *)
(***************************************************************************)
LEMMA StreamEmpty ==
  ASSUME NEW ch \in Channel, Stream(ch, <<>>)'
  PROVE  Stream(0, <<>>)'
BY DEF Stream

LEMMA SkipStep ==
  ASSUME DevicesTyped, Identified, KeyboardThere, skip_channel
  PROVE  Identified'
<1>1. channel = 1 /\ pc \in Resting /\ pc # "done" /\ Stream(0, <<>>)
  BY DEF DevicesTyped, Identified, KeyboardThere, skip_channel, Channel, Resting
<1>2. NextChannel /\ garbled' = garbled /\ devices' = devices /\ Stream(0, <<>>)'
  BY <1>1 DEF skip_channel, wire, Stream
<1>3. pc \in Detection => devices'[0] = MF_KEYBOARD
  BY <1>1, <1>2 DEF Identified
<1> QED
  BY <1>1, <1>2, <1>3, TurnEnds

\* The answers at each step, byte by byte.
LEMMA AnswersAre ==
  /\ \A bytes \in Coming["reset_ack"] :
       \/ Head(bytes) = ACK /\ Tail(bytes) = <<BAT>>
       \/ Head(bytes) = RSD /\ Tail(bytes) = <<>> /\ bytes = <<RSD>>
  /\ \A bytes \in Coming["reset_bat"] : Head(bytes) = BAT /\ Tail(bytes) = <<>>
  /\ \A bytes \in Coming["disable_ack"] :
       /\ Tail(bytes) = <<>>
       /\ Head(bytes) = ACK \/ (Head(bytes) = RSD /\ bytes = <<RSD>>)
  /\ \A bytes \in Coming["identify_ack"] :
       \/ Head(bytes) = ACK /\ Tail(bytes) = <<171, 131>>
       \/ Head(bytes) = RSD /\ Tail(bytes) = <<>> /\ bytes = <<RSD>>
  /\ \A bytes \in Coming["id_low"] : Head(bytes) = 171 /\ Tail(bytes) = <<131>>
  /\ \A bytes \in Coming["id_high"] : Head(bytes) = 131 /\ Tail(bytes) = <<>>
<1>1. \A bytes \in Coming["reset_ack"] :
       \/ Head(bytes) = ACK /\ Tail(bytes) = <<BAT>>
       \/ Head(bytes) = RSD /\ Tail(bytes) = <<>> /\ bytes = <<RSD>>
  <2>1. Coming["reset_ack"] = {<<ACK, BAT>>, <<RSD>>}
    BY DEF Coming
  <2>2. /\ Head(<<ACK, BAT>>) = ACK /\ Tail(<<ACK, BAT>>) = <<BAT>>
        /\ Head(<<RSD>>) = RSD /\ Tail(<<RSD>>) = <<>>
    BY Bytes
  <2> QED
    BY <2>1, <2>2
<1>2. \A bytes \in Coming["reset_bat"] : Head(bytes) = BAT /\ Tail(bytes) = <<>>
  <2>1. Coming["reset_bat"] = {<<BAT>>}
    BY DEF Coming
  <2>2. /\ Head(<<BAT>>) = BAT /\ Tail(<<BAT>>) = <<>>
    BY Bytes
  <2> QED
    BY <2>1, <2>2
<1>3. \A bytes \in Coming["disable_ack"] :
       /\ Tail(bytes) = <<>>
       /\ Head(bytes) = ACK \/ (Head(bytes) = RSD /\ bytes = <<RSD>>)
  <2>1. Coming["disable_ack"] = {<<ACK>>, <<RSD>>}
    BY DEF Coming
  <2>2. /\ Head(<<ACK>>) = ACK /\ Tail(<<ACK>>) = <<>>
        /\ Head(<<RSD>>) = RSD /\ Tail(<<RSD>>) = <<>>
    BY Bytes
  <2> QED
    BY <2>1, <2>2
<1>4. \A bytes \in Coming["identify_ack"] :
       \/ Head(bytes) = ACK /\ Tail(bytes) = <<171, 131>>
       \/ Head(bytes) = RSD /\ Tail(bytes) = <<>> /\ bytes = <<RSD>>
  <2>1. Coming["identify_ack"] = {<<ACK, 171, 131>>, <<RSD>>}
    BY DEF Coming
  <2>2. /\ Head(<<ACK, 171, 131>>) = ACK /\ Tail(<<ACK, 171, 131>>) = <<171, 131>>
        /\ Head(<<RSD>>) = RSD /\ Tail(<<RSD>>) = <<>>
    BY Bytes
  <2> QED
    BY <2>1, <2>2
<1>5. \A bytes \in Coming["id_low"] : Head(bytes) = 171 /\ Tail(bytes) = <<131>>
  <2>1. Coming["id_low"] = {<<171, 131>>}
    BY DEF Coming
  <2>2. /\ Head(<<171, 131>>) = 171 /\ Tail(<<171, 131>>) = <<131>>
    BY Bytes
  <2> QED
    BY <2>1, <2>2
<1>6. \A bytes \in Coming["id_high"] : Head(bytes) = 131 /\ Tail(bytes) = <<>>
  <2>1. Coming["id_high"] = {<<131>>}
    BY DEF Coming
  <2>2. /\ Head(<<131>>) = 131 /\ Tail(<<131>>) = <<>>
    BY Bytes
  <2> QED
    BY <2>1, <2>2
<1> QED
  BY <1>1, <1>2, <1>3, <1>4, <1>5, <1>6

LEMMA AnsweredStep ==
  ASSUME DevicesTyped, Identified, KeyboardThere, answered
  PROVE  Identified'
<1>1. pc \in {"reset_ack", "reset_bat", "disable_ack", "identify_ack"} /\ pc \in Waiting
  BY DEF answered, Expected, Waiting
<1>2. ReadByte({Expected[pc]}) /\ UNCHANGED <<world, ok, low, devices, route, garbled>>
  BY DEF answered
<1>3. PICK ch \in Channel : \E bytes \in Coming[pc] :
         /\ ch = channel /\ attached[ch] = "keyboard"
         /\ Head(bytes) = Expected[pc]
         /\ Stream(ch, Tail(bytes))'
  BY <1>1, <1>2, AnswerIsNext
<1>4. CASE pc = "reset_ack"
  <2>1. PICK bytes \in Coming[pc] : Head(bytes) = Expected[pc] /\ Stream(ch, Tail(bytes))'
    BY <1>3
  <2>2. Tail(bytes) = <<BAT>>
    BY <1>4, <2>1, AnswersAre, Different DEF Expected
  <2>3. Stream(ch, <<BAT>>)' /\ GoTo("reset_bat")
    BY <1>4, <2>1, <2>2 DEF answered
  <2> QED
    BY <1>1, <1>2, <1>3, <1>4, <2>3, Different, AnswerGoesOn DEF Coming
<1>5. CASE pc = "reset_bat"
  <2>1. Stream(ch, <<>>)' /\ NextChannel
    BY <1>3, <1>5, Bytes DEF answered, Coming, Expected
  <2>2. Stream(0, <<>>)' /\ pc \notin Detection /\ pc # "done" /\ garbled' = garbled
    BY <1>2, <1>5, <2>1, StreamEmpty DEF Detection
  <2> QED
    BY <2>1, <2>2, TurnEnds
<1>6. CASE pc = "disable_ack"
  <2>1. PICK bytes \in Coming[pc] : Stream(ch, Tail(bytes))'
    BY <1>3
  <2>2. Stream(0, <<>>)'
    BY <1>6, <2>1, AnswersAre, StreamEmpty
  <2>3. GoTo("identify") /\ pc' = "identify" /\ channel' = channel
        /\ try' = try /\ attached' = attached
    BY <1>2, <1>6 DEF answered, GoTo, world
  <2> QED
    BY <1>2, <1>3, <1>6, <2>2, <2>3 DEF Identified, Waiting, Detection
<1>7. CASE pc = "identify_ack"
  <2>1. PICK bytes \in Coming[pc] : Head(bytes) = Expected[pc] /\ Stream(ch, Tail(bytes))'
    BY <1>3
  <2>2. Tail(bytes) = <<171, 131>>
    BY <1>7, <2>1, AnswersAre, Different DEF Expected
  <2>3. Stream(ch, <<171, 131>>)' /\ GoTo("id_low")
    BY <1>7, <2>1, <2>2 DEF answered
  <2> QED
    BY <1>1, <1>2, <1>3, <1>7, <2>3, Different, AnswerGoesOn DEF Coming, Detection
<1> QED
  BY <1>1, <1>4, <1>5, <1>6, <1>7

LEMMA NotAnsweredStep ==
  ASSUME DevicesTyped, Identified, KeyboardThere, NoMouseBehind, EnoughAttempts, not_answered
  PROVE  Identified'
<1>1. pc \in {"reset_ack", "reset_bat", "disable_ack", "identify_ack"} /\ pc \in Waiting
  BY DEF not_answered, Expected, Waiting
<1>2. Again /\ UNCHANGED <<world, ok, low, devices, route, garbled>>
  BY DEF not_answered
<1>3. RETRY_COUNT \in Nat /\ GarbledBound \in Nat /\ attached[0] = "keyboard"
  BY Attached
<1>4. Stream(0, <<>>)' /\ (channel = 0 => try <= garbled)
  <2>1. CASE TimedOut
    <3>1. Silent /\ UNCHANGED wire
      BY <2>1 DEF TimedOut, KeyboardThere
    <3>2. Stream(0, <<>>) /\ channel # 0
      BY <1>1, <1>3, <3>1, NoAnswer
    <3> QED
      BY <3>1, <3>2 DEF Stream, wire
  <2>2. CASE ReadByte(Byte \ {Expected[pc]})
    <3>1. PICK ch \in Channel : \E bytes \in Coming[pc] :
             /\ Head(bytes) # Expected[pc]
             /\ Stream(ch, Tail(bytes))'
             /\ channel = 0 /\ bytes = <<RSD>> => try <= garbled
      BY <1>1, <2>2, AnswerIsNext
    <3>2. PICK bytes \in Coming[pc] :
             /\ Head(bytes) # Expected[pc]
             /\ Stream(ch, Tail(bytes))'
             /\ channel = 0 /\ bytes = <<RSD>> => try <= garbled
      BY <3>1
    <3>3. bytes = <<RSD>>
      BY <1>1, <3>2, Bytes DEF Coming, Expected
    <3>4. Tail(bytes) = <<>>
      BY <3>3, Bytes
    <3> QED
      BY <3>2, <3>3, <3>4, StreamEmpty
  <2> QED
    BY <2>1, <2>2 DEF not_answered
<1> QED
  BY <1>1, <1>2, <1>3, <1>4, TriesAgain

LEMMA LowStep ==
  ASSUME DevicesTyped, Identified, KeyboardThere, read_id_low
  PROVE  Identified'
<1>1. pc = "id_low" /\ pc \in Waiting /\ UNCHANGED <<world, ok, route, garbled>>
  BY DEF read_id_low, Waiting
<1>2. ~TimedOut
  BY <1>1, NoAnswer DEF TimedOut, KeyboardThere
<1>3. ReadByte(Byte) /\ low' = output[2] /\ GoTo("id_high") /\ devices' = devices
  BY <1>2 DEF read_id_low
<1>4. PICK ch \in Channel : \E bytes \in Coming[pc] :
         /\ ch = channel /\ attached[ch] = "keyboard"
         /\ output[2] = Head(bytes) /\ Stream(ch, Tail(bytes))'
  BY <1>1, <1>3, AnswerIsNext
<1>5. low' = 171 /\ Stream(ch, <<131>>)'
  <2>1. PICK bytes \in Coming[pc] : output[2] = Head(bytes) /\ Stream(ch, Tail(bytes))'
    BY <1>4
  <2>2. Head(bytes) = 171 /\ Tail(bytes) = <<131>>
    BY <1>1, <2>1, AnswersAre
  <2> QED
    BY <1>3, <2>1, <2>2
<1>6. <<131>> \in Coming["id_high"] /\ <<131>> # <<RSD>>
  BY Different DEF Coming
<1> QED
  BY <1>1, <1>3, <1>4, <1>5, <1>6, AnswerGoesOn DEF Detection

LEMMA HighStep ==
  ASSUME DevicesTyped, Identified, KeyboardThere, read_id_high
  PROVE  Identified'
<1>1. pc = "id_high" /\ pc \in Waiting /\ low = 171 /\ UNCHANGED <<world, ok, route, garbled>>
  BY DEF read_id_high, Waiting, Identified
<1>2. ~TimedOut
  BY <1>1, NoAnswer DEF TimedOut, KeyboardThere
<1>3. ReadByte(Byte) /\ Detected(low + 256 * output[2])
  BY <1>2 DEF read_id_high
<1>4. PICK ch \in Channel : \E bytes \in Coming[pc] :
         /\ ch = channel
         /\ output[2] = Head(bytes) /\ Stream(ch, Tail(bytes))'
  BY <1>1, <1>3, AnswerIsNext
<1>5. output[2] = 131 /\ Stream(ch, <<>>)'
  <2>1. PICK bytes \in Coming[pc] : output[2] = Head(bytes) /\ Stream(ch, Tail(bytes))'
    BY <1>4
  <2>2. Head(bytes) = 131 /\ Tail(bytes) = <<>>
    BY <1>1, <2>1, AnswersAre
  <2> QED
    BY <2>1, <2>2
<1>6. low + 256 * output[2] = MF_KEYBOARD
  BY <1>1, <1>5 DEF MF_KEYBOARD
<1>7. devices' = [devices EXCEPT ![channel] = MF_KEYBOARD] /\ NextChannel
  BY <1>3, <1>6 DEF Detected
<1>8. devices'[0] = MF_KEYBOARD
  BY <1>1, <1>7 DEF DevicesTyped, Channel, Identified, Detection
<1>9. Stream(0, <<>>)' /\ pc # "done"
  BY <1>1, <1>5, StreamEmpty
<1> QED
  BY <1>1, <1>7, <1>8, <1>9, TurnEnds

LEMMA SendingStep ==
  ASSUME DevicesTyped, Identified, KeyboardThere, NoMouseBehind,
         send_reset \/ send_scan_command
  PROVE  Identified'
<1>1. ~NotSent /\ UNCHANGED <<world, ok, low, devices>>
  BY DEF NotSent, KeyboardThere, send_reset, send_scan_command
<1>2. CASE send_reset
  <2>1. pc = "reset" /\ Send("RESET") /\ GoTo("reset_ack")
    BY <1>1, <1>2 DEF send_reset
  <2> QED
    BY <1>1, <2>1, SendStep
<1>3. CASE send_scan_command /\ pc = "disable_scan"
  <2>1. Send("DISABLE_SCAN") /\ GoTo("disable_ack")
    BY <1>1, <1>3 DEF send_scan_command
  <2> QED
    BY <1>1, <1>3, <2>1, SendStep
<1>4. CASE send_scan_command /\ pc = "identify"
  <2>1. Send("IDENTIFY") /\ GoTo("identify_ack")
    BY <1>1, <1>4 DEF send_scan_command
  <2> QED
    BY <1>1, <1>4, <2>1, SendStep
<1> QED
  BY <1>2, <1>3, <1>4 DEF send_scan_command

LEMMA DriverStep ==
  ASSUME DevicesTyped, Identified, KeyboardThere, NoMouseBehind, EnoughAttempts, Driver
  PROVE  Identified'
BY SkipStep, SendingStep, AnsweredStep, NotAnsweredStep, LowStep, HighStep DEF Driver

(***************************************************************************)
(* Types.                                                                  *)
(***************************************************************************)
LEMMA SentTyped ==
  ASSUME garbled \in 0 .. GarbledBound, prompt => ~route, NEW query, Send(query) \/ NotSent
  PROVE  garbled' \in 0 .. GarbledBound /\ (prompt => ~route')
<1>1. GarbledBound \in Nat
  BY Ps2Assumption
<1>2. CASE Send(query)
  <2>1. route' = FALSE /\ (garbled' = garbled
                         \/ (garbled < GarbledBound /\ garbled' = garbled + 1))
    BY <1>2 DEF Send, Receive
  <2> QED
    BY <1>1, <2>1
<1>3. CASE NotSent
  BY <1>3 DEF NotSent
<1> QED
  BY <1>2, <1>3

LEMMA TurnTyped ==
  ASSUME DevicesTyped, Again \/ NextChannel
  PROVE  channel' \in Channel /\ try' \in Nat /\ pc' \in Loops \cup {"done"}
<1>1. NextChannel => channel' \in Channel /\ try' = 1 /\ pc' \in Loops \cup {"done"}
  BY ChannelsGoOn
<1>2. Again => NextChannel \/ (channel' = channel /\ try' = try + 1 /\ pc' \in Loops)
  BY DEF Again, AgainWhile, Loop, Loops
<1> QED
  BY <1>1, <1>2 DEF DevicesTyped

LEMMA DriverTyped ==
  ASSUME DevicesTyped, Driver, at = "done", at' = at
  PROVE  DevicesTyped'
<1> DEFINE Moved == channel' \in Channel /\ try' \in Nat /\ pc' \in Resting \cup Waiting
           Sent  == garbled' \in 0 .. GarbledBound /\ (prompt => ~route')
           Known == low' \in Int /\ devices' \in [Channel -> Int]
<1>1. UNCHANGED <<world, ok>>
  BY DEF Driver, skip_channel, send_reset, send_scan_command, answered, not_answered,
     read_id_low, read_id_high
<1>2. Again \/ NextChannel => Moved
  BY TurnTyped DEF Loops, Resting
<1>3. \A label \in Resting \cup Waiting : GoTo(label) => Moved
  BY DEF GoTo, DevicesTyped
<1>4. UNCHANGED <<route, garbled>> => Sent
  BY DEF DevicesTyped
<1>5. \A query : Send(query) \/ NotSent => Sent
  BY SentTyped DEF DevicesTyped
<1>6. UNCHANGED <<low, devices>> => Known
  BY DEF DevicesTyped
<1>7. \A id \in Int : Detected(id) => Known /\ Moved
  BY <1>2 DEF Detected, DevicesTyped
<1>8. low \in Int /\ \A set : ReadByte(set) => output[2] \in set
  BY DEF DevicesTyped, ReadByte
<1>9. /\ {"reset_ack", "reset_bat", "disable_ack", "identify_ack",
          "id_low", "id_high"} \subseteq Waiting
      /\ "identify" \in Resting
  BY DEF Waiting, Resting
<1> HIDE DEF Moved, Sent, Known
<1>10. ASSUME skip_channel PROVE Moved /\ Sent /\ Known
  BY <1>2, <1>4, <1>6, <1>10 DEF skip_channel
<1>11. ASSUME send_reset PROVE Moved /\ Sent /\ Known
  BY <1>2, <1>3, <1>5, <1>6, <1>9, <1>11 DEF send_reset
<1>12. ASSUME send_scan_command PROVE Moved /\ Sent /\ Known
  BY <1>3, <1>5, <1>6, <1>9, <1>12 DEF send_scan_command
<1>13. ASSUME answered PROVE Moved /\ Sent /\ Known
  <2>1. Moved
    BY <1>2, <1>3, <1>9, <1>13 DEF answered, Expected
  <2> QED
    BY <1>4, <1>6, <1>13, <2>1 DEF answered
<1>14. ASSUME not_answered PROVE Moved /\ Sent /\ Known
  BY <1>2, <1>4, <1>6, <1>14 DEF not_answered
<1>15. ASSUME read_id_low PROVE Moved /\ Sent /\ Known
  <2>1. Sent
    BY <1>4, <1>15 DEF read_id_low
  <2>2. ASSUME Detected(AT_KEYBOARD) PROVE Moved /\ Known
    BY <1>7, <2>2 DEF AT_KEYBOARD
  <2>3. ASSUME ReadByte(Byte), low' = output[2], GoTo("id_high"), UNCHANGED devices
        PROVE  Moved /\ Known
    <3>1. Moved
      BY <1>3, <1>9, <2>3
    <3>2. Known
      BY <1>8, <2>3 DEF Known, DevicesTyped, Byte
    <3> QED
      BY <3>1, <3>2
  <2>4. Moved /\ Known
    BY <1>15, <2>2, <2>3 DEF read_id_low
  <2> QED
    BY <2>1, <2>4
<1>16. ASSUME read_id_high PROVE Moved /\ Sent /\ Known
  <2>1. \A byte \in Byte : low + 256 * byte \in Int
    BY <1>8 DEF Byte
  <2>2. Moved /\ Known
    BY <1>7, <1>8, <1>16, <2>1 DEF read_id_high
  <2> QED
    BY <1>4, <1>16, <2>2 DEF read_id_high
<1>17. Moved /\ Sent /\ Known
  BY <1>10, <1>11, <1>12, <1>13, <1>14, <1>15, <1>16 DEF Driver
<1> QED
  BY <1>1, <1>17 DEF Moved, Sent, Known, DevicesTyped, world

(***************************************************************************)
(* The driver starts behind the controller's initialisation, with nothing  *)
(* on the wire.                                                            *)
(***************************************************************************)
LEMMA DriverStarts ==
  ASSUME BootInv, DevicesTyped, controller, KeyboardThere', at' = "done"
  PROVE  Identified'
<1>1. /\ init_ps2_controller /\ ok' = Working(ps2_status')
      /\ UNCHANGED <<world, driver, route, garbled>>
  BY DEF controller
<1>2. prompt /\ attached[0] = "keyboard" /\ ps2_status'[0] = CHANNEL_OK
  BY <1>1 DEF KeyboardThere, world, Working
<1>3. OnlyAnswers /\ StatusKnown
  BY <1>2 DEF BootInv
<1>4. at = "write4" /\ UNCHANGED wire
  <2>1. CASE check_present
    BY <1>2, <2>1 DEF check_present, ABSENT, CHANNEL_OK, Channel
  <2>2. CASE self_tested
    <3>1. at = "self_tested" /\ UNCHANGED ps2_status
      BY <2>2 DEF self_tested, Take
    <3>2. Statuses(UNINITIALIZED, UNINITIALIZED)
      BY <1>3, <3>1 DEF StatusKnown, BeforeTest
    <3> QED
      BY <1>2, <3>1, <3>2 DEF Statuses, UNINITIALIZED, CHANNEL_OK, Channel
  <2>3. CASE commands
    BY <2>3 DEF commands, Command, Ask
  <2>4. CASE flush \/ self_test \/ read_config \/ look_for_second \/ tested
    BY <2>4 DEF flush, self_test, read_config, look_for_second, tested, Take
  <2> QED
    BY <1>1, <2>1, <2>2, <2>3, <2>4 DEF init_ps2_controller
<1>5. output = Empty /\ Only(<<>>)
  BY <1>3, <1>4 DEF OnlyAnswers, Asking, Unflushed
<1>6. Stream(0, <<>>)'
  <2>1. pending = [s \in Source |-> <<>>]
    BY <1>5 DEF Only
  <2> QED
    BY <1>4, <1>5, <2>1 DEF Stream, wire
<1>7. pc' = "reset" /\ channel' = 0 /\ try' = 1 /\ garbled' \in Nat
  <2>1. GarbledBound \in Nat
    BY Ps2Assumption
  <2> QED
    BY <1>1, <1>4, <2>1 DEF DevicesTyped, driver
<1>8. /\ pc' \in Resting /\ pc' \notin Waiting \cup Detection
      /\ pc' \notin {"identify", "id_high", "done"}
  BY <1>7 DEF Resting, Waiting, Detection
<1>9. try' <= garbled' + 1
  BY <1>7, AtLeastOne
<1> QED
  BY <1>6, <1>8, <1>9 DEF Identified

LEMMA DevicesStart ==
  ASSUME BootInit
  PROVE  DevicesInv
<1>1. AT_KEYBOARD \in Int /\ NOTHING \in Int /\ GarbledBound \in Nat
  BY Ps2Assumption DEF AT_KEYBOARD, NOTHING
<1>2. DevicesTyped
  BY <1>1 DEF BootInit, Init, DevicesTyped, Resting, Channel
<1> QED
  BY <1>2 DEF BootInit, ControllerInit, DevicesInv

\* What is on its way arrives, and stays what it was.
LEMMA BytesArrive ==
  ASSUME DevicesTyped, Identified, NEW src \in Source, Deliver(src),
         UNCHANGED <<world, driver, garbled>>
  PROVE  Identified'
<1>1. PICK ch \in Channel : ch = channel
  BY DEF DevicesTyped
<1>2. UNCHANGED <<attached, pc, channel, try, low, devices, garbled>>
  BY DEF world, driver
<1>3. pc \in Resting => Stream(0, <<>>)'
  BY StreamArrives DEF Identified, Channel
<1>4. pc \in Waiting => Replied'
  <2>1. ASSUME pc \in Waiting PROVE Replied'
    <3>1. PICK bytes \in Left :
            Stream(ch, bytes) /\ (channel = 0 /\ bytes = <<RSD>> => try <= garbled)
      BY <1>1, <2>1 DEF Identified, Replied
    <3>2. Stream(ch, bytes)'
      BY <3>1, StreamArrives
    <3>3. Left' = Left
      BY <1>2 DEF Left
    <3> QED
      BY <1>1, <1>2, <3>1, <3>2, <3>3 DEF Replied, Stream
  <2> QED
    BY <2>1
<1> QED
  BY <1>2, <1>3, <1>4 DEF Identified

\* The rest of the state decides neither of the two.
LEMMA DevicesRest ==
  ASSUME DevicesInv, UNCHANGED <<world, driver, route, garbled, ok, wire>>, at' = at
  PROVE  DevicesInv'
<1>1. UNCHANGED <<attached, prompt, pc, channel, try, low, devices, route,
                  garbled, ok, output, pending>>
  BY DEF world, driver, wire
<1>2. DevicesTyped'
  BY <1>1 DEF DevicesInv, DevicesTyped
<1>3. Left' = Left
  BY <1>1 DEF Left
<1>4. Identified => Identified'
  BY <1>1, <1>3 DEF Identified, Replied, Stream
<1> QED
  BY <1>1, <1>2, <1>4 DEF DevicesInv, KeyboardThere

LEMMA DevicesStep ==
  ASSUME NoMouseBehind, EnoughAttempts, BootInv, DevicesInv, [BootNext]_boot_vars
  PROVE  DevicesInv'
<1> USE DEF DevicesInv
<1>1. CASE acpi
  <2>1. at = "present"
    BY <1>1 DEF acpi, init_acpi, find_RSDP, null_RSDP, next_entry, ReadEntry, BootInv,
       ControllerTyped
  <2> QED
    BY <1>1, DevicesRest DEF acpi, ps2_vars, controller_vars
<1>2. CASE controller
  <2>1. at # "done"
    BY <1>2 DEF controller, init_ps2_controller, check_present, commands, Command, Ask,
       flush, self_test, read_config, self_tested, look_for_second, tested, Take
  <2>2. DevicesTyped'
    BY <1>2, <2>1 DEF controller, world, driver, DevicesTyped, Working
  <2> QED
    BY <1>2, <2>2, DriverStarts
<1>3. CASE devices_driver
  <2>1. at = "done" /\ at' = at /\ Driver
    BY <1>3 DEF devices_driver
  <2>2. UNCHANGED <<world, ok>>
    BY <2>1 DEF Driver, skip_channel, send_reset, send_scan_command, answered,
       not_answered, read_id_low, read_id_high
  <2>3. DevicesTyped'
    BY <2>1, DriverTyped
  <2>4. KeyboardThere' => Identified'
    BY <2>1, <2>2, DriverStep DEF KeyboardThere, world
  <2> QED
    BY <2>3, <2>4
<1>4. CASE arrive
  <2>1. PICK src \in Source : Deliver(src)
    BY <1>4 DEF arrive
  <2>2. UNCHANGED <<at, world, ok, driver, route, garbled>>
    BY <1>4 DEF arrive, controller_vars
  <2>3. DevicesTyped'
    BY <2>2 DEF DevicesTyped, world, driver
  <2>4. KeyboardThere' /\ at' = "done" => Identified'
    BY <2>1, <2>2, BytesArrive DEF KeyboardThere, world
  <2> QED
    BY <2>3, <2>4
<1>5. CASE left_over \/ press
  <2>1. UNCHANGED <<at, world, ok, driver, route, garbled>>
    BY <1>5 DEF left_over, press, Typed, controller_vars
  <2>2. at # "done" \/ ~prompt
    BY <1>5 DEF left_over, press
  <2>3. DevicesTyped'
    BY <2>1 DEF DevicesTyped, world, driver
  <2> QED
    BY <2>1, <2>2, <2>3 DEF KeyboardThere, world
<1>6. CASE booted \/ UNCHANGED boot_vars
  BY <1>6, DevicesRest DEF booted, boot_vars, ps2_vars, controller_vars
<1> QED
  BY <1>1, <1>2, <1>3, <1>4, <1>5, <1>6 DEF BootNext

(***************************************************************************)
(* A keyboard on channel 0 is known for one, and its handler finds nothing *)
(* of the boot on the wire, for every number of attempts and of bytes not  *)
(* understood that is below it.  A mouse behind channel 1 may spoil it     *)
(* (ps2_device_general.c 90-143, 198-216).                                 *)
(***************************************************************************)
THEOREM KeyboardIsFound ==
  ASSUME NoMouseBehind, EnoughAttempts
  PROVE  BootSpec => []KeyboardFound
<1>1. BootInit => DevicesInv
  BY DevicesStart
<1>2. BootInv /\ DevicesInv /\ [BootNext]_boot_vars => DevicesInv'
  BY DevicesStep
<1>3. DevicesInv => KeyboardFound
  <2> SUFFICES ASSUME DevicesInv, prompt, pc = "done", attached[0] = "keyboard", 0 \in ok
               PROVE  devices[0] = MF_KEYBOARD /\ Silent
    BY DEF KeyboardFound
  <2>1. at = "done"
    BY DEF DevicesInv, DevicesTyped
  <2>2. Identified
    BY <2>1 DEF DevicesInv, KeyboardThere
  <2>3. devices[0] = MF_KEYBOARD /\ Stream(0, <<>>)
    BY <2>2 DEF Identified, Resting
  <2> QED
    BY <2>3, NoStream DEF Channel
<1> QED
  BY <1>1, <1>2, <1>3, BootInvariant, PTL DEF BootSpec

=============================================================================
