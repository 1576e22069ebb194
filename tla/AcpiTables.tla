----------------------------- MODULE AcpiTables -----------------------------
(***************************************************************************)
(* init_acpi of acpi.c: the search for the root pointer of the firmware's  *)
(* tables, first behind the start of the extended BIOS data area, then in  *)
(* the BIOS itself, and for the table that says what hardware there is.    *)
(*                                                                         *)
(* Memory is counted in paragraphs of 16 bytes, the steps of the search;   *)
(* of what lies there only the signature, whether the bytes add up to      *)
(* zero, and the fields read later are kept.                               *)
(***************************************************************************)
EXTENDS Integers, Sequences

CONSTANTS
  EBDA_START, EBDA_end,          \* (from the BIOS, 0xA0000)
  BIOS_ROM_START, BIOS_ROM_END,  \* (0xE0000, 0x100000)
  Firmwares                      \* what the firmware may have put there

Searched == EBDA_START .. EBDA_end - 1 \cup BIOS_ROM_START .. BIOS_ROM_END - 1

Pointer == [signature : {"RSD PTR ", "other"}, checksum : {0, 1}, revision : Nat]
Table   == [signature : {"FACP", "other"}, checksum : {0, 1}, has_8042 : BOOLEAN]

ASSUME FirmwareAssumption ==
  /\ {EBDA_START, EBDA_end, BIOS_ROM_START, BIOS_ROM_END} \subseteq Nat
  /\ 0 < EBDA_START /\ EBDA_START < EBDA_end
  /\ EBDA_end < BIOS_ROM_START /\ BIOS_ROM_START < BIOS_ROM_END
  /\ \A f \in Firmwares :
       /\ f.memory \in [Searched -> Pointer]
       /\ f.checksum \in {0, 1}        \* of the root table
       /\ f.entry \in Seq(Table)       \* what it lists

NULL == 0

VARIABLES
  firmware,
  acpi_step, ebda_p, i,   \* init_acpi, and the counters of its loops
  RSDP,                   \* a paragraph, or NULL
  FADT                    \* the number of an entry, or NULL

acpi_vars == <<firmware, acpi_step, ebda_p, i, RSDP, FADT>>

AcpiInit ==
  /\ firmware \in Firmwares
  /\ acpi_step = "find_RSDP" /\ ebda_p = EBDA_START /\ i = 1
  /\ RSDP = NULL /\ FADT = NULL

-----------------------------------------------------------------------------

validate_RSDP(p) ==
  firmware.memory[p].signature = "RSD PTR " /\ firmware.memory[p].checksum = 0

Accept ==
  /\ RSDP' = ebda_p
  /\ acpi_step' = IF firmware.checksum = 0 THEN "entries" ELSE "done"
  /\ UNCHANGED <<firmware, ebda_p, i, FADT>>

Pass(paragraph) ==
  /\ ebda_p' = paragraph
  /\ UNCHANGED <<firmware, acpi_step, i, RSDP, FADT>>

\* Mutant: the search is over at the end of the first region.
MoveOn_one_region == Pass(IF ebda_p + 1 = EBDA_end THEN BIOS_ROM_END ELSE ebda_p + 1)

MoveOn == Pass(IF ebda_p + 1 = EBDA_end THEN BIOS_ROM_START ELSE ebda_p + 1)

find_RSDP ==
  /\ acpi_step = "find_RSDP" /\ ebda_p \in Searched
  /\ IF validate_RSDP(ebda_p) THEN Accept ELSE MoveOn

\* Without a root pointer, what lies at address zero is taken for one: nothing
\* is known of the tables it seems to lead to.
null_RSDP ==
  /\ acpi_step = "find_RSDP" /\ ebda_p \notin Searched
  /\ acpi_step' = "done"
  /\ FADT' \in {NULL} \cup DOMAIN firmware.entry
  /\ UNCHANGED <<firmware, ebda_p, i, RSDP>>

IsFADT(table) == table.signature = "FACP" /\ table.checksum = 0

ReadEntry(more) ==
  /\ acpi_step = "entries"
  /\ IF more
     THEN /\ FADT' = IF FADT = NULL /\ IsFADT(firmware.entry[i]) THEN i ELSE FADT
          /\ i' = i + 1
          /\ UNCHANGED acpi_step
     ELSE acpi_step' = "done" /\ UNCHANGED <<FADT, i>>
  /\ UNCHANGED <<firmware, ebda_p, RSDP>>

\* Mutant: a damaged table ends the search.
next_entry_until_damaged ==
  ReadEntry(i <= Len(firmware.entry) /\ firmware.entry[i].checksum = 0)

next_entry == ReadEntry(i <= Len(firmware.entry))

init_acpi == find_RSDP \/ null_RSDP \/ next_entry

-----------------------------------------------------------------------------

SoundFADT(k) == firmware.entry[k].signature = "FACP" /\ firmware.entry[k].checksum = 0

(***************************************************************************)
(* Of the places searched, in both regions, the first with a sound root    *)
(* pointer is taken, and none only if there is none; and where the root    *)
(* table is sound, of the tables it lists the first sound one that is a    *)
(* FADT, and none only if there is none: damaged copies before them are    *)
(* passed over (acpi.c 28-76).                                             *)
(***************************************************************************)
FirstSoundTables ==
  acpi_step = "done" =>
    IF RSDP = NULL
    THEN \A p \in Searched : ~validate_RSDP(p)
    ELSE /\ validate_RSDP(RSDP)
         /\ \A p \in Searched : p < RSDP => ~validate_RSDP(p)
         /\ IF FADT = NULL
            THEN firmware.checksum = 0 => \A k \in DOMAIN firmware.entry : ~SoundFADT(k)
            ELSE /\ firmware.checksum = 0 /\ SoundFADT(FADT)
                 /\ \A k \in 1 .. FADT - 1 : ~SoundFADT(k)

=============================================================================
