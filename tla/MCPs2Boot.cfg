SPECIFICATION MCSpec
CONSTANTS
  RETRY_COUNT = 3
  Worlds <- MCWorlds
  GarbledBound = 2
  EBDA_START = 2
  EBDA_end = 4
  BIOS_ROM_START = 6
  BIOS_ROM_END = 8
  Firmwares <- MCFirmwares
  Chips <- MCChips
\* Interrupts and translation on, as the BIOS leaves it.
  DefaultConfig = 71
\* Enter, pressed to start the machine.
  KeyBytes = {90}
  TypedBound = 1
INVARIANTS
  KeyboardFound
  FirstSoundTables
  StatusIsTrue
  ConfiguredForHandler
PROPERTY BootEnds
