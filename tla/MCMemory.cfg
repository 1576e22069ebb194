SPECIFICATION Spec
CONSTANTS
  PAGE_SPACE_START = 2
  PAGE_SPACE_END = 6
  PT_ENTRIES = 2
  ClientWords <- MCClientWords
  ARENA_START = 4
  ARENA_END = 9
  ADDRESS_SPACE = 16
  Requests <- MCRequests
  MEMORY_SIZE = 5
  Content = {0, 1}
  CYLINDERS_LIMIT = 2
  SECTORS_PER_TRACK_LIMIT = 2
  DriveSectors = 2
  kernel_size_sectors = 10
  PID_MAX = 5
  ProcessSize = 9
  NodeSize = 10
INVARIANTS
  FreeListComplete
  PanicsOnlyWhenUsedUp
  InterruptsStayOff
  ContentsKept
  MoveIsCopy
  ImageInOrder
PROPERTIES
  ImplementsPool
  HeldContentsUntouched
  ImplementsArena
  ImplementsRoundRobin
