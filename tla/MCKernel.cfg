SPECIFICATION Spec
CONSTANTS
  PAGE_SPACE_START = 3
  PAGE_SPACE_END = 12
  PT_ENTRIES = 3
  ClientWords <- MCClientWords
  PID_MAX = 2
  ProcessSize = 98
  NodeSize = 108
  NULL_END = 1
  USER_END = 2
INVARIANTS
  KernelTypeOK
  EveryFrameHasOneOwner
  StackIsContiguous
  OneAddressSpace
  KernelStaysMapped
  OneRing
PROPERTIES
  TablesStableWhilePaging
  FaultIsResolved
  KernelReturnsToUser
