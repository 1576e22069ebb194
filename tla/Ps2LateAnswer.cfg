SPECIFICATION Spec
CONSTANTS
  RETRY_COUNT = 3
  Worlds <- SlowKeyboard
  GarbledBound = 0
INVARIANT IdentifiedIsAttached
