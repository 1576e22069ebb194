SPECIFICATION Spec
CONSTANTS
  RETRY_COUNT = 3
  Worlds <- PromptMouse
  GarbledBound = 0
INVARIANT KeyboardFound
