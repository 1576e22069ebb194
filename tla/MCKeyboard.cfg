SPECIFICATION Spec
CONSTANTS
  COMMAND_QUEUE_SIZE = 8
  COMMAND_RESEND_THRESHOLD = 3
  Keys = {"A", "LSHIFT", "LCTRL", "UP", "RCTRL", "PAUSE", "PRTSCR"}
  EventBound = 3
  GarbledBound = 4
INVARIANTS
  KeyboardTypeOK
  AcceptedInOrder
  StallsOnlyAtThreshold
  KeysDecodedInOrder
