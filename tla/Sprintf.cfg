SPECIFICATION PrintfSpec
CONSTANTS
  WORD = 256
  SHORT = 16
  ADDRESS_SPACE = 64
  sizeof_pointer = 1
  s = 8
  SIZE = 8
  Calls <- SprintfCalls
INVARIANT TextIsCut
