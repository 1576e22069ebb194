SPECIFICATION MCSpec
CONSTANTS
  page_rows = 2
  page_columns = 2
  Format = {"default", "red"}
  LineBound = 6
  buffer_size = 6
  Letters = {"a", "b", "SP"}
  Texts <- MCTexts
  WriteBound = 6
  WORD = 256
  SHORT = 16
  ADDRESS_SPACE = 64
  sizeof_pointer = 1
  s = 8
  SIZE = 8
  Calls <- MCCalls
INVARIANTS
  ScreenShowsText
  TextIsCut
  NumbersReadBack
