CONSTANTS
  LEN_BYTES = 2
  HEADER_BYTES = 3
  MAX_SIZE = 11
  StartChoices <- MCStartChoices
CHECK_DEADLOCK FALSE
SPECIFICATION FramingSpec
INVARIANTS
  WholeUnlessMixed
  NothingLostOrHeldBack
