CONSTANTS
  NumItems = 2
  NULL = NULL
  LEN_BYTES = 1
  HEADER_BYTES = 2
  Frames = 4
  Acks = {2}
  BUFFER_SIZE = 2
  Sizes <- MCSizes
  Stream <- MCStream
  MayFail = TRUE
  MaxRounds = 0
SPECIFICATION Spec
INVARIANTS
  SlotsExclusive
  OutboundInOrder
  
PROPERTIES
  EverythingDelivered
