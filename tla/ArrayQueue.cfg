\* Three slots and two items: the ring wraps, fills and empties while both
\* pointers are out, and two items tell an overwritten slot apart.
CONSTANTS
  NumItems = 3
  Items = {a, b}
  NULL = NULL
SPECIFICATION Spec
INVARIANTS
  SlotExclusion
PROPERTIES
  FifoSpec
