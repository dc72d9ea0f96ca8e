CONSTANTS
  c1 = c1
  c2 = c2
  c3 = c3
  Early <- TwoEarly
  Late = {c3}
  MayLeave = {c2}
  MaxPackets <- TwoFromFirst
  MaxPerRead = 1
  NULL = NULL
SPECIFICATION Spec
INVARIANTS
  NoEcho
  InOrder
  DeliveredToOthers
  BuffersAgree

  
