CONSTANTS
  c1 = c1
  c2 = c2
  c3 = c3
  Early <- TwoEarly
  Late = {}
  MayLeave = {}
  MaxPackets <- TwoFromFirst
  MaxPerRead = 2
  NULL = NULL
SPECIFICATION Spec
INVARIANT NoEcho
