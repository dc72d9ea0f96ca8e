SPECIFICATION Spec
CONSTANTS
  v1 = v1
  v2 = v2
  r1 = r1
  r2 = r2
  r3 = r3
  a1 = a1
  a2 = a2
  VMs = {v1, v2}
  Radios = {r1, r2, r3}
  VM <- MCVM
  Addrs = {a1, a2}
  AddrOf <- MCAddrOf
  Channels = {c1, c2}
  Diverting = {v1}
  None = None
  MAX_QUEUE = 1
  WARN_QUEUE = 1
  Tunable = {r1}
  MaxTx = 2
  MaxCalls = 3
INVARIANTS  HeardOnce AcksBounded BeaconTimerFollowsInterval
SYMMETRY Symmetry
CHECK_DEADLOCK FALSE
