SPECIFICATION Spec
CONSTANTS
  n0 = n0
  n1 = n1
  c0 = c0
  c1 = c1
  Nets = {n0, n1}
  init_net = n0
  Clients = {c0, c1}
  NetOf <- MCNetOf
  None = None
  radios = 1
  channels = 1
  Channels = {1, 2}
  MaxRadios = 2
  Listers = {c0}
INVARIANTS  MediumIsRight DumpComplete
CHECK_DEADLOCK FALSE
