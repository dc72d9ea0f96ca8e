\* The owner and one other thread; a socket, two clients and one descriptor
\* more, so that a number is used again.
CONSTANTS
  Threads = {owner, user}
  Owner = owner
  MaxFd = 4
  MaxClients = 2
  NULL = NULL
SPECIFICATION Spec
CHECK_DEADLOCK FALSE
INVARIANTS
  
  WaitsOnOwnSockets
  DescriptorsKept
PROPERTIES
  ErrorSticks
