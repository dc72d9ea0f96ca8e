\* A client's four queues and a fifth that could run in the place of one.
CONSTANTS
  Queues = {sendq, receiveq, captureq, nlcaptureq, injectionq}
  naq = naq
CHECK_DEADLOCK FALSE
SPECIFICATION RegistrySpec
INVARIANTS
  RegistryIsRunning
