SPECIFICATION FairSpec
CONSTANTS
  APs = {a1, a2}
  None = None
  MaxFrames = 1
  MaxCalls = 3
  MaxWorks = 1
  AUTH_MAX_TRIES = 2
  ASSOC_MAX_TRIES = 2
  max_probe_tries = 2
  Frames <- MCFrames
INVARIANTS AttemptIsTimed ReportsAgree ConnectionIsWatched SwitchProceeds 
CHECK_DEADLOCK FALSE
PROPERTY LostApNoticed
