\* Two data pointers to tell a replaced one apart; three runs, so that a second
\* run after a request is seen.
CONSTANTS
  Datas = {d1, d2}
  MaxRuns = 3
SPECIFICATION LooperSpec
INVARIANTS
  LooperInv
  QuietWhenPaused
  AtMostOneMoreRun
  BracketedByFirstAndLast
PROPERTIES
  CallsReturn
