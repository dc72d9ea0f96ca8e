\* Seconds of three parts: carries, borrows and equal operands in every
\* combination of signs, with four lags to add.
CONSTANTS
  one_billion = 3
  ABORT = ABORT
  MCSeconds = 2
  Times <- MCTimes
  MaxPackets = 4
CHECK_DEADLOCK FALSE
SPECIFICATION Spec
INVARIANTS
  SumExact
  ExtremesExact
  AverageBetween

  
