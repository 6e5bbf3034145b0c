CONSTANTS
  NumBufs = 4
  PinCounts = {0, 1}
SPECIFICATION SweepSpec
INVARIANTS
  ComputesClock
PROPERTIES
  Returns
\* allocBuf returns: the module stops there.
CHECK_DEADLOCK FALSE
