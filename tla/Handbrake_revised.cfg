SPECIFICATION Spec
CONSTANTS
  Plans <- OnePausing
  Seats = {"Human"}
  MaxRevisions = 1
  MaxCalls = 2
  MaxFaults = 0
  MaxInjects = 0
  MaxBreakpoints = 0
INVARIANTS
  PassedEffectDone
CHECK_DEADLOCK FALSE
