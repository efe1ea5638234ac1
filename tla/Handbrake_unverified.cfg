SPECIFICATION Spec
CONSTANTS
  Plans <- OnePausing
  Seats = {"Human"}
  MaxRevisions = 1
  MaxCalls = 3
  MaxFaults = 1
  MaxInjects = 0
  MaxBreakpoints = 0
INVARIANTS
  UnverifiedJudged
CHECK_DEADLOCK FALSE
