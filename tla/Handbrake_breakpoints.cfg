SPECIFICATION Spec
CONSTANTS
  Plans <- PausingPlans
  Seats = {"Human"}
  MaxRevisions = 0
  MaxCalls = 3
  MaxFaults = 1
  MaxInjects = 0
  MaxBreakpoints = 2
INVARIANTS
  BreakpointHonoured
CHECK_DEADLOCK FALSE
