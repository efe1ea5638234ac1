SPECIFICATION Spec
CONSTANTS
  Versions <- MCVersions
  Implementers <- MCImplementers
  Tier <- MCTier
  Nominal <- MCNominal
  Cost <- MCCost
  Role <- MCRole
  Default = "v1"
  Injector = "human"
  Flows = {"f1", "f2"}
  Routed = {"f1"}
  FloorTier <- MCFloorTier
  Decisions = {"pass"}
  MaxRevisions = 0
  MaxCalls <- MCMaxCalls
  Cap = 3
  LoopThreshold = 0
  MaxBreaches = 1
  MinRuns = 1
  MaxPer = 1
  Window = 2
  SlaHours = 0
  MaxClock = 1
  MaxNotes = 4
  MaxTurns = 1
  MaxAssemblies = 1
  Overlap = FALSE
INVARIANT SuspensionHolds
CHECK_DEADLOCK FALSE
