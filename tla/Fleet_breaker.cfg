SPECIFICATION Spec
CONSTANTS
  Versions <- MCVersions
  Implementers <- MCImplementers
  Tier <- MCTier
  Nominal <- MCNominal
  Cost <- MCCost
  Role <- MCRole
  Default = "v1"
  Injector = "human"
  Flows = {"f1"}
  Routed = {}
  FloorTier <- MCFloorTier
  Decisions = {"return"}
  MaxRevisions = 1
  MaxCalls <- MCOneCall
  Cap = 3
  LoopThreshold = 0
  MaxBreaches = 1
  MinRuns = 1
  MaxPer = 1
  Window = 1
  SlaHours = 0
  MaxClock = 1
  MaxNotes = 5
  MaxTurns = 1
  MaxAssemblies = 1
  Overlap = FALSE
INVARIANTS TypeOK RateLimited DangerOnly SuspensionSticks BreakglassJustified
PROPERTY DangerAnswered
CHECK_DEADLOCK FALSE
