SPECIFICATION FairSpec
CONSTANTS
  Plans <- ShortPlans
  Seats = {"Human", "Verifier"}
  MaxRevisions = 1
  MaxCalls = 3
  MaxFaults = 1
  MaxInjects = 1
  MaxBreakpoints = 0
INVARIANTS
  TypeOK
  RestrictedApproved
  EffectBeforeVerdict
  InOrder
  ResumePointSound
  InjectionUsedOnce
  ReportSound
PROPERTIES
  PassedForGood
  CallReturns
  ImplementsFlow
CHECK_DEADLOCK FALSE
