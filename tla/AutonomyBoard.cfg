SPECIFICATION Spec
CONSTANTS
  Members = {"member"}
  Actors <- SomeActors
  Handed <- SomeProposals
  MaxActs = 3
INVARIANTS
  TypeOK
  GateOnAuthority
  PausesConservative
CHECK_DEADLOCK FALSE
