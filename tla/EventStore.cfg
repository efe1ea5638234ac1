SPECIFICATION FairSpec
CONSTANTS
  Flows = {f1}
  Writers = {w1, w2}
  Payloads = {a, b}
  MaxEvents = 3
INVARIANTS
  TypeOK
  GapFree
  ChainIntact
  AckedDurable
  CheckpointBacked
PROPERTIES
  RowsImmutable
  ConflictHasRival
  TailAdvances
  ImplementsLog
