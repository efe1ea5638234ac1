SPECIFICATION FairSpec
CONSTANTS
  Procs = {p1}
  Keys = {branch, comment}
  Irreversible = {comment}
  MaxFaults = 3
INVARIANTS TypeOK AtMostOnce NoSilentEffect CompletedAudited OneResult
PROPERTIES CompletedForGood GateBeforeEffect Settles ImplementsContract
