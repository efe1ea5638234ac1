SPECIFICATION Spec
CONSTANTS
  Procs = {p1}
  Keys = {branch}
  Irreversible = {}
  MaxFaults = 1
INVARIANTS AuditedOnce
