-------------------------------- MODULE Steward --------------------------------
(***************************************************************************)
(* steward.py: the Steward reads a flow's trail and quarantines the flow   *)
(* when it has cost as much as its budget cap (R7) or has executed its     *)
(* work item too often (R8); a rollback lifts the quarantine.  Reading and *)
(* appending are one step: what the Steward reads only grows, so a breach  *)
(* it saw is still there when it appends.                                  *)
(***************************************************************************)
EXTENDS Routing

CONSTANTS
  Cap,            \* BudgetCap.compute of every flow
  LoopThreshold,  \* loop_threshold
  MaxBreaches     \* bound: quarantines and refused injections, over all flows

ASSUME StewardAssumption == {Cap, LoopThreshold, MaxBreaches} \subseteq Nat

\* total_cost of the trail: only execute markers carry a cost here.
RunningCost(f) == FoldSet(LAMBDA n, sum : sum + Cost[trail[f][n].version], 0, At(f, "execute"))

CapReached(f) == RunningCost(f) >= Cap
Looping(f) == Cardinality(At(f, "execute")) > LoopThreshold

\* The rules assess() finds broken: it stops at the cap.
Breach(f) == IF CapReached(f) THEN {"R7"} ELSE IF Looping(f) THEN {"R8"} ELSE {}

Interventions(f) == At(f, "quarantine") \cup At(f, "rollback")
Total(stage) == SumFunction([f \in Flows |-> Cardinality(At(f, stage))])

MayBreach == Total("quarantine") + Total("refused") < MaxBreaches

Assess(f) ==
  /\ MayBreach
  /\ \E rule \in Breach(f) : Emit(f, [stage |-> "quarantine", rule |-> rule])
  /\ UNCHANGED <<book, clock, pc, using>>

\* rollback() to an event of the flow: any, since nothing but the mark is kept of it.
Rollback(f) ==
  /\ trail[f] # <<>>
  /\ Emit(f, [stage |-> "rollback"])
  /\ UNCHANGED <<book, clock, pc, using>>

\* is_quarantined, as of the first n events of the flow.
QuarantinedAt(f, n) ==
  LET last == Max({0} \cup {m \in Interventions(f) : m <= n})
  IN  last # 0 /\ trail[f][last].stage = "quarantine"
Quarantined(f) == QuarantinedAt(f, Len(trail[f]))

\* inject() by a human whose value outranks the seat (R11): a governance block on the flow's trail.
\* A flow that can be injected into has paused before; a pause looks like a Cut here.
InjectRefused(f) ==
  /\ MayBreach /\ At(f, "open") # {}
  /\ Emit(f, [stage |-> "refused"])
  /\ UNCHANGED <<book, clock, pc, using>>
==============================================================================
