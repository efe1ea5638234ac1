--------------------------------- MODULE Flow ----------------------------------
(***************************************************************************)
(* flow.py: run_flow() takes one ticket through specify, decompose and the *)
(* produce-score-revise loop of each work item, without pauses and without *)
(* recovery.  It is what the handbrake's calls, taken together, promise to *)
(* do: HandbrakeFlow maps one onto the other.  Items are numbered from 1.  *)
(***************************************************************************)
EXTENDS Naturals, Sequences

CONSTANTS
  MaxRevisions,  \* max_revisions, a natural number
  Outputs,       \* what an executor may hand over: records with a field `by`
  NoOutput,      \* the local variable before its first assignment
  Verdicts       \* the verifier's decisions

VARIABLES
  trail,    \* the flow's events
  at,       \* where run_flow is
  items,    \* how many work items decompose returned
  item, attempt, output

locals == <<item, attempt, output>>
vars == <<trail, at, items, locals>>

Places == {"specify", "decompose", "empty", "execute", "verify", "over"}

Init ==
  /\ trail = <<>> /\ at = "specify" /\ items = 0
  /\ item = 1 /\ attempt = 0 /\ output = NoOutput

Record(event) == trail' = Append(trail, event)

Specify ==
  /\ at = "specify"
  /\ Record([stage |-> "specify"])
  /\ at' = "decompose"
  /\ UNCHANGED <<items, locals>>

Decompose ==
  /\ at = "decompose"
  /\ Record([stage |-> "decompose"])
  /\ items' \in Nat
  /\ at' = IF items' = 0 THEN "empty" ELSE "execute"
  /\ UNCHANGED locals

\* EmptyDecomposition: no work items is an anomaly on the trail, not a verdict.
Escalate ==
  /\ at = "empty"
  /\ Record([stage |-> "escalation"])
  /\ at' = "over"
  /\ UNCHANGED <<items, locals>>

Execute ==
  /\ at = "execute"
  /\ output' \in Outputs
  /\ Record([stage |-> "execute", item |-> item, attempt |-> attempt, output |-> output'])
  /\ at' = "verify"
  /\ UNCHANGED <<items, item, attempt>>

\* An output its own verifier produced raises NonIndependentVerification and is never judged.
Verify ==
  /\ at = "verify" /\ output.by # "Verifier"
  /\ \E decision \in Verdicts :
       /\ Record([stage |-> "verify", item |-> item, attempt |-> attempt, output |-> output,
                  decision |-> decision])
       /\ \/ /\ decision = "return" /\ attempt < MaxRevisions
             /\ attempt' = attempt + 1 /\ at' = "execute"
             /\ UNCHANGED item
          \/ /\ decision = "pass" /\ item < items
             /\ item' = item + 1 /\ attempt' = 0 /\ at' = "execute"
          \/ /\ decision = "pass" => item = items
             /\ decision = "return" => attempt >= MaxRevisions
             /\ at' = "over"
             /\ UNCHANGED <<item, attempt>>
  /\ UNCHANGED <<items, output>>

\* A role or the store raises, or the process dies: this flow has no way back.
Abandon ==
  /\ at # "over"
  /\ at' = "over"
  /\ UNCHANGED <<trail, items, locals>>

Next == Specify \/ Decompose \/ Escalate \/ Execute \/ Verify \/ Abandon

Spec == Init /\ [][Next]_vars
==============================================================================
