-------------------------------- MODULE Observe --------------------------------
(***************************************************************************)
(* observe.py: what the inspector makes of a run's durable events.  It     *)
(* knows the events by kind: a verdict is a "verify", governance is a gate *)
(* decision or a refused injection, an effect is perform's own event.      *)
(***************************************************************************)
EXTENDS Handbrake

\* The stages of the kind "breakpoint": a pause, and a human's setting and clearing of one.
BreakpointStages == {"breakpoint", "set_breakpoint", "clear_breakpoint"}

Places(stage) == {n \in DOMAIN log : log[n].stage = stage}

\* Mutant: the run's first verdict.
Verdict_First ==
  IF Places("verify") # {} THEN log[Min(Places("verify"))].decision ELSE "unknown"
Verdict ==
  IF Places("verify") # {} THEN log[Max(Places("verify"))].decision
  ELSE IF Places("refused") # {} \/ \E n \in Places("gate") : ~log[n].allow THEN "blocked"
  ELSE IF log # <<>> /\ log[Len(log)].stage \in BreakpointStages THEN "paused"
  ELSE "unknown"

\* summarize: counts, and the effects with what the ledger says of each one's key.
Summary ==
  [verdict |-> Verdict,
   execute_attempts |-> Cardinality(Places("execute")),
   rederivations |-> Cardinality(Places("specify")),
   confirmed |-> {n \in Places("act") :
                    ledger[<<log[n].item, log[n].output.id>>].status = "completed"}]

------------------------------------------------------------------------------
\* Read after the fact, from events that crashes, injections and later calls have gone into,
\* the report agrees with what the last call did: the verdict it returned, one derivation of
\* the prefix, no more executions than the attempts allow, and for a run that passed at least
\* one per item and no effect unconfirmed ("confirm the cell behaved as expected", observe.py).
ReportSound ==
  LET report == Summary
  IN  /\ returned \in Decisions => report.verdict = returned
      /\ returned = "pass" =>
           report.confirmed = Places("act") /\ report.execute_attempts >= Len(plan)
      /\ report.rederivations <= 1
      /\ report.execute_attempts <= (MaxRevisions + 1) * Len(plan)
==============================================================================
