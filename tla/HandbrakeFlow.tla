----------------------------- MODULE HandbrakeFlow -----------------------------
(***************************************************************************)
(* The handbrake drives one run_flow: whatever is paused, resumed, cut     *)
(* short and begun again, the trail its calls leave behind is one that an  *)
(* uninterrupted run could have left.  Where that run would be is read off *)
(* the trail: the last marker or verdict on it is where it has got to.     *)
(***************************************************************************)
EXTENDS Handbrake

Decomposed == Logged("decompose") \/ Logged("reenter")

\* run_flow's events, in their order.  A re-entry derives the items again when a crash lost the
\* decompose event, and records only itself; the first one stands for that event here.
Derives(n) ==
  /\ log[n].stage = "reenter"
  /\ \A m \in 1 .. n - 1 : log[m].stage \notin {"decompose", "reenter"}

FlowTrail ==
  LET upto[n \in 0 .. Len(log)] ==
        IF n = 0 THEN <<>>
        ELSE IF log[n].stage \in {"specify", "decompose", "execute", "verify"}
        THEN Append(upto[n - 1], log[n])
        ELSE IF Derives(n) THEN Append(upto[n - 1], [stage |-> "decompose"])
        ELSE upto[n - 1]
  IN  upto[Len(log)]

\* Where the last marker or verdict leaves the loop.
Position ==
  LET loop == {n \in DOMAIN log : log[n].stage \in {"execute", "verify"}}
      last == log[Max(loop)]
      be(at, i, n, out) == [at |-> at, item |-> i, attempt |-> n, output |-> out]
  IN  IF loop = {} THEN be("execute", 1, 0, NoOutput)
      ELSE IF last.stage = "execute" THEN be("verify", last.item, last.attempt, last.output)
      ELSE IF last.decision = "return" /\ last.attempt < MaxRevisions
      THEN be("execute", last.item, last.attempt + 1, last.output)
      ELSE IF last.decision = "pass" /\ last.item < Len(plan)
      THEN be("execute", last.item + 1, 0, last.output)
      ELSE be("over", last.item, last.attempt, last.output)

FlowAt ==
  IF ~Logged("specify") THEN "specify"
  ELSE IF ~Decomposed THEN "decompose"
  ELSE IF plan = <<>> THEN "empty"
  ELSE Position.at

F == INSTANCE Flow WITH
  Outputs <- Output \ {NoOutput},
  Verdicts <- Decisions,
  trail <- FlowTrail,
  at <- FlowAt,
  items <- IF Decomposed THEN Len(plan) ELSE 0,
  item <- Position.item,
  attempt <- Position.attempt,
  output <- Position.output

\* Through crashes, pauses, injections and repeated calls the prefix is derived once, attempts
\* run 0, 1, 2, ... up to max_revisions, each is marked once and judged once, by somebody else
\* and on the output just marked, and only a pass leads on to the next item: start() and
\* resume() implement run_flow() ("mirrors flow._produce_and_verify", handbrake.py).
ImplementsFlow == F!Spec
==============================================================================
