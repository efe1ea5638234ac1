-------------------------------- MODULE Routing --------------------------------
(***************************************************************************)
(* Calls of several flows that route their work to executor versions:      *)
(* handbrake.py's _assign with optimize.py's CostAwareOptimizer, and of    *)
(* the calls themselves as much as the Steward and the Auditor see.  Every *)
(* flow has one work item, of one action class.  Pauses, injections and    *)
(* the effect are the module Handbrake's; a call here is one that is not   *)
(* paused.                                                                 *)
(***************************************************************************)
EXTENDS Versions, SequencesExt

CONSTANTS
  Flows,         \* flows, each of one work item
  Implementers,  \* the versions the Optimizer may route to, in the order wired
  Default,       \* the version of self.executor
  Injector,      \* the version of the human who may inject an edited output
  Routed,        \* the flows whose cell has an Optimizer
  FloorTier,     \* by flow: capability_floor of its item's class
  Tier, Nominal, \* by version: capability tier, and the cost it is wired with
  Cost,          \* by version: what one execution really costs
  Decisions,     \* the verifier's verdicts
  MaxRevisions,  \* max_revisions
  MaxCalls       \* bound: calls, by flow

ASSUME ImplementersAssumption ==
  /\ Implementers \in Seq(Versions) /\ Len(Implementers) >= 2
  /\ Routed \subseteq Flows /\ {Default, Injector} \subseteq Versions
ASSUME CostsAssumption == /\ FloorTier \in [Flows -> Nat] /\ {Tier, Nominal, Cost} \subseteq [Versions -> Nat]
ASSUME CallsAssumption == MaxRevisions \in Nat /\ MaxCalls \in [Flows -> Nat]

VARIABLES
  trail,   \* trail[f]: the flow's events (durable)
  pc,      \* pc[f]: where its call is
  using    \* using[f]: the version that call works with; `since` (history) is the length of the
           \* book when it began

NoCall == [version |-> Default, since |-> 0]
Places == {"idle", "govern", "execute", "verify"}

\* Events that a flow's calls, its Steward and its humans append.  "open" stands for the specify or
\* the reenter event of a call, "refused" for the block of an injection.
FlowEvent ==
       [stage : {"open", "rollback", "refused"}]
  \cup [stage : {"route"}, chosen : Versions]
  \cup [stage : {"gate"}, allow : BOOLEAN]
  \cup [stage : {"execute"}, version : Versions]
  \cup [stage : {"verify"}, decision : Decisions]
  \cup [stage : {"quarantine"}, rule : {"R7", "R8"}]

At(f, stage) == {n \in DOMAIN trail[f] : trail[f][n].stage = stage}
Emit(f, event) == trail' = [trail EXCEPT ![f] = Append(@, event)]
Goto(f, place) ==
  /\ pc' = [pc EXCEPT ![f] = place]
  /\ using' = [using EXCEPT ![f] = IF place = "idle" THEN NoCall ELSE @]
HasVerdict(f) == At(f, "verify") # {}
Passed(f) == HasVerdict(f) /\ trail[f][Max(At(f, "verify"))].decision = "pass"
HasUnverified(f) == Cardinality(At(f, "execute")) > Cardinality(At(f, "verify"))

------------------------------------------------------------------------------
\* mean_cost_for: the mean cost of a version's executions, the nominal one before the first.
CostOf(v) ==
  IF \E f \in Flows : \E n \in At(f, "execute") : trail[f][n].version = v THEN Cost[v] ELSE Nominal[v]

Capable(f, v) == Tier[v] >= FloorTier[f]

\* The first of the cheapest in the order wired, as min() takes it.
Cheapest(eligible) ==
  LET candidates == {n \in DOMAIN Implementers :
                       /\ Implementers[n] \in eligible
                       /\ \A w \in eligible : CostOf(Implementers[n]) <= CostOf(w)}
  IN  Implementers[Min(candidates)]

\* _assign.  The flow's first route event is the recorded choice; it stands while its version
\* is active.
\* Mutant: it stands whatever has become of its version.
Reusable_Always(f) == At(f, "route") # {}
Reusable(f) ==
  /\ At(f, "route") # {}
  /\ status_of(trail[f][Min(At(f, "route"))].chosen) = "active"

\* The implementers that may be chosen.
Eligible(f) == {v \in Range(Implementers) : status_of(v) = "active" /\ Capable(f, v)}

\* start(), or _reenter() of a flow that has not passed, as far as _assign.  The specify or the
\* reenter event is read by no one else, so that appending it and routing are one step.
Opening == [stage |-> "open"]

CallOn(f, events, v) ==
  /\ trail' = [trail EXCEPT ![f] = @ \o events]
  /\ pc' = [pc EXCEPT ![f] = "govern"]
  /\ using' = [using EXCEPT ![f] = [version |-> v, since |-> Len(book)]]
  /\ UNCHANGED <<book, clock>>

MayOpen(f) == pc[f] = "idle" /\ ~Passed(f) /\ Cardinality(At(f, "open")) < MaxCalls[f]

StartUnrouted(f) == MayOpen(f) /\ f \notin Routed /\ CallOn(f, <<Opening>>, Default)

StartReusing(f) ==
  /\ MayOpen(f) /\ f \in Routed /\ Reusable(f)
  /\ CallOn(f, <<Opening>>, trail[f][Min(At(f, "route"))].chosen)

StartRouting(f) ==
  /\ MayOpen(f) /\ f \in Routed /\ ~Reusable(f) /\ Eligible(f) # {}
  /\ LET chosen == Cheapest(Eligible(f))
     IN  CallOn(f, <<Opening, [stage |-> "route", chosen |-> chosen]>>, chosen)

\* NoCapableImplementer: raised, and no choice is recorded.
StartRefused(f) ==
  /\ MayOpen(f) /\ f \in Routed /\ ~Reusable(f) /\ Eligible(f) = {}
  /\ Emit(f, Opening)
  /\ UNCHANGED <<book, clock, pc, using>>

\* _govern, whose block ends the call, and the beginning of _do_item: a recorded verdict is
\* returned, an unverified output is judged, else work is done.
Govern(f, allow) ==
  /\ pc[f] = "govern"
  /\ Emit(f, [stage |-> "gate", allow |-> allow])
  /\ Goto(f, CASE ~allow \/ HasVerdict(f) -> "idle"
               [] allow /\ HasUnverified(f) -> "verify"
               [] OTHER -> "execute")
  /\ UNCHANGED <<book, clock>>

\* The execute marker.  A routed one is tagged with the implementer; another carries the
\* version of whoever made the output, and an edited output was made by the human.
Producers(f) == IF f \in Routed THEN {using[f].version} ELSE {Default, Injector}

Execute(f, v) ==
  /\ pc[f] = "execute" /\ v \in Producers(f)
  /\ v = Injector => At(f, "execute") = {}
  /\ Emit(f, [stage |-> "execute", version |-> v])
  /\ Goto(f, "verify")
  /\ UNCHANGED <<book, clock>>

\* The marker's `attempt`: its place among the item's markers.
Attempt(f) == Cardinality(At(f, "execute")) - 1

\* The verdict.  A return within the revisions allowed sends the call back to the executor.
Verify(f, decision) ==
  /\ pc[f] = "verify"
  /\ Emit(f, [stage |-> "verify", decision |-> decision])
  /\ Goto(f, IF decision = "return" /\ Attempt(f) < MaxRevisions THEN "execute" ELSE "idle")
  /\ UNCHANGED <<book, clock>>

\* The call dies, or a role raises.
Cut(f) ==
  /\ pc[f] # "idle"
  /\ Goto(f, "idle")
  /\ UNCHANGED <<book, clock, trail>>

\* The step of a call of f.
CallStep(f) ==
  \/ StartUnrouted(f) \/ StartReusing(f) \/ StartRouting(f) \/ StartRefused(f)
  \/ \E allow \in BOOLEAN : Govern(f, allow)
  \/ \E v \in Versions : Execute(f, v)
  \/ \E decision \in Decisions : Verify(f, decision)
  \/ Cut(f)
==============================================================================
