---------------------------- MODULE HandbrakeProofs ----------------------------
(***************************************************************************)
(* What Handbrake guarantees for any plans, seats, revisions and bounds,   *)
(* and however often its calls are cut short.                              *)
(***************************************************************************)
EXTENDS Handbrake, PlaceTheorems, TLAPS

------------------------------------------------------------------------------
(* The inductive invariants. *)

\* The steps of a call that have a work item, and those at which the item is worked on.
Working == {"produce", "mark", "perform", "act", "complete", "verify"}
AtItem == Working \cup {"gated", "checkpoint", "resume", "resumed"}

\* What the trail says of an attempt that is to be taken up.
Marked ==
  \A n \in DOMAIN log : log[n].stage \in {"execute", "verify"} =>
    log[n].item \in Items /\ log[n].attempt <= MaxRevisions /\ log[n].output # NoOutput

TypeInv ==
  /\ TypeOK
  /\ Marked
  /\ pc \in AtItem => index \in Items
  /\ pc \in Working \ {"produce"} => output # NoOutput

\* The last event before place n that opened a call is a resume of item i.
ResumedAt(n, i) ==
  \E m \in 1 .. n - 1 :
    /\ log[m].stage = "resume" /\ log[m].item = i
    /\ \A k \in m + 1 .. n - 1 : log[k].stage \notin {"specify", "reenter", "resume"}

\* There is a pause at item i before place n.
PausedAt(n, i) == \E m \in 1 .. n - 1 : log[m].stage = "breakpoint" /\ log[m].item = i

ResumedNow(i) == ResumedAt(Len(log) + 1, i)
PausedNow(i) == PausedAt(Len(log) + 1, i)

TrailApproved ==
  \A n \in DOMAIN log :
    /\ log[n].stage = "execute" /\ Restricted(log[n].item) => ResumedAt(n, log[n].item)
    /\ log[n].stage = "resume" => PausedAt(n, log[n].item)

ApprovalInv ==
  /\ TrailApproved
  /\ pc \in Working \cup {"resumed"} /\ Restricted(index) => ResumedNow(index)
  /\ pc \in {"checkpoint", "resume"} => PausedNow(index)
  /\ saved # 0 => PausedNow(saved)

\* Some verdict on item i was a pass; so were all before it.
HasPass(i) ==
  \E n \in DOMAIN log : log[n].stage = "verify" /\ log[n].item = i /\ log[n].decision = "pass"
Done(i) == \A j \in 1 .. i - 1 : HasPass(j)

\* A pass is its item's last verdict, and whatever is marked has everything before it done.
TrailOrdered ==
  \A n \in DOMAIN log :
    /\ log[n].stage = "verify" /\ log[n].decision = "pass" =>
         \A m \in n + 1 .. Len(log) : ~(log[m].stage = "verify" /\ log[m].item = log[n].item)
    /\ log[n].stage = "execute" => Done(log[n].item)

OrderInv ==
  /\ TrailOrdered
  /\ pc \in AtItem \cup {"item"} => Done(index)
  /\ pc \in Working => ~HasPass(index)
  /\ saved # 0 => Done(saved)
  /\ returned = "pass" => Done(Len(plan) + 1)

\* The action event of item i's output id is before place n.
ActedAt(n, i, id) ==
  \E m \in 1 .. n - 1 : log[m].stage = "act" /\ log[m].item = i /\ log[m].output.id = id

EffectInv ==
  /\ \A i \in Items, id \in OutputIds :
       ledger[<<i, id>>].status = "completed" => ActedAt(Len(log) + 1, i, id)
  /\ pc = "complete" => ActedAt(Len(log) + 1, index, output.id)
  /\ pc = "verify" => ledger[Key].status = "completed"
  /\ \A n \in DOMAIN log : log[n].stage = "verify" =>
       /\ ledger[<<log[n].item, log[n].output.id>>].status = "completed"
       /\ ActedAt(n, log[n].item, log[n].output.id)

\* The last pause was at item i.
LastPause(i) ==
  \E m \in DOMAIN log :
    /\ log[m].stage = "breakpoint" /\ log[m].item = i
    /\ \A k \in m + 1 .. Len(log) : log[k].stage # "breakpoint"

PauseInv ==
  /\ pc # "idle" => returned = "nothing"
  /\ pc = "checkpoint" => LastPause(index)
  /\ returned = "paused" => LastPause(saved)

\* The last gate of item i before place n is at g; what stood there had been cleared by n.
GateAt(n, i, g) ==
  /\ log[g].stage = "gate" /\ log[g].item = i
  /\ \A k \in g + 1 .. n - 1 : ~(log[k].stage = "gate" /\ log[k].item = i)
Cleared(n, i, g) ==
  \A b \in 1 .. g - 1 : log[b].stage = "set_breakpoint" /\ log[b].item \in {0, i} =>
    \E m \in 1 .. n - 1 : log[m].stage = "clear_breakpoint" /\ log[m].bp = log[b].bp

HonouredAt(n, i) ==
  ResumedAt(n, i) \/ \E g \in 1 .. n - 1 : GateAt(n, i, g) /\ Cleared(n, i, g)

HonourInv ==
  /\ \A n \in DOMAIN log : log[n].stage = "execute" => HonouredAt(n, log[n].item)
  /\ pc \in Working \cup {"resumed"} => HonouredAt(Len(log) + 1, index)
  /\ pc = "gated" => \E g \in 1 .. Len(log) : GateAt(Len(log) + 1, index, g)

\* Item i has not been executed; output o is an edit injected against it.
Unworked(i) == \A m \in DOMAIN log : ~(log[m].stage = "execute" /\ log[m].item = i)
InjectedFor(o, i) ==
  \E e \in DOMAIN log : log[e].stage = "inject" /\ log[e].item = i /\ log[e].edit = o

\* An edit carries its place; what is not the executor's was injected for the item it was marked
\* on and is that item's first execution; so is what the driver is about to mark.
InjectionInv ==
  /\ \A e \in DOMAIN log : log[e].stage = "inject" /\ log[e].edit # NoOutput =>
       log[e].edit.by \in Seats /\ log[e].edit.n = e
  /\ \A n \in DOMAIN log : log[n].stage = "execute" /\ log[n].output.by # "Executor" =>
       /\ InjectedFor(log[n].output, log[n].item)
       /\ \A m \in 1 .. n - 1 : ~(log[m].stage = "execute" /\ log[m].item = log[n].item)
  /\ pc = "produce" /\ injection # NoOutput => Unworked(index) /\ InjectedFor(injection, index)
  /\ pc = "mark" /\ output.by # "Executor" => Unworked(index) /\ InjectedFor(output, index)

\* No seat is the executor's: an edit and a run of the executor are never the same artifact.
SeatsApart == "Executor" \notin Seats

------------------------------------------------------------------------------
(* The log. *)

\* The bounds are numbers.
LEMMA Bounds ==
  /\ MaxRevisions \in Nat /\ MaxCalls \in Nat /\ MaxFaults \in Nat
  /\ MaxInjects \in Nat /\ MaxBreakpoints \in Nat
BY BoundsAssumption

\* A plan is a sequence of levels.
LEMMA PlanShape ==
  ASSUME plan \in Plans
  PROVE  plan \in Seq(Levels) /\ Len(plan) \in Nat /\ Items = 1 .. Len(plan)
BY PlansAssumption DEF Items

\* An event appended is the last one; the others stay.
LEMMA Appended ==
  ASSUME log \in Seq(Event), NEW e \in Event, log' = Append(log, e)
  PROVE  /\ log' \in Seq(Event)
         /\ Len(log) \in Nat /\ Len(log') = Len(log) + 1
         /\ DOMAIN log = 1 .. Len(log) /\ DOMAIN log' = 1 .. Len(log) + 1
         /\ \A n \in 1 .. Len(log) : log'[n] = log[n]
         /\ log'[Len(log) + 1] = e
OBVIOUS

\* What an execute and a verify event carry.
LEMMA EventFields ==
  ASSUME NEW e \in Event
  PROVE  /\ e.stage = "execute" => e.item \in Nat /\ e.attempt \in Nat /\ e.output \in Output
         /\ e.stage = "verify" => /\ e.item \in Nat /\ e.attempt \in Nat /\ e.output \in Output
                                  /\ e.decision \in Decisions
         /\ e.stage = "inject" => e.edit \in Output
         /\ e.stage = "set_breakpoint" => e.bp \in Nat
BY DEF Event

\* The executions and the verdicts of an item are finitely many places of the log.
LEMMA PlacesOf ==
  ASSUME log \in Seq(Event), NEW i
  PROVE  /\ Executes(i) \subseteq 1 .. Len(log) /\ IsFiniteSet(Executes(i))
         /\ Verifies(i) \subseteq 1 .. Len(log) /\ IsFiniteSet(Verifies(i))
<1>1. IsFiniteSet(1 .. Len(log)) /\ DOMAIN log = 1 .. Len(log)
  BY FS_Interval
<1>2. Executes(i) \subseteq 1 .. Len(log) /\ Verifies(i) \subseteq 1 .. Len(log)
  BY <1>1 DEF Executes, Verifies, Of
<1> QED
  BY <1>1, <1>2, FS_Subset

\* The marker taken up is the item's last.
LEMMA MarkerTakenUp ==
  ASSUME log \in Seq(Event), NEW i, HasUnverified(i)
  PROVE  \E n \in DOMAIN log :
           log[n].stage = "execute" /\ log[n].item = i /\ LastMarker(i) = log[n]
<1>1. Executes(i) # {}
  BY PlacesOf, FS_EmptySet, FS_CardinalityType DEF HasUnverified
<1>2. Max(Executes(i)) \in Executes(i)
  <2>1. Len(log) \in Nat /\ Executes(i) \subseteq 1 .. Len(log)
    BY PlacesOf
  <2> QED
    BY <1>1, <2>1, Greatest
<1> QED
  BY <1>2 DEF LastMarker, Executes, Of

\* The verdict returned is the item's last.
LEMMA VerdictReturned ==
  ASSUME log \in Seq(Event), NEW i, HasVerdict(i)
  PROVE  \E n \in DOMAIN log :
           /\ log[n].stage = "verify" /\ log[n].item = i /\ LatestVerdict(i) = log[n].decision
           /\ \A m \in n + 1 .. Len(log) : ~(log[m].stage = "verify" /\ log[m].item = i)
<1>1. Max(Verifies(i)) \in Verifies(i) /\ \A k \in Verifies(i) : Max(Verifies(i)) >= k
  BY PlacesOf, Greatest DEF HasVerdict
<1>2. \A m \in Max(Verifies(i)) + 1 .. Len(log) : m \notin Verifies(i)
  BY <1>1, PlacesOf
<1>3. DOMAIN log = 1 .. Len(log) /\ Len(log) \in Nat
  OBVIOUS
<1>4. \A m \in Max(Verifies(i)) + 1 .. Len(log) : m \in DOMAIN log
  BY <1>1, <1>3, PlacesOf
<1> QED
  BY <1>1, <1>2, <1>4 DEF LatestVerdict, Verifies, Of

\* Where a re-entry starts: all items before have passed.
LEMMA Unfinished ==
  ASSUME plan \in Plans
  PROVE  /\ FirstUnfinished \in 1 .. Len(plan) + 1
         /\ \A j \in 1 .. FirstUnfinished - 1 : Passed(j)
<1> DEFINE S == {i \in 1 .. Len(plan) + 1 : i > Len(plan) \/ ~Passed(i)}
<1>1. Len(plan) \in Nat
  BY PlanShape
<1>2. Len(plan) + 1 \in S
  BY <1>1
<1>3. Min(S) \in S /\ \A k \in S : Min(S) <= k
  <2>1. S \in SUBSET (1 .. Len(plan) + 1) /\ S # {} /\ Len(plan) + 1 \in Nat
    BY <1>1, <1>2
  <2> HIDE DEF S
  <2> QED
    BY <1>1, <2>1, Least
<1>4. \A j \in 1 .. Min(S) - 1 : Passed(j)
  BY <1>1, <1>3
<1> QED
  BY <1>3, <1>4 DEF FirstUnfinished


------------------------------------------------------------------------------
(* Types. *)

\* An event that is well-formed, and no marker or verdict, keeps the trail typed.
LEMMA TrailTyped ==
  ASSUME TypeInv, NEW e \in Event, Emit(e), plan' = plan,
         e.stage \in {"execute", "verify"} =>
           e.item \in Items /\ e.attempt <= MaxRevisions /\ e.output # NoOutput
  PROVE  log' \in Seq(Event) /\ Marked'
<1>1. log \in Seq(Event) /\ log' = Append(log, e)
  BY DEF TypeInv, TypeOK, Emit
<1>2. /\ log' \in Seq(Event)
      /\ Len(log) \in Nat
      /\ DOMAIN log = 1 .. Len(log) /\ DOMAIN log' = 1 .. Len(log) + 1
      /\ \A n \in 1 .. Len(log) : log'[n] = log[n]
      /\ log'[Len(log) + 1] = e
  BY <1>1, Appended
<1>3. Items' = Items
  BY DEF Items
<1>4. ASSUME NEW n \in DOMAIN log', log'[n].stage \in {"execute", "verify"}
      PROVE  log'[n].item \in Items /\ log'[n].attempt <= MaxRevisions /\ log'[n].output # NoOutput
  <2>1. CASE n \in 1 .. Len(log)
    BY <1>2, <1>4, <2>1 DEF TypeInv, Marked
  <2>2. CASE n = Len(log) + 1
    BY <1>2, <1>4, <2>2
  <2> QED
    BY <1>2, <2>1, <2>2
<1> QED
  BY <1>2, <1>3, <1>4 DEF Marked

\* The initial states are typed.
LEMMA TypeInit == ASSUME Init PROVE TypeInv
<1>1. plan \in Plans /\ plan \in Seq(Levels) /\ Len(plan) \in Nat /\ Items = 1 .. Len(plan)
  BY PlanShape DEF Init
<1>2. log = <<>> /\ log \in Seq(Event) /\ DOMAIN log = {}
  BY DEF Init
<1>3. ledger \in [Items \X OutputIds -> Row]
  BY DEF Init, NoRow, Row, Output
<1> QED
  BY <1>1, <1>2, <1>3, Bounds
     DEF Init, TypeInv, TypeOK, Marked, Stages, AtItem, Working, Output

\* Calling start() or resume().
LEMMA TypeCalls == ASSUME TypeInv, Start \/ Resume PROVE TypeInv'
<1>1. plan \in Plans /\ Len(plan) \in Nat /\ Items = 1 .. Len(plan) /\ Items' = Items
  BY PlanShape DEF TypeInv, TypeOK, Start, Resume, Call, Items
<1>2. CASE Start
  BY <1>1, <1>2, Bounds
     DEF TypeInv, TypeOK, Marked, Start, Call, durable, Stages, AtItem, Working
<1>3. CASE Resume
  BY <1>1, <1>3, Bounds
     DEF TypeInv, TypeOK, Marked, Resume, Call, durable, Stages, AtItem, Working
<1> QED
  BY <1>2, <1>3

\* Going on to the next item or returning after the last.
LEMMA TypeNextItem ==
  ASSUME TypeInv, pc \in AtItem, NEW verdict \in Decisions, NextItem(verdict),
         log' \in Seq(Event), Marked', Quiet
  PROVE  TypeInv'
<1>1. /\ plan \in Plans /\ Len(plan) \in Nat /\ Items = 1 .. Len(plan) /\ Items' = Items
      /\ plan' = plan
  BY PlanShape DEF TypeInv, TypeOK, NextItem, Hold, Items
<1>2. index \in 1 .. Len(plan)
  BY <1>1 DEF TypeInv
<1>3. saved' = saved /\ ledger' = ledger /\ produced' = produced
  BY DEF Quiet
<1>4. CASE verdict # "pass" \/ index = Len(plan)
  <2>1. Return(verdict) /\ UNCHANGED <<plan, allowed, index, bounds>>
    BY <1>4 DEF NextItem
  <2> QED
    BY <1>1, <1>2, <1>3, <2>1, Bounds
       DEF TypeInv, TypeOK, Return, bounds, Stages, AtItem, Working, Output
<1>5. CASE ~(verdict # "pass" \/ index = Len(plan))
  <2>1. /\ pc' = "item" /\ index' = index + 1
        /\ attempt' = 0 /\ output' = NoOutput /\ injection' = NoOutput
        /\ Hold
    BY <1>5 DEF NextItem
  <2>2. index' \in 1 .. Len(plan) + 1
    BY <1>1, <1>2, <2>1
  <2> QED
    BY <1>1, <1>3, <2>1, <2>2, Bounds
       DEF TypeInv, TypeOK, Hold, bounds, Stages, AtItem, Working, Output
<1> QED
  BY <1>4, <1>5

\* The prefix, the re-entry and the resume record.
LEMMA TypePrefix ==
  ASSUME TypeInv, Specify \/ Decompose \/ ReturnRecorded \/ Reenter \/ LogResume
  PROVE  TypeInv'
<1> USE Bounds DEF TypeInv, TypeOK, Stages, AtItem, Working
<1>1. /\ plan \in Plans /\ Len(plan) \in Nat /\ Items = 1 .. Len(plan) /\ Items' = Items
      /\ plan' = plan
  BY PlanShape DEF Specify, Decompose, ReturnRecorded, Reenter, LogResume, Hold, Items
<1>2. CASE Specify
  <2>1. [stage |-> "specify"] \in Event
    BY DEF Event
  <2>2. log' \in Seq(Event) /\ Marked'
    BY <1>1, <1>2, <2>1, TrailTyped DEF Specify
  <2> QED
    BY <1>1, <1>2, <2>2 DEF Specify, Quiet, Hold, local, bounds
<1>3. CASE Decompose
  <2>1. [stage |-> "decompose"] \in Event
    BY DEF Event
  <2>2. log' \in Seq(Event) /\ Marked'
    BY <1>1, <1>3, <2>1, TrailTyped DEF Decompose
  <2> QED
    BY <1>1, <1>3, <2>2 DEF Decompose, Quiet, Hold, local, bounds
<1>4. CASE ReturnRecorded
  <2>1. Len(plan) \in 1 .. FirstUnfinished - 1
    BY <1>1, <1>4, Unfinished, EmptySeq DEF ReturnRecorded
  <2>2. LatestVerdict(Len(plan)) = "pass"
    BY <2>1, Unfinished DEF Passed
  <2> QED
    BY <1>1, <1>4, <2>2 DEF ReturnRecorded, Return, durable, bounds, Marked, Decisions, Output
<1>5. CASE Reenter
  <2>1. FirstUnfinished \in 1 .. Len(plan) + 1
    BY <1>1, Unfinished
  <2>2. [stage |-> "reenter", item |-> FirstUnfinished] \in Event
    BY <1>1, <2>1 DEF Event
  <2>3. log' \in Seq(Event) /\ Marked'
    BY <1>1, <1>5, <2>2, TrailTyped DEF Reenter
  <2> QED
    BY <1>1, <1>5, <2>1, <2>3 DEF Reenter, Quiet, Hold, bounds
<1>6. CASE LogResume
  <2>1. [stage |-> "resume", item |-> index] \in Event
    BY <1>1 DEF Event
  <2>2. log' \in Seq(Event) /\ Marked'
    BY <1>1, <1>6, <2>1, TrailTyped DEF LogResume
  <2> QED
    BY <1>1, <1>6, <2>2 DEF LogResume, Quiet, Hold, local, bounds
<1> QED
  BY <1>2, <1>3, <1>4, <1>5, <1>6

\* The gate, the pause, and a call over an empty plan.
LEMMA TypeGate ==
  ASSUME TypeInv, AssertFails \/ Gate \/ Pause \/ SaveCheckpoint
  PROVE  TypeInv'
<1> USE Bounds DEF TypeInv, TypeOK, Stages, AtItem, Working
<1>1. /\ plan \in Plans /\ Len(plan) \in Nat /\ Items = 1 .. Len(plan) /\ Items' = Items
      /\ plan' = plan
  BY PlanShape DEF AssertFails, Gate, Pause, SaveCheckpoint, Hold, Items
<1>2. CASE AssertFails
  BY <1>1, <1>2 DEF AssertFails, Return, durable, bounds, Marked, Output
<1>3. CASE Gate
  <2>1. index \in Items
    BY <1>1, <1>3 DEF Gate
  <2>2. [stage |-> "gate", item |-> index, allow |-> index \in allowed] \in Event
    BY <1>1 DEF Event
  <2>3. log' \in Seq(Event) /\ Marked'
    BY <1>1, <1>3, <2>2, TrailTyped DEF Gate
  <2>4. CASE index \in allowed
    BY <1>1, <1>3, <2>1, <2>3, <2>4 DEF Gate, Quiet, Hold, local, bounds
  <2>5. CASE index \notin allowed
    BY <1>1, <1>3, <2>1, <2>3, <2>5 DEF Gate, Return, Quiet, bounds, Output
  <2> QED
    BY <2>4, <2>5
<1>4. CASE Pause
  <2>1. [stage |-> "breakpoint", item |-> index] \in Event
    BY <1>1 DEF Event
  <2>2. log' \in Seq(Event) /\ Marked'
    BY <1>1, <1>4, <2>1, TrailTyped DEF Pause
  <2> QED
    BY <1>1, <1>4, <2>2 DEF Pause, Quiet, Hold, local, bounds
<1>5. CASE SaveCheckpoint
  BY <1>1, <1>5 DEF SaveCheckpoint, Return, bounds, Marked, Output
<1> QED
  BY <1>2, <1>3, <1>4, <1>5

\* The injection a resume takes with it is an output, or none.
LEMMA InjectionTaken ==
  ASSUME log \in Seq(Event), NEW i
  PROVE  LatestInjection(i) \in Output
<1> DEFINE made == Of("inject", i)
<1>1. CASE made = {}
  BY <1>1 DEF LatestInjection, Output
<1>2. CASE made # {}
  <2>1. made \subseteq 1 .. Len(log) /\ Len(log) \in Nat /\ DOMAIN log = 1 .. Len(log)
    BY DEF Of
  <2>2. Max(made) \in made
    <3> HIDE DEF made
    <3> QED
      BY <1>2, <2>1, Greatest
  <2>3. log[Max(made)] \in Event /\ log[Max(made)].stage = "inject"
    BY <2>1, <2>2 DEF Of
  <2>4. log[Max(made)].edit \in Output
    BY <2>3, EventFields
  <2> QED
    BY <1>2, <2>4 DEF LatestInjection
<1> QED
  BY <1>1, <1>2

\* Entering an item: its verdict, its output taken up, or fresh work.
LEMMA TypeDoItem ==
  ASSUME TypeInv, pc \in AtItem, NEW inject \in Output, DoItem(inject)
  PROVE  TypeInv'
<1> USE Bounds DEF TypeInv, TypeOK
<1>1. /\ plan \in Plans /\ Len(plan) \in Nat /\ Items = 1 .. Len(plan) /\ Items' = Items
      /\ plan' = plan /\ log' = log /\ Marked'
  BY PlanShape DEF DoItem, NextItem, Hold, durable, Items, Marked
<1>2. CASE HasVerdict(index) /\ NextItem(LatestVerdict(index))
  <2>1. LatestVerdict(index) \in Decisions
    BY <1>2, VerdictReturned, EventFields
  <2> QED
    BY <1>1, <1>2, <2>1, TypeNextItem DEF DoItem, durable, Quiet
<1>3. CASE HasUnverified(index) /\ ~HasVerdict(index)
  <2>1. PICK n \in DOMAIN log : log[n].stage = "execute" /\ LastMarker(index) = log[n]
    BY <1>3, MarkerTakenUp
  <2>2. LastMarker(index).attempt \in 0 .. MaxRevisions
    BY <2>1, EventFields DEF Marked
  <2>3. LastMarker(index).output \in Output /\ LastMarker(index).output # NoOutput
    BY <2>1, EventFields DEF Marked
  <2>4. /\ output' = LastMarker(index).output /\ attempt' = LastMarker(index).attempt
        /\ pc' = "perform"
        /\ Hold /\ UNCHANGED <<index, injection>>
    BY <1>3 DEF DoItem, Reconstructed
  <2> QED
    BY <1>1, <2>2, <2>3, <2>4 DEF DoItem, Hold, durable, bounds, Stages, AtItem, Working
<1>4. CASE ~HasUnverified(index) /\ ~HasVerdict(index)
  <2>1. /\ injection' = inject /\ attempt' = 0
        /\ pc' = "produce"
        /\ Hold /\ UNCHANGED <<index, output>>
    BY <1>4 DEF DoItem
  <2> QED
    BY <1>1, <2>1 DEF DoItem, Hold, durable, bounds, Stages, AtItem, Working
<1> QED
  BY <1>2, <1>3, <1>4 DEF DoItem

\* Both entries.
LEMMA TypeEntry == ASSUME TypeInv, Advance \/ TakeOver PROVE TypeInv'
<1>1. NoOutput \in Output /\ LatestInjection(index) \in Output
  BY InjectionTaken DEF Output, TypeInv, TypeOK
<1> QED
  BY <1>1, TypeDoItem DEF Advance, TakeOver, AtItem

\* Producing an output and marking it.
LEMMA TypeProduce == ASSUME TypeInv, UseInjection \/ Execute \/ Mark PROVE TypeInv'
<1> USE Bounds DEF TypeInv, TypeOK, Stages, AtItem, Working
<1>1. /\ plan \in Plans /\ Len(plan) \in Nat /\ Items = 1 .. Len(plan) /\ Items' = Items
      /\ plan' = plan /\ index \in Items
  BY PlanShape DEF UseInjection, Execute, Mark, Hold, Items
<1>2. CASE UseInjection
  BY <1>1, <1>2 DEF UseInjection, Hold, durable, bounds, Marked
<1>3. CASE Execute
  <2>1. /\ produced' = [produced EXCEPT ![index] = @ + 1]
        /\ output' = [id |-> "out-item", by |-> "Executor", n |-> produced[index] + 1]
    BY <1>3 DEF Execute
  <2>2. produced[index] \in Nat
    BY <1>1
  <2>3. output' \in Output /\ output' # NoOutput
    BY <2>1, <2>2 DEF Output, OutputIds, Actors, NoOutput
  <2>4. produced' \in [Items -> Nat]
    BY <1>1, <2>1, <2>2
  <2> QED
    BY <1>1, <1>3, <2>3, <2>4 DEF Execute, Hold, bounds, Marked
<1>4. CASE Mark
  <2>1. [stage |-> "execute", item |-> index, attempt |-> attempt, output |-> output] \in Event
    BY <1>1 DEF Event
  <2>2. output # NoOutput /\ attempt <= MaxRevisions
    BY <1>4 DEF Mark
  <2>3. log' \in Seq(Event) /\ Marked'
    BY <1>1, <1>4, <2>1, <2>2, TrailTyped DEF Mark
  <2> QED
    BY <1>1, <1>4, <2>2, <2>3 DEF Mark, Quiet, Hold, local, bounds
<1> QED
  BY <1>2, <1>3, <1>4

\* perform().
LEMMA TypePerform ==
  ASSUME TypeInv, EffectBlocked \/ EffectCached \/ BeginEffect \/ Act \/ CompleteEffect
  PROVE  TypeInv'
<1> USE Bounds DEF TypeInv, TypeOK, Stages, AtItem, Working
<1>1. /\ plan \in Plans /\ Len(plan) \in Nat /\ Items = 1 .. Len(plan) /\ Items' = Items
      /\ plan' = plan /\ index \in Items
  BY PlanShape DEF EffectBlocked, EffectCached, BeginEffect, Act, CompleteEffect, Hold, Items
<1>2. CASE EffectBlocked
  BY <1>1, <1>2 DEF EffectBlocked, Return, durable, bounds, Marked, Output
<1>3. CASE EffectCached
  BY <1>1, <1>3 DEF EffectCached, Hold, durable, local, bounds, Marked
<1>4. CASE BeginEffect
  <2>1. ledger' = [ledger EXCEPT ![Key].status = "in_flight"]
    BY <1>4 DEF BeginEffect
  <2>2. ledger' \in [Items \X OutputIds -> Row]
    BY <2>1 DEF Row
  <2> QED
    BY <1>1, <1>4, <2>2 DEF BeginEffect, Hold, local, bounds, Marked
<1>5. CASE Act
  <2>1. [stage |-> "act", item |-> index, output |-> output] \in Event
    BY <1>1 DEF Event
  <2>2. log' \in Seq(Event) /\ Marked'
    BY <1>1, <1>5, <2>1, TrailTyped DEF Act
  <2> QED
    BY <1>1, <1>5, <2>2 DEF Act, Quiet, Hold, local, bounds
<1>6. CASE CompleteEffect
  <2>1. ledger' = [ledger EXCEPT ![Key] = [status |-> "completed", output |-> output]]
    BY <1>6 DEF CompleteEffect
  <2>2. ledger' \in [Items \X OutputIds -> Row]
    BY <2>1 DEF Row
  <2> QED
    BY <1>1, <1>6, <2>2 DEF CompleteEffect, Hold, local, bounds, Marked
<1> QED
  BY <1>2, <1>3, <1>4, <1>5, <1>6

\* The verdict.
LEMMA TypeVerify ==
  ASSUME TypeInv, NotIndependent \/ \E decision \in Decisions : Verify(decision)
  PROVE  TypeInv'
<1> USE Bounds DEF TypeInv, TypeOK, Stages, AtItem, Working
<1>1. /\ plan \in Plans /\ Len(plan) \in Nat /\ Items = 1 .. Len(plan) /\ Items' = Items
      /\ plan' = plan /\ index \in Items
  BY PlanShape DEF NotIndependent, Verify, NextItem, Hold, Items
<1>2. CASE NotIndependent
  BY <1>1, <1>2 DEF NotIndependent, Return, durable, bounds, Marked, Output
<1>3. ASSUME NEW decision \in Decisions, Verify(decision) PROVE TypeInv'
  <2> DEFINE e == [stage |-> "verify", item |-> index, attempt |-> attempt, output |-> output,
                   decision |-> decision]
  <2>1. e \in Event
    BY <1>1 DEF Event
  <2>2. output # NoOutput /\ attempt <= MaxRevisions /\ Emit(e) /\ Quiet
    BY <1>3 DEF Verify
  <2>3. log' \in Seq(Event) /\ Marked'
    BY <1>1, <2>1, <2>2, TrailTyped
  <2>4. CASE decision = "return" /\ MayRevise
    <3>1. /\ attempt' = attempt + 1 /\ injection' = NoOutput
          /\ pc' = "produce"
          /\ Hold /\ UNCHANGED <<index, output>>
      BY <1>3, <2>4 DEF Verify, Consumed
    <3>2. attempt' \in 0 .. MaxRevisions
      BY <2>4, <3>1 DEF MayRevise
    <3> QED
      BY <1>1, <2>2, <2>3, <3>1, <3>2 DEF Quiet, Hold, bounds, Output
  <2>5. CASE ~(decision = "return" /\ MayRevise)
    <3>1. NextItem(decision) /\ pc \in AtItem
      BY <1>3, <2>5 DEF Verify
    <3> QED
      BY <2>2, <2>3, <3>1, TypeNextItem
  <2> QED
    BY <2>4, <2>5
<1> QED
  BY <1>2, <1>3

\* The human's calls, and a cut.
LEMMA TypeOthers ==
  ASSUME TypeInv, Inject \/ InjectRefused \/ SetBreakpoint \/ ClearBreakpoint \/ Cut
  PROVE  TypeInv'
<1> USE Bounds DEF TypeInv, TypeOK
<1>1. plan \in Plans /\ Len(plan) \in Nat /\ Items = 1 .. Len(plan) /\ saved \in Nat
      /\ Len(log) \in Nat /\ DOMAIN log = 1 .. Len(log)
  BY PlanShape
<1>2. ASSUME NEW e \in Event, e.stage \notin {"execute", "verify"}, NEW kinds, NEW bound,
             Human(e, kinds, bound)
      PROVE  TypeInv'
  <2>1. plan' = plan /\ Items' = Items /\ Emit(e)
    BY <1>2 DEF Human, Hold, Items
  <2>2. log' \in Seq(Event) /\ Marked'
    BY <1>2, <2>1, TrailTyped
  <2> QED
    BY <1>1, <1>2, <2>1, <2>2 DEF Human, Quiet, Hold, local, bounds
<1>3. CASE Inject
  <2>1. \A seat \in Seats, id \in OutputIds :
          [id |-> id, by |-> seat, n |-> Len(log) + 1] \in Output
    BY <1>1 DEF Output, Actors
  <2>2. \A edit \in Output : [stage |-> "inject", item |-> saved, edit |-> edit] \in Event
    BY <1>1 DEF Event
  <2>3. NoOutput \in Output
    BY DEF Output
  <2> QED
    BY <1>2, <1>3, <2>1, <2>2, <2>3 DEF Inject, Injects
<1>4. CASE InjectRefused
  <2>1. [stage |-> "refused", item |-> saved] \in Event
    BY <1>1 DEF Event
  <2> QED
    BY <1>2, <1>4, <2>1 DEF InjectRefused, Injects
<1>5. CASE SetBreakpoint
  <2> DEFINE bps == {n \in DOMAIN log : log[n].stage = "set_breakpoint"}
  <2>1. IsFiniteSet(1 .. Len(log))
    <3>1. 1 \in Int /\ Len(log) \in Int
      BY <1>1
    <3> QED
      BY <3>1, FS_Interval
  <2>2. Cardinality(bps) \in Nat
    <3>1. bps \subseteq 1 .. Len(log)
      BY <1>1
    <3> HIDE DEF bps
    <3> QED
      BY <2>1, <3>1, FS_Subset, FS_CardinalityType
  <2>3. \A i \in {0} \cup Items :
          [stage |-> "set_breakpoint", item |-> i, bp |-> Cardinality(bps) + 1] \in Event
    BY <1>1, <2>2 DEF Event
  <2> QED
    BY <1>2, <1>5, <2>3 DEF SetBreakpoint, Breakpoints
<1>6. CASE ClearBreakpoint
  <2>1. PICK n \in DOMAIN log :
          Active(n) /\ Breakpoints([stage |-> "clear_breakpoint", bp |-> log[n].bp])
    BY <1>6 DEF ClearBreakpoint
  <2>2. log[n].bp \in Nat
    BY <2>1, EventFields DEF Active
  <2>3. [stage |-> "clear_breakpoint", bp |-> log[n].bp] \in Event
    BY <2>2 DEF Event
  <2> QED
    BY <1>2, <2>1, <2>3 DEF Breakpoints
<1>7. CASE Cut
  <2>1. Items' = Items
    BY <1>7 DEF Cut, Items
  <2> QED
    BY <1>1, <1>7, <2>1
       DEF Cut, Return, durable, Marked, Output, Stages, AtItem, Working
<1> QED
  BY <1>3, <1>4, <1>5, <1>6, <1>7

\* Every step preserves the types.
LEMMA TypeNext == ASSUME TypeInv, [Next]_vars PROVE TypeInv'
<1>1. CASE Next
  BY <1>1, TypeCalls, TypePrefix, TypeGate, TypeEntry, TypeProduce, TypePerform, TypeVerify,
     TypeOthers DEF Next, Step
<1>2. CASE UNCHANGED vars
  BY <1>2 DEF vars, durable, local, bounds, TypeInv, TypeOK, Marked, Items
<1> QED
  BY <1>1, <1>2

\* Every variable keeps its type, and a call that is at an item is at one of the plan's; the
\* attempt counter stays within max_revisions also when it comes from an old marker.
THEOREM TypeInvariance == Spec => []TypeInv
<1>1. Init => TypeInv
  BY TypeInit
<1>2. TypeInv /\ [Next]_vars => TypeInv'
  BY TypeNext
<1> QED
  BY <1>1, <1>2, PTL DEF Spec

\* Type correctness: TypeOK.
THEOREM TypeCorrect == Spec => []TypeOK
BY TypeInvariance, PTL DEF TypeInv

------------------------------------------------------------------------------
(* Approval. *)

\* A pause and a resume are not forgotten, but for a call that opens after the resume.
LEMMA NowKept ==
  ASSUME log \in Seq(Event), NEW e \in Event, Emit(e), NEW i
  PROVE  /\ PausedNow(i) => PausedNow(i)'
         /\ ResumedNow(i) /\ e.stage \notin {"specify", "reenter", "resume"} => ResumedNow(i)'
<1>1. /\ Len(log) \in Nat /\ Len(log') = Len(log) + 1
      /\ \A n \in 1 .. Len(log) : log'[n] = log[n]
      /\ log'[Len(log) + 1] = e
  BY Appended DEF Emit
<1>2. ASSUME PausedNow(i) PROVE PausedNow(i)'
  <2>1. PICK m \in 1 .. Len(log) : log[m].stage = "breakpoint" /\ log[m].item = i
    BY <1>1, <1>2 DEF PausedNow, PausedAt
  <2> QED
    BY <1>1, <2>1 DEF PausedNow, PausedAt
<1>3. ASSUME ResumedNow(i), e.stage \notin {"specify", "reenter", "resume"}
      PROVE  ResumedNow(i)'
  <2>1. PICK m \in 1 .. Len(log) :
          /\ log[m].stage = "resume" /\ log[m].item = i
          /\ \A k \in m + 1 .. Len(log) : log[k].stage \notin {"specify", "reenter", "resume"}
    BY <1>1, <1>3 DEF ResumedNow, ResumedAt
  <2>2. \A k \in m + 1 .. Len(log) + 1 : log'[k].stage \notin {"specify", "reenter", "resume"}
    BY <1>1, <1>3, <2>1
  <2> QED
    BY <1>1, <2>1, <2>2 DEF ResumedNow, ResumedAt
<1> QED
  BY <1>2, <1>3

\* What an event has to bring for the trail to stay approved.
LEMMA TrailApprovedKept ==
  ASSUME TypeInv, TrailApproved, NEW e \in Event, Emit(e), plan' = plan,
         e.stage = "execute" /\ Restricted(e.item) => ResumedNow(e.item),
         e.stage = "resume" => PausedNow(e.item)
  PROVE  TrailApproved'
<1>1. /\ log \in Seq(Event) /\ Len(log) \in Nat
      /\ DOMAIN log = 1 .. Len(log) /\ DOMAIN log' = 1 .. Len(log) + 1
      /\ \A n \in 1 .. Len(log) : log'[n] = log[n]
      /\ log'[Len(log) + 1] = e
  BY Appended DEF Emit, TypeInv, TypeOK
<1>2. ASSUME NEW n \in DOMAIN log'
      PROVE  (/\ log[n].stage = "execute" /\ Restricted(log[n].item) => ResumedAt(n, log[n].item)
              /\ log[n].stage = "resume" => PausedAt(n, log[n].item))'
  <2>1. n \in 1 .. Len(log) + 1
    BY <1>1
  <2>2. \A m \in 1 .. n - 1 : log'[m] = log[m]
    BY <1>1, <2>1
  <2>3. \A m \in 1 .. n - 1 : \A k \in m + 1 .. n - 1 : log'[k] = log[k]
    BY <2>2
  <2>4. CASE n \in 1 .. Len(log)
    <3>1. log'[n] = log[n]
      BY <1>1, <2>4
    <3>2. /\ log[n].stage = "execute" /\ Restricted(log[n].item) => ResumedAt(n, log[n].item)
          /\ log[n].stage = "resume" => PausedAt(n, log[n].item)
      BY <1>1, <2>4 DEF TrailApproved
    <3> QED
      BY <2>2, <2>3, <3>1, <3>2 DEF ResumedAt, PausedAt, Restricted
  <2>5. CASE n = Len(log) + 1
    <3>1. log'[n] = e
      BY <1>1, <2>5
    <3>2. /\ e.stage = "execute" /\ Restricted(e.item) => ResumedAt(n, e.item)
          /\ e.stage = "resume" => PausedAt(n, e.item)
      BY <2>5 DEF ResumedNow, PausedNow
    <3> QED
      BY <2>2, <2>3, <3>1, <3>2 DEF ResumedAt, PausedAt, Restricted
  <2> QED
    BY <2>1, <2>4, <2>5
<1> QED
  BY <1>2 DEF TrailApproved

\* Steps that append nothing.
LEMMA ApprovalQuiet ==
  ASSUME TypeInv, ApprovalInv, log' = log, plan' = plan,
         pc' \in Working \cup {"resumed"} =>
           index' = index /\ (pc \in Working \cup {"resumed"} \/ ~Restricted(index)),
         pc' \in {"checkpoint", "resume"} => PausedNow(index'),
         saved' # 0 => PausedNow(saved')
  PROVE  ApprovalInv'
<1>1. \A i : /\ Restricted(i)' <=> Restricted(i)
             /\ ResumedNow(i)' <=> ResumedNow(i)
             /\ PausedNow(i)' <=> PausedNow(i)
  BY DEF Restricted, ResumedNow, PausedNow, ResumedAt, PausedAt
<1>2. TrailApproved'
  BY DEF ApprovalInv, TrailApproved, Restricted, ResumedAt, PausedAt
<1> QED
  BY <1>1, <1>2 DEF ApprovalInv

\* Steps that append an event, other than a call's first and a pause.
LEMMA ApprovalEmit ==
  ASSUME TypeInv, ApprovalInv, NEW e \in Event, Emit(e), plan' = plan, saved' = saved,
         e.stage \notin {"resume"},
         e.stage = "execute" => pc \in Working /\ e.item = index,
         pc' \in Working \cup {"resumed"} =>
           /\ index' = index /\ pc \in Working \cup {"resumed"}
           /\ e.stage \notin {"specify", "reenter"},
         pc' \in {"checkpoint", "resume"} => pc' = pc /\ index' = index
  PROVE  ApprovalInv'
<1>1. log \in Seq(Event)
  BY DEF TypeInv, TypeOK
<1>2. \A i : Restricted(i)' <=> Restricted(i)
  BY DEF Restricted
<1>3. TrailApproved'
  BY TrailApprovedKept DEF ApprovalInv
<1>4. \A i : /\ PausedNow(i) => PausedNow(i)'
             /\ ResumedNow(i) /\ e.stage \notin {"specify", "reenter", "resume"} => ResumedNow(i)'
  BY <1>1, NowKept
<1> QED
  BY <1>2, <1>3, <1>4 DEF ApprovalInv

\* The driver's steps preserve the approvals.
LEMMA ApprovalStep == ASSUME TypeInv, ApprovalInv, Start \/ Resume \/ Step PROVE ApprovalInv'
<1> USE DEF AtItem, Working
<1>1. /\ index \in Nat /\ attempt \in Nat /\ output \in Output
      /\ 1 .. Len(plan) = Items
      /\ pc \in AtItem => index \in Items
  BY PlanShape, Bounds DEF TypeInv, TypeOK
<1>2. CASE Start
  BY <1>2, ApprovalQuiet DEF Start, Call, durable, ApprovalInv
<1>3. CASE Resume
  BY <1>3, ApprovalQuiet DEF Resume, Call, durable, ApprovalInv
<1>4. CASE Specify
  <2>1. [stage |-> "specify"] \in Event
    BY DEF Event
  <2> QED
    BY <1>4, <2>1, ApprovalEmit DEF Specify, Quiet, Hold
<1>5. CASE Decompose
  <2>1. [stage |-> "decompose"] \in Event
    BY DEF Event
  <2> QED
    BY <1>5, <2>1, ApprovalEmit DEF Decompose, Quiet, Hold
<1>6. CASE ReturnRecorded
  BY <1>6, ApprovalQuiet DEF ReturnRecorded, Return, durable, ApprovalInv
<1>7. CASE Reenter
  <2>1. FirstUnfinished \in Nat
    BY Unfinished, PlanShape DEF TypeInv, TypeOK
  <2>2. [stage |-> "reenter", item |-> FirstUnfinished] \in Event
    BY <2>1 DEF Event
  <2> QED
    BY <1>7, <2>2, ApprovalEmit DEF Reenter, Quiet, Hold
<1>8. CASE LogResume
  <2> DEFINE e == [stage |-> "resume", item |-> index]
  <2>1. e \in Event
    BY <1>1 DEF Event
  <2>2. Emit(e) /\ plan' = plan /\ index' = index /\ saved' = saved /\ pc' = "resumed"
    BY <1>8 DEF LogResume, Quiet, Hold, local
  <2>3. TrailApproved'
    BY <1>8, <2>1, <2>2, TrailApprovedKept DEF LogResume, ApprovalInv
  <2>4. /\ Len(log) \in Nat /\ Len(log') = Len(log) + 1 /\ log'[Len(log) + 1] = e
    BY <2>1, <2>2, Appended DEF Emit, TypeInv, TypeOK
  <2>5. ResumedNow(index)'
    BY <2>2, <2>4 DEF ResumedNow, ResumedAt
  <2>6. \A i : PausedNow(i) => PausedNow(i)'
    BY <2>1, <2>2, NowKept DEF TypeInv, TypeOK
  <2> QED
    BY <2>2, <2>3, <2>5, <2>6 DEF ApprovalInv
<1>9. CASE AssertFails
  BY <1>9, ApprovalQuiet DEF AssertFails, Return, durable, ApprovalInv
<1>10. CASE Gate
  <2>1. [stage |-> "gate", item |-> index, allow |-> index \in allowed] \in Event
    BY <1>1 DEF Event
  <2> QED
    BY <1>10, <2>1, ApprovalEmit DEF Gate, Return, Quiet, Hold
<1>11. CASE Pause
  <2> DEFINE e == [stage |-> "breakpoint", item |-> index]
  <2>1. e \in Event
    BY <1>1 DEF Event
  <2>2. Emit(e) /\ plan' = plan /\ index' = index /\ saved' = saved /\ pc' = "checkpoint"
    BY <1>11 DEF Pause, Quiet, Hold, local
  <2>3. TrailApproved'
    BY <1>11, <2>1, <2>2, TrailApprovedKept DEF Pause, ApprovalInv
  <2>4. /\ Len(log) \in Nat /\ Len(log') = Len(log) + 1 /\ log'[Len(log) + 1] = e
    BY <2>1, <2>2, Appended DEF Emit, TypeInv, TypeOK
  <2>5. PausedNow(index)'
    BY <2>2, <2>4 DEF PausedNow, PausedAt
  <2>6. \A i : PausedNow(i) => PausedNow(i)'
    BY <2>1, <2>2, NowKept DEF TypeInv, TypeOK
  <2> QED
    BY <2>2, <2>3, <2>5, <2>6 DEF ApprovalInv
<1>12. CASE SaveCheckpoint
  BY <1>12, ApprovalQuiet DEF SaveCheckpoint, Return, ApprovalInv
<1>13. CASE Advance
  <2>1. ~Restricted(index)
    BY <1>13 DEF Advance, PausePoint
  <2> QED
    BY <1>13, <2>1, ApprovalQuiet
       DEF Advance, DoItem, NextItem, Return, Hold, Reconstructed, durable, ApprovalInv
<1>14. CASE TakeOver
  BY <1>14, ApprovalQuiet
     DEF TakeOver, DoItem, NextItem, Return, Hold, Reconstructed, durable, ApprovalInv
<1>15. CASE UseInjection \/ Execute
  BY <1>15, ApprovalQuiet DEF UseInjection, Execute, Hold, durable, ApprovalInv
<1>16. CASE Mark
  <2>1. [stage |-> "execute", item |-> index, attempt |-> attempt, output |-> output] \in Event
    BY <1>1 DEF Event
  <2> QED
    BY <1>16, <2>1, ApprovalEmit DEF Mark, Quiet, Hold, local
<1>17. CASE EffectBlocked \/ EffectCached \/ BeginEffect \/ CompleteEffect \/ NotIndependent
  BY <1>17, ApprovalQuiet
     DEF EffectBlocked, EffectCached, BeginEffect, CompleteEffect, NotIndependent, Return, Hold,
         durable, local, ApprovalInv
<1>18. CASE Act
  <2>1. [stage |-> "act", item |-> index, output |-> output] \in Event
    BY <1>1 DEF Event
  <2> QED
    BY <1>18, <2>1, ApprovalEmit DEF Act, Quiet, Hold, local
<1>19. ASSUME NEW decision \in Decisions, Verify(decision) PROVE ApprovalInv'
  <2>1. [stage |-> "verify", item |-> index, attempt |-> attempt, output |-> output,
         decision |-> decision] \in Event
    BY <1>1 DEF Event
  <2> QED
    BY <1>19, <2>1, ApprovalEmit DEF Verify, NextItem, Return, Quiet, Hold
<1> QED
  BY <1>2, <1>3, <1>4, <1>5, <1>6, <1>7, <1>8, <1>9, <1>10, <1>11, <1>12, <1>13, <1>14, <1>15,
     <1>16, <1>17, <1>18, <1>19 DEF Step

\* The human's event is one of four kinds, and nothing else of the flow changes.
LEMMA HumanStep ==
  ASSUME TypeInv, Inject \/ InjectRefused \/ SetBreakpoint \/ ClearBreakpoint
  PROVE  /\ \E e \in Event :
              /\ e.stage \in {"inject", "refused", "set_breakpoint", "clear_breakpoint"}
              /\ Emit(e)
         /\ UNCHANGED <<saved, ledger, produced, plan, returned, pc, local>>
<1>1. log' \in Seq(Event)
  BY TypeOthers DEF TypeInv, TypeOK
<1>2. \A e : Emit(e) => e \in Event
  <2> SUFFICES ASSUME NEW e, Emit(e) PROVE e \in Event
    OBVIOUS
  <2>1. log \in Seq(Event) /\ Len(log) \in Nat /\ log' = Append(log, e)
    BY DEF Emit, TypeInv, TypeOK
  <2>2. log'[Len(log) + 1] = e /\ Len(log) + 1 \in DOMAIN log'
    BY <2>1
  <2> QED
    BY <1>1, <2>2
<1>3. \E e : /\ e.stage \in {"inject", "refused", "set_breakpoint", "clear_breakpoint"}
             /\ Emit(e)
  <2>1. CASE Inject
    <3>1. CASE \E seat \in Seats, id \in OutputIds :
                 Injects([stage |-> "inject", item |-> saved,
                          edit |-> [id |-> id, by |-> seat, n |-> Len(log) + 1]])
      BY <3>1 DEF Injects, Human
    <3>2. CASE Injects([stage |-> "inject", item |-> saved, edit |-> NoOutput])
      BY <3>2 DEF Injects, Human
    <3> QED
      BY <2>1, <3>1, <3>2 DEF Inject
  <2>2. CASE InjectRefused
    BY <2>2 DEF InjectRefused, Injects, Human
  <2>3. CASE SetBreakpoint
    BY <2>3 DEF SetBreakpoint, Breakpoints, Human
  <2>4. CASE ClearBreakpoint
    BY <2>4 DEF ClearBreakpoint, Breakpoints, Human
  <2> QED
    BY <2>1, <2>2, <2>3, <2>4
<1> QED
  BY <1>2, <1>3
     DEF Inject, InjectRefused, SetBreakpoint, ClearBreakpoint, Injects, Breakpoints, Human,
         Quiet, Hold, local

\* So do all others.
LEMMA ApprovalNext == ASSUME TypeInv, ApprovalInv, [Next]_vars PROVE ApprovalInv'
<1>1. CASE Start \/ Resume \/ Step
  BY <1>1, ApprovalStep
<1>2. CASE Inject \/ InjectRefused \/ SetBreakpoint \/ ClearBreakpoint
  <2>1. PICK e \in Event :
          /\ e.stage \in {"inject", "refused", "set_breakpoint", "clear_breakpoint"}
          /\ Emit(e)
    BY <1>2, HumanStep
  <2>2. plan' = plan /\ saved' = saved /\ pc' = pc /\ index' = index
    BY <1>2, HumanStep DEF local
  <2> QED
    BY <2>1, <2>2, ApprovalEmit
<1>3. CASE Cut
  BY <1>3, ApprovalQuiet DEF Cut, Return, durable, ApprovalInv, Working
<1>4. CASE UNCHANGED vars
  BY <1>4, ApprovalQuiet DEF vars, durable, local, ApprovalInv
<1> QED
  BY <1>1, <1>2, <1>3, <1>4 DEF Next

\* The approvals hold throughout.
LEMMA ApprovalInvariance == Spec => []ApprovalInv
<1>1. Init => ApprovalInv
  BY DEF Init, ApprovalInv, TrailApproved, Working
<1>2. TypeInv /\ ApprovalInv /\ [Next]_vars => ApprovalInv'
  BY ApprovalNext
<1> QED
  BY <1>1, <1>2, TypeInvariance, PTL DEF Spec

\* A resume that opened the call at work is the approval the property asks for.
LEMMA ResumedIsApproved ==
  ASSUME log \in Seq(Event), NEW n \in 1 .. Len(log) + 1, NEW i, ResumedAt(n, i)
  PROVE  Approved(n, i) /\ Opened(n) \in 1 .. n - 1 /\ log[Opened(n)].stage = "resume"
                        /\ log[Opened(n)].item = i
<1> DEFINE openers == UNION {Before(n, s) : s \in {"specify", "reenter", "resume"}}
<1>1. PICK m \in 1 .. n - 1 :
        /\ log[m].stage = "resume" /\ log[m].item = i
        /\ \A k \in m + 1 .. n - 1 : log[k].stage \notin {"specify", "reenter", "resume"}
  BY DEF ResumedAt
<1>2. m \in openers
  BY <1>1 DEF Before
<1>3. \A k \in openers : k \in 1 .. n - 1 /\ log[k].stage \in {"specify", "reenter", "resume"}
  BY DEF Before
<1>4. \A k \in openers : k <= m
  BY <1>1, <1>3
<1>5. openers \in SUBSET Nat
  BY <1>3
<1>6. Max(openers) = m
  <2> HIDE DEF openers
  <2> QED
    BY <1>2, <1>4, <1>5, GreatestIs
<1> QED
  BY <1>1, <1>6 DEF Opened, Approved

\* No L1 or L0 item is worked on unless a human resumed the flow at that very item, in the call
\* at work, after it had paused there (start, resume and _advance): RestrictedApproved.
THEOREM ApprovedWork == Spec => []RestrictedApproved
<1>1. TypeInv /\ ApprovalInv => RestrictedApproved
  <2> SUFFICES ASSUME TypeInv, ApprovalInv PROVE RestrictedApproved
    OBVIOUS
  <2>1. log \in Seq(Event) /\ Len(log) \in Nat /\ DOMAIN log = 1 .. Len(log)
    BY DEF TypeInv, TypeOK
  <2>2. ASSUME NEW i \in Items, Restricted(i), NEW n \in Executes(i)
        PROVE  Approved(n, i) /\ \E m \in Before(Opened(n), "breakpoint") : log[m].item = i
    <3>1. n \in 1 .. Len(log) /\ log[n].stage = "execute" /\ log[n].item = i
      BY <2>1, <2>2 DEF Executes, Of
    <3>2. ResumedAt(n, i)
      BY <2>1, <2>2, <3>1 DEF ApprovalInv, TrailApproved
    <3>3. /\ Approved(n, i) /\ Opened(n) \in 1 .. n - 1
          /\ log[Opened(n)].stage = "resume" /\ log[Opened(n)].item = i
      BY <2>1, <3>1, <3>2, ResumedIsApproved
    <3>4. Opened(n) \in DOMAIN log
      BY <2>1, <3>1, <3>3
    <3>5. PausedAt(Opened(n), i)
      BY <3>3, <3>4 DEF ApprovalInv, TrailApproved
    <3> QED
      BY <3>3, <3>5 DEF PausedAt, Before
  <2>3. ASSUME pc \in {"produce", "mark"}, Restricted(index) PROVE Approved(Len(log) + 1, index)
    <3>1. ResumedAt(Len(log) + 1, index)
      BY <2>3 DEF ApprovalInv, ResumedNow, Working
    <3>2. Len(log) + 1 \in 1 .. Len(log) + 1
      BY <2>1
    <3> QED
      BY <2>1, <3>1, <3>2, ResumedIsApproved
  <2> QED
    BY <2>2, <2>3 DEF RestrictedApproved, Restricted
<1> QED
  BY <1>1, TypeInvariance, ApprovalInvariance, PTL

------------------------------------------------------------------------------
(* Order. *)

IsPass(e, i) == e.stage = "verify" /\ e.item = i /\ e.decision = "pass"

\* A pass appended is a pass; none is lost.
LEMMA PassKept ==
  ASSUME log \in Seq(Event), NEW e \in Event, Emit(e), NEW i
  PROVE  HasPass(i)' <=> HasPass(i) \/ IsPass(e, i)
<1>1. /\ Len(log) \in Nat
      /\ DOMAIN log = 1 .. Len(log) /\ DOMAIN log' = 1 .. Len(log) + 1
      /\ \A n \in 1 .. Len(log) : log'[n] = log[n]
      /\ log'[Len(log) + 1] = e
  BY Appended DEF Emit
<1>2. ASSUME HasPass(i)' PROVE HasPass(i) \/ IsPass(e, i)
  <2>1. PICK n \in 1 .. Len(log) + 1 :
          log'[n].stage = "verify" /\ log'[n].item = i /\ log'[n].decision = "pass"
    BY <1>1, <1>2 DEF HasPass
  <2>2. n \in 1 .. Len(log) \/ n = Len(log) + 1
    BY <1>1
  <2> QED
    BY <1>1, <2>1, <2>2 DEF HasPass, IsPass
<1>3. ASSUME HasPass(i) \/ IsPass(e, i) PROVE HasPass(i)'
  BY <1>1, <1>3 DEF HasPass, IsPass
<1> QED
  BY <1>2, <1>3

\* What is done stays done.
LEMMA DoneKept ==
  ASSUME log \in Seq(Event), NEW e \in Event, Emit(e)
  PROVE  \A i : Done(i) => Done(i)'
BY PassKept DEF Done

\* A recorded verdict that is a pass, and the lack of one.
LEMMA VerdictPass ==
  ASSUME log \in Seq(Event), NEW i
  PROVE  /\ HasVerdict(i) /\ LatestVerdict(i) = "pass" => HasPass(i)
         /\ Passed(i) => HasPass(i)
         /\ ~HasVerdict(i) => ~HasPass(i)
<1>1. ASSUME HasVerdict(i), LatestVerdict(i) = "pass" PROVE HasPass(i)
  BY <1>1, VerdictReturned DEF HasPass
<1>2. Passed(i) => HasVerdict(i) /\ LatestVerdict(i) = "pass"
  BY DEF Passed, HasVerdict
<1>3. HasPass(i) => HasVerdict(i)
  BY DEF HasPass, HasVerdict, Verifies, Of
<1> QED
  BY <1>1, <1>2, <1>3

\* On an ordered trail a pass is the item's last verdict.
LEMMA PassIsLast ==
  ASSUME log \in Seq(Event), TrailOrdered, NEW i, HasPass(i)
  PROVE  Passed(i)
<1>1. PICK n \in DOMAIN log :
        log[n].stage = "verify" /\ log[n].item = i /\ log[n].decision = "pass"
  BY DEF HasPass
<1>2. Len(log) \in Nat /\ DOMAIN log = 1 .. Len(log)
  OBVIOUS
<1>3. n \in Verifies(i)
  BY <1>1 DEF Verifies, Of
<1>4. \A k \in Verifies(i) : k <= n
  <2> SUFFICES ASSUME NEW k \in Verifies(i), ~(k <= n) PROVE FALSE
    OBVIOUS
  <2>1. k \in n + 1 .. Len(log) /\ log[k].stage = "verify" /\ log[k].item = log[n].item
    BY <1>1, <1>2 DEF Verifies, Of
  <2> QED
    BY <1>1, <2>1 DEF TrailOrdered
<1>5. Verifies(i) \in SUBSET Nat
  BY <1>2 DEF Verifies, Of
<1>6. Max(Verifies(i)) = n
  BY <1>3, <1>4, <1>5, GreatestIs
<1> QED
  BY <1>1, <1>3, <1>6 DEF Passed, LatestVerdict

\* What an event has to bring for the trail to stay ordered.
LEMMA TrailOrderedKept ==
  ASSUME TypeInv, TrailOrdered, NEW e \in Event, Emit(e),
         e.stage = "verify" => ~HasPass(e.item),
         e.stage = "execute" => Done(e.item)
  PROVE  TrailOrdered'
<1>1. /\ log \in Seq(Event) /\ Len(log) \in Nat /\ Len(log') = Len(log) + 1
      /\ DOMAIN log = 1 .. Len(log) /\ DOMAIN log' = 1 .. Len(log) + 1
      /\ \A n \in 1 .. Len(log) : log'[n] = log[n]
      /\ log'[Len(log) + 1] = e
  BY Appended DEF Emit, TypeInv, TypeOK
<1>2. \A i : Done(i) => Done(i)'
  BY <1>1, DoneKept
<1>3. ASSUME NEW n \in DOMAIN log', log'[n].stage = "verify", log'[n].decision = "pass",
             NEW m \in n + 1 .. Len(log')
      PROVE  ~(log'[m].stage = "verify" /\ log'[m].item = log'[n].item)
  <2>1. n \in 1 .. Len(log) /\ log'[n] = log[n]
    BY <1>1, <1>3
  <2>2. HasPass(log[n].item)
    BY <1>1, <1>3, <2>1 DEF HasPass
  <2>3. CASE m \in n + 1 .. Len(log)
    <3>1. log'[m] = log[m]
      BY <1>1, <2>1, <2>3
    <3> QED
      BY <1>1, <1>3, <2>1, <2>3, <3>1 DEF TrailOrdered
  <2>4. CASE m = Len(log) + 1
    BY <1>1, <2>1, <2>2, <2>4
  <2> QED
    BY <1>1, <2>1, <2>3, <2>4
<1>4. ASSUME NEW n \in DOMAIN log', log'[n].stage = "execute"
      PROVE  \A j \in 1 .. log'[n].item - 1 : HasPass(j)'
  <2>1. CASE n \in 1 .. Len(log)
    <3>1. Done(log[n].item) /\ log'[n] = log[n]
      BY <1>1, <1>4, <2>1 DEF TrailOrdered
    <3> QED
      BY <1>1, <3>1, PassKept DEF Done
  <2>2. CASE n = Len(log) + 1
    BY <1>1, <1>4, <2>2, PassKept DEF Done
  <2> QED
    BY <1>1, <2>1, <2>2
<1> QED
  BY <1>3, <1>4 DEF TrailOrdered, Done

\* Steps that append nothing.
LEMMA OrderQuiet ==
  ASSUME OrderInv, log' = log, plan' = plan,
         pc' \in AtItem \cup {"item"} => Done(index'),
         pc' \in Working => ~HasPass(index'),
         saved' # 0 => Done(saved'),
         returned' = "pass" => Done(Len(plan) + 1)
  PROVE  OrderInv'
<1>1. \A i : (HasPass(i)' <=> HasPass(i)) /\ (Done(i)' <=> Done(i))
  BY DEF HasPass, Done
<1>2. TrailOrdered'
  BY DEF OrderInv, TrailOrdered, Done, HasPass
<1> QED
  BY <1>1, <1>2 DEF OrderInv

\* Steps that append an event other than a verdict.
LEMMA OrderEmit ==
  ASSUME TypeInv, OrderInv, NEW e \in Event, Emit(e), plan' = plan, saved' = saved,
         e.stage # "verify",
         e.stage = "execute" => Done(e.item),
         pc' \in AtItem \cup {"item"} => Done(index'),
         pc' \in Working => ~HasPass(index'),
         returned' = "pass" => Done(Len(plan) + 1)
  PROVE  OrderInv'
<1>1. log \in Seq(Event)
  BY DEF TypeInv, TypeOK
<1>2. TrailOrdered'
  BY TrailOrderedKept DEF OrderInv
<1>3. \A i : (HasPass(i)' <=> HasPass(i)) /\ (Done(i) => Done(i)')
  BY <1>1, PassKept, DoneKept DEF IsPass
<1> QED
  BY <1>2, <1>3 DEF OrderInv

\* After a verdict: the flow goes on to an item with all before it done, or returns.
LEMMA OrderVerdict ==
  ASSUME TypeInv, OrderInv, pc = "verify", NEW decision \in Decisions, Verify(decision)
  PROVE  OrderInv'
<1> DEFINE e == [stage |-> "verify", item |-> index, attempt |-> attempt, output |-> output,
                 decision |-> decision]
<1> USE DEF AtItem, Working
<1>1. /\ index \in Nat /\ attempt \in Nat /\ output \in Output /\ log \in Seq(Event)
      /\ Len(plan) \in Nat /\ index \in 1 .. Len(plan)
  BY PlanShape, Bounds DEF TypeInv, TypeOK
<1>2. e \in Event /\ Emit(e)
  BY <1>1 DEF Verify, Event
<1>3. plan' = plan /\ saved' = saved
  BY DEF Verify, NextItem, Hold, Quiet
<1>4. Done(index) /\ ~HasPass(index)
  BY DEF OrderInv
<1>5. TrailOrdered'
  <2>1. e.stage = "verify" /\ e.item = index
    OBVIOUS
  <2> HIDE DEF e
  <2> QED
    BY <1>2, <1>4, <2>1, TrailOrderedKept DEF OrderInv
<1>6. \A i : (HasPass(i)' <=> HasPass(i) \/ (i = index /\ decision = "pass"))
             /\ (Done(i) => Done(i)')
  <2>1. \A i : IsPass(e, i) <=> i = index /\ decision = "pass"
    BY DEF IsPass
  <2> HIDE DEF e
  <2> QED
    BY <1>1, <1>2, <2>1, PassKept, DoneKept
<1>7. (saved # 0 => Done(saved))'
  BY <1>3, <1>6 DEF OrderInv
<1>8. CASE decision = "return" /\ MayRevise
  <2>1. pc' = "produce" /\ index' = index /\ returned' = returned
    BY <1>8 DEF Verify, Hold
  <2>2. Done(index)' /\ ~HasPass(index)'
    BY <1>4, <1>6, <1>8, <2>1
  <2>3. (returned = "pass" => Done(Len(plan) + 1))'
    BY <1>3, <1>6, <2>1 DEF OrderInv
  <2> QED
    BY <1>5, <1>7, <2>2, <2>3 DEF OrderInv
<1>9. CASE ~(decision = "return" /\ MayRevise)
  <2>1. NextItem(decision)
    BY <1>9 DEF Verify
  <2>2. ASSUME decision = "pass", NEW k, k = index + 1 PROVE Done(k)'
    BY <1>1, <1>4, <1>6, <2>2 DEF Done
  <2>3. CASE decision # "pass" \/ index = Len(plan)
    <3>1. pc' = "idle" /\ returned' = decision
      BY <2>1, <2>3 DEF NextItem, Return
    <3>2. (returned = "pass" => Done(Len(plan) + 1))'
      BY <1>3, <2>2, <2>3, <3>1
    <3> QED
      BY <1>5, <1>7, <3>1, <3>2 DEF OrderInv
  <2>4. CASE ~(decision # "pass" \/ index = Len(plan))
    <3>1. pc' = "item" /\ index' = index + 1 /\ returned' = returned
      BY <2>1, <2>4 DEF NextItem, Hold
    <3>2. Done(index)'
      BY <2>2, <2>4, <3>1
    <3>3. (returned = "pass" => Done(Len(plan) + 1))'
      BY <1>3, <1>6, <3>1 DEF OrderInv
    <3> QED
      BY <1>5, <1>7, <3>1, <3>2, <3>3 DEF OrderInv
  <2> QED
    BY <2>3, <2>4
<1> QED
  BY <1>8, <1>9

\* An item entered is taken up where its record says, or passed by.
LEMMA OrderItem ==
  ASSUME TypeInv, OrderInv, pc \in {"gated", "resumed"}, NEW inject, DoItem(inject)
  PROVE  OrderInv'
<1> USE DEF AtItem, Working
<1>1. /\ log \in Seq(Event) /\ Len(plan) \in Nat /\ index \in 1 .. Len(plan)
  BY PlanShape DEF TypeInv, TypeOK
<1>2. log' = log /\ plan' = plan /\ saved' = saved
  BY DEF DoItem, durable, NextItem, Hold
<1>3. Done(index) /\ (saved # 0 => Done(saved)) /\ (returned = "pass" => Done(Len(plan) + 1))
  BY DEF OrderInv
<1>4. CASE HasVerdict(index) /\ NextItem(LatestVerdict(index))
  <2>1. LatestVerdict(index) = "pass" => Done(index + 1)
    BY <1>1, <1>3, <1>4, VerdictPass DEF Done
  <2>2. CASE LatestVerdict(index) # "pass" \/ index = Len(plan)
    <3>1. pc' = "idle" /\ returned' = LatestVerdict(index)
      BY <1>4, <2>2 DEF NextItem, Return
    <3> QED
      BY <1>2, <1>3, <2>1, <2>2, <3>1, OrderQuiet
  <2>3. CASE ~(LatestVerdict(index) # "pass" \/ index = Len(plan))
    <3>1. pc' = "item" /\ index' = index + 1 /\ returned' = returned
      BY <1>4, <2>3 DEF NextItem, Hold
    <3> QED
      BY <1>2, <1>3, <2>1, <2>3, <3>1, OrderQuiet
  <2> QED
    BY <2>2, <2>3
<1>5. CASE ~HasVerdict(index) /\ index' = index /\ returned' = returned
  <2>1. ~HasPass(index)
    BY <1>1, <1>5, VerdictPass
  <2> QED
    BY <1>2, <1>3, <1>5, <2>1, OrderQuiet
<1> QED
  BY <1>4, <1>5 DEF DoItem, Hold

\* The driver's steps preserve the order.
LEMMA OrderStep == ASSUME TypeInv, OrderInv, Start \/ Resume \/ Step PROVE OrderInv'
<1> USE DEF AtItem, Working
<1>1. /\ index \in Nat /\ attempt \in Nat /\ output \in Output /\ log \in Seq(Event)
      /\ plan \in Plans /\ Len(plan) \in Nat
      /\ 1 .. Len(plan) = Items
      /\ pc \in AtItem => index \in Items
  BY PlanShape, Bounds DEF TypeInv, TypeOK
<1>2. CASE Start
  BY <1>2, OrderQuiet DEF Start, Call, durable, OrderInv
<1>3. CASE Resume
  BY <1>3, OrderQuiet DEF Resume, Call, durable, OrderInv
<1>4. CASE Specify
  <2>1. [stage |-> "specify"] \in Event
    BY DEF Event
  <2> QED
    BY <1>4, <2>1, OrderEmit DEF Specify, Quiet, Hold, OrderInv
<1>5. CASE Decompose
  <2>1. [stage |-> "decompose"] \in Event
    BY DEF Event
  <2>2. Done(1)
    BY DEF Done
  <2> QED
    BY <1>5, <2>1, <2>2, OrderEmit DEF Decompose, Quiet, Hold, OrderInv
<1>6. CASE ReturnRecorded
  <2>1. FirstUnfinished = Len(plan) + 1
    BY <1>1, <1>6, Unfinished DEF ReturnRecorded
  <2>2. Done(Len(plan) + 1)
    BY <1>1, <2>1, Unfinished, VerdictPass DEF Done
  <2> QED
    BY <1>6, <2>2, OrderQuiet DEF ReturnRecorded, Return, durable, OrderInv
<1>7. CASE Reenter
  <2>1. FirstUnfinished \in Nat
    BY <1>1, Unfinished
  <2>2. [stage |-> "reenter", item |-> FirstUnfinished] \in Event
    BY <2>1 DEF Event
  <2>3. Done(FirstUnfinished)
    BY <1>1, Unfinished, VerdictPass DEF Done
  <2> QED
    BY <1>7, <2>2, <2>3, OrderEmit DEF Reenter, Quiet, Hold, OrderInv
<1>8. CASE LogResume
  <2>1. [stage |-> "resume", item |-> index] \in Event
    BY <1>1 DEF Event
  <2> QED
    BY <1>8, <2>1, OrderEmit DEF LogResume, Quiet, Hold, local, OrderInv
<1>9. CASE AssertFails
  BY <1>9, OrderQuiet DEF AssertFails, Return, durable, OrderInv
<1>10. CASE Gate
  <2>1. [stage |-> "gate", item |-> index, allow |-> index \in allowed] \in Event
    BY <1>1 DEF Event
  <2> QED
    BY <1>10, <2>1, OrderEmit DEF Gate, Return, Quiet, Hold, local, OrderInv
<1>11. CASE Pause
  <2>1. [stage |-> "breakpoint", item |-> index] \in Event
    BY <1>1, <1>11 DEF Event, Pause
  <2> QED
    BY <1>11, <2>1, OrderEmit DEF Pause, Quiet, Hold, local, OrderInv
<1>12. CASE SaveCheckpoint
  BY <1>12, OrderQuiet DEF SaveCheckpoint, Return, OrderInv
<1>13. CASE Advance \/ TakeOver
  BY <1>13, OrderItem DEF Advance, TakeOver
<1>14. CASE UseInjection \/ Execute
  BY <1>14, OrderQuiet DEF UseInjection, Execute, Hold, durable, OrderInv
<1>15. CASE Mark
  <2>1. [stage |-> "execute", item |-> index, attempt |-> attempt, output |-> output] \in Event
    BY <1>1 DEF Event
  <2>2. Done(index) /\ ~HasPass(index)
    BY <1>15 DEF Mark, OrderInv
  <2> QED
    BY <1>15, <2>1, <2>2, OrderEmit DEF Mark, Quiet, Hold, local, OrderInv
<1>16. CASE EffectBlocked \/ EffectCached \/ BeginEffect \/ CompleteEffect \/ NotIndependent
  BY <1>16, OrderQuiet
     DEF EffectBlocked, EffectCached, BeginEffect, CompleteEffect, NotIndependent, Return, Hold,
         durable, local, OrderInv
<1>17. CASE Act
  <2>1. [stage |-> "act", item |-> index, output |-> output] \in Event
    BY <1>1 DEF Event
  <2> QED
    BY <1>17, <2>1, OrderEmit DEF Act, Quiet, Hold, local, OrderInv
<1>18. ASSUME NEW decision \in Decisions, Verify(decision) PROVE OrderInv'
  BY <1>18, OrderVerdict DEF Verify
<1> QED
  BY <1>2, <1>3, <1>4, <1>5, <1>6, <1>7, <1>8, <1>9, <1>10, <1>11, <1>12, <1>13, <1>14, <1>15,
     <1>16, <1>17, <1>18 DEF Step

\* So do all others.
LEMMA OrderNext == ASSUME TypeInv, OrderInv, [Next]_vars PROVE OrderInv'
<1>1. CASE Start \/ Resume \/ Step
  BY <1>1, OrderStep
<1>2. CASE Inject \/ InjectRefused \/ SetBreakpoint \/ ClearBreakpoint
  <2>1. PICK e \in Event :
          /\ e.stage \in {"inject", "refused", "set_breakpoint", "clear_breakpoint"}
          /\ Emit(e)
    BY <1>2, HumanStep
  <2>2. plan' = plan /\ saved' = saved /\ pc' = pc /\ index' = index /\ returned' = returned
    BY <1>2, HumanStep DEF local
  <2> QED
    BY <2>1, <2>2, OrderEmit DEF OrderInv
<1>3. CASE Cut
  BY <1>3, OrderQuiet DEF Cut, Return, durable, OrderInv, Working, AtItem
<1>4. CASE UNCHANGED vars
  BY <1>4, OrderQuiet DEF vars, durable, local, OrderInv
<1> QED
  BY <1>1, <1>2, <1>3, <1>4 DEF Next

\* The order holds throughout.
LEMMA OrderInvariance == Spec => []OrderInv
<1>1. Init => OrderInv
  BY DEF Init, OrderInv, TrailOrdered, Working, AtItem
<1>2. TypeInv /\ OrderInv /\ [Next]_vars => OrderInv'
  BY OrderNext
<1> QED
  BY <1>1, <1>2, TypeInvariance, PTL DEF Spec

\* An item is begun only when all before it have passed, and a pass is returned only when all
\* have, whatever was cut short, resumed or re-entered on the way (_advance, resume, _reenter).
THEOREM OrderedWork == Spec => []InOrder
<1>1. TypeInv /\ OrderInv => InOrder
  <2> SUFFICES ASSUME TypeInv, OrderInv PROVE InOrder
    OBVIOUS
  <2>1. log \in Seq(Event) /\ TrailOrdered /\ Items = 1 .. Len(plan) /\ Len(plan) \in Nat
    BY PlanShape DEF TypeInv, TypeOK, OrderInv
  <2>2. \A i : HasPass(i) => Passed(i)
    BY <2>1, PassIsLast
  <2>3. ASSUME NEW i \in Items, Executes(i) # {} PROVE \A j \in 1 .. i - 1 : Passed(j)
    <3>1. PICK n \in DOMAIN log : log[n].stage = "execute" /\ log[n].item = i
      BY <2>3 DEF Executes, Of
    <3> QED
      BY <2>1, <2>2, <3>1 DEF TrailOrdered, Done
  <2>4. returned = "pass" => \A i \in Items : Passed(i)
    BY <2>1, <2>2 DEF OrderInv, Done
  <2> QED
    BY <2>3, <2>4 DEF InOrder
<1> QED
  BY <1>1, TypeInvariance, OrderInvariance, PTL

------------------------------------------------------------------------------
(* Passed for good. *)

\* What PassedForGood asks of a step for item i.
Untouched(i) ==
  /\ produced'[i] = produced[i]
  /\ \A id \in OutputIds : ledger'[<<i, id>>] = ledger[<<i, id>>]
  /\ \A stage \in {"execute", "act", "verify"} : Of(stage, i)' = Of(stage, i)

\* An event appended is among an item's of one kind only if it is one.
LEMMA OfKept ==
  ASSUME log \in Seq(Event), NEW e \in Event, Emit(e), NEW stage, NEW i,
         ~(e.stage = stage /\ e.item = i)
  PROVE  Of(stage, i)' = Of(stage, i)
<1>1. /\ Len(log) \in Nat
      /\ DOMAIN log = 1 .. Len(log) /\ DOMAIN log' = 1 .. Len(log) + 1
      /\ \A n \in 1 .. Len(log) : log'[n] = log[n]
      /\ log'[Len(log) + 1] = e
  BY Appended DEF Emit
<1>2. \A n \in 1 .. Len(log) + 1 : n \in 1 .. Len(log) \/ n = Len(log) + 1
  BY <1>1
<1>3. \A n : n \in Of(stage, i)' <=> n \in Of(stage, i)
  BY <1>1, <1>2 DEF Of
<1> QED
  BY <1>3

\* Steps that write nothing durable but an event about something else.
LEMMA UntouchedBy ==
  ASSUME log \in Seq(Event), NEW i, ledger' = ledger, produced' = produced,
         \/ log' = log
         \/ \E e \in Event : /\ Emit(e)
                             /\ e.stage \in {"execute", "act", "verify"} => e.item # i
  PROVE  Untouched(i)
<1>1. CASE log' = log
  BY <1>1 DEF Untouched, Of
<1>2. CASE \E e \in Event : /\ Emit(e)
                            /\ e.stage \in {"execute", "act", "verify"} => e.item # i
  BY <1>2, OfKept DEF Untouched
<1> QED
  BY <1>1, <1>2

\* A step of the work on one item touches no other.
LEMMA WorkElsewhere ==
  ASSUME TypeInv, pc \in Working, Step, NEW i, i # index
  PROVE  Untouched(i)
<1> USE DEF Working
<1>1. /\ index \in Nat /\ attempt \in Nat /\ output \in Output /\ log \in Seq(Event)
      /\ index \in Items /\ ledger \in [Items \X OutputIds -> Row] /\ produced \in [Items -> Nat]
  BY PlanShape, Bounds DEF TypeInv, TypeOK, AtItem
<1>2. CASE UseInjection \/ EffectBlocked \/ EffectCached \/ NotIndependent
  BY <1>1, <1>2, UntouchedBy
     DEF UseInjection, EffectBlocked, EffectCached, NotIndependent, durable
<1>3. CASE Execute
  BY <1>1, <1>3 DEF Execute, Untouched, Of
<1>4. CASE Mark
  <2>1. [stage |-> "execute", item |-> index, attempt |-> attempt, output |-> output] \in Event
    BY <1>1 DEF Event
  <2> QED
    BY <1>1, <1>4, <2>1, UntouchedBy DEF Mark, Quiet
<1>5. CASE BeginEffect \/ CompleteEffect
  <2>1. log' = log /\ produced' = produced
    BY <1>5 DEF BeginEffect, CompleteEffect
  <2>2. \A id : <<i, id>> # Key
    BY DEF Key
  <2>3. CASE BeginEffect
    <3>1. \A k : k # Key => ledger'[k] = ledger[k] \/ k \notin DOMAIN ledger
      BY <1>1, <2>3 DEF BeginEffect
    <3>2. DOMAIN ledger' = DOMAIN ledger /\ DOMAIN ledger = Items \X OutputIds
      BY <1>1, <2>3 DEF BeginEffect
    <3> QED
      BY <1>1, <2>1, <2>2, <2>3, <3>1, <3>2 DEF BeginEffect, Untouched, Of
  <2>4. CASE CompleteEffect
    BY <1>1, <2>1, <2>2, <2>4 DEF CompleteEffect, Untouched, Of
  <2> QED
    BY <1>5, <2>3, <2>4
<1>6. CASE Act
  <2>1. [stage |-> "act", item |-> index, output |-> output] \in Event
    BY <1>1 DEF Event
  <2> QED
    BY <1>1, <1>6, <2>1, UntouchedBy DEF Act, Quiet
<1>7. ASSUME NEW decision \in Decisions, Verify(decision) PROVE Untouched(i)
  <2>1. [stage |-> "verify", item |-> index, attempt |-> attempt, output |-> output,
         decision |-> decision] \in Event
    BY <1>1 DEF Event
  <2> QED
    BY <1>1, <1>7, <2>1, UntouchedBy DEF Verify, Quiet
<1> QED
  BY <1>2, <1>3, <1>4, <1>5, <1>6, <1>7
     DEF Step, Specify, Decompose, ReturnRecorded, Reenter, LogResume, AssertFails, Gate, Pause,
         SaveCheckpoint, Advance, TakeOver

\* Neither does a step outside of it.
LEMMA NoWork ==
  ASSUME TypeInv, pc \notin Working, [Next]_vars, NEW i \in Items
  PROVE  Untouched(i)
<1> USE DEF Working
<1>1. /\ index \in Nat /\ log \in Seq(Event) /\ FirstUnfinished \in Nat
  BY PlanShape, Unfinished DEF TypeInv, TypeOK
<1>2. CASE Start \/ Resume \/ Cut \/ UNCHANGED vars
  BY <1>1, <1>2, UntouchedBy DEF Start, Resume, Call, Cut, durable, vars
<1>3. CASE Inject \/ InjectRefused \/ SetBreakpoint \/ ClearBreakpoint
  <2>1. \E e \in Event :
          /\ e.stage \in {"inject", "refused", "set_breakpoint", "clear_breakpoint"}
          /\ Emit(e)
    BY <1>3, HumanStep
  <2>2. ledger' = ledger /\ produced' = produced
    BY <1>3, HumanStep
  <2> QED
    BY <1>1, <2>1, <2>2, UntouchedBy
<1>4. CASE Specify
  <2>1. [stage |-> "specify"] \in Event
    BY DEF Event
  <2> QED
    BY <1>1, <1>4, <2>1, UntouchedBy DEF Specify, Quiet
<1>5. CASE Decompose
  <2>1. [stage |-> "decompose"] \in Event
    BY DEF Event
  <2> QED
    BY <1>1, <1>5, <2>1, UntouchedBy DEF Decompose, Quiet
<1>6. CASE Reenter
  <2>1. [stage |-> "reenter", item |-> FirstUnfinished] \in Event
    BY <1>1 DEF Event
  <2> QED
    BY <1>1, <1>6, <2>1, UntouchedBy DEF Reenter, Quiet
<1>7. CASE LogResume
  <2>1. [stage |-> "resume", item |-> index] \in Event
    BY <1>1 DEF Event
  <2> QED
    BY <1>1, <1>7, <2>1, UntouchedBy DEF LogResume, Quiet
<1>8. CASE Gate
  <2>1. [stage |-> "gate", item |-> index, allow |-> index \in allowed] \in Event
    BY <1>1 DEF Event
  <2> QED
    BY <1>1, <1>8, <2>1, UntouchedBy DEF Gate, Quiet
<1>9. CASE Pause
  <2>1. [stage |-> "breakpoint", item |-> index] \in Event
    BY <1>1 DEF Event
  <2> QED
    BY <1>1, <1>9, <2>1, UntouchedBy DEF Pause, Quiet
<1>10. CASE ReturnRecorded \/ AssertFails \/ SaveCheckpoint \/ Advance \/ TakeOver
  BY <1>1, <1>10, UntouchedBy
     DEF ReturnRecorded, AssertFails, SaveCheckpoint, Advance, TakeOver, DoItem, durable
<1> QED
  BY <1>2, <1>3, <1>4, <1>5, <1>6, <1>7, <1>8, <1>9, <1>10
     DEF Next, Step, UseInjection, Execute, Mark, EffectBlocked, EffectCached, BeginEffect, Act,
         CompleteEffect, NotIndependent, Verify

\* A passed item is never worked on again, by whatever call: neither a re-entry nor a resume
\* comes to it, and no step of another item's work reaches its rows (_reenter, _do_item).
THEOREM NeverWorkedOnAgain == Spec => PassedForGood
<1>1. TypeInv /\ OrderInv /\ [Next]_vars =>
        [\A i \in Items : Passed(i) =>
           /\ produced'[i] = produced[i]
           /\ \A id \in OutputIds : ledger'[<<i, id>>] = ledger[<<i, id>>]
           /\ \A stage \in {"execute", "act", "verify"} : Of(stage, i)' = Of(stage, i)]_vars
  <2> SUFFICES ASSUME TypeInv, OrderInv, [Next]_vars, NEW i \in Items, Passed(i)
               PROVE  Untouched(i)
    BY DEF Untouched
  <2>1. CASE pc \notin Working
    BY <2>1, NoWork
  <2>2. CASE pc \in Working
    <3>1. i # index
      BY <2>2, VerdictPass DEF OrderInv, TypeInv, TypeOK
    <3>2. CASE Step
      BY <2>2, <3>1, <3>2, WorkElsewhere
    <3>3. log \in Seq(Event)
      BY DEF TypeInv, TypeOK
    <3>4. CASE Start \/ Resume \/ Cut \/ UNCHANGED vars
      BY <3>3, <3>4, UntouchedBy DEF Start, Resume, Call, Cut, durable, vars
    <3>5. CASE Inject \/ InjectRefused \/ SetBreakpoint \/ ClearBreakpoint
      <4>1. \E e \in Event :
              /\ e.stage \in {"inject", "refused", "set_breakpoint", "clear_breakpoint"}
              /\ Emit(e)
        BY <3>5, HumanStep
      <4>2. ledger' = ledger /\ produced' = produced
        BY <3>5, HumanStep
      <4> QED
        BY <3>3, <4>1, <4>2, UntouchedBy
    <3> QED
      BY <3>2, <3>4, <3>5 DEF Next
  <2> QED
    BY <2>1, <2>2
<1> QED
  BY <1>1, TypeInvariance, OrderInvariance, PTL DEF Spec, PassedForGood

------------------------------------------------------------------------------
(* Effects. *)

\* What has been acted before a place of the log stays so.
LEMMA ActedKept ==
  ASSUME log \in Seq(Event), NEW e \in Event, Emit(e), NEW i, NEW id
  PROVE  /\ \A n \in 1 .. Len(log) + 1 : ActedAt(n, i, id) => ActedAt(n, i, id)'
         /\ ActedAt(Len(log) + 1, i, id) => ActedAt(Len(log) + 1, i, id)'
         /\ e.stage = "act" /\ e.item = i /\ e.output.id = id => ActedAt(Len(log) + 1, i, id)'
<1>1. /\ Len(log) \in Nat /\ Len(log') = Len(log) + 1
      /\ \A n \in 1 .. Len(log) : log'[n] = log[n]
      /\ log'[Len(log) + 1] = e
  BY Appended DEF Emit
<1>2. ASSUME NEW n \in 1 .. Len(log) + 1, ActedAt(n, i, id) PROVE ActedAt(n, i, id)'
  BY <1>1, <1>2 DEF ActedAt
<1>3. ASSUME ActedAt(Len(log) + 1, i, id) PROVE ActedAt(Len(log) + 1, i, id)'
  <2>1. PICK m \in 1 .. Len(log) :
          log[m].stage = "act" /\ log[m].item = i /\ log[m].output.id = id
    BY <1>1, <1>3 DEF ActedAt
  <2>2. m \in 1 .. Len(log') + 1 - 1 /\ log'[m] = log[m]
    BY <1>1, <2>1
  <2> QED
    BY <2>1, <2>2 DEF ActedAt
<1>4. ASSUME e.stage = "act" /\ e.item = i /\ e.output.id = id
      PROVE  ActedAt(Len(log) + 1, i, id)'
  <2>1. Len(log) + 1 \in 1 .. Len(log') + 1 - 1
    BY <1>1
  <2> QED
    BY <1>1, <1>4, <2>1 DEF ActedAt
<1> QED
  BY <1>2, <1>3, <1>4

\* Steps that append nothing.
LEMMA EffectQuiet ==
  ASSUME EffectInv, log' = log, plan' = plan, ledger' = ledger,
         pc' = "complete" => pc = "complete" /\ index' = index /\ output' = output,
         pc' = "verify" => ledger[<<index', output'.id>>].status = "completed"
  PROVE  EffectInv'
<1>1. \A n, i, id : ActedAt(n, i, id)' <=> ActedAt(n, i, id)
  BY DEF ActedAt
<1> QED
  BY <1>1 DEF EffectInv, Items, Key

\* Steps that append an event.
LEMMA EffectEmit ==
  ASSUME TypeInv, EffectInv, NEW e \in Event, Emit(e), plan' = plan, ledger' = ledger,
         e.stage = "verify" => pc = "verify" /\ e.item = index /\ e.output = output,
         pc' = "complete" =>
           \/ pc = "complete" /\ index' = index /\ output' = output
           \/ e.stage = "act" /\ e.item = index' /\ e.output = output',
         pc' = "verify" => pc = "verify" /\ index' = index /\ output' = output
  PROVE  EffectInv'
<1>1. /\ log \in Seq(Event) /\ Len(log) \in Nat /\ Len(log') = Len(log) + 1
      /\ DOMAIN log = 1 .. Len(log) /\ DOMAIN log' = 1 .. Len(log) + 1
      /\ \A n \in 1 .. Len(log) : log'[n] = log[n]
      /\ log'[Len(log) + 1] = e
  BY Appended DEF Emit, TypeInv, TypeOK
<1>2. \A i, id :
        /\ \A n \in 1 .. Len(log) + 1 : ActedAt(n, i, id) => ActedAt(n, i, id)'
        /\ ActedAt(Len(log) + 1, i, id) => ActedAt(Len(log) + 1, i, id)'
        /\ e.stage = "act" /\ e.item = i /\ e.output.id = id => ActedAt(Len(log) + 1, i, id)'
  BY <1>1, ActedKept
<1>3. \A i \in Items', id \in OutputIds :
        (ledger[<<i, id>>].status = "completed" => ActedAt(Len(log) + 1, i, id))'
  BY <1>2 DEF EffectInv, Items
<1>4. (pc = "complete" => ActedAt(Len(log) + 1, index, output.id))'
  <2>1. \A i, id : (i = index' /\ id = output'.id /\ pc' = "complete" =>
                      ActedAt(Len(log) + 1, i, id)')
    BY <1>2 DEF EffectInv
  <2> QED
    BY <2>1 DEF ActedAt
<1>5. (pc = "verify" => ledger[Key].status = "completed")'
  BY DEF EffectInv, Key
<1>6. ASSUME NEW n \in DOMAIN log', log'[n].stage = "verify"
      PROVE  /\ ledger'[<<log'[n].item, log'[n].output.id>>].status = "completed"
             /\ \A i, id : i = log'[n].item /\ id = log'[n].output.id => ActedAt(n, i, id)'
  <2>1. CASE n \in 1 .. Len(log)
    BY <1>1, <1>2, <1>6, <2>1 DEF EffectInv
  <2>2. CASE n = Len(log) + 1
    <3>1. pc = "verify" /\ e.item = index /\ e.output = output /\ log'[n] = e
      BY <1>1, <1>6, <2>2
    <3>2. ledger[<<index, output.id>>].status = "completed"
      BY <3>1 DEF EffectInv, Key
    <3>3. index \in Items /\ output.id \in OutputIds
      BY <3>1 DEF TypeInv, TypeOK, AtItem, Working, Output
    <3>4. ActedAt(Len(log) + 1, index, output.id)
      BY <3>2, <3>3 DEF EffectInv
    <3>5. \A i, id : i = index /\ id = output.id => ActedAt(n, i, id)'
      BY <1>1, <1>2, <2>2, <3>4
    <3> QED
      BY <3>1, <3>2, <3>5
  <2> QED
    BY <1>1, <2>1, <2>2
<1>7. (\A n \in DOMAIN log : log[n].stage = "verify" =>
         /\ ledger[<<log[n].item, log[n].output.id>>].status = "completed"
         /\ ActedAt(n, log[n].item, log[n].output.id))'
  BY <1>6 DEF ActedAt
<1> QED
  BY <1>3, <1>4, <1>5, <1>7 DEF EffectInv

\* The ledger's own steps.
LEMMA EffectLedger ==
  ASSUME TypeInv, EffectInv, BeginEffect \/ CompleteEffect
  PROVE  EffectInv'
<1>1. /\ index \in Items /\ output.id \in OutputIds
      /\ ledger \in [Items \X OutputIds -> Row]
  BY DEF BeginEffect, CompleteEffect, TypeInv, TypeOK, AtItem, Working, Output
<1>2. plan' = plan /\ log' = log /\ index' = index /\ output' = output
  BY DEF BeginEffect, CompleteEffect, Hold, local
<1>3. \A n, i, id : ActedAt(n, i, id)' <=> ActedAt(n, i, id)
  BY <1>2 DEF ActedAt
<1>4. \A n \in DOMAIN log : log[n].stage = "verify" =>
        <<log[n].item, log[n].output.id>> \in Items \X OutputIds
  <2> SUFFICES ASSUME NEW n \in DOMAIN log, log[n].stage = "verify"
               PROVE  log[n].item \in Items /\ log[n].output.id \in OutputIds
    OBVIOUS
  <2>1. log[n].output \in Output /\ log[n].output # NoOutput /\ log[n].item \in Items
    BY EventFields DEF TypeInv, TypeOK, Marked
  <2> QED
    BY <2>1 DEF Output
<1>5. \A k \in Items \X OutputIds : k # Key => ledger'[k] = ledger[k]
  BY <1>1 DEF BeginEffect, CompleteEffect
<1>6. Key \in Items \X OutputIds
  BY <1>1 DEF Key
<1>7. CASE BeginEffect
  <2>1. ledger[Key].status # "completed" /\ ledger'[Key].status = "in_flight" /\ pc' = "act"
    BY <1>1, <1>6, <1>7 DEF BeginEffect, Attemptable, Row
  <2>2. \A k \in Items \X OutputIds :
          ledger'[k].status = "completed" <=> ledger[k].status = "completed"
    BY <1>5, <2>1
  <2> QED
    BY <1>2, <1>3, <1>4, <2>1, <2>2 DEF EffectInv, Items
<1>8. CASE CompleteEffect
  <2>1. ledger'[Key].status = "completed" /\ pc' = "verify" /\ pc = "complete"
    BY <1>1, <1>6, <1>8 DEF CompleteEffect
  <2>2. \A k \in Items \X OutputIds :
          ledger'[k].status = "completed" <=> ledger[k].status = "completed" \/ k = Key
    BY <1>5, <2>1
  <2>3. Key' = Key
    BY <1>2 DEF Key
  <2>4. ActedAt(Len(log) + 1, index, output.id)
    BY <2>1 DEF EffectInv
  <2>5. \A i \in Items, id \in OutputIds :
          ledger'[<<i, id>>].status = "completed" => ActedAt(Len(log) + 1, i, id)
    <3> SUFFICES ASSUME NEW i \in Items, NEW id \in OutputIds,
                        ledger'[<<i, id>>].status = "completed"
                 PROVE  ActedAt(Len(log) + 1, i, id)
      OBVIOUS
    <3>1. ledger[<<i, id>>].status = "completed" \/ (i = index /\ id = output.id)
      <4>1. <<i, id>> \in Items \X OutputIds
        OBVIOUS
      <4>2. <<i, id>> = Key => (i = index /\ id = output.id)
        BY DEF Key
      <4> QED
        BY <2>2, <4>1, <4>2
    <3> QED
      BY <2>4, <3>1 DEF EffectInv
  <2> QED
    BY <1>2, <1>3, <1>4, <2>1, <2>2, <2>3, <2>5 DEF EffectInv, Items
<1> QED
  BY <1>7, <1>8

\* The driver's steps preserve the effects.
LEMMA EffectStep == ASSUME TypeInv, EffectInv, Start \/ Resume \/ Step PROVE EffectInv'
<1> USE DEF AtItem, Working
<1>1. /\ index \in Nat /\ attempt \in Nat /\ output \in Output /\ plan \in Plans
  BY PlanShape, Bounds DEF TypeInv, TypeOK
<1>2. CASE Start \/ Resume \/ ReturnRecorded \/ AssertFails \/ SaveCheckpoint \/ UseInjection
           \/ EffectBlocked \/ EffectCached \/ NotIndependent
  BY <1>2, EffectQuiet
     DEF Start, Resume, Call, ReturnRecorded, AssertFails, SaveCheckpoint, UseInjection,
         EffectBlocked, EffectCached, NotIndependent, Return, Hold, durable, local, Key
<1>3. CASE Execute
  BY <1>3, EffectQuiet DEF Execute, Hold
<1>4. CASE Advance \/ TakeOver
  BY <1>4, EffectQuiet
     DEF Advance, TakeOver, DoItem, NextItem, Return, Hold, Reconstructed, durable
<1>5. CASE Specify
  <2>1. [stage |-> "specify"] \in Event
    BY DEF Event
  <2> QED
    BY <1>5, <2>1, EffectEmit DEF Specify, Quiet, Hold
<1>6. CASE Decompose
  <2>1. [stage |-> "decompose"] \in Event
    BY DEF Event
  <2> QED
    BY <1>6, <2>1, EffectEmit DEF Decompose, Quiet, Hold
<1>7. CASE Reenter
  <2>1. FirstUnfinished \in Nat
    BY <1>1, Unfinished, PlanShape
  <2>2. [stage |-> "reenter", item |-> FirstUnfinished] \in Event
    BY <2>1 DEF Event
  <2> QED
    BY <1>7, <2>2, EffectEmit DEF Reenter, Quiet, Hold
<1>8. CASE LogResume
  <2>1. [stage |-> "resume", item |-> index] \in Event
    BY <1>1 DEF Event
  <2> QED
    BY <1>8, <2>1, EffectEmit DEF LogResume, Quiet, Hold
<1>9. CASE Gate
  <2>1. [stage |-> "gate", item |-> index, allow |-> index \in allowed] \in Event
    BY <1>1 DEF Event
  <2> QED
    BY <1>9, <2>1, EffectEmit DEF Gate, Return, Quiet, Hold
<1>10. CASE Pause
  <2>1. [stage |-> "breakpoint", item |-> index] \in Event
    BY <1>1 DEF Event
  <2> QED
    BY <1>10, <2>1, EffectEmit DEF Pause, Quiet, Hold
<1>11. CASE Mark
  <2>1. [stage |-> "execute", item |-> index, attempt |-> attempt, output |-> output] \in Event
    BY <1>1 DEF Event
  <2> QED
    BY <1>11, <2>1, EffectEmit DEF Mark, Quiet, Hold
<1>12. CASE BeginEffect \/ CompleteEffect
  BY <1>12, EffectLedger
<1>13. CASE Act
  <2>1. [stage |-> "act", item |-> index, output |-> output] \in Event
    BY <1>1 DEF Event
  <2> QED
    BY <1>13, <2>1, EffectEmit DEF Act, Quiet, Hold, local
<1>14. ASSUME NEW decision \in Decisions, Verify(decision) PROVE EffectInv'
  <2>1. [stage |-> "verify", item |-> index, attempt |-> attempt, output |-> output,
         decision |-> decision] \in Event
    BY <1>1 DEF Event
  <2> QED
    BY <1>14, <2>1, EffectEmit DEF Verify, NextItem, Return, Quiet, Hold
<1> QED
  BY <1>2, <1>3, <1>4, <1>5, <1>6, <1>7, <1>8, <1>9, <1>10, <1>11, <1>12, <1>13, <1>14 DEF Step

\* So do all others.
LEMMA EffectNext == ASSUME TypeInv, EffectInv, [Next]_vars PROVE EffectInv'
<1>1. CASE Start \/ Resume \/ Step
  BY <1>1, EffectStep
<1>2. CASE Inject \/ InjectRefused \/ SetBreakpoint \/ ClearBreakpoint
  <2>1. PICK e \in Event :
          /\ e.stage \in {"inject", "refused", "set_breakpoint", "clear_breakpoint"}
          /\ Emit(e)
    BY <1>2, HumanStep
  <2>2. plan' = plan /\ ledger' = ledger /\ pc' = pc /\ index' = index /\ output' = output
    BY <1>2, HumanStep DEF local
  <2> QED
    BY <2>1, <2>2, EffectEmit
<1>3. CASE Cut
  BY <1>3, EffectQuiet DEF Cut, Return, durable
<1>4. CASE UNCHANGED vars
  BY <1>4, EffectQuiet DEF vars, durable, local, EffectInv, Key
<1> QED
  BY <1>1, <1>2, <1>3, <1>4 DEF Next

\* The effects are as they should be throughout.
LEMMA EffectInvariance == Spec => []EffectInv
<1>1. Init => EffectInv
  BY DEF Init, EffectInv, NoRow
<1>2. TypeInv /\ EffectInv /\ [Next]_vars => EffectInv'
  BY EffectNext
<1> QED
  BY <1>1, <1>2, TypeInvariance, PTL DEF Spec

\* Nothing is judged whose effect is not complete in the ledger and on the audit trail, also
\* when the call that produced it never got to the effect (_do_item, perform).
THEOREM JudgedAfterEffect == Spec => []EffectBeforeVerdict
<1>1. TypeInv /\ EffectInv => EffectBeforeVerdict
  <2> SUFFICES ASSUME TypeInv, EffectInv, NEW i \in Items, NEW n \in Verifies(i)
               PROVE  /\ ledger[<<i, log[n].output.id>>].status = "completed"
                      /\ \E m \in Before(n, "act") :
                            log[m].item = i /\ log[m].output.id = log[n].output.id
    BY DEF EffectBeforeVerdict
  <2>1. n \in DOMAIN log /\ log[n].stage = "verify" /\ log[n].item = i
    BY DEF Verifies, Of
  <2>2. /\ ledger[<<i, log[n].output.id>>].status = "completed"
        /\ ActedAt(n, i, log[n].output.id)
    BY <2>1 DEF EffectInv
  <2> QED
    BY <2>2 DEF ActedAt, Before
<1> QED
  BY <1>1, TypeInvariance, EffectInvariance, PTL

------------------------------------------------------------------------------
(* Pauses. *)

\* The last pause stays the last until another is recorded.
LEMMA LastPauseKept ==
  ASSUME log \in Seq(Event), NEW e \in Event, Emit(e), NEW i
  PROVE  /\ e.stage # "breakpoint" /\ LastPause(i) => LastPause(i)'
         /\ e.stage = "breakpoint" /\ e.item = i => LastPause(i)'
<1>1. /\ Len(log) \in Nat /\ Len(log') = Len(log) + 1
      /\ DOMAIN log = 1 .. Len(log) /\ DOMAIN log' = 1 .. Len(log) + 1
      /\ \A n \in 1 .. Len(log) : log'[n] = log[n]
      /\ log'[Len(log) + 1] = e
  BY Appended DEF Emit
<1>2. ASSUME e.stage # "breakpoint", LastPause(i) PROVE LastPause(i)'
  <2>1. PICK m \in DOMAIN log :
          /\ log[m].stage = "breakpoint" /\ log[m].item = i
          /\ \A k \in m + 1 .. Len(log) : log[k].stage # "breakpoint"
    BY <1>2 DEF LastPause
  <2>2. \A k \in m + 1 .. Len(log) + 1 : log'[k].stage # "breakpoint"
    BY <1>1, <1>2, <2>1
  <2> QED
    BY <1>1, <2>1, <2>2 DEF LastPause
<1>3. ASSUME e.stage = "breakpoint" /\ e.item = i PROVE LastPause(i)'
  BY <1>1, <1>3 DEF LastPause
<1> QED
  BY <1>2, <1>3

\* Steps that append nothing.
LEMMA PauseQuiet ==
  ASSUME PauseInv, log' = log,
         pc' # "idle" => returned' = "nothing",
         pc' = "checkpoint" => LastPause(index'),
         returned' = "paused" => LastPause(saved')
  PROVE  PauseInv'
<1>1. \A i : LastPause(i)' <=> LastPause(i)
  BY DEF LastPause
<1> QED
  BY <1>1 DEF PauseInv

\* Steps that append an event.
LEMMA PauseEmit ==
  ASSUME TypeInv, PauseInv, NEW e \in Event, Emit(e), saved' = saved,
         e.stage = "breakpoint" => pc # "idle" /\ returned' = "nothing",
         pc' # "idle" => returned' = "nothing",
         returned' = "paused" => returned = "paused",
         pc' = "checkpoint" =>
           \/ e.stage = "breakpoint" /\ e.item = index'
           \/ e.stage # "breakpoint" /\ pc = "checkpoint" /\ index' = index
  PROVE  PauseInv'
<1>1. \A i : /\ e.stage # "breakpoint" /\ LastPause(i) => LastPause(i)'
             /\ e.stage = "breakpoint" /\ e.item = i => LastPause(i)'
  BY LastPauseKept DEF TypeInv, TypeOK
<1>2. (pc = "checkpoint" => LastPause(index))'
  <2>1. ASSUME pc' = "checkpoint", NEW i, i = index' PROVE LastPause(i)'
    BY <1>1, <2>1 DEF PauseInv
  <2> QED
    BY <2>1 DEF LastPause
<1>3. (returned = "paused" => LastPause(saved))'
  <2>1. ASSUME returned' = "paused", NEW i, i = saved PROVE LastPause(i)'
    BY <1>1, <2>1 DEF PauseInv
  <2> QED
    BY <2>1 DEF LastPause
<1> QED
  BY <1>2, <1>3 DEF PauseInv

\* Every step preserves the pauses.
LEMMA PauseNext == ASSUME TypeInv, PauseInv, [Next]_vars PROVE PauseInv'
<1>1. /\ index \in Nat /\ attempt \in Nat /\ output \in Output /\ plan \in Plans
      /\ log \in Seq(Event) /\ FirstUnfinished \in Nat
  BY PlanShape, Bounds, Unfinished DEF TypeInv, TypeOK
<1>2. CASE Start \/ Resume \/ ReturnRecorded \/ AssertFails \/ UseInjection \/ Execute
           \/ EffectBlocked \/ EffectCached \/ BeginEffect \/ CompleteEffect \/ NotIndependent
           \/ Cut \/ UNCHANGED vars
  <2>1. ASSUME ReturnRecorded PROVE returned' # "paused"
    <3>1. FirstUnfinished = Len(plan) + 1 /\ Len(plan) \in Nat /\ Len(plan) > 0
      BY <1>1, <2>1, Unfinished, PlanShape DEF ReturnRecorded
    <3>2. Passed(Len(plan))
      BY <1>1, <3>1, Unfinished
    <3> QED
      BY <2>1, <3>2 DEF ReturnRecorded, Return, Passed
  <2> QED
    BY <1>2, <2>1, PauseQuiet
       DEF Start, Resume, Call, ReturnRecorded, AssertFails, UseInjection, Execute, EffectBlocked,
           EffectCached, BeginEffect, CompleteEffect, NotIndependent, Cut, Return, Hold, durable,
           vars, local, PauseInv
<1>3. CASE SaveCheckpoint
  BY <1>3, PauseQuiet DEF SaveCheckpoint, Return, PauseInv
<1>4. CASE Advance \/ TakeOver
  <2>1. PICK inject : DoItem(inject)
    BY <1>4 DEF Advance, TakeOver
  <2>2. log' = log /\ saved' = saved /\ returned = "nothing"
    BY <1>4, <2>1 DEF Advance, TakeOver, DoItem, durable, PauseInv
  <2>3. HasVerdict(index) => LatestVerdict(index) # "paused"
    <3>1. HasVerdict(index) => LatestVerdict(index) \in Decisions
      BY <1>1, VerdictReturned, EventFields
    <3> QED
      BY <3>1 DEF Decisions
  <2>4. /\ pc' # "checkpoint"
        /\ \/ returned' = "nothing"
           \/ HasVerdict(index) /\ returned' = LatestVerdict(index) /\ pc' = "idle"
    BY <2>1, <2>2 DEF DoItem, NextItem, Return, Hold, Reconstructed
  <2> QED
    BY <2>2, <2>3, <2>4, PauseQuiet
<1>5. CASE Inject \/ InjectRefused \/ SetBreakpoint \/ ClearBreakpoint
  <2>1. PICK e \in Event :
          /\ e.stage \in {"inject", "refused", "set_breakpoint", "clear_breakpoint"}
          /\ Emit(e)
    BY <1>5, HumanStep
  <2>2. saved' = saved /\ pc' = pc /\ index' = index /\ returned' = returned
    BY <1>5, HumanStep DEF local
  <2> QED
    BY <2>1, <2>2, PauseEmit DEF PauseInv
<1>6. CASE Specify
  <2>1. [stage |-> "specify"] \in Event
    BY DEF Event
  <2> QED
    BY <1>6, <2>1, PauseEmit DEF Specify, Quiet, Hold, PauseInv
<1>7. CASE Decompose
  <2>1. [stage |-> "decompose"] \in Event
    BY DEF Event
  <2> QED
    BY <1>7, <2>1, PauseEmit DEF Decompose, Quiet, Hold, PauseInv
<1>8. CASE Reenter
  <2>1. [stage |-> "reenter", item |-> FirstUnfinished] \in Event
    BY <1>1 DEF Event
  <2> QED
    BY <1>8, <2>1, PauseEmit DEF Reenter, Quiet, Hold, PauseInv
<1>9. CASE LogResume
  <2>1. [stage |-> "resume", item |-> index] \in Event
    BY <1>1 DEF Event
  <2> QED
    BY <1>9, <2>1, PauseEmit DEF LogResume, Quiet, Hold, PauseInv
<1>10. CASE Gate
  <2>1. [stage |-> "gate", item |-> index, allow |-> index \in allowed] \in Event
    BY <1>1 DEF Event
  <2> QED
    BY <1>10, <2>1, PauseEmit DEF Gate, Return, Quiet, Hold, PauseInv
<1>11. CASE Pause
  <2>1. [stage |-> "breakpoint", item |-> index] \in Event
    BY <1>1 DEF Event
  <2> QED
    BY <1>11, <2>1, PauseEmit DEF Pause, Quiet, Hold, local, PauseInv
<1>12. CASE Mark
  <2>1. [stage |-> "execute", item |-> index, attempt |-> attempt, output |-> output] \in Event
    BY <1>1 DEF Event
  <2> QED
    BY <1>12, <2>1, PauseEmit DEF Mark, Quiet, Hold, PauseInv
<1>13. CASE Act
  <2>1. [stage |-> "act", item |-> index, output |-> output] \in Event
    BY <1>1 DEF Event
  <2> QED
    BY <1>13, <2>1, PauseEmit DEF Act, Quiet, Hold, PauseInv
<1>14. ASSUME NEW decision \in Decisions, Verify(decision) PROVE PauseInv'
  <2>1. [stage |-> "verify", item |-> index, attempt |-> attempt, output |-> output,
         decision |-> decision] \in Event
    BY <1>1 DEF Event
  <2>2. decision # "paused"
    BY DEF Decisions
  <2> QED
    BY <1>14, <2>1, <2>2, PauseEmit DEF Verify, NextItem, Return, Quiet, Hold, PauseInv
<1> QED
  BY <1>2, <1>3, <1>4, <1>5, <1>6, <1>7, <1>8, <1>9, <1>10, <1>11, <1>12, <1>13, <1>14
     DEF Next, Step

\* The pauses are as they should be throughout.
LEMMA PauseInvariance == Spec => []PauseInv
<1>1. Init => PauseInv
  BY DEF Init, PauseInv
<1>2. TypeInv /\ PauseInv /\ [Next]_vars => PauseInv'
  BY PauseNext
<1> QED
  BY <1>1, <1>2, TypeInvariance, PTL DEF Spec

\* Where the flow resumes is where it paused, with everything before it done: resuming skips
\* no item and restarts none (_pause, inject, resume).
THEOREM ResumeSound == Spec => []ResumePointSound
<1>1. TypeInv /\ ApprovalInv /\ OrderInv /\ PauseInv => ResumePointSound
  <2> SUFFICES ASSUME TypeInv, ApprovalInv, OrderInv, PauseInv PROVE ResumePointSound
    OBVIOUS
  <2>1. log \in Seq(Event) /\ Len(log) \in Nat /\ DOMAIN log = 1 .. Len(log) /\ TrailOrdered
    BY DEF TypeInv, TypeOK, OrderInv
  <2>2. saved # 0 => Of("breakpoint", saved) # {} /\ \A j \in 1 .. saved - 1 : Passed(j)
    BY <2>1, PassIsLast DEF ApprovalInv, PausedNow, PausedAt, Of, OrderInv, Done
  <2>3. ASSUME returned = "paused"
        PROVE  log[Max({n \in DOMAIN log : log[n].stage = "breakpoint"})].item = saved
    <3> DEFINE pauses == {n \in DOMAIN log : log[n].stage = "breakpoint"}
    <3>1. PICK m \in DOMAIN log :
            /\ log[m].stage = "breakpoint" /\ log[m].item = saved
            /\ \A k \in m + 1 .. Len(log) : log[k].stage # "breakpoint"
      BY <2>3 DEF PauseInv, LastPause
    <3>2. m \in pauses /\ pauses \in SUBSET Nat /\ \A k \in pauses : k <= m
      BY <2>1, <3>1
    <3>3. Max(pauses) = m
      <4> HIDE DEF pauses
      <4> QED
        BY <3>2, GreatestIs
    <3> QED
      BY <3>1, <3>3
  <2> QED
    BY <2>2, <2>3 DEF ResumePointSound
<1> QED
  BY <1>1, TypeInvariance, ApprovalInvariance, OrderInvariance, PauseInvariance, PTL

------------------------------------------------------------------------------
(* Breakpoints. *)

\* What an event leaves as it was: an item honoured at a place of the log, and an item honoured
\* now, unless the event opens a call or is a gate.
LEMMA HonouredKept ==
  ASSUME log \in Seq(Event), NEW e \in Event, Emit(e), NEW i
  PROVE  /\ \A n \in 1 .. Len(log) + 1 : HonouredAt(n, i) => HonouredAt(n, i)'
         /\ \A n : /\ n = Len(log) + 2 /\ HonouredAt(Len(log) + 1, i)
                   /\ e.stage \notin {"specify", "reenter", "resume", "gate"}
                   => HonouredAt(n, i)'
<1>1. /\ Len(log) \in Nat /\ Len(log') = Len(log) + 1
      /\ \A n \in 1 .. Len(log) : log'[n] = log[n]
      /\ log'[Len(log) + 1] = e
  BY Appended DEF Emit
<1>2. ASSUME NEW n \in 1 .. Len(log) + 1, HonouredAt(n, i) PROVE HonouredAt(n, i)'
  <2>1. \A m \in 1 .. n - 1 : log'[m] = log[m]
    BY <1>1
  <2>2. ResumedAt(n, i) => ResumedAt(n, i)'
    BY <1>1, <2>1 DEF ResumedAt
  <2>3. ASSUME NEW g \in 1 .. n - 1, GateAt(n, i, g), Cleared(n, i, g)
        PROVE  GateAt(n, i, g)' /\ Cleared(n, i, g)'
    <3>1. GateAt(n, i, g)'
      BY <1>1, <2>1, <2>3 DEF GateAt
    <3>2. \A b \in 1 .. g - 1 : b \in 1 .. n - 1
      BY <1>1
    <3>3. Cleared(n, i, g)'
      BY <2>1, <2>3, <3>2 DEF Cleared
    <3> QED
      BY <3>1, <3>3
  <2> QED
    BY <1>2, <2>2, <2>3 DEF HonouredAt
<1>3. ASSUME HonouredAt(Len(log) + 1, i), NEW n, n = Len(log) + 2,
             e.stage \notin {"specify", "reenter", "resume", "gate"}
      PROVE  HonouredAt(n, i)'
  <2> DEFINE p == Len(log) + 1
  <2>1. p \in Nat /\ n - 1 = p /\ p - 1 = Len(log)
    BY <1>1, <1>3
  <2>2. \A m \in 1 .. p - 1 : m \in 1 .. n - 1 /\ log'[m] = log[m]
    BY <1>1, <2>1
  <2>3. log'[p] = e /\ \A k \in 1 .. n - 1 : k \in 1 .. p - 1 \/ k = p
    BY <1>1, <2>1
  <2>4. CASE ResumedAt(p, i)
    <3>1. PICK m \in 1 .. p - 1 :
            /\ log[m].stage = "resume" /\ log[m].item = i
            /\ \A k \in m + 1 .. p - 1 : log[k].stage \notin {"specify", "reenter", "resume"}
      BY <2>4 DEF ResumedAt
    <3>2. \A k \in m + 1 .. n - 1 : log'[k].stage \notin {"specify", "reenter", "resume"}
      BY <1>1, <1>3, <2>1, <3>1
    <3> QED
      BY <2>2, <3>1, <3>2 DEF HonouredAt, ResumedAt
  <2>5. ASSUME NEW g \in 1 .. p - 1, GateAt(p, i, g), Cleared(p, i, g) PROVE HonouredAt(n, i)'
    <3>1. \A k \in g + 1 .. n - 1 : ~(log'[k].stage = "gate" /\ log'[k].item = i)
      BY <1>1, <1>3, <2>1, <2>5 DEF GateAt
    <3>2. GateAt(n, i, g)' /\ g \in 1 .. n - 1
      BY <2>2, <2>5, <3>1 DEF GateAt
    <3>3. \A b \in 1 .. g - 1 : b \in 1 .. p - 1
      BY <2>1
    <3>4. Cleared(n, i, g)'
      BY <2>2, <2>5, <3>3 DEF Cleared
    <3> QED
      BY <3>2, <3>4 DEF HonouredAt
  <2> QED
    BY <1>3, <2>4, <2>5 DEF HonouredAt
<1> QED
  BY <1>2, <1>3

\* Steps that append nothing: work begins at the gate only where no breakpoint stands.
LEMMA HonourQuiet ==
  ASSUME TypeInv, HonourInv, log' = log,
         pc' \in Working \cup {"resumed"} =>
           /\ index' = index
           /\ pc \in Working \cup {"resumed"} \/ (pc = "gated" /\ ~AdhocHit(index)),
         pc' = "gated" => pc = "gated" /\ index' = index
  PROVE  HonourInv'
<1>1. Len(log) \in Nat /\ DOMAIN log = 1 .. Len(log)
  BY DEF TypeInv, TypeOK
<1>2. \A n, i : HonouredAt(n, i)' <=> HonouredAt(n, i)
  BY DEF HonouredAt, ResumedAt, GateAt, Cleared
<1>3. ASSUME pc = "gated", ~AdhocHit(index) PROVE HonouredAt(Len(log) + 1, index)
  <2>1. PICK g \in 1 .. Len(log) : GateAt(Len(log) + 1, index, g)
    BY <1>3 DEF HonourInv
  <2>2. ASSUME NEW b \in 1 .. g - 1, log[b].stage = "set_breakpoint", log[b].item \in {0, index}
        PROVE  \E m \in 1 .. Len(log) :
                 log[m].stage = "clear_breakpoint" /\ log[m].bp = log[b].bp
    <3>1. b \in 1 .. Len(log)
      BY <1>1
    <3>2. ~Active(b)
      BY <1>1, <1>3, <2>2, <3>1 DEF AdhocHit
    <3>3. PICK m \in b + 1 .. Len(log) :
            log[m].stage = "clear_breakpoint" /\ log[m].bp = log[b].bp
      BY <2>2, <3>2 DEF Active
    <3> QED
      BY <1>1, <3>1, <3>3
  <2>3. (Len(log) + 1) - 1 = Len(log)
    BY <1>1
  <2>4. Cleared(Len(log) + 1, index, g)
    BY <2>2, <2>3 DEF Cleared
  <2> QED
    BY <2>1, <2>3, <2>4 DEF HonouredAt
<1>4. pc' \in Working \cup {"resumed"} => HonouredAt(Len(log) + 1, index)
  BY <1>3 DEF HonourInv
<1>5. \A n \in DOMAIN log' : log'[n].stage = "execute" => HonouredAt(n, log[n].item)
  BY DEF HonourInv
<1>6. pc' = "gated" => \E g \in 1 .. Len(log) : GateAt(Len(log) + 1, index, g)
  BY DEF HonourInv
<1> QED
  BY <1>4, <1>5, <1>6 DEF HonourInv, HonouredAt, ResumedAt, GateAt, Cleared

\* Steps that append an event.
LEMMA HonourEmit ==
  ASSUME TypeInv, HonourInv, NEW e \in Event, Emit(e),
         e.stage = "execute" => pc \in Working /\ e.item = index,
         pc' \in Working \cup {"resumed"} =>
           /\ index' = index
           /\ \/ /\ pc \in Working \cup {"resumed"}
                 /\ e.stage \notin {"specify", "reenter", "resume", "gate"}
              \/ e.stage = "resume" /\ e.item = index,
         pc' = "gated" =>
           /\ index' = index
           /\ \/ pc = "gated" /\ e.stage # "gate"
              \/ e.stage = "gate" /\ e.item = index
  PROVE  HonourInv'
<1>1. /\ log \in Seq(Event) /\ Len(log) \in Nat /\ Len(log') = Len(log) + 1
      /\ DOMAIN log = 1 .. Len(log) /\ DOMAIN log' = 1 .. Len(log) + 1
      /\ \A n \in 1 .. Len(log) : log'[n] = log[n]
      /\ log'[Len(log) + 1] = e
  BY Appended DEF Emit, TypeInv, TypeOK
<1>2. \A i : \A n \in 1 .. Len(log) + 1 : HonouredAt(n, i) => HonouredAt(n, i)'
  BY <1>1, HonouredKept
<1>3. ASSUME NEW n \in DOMAIN log', log'[n].stage = "execute", NEW i, i = log'[n].item
      PROVE  HonouredAt(n, i)'
  <2>1. CASE n \in 1 .. Len(log)
    BY <1>1, <1>2, <1>3, <2>1 DEF HonourInv
  <2>2. CASE n = Len(log) + 1
    BY <1>1, <1>2, <1>3, <2>2 DEF HonourInv
  <2> QED
    BY <1>1, <2>1, <2>2
<1>4. ASSUME pc' \in Working \cup {"resumed"}, NEW n, n = Len(log) + 2 PROVE HonouredAt(n, index)'
  <2>1. CASE /\ pc \in Working \cup {"resumed"}
             /\ e.stage \notin {"specify", "reenter", "resume", "gate"}
    BY <1>1, <1>4, <2>1, HonouredKept DEF HonourInv
  <2>2. CASE e.stage = "resume" /\ e.item = index
    <3>1. /\ Len(log) + 1 \in 1 .. n - 1 /\ log'[Len(log) + 1].stage = "resume"
          /\ log'[Len(log) + 1].item = index'
          /\ \A k \in Len(log) + 2 .. n - 1 : FALSE
      BY <1>1, <1>4, <2>2
    <3> QED
      BY <3>1 DEF HonouredAt, ResumedAt
  <2> QED
    BY <1>4, <2>1, <2>2
<1>5. pc' \in Working \cup {"resumed"} => HonouredAt(Len(log) + 1, index)'
  <2> SUFFICES ASSUME pc' \in Working \cup {"resumed"} PROVE HonouredAt(Len(log) + 1, index)'
    OBVIOUS
  <2>1. PICK n : n = Len(log) + 2
    OBVIOUS
  <2>2. HonouredAt(n, index)' /\ n = Len(log') + 1
    BY <1>1, <1>4, <2>1
  <2> QED
    BY <2>2 DEF HonouredAt, ResumedAt, GateAt, Cleared
<1>6. \A n \in DOMAIN log' : log'[n].stage = "execute" => HonouredAt(n, log[n].item)'
  <2> SUFFICES ASSUME NEW n \in DOMAIN log', log'[n].stage = "execute"
               PROVE  HonouredAt(n, log[n].item)'
    OBVIOUS
  <2>1. PICK i : i = log'[n].item
    OBVIOUS
  <2>2. HonouredAt(n, i)'
    BY <1>3, <2>1
  <2> QED
    BY <2>1, <2>2 DEF HonouredAt, ResumedAt, GateAt, Cleared
<1>7. pc' = "gated" => (\E g \in 1 .. Len(log) : GateAt(Len(log) + 1, index, g))'
  <2>1. CASE pc' = "gated" /\ pc = "gated" /\ e.stage # "gate"
    <3>1. PICK g \in 1 .. Len(log) : GateAt(Len(log) + 1, index, g)
      BY <2>1 DEF HonourInv
    <3>2. g \in 1 .. Len(log') /\ log'[g].stage = "gate" /\ log'[g].item = index'
      BY <1>1, <2>1, <3>1 DEF GateAt
    <3>3. \A k \in g + 1 .. (Len(log') + 1) - 1 : ~(log'[k].stage = "gate" /\ log'[k].item = index')
      BY <1>1, <2>1, <3>1 DEF GateAt
    <3> QED
      BY <3>2, <3>3 DEF GateAt
  <2>2. CASE pc' = "gated" /\ e.stage = "gate" /\ e.item = index
    <3>1. /\ Len(log') \in 1 .. Len(log') /\ log'[Len(log')].stage = "gate"
          /\ log'[Len(log')].item = index'
          /\ \A k \in Len(log') + 1 .. (Len(log') + 1) - 1 : FALSE
      BY <1>1, <2>2
    <3> QED
      BY <3>1 DEF GateAt
  <2> QED
    BY <2>1, <2>2
<1> QED
  BY <1>5, <1>6, <1>7 DEF HonourInv

\* The driver's steps honour breakpoints.
LEMMA HonourStep == ASSUME TypeInv, HonourInv, Start \/ Resume \/ Step PROVE HonourInv'
<1> USE DEF AtItem, Working
<1>1. /\ index \in Nat /\ attempt \in Nat /\ output \in Output
      /\ 1 .. Len(plan) = Items
      /\ pc \in AtItem => index \in Items
  BY PlanShape, Bounds DEF TypeInv, TypeOK
<1>2. CASE Start \/ Resume
  BY <1>2, HonourQuiet DEF Start, Resume, Call, durable
<1>3. CASE Specify
  <2>1. [stage |-> "specify"] \in Event
    BY DEF Event
  <2> QED
    BY <1>3, <2>1, HonourEmit DEF Specify
<1>4. CASE Decompose
  <2>1. [stage |-> "decompose"] \in Event
    BY DEF Event
  <2> QED
    BY <1>4, <2>1, HonourEmit DEF Decompose
<1>5. CASE Reenter
  <2>1. FirstUnfinished \in Nat
    BY Unfinished, PlanShape DEF TypeInv, TypeOK
  <2>2. [stage |-> "reenter", item |-> FirstUnfinished] \in Event
    BY <2>1 DEF Event
  <2> QED
    BY <1>5, <2>2, HonourEmit DEF Reenter
<1>6. CASE LogResume
  <2>1. [stage |-> "resume", item |-> index] \in Event
    BY <1>1 DEF Event
  <2> QED
    BY <1>6, <2>1, HonourEmit DEF LogResume, local
<1>7. CASE Gate
  <2>1. [stage |-> "gate", item |-> index, allow |-> index \in allowed] \in Event
    BY <1>1 DEF Event
  <2> QED
    BY <1>7, <2>1, HonourEmit DEF Gate, Return, local
<1>8. CASE Pause
  <2>1. [stage |-> "breakpoint", item |-> index] \in Event
    BY <1>1 DEF Event
  <2> QED
    BY <1>8, <2>1, HonourEmit DEF Pause
<1>9. CASE Advance
  <2>1. ~AdhocHit(index)
    BY <1>9 DEF Advance, PausePoint
  <2> QED
    BY <1>9, <2>1, HonourQuiet
       DEF Advance, DoItem, NextItem, Return, Hold, Reconstructed, durable
<1>10. CASE TakeOver
  BY <1>10, HonourQuiet DEF TakeOver, DoItem, NextItem, Return, Hold, Reconstructed, durable
<1>11. CASE ReturnRecorded \/ AssertFails \/ SaveCheckpoint
  BY <1>11, HonourQuiet DEF ReturnRecorded, AssertFails, SaveCheckpoint, Return, durable
<1>12. CASE UseInjection \/ Execute
  BY <1>12, HonourQuiet DEF UseInjection, Execute, durable
<1>13. CASE Mark
  <2>1. [stage |-> "execute", item |-> index, attempt |-> attempt, output |-> output] \in Event
    BY <1>1 DEF Event
  <2> QED
    BY <1>13, <2>1, HonourEmit DEF Mark, local
<1>14. CASE EffectBlocked \/ EffectCached \/ BeginEffect \/ CompleteEffect \/ NotIndependent
  BY <1>14, HonourQuiet
     DEF EffectBlocked, EffectCached, BeginEffect, CompleteEffect, NotIndependent, Return,
         durable, local
<1>15. CASE Act
  <2>1. [stage |-> "act", item |-> index, output |-> output] \in Event
    BY <1>1 DEF Event
  <2> QED
    BY <1>15, <2>1, HonourEmit DEF Act, local
<1>16. ASSUME NEW decision \in Decisions, Verify(decision) PROVE HonourInv'
  <2>1. [stage |-> "verify", item |-> index, attempt |-> attempt, output |-> output,
         decision |-> decision] \in Event
    BY <1>1 DEF Event
  <2> QED
    BY <1>16, <2>1, HonourEmit DEF Verify, NextItem, Return
<1> QED
  BY <1>2, <1>3, <1>4, <1>5, <1>6, <1>7, <1>8, <1>9, <1>10, <1>11, <1>12, <1>13, <1>14, <1>15,
     <1>16 DEF Step

\* So does whatever the human does meanwhile, and the death of a call.
LEMMA HonourNext == ASSUME TypeInv, HonourInv, [Next]_vars PROVE HonourInv'
<1>1. CASE Start \/ Resume \/ Step
  BY <1>1, HonourStep
<1>2. CASE Inject \/ InjectRefused \/ SetBreakpoint \/ ClearBreakpoint
  <2>1. PICK e \in Event :
          /\ e.stage \in {"inject", "refused", "set_breakpoint", "clear_breakpoint"}
          /\ Emit(e)
    BY <1>2, HumanStep
  <2>2. pc' = pc /\ index' = index
    BY <1>2, HumanStep DEF local
  <2> QED
    BY <2>1, <2>2, HonourEmit
<1>3. CASE Cut
  BY <1>3, HonourQuiet DEF Cut, Return, durable, Working
<1>4. CASE UNCHANGED vars
  BY <1>4, HonourQuiet DEF vars, durable, local
<1> QED
  BY <1>1, <1>2, <1>3, <1>4 DEF Next

\* Work is resumed or let by throughout.
LEMMA HonourInvariance == Spec => []HonourInv
<1>1. Init => HonourInv
  BY DEF Init, HonourInv, Working
<1>2. TypeInv /\ HonourInv /\ [Next]_vars => HonourInv'
  BY HonourNext
<1> QED
  BY <1>1, <1>2, TypeInvariance, PTL DEF Spec

\* A breakpoint that stood at an item's gate, and stands when the item's execution is recorded,
\* stopped the flow: a human resumed it at that item (_advance and _adhoc_hit).
THEOREM BreakpointsHonoured == Spec => []BreakpointHonoured
<1>1. TypeInv /\ HonourInv => BreakpointHonoured
  <2> SUFFICES ASSUME TypeInv, HonourInv, NEW i \in Items, NEW n \in Executes(i), ~Approved(n, i),
                      NEW b \in Before(Max({m \in Before(n, "gate") : log[m].item = i}),
                                       "set_breakpoint"),
                      log[b].item \in {0, i}
               PROVE  \E m \in Before(n, "clear_breakpoint") : log[m].bp = log[b].bp
    BY DEF BreakpointHonoured
  <2> DEFINE gates == {m \in Before(n, "gate") : log[m].item = i}
  <2>1. /\ log \in Seq(Event) /\ Len(log) \in Nat /\ DOMAIN log = 1 .. Len(log)
        /\ n \in 1 .. Len(log) /\ log[n].stage = "execute" /\ log[n].item = i
    BY DEF TypeInv, TypeOK, Executes, Of
  <2>2. HonouredAt(n, i)
    BY <2>1 DEF HonourInv
  <2>3. ~ResumedAt(n, i)
    <3>1. n \in 1 .. Len(log) + 1
      BY <2>1
    <3> QED
      BY <2>1, <3>1, ResumedIsApproved
  <2>4. PICK g \in 1 .. n - 1 : GateAt(n, i, g) /\ Cleared(n, i, g)
    BY <2>2, <2>3 DEF HonouredAt
  <2>5. g \in gates /\ gates \in SUBSET Nat
    BY <2>1, <2>4 DEF GateAt, Before
  <2>6. \A k \in gates : k <= g
    BY <2>1, <2>4 DEF GateAt, Before
  <2>7. Max(gates) = g
    <3> HIDE DEF gates
    <3> QED
      BY <2>5, <2>6, GreatestIs
  <2>8. b \in 1 .. g - 1 /\ log[b].stage = "set_breakpoint"
    BY <2>7 DEF Before
  <2>9. PICK m \in 1 .. n - 1 : log[m].stage = "clear_breakpoint" /\ log[m].bp = log[b].bp
    BY <2>4, <2>8 DEF Cleared
  <2> QED
    BY <2>9 DEF Before
<1> QED
  BY <1>1, TypeInvariance, HonourInvariance, PTL

------------------------------------------------------------------------------
(* Injections. *)

\* What an event leaves as it was: an edit stays injected, an item unexecuted unless the event
\* is an execution.
LEMMA InjectedKept ==
  ASSUME log \in Seq(Event), NEW e \in Event, Emit(e)
  PROVE  /\ \A o, i : InjectedFor(o, i) => InjectedFor(o, i)'
         /\ e.stage # "execute" => \A i : Unworked(i) => Unworked(i)'
<1>1. /\ DOMAIN log = 1 .. Len(log) /\ DOMAIN log' = 1 .. Len(log) + 1
      /\ Len(log) \in Nat
      /\ \A n \in 1 .. Len(log) : log'[n] = log[n]
      /\ log'[Len(log) + 1] = e
  BY Appended DEF Emit
<1>2. \A n \in DOMAIN log : n \in DOMAIN log' /\ log'[n] = log[n]
  BY <1>1
<1>3. \A n \in DOMAIN log' : n \in DOMAIN log \/ log'[n] = e
  BY <1>1
<1> QED
  BY <1>2, <1>3 DEF InjectedFor, Unworked

\* Steps that append nothing.
LEMMA InjectionQuiet ==
  ASSUME TypeInv, InjectionInv, log' = log,
         pc' = "produce" /\ injection' # NoOutput =>
           Unworked(index') /\ InjectedFor(injection', index'),
         pc' = "mark" /\ output'.by # "Executor" =>
           Unworked(index') /\ InjectedFor(output', index')
  PROVE  InjectionInv'
BY DEF InjectionInv, Unworked, InjectedFor

\* Steps that append an event: one that records an execution records what is at hand.
LEMMA InjectionEmit ==
  ASSUME TypeInv, InjectionInv, NEW e \in Event, Emit(e),
         e.stage = "inject" /\ e.edit # NoOutput =>
           e.edit.by \in Seats /\ e.edit.n = Len(log) + 1,
         e.stage = "execute" => pc = "mark" /\ e.item = index /\ e.output = output,
         pc' = "produce" => \/ injection' = NoOutput
                            \/ /\ pc = "produce" /\ injection' = injection /\ index' = index
                               /\ e.stage # "execute",
         pc' = "mark" => /\ pc = "mark" /\ output' = output /\ index' = index
                         /\ e.stage # "execute"
  PROVE  InjectionInv'
<1>1. /\ log \in Seq(Event) /\ Len(log) \in Nat
      /\ DOMAIN log = 1 .. Len(log) /\ DOMAIN log' = 1 .. Len(log) + 1
      /\ \A n \in 1 .. Len(log) : log'[n] = log[n]
      /\ log'[Len(log) + 1] = e
  BY Appended DEF Emit, TypeInv, TypeOK
<1>2. /\ \A o, i : InjectedFor(o, i) => InjectedFor(o, i)'
      /\ e.stage # "execute" => \A i : Unworked(i) => Unworked(i)'
  BY <1>1, InjectedKept
<1>3. ASSUME NEW p \in DOMAIN log', log'[p].stage = "inject", log'[p].edit # NoOutput
      PROVE  log'[p].edit.by \in Seats /\ log'[p].edit.n = p
  BY <1>1, <1>3 DEF InjectionInv
<1>4. ASSUME NEW n \in DOMAIN log', log'[n].stage = "execute", log'[n].output.by # "Executor",
             NEW o, o = log'[n].output, NEW i, i = log'[n].item
      PROVE  /\ InjectedFor(o, i)'
             /\ \A m \in 1 .. n - 1 : ~(log'[m].stage = "execute" /\ log'[m].item = i)
  <2>1. CASE n \in DOMAIN log
    <3>1. /\ InjectedFor(o, i)
          /\ \A m \in 1 .. n - 1 : ~(log[m].stage = "execute" /\ log[m].item = i)
      BY <1>1, <1>4, <2>1 DEF InjectionInv
    <3>2. \A m \in 1 .. n - 1 : log'[m] = log[m]
      BY <1>1, <2>1
    <3> QED
      BY <1>2, <3>1, <3>2
  <2>2. CASE n = Len(log) + 1
    <3>1. o = output /\ i = index /\ pc = "mark"
      BY <1>1, <1>4, <2>2
    <3>2. InjectedFor(o, i) /\ Unworked(i)
      BY <1>4, <3>1 DEF InjectionInv
    <3>3. \A m \in 1 .. n - 1 : m \in DOMAIN log /\ log'[m] = log[m]
      BY <1>1, <2>2
    <3> QED
      BY <1>2, <3>2, <3>3 DEF Unworked
  <2> QED
    BY <1>1, <2>1, <2>2
<1>5. ASSUME pc' = "produce", injection' # NoOutput
      PROVE  Unworked(index)' /\ InjectedFor(injection, index)'
  <2>1. Unworked(index) /\ InjectedFor(injection, index)
    BY <1>5 DEF InjectionInv
  <2>2. \A o, i : o = injection /\ i = index => Unworked(i)' /\ InjectedFor(o, i)'
    BY <1>2, <1>5, <2>1
  <2> QED
    BY <1>5, <2>2 DEF Unworked, InjectedFor
<1>6. ASSUME pc' = "mark", output'.by # "Executor"
      PROVE  Unworked(index)' /\ InjectedFor(output, index)'
  <2>1. Unworked(index) /\ InjectedFor(output, index)
    BY <1>6 DEF InjectionInv
  <2>2. \A o, i : o = output /\ i = index => Unworked(i)' /\ InjectedFor(o, i)'
    BY <1>2, <1>6, <2>1
  <2> QED
    BY <1>6, <2>2 DEF Unworked, InjectedFor
<1>7. \A n \in DOMAIN log' : log'[n].stage = "execute" /\ log'[n].output.by # "Executor" =>
        /\ InjectedFor(log[n].output, log[n].item)'
        /\ \A m \in 1 .. n - 1 : ~(log'[m].stage = "execute" /\ log'[m].item = log'[n].item)
  BY <1>4 DEF InjectedFor
<1> QED
  BY <1>3, <1>5, <1>6, <1>7 DEF InjectionInv

\* _do_item takes an injection only for an item that nothing was produced for: one that has been
\* executed has either a verdict or an output to reconstruct.
LEMMA InjectionDoItem ==
  ASSUME TypeInv, InjectionInv, NEW inject, DoItem(inject),
         inject # NoOutput => InjectedFor(inject, index)
  PROVE  InjectionInv'
<1>1. log' = log /\ pc' # "mark"
  BY DEF DoItem, NextItem, Return, Reconstructed, durable
<1>2. ASSUME pc' = "produce"
      PROVE  index' = index /\ injection' = inject /\ ~HasVerdict(index) /\ ~HasUnverified(index)
  BY <1>2 DEF DoItem, NextItem, Return, Reconstructed
<1>3. ASSUME ~HasVerdict(index), ~HasUnverified(index) PROVE Unworked(index)
  <2>1. IsFiniteSet(Executes(index)) /\ Verifies(index) = {}
    BY <1>3, PlacesOf DEF HasVerdict, TypeInv, TypeOK
  <2>2. Cardinality(Verifies(index)) = 0 /\ Cardinality(Executes(index)) \in Nat
    BY <2>1, FS_EmptySet, FS_CardinalityType
  <2>3. Cardinality(Executes(index)) = 0
    BY <1>3, <2>2 DEF HasUnverified
  <2>4. Executes(index) = {}
    BY <2>1, <2>3, FS_EmptySet
  <2> QED
    BY <2>4 DEF Executes, Of, Unworked
<1>4. pc' = "produce" /\ injection' # NoOutput =>
        Unworked(index') /\ InjectedFor(injection', index')
  BY <1>2, <1>3
<1> QED
  BY <1>1, <1>4, InjectionQuiet

\* The latest injection against an item is one of the injections against it.
LEMMA InjectionFound ==
  ASSUME log \in Seq(Event), NEW i, LatestInjection(i) # NoOutput
  PROVE  InjectedFor(LatestInjection(i), i)
<1> DEFINE made == Of("inject", i)
<1>1. Len(log) \in Nat /\ made \subseteq 1 .. Len(log)
  BY DEF Of
<1>2. made # {} /\ LatestInjection(i) = log[Max(made)].edit
  BY DEF LatestInjection
<1>3. Max(made) \in made
  <2> HIDE DEF made
  <2> QED
    BY <1>1, <1>2, Greatest
<1> QED
  BY <1>2, <1>3 DEF InjectedFor, Of

\* The driver's steps.
LEMMA InjectionStep ==
  ASSUME TypeInv, InjectionInv, Start \/ Resume \/ Step
  PROVE  InjectionInv'
<1> USE DEF AtItem, Working
<1>1. /\ index \in Nat /\ attempt \in Nat /\ output \in Output /\ log \in Seq(Event)
      /\ 1 .. Len(plan) = Items
  BY PlanShape, Bounds DEF TypeInv, TypeOK
<1>2. CASE Start \/ Resume
  BY <1>2, InjectionQuiet DEF Start, Resume, Call, durable
<1>3. CASE Specify
  <2>1. [stage |-> "specify"] \in Event
    BY DEF Event
  <2> QED
    BY <1>3, <2>1, InjectionEmit DEF Specify
<1>4. CASE Decompose
  <2>1. [stage |-> "decompose"] \in Event
    BY DEF Event
  <2> QED
    BY <1>4, <2>1, InjectionEmit DEF Decompose
<1>5. CASE Reenter
  <2>1. FirstUnfinished \in Nat
    BY Unfinished, PlanShape DEF TypeInv, TypeOK
  <2>2. [stage |-> "reenter", item |-> FirstUnfinished] \in Event
    BY <2>1 DEF Event
  <2> QED
    BY <1>5, <2>2, InjectionEmit DEF Reenter
<1>6. CASE LogResume
  <2>1. [stage |-> "resume", item |-> index] \in Event
    BY <1>1 DEF Event
  <2> QED
    BY <1>6, <2>1, InjectionEmit DEF LogResume
<1>7. CASE Gate
  <2>1. [stage |-> "gate", item |-> index, allow |-> index \in allowed] \in Event
    BY <1>1 DEF Event
  <2> QED
    BY <1>7, <2>1, InjectionEmit DEF Gate, Return
<1>8. CASE Pause
  <2>1. [stage |-> "breakpoint", item |-> index] \in Event
    BY <1>1 DEF Event
  <2> QED
    BY <1>8, <2>1, InjectionEmit DEF Pause
<1>9. CASE Advance
  BY <1>9, InjectionDoItem DEF Advance
<1>10. CASE TakeOver
  BY <1>1, <1>10, InjectionFound, InjectionDoItem DEF TakeOver
<1>11. CASE ReturnRecorded \/ AssertFails \/ SaveCheckpoint
  BY <1>11, InjectionQuiet DEF ReturnRecorded, AssertFails, SaveCheckpoint, Return, durable
<1>12. CASE UseInjection
  BY <1>12, InjectionQuiet DEF UseInjection, InjectionInv, durable
<1>13. CASE Execute
  BY <1>13, InjectionQuiet DEF Execute
<1>14. CASE Mark
  <2>1. [stage |-> "execute", item |-> index, attempt |-> attempt, output |-> output] \in Event
    BY <1>1 DEF Event
  <2> QED
    BY <1>14, <2>1, InjectionEmit DEF Mark
<1>15. CASE EffectBlocked \/ EffectCached \/ BeginEffect \/ CompleteEffect \/ NotIndependent
  BY <1>15, InjectionQuiet
     DEF EffectBlocked, EffectCached, BeginEffect, CompleteEffect, NotIndependent, Return, durable
<1>16. CASE Act
  <2>1. [stage |-> "act", item |-> index, output |-> output] \in Event
    BY <1>1 DEF Event
  <2> QED
    BY <1>16, <2>1, InjectionEmit DEF Act
<1>17. ASSUME NEW decision \in Decisions, Verify(decision) PROVE InjectionInv'
  <2>1. [stage |-> "verify", item |-> index, attempt |-> attempt, output |-> output,
         decision |-> decision] \in Event
    BY <1>1 DEF Event
  <2> QED
    BY <1>17, <2>1, InjectionEmit DEF Verify, NextItem, Return, Consumed
<1> QED
  BY <1>2, <1>3, <1>4, <1>5, <1>6, <1>7, <1>8, <1>9, <1>10, <1>11, <1>12, <1>13, <1>14, <1>15,
     <1>16, <1>17 DEF Step

\* So it is at every step of a human, whose edit takes its place in the log as its number, and
\* when a call dies.
LEMMA InjectionNext ==
  ASSUME TypeInv, InjectionInv, [Next]_vars
  PROVE  InjectionInv'
<1>1. CASE Start \/ Resume \/ Step
  BY <1>1, InjectionStep
<1>2. CASE InjectRefused \/ SetBreakpoint \/ ClearBreakpoint
  <2>1. PICK e \in Event :
          /\ e.stage \in {"inject", "refused", "set_breakpoint", "clear_breakpoint"}
          /\ Emit(e)
    BY <1>2, HumanStep
  <2>2. UNCHANGED <<pc, index, output, injection>>
    BY <1>2, HumanStep DEF local
  <2>3. e.stage # "inject"
    <3>1. log \in Seq(Event) /\ Len(log) + 1 \in Nat
      BY DEF TypeInv, TypeOK
    <3>2. \A d : Emit(d) => log'[Len(log) + 1] = d
      BY <3>1 DEF Emit
    <3>3. log'[Len(log) + 1] = e
      BY <2>1, <3>2
    <3>4. CASE InjectRefused
      <4>1. Emit([stage |-> "refused", item |-> saved])
        BY <3>4 DEF InjectRefused, Injects, Human
      <4>2. e = [stage |-> "refused", item |-> saved]
        BY <3>2, <3>3, <4>1
      <4> QED
        BY <4>2
    <3>5. ASSUME NEW i, NEW bp, Emit([stage |-> "set_breakpoint", item |-> i, bp |-> bp])
          PROVE  e.stage # "inject"
      <4>1. e = [stage |-> "set_breakpoint", item |-> i, bp |-> bp]
        BY <3>2, <3>3, <3>5
      <4> QED
        BY <4>1
    <3>6. ASSUME NEW bp, Emit([stage |-> "clear_breakpoint", bp |-> bp])
          PROVE  e.stage # "inject"
      <4>1. e = [stage |-> "clear_breakpoint", bp |-> bp]
        BY <3>2, <3>3, <3>6
      <4> QED
        BY <4>1
    <3>7. CASE SetBreakpoint
      BY <3>5, <3>7 DEF SetBreakpoint, Breakpoints, Human
    <3>8. CASE ClearBreakpoint
      BY <3>6, <3>8 DEF ClearBreakpoint, Breakpoints, Human
    <3> QED
      BY <1>2, <3>4, <3>7, <3>8
  <2> QED
    BY <2>1, <2>2, <2>3, InjectionEmit
<1>3. CASE Inject
  <2>1. PICK e : /\ e.stage = "inject" /\ Emit(e) /\ e \in Event
                 /\ UNCHANGED <<pc, local>>
                 /\ e.edit # NoOutput => e.edit.by \in Seats /\ e.edit.n = Len(log) + 1
    <3>1. saved \in Nat /\ Len(log) + 1 \in Nat
      BY PlanShape DEF TypeInv, TypeOK
    <3>2. ASSUME NEW seat \in Seats, NEW id \in OutputIds,
                 Injects([stage |-> "inject", item |-> saved,
                          edit |-> [id |-> id, by |-> seat, n |-> Len(log) + 1]])
          PROVE  \E e : /\ e.stage = "inject" /\ Emit(e) /\ e \in Event
                        /\ UNCHANGED <<pc, local>>
                        /\ e.edit # NoOutput => e.edit.by \in Seats /\ e.edit.n = Len(log) + 1
      <4> DEFINE edit == [id |-> id, by |-> seat, n |-> Len(log) + 1]
      <4>1. edit \in Output /\ edit.by \in Seats /\ edit.n = Len(log) + 1
        BY <3>1 DEF Output, Actors
      <4> HIDE DEF edit
      <4>2. [stage |-> "inject", item |-> saved, edit |-> edit] \in Event
        BY <3>1, <4>1 DEF Event
      <4>3. Injects([stage |-> "inject", item |-> saved, edit |-> edit])
        BY <3>2 DEF edit
      <4> QED
        BY <4>1, <4>2, <4>3 DEF Injects, Human
    <3>3. ASSUME Injects([stage |-> "inject", item |-> saved, edit |-> NoOutput])
          PROVE  \E e : /\ e.stage = "inject" /\ Emit(e) /\ e \in Event
                        /\ UNCHANGED <<pc, local>>
                        /\ e.edit # NoOutput => e.edit.by \in Seats /\ e.edit.n = Len(log) + 1
      <4>1. [stage |-> "inject", item |-> saved, edit |-> NoOutput] \in Event
        BY <3>1 DEF Event, Output
      <4> QED
        BY <3>3, <4>1 DEF Injects, Human
    <3> QED
      BY <1>3, <3>2, <3>3 DEF Inject
  <2> QED
    BY <2>1, InjectionEmit DEF local
<1>4. CASE Cut
  BY <1>4, InjectionQuiet DEF Cut, Return, durable
<1>5. CASE UNCHANGED vars
  BY <1>5, InjectionQuiet DEF vars, durable, local, InjectionInv
<1> QED
  BY <1>1, <1>2, <1>3, <1>4, <1>5 DEF Next

\* What is not the executor's was injected, and for that item, throughout.
LEMMA InjectionInvariance == Spec => []InjectionInv
<1>1. Init => InjectionInv
  BY DEF Init, InjectionInv
<1>2. TypeInv /\ InjectionInv /\ [Next]_vars => InjectionInv'
  BY InjectionNext
<1> QED
  BY <1>1, <1>2, TypeInvariance, PTL DEF Spec

\* An injected edit is produced once at the most, and for the item it was made against, through
\* any crashes, resumes and later injections (_do_item, _latest_injection).
THEOREM InjectionsUsedOnce == ASSUME SeatsApart PROVE Spec => []InjectionUsedOnce
<1>1. ASSUME TypeInv, InjectionInv PROVE InjectionUsedOnce
  <2> SUFFICES ASSUME NEW e \in DOMAIN log, log[e].stage = "inject", log[e].edit # NoOutput
               PROVE  LET uses == {n \in DOMAIN log :
                                     log[n].stage = "execute" /\ log[n].output = log[e].edit}
                      IN  Cardinality(uses) <= 1 /\ uses \subseteq Executes(log[e].item)
    BY DEF InjectionUsedOnce
  <2> DEFINE uses == {n \in DOMAIN log : log[n].stage = "execute" /\ log[n].output = log[e].edit}
  <2>1. DOMAIN log = 1 .. Len(log) /\ Len(log) \in Nat
    BY <1>1 DEF TypeInv, TypeOK
  <2>2. log[e].edit.by # "Executor" /\ log[e].edit.n = e
    BY <1>1 DEF InjectionInv, SeatsApart
  <2>3. ASSUME NEW n \in uses
        PROVE  /\ log[n].item = log[e].item
               /\ \A m \in 1 .. n - 1 : ~(log[m].stage = "execute" /\ log[m].item = log[n].item)
    <3>1. /\ InjectedFor(log[n].output, log[n].item)
          /\ \A m \in 1 .. n - 1 : ~(log[m].stage = "execute" /\ log[m].item = log[n].item)
      BY <1>1, <2>2, <2>3 DEF InjectionInv
    <3>2. PICK d \in DOMAIN log : /\ log[d].stage = "inject" /\ log[d].item = log[n].item
                                  /\ log[d].edit = log[e].edit
      BY <2>3, <3>1 DEF InjectedFor
    <3>3. d = e
      BY <1>1, <2>2, <3>2 DEF InjectionInv
    <3> QED
      BY <3>1, <3>2, <3>3
  <2>4. \A n, m \in uses : n = m
    <3> SUFFICES ASSUME NEW n \in uses, NEW m \in uses, n < m PROVE FALSE
      BY <2>1
    <3>1. n \in 1 .. m - 1 /\ log[n].stage = "execute"
      BY <2>1
    <3> QED
      BY <2>3, <3>1
  <2>5. uses \subseteq Executes(log[e].item)
    BY <2>3 DEF Executes, Of
  <2>6. Cardinality(uses) <= 1
    <3> HIDE DEF uses
    <3>1. CASE uses = {}
      BY <3>1, FS_EmptySet
    <3>2. ASSUME NEW n \in uses PROVE Cardinality(uses) <= 1
      <4>1. uses = {n}
        BY <2>4, <3>2
      <4>2. Cardinality({n}) = 1
        BY FS_Singleton
      <4> QED
        BY <4>1, <4>2
    <3> QED
      BY <3>1, <3>2
  <2> QED
    BY <2>5, <2>6
<1> QED
  BY <1>1, TypeInvariance, InjectionInvariance, PTL
==============================================================================
