------------------------------ MODULE Handbrake -------------------------------
(***************************************************************************)
(* handbrake.py: one flow, driven by start() and resume(), stopped by      *)
(* breakpoints, steered by a human's inject(), set_breakpoint() and        *)
(* clear_breakpoint().  All a call knows it rebuilds from the durable      *)
(* plane (the flow's events, its latest checkpoint, the effects ledger):   *)
(* every event append, checkpoint and ledger write commits on its own, so  *)
(* a call can end between any two of them, and another one picks up.       *)
(*                                                                         *)
(* One process drives the flow ("No multi-human concurrency model",        *)
(* Handbrake-Interface.md); the human's own calls come from elsewhere and  *)
(* fall between any two steps of the driver.  specify() and decompose()    *)
(* are deterministic, as the code relies on, so the plan is fixed once.    *)
(* There is no Optimizer: _assign returns self.executor and writes         *)
(* nothing.  Items are numbered from 1.                                    *)
(***************************************************************************)
EXTENDS Naturals, Sequences, FiniteSetsExt

CONSTANTS
  Plans,         \* the decompositions to choose from: sequences of work items
  Seats,         \* the actors that inject
  MaxRevisions,  \* max_revisions
  MaxCalls,      \* bound: start() and resume() calls
  MaxFaults,     \* bound: calls cut short
  MaxInjects,    \* bound: injections, refused ones included
  MaxBreakpoints \* bound: ad-hoc breakpoints set and cleared

Levels == {"L0", "L1", "L2", "L3"}
Rank(level) == CASE level = "L0" -> 0 [] level = "L1" -> 1 [] level = "L2" -> 2 [] OTHER -> 3

ASSUME PlansAssumption == Plans \subseteq Seq(Levels)
ASSUME BoundsAssumption == {MaxRevisions, MaxCalls, MaxFaults, MaxInjects, MaxBreakpoints} \subseteq Nat

VARIABLES
  plan,       \* plan[i]: level_for(items[i].action_class)
  allowed,    \* the items whose action governance allows, in the running process
  log,        \* the flow's events (durable)
  saved,      \* the item of the latest checkpoint, 0 if there is none (durable)
  ledger,     \* ledger[<<i, id>>]: the effects row of item i's output id (durable)
  produced,   \* produced[i]: how often the executor has run item i (its commits; durable)
  pc,         \* where the driver is
  index, attempt, output, injection,  \* its local variables
  returned,   \* what the last call returned or raised; "nothing" if it was cut short
  calls, faults

durable == <<log, saved, ledger, produced>>
local == <<index, attempt, output, injection>>
bounds == <<calls, faults>>
vars == <<plan, allowed, durable, pc, local, returned, bounds>>

------------------------------------------------------------------------------
Items == DOMAIN plan

\* Output: the reference and the real executor name it after its item on every attempt; n
\* tells the artifacts apart (the commit's sha): the executor's n-th run, or the edit that
\* was injected at place n of the log.
OutputIds == {"out-item", "corrected"}
Actors == {"Executor", "Verifier"} \cup Seats
NoOutput == [id |-> "none", by |-> "none", n |-> 0]
Output == [id : OutputIds, by : Actors, n : Nat] \cup {NoOutput}

Decisions == {"pass", "return", "block"}

\* Events, by payload stage.  `act` is the action event perform() appends (payload without a
\* stage); an event about an output carries all of it where the code writes its id and digest.
Event ==
       [stage : {"specify", "decompose"}]
  \cup [stage : {"reenter", "resume"}, item : Nat]
  \cup [stage : {"gate"}, item : Nat, allow : BOOLEAN]
  \cup [stage : {"breakpoint"}, item : Nat]
  \cup [stage : {"execute"}, item : Nat, attempt : Nat, output : Output]
  \cup [stage : {"act"}, item : Nat, output : Output]
  \cup [stage : {"verify"}, item : Nat, attempt : Nat, output : Output, decision : Decisions]
  \cup [stage : {"inject"}, item : Nat, edit : Output]
  \cup [stage : {"refused"}, item : Nat]
  \cup [stage : {"set_breakpoint"}, item : Nat, bp : Nat]
  \cup [stage : {"clear_breakpoint"}, bp : Nat]

NoRow == [status |-> "absent", output |-> NoOutput]
Row == [status : {"absent", "in_flight", "completed"}, output : Output]

Stages == {"idle", "specify", "decompose", "reenter", "item", "gated", "checkpoint", "resume",
           "resumed", "produce", "mark", "perform", "act", "complete", "verify"}

TypeOK ==
  /\ plan \in Plans
  /\ allowed \subseteq Items
  /\ log \in Seq(Event)
  /\ saved \in 0 .. Len(plan)
  /\ ledger \in [Items \X OutputIds -> Row]
  /\ produced \in [Items -> Nat]
  /\ pc \in Stages
  /\ index \in 1 .. Len(plan) + 1
  /\ attempt \in 0 .. MaxRevisions
  /\ {output, injection} \subseteq Output
  /\ returned \in {"nothing", "paused", "blocked", "raised"} \cup Decisions
  /\ calls \in 0 .. MaxCalls
  /\ faults \in 0 .. MaxFaults

Init ==
  /\ plan \in Plans
  /\ allowed \in SUBSET Items
  /\ log = <<>>
  /\ saved = 0
  /\ ledger = [k \in Items \X OutputIds |-> NoRow]
  /\ produced = [i \in Items |-> 0]
  /\ pc = "idle"
  /\ index = 1 /\ attempt = 0 /\ output = NoOutput /\ injection = NoOutput
  /\ returned = "nothing"
  /\ calls = 0 /\ faults = 0

------------------------------------------------------------------------------
\* Reading the trail.
Of(stage, i) == {n \in DOMAIN log : log[n].stage = stage /\ log[n].item = i}
Logged(stage) == \E n \in DOMAIN log : log[n].stage = stage

Executes(i) == Of("execute", i)
Verifies(i) == Of("verify", i)

\* _existing_verdict: the decision of the item's last verify event.
LatestVerdict(i) == log[Max(Verifies(i))].decision
Passed(i) == Verifies(i) # {} /\ LatestVerdict(i) = "pass"

\* _unverified_output: more execute markers than verdicts; the last marker is taken up.
\* Mutant: no reconstruction, a fresh attempt instead.
HasUnverified_Never(i) == FALSE
HasUnverified(i) == Cardinality(Executes(i)) > Cardinality(Verifies(i))
LastMarker(i) == log[Max(Executes(i))]

\* _latest_injection: the latest injection made against the item, whatever its type; only an
\* edited_output counts later on, so any other is NoOutput here.
\* Mutant: the latest injection of the flow.
LatestInjection_AnyItem(i) ==
  LET made == {n \in DOMAIN log : log[n].stage = "inject"}
  IN  IF made = {} THEN NoOutput ELSE log[Max(made)].edit
LatestInjection(i) ==
  LET made == Of("inject", i) IN IF made = {} THEN NoOutput ELSE log[Max(made)].edit

\* list_breakpoints: a breakpoint is active until an event clears its id.
Active(n) ==
  /\ log[n].stage = "set_breakpoint"
  /\ ~\E m \in n + 1 .. Len(log) : log[m].stage = "clear_breakpoint" /\ log[m].bp = log[n].bp

\* _adhoc_hit: one is set on every item (0) or on this one.
\* Mutant: the flow-wide target is forgotten.
AdhocHit_ItemOnly(i) == \E n \in DOMAIN log : Active(n) /\ log[n].item = i
AdhocHit(i) == \E n \in DOMAIN log : Active(n) /\ log[n].item \in {0, i}

\* Where _advance pauses: before every L1 and L0 item, and at an ad-hoc breakpoint.
\* Mutant: an L1 item goes ahead.
Restricted_L0Only(i) == plan[i] = "L0"
Restricted(i) == plan[i] \in {"L0", "L1"}
PausePoint(i) == Restricted(i) \/ AdhocHit(i)

\* _reenter: the item after the leading run of passed ones.
FirstUnfinished == Min({i \in 1 .. Len(plan) + 1 : i > Len(plan) \/ ~Passed(i)})

------------------------------------------------------------------------------
Emit(event) == log' = Append(log, event)
Quiet == UNCHANGED <<saved, ledger, produced>>
Hold == UNCHANGED <<plan, allowed, returned, bounds>>

\* A call ends; its locals are gone, but for the item it was at.
Return(what) ==
  /\ pc' = "idle"
  /\ returned' = what
  /\ attempt' = 0 /\ output' = NoOutput /\ injection' = NoOutput

Call(stage) ==
  /\ pc = "idle" /\ calls < MaxCalls
  /\ calls' = calls + 1
  /\ returned' = "nothing"
  /\ pc' = stage
  /\ UNCHANGED <<plan, allowed, durable, attempt, output, injection, faults>>

\* After an item's verdict, in _advance and in resume alike.
\* Mutant: the loop goes on after a verdict that is not a pass.
NextItem_AnyVerdict(verdict) ==
  IF index = Len(plan)
  THEN Return(verdict) /\ UNCHANGED <<plan, allowed, index, bounds>>
  ELSE /\ pc' = "item" /\ index' = index + 1
       /\ attempt' = 0 /\ output' = NoOutput /\ injection' = NoOutput
       /\ Hold
NextItem(verdict) ==
  IF verdict # "pass" \/ index = Len(plan)
  THEN Return(verdict) /\ UNCHANGED <<plan, allowed, index, bounds>>
  ELSE /\ pc' = "item" /\ index' = index + 1
       /\ attempt' = 0 /\ output' = NoOutput /\ injection' = NoOutput
       /\ Hold

------------------------------------------------------------------------------
\* start(): the flow has started once its specify decision is recorded.
\* Mutant: once its whole prefix is.
Started_Decomposed == Logged("decompose")
Started == Logged("specify")

Start == Call(IF Started THEN "reenter" ELSE "specify") /\ UNCHANGED index

Specify ==
  /\ pc = "specify"
  /\ Emit([stage |-> "specify"])
  /\ pc' = "decompose"
  /\ Quiet /\ Hold /\ UNCHANGED local

Decompose ==
  /\ pc = "decompose"
  /\ Emit([stage |-> "decompose"])
  /\ pc' = "item" /\ index' = 1
  /\ Quiet /\ Hold /\ UNCHANGED <<attempt, output, injection>>

\* _reenter of a completed flow: its recorded verdict, and no new event.
ReturnRecorded ==
  /\ pc = "reenter"
  /\ plan # <<>> /\ FirstUnfinished > Len(plan)
  /\ Return(LatestVerdict(Len(plan)))
  /\ UNCHANGED <<plan, allowed, durable, index, bounds>>

Reenter ==
  /\ pc = "reenter"
  /\ plan = <<>> \/ FirstUnfinished <= Len(plan)
  /\ Emit([stage |-> "reenter", item |-> FirstUnfinished])
  /\ pc' = "item" /\ index' = FirstUnfinished
  /\ Quiet /\ Hold /\ UNCHANGED <<attempt, output, injection>>

\* resume(): its position is the latest checkpoint's.
Resume == saved # 0 /\ Call("resume") /\ index' = saved

LogResume ==
  /\ pc = "resume"
  /\ Emit([stage |-> "resume", item |-> index])
  /\ pc' = "resumed"
  /\ Quiet /\ Hold /\ UNCHANGED local

------------------------------------------------------------------------------
\* _advance over an empty plan: `assert verdict is not None` fails.
AssertFails ==
  /\ pc = "item" /\ index > Len(plan)
  /\ Return("raised")
  /\ UNCHANGED <<plan, allowed, durable, index, bounds>>

\* _govern: log the decision, and stop the item on a block.
Gate ==
  /\ pc = "item" /\ index <= Len(plan)
  /\ Emit([stage |-> "gate", item |-> index, allow |-> index \in allowed])
  /\ Quiet
  /\ \/ index \in allowed /\ pc' = "gated" /\ Hold /\ UNCHANGED local
     \/ /\ index \notin allowed
        /\ Return("blocked")
        /\ UNCHANGED <<plan, allowed, index, bounds>>

\* _pause: the breakpoint event first, then the checkpoint.
Pause ==
  /\ pc = "gated" /\ PausePoint(index)
  /\ Emit([stage |-> "breakpoint", item |-> index])
  /\ pc' = "checkpoint"
  /\ Quiet /\ Hold /\ UNCHANGED local

\* Mutant: the snapshot holds the next index.
SaveCheckpoint_Next ==
  /\ pc = "checkpoint"
  /\ saved' = IF index < Len(plan) THEN index + 1 ELSE index
  /\ Return("paused")
  /\ UNCHANGED <<plan, allowed, log, ledger, produced, index, bounds>>

SaveCheckpoint ==
  /\ pc = "checkpoint"
  /\ saved' = index
  /\ Return("paused")
  /\ UNCHANGED <<plan, allowed, log, ledger, produced, index, bounds>>

------------------------------------------------------------------------------
\* _do_item up to its loop.  A recorded verdict is returned as it is.
\* Mutant: it is not looked for.
HasVerdict_Never(i) == FALSE
HasVerdict(i) == Verifies(i) # {}

\* A reconstructed output goes through perform() like a fresh one.
\* Mutant: straight to the verifier.
Reconstructed_Verify == "verify"
Reconstructed == "perform"

DoItem(inject) ==
  /\ UNCHANGED durable
  /\ \/ HasVerdict(index) /\ NextItem(LatestVerdict(index))
     \/ /\ ~HasVerdict(index) /\ HasUnverified(index)
        /\ output' = LastMarker(index).output /\ attempt' = LastMarker(index).attempt
        /\ pc' = Reconstructed
        /\ Hold /\ UNCHANGED <<index, injection>>
     \/ /\ ~HasVerdict(index) /\ ~HasUnverified(index)
        /\ injection' = inject /\ attempt' = 0
        /\ pc' = "produce"
        /\ Hold /\ UNCHANGED <<index, output>>

\* _advance enters the item it need not pause at, resume the one it resumes.
Advance == pc = "gated" /\ ~PausePoint(index) /\ DoItem(NoOutput)
TakeOver == pc = "resumed" /\ DoItem(LatestInjection(index))

\* The human's edited output stands in for the executor's.
UseInjection ==
  /\ pc = "produce" /\ injection # NoOutput
  /\ output' = injection
  /\ pc' = "mark"
  /\ Hold /\ UNCHANGED <<durable, index, attempt, injection>>

\* executor.execute: what it commits stays, whatever becomes of the call.
Execute ==
  /\ pc = "produce" /\ injection = NoOutput
  /\ produced' = [produced EXCEPT ![index] = @ + 1]
  /\ output' = [id |-> "out-item", by |-> "Executor", n |-> produced[index] + 1]
  /\ pc' = "mark"
  /\ Hold /\ UNCHANGED <<log, saved, ledger, index, attempt, injection>>

Mark ==
  /\ pc = "mark"
  /\ Emit([stage |-> "execute", item |-> index, attempt |-> attempt, output |-> output])
  /\ pc' = "perform"
  /\ Quiet /\ Hold /\ UNCHANGED local

\* perform(), keyed by flow, item and output id; governance is asked again before the ledger.
Key == <<index, output.id>>

EffectBlocked ==
  /\ pc = "perform" /\ index \notin allowed
  /\ Return("blocked")
  /\ UNCHANGED <<plan, allowed, durable, index, bounds>>

EffectCached ==
  /\ pc = "perform" /\ index \in allowed
  /\ ledger[Key].status = "completed"
  /\ pc' = "verify"
  /\ Hold /\ UNCHANGED <<durable, local>>

\* A compensable effect left in flight is attempted again.
\* Mutant: it is waited for.
Attemptable_AbsentOnly == ledger[Key].status = "absent"
Attemptable == ledger[Key].status # "completed"

BeginEffect ==
  /\ pc = "perform" /\ index \in allowed
  /\ Attemptable
  /\ ledger' = [ledger EXCEPT ![Key].status = "in_flight"]
  /\ pc' = "act"
  /\ Hold /\ UNCHANGED <<log, saved, produced, local>>

Act ==
  /\ pc = "act"
  /\ Emit([stage |-> "act", item |-> index, output |-> output])
  /\ pc' = "complete"
  /\ Quiet /\ Hold /\ UNCHANGED local

CompleteEffect ==
  /\ pc = "complete"
  /\ ledger' = [ledger EXCEPT ![Key] = [status |-> "completed", output |-> output]]
  /\ pc' = "verify"
  /\ Hold /\ UNCHANGED <<log, saved, produced, local>>

\* NonIndependentVerification: the verifier finds its own work (a human edit from its seat).
NotIndependent ==
  /\ pc = "verify" /\ output.by = "Verifier"
  /\ Return("raised")
  /\ UNCHANGED <<plan, allowed, durable, index, bounds>>

\* Mutant: a revision consumes the injection again.
Consumed_Kept == injection
Consumed == NoOutput

\* Mutant: one revision too many.
MayRevise_OneMore == attempt <= MaxRevisions
MayRevise == attempt < MaxRevisions

Verify(decision) ==
  /\ pc = "verify" /\ output.by # "Verifier"
  /\ Emit([stage |-> "verify", item |-> index, attempt |-> attempt, output |-> output,
           decision |-> decision])
  /\ Quiet
  /\ IF decision = "return" /\ MayRevise
     THEN /\ attempt' = attempt + 1 /\ injection' = Consumed
          /\ pc' = "produce"
          /\ Hold /\ UNCHANGED <<index, output>>
     ELSE NextItem(decision)

------------------------------------------------------------------------------
\* The human.  Everything here is one event on the flow's trail.
Human(event, kinds, bound) ==
  /\ Cardinality({n \in DOMAIN log : log[n].stage \in kinds}) < bound
  /\ Emit(event)
  /\ Quiet /\ Hold /\ UNCHANGED <<pc, local>>

Injects(event) == saved # 0 /\ Human(event, {"inject", "refused"}, MaxInjects)
Breakpoints(event) == Human(event, {"set_breakpoint", "clear_breakpoint"}, MaxBreakpoints)

\* inject(): against the item of the latest checkpoint, an edited output or anything else.
Inject ==
  \/ \E seat \in Seats, id \in OutputIds :
        Injects([stage |-> "inject", item |-> saved,
                 edit |-> [id |-> id, by |-> seat, n |-> Len(log) + 1]])
  \/ Injects([stage |-> "inject", item |-> saved, edit |-> NoOutput])

\* R11: the value's action class outranks the seat; logged and refused.
InjectRefused ==
  /\ Injects([stage |-> "refused", item |-> saved])
  /\ \E level \in Levels : Rank(level) < Rank(plan[saved])

SetBreakpoint ==
  \E i \in {0} \cup Items :
    Breakpoints([stage |-> "set_breakpoint", item |-> i,
                 bp |-> Cardinality({n \in DOMAIN log : log[n].stage = "set_breakpoint"}) + 1])

ClearBreakpoint ==
  \E n \in DOMAIN log :
    Active(n) /\ Breakpoints([stage |-> "clear_breakpoint", bp |-> log[n].bp])

\* The process dies, or a role or the store raises: the plane keeps what was committed.  The
\* next call may come from a new process, whose governance another registry compiled.
Cut ==
  /\ faults < MaxFaults
  /\ faults' = faults + 1
  /\ Return("nothing")
  /\ allowed' \in SUBSET Items
  /\ index' = 1
  /\ UNCHANGED <<plan, durable, calls>>

Step ==
  \/ Specify \/ Decompose \/ ReturnRecorded \/ Reenter \/ LogResume
  \/ AssertFails \/ Gate \/ Pause \/ SaveCheckpoint \/ Advance \/ TakeOver
  \/ UseInjection \/ Execute \/ Mark
  \/ EffectBlocked \/ EffectCached \/ BeginEffect \/ Act \/ CompleteEffect
  \/ NotIndependent \/ \E decision \in Decisions : Verify(decision)

Next ==
  \/ Start \/ Resume
  \/ Step
  \/ Inject \/ InjectRefused \/ SetBreakpoint \/ ClearBreakpoint
  \/ Cut

Spec == Init /\ [][Next]_vars

\* A call that is running runs on, unless it is cut short.
FairSpec == Spec /\ WF_vars(Step)

------------------------------------------------------------------------------
Before(n, stage) == {m \in 1 .. n - 1 : log[m].stage = stage}

\* The call that wrote place n of the trail: the last event that opened one.
Opened(n) == Max(UNION {Before(n, s) : s \in {"specify", "reenter", "resume"}})
Approved(n, i) == log[Opened(n)].stage = "resume" /\ log[Opened(n)].item = i

\* No L1 or L0 item is worked on unless a human resumed the flow at that very item, in the
\* call at work, after it had paused there ("the system refuses to execute such an action
\* without one", Handbrake-Interface.md 1.1): so in the trail, and so before the executor runs.
RestrictedApproved ==
  LET Paused(n, i) == \E m \in Before(n, "breakpoint") : log[m].item = i
      Gated(i) == plan[i] \in {"L0", "L1"}
  IN  /\ \A i \in Items : Gated(i) =>
           \A n \in Executes(i) : Approved(n, i) /\ Paused(Opened(n), i)
      /\ pc \in {"produce", "mark"} /\ Gated(index) => Approved(Len(log) + 1, index)

\* A breakpoint that stands when the flow reaches an item's gate, and still stands when the
\* item's execution is recorded, stopped it: a human resumed there.
BreakpointHonoured ==
  \A i \in Items : \A n \in Executes(i) :
    \/ Approved(n, i)
    \/ LET gate == Max({m \in Before(n, "gate") : log[m].item = i})
       IN  ~\E b \in Before(gate, "set_breakpoint") :
             /\ log[b].item \in {0, i}
             /\ ~\E m \in Before(n, "clear_breakpoint") : log[m].bp = log[b].bp

\* Nothing is judged whose effect is not complete in the ledger and on the audit trail, also
\* when the call that produced it never got to the effect ("never skips one that did not").
EffectBeforeVerdict ==
  \A i \in Items : \A n \in Verifies(i) :
    /\ ledger[<<i, log[n].output.id>>].status = "completed"
    /\ \E m \in Before(n, "act") : log[m].item = i /\ log[m].output.id = log[n].output.id

\* An item is begun only when all before it have passed, and a pass is returned only when
\* all have.
InOrder ==
  /\ \A i \in Items : Executes(i) # {} => \A j \in 1 .. i - 1 : Passed(j)
  /\ returned = "pass" => \A i \in Items : Passed(i)

\* Where the flow resumes is where it paused, with everything before it done: resuming skips
\* no item and restarts none.
ResumePointSound ==
  /\ saved # 0 => Of("breakpoint", saved) # {} /\ \A j \in 1 .. saved - 1 : Passed(j)
  /\ returned = "paused" => log[Max({n \in DOMAIN log : log[n].stage = "breakpoint"})].item = saved

\* An injected edit is used once at the most, and on the item it was made for
\* ("a later pause never consumes a stale injection", handbrake.py).
InjectionUsedOnce ==
  \A e \in {n \in DOMAIN log : log[n].stage = "inject" /\ log[n].edit # NoOutput} :
    LET uses == {n \in DOMAIN log : log[n].stage = "execute" /\ log[n].output = log[e].edit}
    IN  Cardinality(uses) <= 1 /\ uses \subseteq Executes(log[e].item)

\* A passed item is never worked on again, by whatever call: the executor does not run, the
\* ledger's rows stay, nothing is marked, acted or judged.
PassedForGood ==
  [][\A i \in Items : Passed(i) =>
       /\ produced'[i] = produced[i]
       /\ \A id \in OutputIds : ledger'[<<i, id>>] = ledger[<<i, id>>]
       /\ \A stage \in {"execute", "act", "verify"} : Of(stage, i)' = Of(stage, i)]_vars

\* Every call comes to an end: the verifier cannot send work back for ever, and a call that
\* finds another's unfinished business does not wait for it.
CallReturns == pc # "idle" ~> pc = "idle"

------------------------------------------------------------------------------
\* "if a prior attempt already produced [...] its Output and the durable execute marker was
\* recorded, but the process died before the verdict, reconstruct that Output from the marker"
\* (handbrake.py): a call that returns an item's verdict leaves none of its outputs unjudged.
UnverifiedJudged == returned \in Decisions => \A i \in Items : ~HasUnverified(i)

\* "resuming never re-fires an effect that already happened, and never skips one that did
\* not" (Handbrake-Interface.md 1.4): what has passed has had its effect.
PassedEffectDone ==
  \A i \in Items : Passed(i) =>
    \E n \in Of("act", i) : log[n].output = log[Max(Verifies(i))].output
==============================================================================
