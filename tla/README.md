# A verification project for the agent cell

TLA+ models, model checks and proofs of the Python "one cell" enterprise in `src/src/cell`:
a flow that takes a ticket to a verified artifact, a durable plane it can crash on and come
back to, a wrapper that keeps external effects from happening twice, and a handbrake with
which a human stops, steers and resumes it. Paths below are relative to `src/src/cell/`.

## 1. The system

| Part | State it keeps | Operations | Talks to |
|---|---|---|---|
| Event store, `planes/memory.py` | table `events` (hash chain per flow), table `checkpoints` | `append`, `read`, `all_events`, `verify_chain`, `checkpoint`, `latest_checkpoint` | everything writes to it |
| Effects wrapper and ledger, `effects/wrapper.py` | table `effects` (one row per idempotency key) | `perform`; `get`, `put_in_flight`, `mark_completed`, `mark_failed` | asks governance, appends to the store |
| Handbrake, `handbrake.py` | none of its own: it rebuilds its position from the plane | `start`, `resume`, `inject`, `set_breakpoint`, `clear_breakpoint`, `list_breakpoints`, `inspect`, `replay` | roles, governance, wrapper, store |
| Flow without a handbrake, `flow.py` | none | `run_flow` | roles, store |
| Governance, `planes/governance.py` | compiled registry of action classes | `decide`, `evaluate`, `evaluate_and_log`, `level_for`, `capability_floor` | called by handbrake and wrapper |
| Autonomy board, `autonomy.py` | its registry snapshot | `propose`, `ratify`, `ratify_amendment` | appends to the Board trail |
| Steward, `steward.py` | none: folds the flow's events | `assess`, `quarantine`, `rollback`, `is_quarantined` | reads and appends the flow |
| Versions, `versions.py` | none: folds `__versions__` | `register`, `set_status`, `status_of`, `version_stats` | store |
| Auditor, `auditor.py` | none: folds the audit trail | `rate`, `report`, `enforce` | store, version registry |
| Optimizer, `optimize.py` | none | `select`, `mean_cost_for` | called by the handbrake's `_assign` |
| Cell, `cell.py` | the assembled parts | `assemble` and delegation | registers versions at every assembly |
| Delivery, executors, verifiers, runner: `runtime/` | the git branch | `deliver_on_pass`, `execute`, `verify` | wrapper, git, an agent process |
| Observability and `observe.py` | trace spans; none | spans, `total_cost`; reports | read-only for the rest |

What is hard about it is what happens between two durable writes. Every `append`, checkpoint
and ledger update commits alone, a process can die between any two, the next call rebuilds all
it knows from what is there, and a human's calls fall anywhere in between. The hazards in
`PROJECT.json` list the places, line by line.

What makes each part correct:

* **store**: each flow's log is gap-free and its chain verifies, whoever races and dies; what
  was acknowledged stays; a checkpoint refers to history that exists.
* **wrapper**: an irreversible effect at most once; any other until one attempt stands; no
  effect without a record before it and an audit event before it counts as done.
* **handbrake**: no L0/L1 work without a human's resume; no work twice once passed; no item
  skipped; each verdict about the output just produced; each injection used once, where it was
  meant; every call ends.
* **governance, board**: unknown classes are L0; rules apply in order; only the Board raises a
  ceiling, on evidence, from the ceiling now in force.
* **steward, auditor, versions**: a quarantine holds until lifted; suspensions stay within the
  rate limit, stick, and open an SLA when they leave a role empty.

## 2. Modules

| Module | Models |
|---|---|
| `AppendOnlyLog` | abstract: an append is one atomic step, an acknowledgement follows it |
| `EventStore` | `DurableEventStore`: tail SELECT, INSERT and return of an append as three steps of racing, dying writers |
| `MC_EventStore` | instance for TLC |
| `EventStoreProofs` | its inductive invariant and theorems |
| `EffectContract` | abstract: an irreversible effect fires at most once, a settled one never again |
| `EffectsWrapper` | `perform` step by step over the durable ledger |
| `MC_EffectsWrapper`, `EffectsWrapperProofs` | instance; invariants and theorems |
| `Handbrake` | one flow: `start`, re-entry, `resume`, pauses, the produce-score-revise loop and its recovery, the human's calls |
| `Flow` | `run_flow`, and abstract: what a handbrake's calls together amount to |
| `HandbrakeFlow` | the refinement mapping from `Handbrake` to `Flow` |
| `Observe` | `_verdict` and `summarize` over a handbrake's trail and ledger |
| `MC_Handbrake` | plans for TLC |
| `PlaceTheorems` | greatest and least places of a log: lemmas for the proofs |
| `HandbrakeProofs` | invariants and theorems about a handbrake's calls |
| `HandbrakeFlowProofs`, `ObserveProofs` | the refinement of `Flow`; the inspector's report |
| `Governance` | registries, levels, capability floors, the clause table of `decide` |
| `AutonomyBoard` | proposals and ratifications over any registry ratified so far |
| `MC_AutonomyBoard`, `AutonomyBoardProofs` | instance; invariant and theorems |
| `Versions` | the version registry, and the clock |
| `Routing` | calls of several flows over one store, `_assign` and the Optimizer |
| `Steward` | `assess`, `quarantine`, `rollback`, `is_quarantined` beside those calls, and refused injections |
| `Auditor` | the ratings, and `enforce` read by read and append by append |
| `Fleet` | the four above, a human who reinstates, and `Cell.assemble` over a store that is there |
| `MC_Fleet`, `FleetProofs` | instance; invariants and theorems |

**EventStore.** `events[f]` is the table's rows of flow `f` as a partial function from `seq`.
`SelectTail` is the SELECT of `append`, `InsertRow` the INSERT and commit, `InsertConflict` the
primary key's refusal, `ReturnEvent` the return. The three are separate because Python's sqlite3
opens the write transaction at the INSERT, so the tail can be stale by then. SHA-256 is taken as
collision-free: a hash is the sequence of payloads it commits to. `Die` and `Reopen` are a
process's end and the next one's `__init__`; only the tables survive. A connection that gives up
waiting for SQLite's lock behaves for the log like a `Die` before the insert.

**EffectsWrapper.** One action per ledger call of `perform` and per way it ends: `Call`/`Refuse`
(the R6 check), `ReturnCached`, `Escalate`, `Proceed` (what the lookup decides), `PutInFlight`,
`ExecuteReturns`/`ExecuteRaises`, `MarkFailed`, `AppendAudit`/`AuditRefused`, `MarkCompleted`;
`Crash` between any two, after which governance may be another. `fired` counts what the outside
world saw, and a result digest is the number of the firing that returned it, so that two firings
never look alike. `Procs` is a set so that one can say what needs a single performer: the
theorems marked *single performer* assume it (`SoleWriter`), because `put_in_flight` is an
unguarded upsert (`effects/wrapper.py:265`); the others hold for any number.

**Handbrake.** `log` is the flow's events with the stage of their payload; every question the
code asks of the trail (`_existing_verdict`, `_unverified_output`, `_latest_injection`,
`list_breakpoints`, the start check) is an operator over it. `saved` is the index in the latest
checkpoint, `ledger` the rows for the item's output ids, `produced` the executor's runs (its
commits, which outlive the call). `pc` walks through the calls: each action ends at the next
durable write, so `Cut` (the process dies, or a role or the store raises) falls between any two.
`start` and `resume` share `_advance` and `_do_item` as in the code, and `NextItem` is the two
loops' common end. `perform` is inlined with its three writes, for a compensable effect whose
`execute` only returns the artifact's handle. The human's `Inject`, `InjectRefused`,
`SetBreakpoint` and `ClearBreakpoint` are enabled at every step of the driver.
`specify`/`decompose` are deterministic (`handbrake.py:220-224` relies on it), so the plan is
chosen once; an item of the plan is its authority level, and `allowed` is what the running
process's governance lets through. An output is its id, its author and a number that tells
artifacts apart: both shipped executors name the output after the item, on every attempt.

**Flow, HandbrakeFlow.** `Flow` is `run_flow`, one action per event it appends. It has no way
back from a crash, and it is what the handbrake says it mirrors, so it serves as the abstract
specification: the mapping takes the specify, decompose, execute and verify events of the
handbrake's log as the flow's trail and reads the flow's position off the last of them. Pauses,
resumes, crashes, re-entries, injections and effects are stutters, and an injected edit is one of
the outputs an executor could have handed over. A re-entry that finds no decompose event stands
for it, because the code never records that one later.

**Observe** reads `Handbrake`'s log by kinds of events, as the inspector does, and keeps no state;
that a human set or cleared a breakpoint last looks like a pause to it.

**Governance, AutonomyBoard.** The gate and the Board read the registry they were built on,
`level_for` and `capability_floor` the table of the module; both readings are in the model, and
`registries` holds every registry that ratifications have made available. A Board is named by
its registry, since it holds nothing else. `ratify` does not look for the proposal on the trail: it
takes any that it is handed (`Handed`, and those that were recorded), by whomever it was built and
whenever, as the tests do. The evidence of a proposal is there or it is empty, which is all
`ratify` asks of it. What `GateOnAuthority` can therefore demand is not that somebody proposed, but
that the level a gate acts at is one the Board raised the class to from where it then stood.

**Fleet** is a chain of modules that extend one another. `book` is the reserved flows
`__versions__` and `__audit__` in commit order (`_open_slas` merges them by timestamp, which is
taken to be that order), `trail[f]` a flow's events as far as Steward, Auditor and Optimizer read
them, `pc[f]` and `using[f]` its running call. Opening a call and routing it are one step, as no
one else reads the event between; so are the gate and the decision of `_do_item` what to do next.
The Steward's read and append are one step too, because a breach it has seen never goes away. A
pass of `enforce` is not: it rates (`BeginEnforce`), reads the two reserved flows (`ReadTrails`),
sweeps, chooses, and then every append is an action of its own, and so is every question it asks
before one (`CheckSla`, `AskCritical`); calls, humans and `AuditorDies` fall between them. Which
versions the headroom covers is any choice of the right size, for the code takes them in the order
of their first execution. One pass runs at a time. A suspension's hour is the one its pass took,
which is the hour of its record. `began` and `since` are history variables for the properties.
`AssembleAnew` and `AssembleNext` are a new process that registers its versions one by one; with
`Overlap` calls and passes of an earlier process may still go on, and the theorems cover both. A
breach of safety is what `_danger_flows` counts: the Steward's quarantine, a gate's block, and a
refused injection's (`InjectRefused`); `run_flow`'s own escalation comes before anything is
executed, so that no version is charged with it. `version_stats` credits a verdict to the last
version that made an output of that id (`Producer`): the executors name it after the item, a
human's edit has its own. `Cost`, `Nominal` and `Tier` are what the Optimizer compares; a flow not
`Routed` belongs to a cell without an Optimizer or with one implementer, where the executor, or a
human by an edit, produces.

## 3. Runs

| Run | Asks | States |
|---|---|---|
| `event_store` | two writers, two payloads, three positions, with deaths and reopenings: all properties of the store, refinement of `AppendOnlyLog`, progress | 100,320 |
| `effects_wrapper` | one process, a compensable and an irreversible effect, three faults: all properties, refinement of `EffectContract`, no effect in limbo | 10,813 |
| `effects_audited_once` | does a retry ever log an action twice? It does (finding) | |
| `handbrake_flow` | four plans of up to two items, three calls, one fault, one injection (an edit by a human or from the verifier's seat, under either output id, or anything else), one revision: what a pause promises, the order of the work, refinement of `Flow`, the inspector's report, every call ends | 329,776 |
| `handbrake_breakpoints` | two ad-hoc breakpoint operations at any moment, three calls, one fault | 1,414,448 |
| `handbrake_unverified` | does a crash leave an output unjudged? It does (finding) | |
| `handbrake_revised_effect` | has every passed artifact had its effect? It has not (finding) | |
| `autonomy_board` | three acts on the Board trail, three kinds of ratifiers, eight proposals that are recorded or handed over: a ladder of two steps and both at once, a lowering, one without evidence, production, a novel class: no gate acts on authority nobody gave, and pauses err on the safe side | 43,474 |
| `fleet` | two routed flows, one that both implementers are capable of with two calls, one that only the dearer is capable of with one; a breach, passes of the breaker, and a reinstatement, a rollback or a second assembly: routing only to what is capable and was active | 431,200 |
| `fleet_breaker` | one unrouted flow with a revision, a breach, passes that die over two hours, a reinstatement, a rollback or a second assembly: rate limit, danger only, no lost suspension, every danger answered, break-glass only for a stuck suspension | 761,225 |
| `fleet_quarantine` | does a flow under quarantine stand still? It does not (finding) | |
| `fleet_reassembled` | does a suspension outlive a new assembly? It does not (finding) | |

Bounds. Two writers are enough for every race on one tail, as the third finds what the second
found; three positions make a first, an inner and a last row. Two items make a predecessor and a
successor; the plans have the first of them pause and the second pause or not, and the empty plan
is included. Three calls are a start, a resume, and one more after a crash or after completion.
One fault can fall at each of the points, and three in the wrapper allow a crash, a raise and a
refused append of one effect. One revision (`MaxRevisions = 1`) has a first, and a last attempt.
The bounds are guards of `SelectTail` (`MaxEvents`), `Call` (`MaxCalls`), `Fault` and `Cut`
(`MaxFaults`), and `Human` (`MaxInjects`, `MaxBreakpoints`); `CHECK_DEADLOCK FALSE` stands where a
flow that nobody calls any more has simply ended.

Three acts on the Board trail (`MaxActs`) are as many ratifications, or a proposal and two of them:
enough to climb the ladder in order and out of order, for a stale proposal, one ratified twice, and
one brought to a Board of another registry.

In the fleet's runs a version runs twice at most, so the policy is scaled down with it: a flow may
cost 3 (`Cap`), an attempt already counts as a loop (`LoopThreshold = 0`; with the shipped
threshold and `max_revisions` R8 needs more attempts than an item can have), one suspension per
hour (`MaxPer`, `Window`), an SLA that has run out an hour after it opens (`SlaHours = 0`). In
`fleet`, v1 and v2 are both capable of the first flow's class and v2 alone of the second's. v2 is
wired as the cheaper one and costs more, so that its first execution changes the route; while it
is suspended, the second flow's call is refused, although v1 is there and active. The human is a
version the registry has no record of. Two calls of the first flow allow a recorded route to be
met again, and a crash between marker and verdict. Two versions in danger with headroom for one
leave one to escalate. `MaxClock = 1` lets the window of the first hour close (`Window = 1`), and
an SLA run out and its miss be met in the second. A pass begins while the book has fewer than
`MaxNotes` entries beside registrations: 3 in `fleet`; 5 in `fleet_breaker`, which lets a second
and a third pass meet the suspension, the record or the SLA of one that died. `MaxBreaches` bounds
quarantines and refused injections, `MaxTurns` assemblies, reinstatements and rollbacks together,
`MaxAssemblies` the assemblies; a rollback is of a flow under quarantine. With `Overlap = FALSE`,
as in the runs, a new process assembles when the earlier one's calls and its pass are over, and
works when it is done; Stewards, humans and the clock go on meanwhile, and nothing stops it half
way for good. What routing asks needs two flows and no clock, what the breaker's promises ask
needs a clock and one flow: hence two runs. The bounds are guards of `Assess` and `InjectRefused`
(`MaxBreaches`), `MayTurn` (`MaxTurns`), `AssembleAnew`, `Tick` (`MaxClock`), `BeginEnforce`
(`MaxNotes`), `MayOpen` (`MaxCalls`) and `MayWork` (`Overlap`).

Fairness. `EventStore`: `WF` of a running append, which is straight-line code; nobody has to call
it. `EffectsWrapper`: `WF` of a running `perform`, and `SF` of calling it, for whoever wants the
effect starts or resumes the flow again; crashes are bounded and not fair. `Handbrake`: `WF` of a
running call only. `Settles` needs the effect to be allowed from some point on. The other modules
state no liveness: nobody has to propose, assess or enforce.

### Findings

1. `effects_audited_once`: a crash between the audit append and `mark_completed` makes the retry
   log the action again (`effects/wrapper.py:176`), where its docstring says "only on first
   completion".
2. `handbrake_unverified`: `_do_item` returns the latest verdict whatever it is before it looks
   for an unverified output (`handbrake.py:450`). A crash in a revision makes the earlier `return`
   final: the marked output is never judged, the revisions left are lost.
3. `handbrake_revised_effect`: the idempotency key is built from an output id that does not
   change from one attempt to the next, so a revision's effect is skipped as done and ledger and
   audit trail keep the rejected artifact (`handbrake.py:505`).
4. `fleet_quarantine`: a quarantine is an event that no call reads (`steward.py:90`). The flow is
   gated, routed, executed, verified and passed like any other, where the docstring says "it may
   not proceed".
5. `fleet_reassembled`: `Cell.assemble` registers its versions as active over whatever the store
   says (`cell.py:84`), so that a new process reinstates what the breaker suspended, where the
   Constitution leaves that to the Steward or a human.

## 4. Proofs

`EventStoreProofs` proves, for every set of flows, writers and payloads and every bound: the type
invariant, `GapFree`, `ChainIntact`, `AckedDurable` with `CheckpointBacked`, `RowsImmutable`,
`ConflictHasRival`, and that the store implements `AppendOnlyLog`. `GapFree` alone is not
inductive: between SELECT and INSERT a writer holds a row computed from an old tail, and the
invariant has to say that this row, if its position is still free, is exactly the next one and
links to the tail there is. The strengthening relates each `selected` writer's pending row to the
history up to its position, and each `committed` one to the row in the table; every action then
has one step in the proof.

`EffectsWrapperProofs` proves for any number of performers the type invariant,
`CompletedAudited` (strengthened by what a process between its audit append and
`mark_completed` knows) and `GateBeforeEffect`. For a single performer it proves `AtMostOnce`,
`OneResult`, `NoSilentEffect`, `CompletedForGood` and the refinement of `EffectContract`. Their
invariant ties the ledger row of the key at work to the performer's place: no row means no
firing, an in-flight row of an irreversible key before `execute` means none either, and after
`execute` the result in hand is the last firing.

`AutonomyBoardProofs` proves for any members, actors, proposals and length of the trail the type
invariant, `GateOnAuthority` and `PausesConservative`. Neither is inductive, for both speak of
what `decide` answers. The invariant speaks of every registry there is: it lists each class at its
compiled level or at one that a ratified act on the trail stands behind, and no class below its
compiled level. A ratification adds one registry, which differs from a sound one in one class,
upwards, and from the level that this registry lists: that is where the check for a stale proposal
is needed, for it gives the new act the earlier one its step began at. The trail only grows, so
what stood behind the others still does.

`HandbrakeProofs` proves for any plans, seats and `max_revisions`, and however many calls, cuts,
injections and breakpoints there are, the type invariant, `RestrictedApproved`, `InOrder`,
`PassedForGood`, `EffectBeforeVerdict`, `ResumePointSound`, `BreakpointHonoured` and
`InjectionUsedOnce`. None is inductive, because a call decides once, at an item's entry, what it
then does over several steps, and what it decides from was left on the plane by calls that ended
anywhere. Six invariants carry over those steps what the call may still rely on, each beside what
the trail says:

* `TypeInv`: an execute or verify event names an item of the plan, a real output and an attempt
  within `max_revisions`; hence what is taken up from a marker does too.
* `ApprovalInv`: whoever works on an L0 or L1 item does so in a call that a resume at that item
  opened (`ResumedAt`), and every checkpoint and resume has its pause (`PausedAt`).
* `OrderInv`: the item at hand and the checkpoint's have everything before them done, the item at
  hand has not passed, and a pass on the trail is its item's last verdict. That last clause is
  what makes "the latest verdict is a pass", which the code asks, last for ever.
* `EffectInv`: the action event of a completed ledger row precedes it, and a call about to judge
  holds an output whose row is completed. `PauseInv` does the same for the last pause.

* `HonourInv`: whatever is executed, or about to be, went through a resume at that item or through
  a gate before which every breakpoint that stood there was cleared by then. The property speaks
  of the log as it is now, and humans set and clear while a call is between gate and execution.
* `InjectionInv`: an artifact that is not the executor's was injected for the item it was marked
  on, and is that item's first execution; the edit a call has picked up is for an unworked item.

`InjectionsUsedOnce` has a hypothesis, `SeatsApart`: no human sits in the executor's seat. The
model tells artifacts apart by author and number, and would otherwise take an edit and one of the
executor's own artifacts for the same. The other theorems hold without it.

`HandbrakeFlowProofs` proves that the handbrake implements `Flow`, step by step: specify,
decompose, mark and verify are run_flow's, the first re-entry that finds no decompose event stands
for it, and all else stutters. It needs to know that the driver is where the trail says the flow
is, though it got there by reading the trail, a checkpoint, or both. `FlowInv` says so in three
parts. `LoopOrdered`: the loop goes through the items in order, and a passed one is not executed
again. `PrefixOrdered`: specify and decompose come before the loop, once each. `AtPosition`: at
each of its steps, the driver's item, attempt and output are those that the last marker or verdict
leaves. The mapping filters the trail by recursion over the log. That this function exists and
unfolds is shown from a least length at which it would not, and what an append adds to it from
the two functions agreeing below.

`ObserveProofs` proves `ReportSound` on top of that. `ReportInv` says that no attempt at an item
is made twice and that none is beyond the position the loop has reached (`Attempted`), that every
action event has a completed row but the one of the output that waits for its verdict
(`Confirmed`), and that the verdict returned is the last on the trail. The bounds on the attempts
then come from mapping executions to items and attempts, one to one.

`FleetProofs` proves, for any finite set of versions, any flows, implementers, costs and policy,
the type invariant, `RateLimited`, `DangerOnly`, `SuspensionSticks`, `DangerAnswered`,
`BreakglassJustified` and `RouteSound`. A pass of `enforce` works off what it read when it began,
while calls, humans and assemblies change the store under it, so that each property needs what a
pass in progress may still rely on:

* `DangerInv`: whoever the pass has in its sights is dangerous, now: a breach never leaves the
  trail, nor does the execution it is charged to.
* `RegisteredInv`: a chosen version has its record in the registry, or will be registered before
  its status is set. Registrations never leave the book, and only one of them, or a set_status by
  a human, ends a suspension.
* `RateInv`: the records of the window the pass looks at, and those it has still to make, are
  together within the limit; no suspension on the book is later than the clock. The window moves
  with the clock, the pass's own hour does not, so that what it counted can only be too much.
* `LedgerInv`: of each earlier pass at most one suspension has no record, the one it died on; the
  pass at work has at most the one it is about to record. So the suspensions of a stretch map one
  to one to records and to passes that died, and `RateLimited` counts the two together. That sum
  is the whole claim: the bare limit does not hold of the code (section 5).
* `SlaInv`: what the pass holds for overdue was overdue in the book at the place where it began,
  and stays so, for the book up to there does not change.
* `AnswerInv`: a danger the pass found is still to be answered, or has been since it began.
* `RouteInv`: every choice on record is capable; the version at work was active at some moment
  since its call began.

The finiteness of `Versions` is assumed because `RateInv` counts what is left to suspend; the
registry is a table with finitely many rows.

`PlaceTheorems` has the facts about `Max` and `Min` over places of a log that the library does not
state. They are found as minimal elements of the intervals above or below, by the
well-foundedness of strict inclusion. That the bounds are natural numbers, plans are sequences of
levels and a cell has an implementer to fall back on is all else that is assumed of the constants.

Only model-checked: the liveness properties (`TailAdvances`, `Settles`, `CallReturns`), as
reasoning under fairness is beyond the prover used here. Every other property of a passing run is
stated by a theorem, for any number of the actors but where `SoleWriter` or `SeatsApart` is named,
and with one pass of `enforce` at a time. What the violation runs refute is not provable, of
course; each stays with the trace TLC finds.

## 5. Plan

Done: the store, the wrapper, the handbrake and its refinement of `run_flow`, the inspector's
report, governance and the Board, and the fleet of routing, Steward, registry and Auditor, each
with its proofs. Next, in this order:

1. `Handbrake`'s inlined ledger steps against `EffectContract`, so that what is proved of
   `perform` alone carries over to the flow that calls it.
2. Two processes that run `enforce` at once; the second dimension of a budget cap.
3. The git working tree under `execute`, and delivery on pass composed with the handbrake.

Known and left for these, or for the authors:

* two humans who set a breakpoint at once get one `bp_id` (`handbrake.py:155`); a later injection
  of any type hides an earlier edit (`handbrake.py:608`);
* a crash between the specify and the decompose event leaves the second unrecorded for ever
  (`handbrake.py:222`); calls of a flow that ended in a return or a block append a gate and a
  reenter event each and change nothing (`handbrake.py:238`);
* an edit injected after a crash is ignored when an unverified output is there to reconstruct
  (`handbrake.py:461`), where `Handbrake-Interface.md` says that a resume consumes it;
* `enforce` suspends and records the suspension in two appends, and the rate limit counts the
  records: a pass that dies between them (`auditor.py:194`) leaves a suspension the limit never
  counts, where Article 11.2 of the Constitution calls suspensions rate-limited. `RateLimited`
  says what does hold, that the excess is no more than the passes that died so;
* a human who injects from the verifier's seat makes the item impossible to finish; a resume
  executes before governance is asked again; an empty plan fails an assertion;
* the first route event of an item is the recorded one for ever, so each call after a suspension
  routes afresh (`handbrake.py:407`); a cell without an Optimizer never asks for a status
  (`handbrake.py:399`);
* a rollback changes nothing `assess` looks at, so that the next one quarantines again
  (`steward.py:97`); a cap met with mixed units raises inside `assess` (`steward.py:127`);
* a status event applies to every role's version of that name (`versions.py:84`); danger never
  expires, and a refused injection counts as one (`auditor.py:73`, `auditor.py:303`); break-glass
  can fall on a version a human has just reinstated (`auditor.py:177`); a new assembly leaves the
  SLA of the version it reinstates open (`auditor.py:222`);
* two proposals ratified by one Board give two registries that lack each other's change
  (`autonomy.py:125`);
* the last verdict decides the report, also of a plan that stopped at a later item
  (`observe.py:81`); the live script's constant flow id returns the first task's verdict for the
  second (`live.py:57`).

## 6. Not modelled

Read-only operations (`inspect`, `replay`, `leaderboard`), `report` (it appends ratings nobody
reads), `evaluate_and_log` (nobody calls it), trace spans, formatting and the command line of
`observe.py`, string validation (`runtime/sanitize.py`), subprocess and git handling, the typing
protocol of `planes/control.py`, and the scripts `demo.py` and `live.py`.
The in-memory store and ledger are the durable ones without crashes. The model of a flow has one
driver at a time: `Handbrake-Interface.md` section 6 leaves contention between humans out of the
product's scope; and one pass of `enforce` runs at a time. SQLite's transactions are taken to be
atomic and durable, SHA-256 to be collision-free, and an idempotency key to stand for one logical
effect.
