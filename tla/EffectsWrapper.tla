--------------------------- MODULE EffectsWrapper ----------------------------
(***************************************************************************)
(* perform() of effects/wrapper.py: every external effect goes through it, *)
(* behind a durable ledger keyed by the effect's idempotency key.  Each    *)
(* ledger call and the audit append commit on their own, so the process    *)
(* can die between any two of them and a new process calls perform() with  *)
(* the same key again.                                                     *)
(*                                                                         *)
(* "idempotent" and "compensable" take the same path in the code: what     *)
(* matters of an effect kind is whether it is irreversible.  perform() is  *)
(* modelled with its store wired, as both callers (handbrake.py and        *)
(* runtime/deliver.py) wire it.  A result digest is the number of the      *)
(* firing that returned it, so that no two firings look alike.             *)
(***************************************************************************)
EXTENDS Naturals, Sequences, SequencesExt

CONSTANTS
  Procs,         \* processes that call perform(); one at a time per flow in the shipped cell
  Keys,          \* idempotency keys (make_idempotency_key: one per logical effect)
  Irreversible,  \* the keys whose effect_kind is "irreversible"
  MaxFaults      \* bound: crashes, raising executes and refused audit appends, together

ASSUME KeysAssumption == Irreversible \subseteq Keys
ASSUME FaultsAssumption == MaxFaults \in Nat

VARIABLES
  ledger,     \* ledger[k]: the effects row of k (durable)
  audit,      \* audit[k]: result digests of k's `action` events, in log order (durable)
  fired,      \* fired[k]: how often the outside world saw the effect
  pc,         \* pc[p]: where process p is in perform()
  cur,        \* cur[p]: the key it performs
  result,     \* result[p]: what its execute() returned
  permitted,  \* permitted[p]: the keys whose action its governance allows
  returned,   \* history: the digests perform(k) returned to callers
  escalated,  \* history: keys for which IrreversibleInFlight was raised
  faults      \* faults so far

durable == <<ledger, audit, fired>>
local == <<cur, result, permitted>>
history == <<returned, escalated>>
vars == <<durable, pc, local, history, faults>>

------------------------------------------------------------------------------
NoRecord == [status |-> "absent", attempts |-> 0, digest |-> 0]

Statuses == {"absent", "in_flight", "completed", "failed"}
Stages == {"idle", "lookup", "record", "execute", "failed", "audit", "complete"}

TypeOK ==
  /\ ledger \in [Keys -> [status : Statuses, attempts : Nat, digest : Nat]]
  /\ audit \in [Keys -> Seq(Nat)]
  /\ fired \in [Keys -> Nat]
  /\ pc \in [Procs -> Stages]
  /\ cur \in [Procs -> Keys]
  /\ result \in [Procs -> Nat]
  /\ permitted \in [Procs -> SUBSET Keys]
  /\ returned \in [Keys -> SUBSET Nat]
  /\ escalated \subseteq Keys
  /\ faults \in 0 .. MaxFaults

Init ==
  /\ ledger = [k \in Keys |-> NoRecord]
  /\ audit = [k \in Keys |-> <<>>]
  /\ fired = [k \in Keys |-> 0]
  /\ pc = [p \in Procs |-> "idle"]
  /\ cur \in [Procs -> Keys]
  /\ result = [p \in Procs |-> 0]
  /\ permitted \in [Procs -> SUBSET Keys]
  /\ returned = [k \in Keys |-> {}]
  /\ escalated = {}
  /\ faults = 0

------------------------------------------------------------------------------
Goto(p, stage) == pc' = [pc EXCEPT ![p] = stage]
At(p, stage) == pc[p] = stage
Row(p) == ledger[cur[p]]
Fault == faults < MaxFaults /\ faults' = faults + 1

\* Step 1, R6: governance.evaluate allows the action.
\* Mutant: the pre-check is left to somebody else.
Allowed_Unchecked(p, k) == TRUE
Allowed(p, k) == k \in permitted[p]

Call(p, k) ==
  /\ At(p, "idle")
  /\ Allowed(p, k)
  /\ cur' = [cur EXCEPT ![p] = k]
  /\ Goto(p, "lookup")
  /\ UNCHANGED <<durable, result, permitted, history, faults>>

\* Blocked: raise GovernanceBlocked, touch nothing.
Refuse(p, k) ==
  /\ At(p, "idle")
  /\ ~Allowed(p, k)
  /\ UNCHANGED vars

\* Step 2: what ledger.get decides.
\* Mutants: an irreversible effect that failed is retried; a completed one is run again.
MustEscalate_InFlightOnly(p) == cur[p] \in Irreversible /\ Row(p).status = "in_flight"
MustEscalate(p) == cur[p] \in Irreversible /\ Row(p).status \in {"in_flight", "failed"}

MayAttempt_RetryFailed(p) ==
  \/ Row(p).status \in {"absent", "failed"}
  \/ Row(p).status = "in_flight" /\ cur[p] \notin Irreversible
MayAttempt_Always(p) == ~MustEscalate(p)
MayAttempt(p) == Row(p).status # "completed" /\ ~MustEscalate(p)

\* completed: return the recorded digest, do not execute.
ReturnCached(p) ==
  /\ At(p, "lookup")
  /\ Row(p).status = "completed"
  /\ returned' = [returned EXCEPT ![cur[p]] = @ \cup {Row(p).digest}]
  /\ Goto(p, "idle")
  /\ UNCHANGED <<durable, local, escalated, faults>>

\* Mutant: an effect that may be in flight is left alone, and nobody is told.
Escalate_Silent(p) ==
  /\ At(p, "lookup")
  /\ MustEscalate(p)
  /\ Goto(p, "idle")
  /\ UNCHANGED <<durable, local, history, faults>>

\* An irreversible effect that was attempted: raise IrreversibleInFlight.
Escalate(p) ==
  /\ At(p, "lookup")
  /\ MustEscalate(p)
  /\ escalated' = escalated \cup {cur[p]}
  /\ Goto(p, "idle")
  /\ UNCHANGED <<durable, local, returned, faults>>

\* Mutant: the effect runs with no row to say so.
Proceed_Unrecorded(p) ==
  /\ At(p, "lookup")
  /\ MayAttempt(p)
  /\ Goto(p, "execute")
  /\ UNCHANGED <<durable, local, history, faults>>

Proceed(p) ==
  /\ At(p, "lookup")
  /\ MayAttempt(p)
  /\ Goto(p, "record")
  /\ UNCHANGED <<durable, local, history, faults>>

\* Step 3: ledger.put_in_flight, an upsert committed before the effect.  An old digest stays.
PutInFlight(p) ==
  /\ At(p, "record")
  /\ ledger' = [ledger EXCEPT ![cur[p]].status = "in_flight", ![cur[p]].attempts = @ + 1]
  /\ Goto(p, "execute")
  /\ UNCHANGED <<audit, fired, local, history, faults>>

\* Mutant: the row is marked completed first, the audit event comes after.
AfterExecute_AuditLast == "complete"
AfterExecute == "audit"

\* execute(action) takes effect and returns.
ExecuteReturns(p) ==
  /\ At(p, "execute")
  /\ fired' = [fired EXCEPT ![cur[p]] = @ + 1]
  /\ result' = [result EXCEPT ![p] = fired[cur[p]] + 1]
  /\ Goto(p, AfterExecute)
  /\ UNCHANGED <<ledger, audit, cur, permitted, history, faults>>

\* execute(action) raises an Exception, with or without having taken effect outside.
ExecuteRaises(p) ==
  /\ At(p, "execute")
  /\ Fault
  /\ fired' \in {fired, [fired EXCEPT ![cur[p]] = @ + 1]}
  /\ Goto(p, "failed")
  /\ UNCHANGED <<ledger, audit, local, history>>

\* Mutant: a failed attempt gives its row back.
FailedStatus_Cleared == "cleared"
FailedStatus == "failed"

\* ledger.mark_failed, then the exception goes on to the caller.
MarkFailed(p) ==
  /\ At(p, "failed")
  /\ ledger' = [ledger EXCEPT ![cur[p]].status = FailedStatus]
  /\ Goto(p, "idle")
  /\ UNCHANGED <<audit, fired, local, history, faults>>

\* Step 4: append the `action` event.
AppendAudit(p) ==
  /\ At(p, "audit")
  /\ audit' = [audit EXCEPT ![cur[p]] = Append(@, result[p])]
  /\ Goto(p, "complete")
  /\ UNCHANGED <<ledger, fired, local, history, faults>>

\* The append loses a race on the log's tail and raises; the row stays in_flight.
AuditRefused(p) ==
  /\ At(p, "audit")
  /\ Fault
  /\ Goto(p, "idle")
  /\ UNCHANGED <<durable, local, history>>

\* Mutant: the fresh result is returned, the row is left in_flight.
MarkCompleted_Unmarked(p) ==
  /\ At(p, "complete")
  /\ returned' = [returned EXCEPT ![cur[p]] = @ \cup {result[p]}]
  /\ Goto(p, "idle")
  /\ UNCHANGED <<durable, local, escalated, faults>>

\* ledger.mark_completed, and return the fresh result.
MarkCompleted(p) ==
  /\ At(p, "complete")
  /\ ledger' = [ledger EXCEPT ![cur[p]].status = "completed", ![cur[p]].digest = result[p]]
  /\ returned' = [returned EXCEPT ![cur[p]] = @ \cup {result[p]}]
  /\ Goto(p, "idle")
  /\ UNCHANGED <<audit, fired, local, escalated, faults>>

\* The process dies (or execute raises a BaseException) and a new one takes over: the
\* durable plane is all it has, and its governance may be compiled from another registry.
Crash(p) ==
  /\ Fault
  /\ Goto(p, "idle")
  /\ \E allowed \in SUBSET Keys : permitted' = [permitted EXCEPT ![p] = allowed]
  /\ UNCHANGED <<durable, cur, result, history>>

Step(p) ==
  \/ ReturnCached(p) \/ Escalate(p) \/ Proceed(p) \/ PutInFlight(p)
  \/ ExecuteReturns(p) \/ ExecuteRaises(p) \/ MarkFailed(p)
  \/ AppendAudit(p) \/ AuditRefused(p) \/ MarkCompleted(p)

Next ==
  \E p \in Procs :
    \/ \E k \in Keys : Call(p, k) \/ Refuse(p, k)
    \/ Step(p)
    \/ Crash(p)

Spec == Init /\ [][Next]_vars

\* perform() runs on unless its process dies; whoever waits for an effect asks for it again
\* and again (the flow is started or resumed, which is what calls perform()).
FairSpec ==
  /\ Spec
  /\ \A p \in Procs : WF_vars(Step(p)) /\ \A k \in Keys : SF_vars(Call(p, k))

------------------------------------------------------------------------------
Completed(k) == ledger[k].status = "completed"

\* An irreversible effect reaches the outside world at most once, through any number of
\* crashes, exceptions and retries ("AT-MOST-ONCE attempt", wrapper.py).
AtMostOnce == \A k \in Irreversible : fired[k] <= 1

\* The outside world never saw an effect the ledger does not know of: an attempt is on
\* record before it can take effect, and each firing has an attempt of its own.
NoSilentEffect == \A k \in Keys : fired[k] <= ledger[k].attempts

\* A completed effect did happen, and the log holds the action event of the very firing
\* whose result stands (R12: no completed effect without its audit record).
CompletedAudited ==
  \A k \in Keys : Completed(k) =>
    /\ ledger[k].digest \in 1 .. fired[k]
    /\ ledger[k].digest \in Range(audit[k])

\* Whoever gets a result for an effect, in whatever process and after whatever crash,
\* gets the same one, and it is the ledger's.
OneResult == \A k \in Keys : returned[k] # {} => Completed(k) /\ returned[k] = {ledger[k].digest}

\* Once completed, an effect's row, its firings and its audit events never change again:
\* a retry neither re-fires it nor logs it anew.
CompletedForGood ==
  [][\A k \in Keys : Completed(k) =>
       UNCHANGED <<ledger[k], fired[k], audit[k]>>]_vars

\* No effect takes place in a process whose governance blocks it (R6, checked before the effect):
\* the process that takes the step allows it, whatever another that performs the same key allows.
GateBeforeEffect ==
  [][\A k \in Keys : fired'[k] # fired[k] =>
       \E p \in Procs : pc'[p] # pc[p] /\ cur[p] = k /\ k \in permitted[p]]_vars

\* No effect is stuck: one that is asked for and allowed is completed in the end, or a
\* human is told it may have happened already.
Settles ==
  \A p \in Procs, k \in Keys :
    <>[](k \in permitted[p]) => <>(Completed(k) \/ k \in escalated)

\* "append one `action` Event (only on first completion, never on a cached resume)" (wrapper.py)
AuditedOnce == \A k \in Keys : Len(audit[k]) <= 1

C == INSTANCE EffectContract
       WITH settled <- [k \in Keys |-> IF Completed(k) THEN ledger[k].digest ELSE 0]

\* perform() with its ledger implements the contract.
ImplementsContract == C!Spec
==============================================================================
