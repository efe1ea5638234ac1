------------------------ MODULE EffectsWrapperProofs -------------------------
(***************************************************************************)
(* What perform() guarantees for any keys, kinds, faults and bounds.  The  *)
(* audit guarantee holds for any number of processes; the rest needs the   *)
(* single writer the cell is designed for (planes/memory.py: "one writer   *)
(* per flow at a time"), which SoleWriter states.                          *)
(***************************************************************************)
EXTENDS EffectsWrapper, SequenceTheorems, TLAPS

SoleWriter == \A p, q \in Procs : p = q

------------------------------------------------------------------------------
(* The part that needs no single writer. *)

\* A result a process carries is that of a firing, and is in the log before the row is marked.
ResultFired ==
  \A p \in Procs : pc[p] \in {"audit", "complete"} => result[p] \in 1 .. fired[cur[p]]

ResultAudited ==
  \A p \in Procs : pc[p] = "complete" => result[p] \in Range(audit[cur[p]])

AuditRest == ResultFired /\ ResultAudited /\ CompletedAudited

AuditInv == TypeOK /\ AuditRest

LEMMA RangeAppend ==
  ASSUME NEW T, NEW s \in Seq(T), NEW e \in T
  PROVE  /\ Append(s, e) \in Seq(T)
         /\ e \in Range(Append(s, e))
         /\ \A x \in Range(s) : x \in Range(Append(s, e))
<1> DEFINE a == Append(s, e)
<1>1. /\ a \in Seq(T) /\ Len(a) = Len(s) + 1 /\ a[Len(s) + 1] = e
      /\ \A i \in 1 .. Len(s) : a[i] = s[i]
  BY AppendProperties
<1>2. DOMAIN a = 1 .. Len(s) + 1 /\ DOMAIN s = 1 .. Len(s) /\ Len(s) \in Nat
  BY <1>1, LenProperties
<1>3. Len(s) + 1 \in DOMAIN a
  BY <1>2
<1>4. \A i \in DOMAIN s : i \in DOMAIN a /\ a[i] = s[i]
  BY <1>1, <1>2
<1> QED BY <1>1, <1>3, <1>4 DEF Range

LEMMA AuditInit == Init => AuditInv
<1> SUFFICES ASSUME Init PROVE AuditInv
  OBVIOUS
<1>1. TypeOK
  BY KeysAssumption, FaultsAssumption DEF Init, TypeOK, NoRecord, Statuses, Stages
<1> QED BY <1>1 DEF Init, AuditInv, AuditRest, ResultFired, ResultAudited, CompletedAudited, Completed, NoRecord

\* What perform() writes over a row is a row.
Rows == [status : Statuses, attempts : Nat, digest : Nat]

LEMMA RowUpdate ==
  ASSUME NEW r \in Rows, NEW d \in Nat
  PROVE  /\ [r EXCEPT !.status = "in_flight", !.attempts = r.attempts + 1] \in Rows
         /\ [r EXCEPT !.status = "completed", !.digest = d] \in Rows
<1>1. \A n \in Nat : [r EXCEPT !.status = "in_flight", !.attempts = n] \in Rows
  BY DEF Rows, Statuses
<1>2. r.attempts \in Nat /\ r.attempts + 1 \in Nat
  BY DEF Rows
<1>3. [r EXCEPT !.status = "completed", !.digest = d] \in Rows
  BY DEF Rows, Statuses
<1> QED BY <1>1, <1>2, <1>3

\* Types, action by action.
LEMMA TypeStep == TypeOK /\ [Next]_vars => TypeOK'
<1> SUFFICES ASSUME TypeOK, [Next]_vars PROVE TypeOK'
  OBVIOUS
<1> USE DEF TypeOK, Goto, At, Row, Fault, Stages, Statuses, Rows, durable, local, history
<1>1. ASSUME NEW p \in Procs, NEW k \in Keys, Call(p, k) PROVE TypeOK'
  BY <1>1 DEF Call
<1>2. ASSUME NEW p \in Procs, NEW k \in Keys, Refuse(p, k) PROVE TypeOK'
  BY <1>2 DEF Refuse, vars
<1>3. ASSUME NEW p \in Procs, ReturnCached(p) PROVE TypeOK'
  BY <1>3 DEF ReturnCached
<1>4. ASSUME NEW p \in Procs, Escalate(p) PROVE TypeOK'
  BY <1>4 DEF Escalate
<1>5. ASSUME NEW p \in Procs, Proceed(p) PROVE TypeOK'
  BY <1>5 DEF Proceed
<1>6. ASSUME NEW p \in Procs, PutInFlight(p) PROVE TypeOK'
  <2>1. ledger' = [ledger EXCEPT ![cur[p]] =
                     [ledger[cur[p]] EXCEPT !.status = "in_flight",
                                            !.attempts = ledger[cur[p]].attempts + 1]]
    BY <1>6 DEF PutInFlight
  <2>2. ledger' \in [Keys -> [status : Statuses, attempts : Nat, digest : Nat]]
    <3>1. cur[p] \in Keys /\ ledger[cur[p]] \in Rows
      OBVIOUS
    <3>2. [ledger[cur[p]] EXCEPT !.status = "in_flight",
                                 !.attempts = ledger[cur[p]].attempts + 1] \in Rows
      BY <3>1, RowUpdate
    <3> QED BY <2>1, <3>2
  <2>3. pc' \in [Procs -> Stages] /\ UNCHANGED <<audit, fired, local, history, faults>>
    BY <1>6 DEF PutInFlight
  <2> QED BY <2>2, <2>3
<1>7. ASSUME NEW p \in Procs, ExecuteReturns(p) PROVE TypeOK'
  BY <1>7 DEF ExecuteReturns, AfterExecute
<1>8. ASSUME NEW p \in Procs, ExecuteRaises(p) PROVE TypeOK'
  <2>0. fired' = fired \/ fired' = [fired EXCEPT ![cur[p]] = @ + 1]
    BY <1>8 DEF ExecuteRaises
  <2>1. fired' \in [Keys -> Nat]
    BY <2>0
  <2>2. UNCHANGED <<ledger, audit, cur, result, permitted, returned, escalated>>
        /\ pc' = [pc EXCEPT ![p] = "failed"] /\ faults < MaxFaults /\ faults' = faults + 1
    BY <1>8 DEF ExecuteRaises
  <2> QED BY <2>1, <2>2, FaultsAssumption
<1>9. ASSUME NEW p \in Procs, MarkFailed(p) PROVE TypeOK'
  BY <1>9 DEF MarkFailed, FailedStatus
<1>10. ASSUME NEW p \in Procs, AppendAudit(p) PROVE TypeOK'
  <2>1. Append(audit[cur[p]], result[p]) \in Seq(Nat)
    BY RangeAppend
  <2> QED BY <1>10, <2>1 DEF AppendAudit
<1>11. ASSUME NEW p \in Procs, AuditRefused(p) PROVE TypeOK'
  BY <1>11, FaultsAssumption DEF AuditRefused
<1>12. ASSUME NEW p \in Procs, MarkCompleted(p) PROVE TypeOK'
  <2>1. ledger' = [ledger EXCEPT ![cur[p]] =
                     [@ EXCEPT !.status = "completed", !.digest = result[p]]]
    BY <1>12 DEF MarkCompleted
  <2>2. ledger' \in [Keys -> [status : Statuses, attempts : Nat, digest : Nat]]
    <3>1. cur[p] \in Keys /\ ledger[cur[p]] \in Rows /\ result[p] \in Nat
      OBVIOUS
    <3>2. [ledger[cur[p]] EXCEPT !.status = "completed", !.digest = result[p]] \in Rows
      BY <3>1, RowUpdate
    <3> QED BY <2>1, <3>2
  <2>3. returned' \in [Keys -> SUBSET Nat] /\ pc' \in [Procs -> Stages]
    BY <1>12 DEF MarkCompleted
  <2> QED BY <1>12, <2>2, <2>3 DEF MarkCompleted
<1>13. ASSUME NEW p \in Procs, Crash(p) PROVE TypeOK'
  BY <1>13, FaultsAssumption DEF Crash
<1>14. CASE UNCHANGED vars
  BY <1>14 DEF vars
<1> QED BY <1>1, <1>2, <1>3, <1>4, <1>5, <1>6, <1>7, <1>8, <1>9, <1>10, <1>11, <1>12, <1>13, <1>14
        DEF Next, Step

LEMMA AuditStep == AuditInv /\ [Next]_vars => AuditInv'
<1> SUFFICES ASSUME AuditInv, [Next]_vars PROVE AuditInv'
  OBVIOUS
<1>0. TypeOK /\ TypeOK'
  BY TypeStep DEF AuditInv
<1> USE DEF TypeOK, Goto, At, Row, Fault, Stages, durable, local, history
<1>1. ASSUME NEW p \in Procs, PutInFlight(p) PROVE AuditRest'
  BY <1>0, <1>1 DEF PutInFlight, AuditInv, AuditRest, ResultFired, ResultAudited, CompletedAudited, Completed
<1>2. ASSUME NEW p \in Procs, ExecuteReturns(p) PROVE AuditRest'
  BY <1>0, <1>2 DEF ExecuteReturns, AfterExecute, AuditInv, AuditRest, ResultFired, ResultAudited,
                    CompletedAudited, Completed
<1>3. ASSUME NEW p \in Procs, ExecuteRaises(p) PROVE AuditRest'
  <2>0. fired' = fired \/ fired' = [fired EXCEPT ![cur[p]] = @ + 1]
    BY <1>3 DEF ExecuteRaises
  <2>1. fired' \in [Keys -> Nat] /\ \A k \in Keys : fired'[k] >= fired[k]
    <3>1. \A k \in Keys : fired'[k] = fired[k] \/ fired'[k] = fired[k] + 1
      BY <1>0, <2>0
    <3>2. fired \in [Keys -> Nat] /\ fired' \in [Keys -> Nat]
      BY <1>0
    <3> QED BY <3>1, <3>2
  <2>2. UNCHANGED <<ledger, audit, cur, result>> /\ pc' = [pc EXCEPT ![p] = "failed"]
    BY <1>3 DEF ExecuteRaises
  <2> QED BY <1>0, <2>1, <2>2
          DEF AuditInv, AuditRest, ResultFired, ResultAudited, CompletedAudited, Completed
<1>4. ASSUME NEW p \in Procs, MarkFailed(p) PROVE AuditRest'
  BY <1>0, <1>4 DEF MarkFailed, FailedStatus, AuditInv, AuditRest, ResultFired, ResultAudited,
                    CompletedAudited, Completed
<1>5. ASSUME NEW p \in Procs, AppendAudit(p) PROVE AuditRest'
  <2>1. /\ result[p] \in Range(Append(audit[cur[p]], result[p]))
        /\ \A x \in Range(audit[cur[p]]) : x \in Range(Append(audit[cur[p]], result[p]))
    BY <1>0, RangeAppend
  <2>2. /\ audit'[cur[p]] = Append(audit[cur[p]], result[p])
        /\ \A k \in Keys : k # cur[p] => audit'[k] = audit[k]
    BY <1>0, <1>5 DEF AppendAudit
  <2>3. /\ result[p] \in Range(audit'[cur[p]])
        /\ \A k \in Keys : \A x \in Range(audit[k]) : x \in Range(audit'[k])
    BY <1>0, <2>1, <2>2
  <2>4. UNCHANGED <<ledger, fired, cur, result>> /\ pc[p] = "audit" /\ pc' = [pc EXCEPT ![p] = "complete"]
    BY <1>5 DEF AppendAudit
  <2> QED BY <1>0, <2>3, <2>4 DEF AuditInv, AuditRest, ResultFired, ResultAudited, CompletedAudited, Completed
<1>6. ASSUME NEW p \in Procs, MarkCompleted(p) PROVE AuditRest'
  BY <1>0, <1>6 DEF MarkCompleted, AuditInv, AuditRest, ResultFired, ResultAudited, CompletedAudited, Completed
<1>7. ASSUME NEW p \in Procs, NEW k \in Keys, Call(p, k) PROVE AuditRest'
  BY <1>0, <1>7 DEF Call, AuditInv, AuditRest, ResultFired, ResultAudited, CompletedAudited, Completed
<1>8. ASSUME NEW p \in Procs, UNCHANGED <<durable, cur, result>>,
             pc' = [pc EXCEPT ![p] = "idle"] \/ pc' = [pc EXCEPT ![p] = "record"]
      PROVE  AuditRest'
  BY <1>0, <1>8 DEF AuditInv, AuditRest, ResultFired, ResultAudited, CompletedAudited, Completed
<1>9. ASSUME UNCHANGED vars PROVE AuditRest'
  BY <1>9 DEF vars, AuditInv, AuditRest, ResultFired, ResultAudited, CompletedAudited, Completed
<1>10. ASSUME NEW p \in Procs, ReturnCached(p) \/ Escalate(p) \/ Proceed(p) \/ AuditRefused(p) \/ Crash(p)
       PROVE  AuditRest'
  <2>1. UNCHANGED <<durable, cur, result>>
    BY <1>10 DEF ReturnCached, Escalate, Proceed, AuditRefused, Crash, local
  <2>2. pc' = [pc EXCEPT ![p] = "idle"] \/ pc' = [pc EXCEPT ![p] = "record"]
    BY <1>10 DEF ReturnCached, Escalate, Proceed, AuditRefused, Crash
  <2> QED BY <1>8, <2>1, <2>2
<1>11. AuditRest'
  <2>1. ASSUME NEW p \in Procs, NEW k \in Keys, Refuse(p, k) PROVE UNCHANGED vars
    BY <2>1 DEF Refuse
  <2>2. ASSUME NEW p \in Procs, Step(p) PROVE AuditRest'
    BY <1>1, <1>2, <1>3, <1>4, <1>5, <1>6, <1>10, <2>2 DEF Step
  <2>3. ASSUME Next PROVE AuditRest'
    BY <1>7, <1>9, <1>10, <2>1, <2>2, <2>3 DEF Next
  <2> QED BY <1>9, <2>3
<1> QED BY <1>0, <1>11 DEF AuditInv

\* Every variable keeps its type.
THEOREM TypeCorrect == Spec => []TypeOK
<1>1. AuditInv => TypeOK
  BY DEF AuditInv
<1> QED BY <1>1, AuditInit, TypeStep, PTL DEF Spec

\* No completed effect without its firing and its action event on the log (R12), even if
\* several processes race on the key.
THEOREM AuditBeforeCompletion == Spec => []CompletedAudited
<1>1. AuditInv => CompletedAudited
  BY DEF AuditInv, AuditRest
<1> QED BY <1>1, AuditInit, AuditStep, PTL DEF Spec

\* An effect only ever takes place in a process whose governance allowed the call (R6).
THEOREM GateHolds == Spec => GateBeforeEffect
<1> DEFINE Gated == \A p \in Procs : pc[p] # "idle" => cur[p] \in permitted[p]
           GatedStep == \A k \in Keys : fired'[k] # fired[k] =>
                          \E p \in Procs : pc'[p] # pc[p] /\ cur[p] = k /\ k \in permitted[p]
<1>1. Init => Gated
  BY DEF Init
<1>2. TypeOK /\ Gated /\ [Next]_vars => Gated'
  <2> SUFFICES ASSUME TypeOK, Gated, [Next]_vars PROVE Gated'
    OBVIOUS
  <2> USE DEF TypeOK, Goto, At, durable, local, history
  <2>1. ASSUME NEW p \in Procs, NEW k \in Keys, Call(p, k) PROVE Gated'
    BY <2>1 DEF Call, Allowed
  <2>2. ASSUME NEW p \in Procs, Step(p) PROVE Gated'
    <3>1. pc[p] # "idle" /\ UNCHANGED <<cur, permitted>> /\ \E st : pc' = [pc EXCEPT ![p] = st]
      BY <2>2 DEF Step, ReturnCached, Escalate, Proceed, PutInFlight, ExecuteReturns,
                  ExecuteRaises, MarkFailed, AppendAudit, AuditRefused, MarkCompleted
    <3> QED BY <3>1
  <2>3. ASSUME NEW p \in Procs, Crash(p) PROVE Gated'
    BY <2>3 DEF Crash
  <2>4. ASSUME UNCHANGED vars PROVE Gated'
    BY <2>4 DEF vars
  <2>5. ASSUME NEW p \in Procs, NEW k \in Keys, Refuse(p, k) PROVE UNCHANGED vars
    BY <2>5 DEF Refuse
  <2> HIDE DEF Gated
  <2> QED BY <2>1, <2>2, <2>3, <2>4, <2>5 DEF Next
<1>3. TypeOK /\ Gated /\ [Next]_vars => [GatedStep]_vars
  <2> SUFFICES ASSUME TypeOK, Gated, Next PROVE GatedStep
    OBVIOUS
  <2> USE DEF TypeOK, Goto, At, durable, local, history
  <2>1. ASSUME NEW p \in Procs, ExecuteReturns(p) \/ ExecuteRaises(p) PROVE GatedStep
    <3>1. pc'[p] # pc[p] /\ cur[p] \in permitted[p]
      BY <2>1 DEF ExecuteReturns, ExecuteRaises, AfterExecute
    <3>2. fired' = fired \/ fired' = [fired EXCEPT ![cur[p]] = @ + 1]
      BY <2>1 DEF ExecuteReturns, ExecuteRaises
    <3> QED BY <3>1, <3>2
  <2>2. ASSUME UNCHANGED fired PROVE GatedStep
    BY <2>2
  <2>3. ASSUME NEW p \in Procs, Step(p), ~ExecuteReturns(p), ~ExecuteRaises(p) PROVE UNCHANGED fired
    BY <2>3 DEF Step, ReturnCached, Escalate, Proceed, PutInFlight, MarkFailed, AppendAudit,
                AuditRefused, MarkCompleted
  <2>4. ASSUME NEW p \in Procs, NEW k \in Keys, Call(p, k) \/ Refuse(p, k) \/ Crash(p)
        PROVE  UNCHANGED fired
    BY <2>4 DEF Call, Refuse, Crash, vars
  <2> HIDE DEF GatedStep
  <2> QED BY <2>1, <2>2, <2>3, <2>4 DEF Next, Crash
<1> QED BY <1>1, <1>2, <1>3, TypeCorrect, PTL DEF Spec, GateBeforeEffect

------------------------------------------------------------------------------
(* The part a single writer is needed for. *)

\* What step 2 of perform() found still holds of the row until the call ends.
RowOfStage ==
  \A p \in Procs :
    /\ pc[p] = "record" => MayAttempt(p)
    /\ pc[p] \in {"execute", "failed", "audit", "complete"} => Row(p).status = "in_flight"

UntouchedNotFired == \A k \in Keys : ledger[k].status = "absent" => fired[k] = 0

\* About to fire: the attempt is counted, and an irreversible effect has not fired yet.
BeforeFiring ==
  \A p \in Procs : pc[p] = "execute" =>
    /\ fired[cur[p]] < Row(p).attempts
    /\ cur[p] \in Irreversible => fired[cur[p]] = 0

\* The result on its way to the ledger, and the one there, is that of the last firing.
ResultIsLast ==
  /\ \A p \in Procs : pc[p] \in {"audit", "complete"} => result[p] = fired[cur[p]] /\ result[p] > 0
  /\ \A k \in Keys : Completed(k) => ledger[k].digest = fired[k] /\ fired[k] > 0

SoloRest ==
  /\ RowOfStage
  /\ UntouchedNotFired
  /\ BeforeFiring
  /\ ResultIsLast
  /\ NoSilentEffect
  /\ AtMostOnce
  /\ OneResult

SoloInv == TypeOK /\ SoloRest

LEMMA SoloInit == Init => SoloInv
<1> SUFFICES ASSUME Init PROVE SoloInv
  OBVIOUS
<1>1. TypeOK
  BY AuditInit DEF AuditInv
<1> QED BY <1>1, KeysAssumption
        DEF Init, SoloInv, SoloRest, RowOfStage, UntouchedNotFired, BeforeFiring, ResultIsLast,
            NoSilentEffect, AtMostOnce, OneResult, Completed, NoRecord

\* The steps that touch neither the ledger, the effect nor what was returned.
LEMMA SoloQuiet ==
  ASSUME SoleWriter, SoloInv, NEW p \in Procs,
         UNCHANGED <<ledger, fired, returned>>,
         \/ pc'[p] \in {"idle", "lookup"}
         \/ UNCHANGED <<cur, result>> /\ pc'[p] = "record" /\ MayAttempt(p)
         \/ UNCHANGED <<cur, result>> /\ pc[p] = "audit" /\ pc'[p] = "complete"
         \/ UNCHANGED <<cur, result, pc>>
  PROVE  SoloRest'
<1>1. \A q \in Procs : q = p
  BY DEF SoleWriter
<1>2. RowOfStage'
  BY <1>1 DEF SoloInv, SoloRest, RowOfStage, Row, MayAttempt, MustEscalate
<1>3. BeforeFiring'
  BY <1>1 DEF SoloInv, SoloRest, BeforeFiring, Row
<1>4. ResultIsLast'
  BY <1>1 DEF SoloInv, SoloRest, ResultIsLast, Completed
<1>5. UntouchedNotFired' /\ NoSilentEffect' /\ AtMostOnce' /\ OneResult'
  BY DEF SoloInv, SoloRest, UntouchedNotFired, NoSilentEffect, AtMostOnce, OneResult, Completed
<1> QED BY <1>2, <1>3, <1>4, <1>5 DEF SoloRest

LEMMA SoloPutInFlight ==
  ASSUME SoleWriter, SoloInv, NEW p \in Procs, PutInFlight(p)
  PROVE  SoloRest'
<1> DEFINE k == cur[p]
<1>0. /\ \A q \in Procs : q = p
      /\ k \in Keys /\ Irreversible \subseteq Keys
      /\ \A j \in Keys : fired[j] \in Nat /\ ledger[j].attempts \in Nat
  BY KeysAssumption DEF SoleWriter, SoloInv, TypeOK
<1>1. /\ ledger'[k].status = "in_flight"
      /\ ledger'[k].attempts = ledger[k].attempts + 1
      /\ \A j \in Keys : j # k => ledger'[j] = ledger[j]
  BY <1>0 DEF PutInFlight, SoloInv, TypeOK
<1>2. /\ pc[p] = "record" /\ pc'[p] = "execute"
      /\ UNCHANGED <<fired, cur, result, returned>>
  BY DEF PutInFlight, At, Goto, SoloInv, TypeOK, local, history
<1>3. ledger[k].status # "completed" /\ (k \in Irreversible => fired[k] = 0) /\ returned[k] = {}
  <2>1. ledger[k].status \in Statuses
    BY <1>0 DEF SoloInv, TypeOK
  <2> QED BY <1>0, <1>2, <2>1 DEF SoloInv, SoloRest, RowOfStage, MayAttempt, MustEscalate, Row,
                               UntouchedNotFired, OneResult, Completed, Statuses
<1>4. RowOfStage'
  BY <1>0, <1>1, <1>2 DEF RowOfStage, Row
<1>5. UntouchedNotFired'
  BY <1>0, <1>1, <1>2 DEF SoloInv, SoloRest, UntouchedNotFired
<1>6. NoSilentEffect'
  BY <1>0, <1>1, <1>2 DEF SoloInv, SoloRest, NoSilentEffect
<1>7. BeforeFiring'
  BY <1>0, <1>1, <1>2, <1>3 DEF SoloInv, SoloRest, BeforeFiring, NoSilentEffect, Row
<1>8. ResultIsLast' /\ AtMostOnce'
  BY <1>0, <1>1, <1>2 DEF SoloInv, SoloRest, ResultIsLast, AtMostOnce, Completed
<1>9. OneResult'
  BY <1>0, <1>1, <1>2, <1>3 DEF SoloInv, SoloRest, OneResult, Completed
<1> QED BY <1>4, <1>5, <1>6, <1>7, <1>8, <1>9 DEF SoloRest

LEMMA SoloExecute ==
  ASSUME SoleWriter, SoloInv, NEW p \in Procs, ExecuteReturns(p) \/ ExecuteRaises(p)
  PROVE  SoloRest'
<1> DEFINE k == cur[p]
<1>0. /\ \A q \in Procs : q = p
      /\ k \in Keys /\ Irreversible \subseteq Keys
      /\ \A j \in Keys : fired[j] \in Nat /\ ledger[j].attempts \in Nat
  BY KeysAssumption DEF SoleWriter, SoloInv, TypeOK
<1>1. fired' = fired \/ fired' = [fired EXCEPT ![cur[p]] = @ + 1]
  BY DEF ExecuteReturns, ExecuteRaises
<1>2. /\ fired'[k] \in {fired[k], fired[k] + 1}
      /\ \A j \in Keys : j # k => fired'[j] = fired[j]
  BY <1>0, <1>1 DEF SoloInv, TypeOK
<1>3. /\ pc[p] = "execute"
      /\ \/ pc'[p] = "audit" /\ result'[p] = fired[k] + 1 /\ fired'[k] = fired[k] + 1
         \/ pc'[p] = "failed"
      /\ UNCHANGED <<ledger, cur, returned>>
  BY <1>0 DEF ExecuteReturns, ExecuteRaises, AfterExecute, At, Goto, SoloInv, TypeOK, local, history
<1>4. /\ ledger[k].status = "in_flight"
      /\ fired[k] < ledger[k].attempts
      /\ k \in Irreversible => fired[k] = 0
  BY <1>3 DEF SoloInv, SoloRest, RowOfStage, BeforeFiring, Row
<1>5. RowOfStage'
  BY <1>0, <1>3, <1>4 DEF RowOfStage, Row
<1>6. UntouchedNotFired'
  BY <1>0, <1>2, <1>3, <1>4 DEF SoloInv, SoloRest, UntouchedNotFired
<1>7. NoSilentEffect'
  BY <1>0, <1>2, <1>3, <1>4 DEF SoloInv, SoloRest, NoSilentEffect
<1>8. BeforeFiring'
  BY <1>0, <1>3 DEF BeforeFiring
<1>9. AtMostOnce'
  <2>1. ASSUME NEW j \in Irreversible, j # k PROVE fired'[j] <= 1
    BY <1>0, <1>2, <2>1 DEF SoloInv, SoloRest, AtMostOnce
  <2>2. k \in Irreversible => fired'[k] <= 1
    BY <1>0, <1>2, <1>4
  <2> QED BY <2>1, <2>2 DEF AtMostOnce
<1>10. ResultIsLast'
  <2>1. ASSUME NEW j \in Keys, Completed(j)'
        PROVE  (ledger[j].digest = fired[j] /\ fired[j] > 0)'
    BY <1>2, <1>3, <1>4, <2>1 DEF SoloInv, SoloRest, ResultIsLast, Completed
  <2>2. ASSUME NEW q \in Procs, pc'[q] \in {"audit", "complete"}
        PROVE  result'[q] = fired'[cur'[q]] /\ result'[q] > 0
    BY <1>0, <1>3, <2>2
  <2> QED BY <2>1, <2>2 DEF ResultIsLast
<1>11. OneResult'
  BY <1>3 DEF SoloInv, SoloRest, OneResult, Completed
<1> QED BY <1>5, <1>6, <1>7, <1>8, <1>9, <1>10, <1>11 DEF SoloRest

LEMMA SoloMark ==
  ASSUME SoleWriter, SoloInv, NEW p \in Procs, MarkFailed(p) \/ MarkCompleted(p)
  PROVE  SoloRest'
<1> DEFINE k == cur[p]
<1>0. /\ \A q \in Procs : q = p
      /\ k \in Keys /\ Irreversible \subseteq Keys
      /\ \A j \in Keys : fired[j] \in Nat /\ ledger[j].attempts \in Nat
  BY KeysAssumption DEF SoleWriter, SoloInv, TypeOK
<1>1. /\ pc[p] \in {"failed", "complete"} /\ pc'[p] = "idle"
      /\ UNCHANGED <<fired, cur, result>>
      /\ \A j \in Keys : j # k => ledger'[j] = ledger[j] /\ returned'[j] = returned[j]
      /\ ledger'[k].attempts = ledger[k].attempts
  BY <1>0 DEF MarkFailed, MarkCompleted, At, Goto, SoloInv, TypeOK, local, history
<1>2. ledger[k].status = "in_flight" /\ returned[k] = {}
  BY <1>0, <1>1 DEF SoloInv, SoloRest, RowOfStage, OneResult, Row, Completed
<1>3. \/ /\ ledger'[k].status = "failed"
         /\ returned'[k] = {}
      \/ /\ ledger'[k].status = "completed"
         /\ ledger'[k].digest = fired[k] /\ fired[k] > 0
         /\ returned'[k] = {fired[k]}
  <2>1. CASE MarkFailed(p)
    BY <1>0, <1>2, <2>1 DEF MarkFailed, FailedStatus, SoloInv, TypeOK, history
  <2>2. CASE MarkCompleted(p)
    <3>1. result[p] = fired[k] /\ fired[k] > 0
      BY <2>2 DEF MarkCompleted, At, SoloInv, SoloRest, ResultIsLast
    <3>2. ledger'[k] = [ledger[k] EXCEPT !.status = "completed", !.digest = result[p]]
      BY <1>0, <2>2 DEF MarkCompleted, SoloInv, TypeOK
    <3>3. returned'[k] = {result[p]}
      BY <1>0, <1>2, <2>2 DEF MarkCompleted, SoloInv, TypeOK
    <3>4. ledger'[k].status = "completed" /\ ledger'[k].digest = result[p]
      BY <1>0, <3>2 DEF SoloInv, TypeOK
    <3> QED BY <3>1, <3>3, <3>4
  <2> QED BY <2>1, <2>2
<1>4. RowOfStage' /\ BeforeFiring'
  BY <1>0, <1>1 DEF RowOfStage, BeforeFiring
<1>5. UntouchedNotFired' /\ NoSilentEffect' /\ AtMostOnce'
  BY <1>0, <1>1, <1>3 DEF SoloInv, SoloRest, UntouchedNotFired, NoSilentEffect, AtMostOnce
<1>6. ResultIsLast'
  BY <1>0, <1>1, <1>3 DEF SoloInv, SoloRest, ResultIsLast, Completed
<1>7. OneResult'
  BY <1>0, <1>1, <1>3 DEF SoloInv, SoloRest, OneResult, Completed
<1> QED BY <1>4, <1>5, <1>6, <1>7 DEF SoloRest

LEMMA SoloReturnCached ==
  ASSUME SoleWriter, SoloInv, NEW p \in Procs, ReturnCached(p)
  PROVE  SoloRest'
<1>1. returned' = returned \/ returned'[cur[p]] = {ledger[cur[p]].digest}
  BY DEF ReturnCached, SoloInv, SoloRest, OneResult, TypeOK, Row
<1>2. /\ UNCHANGED <<ledger, fired>> /\ pc'[p] = "idle"
      /\ ledger[cur[p]].status = "completed" /\ cur[p] \in Keys
      /\ \A j \in Keys : j # cur[p] => returned'[j] = returned[j]
  BY DEF ReturnCached, Goto, Row, durable, SoloInv, TypeOK
<1>3. \A q \in Procs : q = p
  BY DEF SoleWriter
<1>4. OneResult'
  BY <1>1, <1>2 DEF SoloInv, SoloRest, OneResult, Completed
<1>5. RowOfStage' /\ BeforeFiring' /\ ResultIsLast'
  BY <1>2, <1>3 DEF SoloInv, SoloRest, RowOfStage, BeforeFiring, ResultIsLast, Completed
<1>6. UntouchedNotFired' /\ NoSilentEffect' /\ AtMostOnce'
  BY <1>2 DEF SoloInv, SoloRest, UntouchedNotFired, NoSilentEffect, AtMostOnce
<1> QED BY <1>4, <1>5, <1>6 DEF SoloRest

LEMMA SoloStep == SoleWriter /\ SoloInv /\ [Next]_vars => SoloInv'
<1> SUFFICES ASSUME SoleWriter, SoloInv, [Next]_vars PROVE SoloInv'
  OBVIOUS
<1>0. TypeOK'
  BY TypeStep DEF SoloInv
<1>1. ASSUME NEW p \in Procs, NEW k \in Keys, Call(p, k) PROVE SoloRest'
  <2>1. UNCHANGED <<ledger, fired, returned>> /\ pc'[p] = "lookup"
    BY <1>1 DEF Call, Goto, durable, history, SoloInv, TypeOK
  <2> QED BY <2>1, SoloQuiet
<1>2. ASSUME NEW p \in Procs, Escalate(p) \/ AuditRefused(p) \/ Crash(p) PROVE SoloRest'
  <2>1. UNCHANGED <<ledger, fired, returned>> /\ pc'[p] = "idle"
    BY <1>2 DEF Escalate, AuditRefused, Crash, Goto, durable, history, SoloInv, TypeOK
  <2> QED BY <2>1, SoloQuiet
<1>3. ASSUME NEW p \in Procs, Proceed(p) PROVE SoloRest'
  <2>1. /\ UNCHANGED <<ledger, fired, returned, cur, result>>
        /\ pc'[p] = "record" /\ MayAttempt(p)
    BY <1>3 DEF Proceed, Goto, durable, local, history, SoloInv, TypeOK
  <2> QED BY <2>1, SoloQuiet
<1>4. ASSUME NEW p \in Procs, AppendAudit(p) PROVE SoloRest'
  <2>1. /\ UNCHANGED <<ledger, fired, returned, cur, result>>
        /\ pc[p] = "audit" /\ pc'[p] = "complete"
    BY <1>4 DEF AppendAudit, At, Goto, local, history, SoloInv, TypeOK
  <2> QED BY <2>1, SoloQuiet
<1>5. ASSUME NEW p \in Procs, PutInFlight(p) PROVE SoloRest'
  BY <1>5, SoloPutInFlight
<1>6. ASSUME NEW p \in Procs, ExecuteReturns(p) \/ ExecuteRaises(p) PROVE SoloRest'
  BY <1>6, SoloExecute
<1>7. ASSUME NEW p \in Procs, MarkFailed(p) \/ MarkCompleted(p) PROVE SoloRest'
  BY <1>7, SoloMark
<1>8. ASSUME NEW p \in Procs, ReturnCached(p) PROVE SoloRest'
  BY <1>8, SoloReturnCached
<1>9. ASSUME UNCHANGED vars PROVE SoloRest'
  BY <1>9 DEF vars, durable, local, history, SoloInv, SoloRest, RowOfStage, Row, MayAttempt,
              MustEscalate, UntouchedNotFired, BeforeFiring, ResultIsLast, NoSilentEffect,
              AtMostOnce, OneResult, Completed
<1>10. ASSUME NEW p \in Procs, NEW k \in Keys, Refuse(p, k) PROVE UNCHANGED vars
  BY <1>10 DEF Refuse
<1>11. SoloRest'
  BY <1>1, <1>2, <1>3, <1>4, <1>5, <1>6, <1>7, <1>8, <1>9, <1>10 DEF Next, Step
<1> QED BY <1>0, <1>11 DEF SoloInv

LEMMA SoloInvariance == ASSUME SoleWriter PROVE Spec => []SoloInv
<1>1. SoloInv /\ [Next]_vars => SoloInv'
  BY SoloStep
<1> QED BY <1>1, SoloInit, PTL DEF Spec

\* Through any crashes, exceptions and retries, an irreversible effect reaches the outside
\* world at most once.
THEOREM IrreversibleAtMostOnce == ASSUME SoleWriter PROVE Spec => []AtMostOnce
<1>1. SoloInv => AtMostOnce
  BY DEF SoloInv, SoloRest
<1> QED BY <1>1, SoloInvariance, PTL

\* Every caller that gets a result for an effect gets the one the ledger keeps.
THEOREM ResultUnique == ASSUME SoleWriter PROVE Spec => []OneResult
<1>1. SoloInv => OneResult
  BY DEF SoloInv, SoloRest
<1> QED BY <1>1, SoloInvariance, PTL

\* No firing without an attempt of its own, on record before it.
THEOREM EffectsRecorded == ASSUME SoleWriter PROVE Spec => []NoSilentEffect
<1>1. SoloInv => NoSilentEffect
  BY DEF SoloInv, SoloRest
<1> QED BY <1>1, SoloInvariance, PTL

\* What the stages say of the current row, used for the two step properties below.
LEMMA WorkingRow ==
  ASSUME SoloInv, NEW p \in Procs,
         pc[p] \in {"record", "execute", "failed", "audit", "complete"}
  PROVE  cur[p] \in Keys /\ ~Completed(cur[p])
BY DEF SoloInv, SoloRest, RowOfStage, MayAttempt, Row, Completed, TypeOK

\* A completed effect is settled: no retry fires it, logs it or rewrites its row.
THEOREM CompletionFinal == ASSUME SoleWriter PROVE Spec => CompletedForGood
<1> DEFINE Kept == \A k \in Keys : Completed(k) => UNCHANGED <<ledger[k], fired[k], audit[k]>>
<1>1. SoloInv /\ [Next]_vars => [Kept]_vars
  <2> SUFFICES ASSUME SoloInv, Next, NEW k \in Keys, Completed(k)
               PROVE  UNCHANGED <<ledger[k], fired[k], audit[k]>>
    OBVIOUS
  <2>1. CASE UNCHANGED durable
    BY <2>1 DEF durable
  <2>2. ASSUME NEW p \in Procs,
               \/ PutInFlight(p) \/ ExecuteReturns(p) \/ ExecuteRaises(p)
               \/ MarkFailed(p) \/ AppendAudit(p) \/ MarkCompleted(p)
        PROVE  UNCHANGED <<ledger[k], fired[k], audit[k]>>
    <3>1. k # cur[p]
      BY <2>2, WorkingRow DEF PutInFlight, ExecuteReturns, ExecuteRaises, MarkFailed, AppendAudit,
                              MarkCompleted, At
    <3>2. fired' = fired \/ fired' = [fired EXCEPT ![cur[p]] = @ + 1]
      BY <2>2 DEF PutInFlight, ExecuteReturns, ExecuteRaises, MarkFailed, AppendAudit, MarkCompleted
    <3>3. ledger'[k] = ledger[k] /\ audit'[k] = audit[k]
      BY <2>2, <3>1 DEF PutInFlight, ExecuteReturns, ExecuteRaises, MarkFailed, AppendAudit,
                        MarkCompleted, SoloInv, TypeOK
    <3>4. fired'[k] = fired[k]
      BY <3>1, <3>2 DEF SoloInv, TypeOK
    <3> QED BY <3>3, <3>4
  <2> QED BY <2>1, <2>2 DEF Next, Step, Call, Refuse, ReturnCached, Escalate, Proceed, AuditRefused,
                            Crash, vars
<1> QED BY <1>1, SoloInvariance, PTL DEF Spec, CompletedForGood

------------------------------------------------------------------------------
(* Refinement: perform() and its ledger implement EffectContract. *)

\* perform() keeps the promise of its docstring, for any keys, kinds and faults.
THEOREM WrapperImplementsContract == ASSUME SoleWriter PROVE Spec => ImplementsContract
<1> DEFINE bar == [k \in Keys |-> IF Completed(k) THEN ledger[k].digest ELSE 0]
<1>1. Init => C!Init
  BY DEF Init, C!Init, Completed, NoRecord
<1>2. SoloInv /\ [Next]_vars => [C!Next]_(C!vars)
  <2> SUFFICES ASSUME SoloInv, [Next]_vars PROVE [C!Next]_(C!vars)
    OBVIOUS
  <2>1. ASSUME UNCHANGED <<ledger, fired>> PROVE UNCHANGED C!vars
    BY <2>1 DEF C!vars, Completed
  <2>2. ASSUME NEW p \in Procs, PutInFlight(p) \/ MarkFailed(p) PROVE UNCHANGED C!vars
    <3>1. ~Completed(cur[p]) /\ cur[p] \in Keys
      BY <2>2, WorkingRow DEF PutInFlight, MarkFailed, At
    <3>2. /\ fired' = fired
          /\ ledger'[cur[p]].status \in {"in_flight", "failed"}
          /\ \A k \in Keys : k # cur[p] => ledger'[k] = ledger[k]
      BY <2>2, <3>1 DEF PutInFlight, MarkFailed, FailedStatus, SoloInv, TypeOK
    <3>3. bar' = bar
      BY <3>1, <3>2 DEF Completed
    <3> QED BY <3>2, <3>3 DEF C!vars
  <2>3. ASSUME NEW p \in Procs, ExecuteReturns(p) \/ ExecuteRaises(p) PROVE [C!Next]_(C!vars)
    <3>1. ~Completed(cur[p]) /\ cur[p] \in Keys
      BY <2>3, WorkingRow DEF ExecuteReturns, ExecuteRaises, At
    <3>2. ledger' = ledger /\ (fired' = fired \/ fired' = [fired EXCEPT ![cur[p]] = @ + 1])
      BY <2>3 DEF ExecuteReturns, ExecuteRaises
    <3>3. cur[p] \in Irreversible => fired[cur[p]] = 0
      BY <2>3 DEF ExecuteReturns, ExecuteRaises, At, SoloInv, SoloRest, BeforeFiring
    <3>4. bar' = bar /\ bar[cur[p]] = 0
      BY <3>1, <3>2 DEF Completed
    <3>5. CASE fired' = fired
      BY <3>4, <3>5 DEF C!vars
    <3>6. CASE fired' = [fired EXCEPT ![cur[p]] = @ + 1]
      BY <3>1, <3>3, <3>4, <3>6 DEF C!Next, C!Fire
    <3> QED BY <3>2, <3>5, <3>6
  <2>4. ASSUME NEW p \in Procs, MarkCompleted(p) PROVE C!Next
    <3> DEFINE k == cur[p]
    <3>1. ~Completed(k) /\ k \in Keys
      BY <2>4, WorkingRow DEF MarkCompleted, At
    <3>2. result[p] = fired[k] /\ result[p] > 0
      BY <2>4 DEF MarkCompleted, At, SoloInv, SoloRest, ResultIsLast
    <3>3. /\ fired' = fired
          /\ ledger' = [ledger EXCEPT ![k] = [@ EXCEPT !.status = "completed", !.digest = result[p]]]
      BY <2>4 DEF MarkCompleted
    <3>4. /\ ledger'[k].status = "completed" /\ ledger'[k].digest = fired[k]
          /\ \A j \in Keys : j # k => ledger'[j] = ledger[j]
      BY <3>1, <3>2, <3>3 DEF SoloInv, TypeOK
    <3>5. bar[k] = 0 /\ bar' = [bar EXCEPT ![k] = fired[k]]
      BY <3>1, <3>4 DEF Completed
    <3>6. C!Settle(k)
      BY <3>1, <3>2, <3>3, <3>5 DEF C!Settle
    <3>7. \E j \in Keys : C!Settle(j)
      BY <3>1, <3>6 DEF C!Settle
    <3> QED BY <3>7 DEF C!Next
  <2>5. ASSUME NEW p \in Procs,
               \/ ReturnCached(p) \/ Escalate(p) \/ Proceed(p) \/ AppendAudit(p)
               \/ AuditRefused(p) \/ Crash(p)
        PROVE  UNCHANGED <<ledger, fired>>
    BY <2>5 DEF ReturnCached, Escalate, Proceed, AppendAudit, AuditRefused, Crash, durable
  <2>6. ASSUME NEW p \in Procs, NEW k \in Keys, Call(p, k) \/ Refuse(p, k)
        PROVE  UNCHANGED <<ledger, fired>>
    BY <2>6 DEF Call, Refuse, durable, vars
  <2>7. UNCHANGED vars => UNCHANGED <<ledger, fired>>
    BY DEF vars, durable
  <2> QED BY <2>1, <2>2, <2>3, <2>4, <2>5, <2>6, <2>7 DEF Next, Step
<1> QED BY <1>1, <1>2, SoloInvariance, PTL DEF Spec, ImplementsContract, C!Spec
==============================================================================
