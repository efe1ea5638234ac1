------------------------------ MODULE FleetProofs ------------------------------
(***************************************************************************)
(* What the fleet's breaker and the routing guarantee for any versions,    *)
(* flows, costs and policy, and any number of calls, passes, deaths and    *)
(* reinstatements.                                                         *)
(***************************************************************************)
EXTENDS Fleet, PlaceTheorems, TLAPS

------------------------------------------------------------------------------
(* The inductive invariants. *)

Passing == {"suspend", "set", "log", "critical", "sla"}
Pass ==
  [step : {"off", "rated", "sweep", "miss"} \cup Passing, began : Nat, now : Hours, version : Versions,
   recent : Nat, due : SUBSET Versions, dangerous : SUBSET Versions, victims : SUBSET Versions,
   excess : SUBSET Versions, unregistered : SUBSET Versions]

TypeInv == TypeOK /\ pass \in Pass

\* Whoever the pass has in its sights is dangerous.
DangerInv ==
  /\ \A v \in pass.dangerous : Dangerous(v)
  /\ pass.victims \subseteq pass.dangerous
  /\ pass.step \in {"set", "log", "critical", "sla"} => pass.version \in pass.victims
  /\ DangerOnly

\* A version about to be suspended has its record, or gets it first.
Stuck ==
  \A n \in Noted("status"), v \in Versions :
    book[n].version = v /\ book[n].status = "suspended" => StatusAt(n, v) = "suspended"

RegisteredInv ==
  /\ pass.step \in Passing => pass.victims \ pass.unregistered \subseteq Registered(Len(book))
  /\ pass.step = "set" => pass.version \in Registered(Len(book))
  /\ Stuck

\* What the pass has still to suspend fits into the window with the suspensions on record in it.
Pending == IF pass.step \in {"critical", "sla"} THEN pass.victims \ {pass.version} ELSE pass.victims

RecordsLimited == \A hour \in Hours : Cardinality(Within(Noted("suspend"), hour)) <= MaxPer

RateInv ==
  /\ pass.now <= clock
  /\ \A n \in Noted("suspend") : book[n].ts <= clock
  /\ \A now \in Hours : now = pass.now =>
       /\ pass.step \in {"sweep", "miss"} => RecentSuspensions(now) = pass.recent
       /\ pass.step \in Passing /\ Pending # {} =>
            RecentSuspensions(now) + Cardinality(Pending) <= MaxPer
  /\ RecordsLimited

\* A pass suspends a version once, records it with the hour of the suspension, and leaves at most
\* one suspension without a record.
Same(n, m) == book[n].version = book[m].version /\ book[n].began = book[m].began

Ledger ==
  /\ \A n \in Suspensions \cup Noted("suspend") : book[n].began < n
  /\ \A n \in Suspensions : \A m \in Suspensions : Same(n, m) => n = m
  /\ \A n \in Suspensions : \A m \in Noted("suspend") : Same(n, m) => book[n].ts = book[m].ts
  /\ \A n \in Suspensions : \A m \in Suspensions :
       ~Recorded(n) /\ ~Recorded(m) /\ book[n].began = book[m].began => n = m

\* The suspensions and records of the pass under way are of its hour; a suspension has its record
\* or gets it next, and is of no version that is still to be suspended.
PassLedger ==
  /\ pass.began <= Len(book)
  /\ \A n \in Suspensions \cup Noted("suspend") : book[n].began = pass.began =>
       /\ pass.step \notin {"sweep", "miss"}
       /\ pass.step \notin {"off", "rated"} => book[n].ts = pass.now
  /\ \A n \in Suspensions : book[n].began = pass.began /\ pass.step \in Passing =>
       /\ Recorded(n) \/ AboutToRecord(n)
       /\ book[n].version \in pass.victims =>
            book[n].version = pass.version /\ pass.step \in {"log", "critical", "sla"}

LedgerInv == Ledger /\ PassLedger

\* At place `began` of the book, v's SLA is open and its deadline is before `now`.
OverdueAt(v, began, now) ==
  \E m \in SlaEvents(v, began) :
    /\ book[m].stage = "sla_open" /\ book[m].deadline < now
    /\ \A k \in SlaEvents(v, began) : k <= m

SuspendedIn(v, from, to) == \E m \in from .. to : StatusAt(m, v) = "suspended"

SlaInv ==
  /\ pass.began <= Len(book)
  /\ \A v \in Versions, b \in Nat, now \in Hours : b = pass.began /\ now = pass.now =>
       /\ v \in pass.due => OverdueAt(v, b, now)
       /\ pass.step = "miss" /\ v = pass.version =>
            OverdueAt(v, b, now) /\ \E to \in 0 .. Len(book) : SuspendedIn(v, b, to)
  /\ \A n \in Noted("sla_missed"), v \in Versions, b \in Nat :
       book[n].version = v /\ book[n].began = b =>
         /\ b < n
         /\ OverdueAt(v, b, book[n].ts)
         /\ SuspendedIn(v, b, n)

\* Since place b, v was suspended or escalated.  A pass that has chosen has answered, or has
\* still to answer, each danger it found.
Answered(v, b) ==
  \/ SuspendedIn(v, b, Len(book))
  \/ \E n \in Noted("escalate_unsuspended") : n > b /\ book[n].version = v

AnswerInv ==
  \A v \in Versions, b \in Nat : b = pass.began =>
    /\ pass.step \in Passing /\ v \in pass.dangerous =>
         v \in pass.victims \cup pass.excess \/ Answered(v, b)
    /\ pass.step \in {"log", "critical", "sla"} /\ v = pass.version => Answered(v, b)

\* Every choice on record is capable, and so is the version at work; that one was active, too.
RouteInv ==
  /\ \A f \in Flows : \A n \in At(f, "route") : Capable(f, trail[f][n].chosen)
  /\ \A f \in Routed, v \in Versions : pc[f] # "idle" /\ using[f].version = v =>
       /\ Capable(f, v)
       /\ \E m \in using[f].since .. Len(book) : StatusAt(m, v) = "active"


------------------------------------------------------------------------------
(* Types. *)

\* The bounds and the policy are numbers.
LEMMA Numbers ==
  /\ MaxClock \in Nat /\ MaxPer \in Nat /\ Window \in Nat /\ SlaHours \in Nat
  /\ FloorTier \in [Flows -> Nat]
  /\ Tier \in [Versions -> Nat] /\ Nominal \in [Versions -> Nat] /\ Cost \in [Versions -> Nat]
  /\ Implementers \in Seq(Versions) /\ Len(Implementers) \in Nat
  /\ Routed \subseteq Flows /\ Default \in Versions /\ Injector \in Versions
  /\ IsFiniteSet(Versions) /\ Hours \subseteq Nat
<1>1. MaxClock \in Nat /\ IsFiniteSet(Versions)
  BY ClockAssumption, VersionsAssumption
<1>2. MaxPer \in Nat /\ Window \in Nat /\ SlaHours \in Nat
  BY PolicyAssumption
<1>3. /\ FloorTier \in [Flows -> Nat]
      /\ Tier \in [Versions -> Nat] /\ Nominal \in [Versions -> Nat] /\ Cost \in [Versions -> Nat]
  BY CostsAssumption, Zenon
<1>4. /\ Implementers \in Seq(Versions) /\ Len(Implementers) \in Nat
      /\ Routed \subseteq Flows /\ Default \in Versions /\ Injector \in Versions
  BY ImplementersAssumption
<1>5. Hours \subseteq Nat
  BY <1>1 DEF Hours
<1> QED
  BY <1>1, <1>2, <1>3, <1>4, <1>5

\* What assembling a cell writes.
LEMMA AssembledShape ==
  /\ Len(Wired) \in Nat /\ Len(Wired) >= 1
  /\ \A n \in 1 .. Len(Wired) : [stage |-> "register", version |-> Wired[n]] \in Entry
  /\ Assembled \in Seq(Entry)
  /\ Len(Assembled) \in Nat
  /\ \A n \in 1 .. Len(Assembled) : Assembled[n].stage = "register"
<1>1. /\ Wired \in Seq(Versions) /\ Len(Wired) = 1 + Len(Implementers) /\ Len(Implementers) \in Nat
      /\ DOMAIN Wired = 1 .. Len(Wired)
  BY Numbers DEF Wired
<1>2. \A n \in 1 .. Len(Wired) : [stage |-> "register", version |-> Wired[n]] \in Entry
  BY <1>1 DEF Entry
<1>3. /\ Assembled \in [1 .. Len(Wired) -> Entry]
      /\ \A n \in 1 .. Len(Wired) : Assembled[n].stage = "register"
  BY <1>1, <1>2 DEF Assembled
<1>4. Assembled \in Seq(Entry) /\ Len(Assembled) = Len(Wired)
  BY <1>1, <1>3
<1> QED
  BY <1>1, <1>2, <1>3, <1>4

\* No pass and no call are what they should be.
LEMMA NoneTypes ==
  /\ NoPass \in Pass /\ NoPass.step = "off"
  /\ NoCall \in [version : Versions, since : Nat]
BY Numbers DEF NoPass, NoCall, Pass, Passing, Hours

\* Some implementer that may be routed to is the cheapest.
LEMMA CheapestEligible ==
  ASSUME NEW f \in Flows, Eligible(f) # {}
  PROVE  Cheapest(Eligible(f)) \in Eligible(f) /\ Eligible(f) \subseteq Versions
<1> DEFINE costs == {CostOf(w) : w \in Eligible(f)}
           candidates == {n \in DOMAIN Implementers :
                            /\ Implementers[n] \in Eligible(f)
                            /\ \A w \in Eligible(f) : CostOf(Implementers[n]) <= CostOf(w)}
<1>1. \A w \in Versions : CostOf(w) \in Nat
  BY Numbers DEF CostOf
<1>2. \A w \in Eligible(f) : \E n \in DOMAIN Implementers : w = Implementers[n]
  BY DEF Eligible, Range
<1>3. DOMAIN Implementers = 1 .. Len(Implementers)
      /\ \A n \in DOMAIN Implementers : Implementers[n] \in Versions
  BY Numbers
<1>4. Eligible(f) \subseteq Versions
  BY <1>2, <1>3
<1>5. Min(costs) \in costs /\ \A c \in costs : Min(costs) <= c
  <2>1. costs \in SUBSET Nat /\ costs # {}
    BY <1>1, <1>4
  <2> HIDE DEF costs
  <2> QED
    BY <2>1, LeastNumber
<1>6. PICK w \in Eligible(f) : CostOf(w) = Min(costs)
  BY <1>5
<1>7. \A u \in Eligible(f) : CostOf(w) <= CostOf(u)
  BY <1>5, <1>6
<1>8. candidates # {}
  BY <1>2, <1>6, <1>7
<1>9. Min(candidates) \in candidates
  <2>1. candidates \in SUBSET (1 .. Len(Implementers)) /\ Len(Implementers) \in Nat
    BY <1>3, Numbers
  <2> HIDE DEF candidates
  <2> QED
    BY <1>8, <2>1, Least
<1>10. Cheapest(Eligible(f)) = Implementers[Min(candidates)]
  BY DEF Cheapest
<1> QED
  BY <1>4, <1>9, <1>10

\* An entry appended is the last one; the others stay.
LEMMA NoteShape ==
  ASSUME book \in Seq(Entry), NEW e \in Entry, Note(e)
  PROVE  /\ book' \in Seq(Entry)
         /\ Len(book) \in Nat /\ Len(book') = Len(book) + 1
         /\ DOMAIN book = 1 .. Len(book) /\ DOMAIN book' = 1 .. Len(book) + 1
         /\ \A n \in 1 .. Len(book) : book'[n] = book[n]
         /\ book'[Len(book) + 1] = e
BY DEF Note

\* So is an event of a flow.
LEMMA EmitShape ==
  ASSUME trail \in [Flows -> Seq(FlowEvent)], NEW f \in Flows, NEW e \in FlowEvent, Emit(f, e)
  PROVE  /\ trail' \in [Flows -> Seq(FlowEvent)]
         /\ Len(trail[f]) \in Nat /\ Len(trail'[f]) = Len(trail[f]) + 1
         /\ \A n \in 1 .. Len(trail[f]) : trail'[f][n] = trail[f][n]
         /\ trail'[f][Len(trail[f]) + 1] = e
         /\ \A g \in Flows \ {f} : trail'[g] = trail[g]
<1>1. trail[f] \in Seq(FlowEvent) /\ Append(trail[f], e) \in Seq(FlowEvent)
  OBVIOUS
<1>2. trail' = [trail EXCEPT ![f] = Append(trail[f], e)]
  BY DEF Emit
<1>3. trail'[f] = Append(trail[f], e) /\ \A g \in Flows \ {f} : trail'[g] = trail[g]
  BY <1>2
<1>4. trail' \in [Flows -> Seq(FlowEvent)]
  BY <1>1, <1>2
<1> QED
  BY <1>1, <1>3, <1>4

\* A call's first events are one or two.
LEMMA CallShape ==
  ASSUME trail \in [Flows -> Seq(FlowEvent)], NEW f \in Flows, NEW events \in Seq(FlowEvent),
         NEW v, CallOn(f, events, v)
  PROVE  /\ trail' \in [Flows -> Seq(FlowEvent)]
         /\ Len(trail[f]) \in Nat /\ Len(trail'[f]) = Len(trail[f]) + Len(events)
         /\ \A n \in 1 .. Len(trail[f]) : trail'[f][n] = trail[f][n]
         /\ \A n \in 1 .. Len(events) : trail'[f][Len(trail[f]) + n] = events[n]
         /\ \A g \in Flows \ {f} : trail'[g] = trail[g]
<1>1. trail[f] \in Seq(FlowEvent) /\ trail[f] \o events \in Seq(FlowEvent) /\ Len(events) \in Nat
  OBVIOUS
<1>2. trail' = [trail EXCEPT ![f] = trail[f] \o events]
  BY DEF CallOn
<1>3. trail'[f] = trail[f] \o events /\ \A g \in Flows \ {f} : trail'[g] = trail[g]
  BY <1>2
<1>4. trail' \in [Flows -> Seq(FlowEvent)]
  BY <1>1, <1>2
<1> QED
  BY <1>1, <1>3, <1>4

\* A flow's recorded route is the first of its kind.
LEMMA FirstRoute ==
  ASSUME trail \in [Flows -> Seq(FlowEvent)], NEW f \in Flows, At(f, "route") # {}
  PROVE  /\ Min(At(f, "route")) \in At(f, "route")
         /\ trail[f][Min(At(f, "route"))].chosen \in Versions
<1>1. trail[f] \in Seq(FlowEvent) /\ Len(trail[f]) \in Nat /\ DOMAIN trail[f] = 1 .. Len(trail[f])
  OBVIOUS
<1>2. At(f, "route") \in SUBSET (1 .. Len(trail[f]))
  BY <1>1 DEF At
<1>3. Min(At(f, "route")) \in At(f, "route")
  BY <1>1, <1>2, Least
<1>4. /\ trail[f][Min(At(f, "route"))] \in FlowEvent
      /\ trail[f][Min(At(f, "route"))].stage = "route"
  BY <1>1, <1>3 DEF At
<1> QED
  BY <1>3, <1>4 DEF FlowEvent

\* The fleet starts well-typed.
LEMMA TypeInit == Init => TypeInv
<1> SUFFICES ASSUME Init PROVE TypeInv
  OBVIOUS
<1>1. book \in Seq(Entry) /\ clock \in Hours /\ trail \in [Flows -> Seq(FlowEvent)]
  BY AssembledShape, Numbers DEF Init, Hours
<1>2. pc \in [Flows -> Places] /\ using \in [Flows -> [version : Versions, since : Nat]]
  BY NoneTypes DEF Init, Places
<1>3. pass \in Pass
  BY NoneTypes DEF Init
<1>4. assembly \in [begun : Nat, done : 1 .. Len(Wired)]
  BY AssembledShape DEF Init
<1> QED
  BY <1>1, <1>2, <1>3, <1>4 DEF TypeInv, TypeOK, Pass, Passing

\* Calls and their Steward keep the types.
LEMMA TypeCalls ==
  ASSUME TypeInv, NEW f \in Flows, CallStep(f) \/ Assess(f) \/ InjectRefused(f) \/ Rollback(f),
         UNCHANGED <<pass, assembly>>
  PROVE  TypeInv'
<1> USE DEF TypeInv, TypeOK, Places
<1>1. /\ trail \in [Flows -> Seq(FlowEvent)] /\ Len(book) \in Nat
      /\ NoCall \in [version : Versions, since : Nat]
  BY NoneTypes
<1>2. ASSUME NEW place \in Places, Goto(f, place)
      PROVE  /\ pc' \in [Flows -> Places]
             /\ using' \in [Flows -> [version : Versions, since : Nat]]
  BY <1>1, <1>2 DEF Goto
<1>3. ASSUME NEW events \in Seq(FlowEvent), NEW v \in Versions, CallOn(f, events, v)
      PROVE  TypeInv'
  <2>1. trail' \in [Flows -> Seq(FlowEvent)]
    BY <1>1, <1>3, CallShape
  <2>2. [version |-> v, since |-> Len(book)] \in [version : Versions, since : Nat]
    BY <1>1
  <2>3. /\ pc' \in [Flows -> Places]
        /\ using' \in [Flows -> [version : Versions, since : Nat]]
        /\ book' = book /\ clock' = clock
    BY <1>3, <2>2 DEF CallOn
  <2> QED
    BY <2>1, <2>3
<1>4. ASSUME NEW e \in FlowEvent, Emit(f, e) PROVE trail' \in [Flows -> Seq(FlowEvent)]
  BY <1>1, <1>4, EmitShape
<1>5. Opening \in FlowEvent /\ <<Opening>> \in Seq(FlowEvent)
  BY DEF Opening, FlowEvent
<1>6. CASE StartUnrouted(f)
  BY <1>3, <1>5, <1>6, Numbers DEF StartUnrouted
<1>7. CASE StartReusing(f)
  BY <1>1, <1>3, <1>5, <1>7, FirstRoute DEF StartReusing, Reusable
<1>8. CASE StartRouting(f)
  <2>1. Cheapest(Eligible(f)) \in Versions
    BY <1>8, CheapestEligible DEF StartRouting
  <2>2. [stage |-> "route", chosen |-> Cheapest(Eligible(f))] \in FlowEvent
    BY <2>1 DEF FlowEvent
  <2>3. <<Opening, [stage |-> "route", chosen |-> Cheapest(Eligible(f))]>> \in Seq(FlowEvent)
    BY <1>5, <2>2
  <2> QED
    BY <1>3, <1>8, <2>1, <2>3 DEF StartRouting
<1>9. CASE StartRefused(f)
  BY <1>4, <1>5, <1>9 DEF StartRefused
<1>10. ASSUME NEW allow \in BOOLEAN, Govern(f, allow) PROVE TypeInv'
  <2>1. [stage |-> "gate", allow |-> allow] \in FlowEvent
    BY DEF FlowEvent
  <2>2. \E place \in Places : Goto(f, place)
    BY <1>10 DEF Govern
  <2> QED
    BY <1>2, <1>4, <1>10, <2>1, <2>2 DEF Govern
<1>11. ASSUME NEW v \in Versions, Execute(f, v) PROVE TypeInv'
  <2>1. [stage |-> "execute", version |-> v] \in FlowEvent
    BY DEF FlowEvent
  <2> QED
    BY <1>2, <1>4, <1>11, <2>1 DEF Execute
<1>12. ASSUME NEW decision \in Decisions, Verify(f, decision) PROVE TypeInv'
  <2>1. [stage |-> "verify", decision |-> decision] \in FlowEvent
    BY DEF FlowEvent
  <2>2. \E place \in Places : Goto(f, place)
    BY <1>12 DEF Verify
  <2> QED
    BY <1>2, <1>4, <1>12, <2>1, <2>2 DEF Verify
<1>13. CASE Cut(f)
  BY <1>2, <1>13 DEF Cut
<1>14. CASE Assess(f)
  <2>1. PICK rule \in Breach(f) : Emit(f, [stage |-> "quarantine", rule |-> rule])
    BY <1>14 DEF Assess
  <2>2. [stage |-> "quarantine", rule |-> rule] \in FlowEvent
    BY DEF Breach, FlowEvent
  <2> QED
    BY <1>4, <1>14, <2>1, <2>2 DEF Assess
<1>15. CASE Rollback(f)
  <2>1. [stage |-> "rollback"] \in FlowEvent
    BY DEF FlowEvent
  <2> QED
    BY <1>4, <1>15, <2>1 DEF Rollback
<1>16. CASE InjectRefused(f)
  <2>1. [stage |-> "refused"] \in FlowEvent
    BY DEF FlowEvent
  <2> QED
    BY <1>4, <1>16, <2>1 DEF InjectRefused
<1> QED
  BY <1>6, <1>7, <1>8, <1>9, <1>10, <1>11, <1>12, <1>13, <1>14, <1>15, <1>16 DEF CallStep

\* The versions that have a record are those registered; a set of places is finite.
LEMMA PlacesFinite ==
  ASSUME book \in Seq(Entry), NEW S \in SUBSET DOMAIN book
  PROVE  /\ DOMAIN book = 1 .. Len(book) /\ Len(book) \in Nat
         /\ IsFiniteSet(S) /\ Cardinality(S) \in Nat
<1>1. DOMAIN book = 1 .. Len(book) /\ Len(book) \in Nat
  OBVIOUS
<1>2. IsFiniteSet(1 .. Len(book))
  BY <1>1, FS_Interval
<1> QED
  BY <1>1, <1>2, FS_Subset, FS_CardinalityType

\* The Auditor keeps the types.
LEMMA TypeAuditor ==
  ASSUME TypeInv, AuditorStep, UNCHANGED assembly PROVE TypeInv'
<1> USE DEF TypeInv, TypeOK, Passing
<1>1. /\ Len(book) \in Nat /\ clock \in Nat /\ NoPass \in Pass
      /\ pass.now \in Hours /\ pass.began \in Nat /\ pass.version \in Versions
      /\ pass.now + SlaHours \in Nat
  <2>1. Hours \subseteq Nat /\ SlaHours \in Nat
    BY Numbers
  <2>2. pass.now \in Nat
    BY <2>1
  <2> QED
    BY <2>1, <2>2, NoneTypes DEF Pass
<1>2. Elsewhere
  BY DEF AuditorStep, BeginEnforce, ReadTrails, LogMissed, Choose, LogSuspend, AskCritical, OpenSla, EndEnforce,
         AuditorDies, CheckSla, RegisterSeen, SetSuspended, LogExcess
<1>3. ASSUME pass' \in Pass, book' \in Seq(Entry) PROVE TypeInv'
  BY <1>3, <1>2 DEF Elsewhere, Pass
<1>4. ASSUME NEW e \in Entry, Note(e) PROVE book' \in Seq(Entry)
  BY <1>4, NoteShape
<1>5. ASSUME NEW stage \in {"suspend", "sla_missed", "escalate_unsuspended"}, NEW v \in Versions,
             Log(stage, v)
      PROVE  book' \in Seq(Entry)
  <2>1. [stage |-> stage, version |-> v, ts |-> pass.now, began |-> pass.began] \in Entry
    BY <1>1 DEF Entry
  <2> QED
    BY <1>4, <1>5, <2>1 DEF Log
<1>6. CASE BeginEnforce
  <2>1. pass' \in Pass
    BY <1>1, <1>6 DEF BeginEnforce, Pass
  <2> QED
    BY <1>3, <1>6, <2>1 DEF BeginEnforce
<1>7. ASSUME NEW v \in Versions, CheckSla(v) PROVE TypeInv'
  <2>1. pass' \in Pass
    BY <1>7 DEF CheckSla, Pass
  <2> QED
    BY <1>3, <1>7, <2>1 DEF CheckSla
<1>8. CASE LogMissed
  <2>1. pass' \in Pass
    BY <1>8 DEF LogMissed, Step, Pass
  <2> QED
    BY <1>1, <1>3, <1>5, <1>8, <2>1 DEF LogMissed
<1>9. CASE Choose
  <2>1. pass' \in Pass
    <3> DEFINE active == {v \in pass.dangerous : status_of(v) = "active"}
    <3>1. PICK victims \in SUBSET active :
            pass' = [pass EXCEPT !.step = "suspend", !.victims = victims,
                                 !.excess = Excess(active, victims),
                                 !.unregistered = Versions \ Registered(Len(book))]
      BY <1>9 DEF Choose
    <3>2. active \subseteq Versions
      BY DEF Pass
    <3>3. /\ victims \subseteq Versions /\ Excess(active, victims) \subseteq Versions
          /\ Versions \ Registered(Len(book)) \subseteq Versions
      BY <3>2 DEF Excess
    <3> HIDE DEF active
    <3> QED
      BY <3>1, <3>3 DEF Pass
  <2> QED
    BY <1>3, <1>9, <2>1 DEF Choose
<1>10. ASSUME NEW v \in Versions, RegisterSeen(v) PROVE TypeInv'
  <2>1. pass' \in Pass
    BY <1>10 DEF RegisterSeen, Pass
  <2>2. [stage |-> "register", version |-> v] \in Entry
    BY DEF Entry
  <2> QED
    BY <1>3, <1>4, <1>10, <2>1, <2>2 DEF RegisterSeen, register
<1>11. ASSUME NEW v \in Versions, SetSuspended(v) PROVE TypeInv'
  <2>1. pass' \in Pass
    BY <1>11 DEF SetSuspended, Pass
  <2>2. [stage |-> "status", version |-> v, status |-> "suspended", ts |-> pass.now,
         began |-> pass.began] \in Entry
    BY <1>1 DEF Entry, Statuses
  <2> QED
    BY <1>3, <1>4, <1>11, <2>1, <2>2 DEF SetSuspended, set_status
<1>12. CASE LogSuspend
  <2>1. pass' \in Pass
    BY <1>12 DEF LogSuspend, Step, Pass
  <2> QED
    BY <1>1, <1>3, <1>5, <1>12, <2>1 DEF LogSuspend
<1>13. CASE OpenSla
  <2>1. pass' \in Pass
    BY <1>13 DEF OpenSla, NextVictim, Pass
  <2>2. [stage |-> "sla_open", version |-> pass.version, deadline |-> pass.now + SlaHours] \in Entry
    BY <1>1 DEF Entry
  <2>3. book' \in Seq(Entry)
    BY <1>4, <1>13, <2>2 DEF OpenSla
  <2> QED
    BY <1>3, <2>1, <2>3
<1>14. ASSUME NEW v \in Versions, LogExcess(v) PROVE TypeInv'
  <2>1. pass' \in Pass
    BY <1>14 DEF LogExcess, Pass
  <2> QED
    BY <1>3, <1>5, <1>14, <2>1 DEF LogExcess
<1>15. CASE EndEnforce \/ AuditorDies
  BY <1>1, <1>3, <1>15 DEF EndEnforce, AuditorDies
<1>16. CASE ReadTrails
  <2>1. RecentSuspensions(pass.now) \in Nat
    BY PlacesFinite DEF RecentSuspensions
  <2>2. Overdue(pass.now) \subseteq Versions
    BY DEF Overdue
  <2>3. pass' \in Pass
    BY <1>1, <1>16, <2>1, <2>2 DEF ReadTrails, Pass
  <2> QED
    BY <1>3, <1>16, <2>3 DEF ReadTrails
<1>17. CASE AskCritical
  <2>1. pass' \in Pass
    <3>1. CASE pass' = [pass EXCEPT !.step = "sla"]
      BY <3>1 DEF Pass
    <3>2. CASE pass' = [pass EXCEPT !.step = "suspend", !.victims = @ \ {pass.version}]
      BY <3>2 DEF Pass
    <3> QED
      BY <1>17, <3>1, <3>2 DEF AskCritical, NextVictim, Step
  <2> QED
    BY <1>3, <1>17, <2>1 DEF AskCritical
<1> QED
  BY <1>6, <1>7, <1>8, <1>9, <1>10, <1>11, <1>12, <1>13, <1>14, <1>15, <1>16, <1>17 DEF AuditorStep

\* Every step keeps the types.
LEMMA TypeNext == ASSUME TypeInv, [Next]_vars PROVE TypeInv'
<1> USE DEF TypeInv, TypeOK
<1>1. ASSUME NEW f \in Flows, CallStep(f) \/ Assess(f) \/ InjectRefused(f) \/ Rollback(f),
             UNCHANGED <<pass, assembly>>
      PROVE  TypeInv'
  BY <1>1, TypeCalls
<1>2. CASE AuditorStep /\ UNCHANGED assembly
  BY <1>2, TypeAuditor
<1>3. CASE AssembleNext \/ AssembleAnew
  <2>1. PICK n \in 1 .. Len(Wired) : register(Wired[n]) /\ assembly'.done = n
    BY <1>3, AssembledShape DEF AssembleNext, AssembleAnew, Assembling
  <2>2. book' \in Seq(Entry)
    BY <2>1, AssembledShape, NoteShape DEF register
  <2>3. assembly' \in [begun : Nat, done : 1 .. Len(Wired)]
    BY <1>3, <2>1 DEF AssembleNext, AssembleAnew
  <2> QED
    BY <1>3, <2>1, <2>2, <2>3 DEF AssembleNext, AssembleAnew
<1>4. ASSUME NEW v \in Versions, Reinstate(v) PROVE TypeInv'
  <2>1. [stage |-> "status", version |-> v, status |-> "active", ts |-> clock,
         began |-> Len(book)] \in Entry
    BY DEF Entry, Statuses
  <2>2. book' \in Seq(Entry)
    BY <1>4, <2>1, NoteShape DEF Reinstate, set_status
  <2> QED
    BY <1>4, <2>2 DEF Reinstate
<1>5. CASE Tick /\ UNCHANGED <<trail, pc, using, pass, assembly>>
  <2>1. clock' \in Hours
    BY <1>5, ClockAssumption DEF Tick, Hours
  <2> QED
    BY <1>5, <2>1 DEF Tick
<1>6. CASE UNCHANGED vars
  BY <1>6 DEF vars
<1> QED
  BY <1>1, <1>2, <1>3, <1>4, <1>5, <1>6 DEF Next

\* The types hold throughout.
LEMMA TypeInvariance == Spec => []TypeInv
<1>1. Init => TypeInv
  BY TypeInit
<1>2. TypeInv /\ [Next]_vars => TypeInv'
  BY TypeNext
<1> QED
  BY <1>1, <1>2, PTL DEF Spec

\* The book and the trails hold what the registry, the Auditor, the Steward and the handbrake
\* write, and a pass and a call keep what they read in the shape they read it.
THEOREM TypeCorrect == Spec => []TypeOK
<1>1. TypeInv => TypeOK
  BY DEF TypeInv
<1> QED
  BY <1>1, TypeInvariance, PTL

------------------------------------------------------------------------------
(* What is written stays. *)

BookGrows ==
  /\ Len(book) <= Len(book')
  /\ \A n \in 1 .. Len(book) : book'[n] = book[n]

TrailGrows ==
  \A f \in Flows :
    /\ Len(trail[f]) <= Len(trail'[f])
    /\ \A n \in 1 .. Len(trail[f]) : trail'[f][n] = trail[f][n]

\* A step writes nothing into the book, or one entry.
LEMMA BookStep ==
  ASSUME TypeInv, [Next]_vars
  PROVE  book' = book \/ \E e \in Entry : Note(e)
<1>1. book \in Seq(Entry) /\ book' \in Seq(Entry)
  BY TypeNext DEF TypeInv, TypeOK
<1>2. ASSUME NEW e, Note(e) PROVE \E d \in Entry : Note(d)
  <2>1. Len(book) + 1 \in DOMAIN book' /\ book'[Len(book) + 1] = e
    BY <1>1, <1>2 DEF Note
  <2> QED
    BY <1>1, <1>2, <2>1
<1>3. book' = book \/ \E e : Note(e)
  <2>1. ASSUME NEW f \in Flows, CallStep(f) \/ Assess(f) \/ InjectRefused(f) \/ Rollback(f)
        PROVE  book' = book
    BY <2>1 DEF CallStep, StartUnrouted, StartReusing, StartRouting, StartRefused, CallOn, Govern,
                Execute, Verify, Cut, Assess, InjectRefused, Rollback
  <2>2. CASE AuditorStep
    BY <2>2 DEF AuditorStep, BeginEnforce, ReadTrails, LogMissed, Choose, LogSuspend, AskCritical, OpenSla, EndEnforce,
                AuditorDies, CheckSla, RegisterSeen, SetSuspended, LogExcess, Log, register,
                set_status
  <2>3. CASE AssembleNext \/ AssembleAnew
    BY <2>3 DEF AssembleNext, AssembleAnew, register
  <2>4. ASSUME NEW v \in Versions, Reinstate(v) PROVE \E e : Note(e)
    BY <2>4 DEF Reinstate, set_status
  <2>5. CASE Tick \/ UNCHANGED vars
    BY <2>5 DEF Tick, vars
  <2> QED
    BY <2>1, <2>2, <2>3, <2>4, <2>5 DEF Next
<1> QED
  BY <1>2, <1>3

\* What is in the book stays at its place.
LEMMA BookKept == ASSUME TypeInv, [Next]_vars PROVE BookGrows
<1>1. book \in Seq(Entry) /\ Len(book) \in Nat
  BY DEF TypeInv, TypeOK
<1>2. CASE book' = book
  BY <1>1, <1>2 DEF BookGrows
<1>3. CASE \E e \in Entry : Note(e)
  BY <1>1, <1>3, NoteShape DEF BookGrows
<1> QED
  BY <1>2, <1>3, BookStep

\* What is on a flow's trail stays at its place; what comes new onto it, and what its call does
\* meanwhile, concerns this flow alone.
LEMMA TrailKept == ASSUME TypeInv, [Next]_vars PROVE TrailGrows
<1>1. /\ trail \in [Flows -> Seq(FlowEvent)]
      /\ \A f \in Flows : trail[f] \in Seq(FlowEvent) /\ Len(trail[f]) \in Nat
  BY DEF TypeInv, TypeOK
<1>2. CASE trail' = trail
  BY <1>1, <1>2 DEF TrailGrows
<1>3. ASSUME NEW f \in Flows, NEW events, trail' = [trail EXCEPT ![f] = @ \o events],
             events \in Seq(FlowEvent)
      PROVE  TrailGrows
  <2>1. /\ trail'[f] = trail[f] \o events /\ Len(trail[f] \o events) = Len(trail[f]) + Len(events)
        /\ \A g \in Flows \ {f} : trail'[g] = trail[g]
        /\ Len(events) \in Nat
    BY <1>1, <1>3
  <2>2. \A n \in 1 .. Len(trail[f]) : trail'[f][n] = trail[f][n]
    BY <1>1, <1>3, <2>1
  <2>3. Len(trail[f]) <= Len(trail'[f])
    BY <1>1, <2>1
  <2>4. \A g \in Flows \ {f} :
          /\ Len(trail[g]) <= Len(trail'[g])
          /\ \A n \in 1 .. Len(trail[g]) : trail'[g][n] = trail[g][n]
    BY <1>1, <2>1
  <2> QED
    BY <2>2, <2>3, <2>4 DEF TrailGrows
<1>4. ASSUME NEW f \in Flows, NEW e, Emit(f, e) PROVE TrailGrows
  <2>1. trail' = [trail EXCEPT ![f] = Append(trail[f], e)]
    BY <1>4 DEF Emit
  <2>2. /\ trail'[f] = Append(trail[f], e) /\ \A g \in Flows \ {f} : trail'[g] = trail[g]
    BY <1>1, <2>1
  <2>3. /\ Len(trail[f]) <= Len(trail'[f])
        /\ \A n \in 1 .. Len(trail[f]) : trail'[f][n] = trail[f][n]
    BY <1>1, <2>2
  <2>4. \A g \in Flows \ {f} :
          /\ Len(trail[g]) <= Len(trail'[g])
          /\ \A n \in 1 .. Len(trail[g]) : trail'[g][n] = trail[g][n]
    BY <1>1, <2>2
  <2> QED
    BY <2>3, <2>4 DEF TrailGrows
<1>5. ASSUME NEW f \in Flows, CallStep(f) PROVE TrailGrows
  <2>1. CASE \/ \E allow \in BOOLEAN : Govern(f, allow)
             \/ \E v \in Versions : Execute(f, v)
             \/ \E decision \in Decisions : Verify(f, decision)
             \/ StartRefused(f)
    BY <1>4, <2>1 DEF Govern, Execute, Verify, StartRefused
  <2>2. CASE Cut(f)
    BY <1>2, <2>2 DEF Cut
  <2>3. <<Opening>> \in Seq(FlowEvent) /\ Opening \in FlowEvent
    BY DEF Opening, FlowEvent
  <2>4. CASE StartUnrouted(f) \/ StartReusing(f)
    BY <1>3, <2>3, <2>4 DEF StartUnrouted, StartReusing, CallOn
  <2>5. CASE StartRouting(f)
    <3>1. Cheapest(Eligible(f)) \in Versions
      BY <2>5, CheapestEligible DEF StartRouting
    <3>2. [stage |-> "route", chosen |-> Cheapest(Eligible(f))] \in FlowEvent
      BY <3>1 DEF FlowEvent
    <3>3. <<Opening, [stage |-> "route", chosen |-> Cheapest(Eligible(f))]>> \in Seq(FlowEvent)
      BY <2>3, <3>2
    <3> QED
      BY <1>3, <2>5, <3>3 DEF StartRouting, CallOn
  <2> QED
    BY <1>5, <2>1, <2>2, <2>4, <2>5 DEF CallStep
<1>6. ASSUME NEW f \in Flows, Assess(f) \/ InjectRefused(f) \/ Rollback(f) PROVE TrailGrows
  BY <1>4, <1>6 DEF Assess, InjectRefused, Rollback
<1>7. CASE AuditorStep
  <2>1. trail' = trail
    BY <1>7 DEF AuditorStep, BeginEnforce, ReadTrails, LogMissed, Choose, LogSuspend, AskCritical, OpenSla, EndEnforce,
                AuditorDies, CheckSla, RegisterSeen, SetSuspended, LogExcess, Elsewhere
  <2> QED
    BY <1>2, <2>1
<1>8. CASE \/ AssembleNext \/ AssembleAnew \/ \E v \in Versions : Reinstate(v)
           \/ (Tick /\ UNCHANGED trail) \/ UNCHANGED vars
  BY <1>2, <1>8 DEF AssembleNext, AssembleAnew, Reinstate, vars
<1> QED
  BY <1>5, <1>6, <1>7, <1>8 DEF Next

\* What the registry and the SLAs were at a place of the book stays so.
LEMMA PlaceKept ==
  ASSUME book \in Seq(Entry), BookGrows, NEW p \in 0 .. Len(book), NEW v
  PROVE  /\ Registered(p)' = Registered(p)
         /\ StatusAt(p, v)' = StatusAt(p, v)
         /\ SlaEvents(v, p)' = SlaEvents(v, p)
<1>1. \A n \in 1 .. p : n \in 1 .. Len(book) /\ book'[n] = book[n]
  BY DEF BookGrows
<1>2. Registered(p)' = Registered(p)
  BY <1>1 DEF Registered
<1>3. SlaEvents(v, p)' = SlaEvents(v, p)
  BY <1>1 DEF SlaEvents
<1> DEFINE about == {n \in 1 .. p : book[n].stage \in {"register", "status"} /\ book[n].version = v}
<1>4. about' = about
  BY <1>1
<1>5. StatusAt(p, v)' = StatusAt(p, v)
  <2>1. CASE v \notin Registered(p)
    BY <1>2, <2>1 DEF StatusAt
  <2>2. CASE v \in Registered(p)
    <3>1. about # {}
      BY <2>2 DEF Registered
    <3>2. about \in SUBSET (1 .. p) /\ p \in Nat
      OBVIOUS
    <3>3. Max(about) \in about
      <4> HIDE DEF about
      <4> QED
        BY <3>1, <3>2, Greatest
    <3>4. book'[Max(about)] = book[Max(about)]
      BY <1>1, <3>3
    <3>5. /\ StatusAt(p, v) = IF v \notin Registered(p) \/ book[Max(about)].stage = "register"
                              THEN "active" ELSE book[Max(about)].status
          /\ StatusAt(p, v)' =
               IF v \notin Registered(p)' \/ book'[Max(about')].stage = "register"
               THEN "active" ELSE book'[Max(about')].status
      BY DEF StatusAt
    <3> HIDE DEF about
    <3> QED
      BY <1>2, <1>4, <3>4, <3>5
  <2> QED
    BY <2>1, <2>2
<1> QED
  BY <1>2, <1>3, <1>5

\* A version is active or suspended at any place; a status recorded for a version with a record
\* is its status from there.
LEMMA StatusFacts ==
  ASSUME book \in Seq(Entry), NEW p \in 0 .. Len(book), NEW v
  PROVE  /\ StatusAt(p, v) \in Statuses
         /\ p # 0 /\ book[p].stage = "status" /\ book[p].version = v /\ v \in Registered(p)
              => StatusAt(p, v) = book[p].status
<1> DEFINE about == {n \in 1 .. p : book[n].stage \in {"register", "status"} /\ book[n].version = v}
<1>1. StatusAt(p, v) = IF v \notin Registered(p) \/ book[Max(about)].stage = "register"
                       THEN "active" ELSE book[Max(about)].status
  BY DEF StatusAt
<1>2. about \in SUBSET (1 .. p) /\ p \in Nat /\ DOMAIN book = 1 .. Len(book) /\ Len(book) \in Nat
  OBVIOUS
<1>3. CASE v \notin Registered(p)
  BY <1>1, <1>3 DEF Statuses
<1>4. CASE v \in Registered(p)
  <2>1. about # {}
    BY <1>4 DEF Registered
  <2>2. Max(about) \in about
    <3> HIDE DEF about
    <3> QED
      BY <1>2, <2>1, Greatest
  <2>3. book[Max(about)] \in Entry /\ book[Max(about)].stage \in {"register", "status"}
    BY <1>2, <2>2
  <2>4. book[Max(about)].stage = "status" => book[Max(about)].status \in Statuses
    BY <2>3 DEF Entry
  <2>5. ASSUME p # 0, book[p].stage = "status", book[p].version = v PROVE Max(about) = p
    <3>1. p \in about /\ \A k \in about : k <= p
      BY <2>5
    <3>2. about \in SUBSET Nat
      BY <1>2
    <3> HIDE DEF about
    <3> QED
      BY <3>1, <3>2, GreatestIs
  <2> HIDE DEF about
  <2> QED
    BY <1>1, <1>4, <2>3, <2>4, <2>5 DEF Statuses
<1> QED
  BY <1>3, <1>4

\* A place of some stage that comes new is the last.
LEMMA NotedStep ==
  ASSUME TypeInv, [Next]_vars, NEW stage
  PROVE  /\ Noted(stage) \subseteq 1 .. Len(book)
         /\ \A n \in Noted(stage) : n \in Noted(stage)' /\ book'[n] = book[n]
         /\ \/ Noted(stage)' = Noted(stage)
            \/ \E e \in Entry : /\ Note(e) /\ e.stage = stage
                                /\ Noted(stage)' = Noted(stage) \cup {Len(book) + 1}
                                /\ Len(book) + 1 \notin Noted(stage)
                                /\ book'[Len(book) + 1] = e
<1>1. /\ book \in Seq(Entry) /\ book' \in Seq(Entry)
      /\ Len(book) \in Nat /\ Len(book') \in Nat
      /\ DOMAIN book = 1 .. Len(book) /\ DOMAIN book' = 1 .. Len(book')
  BY TypeNext DEF TypeInv, TypeOK
<1>2. Noted(stage) \subseteq 1 .. Len(book)
  BY <1>1 DEF Noted
<1>3. /\ \A n \in 1 .. Len(book) : n \in 1 .. Len(book') /\ book'[n] = book[n]
  BY <1>1, BookKept DEF BookGrows
<1>4. \A n \in Noted(stage) : n \in Noted(stage)' /\ book'[n] = book[n]
  BY <1>1, <1>3 DEF Noted
<1>6. CASE book' = book
  BY <1>6 DEF Noted
<1>7. CASE \E e \in Entry : Note(e)
  <2>1. PICK e \in Entry : Note(e)
    BY <1>7
  <2>2. Len(book') = Len(book) + 1 /\ book'[Len(book) + 1] = e
    BY <1>1, <2>1, NoteShape
  <2>3. \A n \in 1 .. Len(book') : n \in 1 .. Len(book) \/ n = Len(book) + 1
    BY <1>1, <2>2
  <2>4. CASE e.stage = stage
    <3>1. Noted(stage)' = Noted(stage) \cup {Len(book) + 1} /\ Len(book) + 1 \notin Noted(stage)
      BY <1>1, <1>2, <1>3, <2>2, <2>3, <2>4 DEF Noted
    <3> QED
      BY <1>2, <1>4, <2>1, <2>2, <2>4, <3>1
  <2>5. CASE e.stage # stage
    <3>1. Noted(stage)' = Noted(stage)
      BY <1>1, <1>3, <2>2, <2>3, <2>5 DEF Noted
    <3> QED
      BY <1>2, <1>4, <3>1
  <2> QED
    BY <2>4, <2>5
<1> QED
  BY <1>2, <1>4, <1>6, <1>7, BookStep

\* Which steps write what.
LEMMA Writers ==
  ASSUME TypeInv, [Next]_vars, NEW e \in Entry, Note(e)
  PROVE  /\ e.stage = "suspend" => LogSuspend
         /\ e.stage = "sla_missed" => LogMissed
         /\ e.stage = "sla_open" => OpenSla
         /\ e.stage = "escalate_unsuspended" => \E v \in Versions : LogExcess(v)
         /\ e.stage = "status" =>
              \E v \in Versions : SetSuspended(v) \/ (e.status = "active" /\ Reinstate(v))
<1>1. book \in Seq(Entry) /\ Len(book) \in Nat
  BY DEF TypeInv, TypeOK
<1>2. book' # book /\ book'[Len(book) + 1] = e
  BY <1>1, NoteShape
<1>3. \A d \in Entry : Note(d) => d = e
  <2> SUFFICES ASSUME NEW d \in Entry, Note(d) PROVE d = e
    OBVIOUS
  <2>1. book'[Len(book) + 1] = d
    BY <1>1, NoteShape
  <2> QED
    BY <1>2, <2>1
<1>4. /\ pass.now \in Hours /\ pass.began \in Nat /\ pass.version \in Versions
      /\ pass.now + SlaHours \in Nat
  <2>1. pass.now \in Hours /\ pass.began \in Nat /\ pass.version \in Versions
    BY DEF TypeInv, Pass
  <2>2. pass.now \in Nat /\ SlaHours \in Nat
    BY <2>1, Numbers
  <2> QED
    BY <2>1, <2>2
<1>5. ASSUME NEW f \in Flows, CallStep(f) \/ Assess(f) \/ InjectRefused(f) \/ Rollback(f) PROVE FALSE
  BY <1>2, <1>5 DEF CallStep, StartUnrouted, StartReusing, StartRouting, StartRefused, CallOn,
                    Govern, Execute, Verify, Cut, Assess, InjectRefused, Rollback
<1>6. ASSUME AssembleNext \/ AssembleAnew PROVE e.stage = "register"
  <2>1. PICK n \in 1 .. Len(Wired) : register(Wired[n])
    <3>1. assembly.done < Len(Wired) => assembly.done + 1 \in 1 .. Len(Wired)
      BY AssembledShape DEF TypeInv, TypeOK
    <3> QED
      BY <1>6, <3>1, AssembledShape DEF AssembleNext, AssembleAnew, Assembling
  <2>2. e = [stage |-> "register", version |-> Wired[n]]
    BY <1>3, <2>1, AssembledShape DEF register
  <2> QED
    BY <2>2
<1>7. ASSUME NEW v \in Versions, NEW status \in Statuses, NEW now \in Hours, NEW began \in Nat,
             set_status(v, status, now, began)
      PROVE  e.stage = "status" /\ e.status = status
  <2> DEFINE entry == [stage |-> "status", version |-> v, status |-> status, ts |-> now,
                       began |-> began]
  <2>1. entry \in Entry
    BY DEF Entry
  <2>2. e = entry
    BY <1>3, <1>7, <2>1 DEF set_status
  <2> QED
    BY <2>2
<1>8. ASSUME NEW stage \in {"suspend", "sla_missed", "escalate_unsuspended"}, NEW v \in Versions,
             Log(stage, v)
      PROVE  e.stage = stage
  <2>1. [stage |-> stage, version |-> v, ts |-> pass.now, began |-> pass.began] \in Entry
    BY <1>4 DEF Entry
  <2>2. e = [stage |-> stage, version |-> v, ts |-> pass.now, began |-> pass.began]
    BY <1>3, <1>8, <2>1 DEF Log
  <2> QED
    BY <2>2
<1>9. ASSUME NEW v \in Versions, register(v) PROVE e.stage = "register"
  <2>1. [stage |-> "register", version |-> v] \in Entry
    BY DEF Entry
  <2>2. e = [stage |-> "register", version |-> v]
    BY <1>3, <1>9, <2>1 DEF register
  <2> QED
    BY <2>2
<1>10. ASSUME OpenSla PROVE e.stage = "sla_open"
  <2>1. [stage |-> "sla_open", version |-> pass.version, deadline |-> pass.now + SlaHours] \in Entry
    BY <1>4 DEF Entry
  <2>2. e = [stage |-> "sla_open", version |-> pass.version, deadline |-> pass.now + SlaHours]
    BY <1>2, <1>3, <1>10, <2>1 DEF OpenSla
  <2> QED
    BY <2>2
<1>11. ASSUME NEW v \in Versions, Reinstate(v) PROVE e.stage = "status" /\ e.status = "active"
  BY <1>1, <1>7, <1>11 DEF Reinstate, Statuses, TypeInv, TypeOK
<1>12. ASSUME NEW v \in Versions, SetSuspended(v) PROVE e.stage = "status"
  BY <1>4, <1>7, <1>12 DEF SetSuspended, Statuses
<1>13. ASSUME NEW v \in Versions, LogExcess(v) PROVE e.stage = "escalate_unsuspended"
  BY <1>8, <1>13 DEF LogExcess
<1>14. LogSuspend => e.stage = "suspend"
  BY <1>4, <1>8 DEF LogSuspend
<1>15. LogMissed => e.stage = "sla_missed"
  BY <1>4, <1>8 DEF LogMissed
<1>16. ~(BeginEnforce \/ ReadTrails \/ Choose \/ AskCritical \/ EndEnforce \/ AuditorDies)
       /\ (\A v \in Versions : ~CheckSla(v)) /\ ~Tick /\ ~UNCHANGED vars
  BY <1>2 DEF BeginEnforce, ReadTrails, Choose, AskCritical, EndEnforce, AuditorDies, CheckSla, Tick,
              vars
<1>17. ASSUME NEW v \in Versions, RegisterSeen(v) PROVE e.stage = "register"
  BY <1>9, <1>17 DEF RegisterSeen
<1>18. CASE AuditorStep
  BY <1>10, <1>12, <1>13, <1>14, <1>15, <1>16, <1>17, <1>18 DEF AuditorStep
<1>19. CASE AssembleNext \/ AssembleAnew
  BY <1>6, <1>19
<1>20. CASE \E v \in Versions : Reinstate(v)
  BY <1>11, <1>20
<1> QED
  BY <1>5, <1>16, <1>18, <1>19, <1>20 DEF Next

\* Danger does not pass: what a version executed and what befell a flow stay on record.
LEMMA DangerKept ==
  ASSUME TypeInv, [Next]_vars, NEW v, Dangerous(v) PROVE Dangerous(v)'
<1>1. \A f \in Flows : trail[f] \in Seq(FlowEvent) /\ trail'[f] \in Seq(FlowEvent)
  BY TypeNext DEF TypeInv, TypeOK
<1>2. \A f \in Flows : \A n \in DOMAIN trail[f] :
        n \in DOMAIN trail'[f] /\ trail'[f][n] = trail[f][n]
  BY <1>1, TrailKept DEF TrailGrows
<1>3. \A stage : \A f \in Flows : \A n \in At(f, stage) :
        n \in At(f, stage)' /\ trail'[f][n] = trail[f][n]
  BY <1>2 DEF At
<1>4. PICK f \in DangerFlows : Executed(f, v) # {}
  BY DEF Dangerous
<1>5. f \in Flows
  BY DEF DangerFlows
<1>6. Executed(f, v)' # {}
  BY <1>3, <1>4, <1>5 DEF Executed
<1>7. f \in DangerFlows'
  BY <1>3, <1>5 DEF DangerFlows
<1> QED
  BY <1>6, <1>7 DEF Dangerous

------------------------------------------------------------------------------
(* Danger alone suspends. *)

\* A pass that is not moved leaves its locals; one that ends has none.
LEMMA PassLocals ==
  /\ NoPass.step = "off" /\ NoPass.began = 0 /\ NoPass.now = 0 /\ NoPass.due = {}
  /\ NoPass.dangerous = {} /\ NoPass.victims = {} /\ NoPass.excess = {}
BY DEF NoPass

\* A new store holds registrations alone.
LEMMA NothingNoted == ASSUME Init, NEW stage, stage # "register" PROVE Noted(stage) = {}
<1>1. book = Assembled /\ DOMAIN book = 1 .. Len(Assembled)
  BY AssembledShape DEF Init
<1> QED
  BY <1>1, AssembledShape DEF Noted

\* Every step keeps the breaker's sights on the dangerous.
LEMMA DangerNext == ASSUME TypeInv, DangerInv, [Next]_vars PROVE DangerInv'
<1>1. /\ \A v \in pass.dangerous : Dangerous(v)
      /\ pass.victims \subseteq pass.dangerous
      /\ pass.step \in {"set", "log", "critical", "sla"} => pass.version \in pass.victims
      /\ \A n \in Noted("suspend") : Dangerous(book[n].version)
      /\ pass \in Pass /\ book \in Seq(Entry)
  BY DEF TypeInv, TypeOK, DangerInv, DangerOnly
<1>2. \A v : Dangerous(v) => Dangerous(v)'
  BY DangerKept
<1>3. DangerOnly'
  <2>1. CASE Noted("suspend")' = Noted("suspend")
    BY <1>1, <1>2, <2>1, NotedStep DEF DangerOnly
  <2>2. ASSUME NEW e \in Entry, Note(e), e.stage = "suspend", book'[Len(book) + 1] = e,
               Noted("suspend")' = Noted("suspend") \cup {Len(book) + 1}
        PROVE  DangerOnly'
    <3>1. LogSuspend
      BY <2>2, Writers
    <3>2. book'[Len(book) + 1].version = pass.version
      <4>1. /\ pass.now \in Hours /\ pass.began \in Nat /\ pass.version \in Versions
        BY <1>1 DEF Pass
      <4>2. [stage |-> "suspend", version |-> pass.version, ts |-> pass.now,
             began |-> pass.began] \in Entry
        BY <4>1 DEF Entry
      <4> QED
        BY <1>1, <3>1, <4>2, NoteShape DEF LogSuspend, Log
    <3>3. Dangerous(pass.version)
      BY <1>1, <3>1 DEF LogSuspend
    <3> QED
      BY <1>1, <1>2, <2>2, <3>2, <3>3, NotedStep DEF DangerOnly
  <2> QED
    BY <2>1, <2>2, NotedStep
<1>4. ASSUME \A v \in pass'.dangerous : Dangerous(v),
             pass'.victims \subseteq pass'.dangerous,
             pass'.step \in {"set", "log", "critical", "sla"} => pass'.version \in pass'.victims
      PROVE  DangerInv'
  BY <1>2, <1>3, <1>4 DEF DangerInv
<1>5. ASSUME UNCHANGED pass PROVE DangerInv'
  BY <1>1, <1>4, <1>5
<1>6. ASSUME pass' = NoPass PROVE DangerInv'
  BY <1>4, <1>6, PassLocals
<1>7. CASE BeginEnforce
  <2>1. /\ pass'.step = "rated" /\ pass'.victims = {}
        /\ pass'.dangerous = {v \in Versions : Rating(v) = "dangerous"}
    BY <1>7, PassLocals DEF BeginEnforce, NoPass
  <2>2. \A v : Rating(v) = "dangerous" => Dangerous(v)
    BY DEF Rating
  <2> QED
    BY <1>4, <2>1, <2>2
<1>8. CASE Choose
  <2> DEFINE active == {v \in pass.dangerous : status_of(v) = "active"}
  <2>1. PICK victims \in SUBSET active :
          pass' = [pass EXCEPT !.step = "suspend", !.victims = victims,
                               !.excess = Excess(active, victims),
                               !.unregistered = Versions \ Registered(Len(book))]
    BY <1>8 DEF Choose
  <2>2. victims \subseteq pass.dangerous
    OBVIOUS
  <2> HIDE DEF active
  <2>3. pass'.step = "suspend" /\ pass'.dangerous = pass.dangerous /\ pass'.victims = victims
    BY <1>1, <2>1 DEF Pass
  <2> QED
    BY <1>1, <1>4, <2>2, <2>3
<1>9. ASSUME NEW v \in Versions, CheckSla(v) PROVE DangerInv'
  <2>1. /\ pass'.step \in {"miss", "sweep"}
        /\ pass'.dangerous = pass.dangerous /\ pass'.victims = pass.victims
    BY <1>1, <1>9 DEF CheckSla, Pass
  <2> QED
    BY <1>1, <1>4, <2>1
<1>10. CASE ReadTrails \/ LogMissed
  <2>1. /\ pass'.step = "sweep"
        /\ pass'.dangerous = pass.dangerous /\ pass'.victims = pass.victims
    BY <1>1, <1>10 DEF ReadTrails, LogMissed, Step, Pass
  <2> QED
    BY <1>1, <1>4, <2>1
<1>11. ASSUME NEW v \in Versions, RegisterSeen(v) \/ SetSuspended(v) PROVE DangerInv'
  <2>1. /\ pass'.dangerous = pass.dangerous /\ pass'.victims = pass.victims
        /\ pass'.version = v
    BY <1>1, <1>11 DEF RegisterSeen, SetSuspended, Pass
  <2>2. v \in pass.victims
    BY <1>1, <1>11 DEF RegisterSeen, SetSuspended
  <2> QED
    BY <1>1, <1>4, <2>1, <2>2
<1>12. CASE LogSuspend
  <2>1. /\ pass'.dangerous = pass.dangerous /\ pass'.victims = pass.victims
        /\ pass'.version = pass.version /\ pass.step = "log"
    BY <1>1, <1>12 DEF LogSuspend, Step, Pass
  <2> QED
    BY <1>1, <1>4, <2>1
<1>13. CASE AskCritical \/ OpenSla
  <2>1. /\ pass'.dangerous = pass.dangerous /\ pass'.victims \subseteq pass.victims
        /\ \/ pass'.step = "suspend"
           \/ pass'.victims = pass.victims /\ pass'.version = pass.version /\ pass.step = "critical"
    BY <1>1, <1>13 DEF AskCritical, OpenSla, NextVictim, Step, Pass
  <2> QED
    BY <1>1, <1>4, <2>1
<1>14. ASSUME NEW v \in Versions, LogExcess(v) PROVE DangerInv'
  <2>1. /\ pass'.dangerous = pass.dangerous /\ pass'.victims = pass.victims
        /\ pass'.step = "suspend"
    BY <1>1, <1>14 DEF LogExcess, Pass
  <2> QED
    BY <1>1, <1>4, <2>1
<1>15. CASE AuditorStep
  BY <1>6, <1>7, <1>8, <1>9, <1>10, <1>11, <1>12, <1>13, <1>14, <1>15
     DEF AuditorStep, EndEnforce, AuditorDies
<1> QED
  BY <1>5, <1>15 DEF Next, AssembleNext, AssembleAnew, Reinstate, vars

\* The sights of the breaker are on the dangerous throughout.
LEMMA DangerInvariance == Spec => []DangerInv
<1>1. Init => DangerInv
  BY NothingNoted, PassLocals DEF Init, DangerInv, DangerOnly
<1>2. TypeInv /\ DangerInv /\ [Next]_vars => DangerInv'
  BY DangerNext
<1> QED
  BY <1>1, <1>2, TypeInvariance, PTL DEF Spec

\* The breaker suspends for a breach of safety alone.
THEOREM SuspendsTheDangerous == Spec => []DangerOnly
<1>1. DangerInv => DangerOnly
  BY DEF DangerInv
<1> QED
  BY <1>1, DangerInvariance, PTL

------------------------------------------------------------------------------
(* Suspensions stick. *)

\* At a place of the book a version is active or suspended; a status entry about a version with
\* a record is what the version is there.
StatusFact ==
  \A p \in 0 .. Len(book) : \A v \in Versions :
    /\ StatusAt(p, v) \in Statuses
    /\ p # 0 /\ book[p].stage = "status" /\ book[p].version = v /\ v \in Registered(p)
         => StatusAt(p, v) = book[p].status

\* The fact holds of every typed state, and of the state after every step.
LEMMA StatusHolds == TypeInv => StatusFact
BY StatusFacts DEF TypeInv, TypeOK, StatusFact

\* The same, of the next state.
LEMMA StatusHoldsNext == TypeInv' => StatusFact'
BY StatusHolds, PTL

\* A record stays.
LEMMA RecordKept ==
  ASSUME TypeInv, [Next]_vars
  PROVE  Registered(Len(book)) \subseteq Registered(Len(book))'
<1>1. Len(book) \in Nat /\ Len(book') \in Nat
  BY TypeNext DEF TypeInv, TypeOK
<1>2. \A n \in 1 .. Len(book) : n \in 1 .. Len(book') /\ book'[n] = book[n]
  BY <1>1, BookKept DEF BookGrows
<1> QED
  BY <1>2 DEF Registered

\* What the breaker appends when it suspends a version.
LEMMA SuspensionEntry ==
  ASSUME TypeInv, NEW v \in Versions, SetSuspended(v)
  PROVE  /\ Len(book') = Len(book) + 1
         /\ Len(book) + 1 \in Suspensions'
         /\ book'[Len(book) + 1].stage = "status" /\ book'[Len(book) + 1].status = "suspended"
         /\ book'[Len(book) + 1].version = v
         /\ book'[Len(book) + 1].ts = pass.now /\ book'[Len(book) + 1].began = pass.began
<1> DEFINE entry == [stage |-> "status", version |-> v, status |-> "suspended", ts |-> pass.now,
                     began |-> pass.began]
<1>1. book \in Seq(Entry) /\ entry \in Entry
  BY DEF TypeInv, TypeOK, Pass, Entry, Statuses
<1>2. Note(entry)
  BY DEF SetSuspended, set_status
<1> HIDE DEF entry
<1>3. /\ Len(book) \in Nat /\ Len(book') = Len(book) + 1 /\ DOMAIN book' = 1 .. Len(book) + 1
      /\ book'[Len(book) + 1] = entry
  BY <1>1, <1>2, NoteShape
<1>4. Len(book) + 1 \in DOMAIN book'
  BY <1>3
<1> QED
  BY <1>3, <1>4 DEF entry, Suspensions, Noted

\* A version that the breaker has just suspended is suspended.
LEMMA SuspendedNow ==
  ASSUME TypeInv, DangerInv, RegisteredInv, [Next]_vars,
         NEW v \in Versions, SetSuspended(v), NEW n, n = Len(book) + 1
  PROVE  n = Len(book') /\ StatusAt(n, v)' = "suspended"
<1>1. /\ book \in Seq(Entry) /\ Len(book) \in Nat /\ Len(book') \in Nat /\ TypeInv'
  BY TypeNext DEF TypeInv, TypeOK
<1>2. v \in Registered(Len(book))
  <2>1. CASE pass.step = "suspend"
    BY <2>1 DEF SetSuspended, MustRegister, RegisteredInv, Passing
  <2>2. CASE pass.step = "set"
    BY <2>2 DEF SetSuspended, RegisteredInv
  <2> QED
    BY <2>1, <2>2 DEF SetSuspended
<1>3. /\ n = Len(book') /\ n \in 0 .. Len(book') /\ n # 0
      /\ book'[n].stage = "status" /\ book'[n].version = v /\ book'[n].status = "suspended"
  BY <1>1, SuspensionEntry
<1>4. v \in Registered(n)'
  BY <1>2, <1>3, RecordKept DEF Registered
<1> QED
  BY <1>1, <1>3, <1>4, StatusHoldsNext DEF StatusFact

\* Every step keeps the records of those to be suspended, and the suspensions recorded.
LEMMA RegisteredNext ==
  ASSUME TypeInv, DangerInv, RegisteredInv, [Next]_vars PROVE RegisteredInv'
<1>1. /\ pass.step \in Passing => pass.victims \ pass.unregistered \subseteq Registered(Len(book))
      /\ pass.step = "set" => pass.version \in Registered(Len(book))
      /\ Stuck
      /\ pass \in Pass /\ book \in Seq(Entry)
      /\ pass.step \in {"set", "log", "critical", "sla"} => pass.version \in pass.victims
  BY DEF TypeInv, TypeOK, DangerInv, RegisteredInv
<1>2. Registered(Len(book)) \subseteq Registered(Len(book))'
  BY RecordKept
<1>3. /\ Len(book) \in Nat /\ Len(book') \in Nat /\ book' \in Seq(Entry) /\ TypeInv'
  BY TypeNext DEF TypeInv, TypeOK
<1>4. ASSUME NEW v \in Versions, NEW n \in Noted("status"),
             book'[n].version = v, book'[n].status = "suspended"
      PROVE  StatusAt(n, v)' = "suspended"
  <2>1. n \in 1 .. Len(book) /\ book'[n] = book[n]
    BY NotedStep
  <2>2. n \in 0 .. Len(book)
    BY <1>3, <2>1
  <2>3. StatusAt(n, v)' = StatusAt(n, v)
    BY <1>1, <2>2, BookKept, PlaceKept
  <2> QED
    BY <1>1, <1>4, <2>1, <2>3 DEF Stuck
<1>5. ASSUME NEW e \in Entry, Note(e), e.stage = "status", e.status = "suspended",
             NEW n, n = Len(book) + 1, NEW v \in Versions, v = e.version
      PROVE  StatusAt(n, v)' = "suspended"
  <2>1. PICK w \in Versions : SetSuspended(w)
    BY <1>5, Writers DEF Statuses
  <2>2. w = v
    <3>1. book'[Len(book) + 1].version = w
      BY <2>1, SuspensionEntry
    <3>2. book'[Len(book) + 1] = e
      BY <1>1, <1>5, NoteShape
    <3> QED
      BY <1>5, <3>1, <3>2
  <2> QED
    BY <1>5, <2>1, <2>2, SuspendedNow
<1>6. Stuck'
  <2>1. CASE Noted("status")' = Noted("status")
    BY <1>4, <2>1 DEF Stuck
  <2>2. ASSUME NEW e \in Entry, Note(e), e.stage = "status", book'[Len(book) + 1] = e,
               Noted("status")' = Noted("status") \cup {Len(book) + 1}
        PROVE  Stuck'
    BY <1>4, <1>5, <2>2 DEF Stuck
  <2> QED
    BY <2>1, <2>2, NotedStep
<1>7. ASSUME pass'.step \in Passing =>
               pass'.victims \ pass'.unregistered \subseteq Registered(Len(book)),
             pass'.step # "set"
      PROVE  RegisteredInv'
  BY <1>2, <1>6, <1>7 DEF RegisteredInv
<1>8. ASSUME UNCHANGED pass PROVE RegisteredInv'
  BY <1>1, <1>2, <1>6, <1>8 DEF RegisteredInv
<1>9. ASSUME pass' = NoPass PROVE RegisteredInv'
  BY <1>7, <1>9, PassLocals DEF Passing
<1>10. ASSUME BeginEnforce \/ ReadTrails \/ LogMissed \/ \E v \in Versions : CheckSla(v)
       PROVE  RegisteredInv'
  <2>1. pass'.step \in {"rated", "sweep", "miss"}
    BY <1>1, <1>10 DEF BeginEnforce, ReadTrails, LogMissed, CheckSla, Step, Pass, NoPass
  <2> QED
    BY <1>7, <2>1 DEF Passing
<1>11. CASE Choose
  <2>1. /\ pass'.step = "suspend" /\ pass'.victims \subseteq Versions
        /\ pass'.unregistered = Versions \ Registered(Len(book))
    <3>1. pass' \in Pass
      BY TypeNext DEF TypeInv
    <3>2. /\ pass'.step = "suspend"
          /\ pass'.unregistered = Versions \ Registered(Len(book))
      BY <1>1, <1>11 DEF Choose, Pass
    <3> QED
      BY <3>1, <3>2 DEF Pass
  <2>2. pass'.victims \ pass'.unregistered \subseteq Registered(Len(book))
    BY <2>1
  <2> QED
    BY <1>7, <2>1, <2>2
<1>12. ASSUME NEW v \in Versions, RegisterSeen(v) PROVE RegisteredInv'
  <2>1. /\ pass'.step = "set" /\ pass'.version = v
        /\ pass'.victims = pass.victims /\ pass'.unregistered = pass.unregistered
        /\ pass.step = "suspend"
    BY <1>1, <1>12 DEF RegisterSeen, Pass
  <2>2. v \in Registered(Len(book))'
    <3>1. [stage |-> "register", version |-> v] \in Entry
      BY DEF Entry
    <3>2. Note([stage |-> "register", version |-> v])
      BY <1>12 DEF RegisterSeen, register
    <3>3. /\ Len(book') \in 1 .. Len(book')
          /\ book'[Len(book')] = [stage |-> "register", version |-> v]
      BY <1>1, <1>3, <3>1, <3>2, NoteShape
    <3> QED
      BY <3>3 DEF Registered
  <2> QED
    BY <1>1, <1>2, <1>6, <2>1, <2>2 DEF RegisteredInv, Passing
<1>13. ASSUME \/ LogSuspend
              \/ \E v \in Versions : SetSuspended(v) \/ LogExcess(v)
       PROVE  RegisteredInv'
  <2>1. /\ pass'.step \in {"log", "critical", "suspend"}
        /\ pass'.victims = pass.victims /\ pass'.unregistered = pass.unregistered
        /\ pass.step \in Passing
    BY <1>1, <1>13 DEF SetSuspended, LogSuspend, LogExcess, Step, Pass, Passing
  <2> QED
    BY <1>1, <1>7, <2>1 DEF Passing
<1>14. CASE AskCritical \/ OpenSla
  <2>1. /\ pass'.step \in {"suspend", "sla"} /\ pass.step \in Passing
        /\ pass'.victims \subseteq pass.victims /\ pass'.unregistered = pass.unregistered
    BY <1>1, <1>14 DEF AskCritical, OpenSla, NextVictim, Step, Pass, Passing
  <2> QED
    BY <1>1, <1>7, <2>1
<1>15. CASE AuditorStep
  BY <1>9, <1>10, <1>11, <1>12, <1>13, <1>14, <1>15 DEF AuditorStep, EndEnforce, AuditorDies
<1> QED
  BY <1>8, <1>15 DEF Next, AssembleNext, AssembleAnew, Reinstate, vars

\* Whoever is to be suspended has a record throughout.
LEMMA RegisteredInvariance == Spec => []RegisteredInv
<1>1. Init => RegisteredInv
  BY NothingNoted, PassLocals DEF Init, RegisteredInv, Stuck, Passing
<1>2. TypeInv /\ DangerInv /\ RegisteredInv /\ [Next]_vars => RegisteredInv'
  BY RegisteredNext
<1> QED
  BY <1>1, <1>2, TypeInvariance, DangerInvariance, PTL DEF Spec

\* A suspension recorded is one in force, at its place in the book.
THEOREM SuspensionsStick == Spec => []SuspensionSticks
<1>1. TypeInv /\ RegisteredInv => SuspensionSticks
  <2> SUFFICES ASSUME TypeInv, Stuck, NEW n \in Noted("status"), book[n].status = "suspended"
               PROVE  StatusAt(n, book[n].version) = "suspended"
    BY DEF RegisteredInv, SuspensionSticks
  <2>1. book[n] \in Entry /\ book[n].stage = "status"
    BY DEF TypeInv, TypeOK, Noted
  <2>2. book[n].version \in Versions
    BY <2>1 DEF Entry
  <2> QED
    BY <2>2 DEF Stuck
<1> QED
  BY <1>1, TypeInvariance, RegisteredInvariance, PTL

------------------------------------------------------------------------------
(* The rate of suspensions on record. *)

\* A set of versions, or of places, is finite.
LEMMA Finite ==
  ASSUME NEW S, S \subseteq Versions
  PROVE  IsFiniteSet(S) /\ Cardinality(S) \in Nat /\ (S # {} => Cardinality(S) >= 1)
<1>1. IsFiniteSet(S) /\ Cardinality(S) \in Nat
  BY Numbers, FS_Subset, FS_CardinalityType
<1>2. S # {} => Cardinality(S) # 0
  BY <1>1, FS_EmptySet
<1> QED
  BY <1>1, <1>2

\* One more element makes a finite set larger by one at most.
LEMMA OneMore ==
  ASSUME NEW S, IsFiniteSet(S), NEW x
  PROVE  /\ Cardinality(S) \in Nat /\ Cardinality(S \cup {x}) \in Nat
         /\ Cardinality(S \cup {x}) <= Cardinality(S) + 1
<1>1. Cardinality(S) \in Nat
  BY FS_CardinalityType
<1>2. Cardinality(S \cup {x}) = IF x \in S THEN Cardinality(S) ELSE Cardinality(S) + 1
  BY FS_AddElement
<1> QED
  BY <1>1, <1>2

\* What the breaker appends when it records a suspension.
LEMMA SuspendEntry ==
  ASSUME TypeInv, LogSuspend
  PROVE  /\ Len(book) + 1 \in Noted("suspend")'
         /\ book'[Len(book) + 1].ts = pass.now
         /\ book'[Len(book) + 1].version = pass.version
         /\ book'[Len(book) + 1].began = pass.began
<1> DEFINE entry == [stage |-> "suspend", version |-> pass.version, ts |-> pass.now,
                     began |-> pass.began]
<1>1. entry \in Entry /\ book \in Seq(Entry)
  BY DEF TypeInv, TypeOK, Pass, Entry
<1>2. Note(entry)
  BY DEF LogSuspend, Log
<1> HIDE DEF entry
<1>3. /\ Len(book) \in Nat /\ DOMAIN book' = 1 .. Len(book) + 1
      /\ book'[Len(book) + 1] = entry
  BY <1>1, <1>2, NoteShape
<1>4. Len(book) + 1 \in DOMAIN book'
  BY <1>3
<1> QED
  BY <1>3, <1>4 DEF entry, Noted

\* The hour of a suspension is an hour.
LEMMA SuspendHour ==
  ASSUME TypeInv, NEW n \in Noted("suspend")
  PROVE  book[n].ts \in Nat /\ book[n].version \in Versions
<1>1. book[n] \in Entry /\ book[n].stage = "suspend"
  BY DEF TypeInv, TypeOK, Noted
<1>2. book[n].ts \in Hours /\ book[n].version \in Versions
  BY <1>1 DEF Entry
<1> QED
  BY <1>2, Numbers

\* The suspensions that count at an hour are one more after the breaker has recorded one, and
\* the same after any other step.
LEMMA RecentKept ==
  ASSUME TypeInv, [Next]_vars, NEW now \in Hours
  PROVE  /\ RecentSuspensions(now) \in Nat /\ RecentSuspensions(now)' \in Nat
         /\ RecentSuspensions(now)' = RecentSuspensions(now) \/ LogSuspend
         /\ RecentSuspensions(now)' <= RecentSuspensions(now) + 1
<1> DEFINE recent == {n \in Noted("suspend") : book[n].ts + Window > now}
<1>1. RecentSuspensions(now) = Cardinality(recent)
  <2>1. recent = {n \in DOMAIN book : book[n].stage = "suspend" /\ book[n].ts + Window > now}
    BY DEF Noted
  <2> QED
    BY <2>1 DEF RecentSuspensions
<1>2. RecentSuspensions(now)' = Cardinality(recent')
  <2>1. recent' = {n \in DOMAIN book' : book'[n].stage = "suspend" /\ book'[n].ts + Window > now}
    BY DEF Noted
  <2> QED
    BY <2>1 DEF RecentSuspensions
<1>3. IsFiniteSet(recent) /\ Cardinality(recent) \in Nat
  <2>1. recent \in SUBSET DOMAIN book /\ book \in Seq(Entry)
    BY DEF TypeInv, TypeOK, Noted
  <2> HIDE DEF recent
  <2> QED
    BY <2>1, PlacesFinite
<1>4. CASE Noted("suspend")' = Noted("suspend")
  <2>1. recent' = recent
    BY <1>4, NotedStep
  <2> HIDE DEF recent
  <2> QED
    BY <1>1, <1>2, <1>3, <2>1
<1>5. ASSUME NEW e \in Entry, Note(e), e.stage = "suspend",
             Noted("suspend")' = Noted("suspend") \cup {Len(book) + 1}
      PROVE  /\ LogSuspend /\ Cardinality(recent') \in Nat
             /\ Cardinality(recent') <= Cardinality(recent) + 1
  <2>1. LogSuspend
    BY <1>5, Writers
  <2>2. recent' = recent \/ recent' = recent \cup {Len(book) + 1}
    BY <1>5, NotedStep
  <2> HIDE DEF recent
  <2>3. /\ Cardinality(recent \cup {Len(book) + 1}) <= Cardinality(recent) + 1
        /\ Cardinality(recent \cup {Len(book) + 1}) \in Nat
    BY <1>3, OneMore
  <2>4. Cardinality(recent) <= Cardinality(recent) + 1 /\ Cardinality(recent) \in Nat
    BY <1>3
  <2> QED
    BY <2>1, <2>2, <2>3, <2>4, Zenon
<1> HIDE DEF recent
<1> QED
  BY <1>1, <1>2, <1>3, <1>4, <1>5, NotedStep

\* The lesser of two numbers is at most the first.
LEMMA LesserOfTwo == ASSUME NEW a \in Nat, NEW b \in Nat PROVE Min({a, b}) <= a
<1>1. {a, b} \in SUBSET Nat /\ {a, b} # {}
  OBVIOUS
<1> QED
  BY <1>1, LeastNumber

\* Every step keeps what is left to suspend within the rate.
LEMMA RateNext == ASSUME TypeInv, DangerInv, RateInv, [Next]_vars PROVE RateInv'
<1>1. /\ pass.now <= clock
      /\ \A n \in Noted("suspend") : book[n].ts <= clock
      /\ \A now \in Hours : now = pass.now =>
           /\ pass.step \in {"sweep", "miss"} => RecentSuspensions(now) = pass.recent
           /\ pass.step \in Passing /\ Pending # {} =>
                RecentSuspensions(now) + Cardinality(Pending) <= MaxPer
      /\ RecordsLimited
      /\ pass \in Pass /\ book \in Seq(Entry)
      /\ pass.step \in {"set", "log", "critical", "sla"} => pass.version \in pass.victims
  BY DEF TypeInv, TypeOK, DangerInv, RateInv
<1>2. /\ pass.now \in Nat /\ pass.now \in Hours /\ clock \in Nat /\ clock \in Hours
      /\ MaxPer \in Nat /\ Window \in Nat /\ pass.recent \in Nat
      /\ pass.victims \subseteq Versions /\ Pending \subseteq Versions
      /\ Len(book) \in Nat
  <2>1. pass.now \in Hours /\ clock \in Hours /\ pass.victims \subseteq Versions
        /\ pass.recent \in Nat
    BY DEF TypeInv, TypeOK, Pass
  <2>2. pass.now \in Nat /\ clock \in Nat
    BY <2>1, Numbers
  <2>3. Pending \subseteq Versions
    BY <2>1 DEF Pending
  <2> QED
    BY <1>1, <2>1, <2>2, <2>3, Numbers
<1>3. clock' = clock \/ clock' = clock + 1
  <2>1. CASE AuditorStep
    BY <2>1 DEF AuditorStep, BeginEnforce, ReadTrails, LogMissed, Choose, LogSuspend, AskCritical, OpenSla, EndEnforce,
                AuditorDies, CheckSla, RegisterSeen, SetSuspended, LogExcess, Elsewhere
  <2>2. ASSUME NEW f \in Flows, CallStep(f) \/ Assess(f) \/ InjectRefused(f) \/ Rollback(f)
        PROVE  clock' = clock
    BY <2>2 DEF CallStep, StartUnrouted, StartReusing, StartRouting, StartRefused, CallOn,
                Govern, Execute, Verify, Cut, Assess, InjectRefused, Rollback
  <2> QED
    BY <2>1, <2>2 DEF Next, AssembleNext, AssembleAnew, Reinstate, Tick, vars
<1>4. clock <= clock' /\ clock' \in Nat
  BY <1>2, <1>3
<1>5. ASSUME LogSuspend PROVE pass.step = "log" /\ Pending = pass.victims /\ Pending # {}
  BY <1>1, <1>5 DEF LogSuspend, Pending
<1>6. \A n \in Noted("suspend")' : book'[n].ts <= clock'
  <2>1. ASSUME NEW n \in Noted("suspend") PROVE book'[n].ts <= clock'
    <3>1. book'[n] = book[n] /\ book[n].ts \in Nat /\ book[n].ts <= clock
      BY <1>1, NotedStep, SuspendHour
    <3> QED
      BY <1>2, <1>4, <3>1
  <2>2. LogSuspend => book'[Len(book) + 1].ts <= clock'
    BY <1>1, <1>2, <1>4, SuspendEntry
  <2> QED
    BY <2>1, <2>2, NotedStep, Writers
<1>7. RecordsLimited'
  <2> SUFFICES ASSUME NEW hour \in Hours
               PROVE  Cardinality({n \in Noted("suspend")' :
                                     book'[n].ts <= hour /\ hour < book'[n].ts + Window}) <= MaxPer
    BY DEF RecordsLimited, Within
  <2> DEFINE counted == {n \in Noted("suspend") : book[n].ts <= hour /\ hour < book[n].ts + Window}
             after == {n \in Noted("suspend")' : book'[n].ts <= hour /\ hour < book'[n].ts + Window}
             recent == {n \in Noted("suspend") : book[n].ts + Window > pass.now}
  <2>1. Cardinality(counted) <= MaxPer
    BY <1>1 DEF RecordsLimited, Within
  <2>2. CASE after = counted
    BY <2>1, <2>2
  <2>3. CASE Noted("suspend")' = Noted("suspend")
    <3>1. after = counted
      BY <2>3, NotedStep
    <3> QED
      BY <2>2, <3>1
  <2>4. ASSUME NEW e \in Entry, Note(e), e.stage = "suspend",
               Noted("suspend")' = Noted("suspend") \cup {Len(book) + 1}, after # counted
        PROVE  Cardinality(after) <= MaxPer
    <3>1. LogSuspend
      BY <2>4, Writers
    <3>2. book'[Len(book) + 1].ts = pass.now
      BY <3>1, SuspendEntry
    <3>3. \A n \in Noted("suspend") : book'[n] = book[n]
      BY NotedStep
    <3>4. after = counted \cup {Len(book) + 1} /\ pass.now <= hour
      BY <2>4, <3>2, <3>3
    <3>5. counted \subseteq recent
      <4> SUFFICES ASSUME NEW n \in counted PROVE book[n].ts + Window > pass.now
        OBVIOUS
      <4>1. book[n].ts \in Nat /\ hour < book[n].ts + Window /\ hour \in Nat
        BY SuspendHour, Numbers
      <4> HIDE DEF counted, after, recent
      <4> QED
        BY <1>2, <3>4, <4>1
    <3>6. /\ recent \in SUBSET DOMAIN book
          /\ RecentSuspensions(pass.now) = Cardinality(recent)
      <4>1. recent = {n \in DOMAIN book : book[n].stage = "suspend" /\ book[n].ts + Window > pass.now}
        BY DEF Noted
      <4> QED
        BY <4>1 DEF RecentSuspensions
    <3>7. RecentSuspensions(pass.now) + Cardinality(Pending) <= MaxPer
      BY <1>1, <1>2, <1>5, <3>1 DEF Passing
    <3>8. Cardinality(Pending) \in Nat /\ Cardinality(Pending) >= 1
      BY <1>2, <1>5, <3>1, Finite
    <3> HIDE DEF counted, after, recent
    <3>9. IsFiniteSet(recent) /\ Cardinality(recent) \in Nat
      BY <1>1, <3>6, PlacesFinite
    <3>10. /\ IsFiniteSet(counted) /\ Cardinality(counted) \in Nat
           /\ Cardinality(counted) <= Cardinality(recent)
      BY <3>5, <3>9, FS_Subset, FS_CardinalityType
    <3>11. Cardinality(after) <= Cardinality(counted) + 1 /\ Cardinality(after) \in Nat
      BY <3>4, <3>10, OneMore
    <3> QED
      BY <1>2, <3>6, <3>7, <3>8, <3>9, <3>10, <3>11
  <2> HIDE DEF counted, recent
  <2> QED
    BY <2>2, <2>3, <2>4, NotedStep
<1>8. ASSUME pass'.now \in Nat, pass'.now <= clock,
             \A now \in Hours : now = pass'.now =>
               /\ pass'.step \in {"sweep", "miss"} => RecentSuspensions(now)' = pass'.recent
               /\ pass'.step \in Passing /\ Pending' # {} =>
                    RecentSuspensions(now)' + Cardinality(Pending') <= MaxPer
      PROVE  RateInv'
  <2>1. pass'.now <= clock'
    BY <1>2, <1>4, <1>8
  <2> QED
    BY <1>6, <1>7, <1>8, <2>1 DEF RateInv
<1>9. ASSUME pass'.now = pass.now, pass'.recent = pass.recent, ~LogSuspend,
             pass'.step \in {"sweep", "miss"} => pass.step \in {"sweep", "miss"},
             pass'.step \in Passing /\ Pending' # {} =>
               /\ pass.step \in Passing /\ Pending # {}
               /\ Cardinality(Pending') <= Cardinality(Pending)
      PROVE  RateInv'
  <2>1. \A now \in Hours :
          RecentSuspensions(now)' = RecentSuspensions(now) /\ RecentSuspensions(now) \in Nat
    BY <1>9, RecentKept
  <2>2. Cardinality(Pending) \in Nat
    BY <1>2, Finite
  <2>3. Cardinality(Pending') \in Nat
    <3>1. Pending' \subseteq Versions
      BY TypeNext DEF TypeInv, Pass, Pending
    <3> QED
      BY <3>1, Finite
  <2> QED
    BY <1>1, <1>2, <1>8, <1>9, <2>1, <2>2, <2>3
<1>10. ASSUME UNCHANGED pass PROVE RateInv'
  <2>1. ~LogSuspend
    BY <1>1, <1>10 DEF LogSuspend, Step, Pass
  <2>2. Pending' = Pending /\ Cardinality(Pending) \in Nat
    BY <1>2, <1>10, Finite DEF Pending
  <2> QED
    BY <1>9, <1>10, <2>1, <2>2
<1>11. ASSUME pass' = NoPass PROVE RateInv'
  BY <1>2, <1>8, <1>11, PassLocals DEF Passing
<1>12. CASE BeginEnforce
  <2>1. pass'.now = clock /\ pass'.step = "rated"
    BY <1>12 DEF BeginEnforce, NoPass
  <2> QED
    BY <1>2, <1>8, <2>1 DEF Passing
<1>13. ASSUME NEW v \in Versions, CheckSla(v) PROVE RateInv'
  <2>1. /\ pass'.step \in {"miss", "sweep"} /\ pass.step = "sweep"
        /\ pass'.now = pass.now /\ pass'.recent = pass.recent
    BY <1>1, <1>13 DEF CheckSla, Pass
  <2>2. ~LogSuspend
    BY <2>1 DEF LogSuspend
  <2> QED
    BY <1>9, <2>1, <2>2 DEF Passing
<1>14. CASE LogMissed
  <2>1. /\ pass'.step = "sweep" /\ pass.step = "miss"
        /\ pass'.now = pass.now /\ pass'.recent = pass.recent
    BY <1>1, <1>14 DEF LogMissed, Step, Pass
  <2>2. ~LogSuspend
    BY <2>1 DEF LogSuspend
  <2> QED
    BY <1>9, <2>1, <2>2 DEF Passing
<1>15. CASE Choose
  <2> DEFINE active == {v \in pass.dangerous : status_of(v) = "active"}
             headroom == IF pass.recent < MaxPer THEN MaxPer - pass.recent ELSE 0
  <2>1. PICK victims \in SUBSET active :
          /\ Cardinality(victims) = Min({headroom, Cardinality(active)})
          /\ pass' = [pass EXCEPT !.step = "suspend", !.victims = victims,
                                  !.excess = Excess(active, victims),
                                  !.unregistered = Versions \ Registered(Len(book))]
    BY <1>15 DEF Choose
  <2>2. /\ headroom \in Nat /\ active \subseteq Versions
        /\ headroom # 0 => headroom + pass.recent <= MaxPer
    BY <1>1, <1>2 DEF Pass
  <2> HIDE DEF active, headroom
  <2>3. Cardinality(victims) <= headroom
    BY <2>1, <2>2, Finite, LesserOfTwo
  <2>4. pass'.step = "suspend" /\ pass'.victims = victims /\ pass'.now = pass.now
    BY <1>1, <2>1 DEF Pass
  <2>5. Pending' = victims /\ Cardinality(victims) \in Nat
        /\ (victims # {} => Cardinality(victims) >= 1)
    BY <2>2, <2>4, Finite DEF Pending
  <2>6. \A now \in Hours : now = pass.now => RecentSuspensions(now)' = pass.recent
    <3>1. book' = book /\ pass.step = "sweep"
      BY <1>15 DEF Choose
    <3> QED
      BY <1>1, <3>1 DEF RecentSuspensions
  <2>7. Pending' # {} => pass.recent + Cardinality(Pending') <= MaxPer
    BY <1>2, <2>2, <2>3, <2>5
  <2> QED
    BY <1>1, <1>2, <1>8, <2>4, <2>6, <2>7
<1>16. ASSUME NEW v \in Versions, RegisterSeen(v) PROVE RateInv'
  <2>1. /\ pass'.step = "set" /\ pass.step = "suspend" /\ pass'.victims = pass.victims
        /\ pass'.now = pass.now /\ pass'.recent = pass.recent
    BY <1>1, <1>16 DEF RegisterSeen, Pass
  <2>2. Pending' = Pending /\ Cardinality(Pending) \in Nat /\ ~LogSuspend
    BY <1>2, <2>1, Finite DEF Pending, LogSuspend
  <2> QED
    BY <1>9, <2>1, <2>2 DEF Passing
<1>17. ASSUME NEW v \in Versions, SetSuspended(v) PROVE RateInv'
  <2>1. /\ pass'.step = "log" /\ pass.step \in {"suspend", "set"} /\ pass'.victims = pass.victims
        /\ pass'.now = pass.now /\ pass'.recent = pass.recent
    BY <1>1, <1>17 DEF SetSuspended, Pass
  <2>2. Pending' = Pending /\ Cardinality(Pending) \in Nat /\ ~LogSuspend
    BY <1>2, <2>1, Finite DEF Pending, LogSuspend
  <2> QED
    BY <1>9, <2>1, <2>2 DEF Passing
<1>18. CASE LogSuspend
  <2>1. /\ pass'.step = "critical" /\ pass.step = "log" /\ pass'.victims = pass.victims
        /\ pass'.now = pass.now /\ pass'.version = pass.version
    BY <1>1, <1>18 DEF LogSuspend, Step, Pass
  <2>2. /\ Pending = pass.victims /\ Pending' = pass.victims \ {pass.version}
        /\ pass.version \in pass.victims
    BY <1>1, <2>1 DEF Pending
  <2>3. /\ Cardinality(pass.victims) \in Nat
        /\ Cardinality(pass.victims \ {pass.version}) = Cardinality(pass.victims) - 1
    BY <1>2, <2>2, Finite, FS_RemoveElement
  <2>4. \A now \in Hours : now = pass.now =>
          RecentSuspensions(now) + Cardinality(pass.victims) <= MaxPer
    BY <1>1, <2>1, <2>2 DEF Passing
  <2>5. \A now \in Hours :
          /\ RecentSuspensions(now) \in Nat
          /\ RecentSuspensions(now)' <= RecentSuspensions(now) + 1
          /\ RecentSuspensions(now)' \in Nat
    BY RecentKept
  <2>6. \A now \in Hours : now = pass.now =>
          RecentSuspensions(now)' + Cardinality(Pending') <= MaxPer
    BY <1>2, <2>2, <2>3, <2>4, <2>5
  <2> QED
    BY <1>1, <1>2, <1>8, <2>1, <2>6
<1>19. CASE AskCritical \/ OpenSla
  <2>1. /\ pass.step \in {"critical", "sla"}
        /\ \/ pass'.step = "suspend" /\ pass'.victims = pass.victims \ {pass.version}
           \/ pass'.step = "sla" /\ pass'.victims = pass.victims /\ pass'.version = pass.version
        /\ pass'.now = pass.now /\ pass'.recent = pass.recent
    BY <1>1, <1>19 DEF AskCritical, OpenSla, NextVictim, Step, Pass
  <2>2. Pending' = Pending /\ Cardinality(Pending) \in Nat /\ ~LogSuspend
    BY <1>2, <2>1, Finite DEF Pending, LogSuspend
  <2> QED
    BY <1>9, <2>1, <2>2 DEF Passing
<1>20. ASSUME NEW v \in Versions, LogExcess(v) PROVE RateInv'
  <2>1. /\ pass'.step = "suspend" /\ pass.step = "suspend" /\ pass'.victims = pass.victims
        /\ pass'.now = pass.now /\ pass'.recent = pass.recent
    BY <1>1, <1>20 DEF LogExcess, Pass
  <2>2. Pending' = Pending /\ Cardinality(Pending) \in Nat /\ ~LogSuspend
    BY <1>2, <2>1, Finite DEF Pending, LogSuspend
  <2> QED
    BY <1>9, <2>1, <2>2 DEF Passing
<1>21. CASE ReadTrails
  <2>1. /\ pass'.now = pass.now /\ pass'.step = "sweep"
        /\ pass'.recent = RecentSuspensions(pass.now) /\ book' = book
    BY <1>1, <1>21 DEF ReadTrails, Pass
  <2>2. \A now \in Hours : now = pass.now => RecentSuspensions(now)' = RecentSuspensions(now)
    BY <2>1 DEF RecentSuspensions
  <2> QED
    BY <1>1, <1>2, <1>8, <2>1, <2>2 DEF Passing
<1>22. CASE AuditorStep
  BY <1>11, <1>12, <1>13, <1>14, <1>15, <1>16, <1>17, <1>18, <1>19, <1>20, <1>21, <1>22
     DEF AuditorStep, EndEnforce, AuditorDies
<1> QED
  BY <1>10, <1>22 DEF Next, AssembleNext, AssembleAnew, Reinstate, vars

\* What is left to suspend is within the rate throughout.
LEMMA RateInvariance == Spec => []RateInv
<1>1. Init => RateInv
  <2> SUFFICES ASSUME Init PROVE RateInv
    OBVIOUS
  <2>1. Noted("suspend") = {} /\ pass = NoPass /\ clock = 0
    BY NothingNoted DEF Init
  <2>2. RecordsLimited
    <3>1. Cardinality({}) = 0 /\ MaxPer \in Nat
      BY Numbers, FS_EmptySet
    <3> SUFFICES ASSUME NEW hour \in Hours
                 PROVE  Cardinality({n \in Noted("suspend") :
                                       book[n].ts <= hour /\ hour < book[n].ts + Window}) <= MaxPer
      BY DEF RecordsLimited, Within
    <3>2. {n \in Noted("suspend") : book[n].ts <= hour /\ hour < book[n].ts + Window} = {}
      BY <2>1
    <3>3. 0 <= MaxPer
      BY <3>1
    <3> QED
      BY <3>1, <3>2, <3>3, Zenon
  <2> QED
    BY <2>1, <2>2, PassLocals DEF RateInv, Passing
<1>2. TypeInv /\ DangerInv /\ RateInv /\ [Next]_vars => RateInv'
  BY RateNext
<1> QED
  BY <1>1, <1>2, TypeInvariance, DangerInvariance, PTL DEF Spec

------------------------------------------------------------------------------
(* The suspensions and their records. *)

\* A suspension and a record of one have a version, an hour and the beginning of a pass.
LEMMA LedgerEntry ==
  ASSUME TypeInv, NEW n \in Suspensions \cup Noted("suspend")
  PROVE  /\ n \in 1 .. Len(book) /\ Len(book) \in Nat
         /\ book[n].version \in Versions /\ book[n].ts \in Nat /\ book[n].began \in Nat
<1>1. /\ n \in 1 .. Len(book) /\ Len(book) \in Nat
      /\ book[n] \in Entry /\ book[n].stage \in {"status", "suspend"}
  BY DEF TypeInv, TypeOK, Noted, Suspensions
<1>2. book[n].version \in Versions /\ book[n].ts \in Hours /\ book[n].began \in Nat
  BY <1>1 DEF Entry
<1> QED
  BY <1>1, <1>2, Numbers

\* A suspension comes new with the breaker's step, and stays.
LEMMA SuspensionStep ==
  ASSUME TypeInv, [Next]_vars
  PROVE  /\ \A n \in Suspensions : n \in Suspensions' /\ book'[n] = book[n]
         /\ \/ Suspensions' = Suspensions
            \/ \E v \in Versions : SetSuspended(v) /\ Suspensions' = Suspensions \cup {Len(book) + 1}
<1>1. /\ \A n \in Noted("status") : n \in Noted("status")' /\ book'[n] = book[n]
      /\ \/ Noted("status")' = Noted("status")
         \/ \E e \in Entry : /\ Note(e) /\ e.stage = "status"
                             /\ Noted("status")' = Noted("status") \cup {Len(book) + 1}
                             /\ book'[Len(book) + 1] = e
  BY NotedStep
<1>2. CASE Noted("status")' = Noted("status")
  BY <1>1, <1>2 DEF Suspensions
<1>3. ASSUME NEW e \in Entry, Note(e), e.stage = "status", book'[Len(book) + 1] = e,
             Noted("status")' = Noted("status") \cup {Len(book) + 1}
      PROVE  \/ Suspensions' = Suspensions
             \/ \E v \in Versions : SetSuspended(v) /\ Suspensions' = Suspensions \cup {Len(book) + 1}
  <2>1. PICK v \in Versions : SetSuspended(v) \/ e.status = "active"
    BY <1>3, Writers
  <2>2. CASE e.status = "active"
    BY <1>1, <1>3, <2>2 DEF Suspensions
  <2>3. CASE SetSuspended(v)
    <3>1. e.status = "suspended"
      BY <1>3, <2>3, SuspensionEntry
    <3> QED
      BY <1>1, <1>3, <2>3, <3>1 DEF Suspensions
  <2> QED
    BY <2>1, <2>2, <2>3
<1> QED
  BY <1>1, <1>2, <1>3 DEF Suspensions

\* So does a record.
LEMMA RecordStep ==
  ASSUME TypeInv, [Next]_vars
  PROVE  /\ \A n \in Noted("suspend") : n \in Noted("suspend")' /\ book'[n] = book[n]
         /\ \/ Noted("suspend")' = Noted("suspend")
            \/ LogSuspend /\ Noted("suspend")' = Noted("suspend") \cup {Len(book) + 1}
BY NotedStep, Writers

\* Every step keeps the suspensions of a pass apart, and gives them their records.
LEMMA LedgerNext == ASSUME TypeInv, DangerInv, LedgerInv, [Next]_vars PROVE LedgerInv'
<1> DEFINE acts == Suspensions \cup Noted("suspend")
<1>1. /\ \A n \in Suspensions : n \in acts
      /\ \A n \in Noted("suspend") : n \in acts
      /\ \A n \in acts : /\ n \in 1 .. Len(book) /\ book[n].began \in Nat /\ book[n].began < n
                         /\ book'[n] = book[n]
      /\ Len(book) \in Nat /\ Len(book') \in Nat /\ Len(book) <= Len(book')
      /\ pass \in Pass /\ pass.began \in Nat /\ pass.began <= Len(book)
  <2>1. \A n \in acts : n \in 1 .. Len(book) /\ book[n].began \in Nat
    BY LedgerEntry
  <2>2. \A n \in acts : book[n].began < n
    BY DEF LedgerInv, Ledger
  <2>3. \A n \in acts : book'[n] = book[n]
    BY SuspensionStep, RecordStep
  <2>4. Len(book) \in Nat /\ Len(book') \in Nat /\ Len(book) <= Len(book')
    BY TypeNext, BookKept DEF TypeInv, TypeOK, BookGrows
  <2>5. pass \in Pass /\ pass.began \in Nat /\ pass.began <= Len(book)
    BY DEF TypeInv, Pass, LedgerInv, PassLedger
  <2> QED
    BY <2>1, <2>2, <2>3, <2>4, <2>5
<1>2. \A n \in Suspensions : Recorded(n) => Recorded(n)'
  BY <1>1, RecordStep DEF Recorded
<1>3. ASSUME NEW v \in Versions, SetSuspended(v), Suspensions' = Suspensions \cup {Len(book) + 1}
      PROVE  LedgerInv'
  <2>0. PICK x : x = Len(book) + 1
    OBVIOUS
  <2>1. /\ book'[x].version = v /\ book'[x].ts = pass.now /\ book'[x].began = pass.began
    BY <1>3, <2>0, SuspensionEntry
  <2>2. /\ pass'.step = "log" /\ pass'.version = v /\ pass'.began = pass.began
        /\ pass'.now = pass.now /\ pass'.victims = pass.victims
        /\ pass.step \in {"suspend", "set"}
    BY <1>1, <1>3 DEF SetSuspended, Pass
  <2>3. v \in pass.victims
    BY <1>3 DEF SetSuspended, DangerInv
  <2>4. Noted("suspend")' = Noted("suspend")
    BY <2>2, RecordStep DEF LogSuspend
  <2>5. x \notin acts /\ pass.began < x
    BY <1>1, <2>0
  <2>6. \A n \in acts : book[n].began = pass.began => book[n].ts = pass.now
    BY <2>2 DEF LedgerInv, PassLedger
  <2>7. \A n \in Suspensions : book[n].began = pass.began =>
          Recorded(n) /\ book[n].version \notin pass.victims
    BY <2>2 DEF LedgerInv, PassLedger, AboutToRecord, Passing
  <2>8. \A n \in Suspensions : book[n].began = pass.began => book[n].version # v
    BY <2>3, <2>7
  <2>9. Suspensions' = Suspensions \cup {x}
    BY <1>3, <2>0
  <2>10. Ledger'
    <3>1. \A n \in Suspensions' \cup Noted("suspend")' : book'[n].began < n
      BY <1>1, <2>1, <2>4, <2>5, <2>9
    <3>2. \A n \in Suspensions' : \A m \in Suspensions' :
            book'[n].version = book'[m].version /\ book'[n].began = book'[m].began => n = m
      <4>1. \A n \in Suspensions : \A m \in Suspensions :
              book'[n].version = book'[m].version /\ book'[n].began = book'[m].began => n = m
        BY <1>1 DEF LedgerInv, Ledger, Same
      <4>2. \A n \in Suspensions :
              ~(book'[n].version = book'[x].version /\ book'[n].began = book'[x].began)
        BY <1>1, <2>1, <2>8
      <4> QED
        BY <2>9, <4>1, <4>2
    <3>3. \A n \in Suspensions' : \A m \in Noted("suspend")' :
            book'[n].version = book'[m].version /\ book'[n].began = book'[m].began =>
              book'[n].ts = book'[m].ts
      <4>1. \A n \in Suspensions : \A m \in Noted("suspend") :
              book'[n].version = book'[m].version /\ book'[n].began = book'[m].began =>
                book'[n].ts = book'[m].ts
        BY <1>1 DEF LedgerInv, Ledger, Same
      <4>2. \A m \in Noted("suspend") : book'[m].began = pass.began => book'[m].ts = pass.now
        BY <1>1, <2>6
      <4> QED
        BY <2>1, <2>4, <2>9, <4>1, <4>2
    <3>4. \A n \in Suspensions' : \A m \in Suspensions' :
            ~Recorded(n)' /\ ~Recorded(m)' /\ book'[n].began = book'[m].began => n = m
      <4>1. \A n \in Suspensions : \A m \in Suspensions :
              ~Recorded(n)' /\ ~Recorded(m)' /\ book'[n].began = book'[m].began => n = m
        BY <1>1, <1>2 DEF LedgerInv, Ledger
      <4>2. \A n \in Suspensions : book'[n].began = book'[x].began => Recorded(n)'
        BY <1>1, <1>2, <2>1, <2>7
      <4> QED
        BY <2>9, <4>1, <4>2
    <3> QED
      BY <3>1, <3>2, <3>3, <3>4 DEF Ledger, Same
  <2>11. PassLedger'
    <3>1. \A n \in Suspensions' \cup Noted("suspend")' : book'[n].began = pass'.began =>
            book'[n].ts = pass'.now
      BY <1>1, <2>1, <2>2, <2>4, <2>6, <2>9
    <3>2. \A n \in Suspensions' : book'[n].began = pass'.began =>
            /\ Recorded(n)' \/ AboutToRecord(n)'
            /\ book'[n].version \in pass'.victims => book'[n].version = pass'.version
      <4>1. AboutToRecord(x)' /\ book'[x].version = pass'.version
        BY <2>1, <2>2 DEF AboutToRecord
      <4> QED
        BY <1>1, <1>2, <2>2, <2>7, <2>9, <4>1
    <3> QED
      BY <1>1, <2>2, <3>1, <3>2 DEF PassLedger
  <2> QED
    BY <2>10, <2>11 DEF LedgerInv
<1>4. CASE LogSuspend /\ Noted("suspend")' = Noted("suspend") \cup {Len(book) + 1}
  <2> DEFINE x == Len(book) + 1
  <2>1. /\ book'[x].version = pass.version /\ book'[x].ts = pass.now
        /\ book'[x].began = pass.began
    BY <1>4, SuspendEntry
  <2>2. /\ pass'.step = "critical" /\ pass'.version = pass.version /\ pass'.began = pass.began
        /\ pass'.now = pass.now /\ pass'.victims = pass.victims /\ pass.step = "log"
    BY <1>1, <1>4 DEF LogSuspend, Step, Pass
  <2>3. Suspensions' = Suspensions
    BY <2>2, SuspensionStep DEF SetSuspended
  <2>4. pass.began < x
    BY <1>1
  <2>5. \A n \in acts : book[n].began = pass.began => book[n].ts = pass.now
    BY <2>2 DEF LedgerInv, PassLedger
  <2> HIDE DEF x
  <2>6. Noted("suspend")' = Noted("suspend") \cup {x}
    BY <1>4 DEF x
  <2>7. \A n \in Suspensions : book[n].began = pass.began =>
          /\ Recorded(n)'
          /\ book[n].version \in pass.victims => book[n].version = pass.version
    <3>1. \A n \in Suspensions : book[n].began = pass.began /\ book[n].version = pass.version =>
            Recorded(n)'
      BY <1>1, <2>1, <2>6 DEF Recorded
    <3> QED
      BY <1>2, <2>2, <3>1 DEF LedgerInv, PassLedger, AboutToRecord, Passing
  <2>8. Ledger'
    <3>1. \A n \in Suspensions' \cup Noted("suspend")' : book'[n].began < n
      BY <1>1, <2>1, <2>3, <2>4, <2>6
    <3>2. \A n \in Suspensions' : \A m \in Suspensions' :
            book'[n].version = book'[m].version /\ book'[n].began = book'[m].began => n = m
      BY <1>1, <2>3 DEF LedgerInv, Ledger, Same
    <3>3. \A n \in Suspensions' : \A m \in Noted("suspend")' :
            book'[n].version = book'[m].version /\ book'[n].began = book'[m].began =>
              book'[n].ts = book'[m].ts
      <4>1. \A n \in Suspensions : \A m \in Noted("suspend") :
              book'[n].version = book'[m].version /\ book'[n].began = book'[m].began =>
                book'[n].ts = book'[m].ts
        BY <1>1 DEF LedgerInv, Ledger, Same
      <4>2. \A n \in Suspensions : book'[n].began = book'[x].began => book'[n].ts = book'[x].ts
        BY <1>1, <2>1, <2>5
      <4> QED
        BY <2>3, <2>6, <4>1, <4>2
    <3>4. \A n \in Suspensions' : \A m \in Suspensions' :
            ~Recorded(n)' /\ ~Recorded(m)' /\ book'[n].began = book'[m].began => n = m
      BY <1>1, <1>2, <2>3 DEF LedgerInv, Ledger
    <3> QED
      BY <3>1, <3>2, <3>3, <3>4 DEF Ledger, Same
  <2>9. PassLedger'
    <3>1. \A n \in Suspensions' \cup Noted("suspend")' : book'[n].began = pass'.began =>
            book'[n].ts = pass'.now
      BY <1>1, <2>1, <2>2, <2>3, <2>5, <2>6
    <3>2. \A n \in Suspensions' : book'[n].began = pass'.began =>
            /\ Recorded(n)'
            /\ book'[n].version \in pass'.victims => book'[n].version = pass'.version
      BY <1>1, <2>2, <2>3, <2>7
    <3> QED
      BY <1>1, <2>2, <3>1, <3>2 DEF PassLedger
  <2> QED
    BY <2>8, <2>9 DEF LedgerInv
<1>5. ASSUME Suspensions' = Suspensions, Noted("suspend")' = Noted("suspend") PROVE LedgerInv'
  <2>1. Ledger'
    <3>1. \A n \in Suspensions' \cup Noted("suspend")' : book'[n].began < n
      BY <1>1, <1>5
    <3>2. \A n \in Suspensions' : \A m \in Suspensions' :
            book'[n].version = book'[m].version /\ book'[n].began = book'[m].began => n = m
      BY <1>1, <1>5 DEF LedgerInv, Ledger, Same
    <3>3. \A n \in Suspensions' : \A m \in Noted("suspend")' :
            book'[n].version = book'[m].version /\ book'[n].began = book'[m].began =>
              book'[n].ts = book'[m].ts
      BY <1>1, <1>5 DEF LedgerInv, Ledger, Same
    <3>4. \A n \in Suspensions' : \A m \in Suspensions' :
            ~Recorded(n)' /\ ~Recorded(m)' /\ book'[n].began = book'[m].began => n = m
      BY <1>1, <1>2, <1>5 DEF LedgerInv, Ledger
    <3> QED
      BY <3>1, <3>2, <3>3, <3>4 DEF Ledger, Same
  <2> SUFFICES PassLedger'
    BY <2>1 DEF LedgerInv
  <2>2. ASSUME pass'.step \in {"off", "rated"}, pass'.began = 0 PROVE PassLedger'
    BY <1>1, <2>2 DEF PassLedger, Passing
  <2>3. CASE ReadTrails
    <3>1. pass'.step = "sweep" /\ pass'.began = Len(book)
      BY <1>1, <2>3 DEF ReadTrails, Pass
    <3>2. \A n \in Suspensions' \cup Noted("suspend")' : book'[n].began # pass'.began
      BY <1>1, <1>5, <3>1
    <3> QED
      BY <1>1, <3>1, <3>2 DEF PassLedger, Passing
  <2>4. ASSUME pass'.began = pass.began, pass'.now = pass.now,
               pass'.step \in {"sweep", "miss"} => pass.step \in {"sweep", "miss"},
               pass'.step \notin {"off", "rated"} => pass.step \notin {"off", "rated"},
               pass'.step \in Passing =>
                 \/ pass.step \in {"sweep", "miss"}
                 \/ /\ pass.step \in Passing
                    /\ pass.step = "log" => pass'.step = "log" /\ pass'.version = pass.version
                    /\ pass'.victims \subseteq pass.victims
                    /\ \/ pass.step \in {"suspend", "set"}
                       \/ pass.version \notin pass'.victims
                       \/ pass'.version = pass.version /\ pass'.step \in {"log", "critical", "sla"}
        PROVE  PassLedger'
    <3>1. \A n \in Suspensions' \cup Noted("suspend")' : book'[n].began = pass'.began =>
            /\ pass'.step \notin {"sweep", "miss"}
            /\ pass'.step \notin {"off", "rated"} => book'[n].ts = pass'.now
      BY <1>1, <1>5, <2>4 DEF LedgerInv, PassLedger
    <3>2. ASSUME NEW n \in Suspensions', book'[n].began = pass'.began, pass'.step \in Passing
          PROVE  /\ Recorded(n)' \/ AboutToRecord(n)'
                 /\ book'[n].version \in pass'.victims =>
                      book'[n].version = pass'.version /\ pass'.step \in {"log", "critical", "sla"}
      <4>1. n \in Suspensions /\ book'[n] = book[n] /\ book[n].began = pass.began
        BY <1>1, <1>5, <2>4, <3>2
      <4>2. pass.step \notin {"sweep", "miss"}
        BY <4>1 DEF LedgerInv, PassLedger
      <4>3. /\ pass.step \in Passing
            /\ pass.step = "log" => pass'.step = "log" /\ pass'.version = pass.version
            /\ pass'.victims \subseteq pass.victims
            /\ \/ pass.step \in {"suspend", "set"}
               \/ pass.version \notin pass'.victims
               \/ pass'.version = pass.version /\ pass'.step \in {"log", "critical", "sla"}
        BY <2>4, <3>2, <4>2
      <4>4. /\ Recorded(n) \/ AboutToRecord(n)
            /\ book[n].version \in pass.victims =>
                 book[n].version = pass.version /\ pass.step \in {"log", "critical", "sla"}
        BY <4>1, <4>3 DEF LedgerInv, PassLedger
      <4>5. AboutToRecord(n) => AboutToRecord(n)'
        BY <2>4, <4>1, <4>3 DEF AboutToRecord
      <4> QED
        BY <1>2, <4>1, <4>3, <4>4, <4>5
    <3>3. pass'.began <= Len(book')
      BY <1>1, <2>4
    <3> QED
      BY <3>1, <3>2, <3>3 DEF PassLedger
  <2>5. CASE UNCHANGED pass
    BY <2>4, <2>5 DEF Passing
  <2>6. CASE pass' = NoPass \/ BeginEnforce
    <3>1. pass'.step \in {"off", "rated"} /\ pass'.began = 0
      BY <2>6, PassLocals DEF BeginEnforce, NoPass
    <3> QED
      BY <2>2, <3>1
  <2>7. CASE LogMissed \/ \E v \in Versions : CheckSla(v)
    <3>1. /\ pass'.began = pass.began /\ pass'.now = pass.now
          /\ pass'.step \in {"sweep", "miss"} /\ pass.step \in {"sweep", "miss"}
      BY <1>1, <2>7 DEF LogMissed, CheckSla, Step, Pass
    <3> QED
      BY <2>4, <3>1 DEF Passing
  <2>8. CASE Choose
    <3>1. /\ pass'.began = pass.began /\ pass'.now = pass.now
          /\ pass'.step = "suspend" /\ pass.step = "sweep"
      BY <1>1, <2>8 DEF Choose, Pass
    <3> QED
      BY <2>4, <3>1
  <2>9. CASE \E v \in Versions : RegisterSeen(v) \/ LogExcess(v)
    <3>1. /\ pass'.began = pass.began /\ pass'.now = pass.now
          /\ pass'.step \in {"suspend", "set"} /\ pass.step = "suspend"
          /\ pass'.victims = pass.victims
      BY <1>1, <2>9 DEF RegisterSeen, LogExcess, Pass
    <3> QED
      BY <2>4, <3>1 DEF Passing
  <2>10. CASE AskCritical \/ OpenSla
    <3>1. /\ pass'.began = pass.began /\ pass'.now = pass.now
          /\ pass.step \in {"critical", "sla"} /\ pass'.version = pass.version
          /\ \/ pass'.step = "suspend" /\ pass'.victims = pass.victims \ {pass.version}
             \/ pass'.step = "sla" /\ pass'.victims = pass.victims
      BY <1>1, <2>10 DEF AskCritical, OpenSla, NextVictim, Step, Pass
    <3> QED
      BY <2>4, <3>1 DEF Passing
  <2>11. LogSuspend \/ (\E v \in Versions : SetSuspended(v)) => FALSE
    <3>1. Len(book) + 1 \notin Suspensions /\ Len(book) + 1 \notin Noted("suspend")
      BY <1>1
    <3> QED
      BY <1>5, <3>1, SuspensionEntry, SuspendEntry
  <2>12. CASE AuditorStep
    BY <2>3, <2>6, <2>7, <2>8, <2>9, <2>10, <2>11, <2>12 DEF AuditorStep, EndEnforce, AuditorDies
  <2> QED
    BY <2>5, <2>12 DEF Next, AssembleNext, AssembleAnew, Reinstate, vars
<1>6. ~(LogSuspend /\ \E v \in Versions : SetSuspended(v))
  BY DEF LogSuspend, SetSuspended
<1> QED
  BY <1>3, <1>4, <1>5, <1>6, SuspensionStep, RecordStep

\* The suspensions of a pass have their records throughout, but for one.
LEMMA LedgerInvariance == Spec => []LedgerInv
<1>1. Init => LedgerInv
  <2> SUFFICES ASSUME Init PROVE LedgerInv
    OBVIOUS
  <2>1. Noted("suspend") = {} /\ Suspensions = {} /\ pass = NoPass
    BY NothingNoted DEF Init, Suspensions
  <2>2. Len(book) \in Nat
    BY AssembledShape DEF Init
  <2> QED
    BY <2>1, <2>2, PassLocals DEF LedgerInv, Ledger, PassLedger, Passing
<1>2. TypeInv /\ DangerInv /\ LedgerInv /\ [Next]_vars => LedgerInv'
  BY LedgerNext
<1> QED
  BY <1>1, <1>2, TypeInvariance, DangerInvariance, PTL DEF Spec

------------------------------------------------------------------------------
(* The rate of suspensions. *)

\* Two sets have no more elements together than one by one.
LEMMA Together ==
  ASSUME NEW S, IsFiniteSet(S), NEW T, IsFiniteSet(T)
  PROVE  /\ IsFiniteSet(S \cup T) /\ Cardinality(S \cup T) \in Nat
         /\ Cardinality(S \cup T) <= Cardinality(S) + Cardinality(T)
<1>1. /\ IsFiniteSet(S \cup T)
      /\ Cardinality(S \cup T) = Cardinality(S) + Cardinality(T) - Cardinality(S \cap T)
  BY FS_Union
<1>2. IsFiniteSet(S \cap T)
  BY FS_Intersection
<1>3. /\ Cardinality(S) \in Nat /\ Cardinality(T) \in Nat /\ Cardinality(S \cap T) \in Nat
      /\ Cardinality(S \cup T) \in Nat
  BY <1>1, <1>2, FS_CardinalityType
<1> QED
  BY <1>1, <1>3

\* The suspensions of an hour that have no record are as many as the passes that made them.
LEMMA OneByPass ==
  ASSUME TypeInv, LedgerInv, NEW hour
  PROVE  Cardinality({book[n].began : n \in Within(Unrecorded, hour)})
           = Cardinality(Within(Unrecorded, hour))
<1> DEFINE bare == Within(Unrecorded, hour)
           passes == {book[n].began : n \in bare}
           passOf == [n \in bare |-> book[n].began]
<1>1. IsFiniteSet(bare)
  <2>1. bare \in SUBSET DOMAIN book /\ book \in Seq(Entry)
    BY DEF TypeInv, TypeOK, Within, Unrecorded, Suspensions, Noted
  <2> HIDE DEF bare
  <2> QED
    BY <2>1, PlacesFinite
<1>2. \A n \in bare : \A m \in bare : book[n].began = book[m].began => n = m
  BY DEF LedgerInv, Ledger, Within, Unrecorded
<1> HIDE DEF bare
<1>3. passOf \in Bijection(bare, passes)
  BY <1>2 DEF Bijection, Injection, Surjection, IsInjective
<1>4. ExistsBijection(bare, passes)
  BY <1>3 DEF ExistsBijection
<1> HIDE DEF passes
<1>5. Cardinality(passes) = Cardinality(bare)
  BY <1>1, <1>4, FS_Bijection
<1> QED
  BY <1>5 DEF bare, passes

\* The suspensions that have their records are no more than the records.
LEMMA OneByRecord ==
  ASSUME TypeInv, LedgerInv, NEW hour
  PROVE  Cardinality({n \in Within(Suspensions, hour) : Recorded(n)})
           <= Cardinality(Within(Noted("suspend"), hour))
<1> DEFINE kept == {n \in Within(Suspensions, hour) : Recorded(n)}
           records == Within(Noted("suspend"), hour)
           recordOf == [n \in kept |-> CHOOSE m \in Noted("suspend") : Same(n, m)]
<1>1. IsFiniteSet(records)
  <2>1. records \in SUBSET DOMAIN book /\ book \in Seq(Entry)
    BY DEF TypeInv, TypeOK, Within, Noted
  <2> HIDE DEF records
  <2> QED
    BY <2>1, PlacesFinite
<1>2. ASSUME NEW n \in kept
      PROVE  recordOf[n] \in records /\ Same(n, recordOf[n])
  <2>1. n \in Suspensions /\ book[n].ts <= hour /\ hour < book[n].ts + Window
    BY DEF Within
  <2>2. \E m \in Noted("suspend") : Same(n, m)
    BY DEF Recorded, Same
  <2>3. recordOf[n] \in Noted("suspend") /\ Same(n, recordOf[n])
    BY <2>2
  <2>4. book[recordOf[n]].ts = book[n].ts
    BY <2>1, <2>3 DEF LedgerInv, Ledger
  <2> HIDE DEF recordOf
  <2> QED
    BY <2>1, <2>3, <2>4 DEF Within
<1>3. \A n \in kept : n \in Suspensions
  BY DEF Within
<1>4. recordOf \in [kept -> records]
  <2>1. \A n \in kept : recordOf[n] \in records
    BY <1>2
  <2>2. recordOf = [n \in kept |-> recordOf[n]]
    OBVIOUS
  <2> HIDE DEF recordOf, kept, records
  <2> QED
    BY <2>1, <2>2
<1> HIDE DEF recordOf, kept, records
<1>5. \A n \in kept : \A m \in kept : recordOf[n] = recordOf[m] => n = m
  <2> SUFFICES ASSUME NEW n \in kept, NEW m \in kept, recordOf[n] = recordOf[m] PROVE n = m
    OBVIOUS
  <2>1. Same(n, m)
    BY <1>2 DEF Same
  <2> QED
    BY <1>3, <2>1 DEF LedgerInv, Ledger
<1>6. recordOf \in Injection(kept, records)
  BY <1>4, <1>5 DEF Injection, IsInjective
<1>7. Cardinality(kept) <= Cardinality(records)
  BY <1>1, <1>6, FS_Injection
<1> QED
  BY <1>7 DEF kept, records

\* A suspension that the pass under way is about to record still fits into its stretch.
LEMMA RoomForRecord ==
  ASSUME TypeInv, DangerInv, RateInv, LedgerInv, NEW hour \in Hours,
         NEW n \in Within(Suspensions, hour), AboutToRecord(n)
  PROVE  Cardinality(Within(Noted("suspend"), hour)) + 1 <= MaxPer
<1> DEFINE records == Within(Noted("suspend"), hour)
           recent == {m \in Noted("suspend") : book[m].ts + Window > pass.now}
<1>1. pass.step = "log" /\ pass.now \in Hours /\ hour \in Nat /\ pass.now \in Nat /\ Window \in Nat
      /\ MaxPer \in Nat /\ pass.victims \subseteq Versions
  BY Numbers DEF AboutToRecord, TypeInv, Pass
<1>2. pass.now <= hour
  BY <1>1 DEF Within, AboutToRecord, LedgerInv, PassLedger
<1>3. records \subseteq recent
  <2> SUFFICES ASSUME NEW m \in records PROVE book[m].ts + Window > pass.now
    BY DEF Within
  <2>1. book[m].ts \in Nat /\ hour < book[m].ts + Window
    BY SuspendHour DEF Within
  <2> HIDE DEF records, recent
  <2> QED
    BY <1>1, <1>2, <2>1
<1>4. recent \in SUBSET DOMAIN book /\ RecentSuspensions(pass.now) = Cardinality(recent)
  <2>1. recent = {m \in DOMAIN book : book[m].stage = "suspend" /\ book[m].ts + Window > pass.now}
    BY DEF Noted
  <2> QED
    BY <2>1 DEF RecentSuspensions
<1>5. /\ Pending = pass.victims /\ pass.version \in pass.victims
      /\ RecentSuspensions(pass.now) + Cardinality(Pending) <= MaxPer
  <2>1. Pending = pass.victims /\ pass.version \in pass.victims
    BY <1>1 DEF Pending, DangerInv
  <2> QED
    BY <1>1, <2>1 DEF RateInv, Passing
<1>6. Cardinality(Pending) \in Nat /\ Cardinality(Pending) >= 1
  BY <1>1, <1>5, Finite
<1> HIDE DEF records, recent
<1>7. IsFiniteSet(recent) /\ Cardinality(recent) \in Nat
  BY <1>4, PlacesFinite DEF TypeInv, TypeOK
<1>8. Cardinality(records) \in Nat /\ Cardinality(records) <= Cardinality(recent)
  BY <1>3, <1>7, FS_Subset, FS_CardinalityType
<1>9. Cardinality(records) + 1 <= MaxPer
  BY <1>1, <1>4, <1>5, <1>6, <1>7, <1>8
<1> QED
  BY <1>9 DEF records

\* The limit follows: a suspension has its record, gets it next, or is the one of a pass that died.
LEMMA RateHolds == ASSUME TypeInv, DangerInv, RateInv, LedgerInv PROVE RateLimited
<1> SUFFICES ASSUME NEW hour \in Hours
             PROVE  Cardinality(Within(Suspensions, hour))
                      <= MaxPer + Cardinality({book[n].began : n \in Within(Unrecorded, hour)})
  BY DEF RateLimited
<1> DEFINE all == Within(Suspensions, hour)
           kept == {n \in all : Recorded(n)}
           coming == {n \in all : AboutToRecord(n)}
           bare == Within(Unrecorded, hour)
           records == Within(Noted("suspend"), hour)
<1>1. all = kept \cup coming \cup bare
  BY DEF Within, Unrecorded
<1>2. /\ all \in SUBSET DOMAIN book /\ kept \in SUBSET DOMAIN book
      /\ coming \in SUBSET DOMAIN book /\ bare \in SUBSET DOMAIN book
      /\ records \in SUBSET DOMAIN book
  BY DEF Within, Unrecorded, Suspensions, Noted
<1>3. Cardinality(kept) <= Cardinality(records)
  BY OneByRecord
<1>4. Cardinality({book[n].began : n \in bare}) = Cardinality(bare)
  BY OneByPass
<1>5. Cardinality(records) <= MaxPer
  BY DEF RateInv, RecordsLimited
<1>6. ASSUME coming # {}
      PROVE  Cardinality(records) + 1 <= MaxPer /\ Cardinality(coming) = 1
  <2>1. PICK n \in coming : TRUE
    BY <1>6
  <2>2. Cardinality(records) + 1 <= MaxPer
    BY <2>1, RoomForRecord
  <2>3. \A m \in coming : Same(n, m) /\ m \in Suspensions /\ n \in Suspensions
    BY <2>1 DEF AboutToRecord, Same, Within
  <2>4. \A m \in coming : m = n
    BY <2>3 DEF LedgerInv, Ledger
  <2>5. coming = {n}
    BY <2>1, <2>4
  <2> HIDE DEF coming, records
  <2> QED
    BY <2>2, <2>5, FS_Singleton
<1> HIDE DEF all, kept, coming, bare, records
<1>7. /\ IsFiniteSet(kept) /\ IsFiniteSet(coming) /\ IsFiniteSet(bare)
      /\ Cardinality(kept) \in Nat /\ Cardinality(coming) \in Nat /\ Cardinality(bare) \in Nat
      /\ Cardinality(records) \in Nat /\ Cardinality(all) \in Nat /\ MaxPer \in Nat
  BY <1>2, PlacesFinite, Numbers DEF TypeInv, TypeOK
<1>8. /\ IsFiniteSet(kept \cup coming) /\ Cardinality(kept \cup coming) \in Nat
      /\ Cardinality(kept \cup coming) <= Cardinality(kept) + Cardinality(coming)
  BY <1>7, Together
<1>9. Cardinality(all) <= Cardinality(kept \cup coming) + Cardinality(bare)
  BY <1>1, <1>7, <1>8, Together
<1>10. coming = {} => Cardinality(coming) = 0
  BY FS_EmptySet
<1>11. Cardinality(kept) + Cardinality(coming) <= MaxPer
  BY <1>3, <1>5, <1>6, <1>7, <1>10
<1>12. Cardinality(all) <= MaxPer + Cardinality(bare)
  BY <1>7, <1>8, <1>9, <1>11
<1> QED
  BY <1>4, <1>12 DEF all, bare

\* A stretch of Window hours has at most MaxPer suspensions, and one more for each pass that died
\* between a suspension and its record.
THEOREM RateIsLimited == Spec => []RateLimited
<1>1. TypeInv /\ DangerInv /\ RateInv /\ LedgerInv => RateLimited
  BY RateHolds
<1> QED
  BY <1>1, TypeInvariance, DangerInvariance, RateInvariance, LedgerInvariance, PTL

------------------------------------------------------------------------------
(* Break-glass. *)

\* An SLA that was past its deadline at a place of the book, and a suspension in a stretch of
\* it, stay so.
LEMMA PastKept ==
  ASSUME TypeInv, [Next]_vars, NEW v, NEW b \in 0 .. Len(book), NEW now, NEW to \in 0 .. Len(book)
  PROVE  /\ OverdueAt(v, b, now) => OverdueAt(v, b, now)'
         /\ SuspendedIn(v, b, to) => SuspendedIn(v, b, to)'
<1>1. book \in Seq(Entry) /\ Len(book) \in Nat
  BY DEF TypeInv, TypeOK
<1>2. ASSUME OverdueAt(v, b, now) PROVE OverdueAt(v, b, now)'
  <2>1. SlaEvents(v, b)' = SlaEvents(v, b)
    BY <1>1, BookKept, PlaceKept
  <2>2. \A m \in SlaEvents(v, b) : book'[m] = book[m]
    BY <1>1, BookKept DEF SlaEvents, BookGrows
  <2> QED
    BY <1>2, <2>1, <2>2 DEF OverdueAt
<1>3. ASSUME SuspendedIn(v, b, to) PROVE SuspendedIn(v, b, to)'
  <2>1. PICK m \in b .. to : StatusAt(m, v) = "suspended"
    BY <1>3 DEF SuspendedIn
  <2>2. m \in 0 .. Len(book)
    BY <1>1
  <2>3. StatusAt(m, v)' = StatusAt(m, v)
    BY <1>1, <2>2, BookKept, PlaceKept
  <2> QED
    BY <2>1, <2>3 DEF SuspendedIn
<1> QED
  BY <1>2, <1>3

\* The sweep finds what is past its deadline.
LEMMA OverdueFound ==
  ASSUME TypeInv, NEW now, NEW v \in Overdue(now) PROVE OverdueAt(v, Len(book), now)
<1>1. Len(book) \in Nat
  BY DEF TypeInv, TypeOK
<1> DEFINE events == SlaEvents(v, Len(book))
           last == Max({0} \cup events)
<1>2. last # 0 /\ book[last].stage = "sla_open" /\ book[last].deadline < now
  BY DEF Overdue
<1>3. events \in SUBSET (1 .. Len(book))
  BY DEF SlaEvents
<1>4. last \in {0} \cup events /\ \A k \in events : last >= k
  <2> HIDE DEF events
  <2> QED
    BY <1>1, <1>3, GreatestOrNone
<1>5. last \in events
  BY <1>2, <1>4
<1>6. \A k \in events : k <= last
  BY <1>1, <1>3, <1>4, <1>5
<1> HIDE DEF last
<1> QED
  BY <1>2, <1>5, <1>6 DEF OverdueAt

\* What the breaker appends when an SLA was missed.
LEMMA MissedEntry ==
  ASSUME TypeInv, LogMissed
  PROVE  book'[Len(book) + 1] =
           [stage |-> "sla_missed", version |-> pass.version, ts |-> pass.now, began |-> pass.began]
<1>1. /\ pass.now \in Hours /\ pass.began \in Nat /\ pass.version \in Versions
      /\ book \in Seq(Entry)
  BY DEF TypeInv, TypeOK, Pass
<1>2. [stage |-> "sla_missed", version |-> pass.version, ts |-> pass.now,
       began |-> pass.began] \in Entry
  BY <1>1 DEF Entry
<1> QED
  BY <1>1, <1>2, NoteShape DEF LogMissed, Log

\* Every step keeps what the pass knows of the SLAs, and what was recorded of them.
LEMMA SlaNext == ASSUME TypeInv, SlaInv, [Next]_vars PROVE SlaInv'
<1>1. /\ pass.began <= Len(book)
      /\ \A v \in Versions, b \in Nat, now \in Hours : b = pass.began /\ now = pass.now =>
           /\ v \in pass.due => OverdueAt(v, b, now)
           /\ pass.step = "miss" /\ v = pass.version =>
                OverdueAt(v, b, now) /\ \E to \in 0 .. Len(book) : SuspendedIn(v, b, to)
      /\ \A n \in Noted("sla_missed"), v \in Versions, b \in Nat :
           book[n].version = v /\ book[n].began = b =>
             /\ b < n
             /\ OverdueAt(v, b, book[n].ts)
             /\ SuspendedIn(v, b, n)
      /\ pass \in Pass /\ book \in Seq(Entry)
  BY DEF TypeInv, TypeOK, SlaInv
<1>2. /\ pass.began \in Nat /\ pass.now \in Hours /\ pass.version \in Versions /\ clock \in Hours
      /\ pass.due \subseteq Versions /\ pass.began \in 0 .. Len(book)
      /\ Len(book) \in Nat /\ Len(book') \in Nat /\ Len(book) <= Len(book')
  <2>1. /\ pass.began \in Nat /\ pass.now \in Hours /\ pass.version \in Versions /\ clock \in Hours
        /\ pass.due \subseteq Versions
    BY DEF TypeInv, TypeOK, Pass
  <2>2. Len(book) \in Nat /\ Len(book') \in Nat /\ Len(book) <= Len(book')
    BY TypeNext, BookKept DEF TypeInv, TypeOK, BookGrows
  <2> QED
    BY <1>1, <2>1, <2>2
<1>3. ASSUME NEW n \in Noted("sla_missed")', NEW v \in Versions, NEW b \in Nat, NEW ts,
             book'[n].version = v, book'[n].began = b, ts = book'[n].ts
      PROVE  b < n /\ OverdueAt(v, b, ts)' /\ SuspendedIn(v, b, n)'
  <2>1. CASE n \in Noted("sla_missed")
    <3>1. book'[n] = book[n] /\ n \in 1 .. Len(book)
      BY <2>1, NotedStep
    <3>2. b < n /\ OverdueAt(v, b, ts) /\ SuspendedIn(v, b, n)
      BY <1>1, <1>3, <2>1, <3>1
    <3>3. b \in 0 .. Len(book) /\ n \in 0 .. Len(book)
      BY <1>2, <3>1, <3>2
    <3> QED
      BY <3>2, <3>3, PastKept
  <2>2. ASSUME LogMissed, n = Len(book) + 1
        PROVE  b < n /\ OverdueAt(v, b, ts)' /\ SuspendedIn(v, b, n)'
    <3>1. v = pass.version /\ b = pass.began /\ ts = pass.now /\ pass.step = "miss"
      BY <1>3, <2>2, MissedEntry DEF LogMissed
    <3>2. /\ OverdueAt(v, b, ts)
          /\ \E to \in 0 .. Len(book) : SuspendedIn(v, b, to)
      BY <1>1, <1>2, <3>1
    <3>3. b \in 0 .. Len(book) /\ b < n
      BY <1>2, <2>2, <3>1
    <3>4. PICK to \in 0 .. Len(book) : SuspendedIn(v, b, to)
      BY <3>2
    <3>5. OverdueAt(v, b, ts)' /\ SuspendedIn(v, b, to)'
      BY <3>2, <3>3, <3>4, PastKept
    <3>6. \A m \in b .. to : m \in b .. n
      BY <1>2, <2>2, <3>3
    <3> QED
      BY <3>3, <3>5, <3>6 DEF SuspendedIn
  <2> QED
    BY <2>1, <2>2, NotedStep, Writers
<1>4. ASSUME pass'.began \in 0 .. Len(book),
             \A v \in Versions, b \in Nat, now \in Hours : b = pass'.began /\ now = pass'.now =>
               /\ v \in pass'.due => OverdueAt(v, b, now)
               /\ pass'.step = "miss" /\ v = pass'.version =>
                    OverdueAt(v, b, now) /\ \E to \in 0 .. Len(book) : SuspendedIn(v, b, to)
      PROVE  SlaInv'
  <2>1. \A v \in Versions, b \in Nat, now \in Hours : b = pass'.began /\ now = pass'.now =>
          /\ v \in pass'.due => OverdueAt(v, b, now)'
          /\ pass'.step = "miss" /\ v = pass'.version =>
               OverdueAt(v, b, now)' /\ \E to \in 0 .. Len(book) : SuspendedIn(v, b, to)'
    BY <1>4, PastKept
  <2>2. pass'.began <= Len(book') /\ \A to \in 0 .. Len(book) : to \in 0 .. Len(book')
    BY <1>2, <1>4
  <2>3. \A n \in Noted("sla_missed")', v \in Versions, b \in Nat :
          book'[n].version = v /\ book'[n].began = b =>
            /\ b < n
            /\ OverdueAt(v, b, book[n].ts)'
            /\ SuspendedIn(v, b, n)'
    BY <1>3 DEF OverdueAt
  <2> QED
    BY <2>1, <2>2, <2>3 DEF SlaInv
<1>5. ASSUME pass'.began = pass.began, pass'.now = pass.now, pass'.due \subseteq pass.due,
             pass'.step # "miss" \/ (pass.step = "miss" /\ pass'.version = pass.version)
      PROVE  SlaInv'
  BY <1>1, <1>2, <1>4, <1>5
<1>6. ASSUME UNCHANGED pass PROVE SlaInv'
  BY <1>5, <1>6
<1>7. ASSUME pass' = NoPass PROVE SlaInv'
  BY <1>2, <1>4, <1>7, PassLocals
<1>8. CASE BeginEnforce
  <2>1. pass'.began = 0 /\ pass'.due = {} /\ pass'.step = "rated"
    BY <1>8 DEF BeginEnforce, NoPass
  <2> QED
    BY <1>2, <1>4, <2>1
<1>9. ASSUME NEW v \in Versions, CheckSla(v) PROVE SlaInv'
  <2>1. /\ pass'.began = pass.began /\ pass'.now = pass.now /\ pass'.due \subseteq pass.due
        /\ pass'.version = v /\ v \in pass.due
        /\ pass'.step = "miss" => status_of(v) = "suspended"
    BY <1>1, <1>9 DEF CheckSla, Pass
  <2>2. ASSUME status_of(v) = "suspended", NEW b \in Nat, b = pass.began
        PROVE  \E to \in 0 .. Len(book) : SuspendedIn(v, b, to)
    <3>1. Len(book) \in b .. Len(book)
      BY <1>2, <2>2
    <3>2. SuspendedIn(v, b, Len(book))
      BY <2>2, <3>1 DEF SuspendedIn, status_of
    <3> QED
      BY <1>2, <3>2
  <2> QED
    BY <1>1, <1>2, <1>4, <2>1, <2>2
<1>10. CASE LogMissed \/ Choose \/ LogSuspend \/ AskCritical \/ OpenSla
  <2>1. /\ pass'.began = pass.began /\ pass'.now = pass.now /\ pass'.due = pass.due
        /\ pass'.step # "miss"
    BY <1>1, <1>10 DEF LogMissed, Choose, LogSuspend, AskCritical, OpenSla, NextVictim, Step, Pass
  <2> QED
    BY <1>5, <2>1
<1>11. ASSUME NEW v \in Versions, RegisterSeen(v) \/ SetSuspended(v) \/ LogExcess(v) PROVE SlaInv'
  <2>1. /\ pass'.began = pass.began /\ pass'.now = pass.now /\ pass'.due = pass.due
        /\ pass'.step # "miss"
    BY <1>1, <1>11 DEF RegisterSeen, SetSuspended, LogExcess, Pass
  <2> QED
    BY <1>5, <2>1
<1>12. CASE ReadTrails
  <2>1. /\ pass'.began = Len(book) /\ pass'.now = pass.now /\ pass'.due = Overdue(pass.now)
        /\ pass'.step = "sweep"
    BY <1>1, <1>12 DEF ReadTrails, Pass
  <2>2. \A b, now : \A v \in Overdue(pass.now) :
          b = Len(book) /\ now = pass.now => OverdueAt(v, b, now)
    BY OverdueFound
  <2> QED
    BY <1>2, <1>4, <2>1, <2>2
<1>13. CASE AuditorStep
  BY <1>7, <1>8, <1>9, <1>10, <1>11, <1>12, <1>13 DEF AuditorStep, EndEnforce, AuditorDies
<1> QED
  BY <1>6, <1>13 DEF Next, AssembleNext, AssembleAnew, Reinstate, vars

\* What the pass knows of the SLAs is so throughout.
LEMMA SlaInvariance == Spec => []SlaInv
<1>1. Init => SlaInv
  <2>1. Init => Len(book) \in Nat
    BY AssembledShape DEF Init
  <2> QED
    BY <2>1, NothingNoted, PassLocals DEF Init, SlaInv
<1>2. TypeInv /\ SlaInv /\ [Next]_vars => SlaInv'
  BY SlaNext
<1> QED
  BY <1>1, <1>2, TypeInvariance, PTL DEF Spec

\* Break-glass is for a suspension that is stuck: the SLA was open and past its deadline when
\* the pass read the trails, and the version was suspended at some moment of the pass.
THEOREM BreakglassIsJustified == Spec => []BreakglassJustified
<1>1. TypeInv /\ SlaInv => BreakglassJustified
  <2> SUFFICES ASSUME TypeInv, SlaInv, NEW n \in Noted("sla_missed"),
                      NEW v, v = book[n].version, NEW b, b = book[n].began
               PROVE  LET opened == Max({0} \cup {m \in Noted("sla_open") :
                                                    m <= b /\ book[m].version = v})
                      IN  /\ opened # 0 /\ book[opened].deadline < book[n].ts
                          /\ \A m \in SlaEvents(v, b) : m <= opened
                          /\ \E m \in b .. n : StatusAt(m, v) = "suspended"
    BY DEF BreakglassJustified
  <2>1. /\ book \in Seq(Entry) /\ DOMAIN book = 1 .. Len(book) /\ Len(book) \in Nat
        /\ n \in 1 .. Len(book)
    BY DEF TypeInv, TypeOK, Noted
  <2>2. v \in Versions /\ b \in Nat
    <3>1. book[n] \in Entry /\ book[n].stage = "sla_missed"
      BY <2>1 DEF Noted
    <3> QED
      BY <3>1 DEF Entry
  <2>3. b < n /\ OverdueAt(v, b, book[n].ts) /\ SuspendedIn(v, b, n)
    BY <2>2 DEF SlaInv
  <2> DEFINE opens == {m \in Noted("sla_open") : m <= b /\ book[m].version = v}
             opened == Max({0} \cup opens)
  <2>4. PICK last \in SlaEvents(v, b) :
          /\ book[last].stage = "sla_open" /\ book[last].deadline < book[n].ts
          /\ \A k \in SlaEvents(v, b) : k <= last
    BY <2>3 DEF OverdueAt
  <2>5. last \in 1 .. b /\ last \in opens
    BY <2>1, <2>2, <2>3, <2>4 DEF SlaEvents, Noted
  <2>6. \A k \in opens : k \in SlaEvents(v, b)
    BY <2>1, <2>2 DEF SlaEvents, Noted
  <2>7. opened = last
    <3>1. {0} \cup opens \in SUBSET Nat
      BY <2>1 DEF Noted
    <3>2. last \in {0} \cup opens /\ \A k \in {0} \cup opens : k <= last
      BY <2>4, <2>5, <2>6
    <3> HIDE DEF opens
    <3> QED
      BY <3>1, <3>2, GreatestIs
  <2>8. last # 0
    BY <2>2, <2>5
  <2>9. \E m \in b .. n : StatusAt(m, v) = "suspended"
    BY <2>3 DEF SuspendedIn
  <2> HIDE DEF opened
  <2> QED
    BY <2>4, <2>7, <2>8, <2>9 DEF opened
<1> QED
  BY <1>1, TypeInvariance, SlaInvariance, PTL

------------------------------------------------------------------------------
(* Answers. *)

\* An answer stays one.
LEMMA AnswerKept ==
  ASSUME TypeInv, [Next]_vars, NEW v, NEW b \in Nat, Answered(v, b) PROVE Answered(v, b)'
<1>1. book \in Seq(Entry) /\ Len(book) \in Nat /\ Len(book') \in Nat /\ Len(book) <= Len(book')
  BY TypeNext, BookKept DEF TypeInv, TypeOK, BookGrows
<1>2. CASE SuspendedIn(v, b, Len(book))
  <2>1. PICK m \in b .. Len(book) : StatusAt(m, v) = "suspended"
    BY <1>2 DEF SuspendedIn
  <2>2. m \in 0 .. Len(book) /\ m \in b .. Len(book')
    BY <1>1
  <2>3. StatusAt(m, v)' = StatusAt(m, v)
    BY <1>1, <2>2, BookKept, PlaceKept
  <2> QED
    BY <2>1, <2>2, <2>3 DEF Answered, SuspendedIn
<1>3. CASE \E n \in Noted("escalate_unsuspended") : n > b /\ book[n].version = v
  BY <1>3, NotedStep DEF Answered
<1> QED
  BY <1>2, <1>3 DEF Answered

\* Every step keeps the answers.
LEMMA AnswerNext ==
  ASSUME TypeInv, DangerInv, RegisteredInv, SlaInv, AnswerInv, [Next]_vars PROVE AnswerInv'
<1>1. /\ \A v \in Versions, b \in Nat : b = pass.began =>
           /\ pass.step \in Passing /\ v \in pass.dangerous =>
                v \in pass.victims \cup pass.excess \/ Answered(v, b)
           /\ pass.step \in {"log", "critical", "sla"} /\ v = pass.version => Answered(v, b)
      /\ pass \in Pass /\ book \in Seq(Entry) /\ pass.began <= Len(book)
  BY DEF TypeInv, TypeOK, SlaInv, AnswerInv
<1>2. /\ pass.began \in Nat /\ pass.version \in Versions /\ Len(book) \in Nat
      /\ pass.dangerous \subseteq Versions
  BY <1>1 DEF Pass
<1>3. \A v, b : b \in Nat /\ Answered(v, b) => Answered(v, b)'
  BY AnswerKept
<1>4. ASSUME pass'.began = pass.began,
             \A v \in Versions, b \in Nat : b = pass.began =>
               /\ pass'.step \in Passing /\ v \in pass'.dangerous =>
                    v \in pass'.victims \cup pass'.excess \/ Answered(v, b) \/ Answered(v, b)'
               /\ pass'.step \in {"log", "critical", "sla"} /\ v = pass'.version =>
                    Answered(v, b) \/ Answered(v, b)'
      PROVE  AnswerInv'
  BY <1>3, <1>4 DEF AnswerInv
<1>5. ASSUME UNCHANGED pass PROVE AnswerInv'
  BY <1>1, <1>4, <1>5
<1>6. ASSUME pass'.step \notin Passing PROVE AnswerInv'
  BY <1>6 DEF AnswerInv, Passing
<1>7. ASSUME pass' = NoPass PROVE AnswerInv'
  BY <1>6, <1>7, PassLocals DEF Passing
<1>8. CASE BeginEnforce \/ ReadTrails \/ LogMissed \/ \E v \in Versions : CheckSla(v)
  <2>1. pass'.step \in {"rated", "sweep", "miss"}
    BY <1>1, <1>8 DEF BeginEnforce, ReadTrails, LogMissed, CheckSla, Step, Pass, NoPass
  <2> QED
    BY <1>6, <2>1 DEF Passing
<1>9. CASE Choose
  <2> DEFINE active == {v \in pass.dangerous : status_of(v) = "active"}
  <2>1. PICK victims \in SUBSET active :
          pass' = [pass EXCEPT !.step = "suspend", !.victims = victims,
                               !.excess = Excess(active, victims),
                               !.unregistered = Versions \ Registered(Len(book))]
    BY <1>9 DEF Choose
  <2>2. \A v \in pass.dangerous : v \in active \/ status_of(v) = "suspended"
    BY <1>2, StatusHolds DEF StatusFact, Statuses, status_of
  <2>3. ASSUME NEW v, status_of(v) = "suspended", NEW b \in Nat, b = pass.began
        PROVE  Answered(v, b)
    <3>1. Len(book) \in b .. Len(book)
      BY <1>1, <1>2, <2>3
    <3> QED
      BY <2>3, <3>1 DEF Answered, SuspendedIn, status_of
  <2> HIDE DEF active
  <2>4. /\ pass'.step = "suspend" /\ pass'.began = pass.began /\ pass'.dangerous = pass.dangerous
        /\ pass'.victims = victims /\ pass'.excess = active \ victims
    BY <1>1, <2>1 DEF Pass, Excess
  <2> QED
    BY <1>4, <2>2, <2>3, <2>4
<1>10. ASSUME NEW v \in Versions, RegisterSeen(v) PROVE AnswerInv'
  <2>1. /\ pass'.step = "set" /\ pass'.began = pass.began /\ pass'.dangerous = pass.dangerous
        /\ pass'.victims = pass.victims /\ pass'.excess = pass.excess /\ pass.step = "suspend"
    BY <1>1, <1>10 DEF RegisterSeen, Pass
  <2> QED
    BY <1>1, <1>4, <2>1 DEF Passing
<1>11. ASSUME NEW v \in Versions, SetSuspended(v) PROVE AnswerInv'
  <2>1. /\ pass'.step = "log" /\ pass'.began = pass.began /\ pass'.dangerous = pass.dangerous
        /\ pass'.victims = pass.victims /\ pass'.excess = pass.excess /\ pass'.version = v
        /\ pass.step \in {"suspend", "set"}
    BY <1>1, <1>11 DEF SetSuspended, Pass
  <2>2. ASSUME NEW b \in Nat, b = pass.began PROVE Answered(v, b)'
    <3>1. PICK n : n = Len(book) + 1
      OBVIOUS
    <3>2. n = Len(book') /\ StatusAt(n, v)' = "suspended"
      BY <1>11, <3>1, SuspendedNow
    <3>3. n \in b .. Len(book')
      BY <1>1, <1>2, <2>2, <3>1, <3>2
    <3> QED
      BY <3>2, <3>3 DEF Answered, SuspendedIn
  <2> QED
    BY <1>1, <1>4, <2>1, <2>2 DEF Passing
<1>12. CASE LogSuspend
  <2>1. /\ pass'.step = "critical" /\ pass'.began = pass.began /\ pass'.dangerous = pass.dangerous
        /\ pass'.victims = pass.victims /\ pass'.excess = pass.excess
        /\ pass'.version = pass.version /\ pass.step = "log"
    BY <1>1, <1>12 DEF LogSuspend, Step, Pass
  <2> QED
    BY <1>1, <1>4, <2>1 DEF Passing
<1>13. CASE AskCritical \/ OpenSla
  <2>1. /\ pass'.step \in {"suspend", "sla"} /\ pass.step \in {"critical", "sla"}
        /\ pass'.began = pass.began /\ pass'.dangerous = pass.dangerous
        /\ pass'.excess = pass.excess /\ pass'.version = pass.version
        /\ pass'.victims \in {pass.victims, pass.victims \ {pass.version}}
    BY <1>1, <1>13 DEF AskCritical, OpenSla, NextVictim, Step, Pass
  <2> QED
    BY <1>1, <1>2, <1>4, <2>1 DEF Passing
<1>14. ASSUME NEW v \in Versions, LogExcess(v) PROVE AnswerInv'
  <2>1. /\ pass'.step = "suspend" /\ pass'.began = pass.began /\ pass'.dangerous = pass.dangerous
        /\ pass'.victims = pass.victims /\ pass'.excess = pass.excess \ {v}
        /\ pass.step = "suspend"
    BY <1>1, <1>14 DEF LogExcess, Pass
  <2>2. ASSUME NEW b \in Nat, b = pass.began PROVE Answered(v, b)'
    <3>1. [stage |-> "escalate_unsuspended", version |-> v, ts |-> pass.now,
           began |-> pass.began] \in Entry
      BY <1>1 DEF Entry, Pass
    <3>2. /\ book' \in Seq(Entry) /\ Len(book) + 1 \in DOMAIN book'
          /\ book'[Len(book) + 1] = [stage |-> "escalate_unsuspended", version |-> v,
                                     ts |-> pass.now, began |-> pass.began]
      BY <1>1, <1>2, <1>14, <3>1, NoteShape DEF LogExcess, Log
    <3>3. /\ Len(book) + 1 \in Noted("escalate_unsuspended")' /\ Len(book) + 1 > b
          /\ book'[Len(book) + 1].version = v
      BY <1>1, <1>2, <2>2, <3>2 DEF Noted
    <3> QED
      BY <3>3 DEF Answered
  <2> QED
    BY <1>1, <1>4, <2>1, <2>2 DEF Passing
<1>15. CASE AuditorStep
  BY <1>7, <1>8, <1>9, <1>10, <1>11, <1>12, <1>13, <1>14, <1>15
     DEF AuditorStep, EndEnforce, AuditorDies
<1> QED
  BY <1>5, <1>15 DEF Next, AssembleNext, AssembleAnew, Reinstate, vars

\* What the pass found and chose is answered, or is still to be answered, throughout.
LEMMA AnswerInvariance == Spec => []AnswerInv
<1>1. Init => AnswerInv
  BY PassLocals DEF Init, AnswerInv, Passing
<1>2. TypeInv /\ DangerInv /\ RegisteredInv /\ SlaInv /\ AnswerInv /\ [Next]_vars => AnswerInv'
  BY AnswerNext
<1> QED
  BY <1>1, <1>2, TypeInvariance, DangerInvariance, RegisteredInvariance, SlaInvariance, PTL DEF Spec

\* A pass that ends has answered every danger it found: the version was suspended at some moment
\* of the pass, or the pass escalated it.
THEOREM DangerIsAnswered == Spec => DangerAnswered
<1>1. TypeInv /\ AnswerInv =>
        (EndEnforce => \A v \in pass.dangerous :
           \/ \E m \in pass.began .. Len(book) : StatusAt(m, v) = "suspended"
           \/ \E n \in Noted("escalate_unsuspended") : n > pass.began /\ book[n].version = v)
  <2> SUFFICES ASSUME TypeInv, AnswerInv, EndEnforce, NEW v \in pass.dangerous
               PROVE  \/ \E m \in pass.began .. Len(book) : StatusAt(m, v) = "suspended"
                      \/ \E n \in Noted("escalate_unsuspended") :
                           n > pass.began /\ book[n].version = v
    OBVIOUS
  <2>1. v \in Versions /\ pass.began \in Nat
    BY DEF TypeInv, Pass
  <2>2. Answered(v, pass.began)
    BY <2>1 DEF AnswerInv, EndEnforce, Passing
  <2> QED
    BY <2>2 DEF Answered, SuspendedIn
<1> QED
  BY <1>1, TypeInvariance, AnswerInvariance, PTL DEF Spec, DangerAnswered

------------------------------------------------------------------------------
(* Routes. *)

\* Every step keeps the choices on record capable, and the versions at work capable and once
\* active.
LEMMA RouteNext == ASSUME TypeInv, RouteInv, [Next]_vars PROVE RouteInv'
<1>1. /\ \A f \in Flows : \A n \in At(f, "route") : Capable(f, trail[f][n].chosen)
      /\ \A f \in Routed, v \in Versions : pc[f] # "idle" /\ using[f].version = v =>
           /\ Capable(f, v)
           /\ \E m \in using[f].since .. Len(book) : StatusAt(m, v) = "active"
      /\ book \in Seq(Entry) /\ trail \in [Flows -> Seq(FlowEvent)]
      /\ pc \in [Flows -> Places] /\ using \in [Flows -> [version : Versions, since : Nat]]
      /\ Routed \subseteq Flows
  BY Numbers DEF TypeInv, TypeOK, RouteInv
<1>2. /\ Len(book) \in Nat /\ Len(book') \in Nat /\ Len(book) <= Len(book')
      /\ trail' \in [Flows -> Seq(FlowEvent)]
      /\ using' \in [Flows -> [version : Versions, since : Nat]]
      /\ \A f \in Flows : Len(trail[f]) \in Nat /\ DOMAIN trail[f] = 1 .. Len(trail[f])
      /\ \A f \in Flows : Len(trail'[f]) \in Nat /\ DOMAIN trail'[f] = 1 .. Len(trail'[f])
  BY TypeNext, BookKept DEF TypeInv, TypeOK, BookGrows
<1>3. \A v : \A m \in 0 .. Len(book) : StatusAt(m, v)' = StatusAt(m, v)
  BY <1>1, BookKept, PlaceKept
<1> DEFINE Chosen == \A f \in Flows : \A n \in At(f, "route")' : Capable(f, trail'[f][n].chosen)
           Working ==
             \A f \in Routed : \/ pc'[f] = "idle"
                               \/ pc[f] # "idle" /\ using'[f] = using[f]
                               \/ /\ Capable(f, using'[f].version) /\ using'[f].since = Len(book)
                                  /\ StatusAt(Len(book), using'[f].version) = "active"
<1>4. ASSUME Chosen, Working PROVE RouteInv'
  <2>1. ASSUME NEW f \in Routed, NEW v \in Versions, pc'[f] # "idle", using'[f].version = v
        PROVE  /\ Capable(f, v)
               /\ \E m \in using'[f].since .. Len(book') : StatusAt(m, v)' = "active"
    <3>1. CASE pc[f] # "idle" /\ using'[f] = using[f]
      <4>1. Capable(f, v) /\ using[f].since \in Nat
        BY <1>1, <2>1, <3>1
      <4>2. PICK m \in using[f].since .. Len(book) : StatusAt(m, v) = "active"
        BY <1>1, <2>1, <3>1
      <4>3. m \in 0 .. Len(book) /\ m \in using[f].since .. Len(book')
        BY <1>2, <4>1
      <4>4. StatusAt(m, v)' = "active"
        BY <1>3, <4>2, <4>3
      <4> QED
        BY <3>1, <4>1, <4>3, <4>4
    <3>2. CASE /\ Capable(f, using'[f].version) /\ using'[f].since = Len(book)
               /\ StatusAt(Len(book), using'[f].version) = "active"
      <4>1. Len(book) \in 0 .. Len(book) /\ Len(book) \in using'[f].since .. Len(book')
        BY <1>2, <3>2
      <4>2. \A m : m = Len(book) => StatusAt(m, v)' = "active"
        BY <1>3, <2>1, <3>2, <4>1
      <4> QED
        BY <2>1, <3>2, <4>1, <4>2
    <3> QED
      BY <1>4, <2>1, <3>1, <3>2
  <2> QED
    BY <1>4, <2>1 DEF RouteInv
<1>5. ASSUME NEW f \in Flows, NEW e \in FlowEvent, Emit(f, e), e.stage # "route" PROVE Chosen
  <2> SUFFICES ASSUME NEW g \in Flows, NEW n \in At(g, "route")'
               PROVE  Capable(g, trail'[g][n].chosen)
    OBVIOUS
  <2>1. n \in 1 .. Len(trail'[g]) /\ trail'[g][n].stage = "route"
    BY <1>2 DEF At
  <2>2. n \in 1 .. Len(trail[g]) /\ trail'[g][n] = trail[g][n]
    <3>1. CASE g = f
      <4>1. /\ Len(trail'[f]) = Len(trail[f]) + 1 /\ trail'[f][Len(trail[f]) + 1] = e
            /\ \A k \in 1 .. Len(trail[f]) : trail'[f][k] = trail[f][k]
        BY <1>1, <1>5, EmitShape
      <4>2. n # Len(trail[f]) + 1
        BY <1>5, <2>1, <3>1, <4>1
      <4> QED
        BY <1>2, <2>1, <3>1, <4>1, <4>2
    <3>2. CASE g # f
      BY <1>1, <1>5, <2>1, <3>2, EmitShape
    <3> QED
      BY <3>1, <3>2
  <2> QED
    BY <1>1, <1>2, <2>1, <2>2 DEF At
<1>6. ASSUME NEW f \in Flows, NEW events \in Seq(FlowEvent), NEW v \in Versions,
             CallOn(f, events, v),
             \A n \in 1 .. Len(events) : events[n].stage = "route" => Capable(f, events[n].chosen)
      PROVE  Chosen
  <2> SUFFICES ASSUME NEW g \in Flows, NEW n \in At(g, "route")'
               PROVE  Capable(g, trail'[g][n].chosen)
    OBVIOUS
  <2>1. n \in 1 .. Len(trail'[g]) /\ trail'[g][n].stage = "route"
    BY <1>2 DEF At
  <2>2. /\ Len(trail'[f]) = Len(trail[f]) + Len(events) /\ Len(events) \in Nat
        /\ \A k \in 1 .. Len(trail[f]) : trail'[f][k] = trail[f][k]
        /\ \A k \in 1 .. Len(events) : trail'[f][Len(trail[f]) + k] = events[k]
        /\ \A h \in Flows \ {f} : trail'[h] = trail[h]
    BY <1>1, <1>6, CallShape
  <2>3. CASE n \in 1 .. Len(trail[g]) /\ trail'[g][n] = trail[g][n]
    BY <1>1, <1>2, <2>1, <2>3 DEF At
  <2>4. CASE g = f /\ n > Len(trail[f])
    <3>1. n - Len(trail[f]) \in 1 .. Len(events)
      BY <1>2, <2>1, <2>2, <2>4
    <3>2. n = Len(trail[f]) + (n - Len(trail[f]))
      BY <1>2, <2>1
    <3>3. trail'[f][n] = events[n - Len(trail[f])]
      BY <2>2, <3>1, <3>2
    <3> QED
      BY <1>6, <2>1, <2>4, <3>1, <3>3
  <2> QED
    BY <1>2, <2>1, <2>2, <2>3, <2>4
<1>7. trail' = trail => Chosen
  BY <1>1 DEF At
<1>8. UNCHANGED <<pc, using>> => Working
  OBVIOUS
<1>9. ASSUME NEW f \in Flows, NEW place \in Places, Goto(f, place), pc[f] # "idle" PROVE Working
  <2>1. /\ pc'[f] = place /\ \A g \in Flows \ {f} : pc'[g] = pc[g] /\ using'[g] = using[g]
        /\ place # "idle" => using'[f] = using[f]
    BY <1>1, <1>9 DEF Goto
  <2> QED
    BY <1>1, <1>9, <2>1
<1>10. ASSUME NEW f \in Flows, NEW events, NEW v \in Versions, CallOn(f, events, v),
              f \in Routed => Capable(f, v) /\ status_of(v) = "active"
       PROVE  Working
  <2>1. /\ using'[f] = [version |-> v, since |-> Len(book)]
        /\ \A g \in Flows \ {f} : pc'[g] = pc[g] /\ using'[g] = using[g]
    BY <1>1, <1>10 DEF CallOn
  <2> QED
    BY <1>1, <1>10, <2>1 DEF status_of
<1> HIDE DEF Chosen, Working
<1>11. Opening \in FlowEvent /\ Opening.stage = "open" /\ <<Opening>> \in Seq(FlowEvent)
  BY DEF Opening, FlowEvent
<1>12. \A n \in 1 .. Len(<<Opening>>) : <<Opening>>[n].stage # "route"
  BY <1>11
<1>13. ASSUME NEW f \in Flows, StartUnrouted(f) PROVE RouteInv'
  <2>1. Default \in Versions /\ f \notin Routed /\ CallOn(f, <<Opening>>, Default)
    BY <1>13, Numbers DEF StartUnrouted
  <2> QED
    BY <1>4, <1>6, <1>10, <1>11, <1>12, <2>1
<1>14. ASSUME NEW f \in Flows, StartReusing(f) PROVE RouteInv'
  <2> DEFINE chosen == trail[f][Min(At(f, "route"))].chosen
  <2>1. /\ At(f, "route") # {} /\ status_of(chosen) = "active" /\ CallOn(f, <<Opening>>, chosen)
    BY <1>14 DEF StartReusing, Reusable
  <2>2. chosen \in Versions /\ Capable(f, chosen)
    BY <1>1, <2>1, FirstRoute
  <2> HIDE DEF chosen
  <2> QED
    BY <1>4, <1>6, <1>10, <1>11, <1>12, <2>1, <2>2
<1>15. ASSUME NEW f \in Flows, StartRouting(f) PROVE RouteInv'
  <2> DEFINE chosen == Cheapest(Eligible(f))
             route == [stage |-> "route", chosen |-> chosen]
             events == <<Opening, route>>
  <2>1. chosen \in Versions /\ Capable(f, chosen) /\ status_of(chosen) = "active"
    <3>1. chosen \in Eligible(f) /\ Eligible(f) \subseteq Versions
      BY <1>15, CheapestEligible DEF StartRouting
    <3> HIDE DEF chosen
    <3> QED
      BY <3>1 DEF Eligible
  <2>2. CallOn(f, events, chosen)
    BY <1>15 DEF StartRouting
  <2> HIDE DEF chosen
  <2>3. route \in FlowEvent /\ route.chosen = chosen
    BY <2>1 DEF FlowEvent
  <2> HIDE DEF route
  <2>4. /\ events \in Seq(FlowEvent)
        /\ \A n \in 1 .. Len(events) : events[n].stage = "route" => Capable(f, events[n].chosen)
    BY <1>11, <2>1, <2>3
  <2> HIDE DEF events
  <2> QED
    BY <1>4, <1>6, <1>10, <2>1, <2>2, <2>4
<1>16. ASSUME NEW f \in Flows, StartRefused(f) PROVE RouteInv'
  BY <1>4, <1>5, <1>8, <1>11, <1>16 DEF StartRefused
<1>17. ASSUME NEW f \in Flows, NEW allow \in BOOLEAN, Govern(f, allow) PROVE RouteInv'
  <2>1. [stage |-> "gate", allow |-> allow] \in FlowEvent
    BY DEF FlowEvent
  <2>2. \E place \in Places : Goto(f, place)
    BY <1>17 DEF Govern, Places
  <2>3. pc[f] # "idle" /\ Emit(f, [stage |-> "gate", allow |-> allow])
    BY <1>17 DEF Govern
  <2> QED
    BY <1>4, <1>5, <1>9, <2>1, <2>2, <2>3
<1>18. ASSUME NEW f \in Flows, NEW v \in Versions, Execute(f, v) PROVE RouteInv'
  <2>1. [stage |-> "execute", version |-> v] \in FlowEvent
    BY DEF FlowEvent
  <2>2. \E place \in Places : Goto(f, place)
    BY <1>18 DEF Execute, Places
  <2>3. pc[f] # "idle" /\ Emit(f, [stage |-> "execute", version |-> v])
    BY <1>18 DEF Execute
  <2> QED
    BY <1>4, <1>5, <1>9, <2>1, <2>2, <2>3
<1>19. ASSUME NEW f \in Flows, NEW decision \in Decisions, Verify(f, decision) PROVE RouteInv'
  <2>1. [stage |-> "verify", decision |-> decision] \in FlowEvent
    BY DEF FlowEvent
  <2>2. \E place \in Places : Goto(f, place)
    BY <1>19 DEF Verify, Places
  <2>3. pc[f] # "idle" /\ Emit(f, [stage |-> "verify", decision |-> decision])
    BY <1>19 DEF Verify
  <2> QED
    BY <1>4, <1>5, <1>9, <2>1, <2>2, <2>3
<1>20. ASSUME NEW f \in Flows, Cut(f) PROVE RouteInv'
  BY <1>4, <1>7, <1>9, <1>20 DEF Cut, Places
<1>21. ASSUME NEW f \in Flows, Assess(f) PROVE RouteInv'
  <2>1. PICK rule \in Breach(f) : Emit(f, [stage |-> "quarantine", rule |-> rule])
    BY <1>21 DEF Assess
  <2>2. [stage |-> "quarantine", rule |-> rule] \in FlowEvent
    BY DEF Breach, FlowEvent
  <2> QED
    BY <1>4, <1>5, <1>8, <1>21, <2>1, <2>2 DEF Assess
<1>22. ASSUME NEW f \in Flows, Rollback(f) PROVE RouteInv'
  <2>1. [stage |-> "rollback"] \in FlowEvent
    BY DEF FlowEvent
  <2> QED
    BY <1>4, <1>5, <1>8, <1>22, <2>1 DEF Rollback
<1>23. CASE AuditorStep
  <2>1. UNCHANGED <<clock, trail, pc, using>>
    BY <1>23 DEF AuditorStep, BeginEnforce, ReadTrails, LogMissed, Choose, LogSuspend, AskCritical, OpenSla, EndEnforce,
                 AuditorDies, CheckSla, RegisterSeen, SetSuspended, LogExcess, Elsewhere
  <2> QED
    BY <1>4, <1>7, <1>8, <2>1
<1>24. ASSUME NEW f \in Flows, InjectRefused(f) PROVE RouteInv'
  <2>1. [stage |-> "refused"] \in FlowEvent
    BY DEF FlowEvent
  <2> QED
    BY <1>4, <1>5, <1>8, <1>24, <2>1 DEF InjectRefused
<1>25. CASE \/ AssembleNext \/ AssembleAnew \/ \E v \in Versions : Reinstate(v)
            \/ (Tick /\ UNCHANGED <<trail, pc, using>>) \/ UNCHANGED vars
  <2>1. UNCHANGED <<trail, pc, using>>
    BY <1>25 DEF AssembleNext, AssembleAnew, Reinstate, vars
  <2> QED
    BY <1>4, <1>7, <1>8, <2>1
<1> QED
  BY <1>13, <1>14, <1>15, <1>16, <1>17, <1>18, <1>19, <1>20, <1>21, <1>22, <1>23, <1>24, <1>25
     DEF Next, CallStep

\* The versions at work are capable and were active throughout.
LEMMA RouteInvariance == Spec => []RouteInv
<1>1. Init => RouteInv
  BY Numbers DEF Init, RouteInv, At
<1>2. TypeInv /\ RouteInv /\ [Next]_vars => RouteInv'
  BY RouteNext
<1> QED
  BY <1>1, <1>2, TypeInvariance, PTL DEF Spec

\* An execution of a routed flow is by a version that clears the floor and that was active at
\* some moment since its call began.
THEOREM RoutesAreSound == Spec => RouteSound
<1>1. TypeInv /\ RouteInv =>
        \A f \in Routed, v \in Versions :
          Execute(f, v) => /\ Capable(f, v)
                           /\ \E m \in using[f].since .. Len(book) : StatusAt(m, v) = "active"
  <2> SUFFICES ASSUME TypeInv, RouteInv, NEW f \in Routed, NEW v \in Versions, Execute(f, v)
               PROVE  /\ Capable(f, v)
                      /\ \E m \in using[f].since .. Len(book) : StatusAt(m, v) = "active"
    OBVIOUS
  <2>1. pc[f] # "idle" /\ using[f].version = v
    BY DEF Execute, Producers
  <2> QED
    BY <2>1 DEF RouteInv
<1> QED
  BY <1>1, TypeInvariance, RouteInvariance, PTL DEF Spec, RouteSound
==============================================================================
