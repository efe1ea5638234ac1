--------------------------------- MODULE Fleet ---------------------------------
(***************************************************************************)
(* One store shared by the calls of several flows, the Steward, the        *)
(* Auditor's breaker, humans who reinstate versions and inject, and        *)
(* Cell.assemble, which a new process runs over the store it finds.        *)
(***************************************************************************)
EXTENDS Auditor

CONSTANTS
  MaxTurns,     \* bound: further assemblies, reinstatements and rollbacks, together
  MaxAssemblies, \* bound: further assemblies
  Overlap       \* bound: whether a process may assemble while an earlier one's calls and passes go on

ASSUME FleetAssumption == {MaxTurns, MaxAssemblies} \subseteq Nat /\ Overlap \in BOOLEAN

VARIABLE
  assembly  \* assemblies `begun` after the first, and versions the latest has `done`

vars == <<book, clock, trail, pc, using, pass, assembly>>

\* Cell.assemble registers the executor and then every implementer, as active.
Wired == <<Default>> \o Implementers
Assembled == [n \in DOMAIN Wired |-> [stage |-> "register", version |-> Wired[n]]]

Init ==
  /\ book = Assembled /\ clock = 0
  /\ trail = [f \in Flows |-> <<>>]
  /\ pc = [f \in Flows |-> "idle"]
  /\ using = [f \in Flows |-> NoCall]
  /\ pass = NoPass
  /\ assembly = [begun |-> 0, done |-> Len(Wired)]

Noted(stage) == {n \in DOMAIN book : book[n].stage = stage}
Reinstated == {n \in Noted("status") : book[n].status = "active"}
MayTurn == assembly.begun + Cardinality(Reinstated) + Total("rollback") < MaxTurns

\* A new process registers one wired version after the other, and then works.  The calls and passes
\* of an earlier process end by Cut and AuditorDies: before, or with Overlap later or never; its
\* assembly ends where another begins.
Assembling == assembly.done < Len(Wired)
MayWork == Overlap \/ ~Assembling
Quiet == pass.step = "off" /\ \A f \in Flows : pc[f] = "idle"

AssembleNext ==
  /\ Assembling
  /\ register(Wired[assembly.done + 1])
  /\ assembly' = [assembly EXCEPT !.done = @ + 1]
  /\ UNCHANGED <<clock, trail, pc, using, pass>>

AssembleAnew ==
  /\ MayTurn /\ assembly.begun < MaxAssemblies /\ (Overlap \/ Quiet)
  /\ register(Wired[1])
  /\ assembly' = [begun |-> assembly.begun + 1, done |-> 1]
  /\ UNCHANGED <<clock, trail, pc, using, pass>>

\* set_status(version, "active"), by a human.
Reinstate(v) ==
  /\ status_of(v) = "suspended" /\ MayTurn
  /\ set_status(v, "active", clock, Len(book))
  /\ UNCHANGED <<clock, trail, pc, using, pass, assembly>>

\* Rollbacks are of flows under quarantine only (a bound: rollback() takes any flow).
Next ==
  \/ \E f \in Flows : MayWork /\ CallStep(f) /\ UNCHANGED <<pass, assembly>>
  \/ \E f \in Flows : (Assess(f) \/ InjectRefused(f)) /\ UNCHANGED <<pass, assembly>>
  \/ \E f \in Flows : Quarantined(f) /\ MayTurn /\ Rollback(f) /\ UNCHANGED <<pass, assembly>>
  \/ MayWork /\ AuditorStep /\ UNCHANGED assembly
  \/ AssembleNext \/ AssembleAnew
  \/ \E v \in Versions : Reinstate(v)
  \/ Tick /\ UNCHANGED <<trail, pc, using, pass, assembly>>

Spec == Init /\ [][Next]_vars

------------------------------------------------------------------------------
TypeOK ==
  /\ book \in Seq(Entry) /\ clock \in Hours
  /\ trail \in [Flows -> Seq(FlowEvent)]
  /\ pc \in [Flows -> Places] /\ using \in [Flows -> [version : Versions, since : Nat]]
  /\ pass.step \in {"off", "rated", "sweep", "miss", "suspend", "set", "log", "critical", "sla"}
  /\ pass.version \in Versions /\ pass.now \in Hours /\ pass.recent \in Nat
  /\ UNION {pass.due, pass.dangerous, pass.victims, pass.excess} \subseteq Versions
  /\ assembly \in [begun : Nat, done : 1 .. Len(Wired)]

\* The breaker's suspensions, by the hour their pass took; those that no record on the audit trail
\* answers to, of passes that died between the two appends; and those of a stretch of hours.
Suspensions == {n \in Noted("status") : book[n].status = "suspended"}
Recorded(n) ==
  \E m \in Noted("suspend") : book[m].version = book[n].version /\ book[m].began = book[n].began
AboutToRecord(n) ==
  pass.step = "log" /\ book[n].version = pass.version /\ book[n].began = pass.began
Unrecorded == {n \in Suspensions : ~Recorded(n) /\ ~AboutToRecord(n)}
Within(suspensions, hour) == {n \in suspensions : book[n].ts <= hour /\ hour < book[n].ts + Window}

\* The rate limit: a stretch of Window hours has at most MaxPer suspensions, and one more for each
\* pass of that stretch that died between a suspension and its record, whoever was reinstated or
\* registered anew meanwhile.
RateLimited ==
  \A hour \in Hours :
    Cardinality(Within(Suspensions, hour))
      <= MaxPer + Cardinality({book[n].began : n \in Within(Unrecorded, hour)})

\* The breaker suspends for a breach of safety alone: a version it has suspended executed in a
\* flow that the Steward quarantined or governance blocked, be it an action or an injection,
\* however badly others perform.
DangerOnly == \A n \in Noted("suspend") : Dangerous(book[n].version)

\* A suspension takes effect: no suspended status falls on a version the registry has no record
\* of, where it would be lost and the version suspended again at every pass.
SuspensionSticks ==
  \A n \in Noted("status") : book[n].status = "suspended" => StatusAt(n, book[n].version) = "suspended"

\* Break-glass is for a stuck suspension: the last that was known of the version's SLA when the
\* pass read the trails is that it was open and past its deadline, and the version was suspended at
\* some moment of the pass.  (A human may reinstate it between the breaker's check and its record.)
BreakglassJustified ==
  \A n \in Noted("sla_missed") :
    LET v == book[n].version
        began == book[n].began
        opened == Max({0} \cup {m \in Noted("sla_open") : m <= began /\ book[m].version = v})
    IN  /\ opened # 0 /\ book[opened].deadline < book[n].ts
        /\ \A m \in SlaEvents(v, began) : m <= opened
        /\ \E m \in began .. n : StatusAt(m, v) = "suspended"

\* An execution of a routed flow is by a version that clears the capability floor and that was
\* active at some moment between the beginning of its call and the execution, even when a
\* suspension lands between routing and executing, or the route was chosen by an earlier call.
RouteSound ==
  [][ \A f \in Routed, v \in Versions :
        Execute(f, v) => /\ Capable(f, v)
                         /\ \E m \in using[f].since .. Len(book) : StatusAt(m, v) = "active" ]_vars

\* A pass that ends has answered every danger it found: each version it rated dangerous was not
\* active at some moment of the pass, or was escalated by it.
DangerAnswered ==
  [][ EndEnforce =>
        \A v \in pass.dangerous :
          \/ \E m \in pass.began .. Len(book) : StatusAt(m, v) = "suspended"
          \/ \E n \in Noted("escalate_unsuspended") :
               n > pass.began /\ book[n].version = v ]_vars

------------------------------------------------------------------------------
\* Steward.quarantine: "it may not proceed (Art. 6.2)".  A flow that is under quarantine when a
\* call of it begins neither executes nor is verified in that call.
QuarantineRespected ==
  \A f \in Flows : \A n \in At(f, "execute") \cup At(f, "verify") :
    ~QuarantinedAt(f, Max({m \in At(f, "open") : m < n}))

\* The breaker "never reinstates": a routed call does not work with a version that the breaker
\* has suspended, unless a human reinstated it before the call began.
SuspensionHolds ==
  \A f \in Routed :
    LET about == {m \in Noted("status") : /\ m <= using[f].since
                                         /\ book[m].version = using[f].version}
    IN  pc[f] \in {"govern", "execute"} /\ about # {} => book[Max(about)].status = "active"
==============================================================================
