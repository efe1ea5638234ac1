-------------------------------- MODULE Auditor --------------------------------
(***************************************************************************)
(* auditor.py: the rating of versions, and enforce(), the breaker.  A pass *)
(* of enforce() is taken apart into its reads and appends, so that calls,  *)
(* humans and crashes come between them.                                   *)
(***************************************************************************)
EXTENDS Steward

CONSTANTS
  Role,     \* by version: the role it runs for
  MinRuns,  \* SUSPENSION_POLICY: collapse_alert_min_runs
  MaxPer,   \* max_suspensions_per_window
  Window,   \* rate_limit_window_hours
  SlaHours, \* response_sla_hours
  MaxNotes  \* bound: entries of the book, registrations apart, at which no further pass begins

ASSUME PolicyAssumption == {MinRuns, MaxPer, Window, SlaHours, MaxNotes} \subseteq Nat

VARIABLE
  pass  \* the pass under way: where it is, and its local variables

NoPass ==
  [step |-> "off", began |-> 0, now |-> 0, version |-> Default, recent |-> 0,
   due |-> {}, dangerous |-> {}, victims |-> {}, excess |-> {}, unregistered |-> {}]

------------------------------------------------------------------------------
\* version_stats: the executions by v, and the verdicts on outputs that v produced.
Executed(f, v) == {n \in At(f, "execute") : trail[f][n].version = v}
\* A verdict counts for the last version that made an output of that id.  The executors name an
\* output after its work item, so that all but an edit have the same id; no two flows are about the
\* same ticket.
Edited(f, n) == trail[f][n].version = Injector
Producer(f, n) ==
  LET judged == Max({m \in At(f, "execute") : m < n})
  IN  trail[f][Max({m \in At(f, "execute") : Edited(f, m) = Edited(f, judged)})].version
PassedBy(f, v) == {n \in At(f, "verify") : Producer(f, n) = v /\ trail[f][n].decision = "pass"}
Runs(v) == SumFunction([f \in Flows |-> Cardinality(Executed(f, v))])
Passes(v) == SumFunction([f \in Flows |-> Cardinality(PassedBy(f, v))])

DangerFlows ==
  {f \in Flows : \/ At(f, "quarantine") \cup At(f, "refused") # {}
                 \/ \E n \in At(f, "gate") : ~trail[f][n].allow}

\* The version registered before v in v's role.
FirstOf(v) == Min({n \in DOMAIN book : book[n] = [stage |-> "register", version |-> v]})
Predecessors(v) ==
  LET registered == Registered(Len(book))
      before == {w \in registered : Role[w] = Role[v] /\ FirstOf(w) < FirstOf(v)}
  IN  IF v \notin registered THEN {} ELSE {w \in before : \A u \in before : FirstOf(u) <= FirstOf(w)}

Worse(v) == \E p \in Predecessors(v) : Passes(v) * Runs(p) < Passes(p) * Runs(v)
Collapsed(v) == Runs(v) >= MinRuns /\ 2 * Passes(v) < Runs(v)
Dangerous(v) == \E f \in DangerFlows : Executed(f, v) # {}

\* Mutant: a collapse of quality is a danger too.
Rating_Collapse(v) ==
  IF Dangerous(v) \/ Collapsed(v) THEN "dangerous"
  ELSE IF Runs(v) < MinRuns THEN "unproven" ELSE IF Worse(v) THEN "regressed" ELSE "healthy"
Rating(v) ==
  IF Dangerous(v) THEN "dangerous"
  ELSE IF Runs(v) < MinRuns THEN "unproven"
  ELSE IF Collapsed(v) \/ Worse(v) THEN "regressed" ELSE "healthy"

------------------------------------------------------------------------------
\* _recent_suspensions.  Mutant: the window is an hour short.
RecentSuspensions_Short(now) ==
  Cardinality({n \in DOMAIN book : book[n].stage = "suspend" /\ book[n].ts + Window > now + 1})
RecentSuspensions(now) ==
  Cardinality({n \in DOMAIN book : book[n].stage = "suspend" /\ book[n].ts + Window > now})

\* _open_slas: closed by a recorded miss, or by a status event that makes the version active.
SlaEvents(v, p) ==
  {n \in 1 .. p : /\ book[n].version = v
                  /\ \/ book[n].stage \in {"sla_open", "sla_missed"}
                     \/ book[n].stage = "status" /\ book[n].status = "active"}

\* The versions whose open SLA has run out.  Mutant: runs out at its deadline.
Overdue_Early(now) ==
  {v \in Versions : LET last == Max({0} \cup SlaEvents(v, Len(book)))
                    IN  last # 0 /\ book[last].stage = "sla_open" /\ book[last].deadline <= now}
Overdue(now) ==
  {v \in Versions : LET last == Max({0} \cup SlaEvents(v, Len(book)))
                    IN  last # 0 /\ book[last].stage = "sla_open" /\ book[last].deadline < now}

\* _critical: no other active version of its role is registered.
Critical(v) ==
  \A w \in Registered(Len(book)) \ {v} : Role[w] = Role[v] => status_of(w) # "active"

------------------------------------------------------------------------------
Step(step) == pass' = [pass EXCEPT !.step = step]
Log(stage, v) == Note([stage |-> stage, version |-> v, ts |-> pass.now, began |-> pass.began])
Elsewhere == UNCHANGED <<clock, trail, pc, using>>

\* enforce() takes the time and rates every version.
BeginEnforce ==
  /\ pass.step = "off" /\ Cardinality({n \in DOMAIN book : book[n].stage # "register"}) < MaxNotes
  /\ pass' = [NoPass EXCEPT
                !.step = "rated", !.now = clock,
                !.dangerous = {v \in Versions : Rating(v) = "dangerous"}]
  /\ UNCHANGED book /\ Elsewhere

\* It reads the audit trail, which it alone writes, and then the registry's reinstatements.
ReadTrails ==
  /\ pass.step = "rated"
  /\ pass' = [pass EXCEPT !.step = "sweep", !.began = Len(book),
                          !.recent = RecentSuspensions(pass.now), !.due = Overdue(pass.now)]
  /\ UNCHANGED book /\ Elsewhere

\* The sweep asks for the status of a version whose SLA has run out, and then records the miss.
CheckSla(v) ==
  /\ pass.step = "sweep" /\ v \in pass.due
  /\ pass' = [pass EXCEPT !.due = @ \ {v}, !.version = v,
                          !.step = IF status_of(v) = "suspended" THEN "miss" ELSE "sweep"]
  /\ UNCHANGED book /\ Elsewhere

LogMissed ==
  /\ pass.step = "miss"
  /\ Log("sla_missed", pass.version)
  /\ Step("sweep") /\ Elsewhere

\* Which of the dangerous versions that are active the headroom covers: the first in the order
\* of their first execution, here any.
\* Mutant: the last one in excess is forgotten.
Excess_Short(active, victims) ==
  IF active = victims THEN {} ELSE (active \ victims) \ {CHOOSE v \in active \ victims : TRUE}
Excess(active, victims) == active \ victims

Choose ==
  /\ pass.step = "sweep" /\ pass.due = {}
  /\ LET active == {v \in pass.dangerous : status_of(v) = "active"}
         headroom == IF pass.recent < MaxPer THEN MaxPer - pass.recent ELSE 0
     IN  \E victims \in SUBSET active :
           /\ Cardinality(victims) = Min({headroom, Cardinality(active)})
           /\ pass' = [pass EXCEPT !.step = "suspend", !.victims = victims,
                                   !.excess = Excess(active, victims),
                                   !.unregistered = Versions \ Registered(Len(book))]
  /\ UNCHANGED book /\ Elsewhere

\* Mutant: a version known from its runs alone is not registered first.
MustRegister_Never(v) == FALSE
MustRegister(v) == v \in pass.unregistered

RegisterSeen(v) ==
  /\ pass.step = "suspend" /\ v \in pass.victims /\ MustRegister(v)
  /\ register(v)
  /\ pass' = [pass EXCEPT !.step = "set", !.version = v]
  /\ Elsewhere

SetSuspended(v) ==
  /\ \/ pass.step = "suspend" /\ v \in pass.victims /\ ~MustRegister(v)
     \/ pass.step = "set" /\ v = pass.version
  /\ set_status(v, "suspended", pass.now, pass.began)
  /\ pass' = [pass EXCEPT !.step = "log", !.version = v]
  /\ Elsewhere

LogSuspend ==
  /\ pass.step = "log"
  /\ Log("suspend", pass.version)
  /\ Step("critical") /\ Elsewhere

NextVictim == pass' = [pass EXCEPT !.step = "suspend", !.victims = @ \ {pass.version}]

\* Whether the suspension is critical is read before the SLA is opened.
AskCritical ==
  /\ pass.step = "critical"
  /\ IF Critical(pass.version) THEN Step("sla") ELSE NextVictim
  /\ UNCHANGED book /\ Elsewhere

OpenSla ==
  /\ pass.step = "sla"
  /\ Note([stage |-> "sla_open", version |-> pass.version, deadline |-> pass.now + SlaHours])
  /\ NextVictim /\ Elsewhere

LogExcess(v) ==
  /\ pass.step = "suspend" /\ pass.victims = {} /\ v \in pass.excess
  /\ Log("escalate_unsuspended", v)
  /\ pass' = [pass EXCEPT !.excess = @ \ {v}]
  /\ Elsewhere

EndEnforce ==
  /\ pass.step = "suspend" /\ pass.victims = {} /\ pass.excess = {}
  /\ pass' = NoPass
  /\ UNCHANGED book /\ Elsewhere

\* The process that runs the pass dies.
AuditorDies ==
  /\ pass.step # "off"
  /\ pass' = NoPass
  /\ UNCHANGED book /\ Elsewhere

AuditorStep ==
  \/ BeginEnforce \/ ReadTrails \/ LogMissed \/ Choose \/ LogSuspend \/ AskCritical \/ OpenSla
  \/ EndEnforce \/ AuditorDies
  \/ \E v \in Versions : CheckSla(v) \/ RegisterSeen(v) \/ SetSuspended(v) \/ LogExcess(v)
==============================================================================
