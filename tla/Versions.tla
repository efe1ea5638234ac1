-------------------------------- MODULE Versions -------------------------------
(***************************************************************************)
(* versions.py: the registry of executor versions, folded from the         *)
(* reserved flow `__versions__`.  The Auditor's trail `__audit__` is kept  *)
(* in the same sequence, because the Auditor reads the two in the order of *)
(* their timestamps; those are taken to agree with the order of commits.   *)
(***************************************************************************)
EXTENDS Naturals, Sequences, FiniteSetsExt

CONSTANTS
  Versions,  \* executor versions
  MaxClock   \* bound: hours that pass

ASSUME ClockAssumption == MaxClock \in Nat
ASSUME VersionsAssumption == IsFiniteSet(Versions)

VARIABLES
  book,  \* `__versions__` and `__audit__`, in commit order (durable)
  clock  \* the hour

\* "rolled_back" is declared and never written.
Statuses == {"active", "suspended"}
Hours == 0 .. MaxClock

\* register and status events, and the Auditor's records with their hour `ts`.  `began` (history)
\* is the length of the book when the pass that wrote the entry read it; a status event has both
\* for the properties alone, those of its own moment when a human wrote it.
Entry ==
       [stage : {"register"}, version : Versions]
  \cup [stage : {"status"}, version : Versions, status : Statuses, ts : Hours, began : Nat]
  \cup [stage : {"suspend", "sla_missed", "escalate_unsuspended"}, version : Versions,
        ts : Hours, began : Nat]
  \cup [stage : {"sla_open"}, version : Versions, deadline : Nat]

\* records(), at place p of the book: a registration makes a version active, whatever it was;
\* a status event changes a version that has a record and is lost on one that has none.
Registered(p) == {v \in Versions : \E n \in 1 .. p : book[n] = [stage |-> "register", version |-> v]}

StatusAt(p, v) ==
  LET about == {n \in 1 .. p : book[n].stage \in {"register", "status"} /\ book[n].version = v}
      latest == book[Max(about)]
  IN  IF v \notin Registered(p) \/ latest.stage = "register" THEN "active" ELSE latest.status

\* status_of, now.
status_of(v) == StatusAt(Len(book), v)

Note(entry) == book' = Append(book, entry)
register(v) == Note([stage |-> "register", version |-> v])
\* Mutant: suspends by rolling back.
set_status_RolledBack(v, status, now, began) ==
  Note([stage |-> "status", version |-> v, ts |-> now, began |-> began,
        status |-> IF status = "suspended" THEN "rolled_back" ELSE status])
set_status(v, status, now, began) ==
  Note([stage |-> "status", version |-> v, status |-> status, ts |-> now, began |-> began])

Tick ==
  /\ clock < MaxClock
  /\ clock' = clock + 1
  /\ UNCHANGED book
==============================================================================
