---------------------------- MODULE AppendOnlyLog ----------------------------
(***************************************************************************)
(* What the event plane promises (the docstring of the EventStore Protocol *)
(* in planes/memory.py): one totally ordered, append-only history per      *)
(* flow, extended one event at a time, and an append that returned told    *)
(* its caller the position and content the history really holds.           *)
(***************************************************************************)
EXTENDS Naturals, Sequences

CONSTANTS Flows, Payloads

VARIABLES
  log,    \* log[f]: the payloads of flow f, in order
  acked   \* what callers were told: [flow, seq, payload]

vars == <<log, acked>>

Init ==
  /\ log = [f \in Flows |-> <<>>]
  /\ acked = {}

\* An append takes effect at one instant: the history grows by one event.
Extend(f, p) ==
  /\ log' = [log EXCEPT ![f] = Append(@, p)]
  /\ UNCHANGED acked

\* The caller learns the outcome later, or never (it may die first).
Acknowledge(f, i) ==
  /\ acked' = acked \cup {[flow |-> f, seq |-> i - 1, payload |-> log[f][i]]}
  /\ UNCHANGED log

Next ==
  \E f \in Flows :
    \/ \E p \in Payloads : Extend(f, p)
    \/ \E i \in 1 .. Len(log[f]) : Acknowledge(f, i)

Spec == Init /\ [][Next]_vars
==============================================================================
