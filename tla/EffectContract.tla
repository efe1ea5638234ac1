---------------------------- MODULE EffectContract ---------------------------
(***************************************************************************)
(* What effects/wrapper.py promises of an external effect (its docstring   *)
(* and invariant #4): an irreversible effect is attempted at most once,    *)
(* any other is attempted until one attempt is settled on, and a settled   *)
(* effect never happens again and never changes its result.                *)
(***************************************************************************)
EXTENDS Naturals

CONSTANTS Keys, Irreversible

VARIABLES
  fired,   \* fired[k]: how often the outside world has seen effect k
  settled  \* settled[k]: the firing whose result stands, 0 while none does

vars == <<fired, settled>>

Init ==
  /\ fired = [k \in Keys |-> 0]
  /\ settled = [k \in Keys |-> 0]

Fire(k) ==
  /\ settled[k] = 0
  /\ k \in Irreversible => fired[k] = 0
  /\ fired' = [fired EXCEPT ![k] = @ + 1]
  /\ UNCHANGED settled

\* The last firing is the one that stands.
Settle(k) ==
  /\ settled[k] = 0
  /\ fired[k] > 0
  /\ settled' = [settled EXCEPT ![k] = fired[k]]
  /\ UNCHANGED fired

Next == \E k \in Keys : Fire(k) \/ Settle(k)

Spec == Init /\ [][Next]_vars
==============================================================================
