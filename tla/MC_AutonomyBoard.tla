--------------------------- MODULE MC_AutonomyBoard ---------------------------
(* A member, an agent that bears a member's name, and a human who is none.  Proposals that climb *)
(* a ladder of two steps, which may be handed over in either order, or both at once; that lower a *)
(* ceiling, lack evidence, raise production or a class nobody has listed; and one whose *)
(* from_level has never been in force. *)
EXTENDS AutonomyBoard

SomeActors ==
  {[mode |-> "human", version |-> "member"], [mode |-> "agent", version |-> "member"],
   [mode |-> "human", version |-> "guest"]}

Raise(class, from, to) == [class |-> class, from |-> from, to |-> to, evidence |-> TRUE]
SomeProposals ==
  {Raise("CLASS_EXTERNAL_COMM", "L1", "L2"), Raise("CLASS_EXTERNAL_COMM", "L2", "L3"),
   Raise("CLASS_EXTERNAL_COMM", "L1", "L3"), Raise("CLASS_VISIBLE_OUTPUT", "L2", "L1"),
   Raise("CLASS_VISIBLE_OUTPUT", "L1", "L3"), Raise("CLASS_PRODUCTION", "L0", "L3"),
   Raise("CLASS_NOVEL", "L0", "L1"), [Raise("CLASS_NOVEL", "L0", "L2") EXCEPT !.evidence = FALSE]}
==============================================================================
