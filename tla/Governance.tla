------------------------------- MODULE Governance ------------------------------
(***************************************************************************)
(* planes/governance.py: the registry of action classes, the rules that    *)
(* decide one action before it takes effect, and the capability a class    *)
(* demands.  The rules read the registry their instance was compiled from; *)
(* level_for and capability_floor, which the handbrake and the Optimizer   *)
(* call, read the table of the module.                                     *)
(***************************************************************************)
EXTENDS Naturals

Levels == {"L0", "L1", "L2", "L3"}
Rank(level) == CASE level = "L0" -> 0 [] level = "L1" -> 1 [] level = "L2" -> 2 [] OTHER -> 3

ACTION_CLASS_REGISTRY ==
  [CLASS_READ |-> "L3", CLASS_SANDBOX |-> "L3",
   CLASS_OWN_WRITE |-> "L2", CLASS_VISIBLE_OUTPUT |-> "L2",
   CLASS_EXTERNAL_COMM |-> "L1",
   CLASS_HIGH_BLAST |-> "L0", CLASS_PRODUCTION |-> "L0"]

BoundaryClasses == {"CLASS_PRODUCTION"}

\* Every class there is: the listed ones, and one nobody has classified.
Classes == DOMAIN ACTION_CLASS_REGISTRY \cup {"CLASS_NOVEL"}

\* A registry lists some classes; one it does not list is L0 (NOVEL_LEVEL).
Registries == UNION {[listed -> Levels] : listed \in SUBSET Classes}
\* Mutant: without a default.
LevelIn_None(registry, class) == IF class \in DOMAIN registry THEN registry[class] ELSE "None"
LevelIn(registry, class) == IF class \in DOMAIN registry THEN registry[class] ELSE "L0"

level_for(class) == LevelIn(ACTION_CLASS_REGISTRY, class)
Floor(level) == CASE level = "L0" -> 3 [] level = "L1" -> 2 [] OTHER -> 1
capability_floor(class) == Floor(level_for(class))

\* RuleSetGovernance.decide: the first rule that applies decides.
Decide(registry, class, mode) ==
  LET level == LevelIn(registry, class)
      Ruled(allowed, rule) == [allowed |-> allowed, rule |-> rule, level |-> level]
  IN  IF mode = "human" /\ level = "L0" THEN Ruled(FALSE, "R11")
      ELSE IF class \notin DOMAIN registry THEN Ruled(FALSE, "R3")
      ELSE IF class \in BoundaryClasses THEN Ruled(FALSE, "R9")
      ELSE Ruled(level # "L0", "R1")
==============================================================================
