----------------------------- MODULE AutonomyBoard -----------------------------
(***************************************************************************)
(* autonomy.py: proposals to raise a class's ceiling, and the Board's      *)
(* ratification, which returns a new registry for whoever builds the next  *)
(* gate and the next Board from it.  Several Boards over different         *)
(* registries can be at work on one Board trail: an amendment never        *)
(* updates the Board that ratified it, nor the module's own table.         *)
(***************************************************************************)
EXTENDS Governance, Sequences

CONSTANTS
  Members, \* the names of the Board's members
  Actors,  \* who may call ratify: records of a mode and a name (`version`)
  Handed,  \* the proposals people have in mind, to propose them or to hand them to a Board
  MaxActs  \* bound: events on the Board trail

Proposal == [class : Classes, from : Levels, to : Levels, evidence : BOOLEAN]

ASSUME ActorsAssumption == \A a \in Actors : a.mode \in {"human", "agent"}
ASSUME HandedAssumption == Handed \subseteq Proposal
ASSUME ActsAssumption == MaxActs \in Nat

VARIABLES
  trail,      \* the Board-acts trail (durable)
  registries  \* the registries gates and Boards have been or can be built on

vars == <<trail, registries>>

Act ==
       [stage : {"proposal"}, about : Proposal]
  \cup [stage : {"amendment"}, decision : {"ratified", "block"}, about : Proposal, by : Actors]
  \cup [stage : {"content"}, decision : {"ratified", "block"}, by : Actors]

TypeOK ==
  /\ trail \in Seq(Act) /\ Len(trail) <= MaxActs
  /\ registries \subseteq Registries

Init ==
  /\ trail = <<>>
  /\ registries = {ACTION_CLASS_REGISTRY}

Record(act) == Len(trail) < MaxActs /\ trail' = Append(trail, act)

Proposed == {trail[n].about : n \in {m \in DOMAIN trail : trail[m].stage = "proposal"}}

\* propose, at the Board built on `registry`: changes nothing but the trail.
Propose(registry, class, to, evidence) ==
  /\ Record([stage |-> "proposal",
             about |-> [class |-> class, from |-> LevelIn(registry, class), to |-> to,
                        evidence |-> evidence]])
  /\ UNCHANGED registries

\* _is_board: a human, and one of the members.
IsBoard(actor) == actor.mode = "human" /\ actor.version \in Members

\* Mutant: any change of level will do.
Raises_AnyChange(registry, about) == about.to # LevelIn(registry, about.class)
Raises(registry, about) == Rank(about.to) > Rank(LevelIn(registry, about.class))

\* Mutant: a stale proposal passes.
Ratifiable_Stale(registry, about, ratifier) ==
  IsBoard(ratifier) /\ about.evidence /\ Raises(registry, about)
Ratifiable(registry, about, ratifier) ==
  /\ IsBoard(ratifier)
  /\ about.evidence
  /\ about.from = LevelIn(registry, about.class)
  /\ Raises(registry, about)

Amend(registry, about) ==
  [class \in DOMAIN registry \cup {about.class} |->
     IF class = about.class THEN about.to ELSE registry[class]]

\* ratify, of a proposal made at this Board or at another one, or built by hand: the Board does
\* not look for it on the trail.
Ratify(registry, about, ratifier) ==
  /\ Ratifiable(registry, about, ratifier)
  /\ Record([stage |-> "amendment", decision |-> "ratified", about |-> about, by |-> ratifier])
  /\ registries' = registries \cup {Amend(registry, about)}

RefuseRatify(registry, about, ratifier) ==
  /\ ~Ratifiable(registry, about, ratifier)
  /\ Record([stage |-> "amendment", decision |-> "block", about |-> about, by |-> ratifier])
  /\ UNCHANGED registries

\* ratify_amendment: constitutional content, which no registry holds.
RatifyContent(ratifier) ==
  /\ Record([stage |-> "content", by |-> ratifier,
             decision |-> IF IsBoard(ratifier) THEN "ratified" ELSE "block"])
  /\ UNCHANGED registries

Next ==
  \/ \E registry \in registries, about \in Handed :
       Propose(registry, about.class, about.to, about.evidence)
  \/ \E registry \in registries, about \in Handed \cup Proposed, ratifier \in Actors :
       Ratify(registry, about, ratifier) \/ RefuseRatify(registry, about, ratifier)
  \/ \E ratifier \in Actors : RatifyContent(ratifier)

Spec == Init /\ [][Next]_vars

------------------------------------------------------------------------------
\* The acts that raise a class to a level, on evidence, by a human member of the Board.
Raising(class, level) ==
  {n \in DOMAIN trail :
     /\ trail[n].stage = "amendment" /\ trail[n].decision = "ratified"
     /\ trail[n].about.class = class /\ trail[n].about.to = level
     /\ trail[n].about.evidence /\ Rank(level) > Rank(trail[n].about.from)
     /\ trail[n].by.mode = "human" /\ trail[n].by.version \in Members}

\* One of them raised it from the level it has always had, or from one that an earlier act had
\* raised it to: the evidence was about what the class was in fact allowed.
Authorised(class, level) ==
  \E n \in Raising(class, level) :
    \/ trail[n].about.from = level_for(class)
    \/ \E m \in Raising(class, trail[n].about.from) : m < n

\* Whatever registry a gate was compiled from, it lets an action through only at the level the
\* class has always had or at one to which the Board has raised it step by step, whoever brought
\* the proposals, how late, how often and to which of the Boards; and a production-affecting
\* action at none, though the Board may list one at L3 ("No role raises its own authority",
\* Constitution 4.1; Art. 2.2 stands above the ceilings).
GateOnAuthority ==
  \A registry \in registries, class \in Classes, mode \in {"human", "agent"} :
    LET ruling == Decide(registry, class, mode)
    IN  ruling.allowed =>
          /\ class # "CLASS_PRODUCTION"
          /\ \/ class \in DOMAIN ACTION_CLASS_REGISTRY /\ ruling.level = ACTION_CLASS_REGISTRY[class]
             \/ Authorised(class, ruling.level)

\* The handbrake pauses, and the Optimizer picks a capability, by the module's table, whatever
\* the gate was compiled from.  That errs on one side only: where the gate lets an L1 action
\* through for "act-with-recorded-approval", the handbrake does pause, and nobody below the
\* amended floor is routed to.
PausesConservative ==
  \A registry \in registries, class \in Classes :
    LET ruling == Decide(registry, class, "agent")
    IN  ruling.allowed =>
          /\ ruling.level = "L1" => level_for(class) \in {"L0", "L1"}
          /\ capability_floor(class) >= Floor(ruling.level)
==============================================================================
