-------------------------- MODULE AutonomyBoardProofs --------------------------
(***************************************************************************)
(* Proofs about AutonomyBoard, for any members, actors, proposals and      *)
(* length of the Board trail.  The inductive invariant says of every       *)
(* registry a gate or a Board can be built on that it lists no class below *)
(* its compiled level, and each at its compiled level or at one that       *)
(* ratified acts on the trail have raised it to step by step.              *)
(***************************************************************************)
EXTENDS AutonomyBoard, TLAPS

Compiled(class, level) ==
  class \in DOMAIN ACTION_CLASS_REGISTRY /\ level = ACTION_CLASS_REGISTRY[class]

\* What the trail says of a registry.
Sound(registry) ==
  \A class \in Classes :
    /\ Rank(LevelIn(registry, class)) >= Rank(level_for(class))
    /\ class \in DOMAIN registry =>
         Compiled(class, registry[class]) \/ Authorised(class, registry[class])

Inv == TypeOK /\ \A registry \in registries : Sound(registry)

------------------------------------------------------------------------------
\* The levels and their ranks, one by one.
LEMMA Ranks ==
  /\ Rank("L0") = 0 /\ Rank("L1") = 1 /\ Rank("L2") = 2 /\ Rank("L3") = 3
  /\ Floor("L0") = 3 /\ Floor("L1") = 2 /\ Floor("L2") = 1 /\ Floor("L3") = 1
  /\ Levels = {"L0", "L1", "L2", "L3"}
BY DEF Rank, Floor, Levels

\* The compiled registry lists seven classes, each at a level.
LEMMA CompiledRegistry ==
  /\ DOMAIN ACTION_CLASS_REGISTRY =
       {"CLASS_READ", "CLASS_SANDBOX", "CLASS_OWN_WRITE", "CLASS_VISIBLE_OUTPUT",
        "CLASS_EXTERNAL_COMM", "CLASS_HIGH_BLAST", "CLASS_PRODUCTION"}
  /\ ACTION_CLASS_REGISTRY \in [DOMAIN ACTION_CLASS_REGISTRY -> Levels]
  /\ DOMAIN ACTION_CLASS_REGISTRY \subseteq Classes
BY DEF ACTION_CLASS_REGISTRY, Levels, Classes

\* A registry is a function from some classes to levels, and gives every class a level.
LEMMA RegistryShape ==
  ASSUME NEW registry \in Registries
  PROVE  /\ DOMAIN registry \subseteq Classes
         /\ registry \in [DOMAIN registry -> Levels]
         /\ \A class : LevelIn(registry, class) \in Levels
BY DEF Registries, LevelIn, Levels

\* So is the compiled one.
LEMMA CompiledIsRegistry == ACTION_CLASS_REGISTRY \in Registries
BY CompiledRegistry DEF Registries

LEMMA LevelForType == \A class : level_for(class) \in Levels
BY CompiledIsRegistry, RegistryShape DEF level_for

\* A proposal is one, on the trail or handed to a Board.
LEMMA ProposedType ==
  ASSUME TypeOK
  PROVE  Handed \cup Proposed \subseteq Proposal
<1> SUFFICES ASSUME NEW m \in DOMAIN trail, trail[m].stage = "proposal"
             PROVE  trail[m].about \in Proposal
  BY HandedAssumption DEF Proposed
<1>1. trail[m] \in Act
  BY DEF TypeOK
<1> QED
  BY <1>1 DEF Act

\* The trail only grows, so the acts that raise a class go on standing.
LEMMA RaisingLasts ==
  ASSUME TypeOK, NEW act, trail' = Append(trail, act), NEW class, NEW level
  PROVE  Raising(class, level) \subseteq Raising(class, level)'
<1>1. \A n \in DOMAIN trail : n \in DOMAIN trail' /\ trail'[n] = trail[n]
  BY DEF TypeOK
<1> QED
  BY <1>1 DEF Raising

\* So does the authority they give.
LEMMA AuthorityLasts ==
  ASSUME TypeOK, NEW act, trail' = Append(trail, act),
         NEW class, NEW level, Authorised(class, level)
  PROVE  Authorised(class, level)'
<1>1. PICK n \in Raising(class, level) :
        \/ trail[n].about.from = level_for(class)
        \/ \E m \in Raising(class, trail[n].about.from) : m < n
  BY DEF Authorised
<1>2. n \in DOMAIN trail /\ trail'[n] = trail[n]
  BY <1>1 DEF Raising, TypeOK
<1>3. n \in Raising(class, level)'
  BY <1>1, RaisingLasts
<1>4. PICK from : from = trail[n].about.from
  OBVIOUS
<1>5. Raising(class, from) \subseteq Raising(class, from)'
  BY RaisingLasts
<1>6. \/ trail'[n].about.from = level_for(class)
      \/ \E m \in Raising(class, from)' : m < n
  BY <1>1, <1>2, <1>4, <1>5
<1> QED
  BY <1>2, <1>3, <1>4, <1>6 DEF Authorised

\* An act that leaves the registries alone.
LEMMA TrailGrows ==
  ASSUME Inv, NEW act \in Act, Record(act), UNCHANGED registries
  PROVE  Inv'
<1>1. TypeOK'
  BY ActsAssumption DEF Inv, TypeOK, Record
<1>2. ASSUME NEW registry \in registries PROVE Sound(registry)'
  <2>1. Sound(registry) /\ trail' = Append(trail, act) /\ TypeOK
    BY DEF Inv, Record
  <2> QED
    BY <2>1, AuthorityLasts DEF Sound
<1> QED
  BY <1>1, <1>2 DEF Inv

------------------------------------------------------------------------------
LEMMA InitInv == Init => Inv
<1> SUFFICES ASSUME Init PROVE Inv
  OBVIOUS
<1>1. TypeOK
  BY CompiledIsRegistry, ActsAssumption DEF Init, TypeOK
<1>2. Sound(ACTION_CLASS_REGISTRY)
  <2>1. ASSUME NEW class \in Classes
        PROVE  Rank(LevelIn(ACTION_CLASS_REGISTRY, class)) >= Rank(level_for(class))
    BY LevelForType, Ranks DEF level_for
  <2> QED
    BY <2>1 DEF Sound, Compiled
<1> QED
  BY <1>1, <1>2 DEF Inv, Init

LEMMA ProposePreserves ==
  ASSUME Inv, NEW registry \in registries, NEW about \in Handed,
         Propose(registry, about.class, about.to, about.evidence)
  PROVE  Inv'
<1> DEFINE act == [stage |-> "proposal",
                   about |-> [class |-> about.class, from |-> LevelIn(registry, about.class),
                              to |-> about.to, evidence |-> about.evidence]]
<1>1. LevelIn(registry, about.class) \in Levels /\ about \in Proposal
  BY RegistryShape, HandedAssumption DEF Inv, TypeOK
<1>2. act \in Act
  BY <1>1 DEF Act, Proposal
<1> QED
  BY <1>2, TrailGrows DEF Propose

LEMMA RefusePreserves ==
  ASSUME Inv, NEW registry \in registries, NEW about \in Handed \cup Proposed, NEW ratifier \in Actors,
         RefuseRatify(registry, about, ratifier)
  PROVE  Inv'
<1> DEFINE act == [stage |-> "amendment", decision |-> "block", about |-> about, by |-> ratifier]
<1>1. act \in Act
  BY ProposedType DEF Inv, Act
<1> QED
  BY <1>1, TrailGrows DEF RefuseRatify

LEMMA ContentPreserves ==
  ASSUME Inv, NEW ratifier \in Actors, RatifyContent(ratifier)
  PROVE  Inv'
<1> DEFINE act == [stage |-> "content", by |-> ratifier,
                   decision |-> IF IsBoard(ratifier) THEN "ratified" ELSE "block"]
<1>1. act \in Act
  BY DEF Act
<1> QED
  BY <1>1, TrailGrows DEF RatifyContent

\* An amended registry lists one class anew, above what it was and on the Board's authority.
LEMMA RatifyPreserves ==
  ASSUME Inv, NEW registry \in registries, NEW about \in Handed \cup Proposed, NEW ratifier \in Actors,
         Ratify(registry, about, ratifier)
  PROVE  Inv'
<1> DEFINE act == [stage |-> "amendment", decision |-> "ratified", about |-> about, by |-> ratifier]
           amended == Amend(registry, about)
<1>1. about \in Proposal /\ about.class \in Classes /\ about.to \in Levels
  BY ProposedType DEF Inv, Proposal
<1>2. act \in Act /\ trail \in Seq(Act) /\ TypeOK
  BY <1>1 DEF Act, Inv, TypeOK
<1>3. registry \in Registries /\ Sound(registry)
  BY DEF Inv, TypeOK
<1>4. trail' = Append(trail, act) /\ Len(trail) < MaxActs /\ registries' = registries \cup {amended}
  BY DEF Ratify, Record
<1>5. amended \in Registries
  <2>1. amended \in [DOMAIN registry \cup {about.class} -> Levels]
    BY <1>1, <1>3, RegistryShape DEF Amend
  <2>2. DOMAIN registry \cup {about.class} \in SUBSET Classes
    BY <1>1, <1>3, RegistryShape
  <2> QED
    BY <2>1, <2>2 DEF Registries
<1>6. TypeOK'
  BY <1>2, <1>4, <1>5, ActsAssumption DEF TypeOK
<1>7. \A class, level : Authorised(class, level) => Authorised(class, level)'
  BY <1>2, <1>4, AuthorityLasts
<1>8. ASSUME NEW other \in registries PROVE Sound(other)'
  <2>1. Sound(other)
    BY DEF Inv
  <2> QED
    BY <2>1, <1>7 DEF Sound
<1>9. Authorised(about.class, about.to)'
  <2> DEFINE last == Len(trail) + 1
  <2>1. /\ DOMAIN trail = 1 .. Len(trail) /\ DOMAIN trail' = 1 .. last
        /\ trail'[last] = act /\ last \in DOMAIN trail' /\ \A m \in DOMAIN trail : m < last
    BY <1>2, <1>4
  <2>2. /\ about.evidence /\ ratifier.mode = "human" /\ ratifier.version \in Members
        /\ about.from = LevelIn(registry, about.class)
        /\ Rank(about.to) > Rank(about.from)
    BY DEF Ratify, Ratifiable, IsBoard, Raises
  <2>3. last \in Raising(about.class, about.to)'
    BY <2>1, <2>2 DEF Raising
  <2>4. \/ about.from = level_for(about.class)
        \/ \E m \in Raising(about.class, about.from)' : m < last
    <3>1. CASE about.class \notin DOMAIN registry
      <4>1. about.from = "L0" /\ level_for(about.class) \in Levels
        BY <2>2, <3>1, LevelForType DEF LevelIn
      <4>2. Rank(about.from) >= Rank(level_for(about.class))
        BY <1>1, <1>3, <2>2 DEF Sound
      <4> QED
        BY <4>1, <4>2, Ranks
    <3>2. CASE about.class \in DOMAIN registry
      <4>1. about.from = registry[about.class]
        BY <2>2, <3>2 DEF LevelIn
      <4>2. Compiled(about.class, about.from) \/ Authorised(about.class, about.from)
        BY <1>1, <1>3, <3>2, <4>1 DEF Sound
      <4>3. Compiled(about.class, about.from) => about.from = level_for(about.class)
        BY DEF Compiled, level_for, LevelIn
      <4>4. ASSUME Authorised(about.class, about.from)
            PROVE  \E m \in Raising(about.class, about.from)' : m < last
        <5>1. PICK m \in Raising(about.class, about.from) : TRUE
          BY <4>4 DEF Authorised
        <5>2. m \in DOMAIN trail
          BY <5>1 DEF Raising
        <5> QED
          BY <1>2, <1>4, <2>1, <5>1, <5>2, RaisingLasts
      <4> QED
        BY <4>2, <4>3, <4>4
    <3> QED
      BY <3>1, <3>2
  <2>5. trail'[last].about.from = about.from
    BY <2>1
  <2> HIDE DEF last, act
  <2> QED
    BY <2>3, <2>4, <2>5 DEF Authorised
<1>10. Sound(amended)'
  <2> SUFFICES ASSUME NEW class \in Classes
               PROVE  /\ Rank(LevelIn(amended, class)) >= Rank(level_for(class))
                      /\ class \in DOMAIN amended =>
                           Compiled(class, amended[class]) \/ Authorised(class, amended[class])'
    BY DEF Sound
  <2>1. CASE class = about.class
    <3>1. LevelIn(amended, class) = about.to /\ amended[class] = about.to
      BY <2>1 DEF Amend, LevelIn
    <3>2. Rank(about.to) > Rank(LevelIn(registry, class))
      BY <2>1 DEF Ratify, Ratifiable, Raises
    <3>3. Rank(LevelIn(registry, class)) >= Rank(level_for(class))
      BY <1>3 DEF Sound
    <3>4. /\ about.to \in Levels /\ level_for(class) \in Levels
          /\ LevelIn(registry, class) \in Levels
      BY <1>1, <1>3, LevelForType, RegistryShape
    <3>5. \A level \in Levels : Rank(level) \in Nat
      BY Ranks
    <3>6. Rank(about.to) >= Rank(level_for(class))
      BY <3>2, <3>3, <3>4, <3>5
    <3> QED
      BY <3>1, <3>6, <1>9, <2>1
  <2>2. CASE class # about.class
    <3>1. LevelIn(amended, class) = LevelIn(registry, class)
      BY <2>2 DEF Amend, LevelIn
    <3>2. class \in DOMAIN amended => class \in DOMAIN registry /\ amended[class] = registry[class]
      BY <2>2 DEF Amend
    <3> QED
      BY <3>1, <3>2, <1>3, <1>7 DEF Sound
  <2> QED
    BY <2>1, <2>2
<1> QED
  BY <1>4, <1>6, <1>8, <1>10 DEF Inv

LEMMA StepPreserves == Inv /\ [Next]_vars => Inv'
<1> SUFFICES ASSUME Inv, [Next]_vars PROVE Inv'
  OBVIOUS
<1>1. ASSUME NEW registry \in registries, NEW about \in Handed,
             Propose(registry, about.class, about.to, about.evidence)
      PROVE  Inv'
  BY <1>1, ProposePreserves
<1>2. ASSUME NEW registry \in registries, NEW about \in Handed \cup Proposed, NEW ratifier \in Actors,
             Ratify(registry, about, ratifier)
      PROVE  Inv'
  BY <1>2, RatifyPreserves
<1>3. ASSUME NEW registry \in registries, NEW about \in Handed \cup Proposed, NEW ratifier \in Actors,
             RefuseRatify(registry, about, ratifier)
      PROVE  Inv'
  BY <1>3, RefusePreserves
<1>4. ASSUME NEW ratifier \in Actors, RatifyContent(ratifier)
      PROVE  Inv'
  BY <1>4, ContentPreserves
<1>5. CASE UNCHANGED vars
  <2>1. UNCHANGED <<trail, registries>>
    BY <1>5 DEF vars
  <2> QED
    BY <2>1 DEF Inv, TypeOK, Sound, Authorised, Raising
<1> QED
  BY <1>1, <1>2, <1>3, <1>4, <1>5 DEF Next

------------------------------------------------------------------------------
\* The invariant gives the properties.
LEMMA InvGate == Inv => GateOnAuthority
<1> SUFFICES ASSUME Inv, NEW registry \in registries, NEW class \in Classes,
                    NEW mode \in {"human", "agent"}, Decide(registry, class, mode).allowed
             PROVE  /\ class # "CLASS_PRODUCTION"
                    /\ \/ Compiled(class, Decide(registry, class, mode).level)
                       \/ Authorised(class, Decide(registry, class, mode).level)
  BY DEF GateOnAuthority, Compiled
<1>1. /\ class \in DOMAIN registry /\ class \notin BoundaryClasses
      /\ Decide(registry, class, mode).level = LevelIn(registry, class)
  BY DEF Decide
<1>2. LevelIn(registry, class) = registry[class]
  BY <1>1 DEF LevelIn
<1> QED
  BY <1>1, <1>2 DEF Inv, Sound, BoundaryClasses

LEMMA InvPauses == Inv => PausesConservative
<1> SUFFICES ASSUME Inv, NEW registry \in registries, NEW class \in Classes
             PROVE  LET level == Decide(registry, class, "agent").level
                    IN  /\ level = "L1" => level_for(class) \in {"L0", "L1"}
                        /\ capability_floor(class) >= Floor(level)
  BY DEF PausesConservative
<1>1. Decide(registry, class, "agent").level = LevelIn(registry, class)
  BY DEF Decide
<1>2. LevelIn(registry, class) \in Levels /\ level_for(class) \in Levels
  BY RegistryShape, LevelForType DEF Inv, TypeOK
<1>3. Rank(LevelIn(registry, class)) >= Rank(level_for(class))
  BY DEF Inv, Sound
<1>4. \A high \in Levels, low \in Levels :
        Rank(high) >= Rank(low) => /\ high = "L1" => low \in {"L0", "L1"}
                                   /\ Floor(low) >= Floor(high)
  BY Ranks
<1> QED
  BY <1>1, <1>2, <1>3, <1>4 DEF capability_floor

\* Every run keeps to the invariant.
THEOREM Invariance == Spec => []Inv
<1> QED
  BY InitInv, StepPreserves, PTL DEF Spec

\* The Board trail and the registries keep their types (propose, ratify, _block).
THEOREM TypeCorrect == Spec => []TypeOK
<1>1. Inv => TypeOK
  BY DEF Inv
<1> QED
  BY <1>1, Invariance, PTL

\* However many Boards ratify proposals made at one another or nowhere, late or twice, a gate
\* compiled from a registry they leave behind acts at the compiled level or at one that human
\* members have raised the class to on evidence, from a level in force; and none takes a
\* production-affecting action.
THEOREM AuthorityFromBoard == Spec => []GateOnAuthority
BY Invariance, InvGate, PTL

\* The handbrake's pauses and the Optimizer's floor, read from the compiled table, are never
\* laxer than a gate compiled from any amended registry.
THEOREM TableErrsSafe == Spec => []PausesConservative
BY Invariance, InvPauses, PTL
==============================================================================
