----------------------------- MODULE ObserveProofs -----------------------------
(***************************************************************************)
(* The inspector's report is right, for any plans, seats, revisions and    *)
(* bounds.                                                                 *)
(***************************************************************************)
EXTENDS Observe, HandbrakeFlowProofs

------------------------------------------------------------------------------
(* The invariant. *)

\* The last verdict on the trail is d.
Told(d) ==
  \E n \in DOMAIN log :
    /\ log[n].stage = "verify" /\ log[n].decision = d
    /\ \A m \in n + 1 .. Len(log) : log[m].stage # "verify"

\* The prefix is derived once, a verdict is on something executed, and no attempt is made twice:
\* the executions so far are at the position the loop has reached or before it.
Attempted ==
  /\ \A n, m \in DOMAIN log : log[n].stage = "specify" /\ log[m].stage = "specify" => n = m
  /\ \A n \in DOMAIN log : log[n].stage = "verify" =>
       \E m \in DOMAIN log : log[m].stage = "execute" /\ log[m].item = log[n].item
  /\ \A n, m \in DOMAIN log :
       /\ log[n].stage = "execute" /\ log[m].stage = "execute"
       /\ log[n].item = log[m].item /\ log[n].attempt = log[m].attempt
       => n = m
  /\ \A n \in DOMAIN log : log[n].stage = "execute" =>
       /\ Position.at = "execute" =>
            \/ log[n].item < Position.item
            \/ log[n].item = Position.item /\ log[n].attempt < Position.attempt
       /\ Position.at = "verify" =>
            \/ log[n].item < Position.item
            \/ log[n].item = Position.item /\ log[n].attempt <= Position.attempt

\* An effect on the trail is complete in the ledger, but for the one of the output that waits
\* for its verdict.
Confirmed ==
  \A n \in DOMAIN log : log[n].stage = "act" =>
    /\ log[n].item \in Items /\ log[n].output.id \in OutputIds
    /\ \/ ledger[<<log[n].item, log[n].output.id>>].status = "completed"
       \/ /\ Position.at = "verify" /\ Position.item = log[n].item
          /\ Position.output.id = log[n].output.id

ReportInv ==
  /\ Attempted
  /\ Confirmed
  /\ returned \in Decisions => Told(returned)

------------------------------------------------------------------------------
(* The invariant holds. *)

\* An item's last verdict is the flow's last, unless the flow has gone on to another item.
LEMMA LatestIsLast ==
  ASSUME TypeInv, OrderInv, FlowInv, NEW i \in Items, HasVerdict(i),
         LatestVerdict(i) # "pass" \/ i = Len(plan)
  PROVE  Told(LatestVerdict(i))
<1>1. /\ log \in Seq(Event) /\ Len(log) \in Nat /\ DOMAIN log = 1 .. Len(log)
      /\ Len(plan) \in Nat /\ Items = 1 .. Len(plan)
  BY PlanShape DEF TypeInv, TypeOK
<1>2. PICK n \in DOMAIN log :
        /\ log[n].stage = "verify" /\ log[n].item = i /\ LatestVerdict(i) = log[n].decision
        /\ \A m \in n + 1 .. Len(log) : ~(log[m].stage = "verify" /\ log[m].item = i)
  BY <1>1, VerdictReturned
<1>3. ASSUME NEW m \in n + 1 .. Len(log), log[m].stage = "verify" PROVE FALSE
  <2>1. m \in DOMAIN log /\ n \in 1 .. m - 1
    BY <1>1
  <2>2. log[m].item \in Items /\ i <= log[m].item /\ Done(log[m].item)
    BY <1>2, <1>3, <2>1 DEF FlowInv, LoopOrdered, InLoop, TypeInv, Marked
  <2>3. log[m].item # i
    BY <1>2, <1>3
  <2>4. i \in 1 .. log[m].item - 1 /\ i # Len(plan)
    BY <1>1, <2>2, <2>3
  <2>5. HasPass(i)
    BY <2>2, <2>4 DEF Done
  <2>6. Passed(i)
    BY <1>1, <2>5, PassIsLast DEF OrderInv
  <2> QED
    BY <2>4, <2>6 DEF Passed
<1> QED
  BY <1>2, <1>3 DEF Told

\* Steps that append nothing and undo no effect.
LEMMA ReportQuiet ==
  ASSUME ReportInv, log' = log, plan' = plan,
         \A k \in Items \X OutputIds : ledger[k].status = "completed" => ledger'[k].status = "completed",
         returned' \in Decisions => Told(returned')
  PROVE  ReportInv'
<1>1. Position' = Position
  BY PositionStays
<1>2. Attempted'
  BY <1>1 DEF ReportInv, Attempted
<1>3. Confirmed'
  BY <1>1 DEF ReportInv, Confirmed, Items
<1>4. \A d : Told(d) => Told(d)'
  BY DEF Told
<1>5. returned' \in Decisions => Told(returned)'
  BY DEF Told
<1> QED
  BY <1>2, <1>3, <1>5 DEF ReportInv

\* Steps that append an event outside the loop.
LEMMA ReportEmit ==
  ASSUME TypeInv, ReportInv, NEW e \in Event, Emit(e), plan' = plan, ledger' = ledger, ~InLoop(e),
         e.stage = "specify" => ~Logged("specify"),
         e.stage = "act" => /\ e.item \in Items /\ e.output.id \in OutputIds
                            /\ Position.at = "verify" /\ Position.item = e.item
                            /\ Position.output.id = e.output.id,
         returned' \in Decisions => returned' = returned
  PROVE  ReportInv'
<1>1. /\ log \in Seq(Event) /\ Len(log) \in Nat /\ Len(log') = Len(log) + 1
      /\ DOMAIN log = 1 .. Len(log) /\ DOMAIN log' = 1 .. Len(log) + 1
      /\ \A n \in 1 .. Len(log) : log'[n] = log[n]
      /\ log'[Len(log) + 1] = e
  BY Appended DEF Emit, TypeInv, TypeOK
<1>2. Position' = Position
  BY <1>1, PositionMoves
<1>3. \A n \in DOMAIN log' : (n \in DOMAIN log /\ log'[n] = log[n]) \/ (n = Len(log) + 1 /\ log'[n] = e)
  BY <1>1
<1>4. \A n \in DOMAIN log : n \in DOMAIN log' /\ log'[n] = log[n]
  BY <1>1
<1>5. e.stage \notin {"execute", "verify"}
  BY DEF InLoop
<1>6. Attempted'
  <2>1. \A n, m \in DOMAIN log' : log'[n].stage = "specify" /\ log'[m].stage = "specify" => n = m
    BY <1>3 DEF ReportInv, Attempted, Logged
  <2>2. \A n \in DOMAIN log' : log'[n].stage = "verify" =>
          \E m \in DOMAIN log' : log'[m].stage = "execute" /\ log'[m].item = log'[n].item
    BY <1>3, <1>4, <1>5 DEF ReportInv, Attempted
  <2>3. \A n \in DOMAIN log' : log'[n].stage = "execute" => n \in DOMAIN log /\ log'[n] = log[n]
    BY <1>3, <1>5
  <2> QED
    BY <1>2, <2>1, <2>2, <2>3 DEF ReportInv, Attempted
<1>7. Confirmed'
  <2> SUFFICES ASSUME NEW n \in DOMAIN log', log'[n].stage = "act"
               PROVE  /\ log'[n].item \in Items /\ log'[n].output.id \in OutputIds
                      /\ \/ ledger[<<log'[n].item, log'[n].output.id>>].status = "completed"
                         \/ /\ Position.at = "verify" /\ Position.item = log'[n].item
                            /\ Position.output.id = log'[n].output.id
    BY <1>2 DEF Confirmed, Items
  <2> QED
    BY <1>3 DEF ReportInv, Confirmed
<1>8. ASSUME returned' \in Decisions, NEW d, d = returned' PROVE Told(d)'
  <2>1. PICK n \in DOMAIN log :
          /\ log[n].stage = "verify" /\ log[n].decision = d
          /\ \A m \in n + 1 .. Len(log) : log[m].stage # "verify"
    BY <1>8 DEF ReportInv, Told
  <2>2. \A m \in n + 1 .. Len(log') : log'[m].stage # "verify"
    BY <1>1, <1>5, <2>1
  <2> QED
    BY <1>4, <2>1, <2>2 DEF Told
<1>9. returned' \in Decisions => Told(returned)'
  <2> SUFFICES ASSUME returned' \in Decisions PROVE Told(returned)'
    OBVIOUS
  <2>1. PICK d : d = returned'
    OBVIOUS
  <2>2. Told(d)'
    BY <1>8, <2>1
  <2> QED
    BY <2>1, <2>2 DEF Told
<1> QED
  BY <1>6, <1>7, <1>9 DEF ReportInv

\* Marking an output makes an attempt that was not made before, when no effect is open.
LEMMA ReportMark == ASSUME TypeInv, PauseInv, FlowInv, ReportInv, Mark PROVE ReportInv'
<1> DEFINE e == [stage |-> "execute", item |-> index, attempt |-> attempt, output |-> output]
<1>1. /\ index \in Items /\ index \in Nat /\ attempt \in Nat /\ output \in Output
      /\ e \in Event /\ Emit(e) /\ pc = "mark"
      /\ UNCHANGED <<plan, ledger, returned>>
  <2>1. index \in Nat /\ attempt \in Nat /\ output \in Output
    BY PlanShape, Bounds DEF TypeInv, TypeOK
  <2> QED
    BY <2>1 DEF Mark, Event, Quiet, Hold, TypeInv, AtItem, Working
<1>2. /\ e.stage = "execute" /\ e.item = index /\ e.attempt = attempt
      /\ After(e) = [at |-> "verify", item |-> index, attempt |-> attempt, output |-> output]
  BY DEF After
<1> HIDE DEF e
<1>3. /\ log \in Seq(Event) /\ Len(log) \in Nat /\ Len(log') = Len(log) + 1
      /\ DOMAIN log = 1 .. Len(log) /\ DOMAIN log' = 1 .. Len(log) + 1
      /\ \A n \in 1 .. Len(log) : log'[n] = log[n]
      /\ log'[Len(log) + 1] = e
  BY <1>1, Appended DEF Emit, TypeInv, TypeOK
<1>4. Position' = [at |-> "verify", item |-> index, attempt |-> attempt, output |-> output]
  BY <1>1, <1>2, <1>3, PositionMoves DEF InLoop
<1>5. Position.at = "execute" /\ Position.item = index /\ Position.attempt = attempt
  BY <1>1 DEF FlowInv, AtPosition
<1>6. \A n \in DOMAIN log' : (n \in DOMAIN log /\ log'[n] = log[n]) \/ (n = Len(log) + 1 /\ log'[n] = e)
  BY <1>3
<1>7. \A n \in DOMAIN log : n \in DOMAIN log' /\ log'[n] = log[n]
  BY <1>3
<1>8. \A n \in DOMAIN log : log[n].stage = "execute" =>
        /\ log[n].item \in Nat /\ log[n].attempt \in Nat
        /\ log[n].item < index \/ (log[n].item = index /\ log[n].attempt < attempt)
  BY <1>3, <1>5, EventFields DEF ReportInv, Attempted
<1>9. Attempted'
  <2>1. \A n, m \in DOMAIN log' : log'[n].stage = "specify" /\ log'[m].stage = "specify" => n = m
    BY <1>2, <1>6 DEF ReportInv, Attempted
  <2>2. \A n \in DOMAIN log' : log'[n].stage = "verify" =>
          \E m \in DOMAIN log' : log'[m].stage = "execute" /\ log'[m].item = log'[n].item
    BY <1>2, <1>6, <1>7 DEF ReportInv, Attempted
  <2>3. \A n, m \in DOMAIN log' :
          /\ log'[n].stage = "execute" /\ log'[m].stage = "execute"
          /\ log'[n].item = log'[m].item /\ log'[n].attempt = log'[m].attempt
          => n = m
    <3> SUFFICES ASSUME NEW n \in DOMAIN log', NEW m \in DOMAIN log',
                        log'[n].stage = "execute", log'[m].stage = "execute",
                        log'[n].item = log'[m].item, log'[n].attempt = log'[m].attempt
                 PROVE  n = m
      OBVIOUS
    <3>1. CASE n \in DOMAIN log /\ m \in DOMAIN log
      BY <1>7, <3>1 DEF ReportInv, Attempted
    <3>2. CASE n \in DOMAIN log /\ m = Len(log) + 1
      <4>1. log[n].stage = "execute" /\ log[n].item = index /\ log[n].attempt = attempt
        BY <1>2, <1>3, <3>2
      <4> QED
        BY <1>1, <1>8, <3>2, <4>1
    <3>3. CASE m \in DOMAIN log /\ n = Len(log) + 1
      <4>1. log[m].stage = "execute" /\ log[m].item = index /\ log[m].attempt = attempt
        BY <1>2, <1>3, <3>3
      <4> QED
        BY <1>1, <1>8, <3>3, <4>1
    <3> QED
      BY <1>6, <3>1, <3>2, <3>3
  <2>4. \A n \in DOMAIN log' : log'[n].stage = "execute" =>
          \/ log'[n].item < index
          \/ log'[n].item = index /\ log'[n].attempt <= attempt
    BY <1>1, <1>2, <1>6, <1>8
  <2> QED
    BY <1>4, <2>1, <2>2, <2>3, <2>4 DEF Attempted
<1>10. Confirmed'
  <2> SUFFICES ASSUME NEW n \in DOMAIN log', log'[n].stage = "act"
               PROVE  /\ log'[n].item \in Items /\ log'[n].output.id \in OutputIds
                      /\ ledger[<<log'[n].item, log'[n].output.id>>].status = "completed"
    BY <1>1 DEF Confirmed, Items
  <2> QED
    BY <1>2, <1>5, <1>6 DEF ReportInv, Confirmed
<1>11. returned' \notin Decisions
  BY <1>1 DEF PauseInv, Decisions
<1> QED
  BY <1>9, <1>10, <1>11 DEF ReportInv

\* An output waits for its verdict because it was marked.
LEMMA WaitingMarked ==
  ASSUME log \in Seq(Event), Position.at = "verify"
  PROVE  \E n \in DOMAIN log : LastInLoop(n) /\ log[n].stage = "execute" /\ log[n].item = Position.item
<1>1. \E n \in DOMAIN log : InLoop(log[n])
  BY PositionIs
<1>2. PICK n : LastInLoop(n)
  BY <1>1, LastPlace
<1>3. n \in DOMAIN log /\ Position = After(log[n])
  BY <1>2, PositionIs DEF LastInLoop
<1>4. log[n].stage = "execute"
  BY <1>3 DEF After
<1>5. log[n].item = Position.item
  BY <1>3, <1>4 DEF After
<1> QED
  BY <1>2, <1>3, <1>4, <1>5

\* A verdict moves the loop on to an attempt that was not made before; its output's effect is
\* complete, and what the call returns is that verdict.
LEMMA ReportVerify ==
  ASSUME TypeInv, PauseInv, EffectInv, FlowInv, ReportInv, NEW decision \in Decisions, Verify(decision)
  PROVE  ReportInv'
<1> DEFINE e == [stage |-> "verify", item |-> index, attempt |-> attempt, output |-> output,
                 decision |-> decision]
<1>1. /\ index \in Nat /\ attempt \in Nat /\ output \in Output /\ MaxRevisions \in Nat
      /\ e \in Event /\ Emit(e) /\ pc = "verify"
      /\ UNCHANGED <<plan, ledger>> /\ returned' \in {returned, decision}
  <2>1. index \in Nat /\ attempt \in Nat /\ output \in Output /\ MaxRevisions \in Nat
    BY PlanShape, Bounds DEF TypeInv, TypeOK
  <2>2. e \in Event
    BY <2>1 DEF Event
  <2> QED
    BY <2>1, <2>2 DEF Verify, Quiet, NextItem, Return, Hold
<1>2. /\ e.stage = "verify" /\ e.item = index /\ e.attempt = attempt /\ e.decision = decision
      /\ \/ After(e).at = "execute" /\ After(e).item = index /\ After(e).attempt = attempt + 1
         \/ After(e).at = "execute" /\ After(e).item = index + 1 /\ After(e).attempt = 0
         \/ After(e).at = "over"
  BY DEF After
<1> HIDE DEF e
<1>3. /\ log \in Seq(Event) /\ Len(log) \in Nat /\ Len(log') = Len(log) + 1
      /\ DOMAIN log = 1 .. Len(log) /\ DOMAIN log' = 1 .. Len(log) + 1
      /\ \A n \in 1 .. Len(log) : log'[n] = log[n]
      /\ log'[Len(log) + 1] = e
  BY <1>1, Appended DEF Emit, TypeInv, TypeOK
<1>4. Position' = After(e)
  BY <1>1, <1>2, <1>3, PositionMoves DEF InLoop
<1>5. Position = [at |-> "verify", item |-> index, attempt |-> attempt, output |-> output]
  BY <1>1 DEF FlowInv, AtPosition, Working
<1>6. \A n \in DOMAIN log' : (n \in DOMAIN log /\ log'[n] = log[n]) \/ (n = Len(log) + 1 /\ log'[n] = e)
  BY <1>3
<1>7. \A n \in DOMAIN log : n \in DOMAIN log' /\ log'[n] = log[n]
  BY <1>3
<1>8. \A n \in DOMAIN log : log[n].stage = "execute" =>
        /\ log[n].item \in Nat /\ log[n].attempt \in Nat
        /\ log[n].item < index \/ (log[n].item = index /\ log[n].attempt <= attempt)
  BY <1>3, <1>5, EventFields DEF ReportInv, Attempted
<1>9. Attempted'
  <2>1. \A n, m \in DOMAIN log' : log'[n].stage = "specify" /\ log'[m].stage = "specify" => n = m
    BY <1>2, <1>6 DEF ReportInv, Attempted
  <2>2. PICK k \in DOMAIN log : log[k].stage = "execute" /\ log[k].item = index
    BY <1>3, <1>5, WaitingMarked
  <2>3. \A n \in DOMAIN log' : log'[n].stage = "verify" =>
          \E m \in DOMAIN log' : log'[m].stage = "execute" /\ log'[m].item = log'[n].item
    BY <1>2, <1>6, <1>7, <2>2 DEF ReportInv, Attempted
  <2>4. \A n \in DOMAIN log' : log'[n].stage = "execute" => n \in DOMAIN log /\ log'[n] = log[n]
    BY <1>2, <1>6
  <2>5. \A n \in DOMAIN log' : log'[n].stage = "execute" =>
          /\ Position'.at = "execute" =>
               \/ log'[n].item < Position'.item
               \/ log'[n].item = Position'.item /\ log'[n].attempt < Position'.attempt
          /\ Position'.at # "verify"
    <3> SUFFICES ASSUME NEW n \in DOMAIN log', log'[n].stage = "execute"
                 PROVE  /\ Position'.at = "execute" =>
                             \/ log'[n].item < Position'.item
                             \/ log'[n].item = Position'.item /\ log'[n].attempt < Position'.attempt
                        /\ Position'.at # "verify"
      OBVIOUS
    <3>1. /\ log'[n].item \in Nat /\ log'[n].attempt \in Nat
          /\ log'[n].item < index \/ (log'[n].item = index /\ log'[n].attempt <= attempt)
      BY <1>8, <2>4
    <3> QED
      BY <1>1, <1>2, <1>4, <3>1
  <2> QED
    BY <2>1, <2>3, <2>4, <2>5 DEF ReportInv, Attempted
<1>10. Confirmed'
  <2> SUFFICES ASSUME NEW n \in DOMAIN log', log'[n].stage = "act"
               PROVE  /\ log'[n].item \in Items /\ log'[n].output.id \in OutputIds
                      /\ ledger[<<log'[n].item, log'[n].output.id>>].status = "completed"
    BY <1>1 DEF Confirmed, Items
  <2>1. ledger[<<index, output.id>>].status = "completed"
    BY <1>1 DEF EffectInv, Key
  <2> QED
    BY <1>2, <1>5, <1>6, <2>1 DEF ReportInv, Confirmed
<1>11. returned' \in Decisions => returned' = decision
  BY <1>1 DEF PauseInv, Decisions
<1>12. \A d : d = decision => Told(d)'
  <2>1. Len(log) + 1 \in DOMAIN log' /\ \A m \in (Len(log) + 1) + 1 .. Len(log') : FALSE
    BY <1>3
  <2>2. PICK last : last = Len(log) + 1
    OBVIOUS
  <2> QED
    BY <1>2, <1>3, <2>1, <2>2 DEF Told
<1>13. returned' \in Decisions => Told(returned)'
  BY <1>11, <1>12 DEF Told
<1> QED
  BY <1>9, <1>10, <1>13 DEF ReportInv

\* A call that finds a recorded verdict returns the flow's last.
LEMMA ReportReturns ==
  ASSUME TypeInv, OrderInv, FlowInv, PauseInv, pc # "idle",
         ReturnRecorded \/ \E inject : DoItem(inject) /\ pc \in {"gated", "resumed"}
  PROVE  returned' \in Decisions => Told(returned')
<1>1. returned \notin Decisions
  BY DEF PauseInv, Decisions
<1>2. Items = 1 .. Len(plan) /\ Len(plan) \in Nat /\ plan \in Seq(Levels)
  BY PlanShape DEF TypeInv, TypeOK
<1>3. CASE ReturnRecorded
  <2>1. Len(plan) \in Items
    BY <1>2, <1>3 DEF ReturnRecorded
  <2>2. Passed(Len(plan))
    BY <1>2, <1>3, <2>1, Unfinished DEF ReturnRecorded, TypeInv, TypeOK
  <2>3. HasVerdict(Len(plan)) /\ returned' = LatestVerdict(Len(plan))
    BY <1>3, <2>2 DEF ReturnRecorded, Return, Passed, HasVerdict
  <2> QED
    BY <2>1, <2>3, LatestIsLast
<1>4. ASSUME NEW inject, DoItem(inject), pc \in {"gated", "resumed"}, returned' \in Decisions
      PROVE  Told(returned')
  <2>1. index \in Items
    BY <1>4 DEF TypeInv, AtItem
  <2>2. HasVerdict(index) /\ NextItem(LatestVerdict(index))
    BY <1>1, <1>4 DEF DoItem, Hold
  <2>3. /\ LatestVerdict(index) # "pass" \/ index = Len(plan)
        /\ returned' = LatestVerdict(index)
    BY <1>1, <1>4, <2>2 DEF NextItem, Return, Hold
  <2> QED
    BY <2>1, <2>2, <2>3, LatestIsLast
<1> QED
  BY <1>3, <1>4

\* The driver's steps.
LEMMA ReportStep ==
  ASSUME TypeInv, PauseInv, OrderInv, EffectInv, FlowInv, ReportInv, Start \/ Resume \/ Step
  PROVE  ReportInv'
<1> USE DEF AtItem, Working
<1>1. /\ index \in Nat /\ attempt \in Nat /\ output \in Output
      /\ 1 .. Len(plan) = Items /\ Len(plan) \in Nat
      /\ pc \in AtItem => index \in Items
  BY PlanShape, Bounds DEF TypeInv, TypeOK
<1>2. "nothing" \notin Decisions /\ "raised" \notin Decisions /\ "blocked" \notin Decisions
      /\ "paused" \notin Decisions
  BY DEF Decisions
<1>3. returned \in Decisions => Told(returned)
  BY DEF ReportInv
<1>4. CASE Start \/ Resume
  BY <1>2, <1>4, ReportQuiet DEF Start, Resume, Call, durable
<1>5. CASE Specify
  <2>1. [stage |-> "specify"] \in Event
    BY DEF Event
  <2>2. ~Logged("specify")
    BY <1>5 DEF Specify, FlowInv, PrefixOrdered
  <2> QED
    BY <1>5, <2>1, <2>2, ReportEmit DEF Specify, Hold, Quiet, InLoop
<1>6. CASE Decompose
  <2>1. [stage |-> "decompose"] \in Event
    BY DEF Event
  <2> QED
    BY <1>6, <2>1, ReportEmit DEF Decompose, Hold, Quiet, InLoop
<1>7. CASE Reenter
  <2>1. FirstUnfinished \in Nat
    BY Unfinished, PlanShape DEF TypeInv, TypeOK
  <2>2. [stage |-> "reenter", item |-> FirstUnfinished] \in Event
    BY <2>1 DEF Event
  <2> QED
    BY <1>7, <2>2, ReportEmit DEF Reenter, Hold, Quiet, InLoop
<1>8. CASE LogResume
  <2>1. [stage |-> "resume", item |-> index] \in Event
    BY <1>1 DEF Event
  <2> QED
    BY <1>8, <2>1, ReportEmit DEF LogResume, Hold, Quiet, InLoop
<1>9. CASE Gate
  <2>1. [stage |-> "gate", item |-> index, allow |-> index \in allowed] \in Event
    BY <1>1 DEF Event
  <2>2. plan' = plan /\ (returned' = returned \/ returned' = "blocked")
    BY <1>9 DEF Gate, Hold, Return
  <2> QED
    BY <1>2, <1>9, <2>1, <2>2, ReportEmit DEF Gate, Quiet, InLoop
<1>10. CASE Pause
  <2>1. [stage |-> "breakpoint", item |-> index] \in Event
    BY <1>1 DEF Event
  <2> QED
    BY <1>10, <2>1, ReportEmit DEF Pause, Hold, Quiet, InLoop
<1>11. CASE ReturnRecorded \/ Advance \/ TakeOver
  <2>1. UNCHANGED <<log, plan, ledger>>
    BY <1>11 DEF ReturnRecorded, Advance, TakeOver, DoItem, NextItem, Hold, durable
  <2>2. returned' \in Decisions => Told(returned')
    BY <1>11, ReportReturns DEF ReturnRecorded, Advance, TakeOver
  <2> QED
    BY <2>1, <2>2, ReportQuiet
<1>12. CASE AssertFails \/ SaveCheckpoint \/ EffectBlocked \/ NotIndependent
  <2>1. UNCHANGED <<log, plan, ledger>> /\ returned' \in {"raised", "paused", "blocked"}
    BY <1>12 DEF AssertFails, SaveCheckpoint, EffectBlocked, NotIndependent, Return, durable
  <2> QED
    BY <1>2, <2>1, ReportQuiet
<1>13. CASE UseInjection \/ Execute \/ EffectCached
  <2>1. UNCHANGED <<log, plan, ledger, returned>>
    BY <1>13 DEF UseInjection, Execute, EffectCached, Hold, durable
  <2> QED
    BY <1>3, <2>1, ReportQuiet
<1>14. CASE Mark
  BY <1>14, ReportMark
<1>15. CASE BeginEffect
  <2>1. UNCHANGED <<log, plan, returned>> /\ ledger[Key].status # "completed"
        /\ ledger' = [ledger EXCEPT ![Key].status = "in_flight"]
    BY <1>15 DEF BeginEffect, Attemptable, Hold
  <2>2. \A k \in Items \X OutputIds : k # Key => ledger'[k] = ledger[k]
    BY <2>1 DEF TypeInv, TypeOK
  <2> QED
    BY <1>3, <2>1, <2>2, ReportQuiet
<1>16. CASE CompleteEffect
  <2>1. UNCHANGED <<log, plan, returned>>
        /\ ledger' = [ledger EXCEPT ![Key] = [status |-> "completed", output |-> output]]
    BY <1>16 DEF CompleteEffect, Hold
  <2>2. \A k \in Items \X OutputIds : ledger[k].status = "completed" => ledger'[k].status = "completed"
    BY <2>1 DEF TypeInv, TypeOK
  <2> QED
    BY <1>3, <2>1, <2>2, ReportQuiet
<1>17. CASE Act
  <2>1. [stage |-> "act", item |-> index, output |-> output] \in Event
    BY <1>1 DEF Event
  <2>2. index \in Items /\ output.id \in OutputIds
    BY <1>1, <1>17 DEF Act, TypeInv, Output
  <2>3. Position = [at |-> "verify", item |-> index, attempt |-> attempt, output |-> output]
    BY <1>17 DEF Act, FlowInv, AtPosition
  <2> QED
    BY <1>17, <2>1, <2>2, <2>3, ReportEmit DEF Act, Hold, Quiet, InLoop
<1>18. ASSUME NEW decision \in Decisions, Verify(decision) PROVE ReportInv'
  BY <1>18, ReportVerify
<1> QED
  BY <1>4, <1>5, <1>6, <1>7, <1>8, <1>9, <1>10, <1>11, <1>12, <1>13, <1>14, <1>15, <1>16,
     <1>17, <1>18 DEF Step

\* The human's steps, and the end of a call.
LEMMA ReportNext ==
  ASSUME TypeInv, PauseInv, OrderInv, EffectInv, FlowInv, ReportInv, [Next]_vars
  PROVE  ReportInv'
<1>1. CASE Start \/ Resume \/ Step
  BY <1>1, ReportStep
<1>2. CASE Inject \/ InjectRefused \/ SetBreakpoint \/ ClearBreakpoint
  <2>1. PICK e \in Event :
          /\ e.stage \in {"inject", "refused", "set_breakpoint", "clear_breakpoint"}
          /\ Emit(e)
    BY <1>2, HumanStep
  <2>2. UNCHANGED <<plan, ledger, returned>>
    BY <1>2, HumanStep
  <2> QED
    BY <2>1, <2>2, ReportEmit DEF InLoop
<1>3. CASE Cut
  <2>1. UNCHANGED <<log, plan, ledger>> /\ returned' \notin Decisions
    BY <1>3 DEF Cut, Return, durable, Decisions
  <2> QED
    BY <2>1, ReportQuiet
<1>4. CASE UNCHANGED vars
  <2>1. UNCHANGED <<log, plan, ledger, returned>>
    BY <1>4 DEF vars, durable
  <2> QED
    BY <2>1, ReportQuiet DEF ReportInv
<1> QED
  BY <1>1, <1>2, <1>3, <1>4 DEF Next

\* What the report is made from is in order throughout.
LEMMA ReportInvariance == Spec => []ReportInv
<1>1. Init => ReportInv
  BY DEF Init, ReportInv, Attempted, Confirmed, Decisions
<1>2. TypeInv /\ PauseInv /\ OrderInv /\ EffectInv /\ FlowInv /\ ReportInv /\ [Next]_vars => ReportInv'
  BY ReportNext
<1> QED
  BY <1>1, <1>2, TypeInvariance, PauseInvariance, OrderInvariance, EffectInvariance,
     FlowInvariance, PTL DEF Spec

------------------------------------------------------------------------------
(* Counting. *)

\* Two places that cannot both be there are one at most.
LEMMA OneAtMost ==
  ASSUME NEW S, \A n, m \in S : n = m
  PROVE  Cardinality(S) <= 1
<1>1. CASE S = {}
  BY <1>1, FS_EmptySet
<1>2. ASSUME NEW n \in S PROVE Cardinality(S) <= 1
  <2>1. S = {n} /\ Cardinality({n}) = 1
    BY <1>2, FS_Singleton
  <2> QED
    BY <2>1
<1> QED
  BY <1>1, <1>2

\* Counting from one to N counts N.
LEMMA CardinalityUpTo ==
  ASSUME NEW N \in Nat
  PROVE  IsFiniteSet(1 .. N) /\ Cardinality(1 .. N) = N
<1>1. IsFiniteSet(1 .. N) /\ Cardinality(1 .. N) = IF 1 > N THEN 0 ELSE N - 1 + 1
  BY 1 \in Int, N \in Int, FS_Interval, Zenon
<1>2. (IF 1 > N THEN 0 ELSE N - 1 + 1) = N
  OBVIOUS
<1> QED
  BY <1>1, <1>2

\* Every execution is another attempt at another item: there are at most MaxRevisions + 1 of each.
LEMMA AttemptsBounded ==
  ASSUME TypeInv, Attempted
  PROVE  Cardinality(Places("execute")) <= (MaxRevisions + 1) * Len(plan)
<1> DEFINE S == Places("execute")
           Attempt == 0 .. MaxRevisions
           T == Items \X Attempt
           f == [n \in S |-> <<log[n].item, log[n].attempt>>]
<1>1. /\ MaxRevisions \in Nat /\ Len(plan) \in Nat /\ Items = 1 .. Len(plan)
      /\ log \in Seq(Event) /\ DOMAIN log = 1 .. Len(log)
  BY PlanShape, Bounds DEF TypeInv, TypeOK
<1>2. ASSUME NEW n \in S PROVE log[n].item \in Items /\ log[n].attempt \in Attempt
  <2>1. n \in DOMAIN log /\ log[n].stage = "execute"
    BY DEF Places
  <2>2. log[n].attempt \in Nat
    BY <1>1, <2>1, EventFields
  <2> QED
    BY <1>1, <2>1, <2>2 DEF TypeInv, Marked
<1>3. f \in [S -> T]
  BY <1>2
<1>4. \A n, m \in S : f[n] = f[m] => n = m
  BY DEF Places, Attempted
<1>5. f \in Injection(S, T)
  <2> HIDE DEF f, S, T
  <2> QED
    BY <1>3, <1>4 DEF Injection, IsInjective
<1>6. /\ IsFiniteSet(Items) /\ Cardinality(Items) = Len(plan)
      /\ IsFiniteSet(Attempt) /\ Cardinality(Attempt) = MaxRevisions + 1
  <2>1. IsFiniteSet(1 .. Len(plan)) /\ IsFiniteSet(0 .. MaxRevisions)
    BY <1>1, FS_Interval
  <2>2. Cardinality(1 .. Len(plan)) = Len(plan)
    BY <1>1, CardinalityUpTo
  <2>3. Cardinality(0 .. MaxRevisions) = IF 0 > MaxRevisions THEN 0 ELSE MaxRevisions - 0 + 1
    BY <1>1, FS_Interval
  <2> QED
    BY <1>1, <2>1, <2>2, <2>3
<1>7. IsFiniteSet(T) /\ Cardinality(T) = Len(plan) * (MaxRevisions + 1)
  <2> HIDE DEF Attempt
  <2> QED
    BY <1>6, FS_Product
<1>8. Cardinality(S) <= Cardinality(T)
  <2> HIDE DEF f, S, T
  <2> QED
    BY <1>5, <1>7, FS_Injection
<1>9. Len(plan) * (MaxRevisions + 1) = (MaxRevisions + 1) * Len(plan)
  BY <1>1
<1> QED
  BY <1>7, <1>8, <1>9

\* Where every item has passed, each has been executed.
LEMMA AllAttempted ==
  ASSUME TypeInv, Attempted, Done(Len(plan) + 1)
  PROVE  Cardinality(Places("execute")) >= Len(plan)
<1> DEFINE S == {n \in Places("execute") : log[n].item \in Items}
           f == [n \in S |-> log[n].item]
<1>1. /\ Len(plan) \in Nat /\ Items = 1 .. Len(plan) /\ Len(log) \in Nat
      /\ log \in Seq(Event) /\ DOMAIN log = 1 .. Len(log)
  BY PlanShape DEF TypeInv, TypeOK
<1>2. ASSUME NEW i \in Items PROVE \E n \in S : f[n] = i
  <2>1. HasPass(i)
    BY <1>1 DEF Done
  <2>2. PICK n \in DOMAIN log : log[n].stage = "execute" /\ log[n].item = i
    BY <2>1 DEF HasPass, Attempted
  <2> QED
    BY <2>2 DEF Places
<1>3. f \in Surjection(S, Items)
  BY <1>2 DEF Surjection
<1>4. IsFiniteSet(Places("execute")) /\ Cardinality(Places("execute")) \in Nat
  <2>1. IsFiniteSet(1 .. Len(log))
    BY <1>1, FS_Interval
  <2>2. IsFiniteSet(Places("execute"))
    BY <1>1, <2>1, FS_Subset DEF Places
  <2> QED
    BY <2>2, FS_CardinalityType
<1>5. /\ IsFiniteSet(S) /\ Cardinality(S) <= Cardinality(Places("execute"))
      /\ Cardinality(S) \in Nat
  <2>1. S \in SUBSET Places("execute")
    OBVIOUS
  <2> HIDE DEF S
  <2>2. IsFiniteSet(S) /\ Cardinality(S) <= Cardinality(Places("execute"))
    BY <1>4, <2>1, FS_Subset
  <2> QED
    BY <2>2, FS_CardinalityType
<1>6. Cardinality(Items) <= Cardinality(S)
  <2> HIDE DEF f, S
  <2> QED
    BY <1>3, <1>5, FS_Surjection
<1>7. Cardinality(Items) = Len(plan)
  BY <1>1, CardinalityUpTo
<1> QED
  BY <1>1, <1>4, <1>5, <1>6, <1>7

\* Where every item has passed, no output waits for its verdict.
LEMMA NoneWaiting ==
  ASSUME TypeInv, FlowInv, Done(Len(plan) + 1)
  PROVE  Position.at # "verify"
<1> SUFFICES ASSUME Position.at = "verify" PROVE FALSE
  OBVIOUS
<1>1. /\ log \in Seq(Event) /\ Len(log) \in Nat /\ DOMAIN log = 1 .. Len(log)
      /\ Len(plan) \in Nat /\ Items = 1 .. Len(plan)
  BY PlanShape DEF TypeInv, TypeOK
<1>2. PICK n \in DOMAIN log : LastInLoop(n) /\ log[n].stage = "execute"
  BY <1>1, WaitingMarked
<1>3. log[n].item \in Items
  BY <1>2 DEF TypeInv, Marked
<1>4. HasPass(log[n].item)
  BY <1>1, <1>3 DEF Done
<1>5. PICK k \in DOMAIN log :
        log[k].stage = "verify" /\ log[k].item = log[n].item /\ log[k].decision = "pass"
  BY <1>4 DEF HasPass
<1>6. ~(n < k)
  BY <1>1, <1>2, <1>5 DEF LastInLoop, InLoop
<1>7. ~(k < n)
  BY <1>1, <1>2, <1>5 DEF FlowInv, LoopOrdered
<1>8. k = n
  BY <1>1, <1>6, <1>7
<1> QED
  BY <1>2, <1>5, <1>8

\* The verdict the inspector reads off the trail is the last one on it.
LEMMA VerdictIsTold ==
  ASSUME log \in Seq(Event), NEW d, Told(d)
  PROVE  Verdict = d
<1> DEFINE S == Places("verify")
<1>1. PICK n \in DOMAIN log :
        /\ log[n].stage = "verify" /\ log[n].decision = d
        /\ \A m \in n + 1 .. Len(log) : log[m].stage # "verify"
  BY DEF Told
<1>2. n \in S /\ S \in SUBSET Nat /\ \A k \in S : k <= n
  BY <1>1 DEF Places
<1>3. Max(S) = n
  <2> HIDE DEF S
  <2> QED
    BY <1>2, GreatestIs
<1> QED
  BY <1>1, <1>2, <1>3 DEF Verdict

\* What the inspector reports of a run, whatever calls, crashes and injections made it, agrees
\* with what the last call returned and with what the ledger holds (observe._verdict, summarize).
THEOREM ReportsSound == Spec => []ReportSound
<1>1. TypeInv /\ OrderInv /\ FlowInv /\ ReportInv => ReportSound
  <2> SUFFICES ASSUME TypeInv, OrderInv, FlowInv, ReportInv PROVE ReportSound
    OBVIOUS
  <2>1. log \in Seq(Event)
    BY DEF TypeInv, TypeOK
  <2>2. returned \in Decisions => Verdict = returned
    BY <2>1, VerdictIsTold DEF ReportInv
  <2>3. ASSUME returned = "pass"
        PROVE  /\ {n \in Places("act") :
                     ledger[<<log[n].item, log[n].output.id>>].status = "completed"} = Places("act")
               /\ Cardinality(Places("execute")) >= Len(plan)
    <3>1. Done(Len(plan) + 1)
      BY <2>3 DEF OrderInv
    <3>2. Position.at # "verify"
      BY <3>1, NoneWaiting
    <3>3. \A n \in Places("act") :
            ledger[<<log[n].item, log[n].output.id>>].status = "completed"
      BY <3>2 DEF Places, ReportInv, Confirmed
    <3>4. Cardinality(Places("execute")) >= Len(plan)
      BY <3>1, AllAttempted DEF ReportInv
    <3> QED
      BY <3>3, <3>4
  <2>4. Cardinality(Places("specify")) <= 1
    <3>1. \A n, m \in Places("specify") : n = m
      BY DEF Places, ReportInv, Attempted
    <3> QED
      BY <3>1, OneAtMost
  <2>5. Cardinality(Places("execute")) <= (MaxRevisions + 1) * Len(plan)
    BY AttemptsBounded DEF ReportInv
  <2> QED
    BY <2>2, <2>3, <2>4, <2>5 DEF ReportSound, Summary
<1> QED
  BY <1>1, TypeInvariance, OrderInvariance, FlowInvariance, ReportInvariance, PTL
==============================================================================
