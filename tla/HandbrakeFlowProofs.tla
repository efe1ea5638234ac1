-------------------------- MODULE HandbrakeFlowProofs --------------------------
(***************************************************************************)
(* The handbrake's calls together implement run_flow, for any plans,       *)
(* seats, revisions and bounds.                                            *)
(***************************************************************************)
EXTENDS HandbrakeFlow, HandbrakeProofs

------------------------------------------------------------------------------
(* The invariant. *)

\* The events of the loop.
InLoop(event) == event.stage \in {"execute", "verify"}

\* The loop goes through the items in order: whatever it does at an item, those before have
\* passed and no later one has been touched; an item that has passed is not executed again.
LoopOrdered ==
  \A n \in DOMAIN log :
    /\ InLoop(log[n]) =>
         /\ Done(log[n].item)
         /\ \A m \in 1 .. n - 1 : InLoop(log[m]) => log[m].item <= log[n].item
    /\ log[n].stage = "verify" /\ log[n].decision = "pass" =>
         \A m \in n + 1 .. Len(log) : ~(log[m].stage = "execute" /\ log[m].item = log[n].item)

\* The prefix comes before the loop, and each part of it once.
PrefixOrdered ==
  /\ Decomposed => Logged("specify")
  /\ (\E n \in DOMAIN log : InLoop(log[n])) => Decomposed
  /\ pc = "specify" => ~Logged("specify")
  /\ pc = "decompose" => Logged("specify") /\ ~Decomposed
  /\ pc = "reenter" => Logged("specify")
  /\ pc \in AtItem \cup {"item"} \/ saved # 0 => Decomposed

\* The trail's position is the driver's, while it is in the loop.
AtPosition ==
  /\ pc \in {"produce", "mark"} =>
       Position.at = "execute" /\ Position.item = index /\ Position.attempt = attempt
  /\ pc \in Working \ {"produce", "mark"} =>
       Position = [at |-> "verify", item |-> index, attempt |-> attempt, output |-> output]

FlowInv == LoopOrdered /\ PrefixOrdered /\ AtPosition

------------------------------------------------------------------------------
(* The trail of the refined flow grows with the log. *)

\* What the recursion that defines FlowTrail makes of place n, from what it made of the one
\* before; and a function that it defines.
Extended(f, n) ==
  IF n = 0 THEN <<>>
  ELSE IF log[n].stage \in {"specify", "decompose", "execute", "verify"}
  THEN Append(f[n - 1], log[n])
  ELSE IF Derives(n) THEN Append(f[n - 1], [stage |-> "decompose"])
  ELSE f[n - 1]
Unfolds(f, N) == f = [n \in 0 .. N |-> Extended(f, n)]

\* There is one for every length, or there would be a least length without one.
LEMMA UnfoldingExists ==
  ASSUME NEW N \in Nat
  PROVE  \E f : Unfolds(f, N)
<1> DEFINE bad == {n \in Nat : \A f : ~Unfolds(f, n)}
<1> SUFFICES ASSUME bad # {} PROVE FALSE
  OBVIOUS
<1> DEFINE m == Min(bad)
<1>1. m \in bad /\ \A k \in bad : m <= k
  <2> HIDE DEF bad
  <2>1. bad \subseteq Nat
    BY DEF bad
  <2> QED
    BY <2>1, LeastNumber
<1> HIDE DEF m
<1>2. m \in Nat /\ \A f : ~Unfolds(f, m)
  BY <1>1
<1>3. CASE m = 0
  <2> DEFINE f == [n \in 0 .. 0 |-> <<>>]
  <2>1. \A n \in 0 .. 0 : Extended(f, n) = <<>>
    BY DEF Extended
  <2>2. f = [n \in 0 .. 0 |-> Extended(f, n)]
    BY <2>1
  <2> QED
    BY <1>2, <1>3, <2>2 DEF Unfolds
<1>4. CASE m # 0
  <2>1. m - 1 \in Nat /\ m - 1 \notin bad
    BY <1>1, <1>2, <1>4
  <2>2. PICK g : Unfolds(g, m - 1)
    BY <2>1
  <2> DEFINE f == [n \in 0 .. m |-> IF n = m THEN Extended(g, m) ELSE g[n]]
  <2>3. \A n \in 0 .. m - 1 : f[n] = g[n] /\ g[n] = Extended(g, n)
    BY <1>2, <2>2 DEF Unfolds
  <2>4. ASSUME NEW n \in 0 .. m PROVE Extended(f, n) = Extended(g, n)
    <3>1. n # 0 => n - 1 \in 0 .. m - 1
      BY <1>2
    <3>2. n # 0 => f[n - 1] = g[n - 1]
      BY <2>3, <3>1
    <3> QED
      BY <3>2 DEF Extended
  <2>5. ASSUME NEW n \in 0 .. m PROVE f[n] = Extended(f, n)
    <3>1. CASE n = m
      BY <2>4, <3>1
    <3>2. CASE n # m
      <4>1. n \in 0 .. m - 1
        BY <1>2, <3>2
      <4> QED
        BY <2>3, <2>4, <4>1
    <3> QED
      BY <3>1, <3>2
  <2>6. f = [n \in 0 .. m |-> Extended(f, n)]
    BY <2>5
  <2> QED
    BY <1>2, <2>6 DEF Unfolds
<1> QED
  BY <1>3, <1>4

\* FlowTrail is the end of one.
LEMMA TrailUnfolds ==
  log \in Seq(Event) => \E f : Unfolds(f, Len(log)) /\ FlowTrail = f[Len(log)]
<1> SUFFICES ASSUME log \in Seq(Event)
             PROVE  \E f : Unfolds(f, Len(log)) /\ FlowTrail = f[Len(log)]
  OBVIOUS
<1>1. Len(log) \in Nat
  OBVIOUS
<1>2. PICK f : f = [n \in 0 .. Len(log) |-> Extended(f, n)]
  BY <1>1, UnfoldingExists DEF Unfolds
<1> DEFINE g == CHOOSE h : h = [n \in 0 .. Len(log) |-> Extended(h, n)]
<1>3. g = [n \in 0 .. Len(log) |-> Extended(g, n)]
  BY <1>2
<1>4. FlowTrail = g[Len(log)]
  BY DEF FlowTrail, Extended
<1> QED
  BY <1>3, <1>4 DEF Unfolds

\* The same of the next state.
LEMMA TrailUnfoldsNext ==
  (log \in Seq(Event) => \E f : Unfolds(f, Len(log)) /\ FlowTrail = f[Len(log)])'
BY TrailUnfolds, PTL

\* An event of run_flow's extends the trail, and so does the first re-entry for a decompose event
\* that was lost; anything else leaves it alone.
LEMMA TrailExtended ==
  ASSUME log \in Seq(Event), NEW e \in Event, Emit(e)
  PROVE  /\ e.stage \in {"specify", "decompose", "execute", "verify"} =>
              FlowTrail' = Append(FlowTrail, e)
         /\ e.stage = "reenter" /\ ~Decomposed =>
              FlowTrail' = Append(FlowTrail, [stage |-> "decompose"])
         /\ \/ e.stage \notin {"specify", "decompose", "execute", "verify", "reenter"}
            \/ e.stage = "reenter" /\ Decomposed
            => FlowTrail' = FlowTrail
<1>0. PICK L : L = Len(log)
  OBVIOUS
<1>1. /\ log' \in Seq(Event) /\ L \in Nat /\ Len(log') = L + 1
      /\ DOMAIN log = 1 .. L /\ DOMAIN log' = 1 .. L + 1
      /\ \A n \in 1 .. L : log'[n] = log[n]
      /\ log'[L + 1] = e
  BY <1>0, Appended DEF Emit
<1>2. PICK f : Unfolds(f, L) /\ FlowTrail = f[L]
  BY <1>0, TrailUnfolds
<1>3. PICK g : Unfolds(g, Len(log))' /\ FlowTrail' = g[Len(log')]
  BY <1>1, TrailUnfoldsNext
<1>4. ASSUME NEW n \in 1 .. L PROVE Derives(n)' <=> Derives(n)
  <2>1. \A m \in 1 .. n - 1 : log'[m] = log[m]
    BY <1>1
  <2> QED
    BY <1>1, <2>1 DEF Derives
<1>5. \A n \in 0 .. L : f[n] = Extended(f, n)
  BY <1>2 DEF Unfolds
<1>6. \A n \in 0 .. L + 1 : g[n] = Extended(g, n)'
  BY <1>1, <1>3 DEF Unfolds
<1>7. \A n \in 0 .. L : f[n] = g[n]
  <2> DEFINE bad == {n \in 0 .. L : f[n] # g[n]}
  <2> SUFFICES ASSUME bad # {} PROVE FALSE
    OBVIOUS
  <2>1. PICK m \in bad : \A k \in bad : m <= k
    <3> HIDE DEF bad
    <3>1. bad \subseteq Nat
      BY <1>1 DEF bad
    <3> QED
      BY <3>1, LeastNumber
  <2>2. m \in 0 .. L /\ f[m] # g[m] /\ m \in 0 .. L + 1
    BY <1>1, <2>1
  <2>3. CASE m = 0
    <3>1. f[m] = <<>> /\ g[m] = <<>>
      BY <1>5, <1>6, <2>2, <2>3 DEF Extended
    <3> QED
      BY <2>2, <3>1
  <2>4. CASE m # 0
    <3>1. m \in 1 .. L /\ m - 1 \in 0 .. L /\ ~(m <= m - 1)
      BY <1>1, <2>2, <2>4
    <3>2. f[m - 1] = g[m - 1]
      BY <2>1, <3>1
    <3>3. log'[m] = log[m] /\ (Derives(m)' <=> Derives(m))
      BY <1>1, <1>4, <3>1
    <3>4. Extended(f, m) = Extended(g, m)'
      BY <2>4, <3>2, <3>3 DEF Extended
    <3> QED
      BY <1>5, <1>6, <2>2, <3>4
  <2> QED
    BY <2>3, <2>4
<1>8. L + 1 # 0 /\ (L + 1) - 1 = L /\ L + 1 \in 0 .. L + 1 /\ L \in 0 .. L
  BY <1>1
<1>9. FlowTrail' = Extended(g, L + 1)' /\ g[L] = FlowTrail
  BY <1>1, <1>2, <1>3, <1>6, <1>7, <1>8
<1>10. e.stage = "reenter" => (Derives(L + 1)' <=> ~Decomposed)
  <2>1. \A m \in 1 .. L : log'[m] = log[m]
    BY <1>1
  <2> QED
    BY <1>1, <1>8, <2>1 DEF Derives, Decomposed, Logged
<1>11. Derives(L + 1)' => e.stage = "reenter"
  BY <1>1 DEF Derives
<1> QED
  BY <1>1, <1>8, <1>9, <1>10, <1>11 DEF Extended

------------------------------------------------------------------------------
(* Where the loop is. *)

\* The position that a marker or a verdict leaves behind.
After(last) ==
  LET be(at, i, n, out) == [at |-> at, item |-> i, attempt |-> n, output |-> out]
  IN  IF last.stage = "execute" THEN be("verify", last.item, last.attempt, last.output)
      ELSE IF last.decision = "return" /\ last.attempt < MaxRevisions
      THEN be("execute", last.item, last.attempt + 1, last.output)
      ELSE IF last.decision = "pass" /\ last.item < Len(plan)
      THEN be("execute", last.item + 1, 0, last.output)
      ELSE be("over", last.item, last.attempt, last.output)

\* Place n is the last of the loop.
LastInLoop(n) ==
  n \in DOMAIN log /\ InLoop(log[n]) /\ \A m \in n + 1 .. Len(log) : ~InLoop(log[m])

\* A loop that has begun has a last place.
LEMMA LastPlace ==
  ASSUME log \in Seq(Event), \E n \in DOMAIN log : InLoop(log[n])
  PROVE  \E n : LastInLoop(n)
<1> DEFINE loop == {n \in DOMAIN log : InLoop(log[n])}
<1>1. Len(log) \in Nat /\ loop \subseteq 1 .. Len(log) /\ loop # {}
  OBVIOUS
<1>2. Max(loop) \in loop /\ \A k \in loop : Max(loop) >= k
  <2> HIDE DEF loop
  <2> QED
    BY <1>1, Greatest
<1>3. PICK p : p = Max(loop)
  OBVIOUS
<1>4. p \in DOMAIN log /\ InLoop(log[p]) /\ \A k \in DOMAIN log : InLoop(log[k]) => p >= k
  BY <1>2, <1>3
<1>5. \A m \in p + 1 .. Len(log) : ~InLoop(log[m])
  BY <1>1, <1>4
<1> QED
  BY <1>4, <1>5 DEF LastInLoop

\* Position is read off that place, or is the beginning.
LEMMA PositionIs ==
  /\ log \in Seq(Event) => \A n : LastInLoop(n) => Position = After(log[n])
  /\ ~(\E n \in DOMAIN log : InLoop(log[n])) =>
       Position = [at |-> "execute", item |-> 1, attempt |-> 0, output |-> NoOutput]
<1> DEFINE loop == {n \in DOMAIN log : log[n].stage \in {"execute", "verify"}}
<1>1. ASSUME log \in Seq(Event), NEW n, LastInLoop(n) PROVE Position = After(log[n])
  <2>1. Len(log) \in Nat /\ DOMAIN log = 1 .. Len(log)
    BY <1>1
  <2>2. n \in loop /\ \A k \in loop : k <= n
    BY <1>1, <2>1 DEF LastInLoop, InLoop
  <2>3. Max(loop) = n /\ loop # {}
    <3>1. loop \in SUBSET Nat
      BY <2>1
    <3> HIDE DEF loop
    <3> QED
      BY <2>2, <3>1, GreatestIs
  <2> QED
    BY <2>3 DEF Position, After
<1>2. ASSUME ~(\E n \in DOMAIN log : InLoop(log[n]))
      PROVE  Position = [at |-> "execute", item |-> 1, attempt |-> 0, output |-> NoOutput]
  <2>1. loop = {}
    BY <1>2 DEF InLoop
  <2> QED
    BY <2>1 DEF Position
<1> QED
  BY <1>1, <1>2

\* The same of the next state.
LEMMA PositionIsNext ==
  (/\ log \in Seq(Event) => \A n : LastInLoop(n) => Position = After(log[n])
   /\ ~(\E n \in DOMAIN log : InLoop(log[n])) =>
        Position = [at |-> "execute", item |-> 1, attempt |-> 0, output |-> NoOutput])'
BY PositionIs, PTL

\* An event of the loop moves it to where it leaves off; any other leaves it where it is.
LEMMA PositionMoves ==
  ASSUME log \in Seq(Event), NEW e \in Event, Emit(e), plan' = plan
  PROVE  /\ InLoop(e) => Position' = After(e)
         /\ ~InLoop(e) => Position' = Position
<1>1. /\ log' \in Seq(Event) /\ Len(log) \in Nat /\ Len(log') = Len(log) + 1
      /\ DOMAIN log = 1 .. Len(log) /\ DOMAIN log' = 1 .. Len(log) + 1
      /\ \A n \in 1 .. Len(log) : log'[n] = log[n]
      /\ log'[Len(log) + 1] = e
  BY Appended DEF Emit
<1>2. \A event : After(event)' = After(event)
  BY DEF After
<1>3. \A n : LastInLoop(n)' => Position' = After(log'[n])
  <2> SUFFICES ASSUME NEW n, LastInLoop(n)' PROVE Position' = After(log'[n])
    OBVIOUS
  <2>1. PICK event : event = log'[n]
    OBVIOUS
  <2>2. Position' = After(event)'
    BY <1>1, <2>1, PositionIsNext DEF After
  <2> QED
    BY <1>2, <2>1, <2>2
<1>4. PICK last : last = Len(log) + 1
  OBVIOUS
<1>5. CASE InLoop(e)
  <2>1. LastInLoop(last)'
    BY <1>1, <1>4, <1>5 DEF LastInLoop, InLoop
  <2> QED
    BY <1>1, <1>3, <1>4, <1>5, <2>1
<1>6. ASSUME ~InLoop(e), NEW n, LastInLoop(n) PROVE Position' = Position
  <2>1. n \in 1 .. Len(log) /\ log'[n] = log[n]
    BY <1>1, <1>6 DEF LastInLoop
  <2>2. \A m \in n + 1 .. Len(log') : ~InLoop(log'[m])
    <3> SUFFICES ASSUME NEW m \in n + 1 .. Len(log') PROVE ~InLoop(log'[m])
      OBVIOUS
    <3>1. (m \in n + 1 .. Len(log) /\ log'[m] = log[m]) \/ log'[m] = e
      BY <1>1, <2>1
    <3> QED
      BY <1>6, <3>1 DEF LastInLoop
  <2>3. LastInLoop(n)'
    BY <1>1, <1>6, <2>1, <2>2 DEF LastInLoop, InLoop
  <2> QED
    BY <1>3, <1>6, <2>1, <2>3, PositionIs
<1>7. ASSUME ~InLoop(e), ~(\E n \in DOMAIN log : InLoop(log[n])) PROVE Position' = Position
  <2>1. ~(\E n \in DOMAIN log' : InLoop(log'[n]))
    BY <1>1, <1>7
  <2>2. Position' = [at |-> "execute", item |-> 1, attempt |-> 0, output |-> NoOutput]
    BY <2>1, PositionIsNext DEF InLoop, NoOutput
  <2> QED
    BY <1>7, <2>2, PositionIs
<1> QED
  BY <1>5, <1>6, <1>7, LastPlace

\* It stays with the log.
LEMMA PositionStays ==
  ASSUME log' = log, plan' = plan
  PROVE  Position' = Position /\ FlowTrail' = FlowTrail
BY DEF Position, FlowTrail, Derives

------------------------------------------------------------------------------
(* The invariant holds. *)

\* The order of the loop stays as events are appended: what they do is done at an item with
\* everything before it passed that has not passed itself.
LEMMA LoopKept ==
  ASSUME TypeInv, LoopOrdered, NEW e \in Event, Emit(e), plan' = plan,
         InLoop(e) => e.item \in Items /\ Done(e.item) /\ ~HasPass(e.item)
  PROVE  LoopOrdered'
<1>1. /\ log \in Seq(Event) /\ Len(log) \in Nat /\ Len(log') = Len(log) + 1
      /\ DOMAIN log = 1 .. Len(log) /\ DOMAIN log' = 1 .. Len(log) + 1
      /\ \A n \in 1 .. Len(log) : log'[n] = log[n]
      /\ log'[Len(log) + 1] = e
  BY Appended DEF Emit, TypeInv, TypeOK
<1>2. \A i : Done(i) => Done(i)'
  BY <1>1, DoneKept
<1>3. \A n \in DOMAIN log : InLoop(log[n]) => log[n].item \in Nat
  BY <1>1, EventFields DEF InLoop
<1>4. ASSUME NEW n \in DOMAIN log', InLoop(log'[n]), NEW i, i = log'[n].item
      PROVE  Done(i)' /\ \A m \in 1 .. n - 1 : InLoop(log'[m]) => log'[m].item <= i
  <2>1. CASE n \in 1 .. Len(log)
    <3>1. Done(i) /\ \A m \in 1 .. n - 1 : InLoop(log[m]) => log[m].item <= i
      BY <1>1, <1>4, <2>1 DEF LoopOrdered
    <3>2. \A m \in 1 .. n - 1 : log'[m] = log[m]
      BY <1>1, <2>1
    <3> QED
      BY <1>2, <3>1, <3>2
  <2>2. CASE n = Len(log) + 1
    <3>1. i \in Nat /\ i # 0 /\ Done(i) /\ ~HasPass(i)
      BY <1>1, <1>4, <2>2, PlanShape DEF TypeInv, TypeOK
    <3>2. ASSUME NEW m \in DOMAIN log, InLoop(log[m]) PROVE log[m].item <= i
      <4>1. Done(log[m].item) /\ log[m].item \in Nat
        BY <1>3, <3>2 DEF LoopOrdered
      <4>2. ~(i \in 1 .. log[m].item - 1)
        BY <3>1, <4>1 DEF Done
      <4> QED
        BY <3>1, <4>1, <4>2
    <3>3. \A m \in 1 .. n - 1 : m \in DOMAIN log /\ log'[m] = log[m]
      BY <1>1, <2>2
    <3> QED
      BY <1>2, <3>1, <3>2, <3>3
  <2> QED
    BY <1>1, <2>1, <2>2
<1>5. ASSUME NEW n \in DOMAIN log', log'[n].stage = "verify", log'[n].decision = "pass",
             NEW m \in n + 1 .. Len(log'), log'[m].stage = "execute", log'[m].item = log'[n].item
      PROVE  FALSE
  <2>1. n \in 1 .. Len(log) /\ m \in 1 .. Len(log) + 1 /\ log'[n] = log[n]
    BY <1>1
  <2>2. CASE m \in 1 .. Len(log)
    <3>1. m \in n + 1 .. Len(log) /\ log'[m] = log[m]
      BY <1>1, <2>1, <2>2
    <3> QED
      BY <1>1, <1>5, <2>1, <3>1 DEF LoopOrdered
  <2>3. CASE m = Len(log) + 1
    <3>1. InLoop(e) /\ e.item = log[n].item
      BY <1>1, <1>5, <2>1, <2>3 DEF InLoop
    <3>2. HasPass(e.item)
      BY <1>1, <1>5, <2>1, <3>1 DEF HasPass
    <3> QED
      BY <3>1, <3>2
  <2> QED
    BY <1>1, <2>1, <2>2, <2>3
<1>6. \A n \in DOMAIN log' : InLoop(log'[n]) => Done(log[n].item)'
  <2> SUFFICES ASSUME NEW n \in DOMAIN log', InLoop(log'[n]) PROVE Done(log[n].item)'
    OBVIOUS
  <2>1. PICK i : i = log'[n].item
    OBVIOUS
  <2>2. Done(i)'
    BY <1>4, <2>1
  <2> QED
    BY <2>1, <2>2 DEF Done, HasPass
<1> QED
  BY <1>4, <1>5, <1>6 DEF LoopOrdered, InLoop

\* What has been logged stays so.
LEMMA LoggedGrows ==
  ASSUME log \in Seq(Event), NEW e \in Event, Emit(e)
  PROVE  \A stage : Logged(stage)' <=> Logged(stage) \/ e.stage = stage
<1>1. /\ Len(log) \in Nat /\ DOMAIN log = 1 .. Len(log) /\ DOMAIN log' = 1 .. Len(log) + 1
      /\ \A n \in 1 .. Len(log) : log'[n] = log[n]
      /\ log'[Len(log) + 1] = e
  BY Appended DEF Emit
<1> QED
  BY <1>1 DEF Logged

\* A call that finds an item without a verdict, with all before it passed, finds the loop at that
\* item: at its beginning, or at the verdict on the marker it takes up.
LEMMA EntryPosition ==
  ASSUME TypeInv, OrderInv, FlowInv, index \in Items, Done(index), ~HasVerdict(index)
  PROVE  /\ ~HasUnverified(index) =>
              Position.at = "execute" /\ Position.item = index /\ Position.attempt = 0
         /\ HasUnverified(index) =>
              LET marker == LastMarker(index)
              IN  Position = [at |-> "verify", item |-> index,
                              attempt |-> marker.attempt, output |-> marker.output]
<1>1. /\ log \in Seq(Event) /\ Len(log) \in Nat /\ DOMAIN log = 1 .. Len(log)
      /\ Len(plan) \in Nat /\ Items = 1 .. Len(plan) /\ index \in Nat
  BY PlanShape DEF TypeInv, TypeOK
<1>2. \A n \in DOMAIN log : ~(log[n].stage = "verify" /\ log[n].item = index)
  BY DEF HasVerdict, Verifies, Of
<1>3. ~HasPass(index)
  BY <1>2 DEF HasPass
<1>4. ASSUME NEW n \in DOMAIN log, InLoop(log[n])
      PROVE  log[n].item \in Items /\ Done(log[n].item) /\ log[n].item <= index
  <2>1. log[n].item \in Items /\ Done(log[n].item)
    BY <1>4 DEF TypeInv, Marked, FlowInv, LoopOrdered, InLoop
  <2>2. ~(index \in 1 .. log[n].item - 1)
    BY <1>3, <2>1 DEF Done
  <2> QED
    BY <1>1, <2>1, <2>2
<1>5. ASSUME HasUnverified(index)
      PROVE  LET marker == LastMarker(index)
             IN  Position = [at |-> "verify", item |-> index,
                             attempt |-> marker.attempt, output |-> marker.output]
  <2> DEFINE marks == Executes(index)
  <2>1. marks \subseteq 1 .. Len(log) /\ marks # {}
    <3>1. PICK n \in DOMAIN log : log[n].stage = "execute" /\ log[n].item = index
      BY <1>1, <1>5, MarkerTakenUp
    <3> QED
      BY <1>1, <3>1 DEF Executes, Of
  <2>2. Max(marks) \in marks /\ \A k \in marks : Max(marks) >= k
    <3> HIDE DEF marks
    <3> QED
      BY <1>1, <2>1, Greatest
  <2>3. PICK p : p = Max(marks)
    OBVIOUS
  <2>4. /\ p \in DOMAIN log /\ log[p].stage = "execute" /\ log[p].item = index
        /\ LastMarker(index) = log[p]
        /\ \A k \in DOMAIN log : log[k].stage = "execute" /\ log[k].item = index => k <= p
    BY <1>1, <2>1, <2>2, <2>3 DEF Executes, Of, LastMarker
  <2>5. ASSUME NEW m \in p + 1 .. Len(log), InLoop(log[m]) PROVE FALSE
    <3>1. m \in DOMAIN log /\ p \in 1 .. m - 1 /\ InLoop(log[p])
      BY <1>1, <2>4, <2>5 DEF InLoop
    <3>2. log[p].item <= log[m].item
      BY <2>5, <3>1 DEF FlowInv, LoopOrdered
    <3>3. log[m].item = index
      BY <1>1, <1>4, <2>4, <2>5, <3>1, <3>2
    <3>4. log[m].stage = "execute"
      BY <1>2, <2>5, <3>1, <3>3 DEF InLoop
    <3> QED
      BY <1>1, <2>4, <2>5, <3>1, <3>3, <3>4
  <2>6. LastInLoop(p)
    BY <2>4, <2>5 DEF LastInLoop, InLoop
  <2>7. Position = After(log[p])
    BY <1>1, <2>6, PositionIs
  <2> QED
    BY <2>4, <2>7 DEF After
<1>6. ASSUME ~HasUnverified(index)
      PROVE  Position.at = "execute" /\ Position.item = index /\ Position.attempt = 0
  <2>1. \A n \in DOMAIN log : ~(log[n].stage = "execute" /\ log[n].item = index)
    <3>1. IsFiniteSet(Executes(index)) /\ Verifies(index) = {}
      BY <1>1, PlacesOf DEF HasVerdict
    <3>2. Cardinality(Verifies(index)) = 0 /\ Cardinality(Executes(index)) \in Nat
      BY <3>1, FS_EmptySet, FS_CardinalityType
    <3>3. Cardinality(Executes(index)) = 0
      BY <1>6, <3>2 DEF HasUnverified
    <3>4. Executes(index) = {}
      BY <3>1, <3>3, FS_EmptySet
    <3> QED
      BY <3>4 DEF Executes, Of
  <2>2. CASE ~(\E n \in DOMAIN log : InLoop(log[n]))
    <3>1. ~(1 \in 1 .. index - 1)
      BY <2>2 DEF Done, HasPass, InLoop
    <3>2. index = 1
      BY <1>1, <3>1
    <3> QED
      BY <2>2, <3>2, PositionIs
  <2>3. ASSUME NEW p, LastInLoop(p)
        PROVE  Position.at = "execute" /\ Position.item = index /\ Position.attempt = 0
    <3>1. PICK i : i = log[p].item
      OBVIOUS
    <3>2. p \in DOMAIN log /\ InLoop(log[p]) /\ i \in Items /\ i < index
      BY <1>1, <1>2, <1>4, <2>1, <2>3, <3>1 DEF LastInLoop, InLoop
    <3>3. HasPass(i)
      BY <1>1, <3>2 DEF Done
    <3>4. PICK k \in DOMAIN log :
            log[k].stage = "verify" /\ log[k].item = i /\ log[k].decision = "pass"
      BY <3>3 DEF HasPass
    <3>5. ~(k < p)
      <4> SUFFICES ASSUME k < p PROVE FALSE
        OBVIOUS
      <4>1. p \in k + 1 .. Len(log)
        BY <1>1, <3>2, <3>4
      <4>2. log[p].stage # "verify" /\ log[p].stage # "execute"
        BY <3>1, <3>4, <4>1 DEF OrderInv, TrailOrdered, FlowInv, LoopOrdered
      <4> QED
        BY <3>2, <4>2 DEF InLoop
    <3>6. ~(p < k)
      BY <1>1, <2>3, <3>2, <3>4 DEF LastInLoop, InLoop
    <3>7. k = p
      BY <1>1, <3>2, <3>4, <3>5, <3>6
    <3>8. i + 1 = index
      <4> SUFFICES ASSUME i + 1 # index PROVE FALSE
        OBVIOUS
      <4>1. i + 1 \in 1 .. index - 1
        BY <1>1, <3>2
      <4>2. PICK n \in DOMAIN log : log[n].stage = "verify" /\ log[n].item = i + 1
        BY <4>1 DEF Done, HasPass
      <4>3. n \in 1 .. p - 1 \/ n = p
        BY <1>1, <2>3, <3>2, <4>2 DEF LastInLoop, InLoop
      <4>4. log[n].item <= i
        BY <1>1, <3>1, <3>2, <4>2, <4>3 DEF FlowInv, LoopOrdered, InLoop
      <4> QED
        BY <1>1, <3>2, <4>2, <4>4
    <3>9. Position = After(log[p])
      BY <1>1, <2>3, PositionIs
    <3>10. log[p].stage = "verify" /\ log[p].decision = "pass" /\ log[p].item < Len(plan)
      BY <1>1, <3>1, <3>2, <3>4, <3>7, <3>8
    <3> QED
      BY <3>1, <3>8, <3>9, <3>10 DEF After
  <2> QED
    BY <1>1, <2>2, <2>3, LastPlace
<1> QED
  BY <1>5, <1>6

\* Steps that append nothing.
LEMMA FlowQuiet ==
  ASSUME FlowInv, log' = log, plan' = plan,
         pc' = "specify" => ~Logged("specify"),
         pc' = "decompose" => pc = "decompose",
         pc' = "reenter" => Logged("specify"),
         pc' \in AtItem \cup {"item"} \/ saved' # 0 => Decomposed,
         pc' \in {"produce", "mark"} =>
           Position.at = "execute" /\ Position.item = index' /\ Position.attempt = attempt',
         pc' \in Working \ {"produce", "mark"} =>
           Position = [at |-> "verify", item |-> index', attempt |-> attempt', output |-> output']
  PROVE  FlowInv'
<1>1. Position' = Position
  BY PositionStays
<1>2. LoopOrdered'
  BY DEF FlowInv, LoopOrdered, InLoop, Done, HasPass
<1>3. PrefixOrdered'
  BY DEF FlowInv, PrefixOrdered, InLoop, Logged, Decomposed
<1>4. AtPosition'
  BY <1>1 DEF AtPosition
<1> QED
  BY <1>2, <1>3, <1>4 DEF FlowInv

\* Steps that append an event outside the loop.
LEMMA FlowEmit ==
  ASSUME TypeInv, FlowInv, NEW e \in Event, Emit(e), plan' = plan, saved' = saved, ~InLoop(e),
         pc' = "specify" => pc = "specify" /\ e.stage # "specify",
         pc' = "decompose" => \/ pc = "specify" /\ e.stage = "specify"
                              \/ pc = "decompose" /\ e.stage \notin {"decompose", "reenter"},
         pc' = "reenter" => pc = "reenter",
         e.stage \in {"decompose", "reenter"} => Logged("specify"),
         pc' \in AtItem \cup {"item"} => Decomposed \/ e.stage \in {"decompose", "reenter"},
         pc' \in {"produce", "mark"} =>
           pc \in {"produce", "mark"} /\ index' = index /\ attempt' = attempt,
         pc' \in Working \ {"produce", "mark"} =>
           pc \in Working \ {"produce", "mark"} /\ UNCHANGED <<index, attempt, output>>
  PROVE  FlowInv'
<1>1. /\ log \in Seq(Event) /\ Len(log) \in Nat
      /\ DOMAIN log = 1 .. Len(log) /\ DOMAIN log' = 1 .. Len(log) + 1
      /\ \A n \in 1 .. Len(log) : log'[n] = log[n]
      /\ log'[Len(log) + 1] = e
  BY Appended DEF Emit, TypeInv, TypeOK
<1>2. Position' = Position
  BY <1>1, PositionMoves
<1>3. LoopOrdered'
  BY LoopKept DEF FlowInv
<1>4. \A stage : Logged(stage)' <=> Logged(stage) \/ e.stage = stage
  BY <1>1, LoggedGrows
<1>5. /\ Logged("specify")' <=> Logged("specify") \/ e.stage = "specify"
      /\ Decomposed' <=> Decomposed \/ e.stage \in {"decompose", "reenter"}
  BY <1>4 DEF Decomposed
<1>6. (\E n \in DOMAIN log' : InLoop(log'[n])) => \E n \in DOMAIN log : InLoop(log[n])
  BY <1>1
<1>7. PrefixOrdered'
  <2>1. (\E n \in DOMAIN log : InLoop(log[n]))' => Decomposed'
    BY <1>5, <1>6 DEF FlowInv, PrefixOrdered, InLoop
  <2> HIDE DEF FlowInv
  <2>2. PrefixOrdered
    BY DEF FlowInv
  <2>3. pc' = "decompose" => Logged("specify")' /\ ~Decomposed'
    BY <1>5, <2>2 DEF PrefixOrdered
  <2> QED
    BY <1>5, <2>1, <2>2, <2>3 DEF PrefixOrdered
<1>8. AtPosition'
  BY <1>2 DEF FlowInv, AtPosition
<1> QED
  BY <1>3, <1>7, <1>8 DEF FlowInv

\* Steps that append a marker or a verdict, at the item at work.
LEMMA FlowLoop ==
  ASSUME TypeInv, OrderInv, FlowInv, NEW e \in Event, Emit(e), plan' = plan, saved' = saved,
         InLoop(e), pc \in Working, e.item = index,
         pc' \notin {"specify", "decompose", "reenter"},
         pc' \in {"produce", "mark"} =>
           LET to == After(e)
           IN  to.at = "execute" /\ to.item = index' /\ to.attempt = attempt',
         pc' \in Working \ {"produce", "mark"} =>
           After(e) = [at |-> "verify", item |-> index', attempt |-> attempt', output |-> output']
  PROVE  FlowInv'
<1>1. log \in Seq(Event) /\ index \in Items /\ Done(index) /\ ~HasPass(index)
  BY DEF TypeInv, TypeOK, AtItem, OrderInv
<1>2. Position' = After(e)
  BY <1>1, PositionMoves
<1>3. LoopOrdered'
  BY <1>1, LoopKept DEF FlowInv
<1>4. \A stage : Logged(stage)' <=> Logged(stage) \/ e.stage = stage
  BY <1>1, LoggedGrows
<1>5. Decomposed /\ Logged("specify")
  BY DEF FlowInv, PrefixOrdered, AtItem
<1>6. Decomposed' /\ Logged("specify")'
  BY <1>4, <1>5 DEF Decomposed
<1>7. PrefixOrdered'
  BY <1>6 DEF PrefixOrdered
<1>8. AtPosition'
  BY <1>2 DEF AtPosition
<1> QED
  BY <1>3, <1>7, <1>8 DEF FlowInv

\* Doing an item takes it up where the trail has left the loop.
LEMMA FlowDoItem ==
  ASSUME TypeInv, OrderInv, FlowInv, pc \in {"gated", "resumed"}, NEW inject, DoItem(inject)
  PROVE  FlowInv'
<1>1. index \in Items /\ Done(index) /\ Decomposed
  BY DEF TypeInv, AtItem, OrderInv, FlowInv, PrefixOrdered
<1>2. CASE HasVerdict(index) /\ NextItem(LatestVerdict(index)) /\ UNCHANGED durable
  <2>1. UNCHANGED <<log, plan, saved>> /\ pc' \in {"idle", "item"}
    BY <1>2 DEF NextItem, Return, Hold, durable
  <2> QED
    BY <1>1, <2>1, FlowQuiet DEF Working, AtItem
<1>3. CASE /\ ~HasVerdict(index) /\ HasUnverified(index) /\ UNCHANGED durable
           /\ output' = LastMarker(index).output /\ attempt' = LastMarker(index).attempt
           /\ pc' = Reconstructed
           /\ Hold /\ UNCHANGED <<index, injection>>
  <2>1. UNCHANGED <<log, plan, saved, index>> /\ pc' = "perform"
    BY <1>3 DEF Reconstructed, Hold, durable
  <2>2. Position = [at |-> "verify", item |-> index', attempt |-> attempt', output |-> output']
    BY <1>1, <1>3, EntryPosition
  <2> QED
    BY <1>1, <2>1, <2>2, FlowQuiet
<1>4. CASE /\ ~HasVerdict(index) /\ ~HasUnverified(index) /\ UNCHANGED durable
           /\ injection' = inject /\ attempt' = 0
           /\ pc' = "produce"
           /\ Hold /\ UNCHANGED <<index, output>>
  <2>1. UNCHANGED <<log, plan, saved, index>> /\ pc' = "produce" /\ attempt' = 0
    BY <1>4 DEF Hold, durable
  <2>2. Position.at = "execute" /\ Position.item = index' /\ Position.attempt = attempt'
    BY <1>1, <1>4, <2>1, EntryPosition
  <2> QED
    BY <1>1, <2>1, <2>2, FlowQuiet
<1> QED
  BY <1>2, <1>3, <1>4 DEF DoItem

\* The driver's steps.
LEMMA FlowStep ==
  ASSUME TypeInv, OrderInv, FlowInv, Start \/ Resume \/ Step
  PROVE  FlowInv'
<1> USE DEF AtItem, Working
<1>1. /\ index \in Nat /\ attempt \in Nat /\ attempt \in 0 .. MaxRevisions /\ output \in Output
      /\ MaxRevisions \in Nat
      /\ 1 .. Len(plan) = Items /\ Len(plan) \in Nat
      /\ pc \in AtItem => index \in Items
  BY PlanShape, Bounds DEF TypeInv, TypeOK
<1>2. /\ PrefixOrdered /\ AtPosition
      /\ pc \in AtItem \cup {"item"} \/ saved # 0 => Decomposed
  BY DEF FlowInv, PrefixOrdered
<1>3. CASE Start
  <2>1. UNCHANGED <<log, plan, saved>> /\ pc' = IF Started THEN "reenter" ELSE "specify"
    BY <1>3 DEF Start, Call, durable
  <2> QED
    BY <1>2, <2>1, FlowQuiet DEF Started
<1>4. CASE Resume
  <2>1. UNCHANGED <<log, plan, saved>> /\ pc' = "resume" /\ saved # 0
    BY <1>4 DEF Resume, Call, durable
  <2> QED
    BY <1>2, <2>1, FlowQuiet
<1>5. CASE Specify
  <2>1. [stage |-> "specify"] \in Event
    BY DEF Event
  <2>2. UNCHANGED <<plan, saved>> /\ pc = "specify" /\ pc' = "decompose"
    BY <1>5 DEF Specify, Hold, Quiet
  <2> QED
    BY <1>2, <1>5, <2>1, <2>2, FlowEmit DEF Specify, InLoop
<1>6. CASE Decompose
  <2>1. [stage |-> "decompose"] \in Event
    BY DEF Event
  <2>2. UNCHANGED <<plan, saved>> /\ pc' = "item" /\ Logged("specify")
    BY <1>2, <1>6 DEF Decompose, Hold, Quiet, PrefixOrdered
  <2> QED
    BY <1>2, <1>6, <2>1, <2>2, FlowEmit DEF Decompose, InLoop
<1>7. CASE Reenter
  <2>1. FirstUnfinished \in Nat
    BY Unfinished, PlanShape DEF TypeInv, TypeOK
  <2>2. [stage |-> "reenter", item |-> FirstUnfinished] \in Event
    BY <2>1 DEF Event
  <2>3. UNCHANGED <<plan, saved>> /\ pc' = "item" /\ Logged("specify")
    BY <1>2, <1>7 DEF Reenter, Hold, Quiet, PrefixOrdered
  <2> QED
    BY <1>2, <1>7, <2>2, <2>3, FlowEmit DEF Reenter, InLoop
<1>8. CASE LogResume
  <2>1. [stage |-> "resume", item |-> index] \in Event
    BY <1>1 DEF Event
  <2>2. UNCHANGED <<plan, saved>> /\ pc' = "resumed" /\ Decomposed
    BY <1>2, <1>8 DEF LogResume, Hold, Quiet
  <2> QED
    BY <1>8, <2>1, <2>2, FlowEmit DEF LogResume, InLoop
<1>9. CASE Gate
  <2>1. [stage |-> "gate", item |-> index, allow |-> index \in allowed] \in Event
    BY <1>1 DEF Event
  <2>2. UNCHANGED <<plan, saved>> /\ pc' \in {"idle", "gated"} /\ Decomposed
    BY <1>2, <1>9 DEF Gate, Hold, Quiet, Return
  <2> QED
    BY <1>9, <2>1, <2>2, FlowEmit DEF Gate, InLoop
<1>10. CASE Pause
  <2>1. [stage |-> "breakpoint", item |-> index] \in Event
    BY <1>1 DEF Event
  <2>2. UNCHANGED <<plan, saved>> /\ pc' = "checkpoint" /\ Decomposed
    BY <1>2, <1>10 DEF Pause, Hold, Quiet
  <2> QED
    BY <1>10, <2>1, <2>2, FlowEmit DEF Pause, InLoop
<1>11. CASE Advance \/ TakeOver
  BY <1>11, FlowDoItem DEF Advance, TakeOver
<1>12. CASE ReturnRecorded \/ AssertFails \/ EffectBlocked \/ NotIndependent
  <2>1. UNCHANGED <<log, plan, saved>> /\ pc' = "idle"
    BY <1>12 DEF ReturnRecorded, AssertFails, EffectBlocked, NotIndependent, Return, durable
  <2> QED
    BY <1>2, <2>1, FlowQuiet
<1>13. CASE SaveCheckpoint
  <2>1. UNCHANGED <<log, plan>> /\ pc' = "idle" /\ Decomposed
    BY <1>2, <1>13 DEF SaveCheckpoint, Return
  <2> QED
    BY <2>1, FlowQuiet
<1>14. CASE UseInjection \/ Execute
  <2>1. UNCHANGED <<log, plan, saved, index, attempt>> /\ pc = "produce" /\ pc' = "mark"
    BY <1>14 DEF UseInjection, Execute, Hold, durable
  <2> QED
    BY <1>2, <2>1, FlowQuiet DEF AtPosition
<1>15. CASE Mark
  <2>1. [stage |-> "execute", item |-> index, attempt |-> attempt, output |-> output] \in Event
    BY <1>1 DEF Event
  <2>2. UNCHANGED <<plan, saved, index, attempt, output>> /\ pc = "mark" /\ pc' = "perform"
    BY <1>15 DEF Mark, Hold, Quiet, local
  <2> QED
    BY <1>15, <2>1, <2>2, FlowLoop DEF Mark, InLoop, After
<1>16. CASE EffectCached \/ BeginEffect \/ CompleteEffect
  <2>1. /\ UNCHANGED <<log, plan, saved, index, attempt, output>>
        /\ pc \in {"perform", "complete"} /\ pc' \in {"verify", "act"}
    BY <1>16 DEF EffectCached, BeginEffect, CompleteEffect, Hold, durable, local
  <2> QED
    BY <1>2, <2>1, FlowQuiet DEF AtPosition
<1>17. CASE Act
  <2>1. [stage |-> "act", item |-> index, output |-> output] \in Event
    BY <1>1 DEF Event
  <2>2. UNCHANGED <<plan, saved, index, attempt, output>> /\ pc = "act" /\ pc' = "complete"
    BY <1>17 DEF Act, Hold, Quiet, local
  <2> QED
    BY <1>2, <1>17, <2>1, <2>2, FlowEmit DEF Act, InLoop
<1>18. ASSUME NEW decision \in Decisions, Verify(decision) PROVE FlowInv'
  <2> DEFINE e == [stage |-> "verify", item |-> index, attempt |-> attempt, output |-> output,
                   decision |-> decision]
  <2>1. e \in Event /\ InLoop(e) /\ e.item = index
    BY <1>1 DEF Event, InLoop
  <2>2. Emit(e) /\ UNCHANGED <<plan, saved>> /\ pc = "verify"
    BY <1>18 DEF Verify, NextItem, Hold, Quiet
  <2>3. CASE decision = "return" /\ MayRevise
    <3>1. pc' = "produce" /\ index' = index /\ attempt' = attempt + 1
      BY <1>18, <2>3 DEF Verify, MayRevise
    <3>2. After(e) = [at |-> "execute", item |-> index, attempt |-> attempt + 1,
                      output |-> output]
      BY <2>3 DEF After, MayRevise
    <3> HIDE DEF e
    <3> QED
      BY <2>1, <2>2, <3>1, <3>2, FlowLoop
  <2>4. CASE ~(decision = "return" /\ MayRevise)
    <3>1. pc' \in {"idle", "item"}
      BY <1>18, <2>4 DEF Verify, NextItem, Return
    <3> HIDE DEF e
    <3> QED
      BY <2>1, <2>2, <3>1, FlowLoop
  <2> QED
    BY <2>3, <2>4
<1> QED
  BY <1>3, <1>4, <1>5, <1>6, <1>7, <1>8, <1>9, <1>10, <1>11, <1>12, <1>13, <1>14, <1>15, <1>16,
     <1>17, <1>18 DEF Step

\* The human's steps, and the end of a call.
LEMMA FlowNext ==
  ASSUME TypeInv, OrderInv, FlowInv, [Next]_vars
  PROVE  FlowInv'
<1>1. CASE Start \/ Resume \/ Step
  BY <1>1, FlowStep
<1>2. CASE Inject \/ InjectRefused \/ SetBreakpoint \/ ClearBreakpoint
  <2>1. PICK e \in Event :
          /\ e.stage \in {"inject", "refused", "set_breakpoint", "clear_breakpoint"}
          /\ Emit(e)
    BY <1>2, HumanStep
  <2>2. UNCHANGED <<plan, saved, pc, index, attempt, output>>
    BY <1>2, HumanStep DEF local
  <2>3. pc \in AtItem \cup {"item"} => Decomposed
    BY DEF FlowInv, PrefixOrdered
  <2> QED
    BY <2>1, <2>2, <2>3, FlowEmit DEF InLoop, Working, AtItem
<1>3. CASE Cut
  <2>1. UNCHANGED <<log, plan, saved>> /\ pc' = "idle"
    BY <1>3 DEF Cut, Return, durable
  <2> QED
    BY <2>1, FlowQuiet DEF FlowInv, PrefixOrdered, Working, AtItem
<1>4. CASE UNCHANGED vars
  <2>1. UNCHANGED <<log, plan, saved, pc, index, attempt, output>>
    BY <1>4 DEF vars, durable, local
  <2> QED
    BY <2>1, FlowQuiet DEF FlowInv, PrefixOrdered, AtPosition
<1> QED
  BY <1>1, <1>2, <1>3, <1>4 DEF Next

\* The driver is where the trail is, throughout.
LEMMA FlowInvariance == Spec => []FlowInv
<1>1. Init => FlowInv
  BY DEF Init, FlowInv, LoopOrdered, PrefixOrdered, AtPosition, Decomposed, Logged, AtItem, Working
<1>2. TypeInv /\ OrderInv /\ FlowInv /\ [Next]_vars => FlowInv'
  BY FlowNext
<1> QED
  BY <1>1, <1>2, TypeInvariance, OrderInvariance, PTL DEF Spec

------------------------------------------------------------------------------
(* Every step is one of run_flow's, or none. *)

\* Nothing of run_flow's happens: no event of its, and no first re-entry.
LEMMA FlowStutters ==
  ASSUME TypeInv, plan' = plan,
         \/ log' = log
         \/ \E e \in Event :
              /\ Emit(e)
              /\ \/ e.stage \notin {"specify", "decompose", "execute", "verify", "reenter"}
                 \/ e.stage = "reenter" /\ Decomposed
  PROVE  UNCHANGED F!vars
<1>1. CASE log' = log
  <2>1. FlowTrail' = FlowTrail /\ Position' = Position
    BY <1>1, PositionStays
  <2>2. Decomposed' = Decomposed /\ Logged("specify")' = Logged("specify")
    BY <1>1 DEF Decomposed, Logged
  <2>3. FlowAt' = FlowAt
    BY <2>1, <2>2 DEF FlowAt
  <2> QED
    BY <2>1, <2>2, <2>3 DEF F!vars, F!locals
<1>2. ASSUME NEW e \in Event, Emit(e),
             \/ e.stage \notin {"specify", "decompose", "execute", "verify", "reenter"}
             \/ e.stage = "reenter" /\ Decomposed
      PROVE  UNCHANGED F!vars
  <2>1. log \in Seq(Event)
    BY DEF TypeInv, TypeOK
  <2>2. FlowTrail' = FlowTrail
    BY <1>2, <2>1, TrailExtended
  <2>3. Position' = Position
    BY <1>2, <2>1, PositionMoves DEF InLoop
  <2>4. \A stage : Logged(stage)' <=> Logged(stage) \/ e.stage = stage
    BY <1>2, <2>1, LoggedGrows
  <2>5. (Decomposed' <=> Decomposed) /\ (Logged("specify")' <=> Logged("specify"))
    BY <1>2, <2>4 DEF Decomposed
  <2>6. FlowAt' = FlowAt
    BY <2>3, <2>5 DEF FlowAt
  <2> QED
    BY <2>2, <2>3, <2>5, <2>6 DEF F!vars, F!locals
<1> QED
  BY <1>1, <1>2

\* The prefix: start() records it, or a re-entry does for the decompose event.
LEMMA FlowPrefix ==
  ASSUME TypeInv, FlowInv, Specify \/ Decompose \/ Reenter
  PROVE  F!Next \/ UNCHANGED F!vars
<1>1. log \in Seq(Event) /\ Len(plan) \in Nat /\ (plan = <<>> <=> Len(plan) = 0)
  BY PlanShape DEF TypeInv, TypeOK
<1>2. PrefixOrdered
  BY DEF FlowInv
<1>3. CASE Specify
  <2> DEFINE e == [stage |-> "specify"]
  <2>1. e \in Event /\ Emit(e) /\ plan' = plan /\ ~Logged("specify") /\ ~Decomposed
    BY <1>2, <1>3 DEF Specify, Event, Hold, PrefixOrdered
  <2>2. \A stage : Logged(stage)' <=> Logged(stage) \/ e.stage = stage
    BY <1>1, <2>1, LoggedGrows
  <2>3. Logged("specify")' /\ ~Decomposed'
    BY <2>1, <2>2 DEF Decomposed
  <2>4. FlowTrail' = Append(FlowTrail, e) /\ Position' = Position
    BY <1>1, <2>1, TrailExtended, PositionMoves DEF InLoop
  <2>5. FlowAt = "specify" /\ FlowAt' = "decompose"
    BY <2>1, <2>3 DEF FlowAt
  <2>6. F!Specify
    BY <2>1, <2>3, <2>4, <2>5 DEF F!Specify, F!Record, F!locals
  <2> QED
    BY <2>6 DEF F!Next
<1>4. ASSUME NEW e \in Event, Emit(e), plan' = plan, e.stage \in {"decompose", "reenter"},
             Logged("specify"), ~Decomposed
      PROVE  F!Next
  <2>1. \A stage : Logged(stage)' <=> Logged(stage) \/ e.stage = stage
    BY <1>1, <1>4, LoggedGrows
  <2>2. Logged("specify")' /\ Decomposed'
    BY <1>4, <2>1 DEF Decomposed
  <2>3. e.stage = "decompose" => e = [stage |-> "decompose"]
    BY <1>4 DEF Event
  <2>4. FlowTrail' = Append(FlowTrail, [stage |-> "decompose"]) /\ Position' = Position
    BY <1>1, <1>4, <2>3, TrailExtended, PositionMoves DEF InLoop
  <2>5. Position.at = "execute"
    BY <1>2, <1>4, PositionIs DEF PrefixOrdered
  <2>6. FlowAt = "decompose" /\ FlowAt' = IF Len(plan) = 0 THEN "empty" ELSE "execute"
    BY <1>1, <1>4, <2>2, <2>4, <2>5 DEF FlowAt
  <2>7. F!Decompose
    BY <1>1, <1>4, <2>2, <2>4, <2>6 DEF F!Decompose, F!Record, F!locals
  <2> QED
    BY <2>7 DEF F!Next
<1>5. CASE Decompose
  <2>1. [stage |-> "decompose"] \in Event
    BY DEF Event
  <2> QED
    BY <1>2, <1>4, <1>5, <2>1 DEF Decompose, Hold, PrefixOrdered
<1>6. CASE Reenter
  <2>1. FirstUnfinished \in Nat
    BY Unfinished, PlanShape DEF TypeInv, TypeOK
  <2>2. PICK e : e = [stage |-> "reenter", item |-> FirstUnfinished]
    OBVIOUS
  <2>3. e \in Event /\ e.stage = "reenter" /\ Emit(e) /\ plan' = plan /\ Logged("specify")
    BY <1>2, <1>6, <2>1, <2>2 DEF Reenter, Event, Hold, PrefixOrdered
  <2>4. CASE Decomposed
    BY <2>3, <2>4, FlowStutters
  <2>5. CASE ~Decomposed
    BY <1>4, <2>3, <2>5
  <2> QED
    BY <2>4, <2>5
<1> QED
  BY <1>3, <1>5, <1>6

\* The loop: a marker is run_flow's execute event, a verdict its verify event.
LEMMA FlowLoops ==
  ASSUME TypeInv, FlowInv, Mark \/ \E decision \in Decisions : Verify(decision)
  PROVE  F!Next
<1>1. /\ log \in Seq(Event) /\ MaxRevisions \in Nat
      /\ index \in Nat /\ attempt \in Nat /\ output \in Output
      /\ Len(plan) \in Nat /\ Items = 1 .. Len(plan) /\ plan \in Seq(Levels)
  BY PlanShape, Bounds DEF TypeInv, TypeOK
<1>2. pc \in Working /\ index \in Items /\ plan # <<>> /\ plan' = plan
  <2>1. pc \in Working /\ plan' = plan
    BY DEF Mark, Verify, NextItem, Hold, Working
  <2>2. index \in Items
    BY <2>1 DEF TypeInv, AtItem
  <2> QED
    BY <1>1, <2>1, <2>2
<1>3. Decomposed /\ Logged("specify")
  BY <1>2 DEF FlowInv, PrefixOrdered, AtItem
<1>4. ASSUME NEW e \in Event, Emit(e), InLoop(e)
      PROVE  /\ FlowTrail' = Append(FlowTrail, e) /\ Position' = After(e)
             /\ Decomposed' /\ FlowAt = Position.at /\ FlowAt' = Position'.at
  <2>1. FlowTrail' = Append(FlowTrail, e) /\ Position' = After(e)
    BY <1>1, <1>2, <1>4, TrailExtended, PositionMoves DEF InLoop
  <2>2. \A stage : Logged(stage)' <=> Logged(stage) \/ e.stage = stage
    BY <1>1, <1>4, LoggedGrows
  <2>3. Decomposed' /\ Logged("specify")'
    BY <1>3, <2>2 DEF Decomposed
  <2> QED
    BY <1>2, <1>3, <2>1, <2>3 DEF FlowAt
<1>5. CASE Mark
  <2> DEFINE e == [stage |-> "execute", item |-> index, attempt |-> attempt, output |-> output]
  <2>1. e \in Event /\ InLoop(e) /\ Emit(e) /\ output # NoOutput /\ output' = output
    BY <1>1, <1>5 DEF Event, InLoop, Mark, TypeInv, Working, local
  <2>2. Position.at = "execute" /\ Position.item = index /\ Position.attempt = attempt
    BY <1>5 DEF FlowInv, AtPosition, Mark
  <2>3. After(e) = [at |-> "verify", item |-> index, attempt |-> attempt, output |-> output]
    BY DEF After
  <2>4. /\ FlowTrail' = Append(FlowTrail, e) /\ Position' = After(e)
        /\ Decomposed' /\ FlowAt = Position.at /\ FlowAt' = Position'.at
    <3> HIDE DEF e
    <3> QED
      BY <1>4, <2>1
  <2>5. /\ Position'.at = "verify" /\ Position'.item = index
        /\ Position'.attempt = attempt /\ Position'.output = output
    BY <2>3, <2>4
  <2>6. F!Execute
    BY <1>1, <1>2, <1>3, <2>1, <2>2, <2>4, <2>5 DEF F!Execute, F!Record
  <2> QED
    BY <2>6 DEF F!Next
<1>6. ASSUME NEW decision \in Decisions, Verify(decision) PROVE F!Next
  <2> DEFINE e == [stage |-> "verify", item |-> index, attempt |-> attempt, output |-> output,
                   decision |-> decision]
  <2>1. e \in Event /\ InLoop(e) /\ Emit(e) /\ output.by # "Verifier"
    BY <1>1, <1>6 DEF Event, InLoop, Verify
  <2>2. Position = [at |-> "verify", item |-> index, attempt |-> attempt, output |-> output]
    BY <1>6 DEF FlowInv, AtPosition, Verify, Working
  <2>3. /\ FlowTrail' = Append(FlowTrail, e) /\ Position' = After(e)
        /\ Decomposed' /\ FlowAt = Position.at /\ FlowAt' = Position'.at
    <3> HIDE DEF e
    <3> QED
      BY <1>4, <2>1
  <2>4. /\ Position'.output = output
        /\ \/ /\ decision = "return" /\ attempt < MaxRevisions
              /\ Position'.attempt = attempt + 1 /\ Position'.at = "execute"
              /\ Position'.item = index
           \/ /\ decision = "pass" /\ index < Len(plan)
              /\ Position'.item = index + 1 /\ Position'.attempt = 0
              /\ Position'.at = "execute"
           \/ /\ decision = "pass" => index = Len(plan)
              /\ decision = "return" => attempt >= MaxRevisions
              /\ Position'.at = "over"
              /\ Position'.item = index /\ Position'.attempt = attempt
    <3>1. CASE decision = "return" /\ attempt < MaxRevisions
      BY <2>3, <3>1 DEF After
    <3>2. CASE decision = "pass" /\ index < Len(plan)
      BY <2>3, <3>2 DEF After
    <3>3. CASE /\ ~(decision = "return" /\ attempt < MaxRevisions)
               /\ ~(decision = "pass" /\ index < Len(plan))
      <4>1. After(e) = [at |-> "over", item |-> index, attempt |-> attempt, output |-> output]
        BY <3>3 DEF After
      <4>2. decision = "pass" => index = Len(plan)
        BY <1>1, <1>2, <3>3
      <4>3. decision = "return" => attempt >= MaxRevisions
        BY <1>1, <3>3
      <4> QED
        BY <2>3, <4>1, <4>2, <4>3
    <3> QED
      BY <3>1, <3>2, <3>3
  <2>5. F!Verify
    BY <1>2, <1>3, <2>1, <2>2, <2>3, <2>4 DEF F!Verify, F!Record
  <2> QED
    BY <2>5 DEF F!Next
<1> QED
  BY <1>5, <1>6

\* start() and resume() implement run_flow(): what any number of calls, pauses, injections and
\* crashes leave on the trail is a trail that an uninterrupted run could have left.
THEOREM HandbrakeImplementsFlow == Spec => ImplementsFlow
<1>1. Init => F!Init
  <2> SUFFICES ASSUME Init PROVE F!Init
    OBVIOUS
  <2>1. log = <<>> /\ Len(log) = 0 /\ log \in Seq(Event) /\ DOMAIN log = {}
    BY DEF Init
  <2>2. FlowTrail = <<>>
    <3>1. PICK f : Unfolds(f, 0) /\ FlowTrail = f[0]
      BY <2>1, TrailUnfolds
    <3> QED
      BY <3>1 DEF Unfolds, Extended
  <2>3. Position = [at |-> "execute", item |-> 1, attempt |-> 0, output |-> NoOutput]
    BY <2>1, PositionIs
  <2>4. ~Decomposed /\ FlowAt = "specify"
    BY <2>1 DEF Decomposed, Logged, FlowAt
  <2> QED
    BY <2>2, <2>3, <2>4 DEF F!Init
<1>2. TypeInv /\ FlowInv /\ [Next]_vars => [F!Next]_(F!vars)
  <2> SUFFICES ASSUME TypeInv, FlowInv, [Next]_vars PROVE F!Next \/ UNCHANGED F!vars
    OBVIOUS
  <2>1. CASE Specify \/ Decompose \/ Reenter
    BY <2>1, FlowPrefix
  <2>2. CASE Mark \/ \E decision \in Decisions : Verify(decision)
    BY <2>2, FlowLoops
  <2>3. CASE \/ Start \/ Resume \/ ReturnRecorded \/ AssertFails \/ SaveCheckpoint
             \/ Advance \/ TakeOver \/ UseInjection \/ Execute
             \/ EffectBlocked \/ EffectCached \/ BeginEffect \/ CompleteEffect \/ NotIndependent
             \/ Cut \/ UNCHANGED vars
    <3>1. UNCHANGED <<log, plan>>
      BY <2>3 DEF Start, Resume, Call, ReturnRecorded, AssertFails, SaveCheckpoint, Advance,
         TakeOver, DoItem, NextItem, UseInjection, Execute, EffectBlocked, EffectCached,
         BeginEffect, CompleteEffect, NotIndependent, Cut, Hold, durable, vars
    <3> QED
      BY <3>1, FlowStutters
  <2>4. CASE LogResume \/ Gate \/ Pause \/ Act
    <3>1. index \in Nat /\ output \in Output
      BY PlanShape DEF TypeInv, TypeOK
    <3>2. plan' = plan
      BY <2>4 DEF LogResume, Gate, Pause, Act, Hold
    <3>3. /\ [stage |-> "resume", item |-> index] \in Event
          /\ [stage |-> "gate", item |-> index, allow |-> index \in allowed] \in Event
          /\ [stage |-> "breakpoint", item |-> index] \in Event
          /\ [stage |-> "act", item |-> index, output |-> output] \in Event
      BY <3>1 DEF Event
    <3>4. \E e \in Event : /\ Emit(e)
                           /\ e.stage \in {"resume", "gate", "breakpoint", "act"}
      BY <2>4, <3>3 DEF LogResume, Gate, Pause, Act
    <3> QED
      BY <3>2, <3>4, FlowStutters
  <2>5. CASE Inject \/ InjectRefused \/ SetBreakpoint \/ ClearBreakpoint
    <3>1. PICK e \in Event :
            /\ e.stage \in {"inject", "refused", "set_breakpoint", "clear_breakpoint"}
            /\ Emit(e)
      BY <2>5, HumanStep
    <3>2. plan' = plan
      BY <2>5, HumanStep
    <3> QED
      BY <3>1, <3>2, FlowStutters
  <2> QED
    BY <2>1, <2>2, <2>3, <2>4, <2>5 DEF Next, Step
<1> QED
  BY <1>1, <1>2, TypeInvariance, FlowInvariance, PTL DEF Spec, ImplementsFlow, F!Spec
==============================================================================
