-------------------------- MODULE EventStoreProofs ---------------------------
(***************************************************************************)
(* What EventStore guarantees for any set of flows, writers and payloads,  *)
(* any bound, and any number of races and deaths.                          *)
(***************************************************************************)
EXTENDS EventStore, SequenceTheorems, TLAPS

------------------------------------------------------------------------------
(* The inductive invariant. *)

\* GapFree without Max: the form a step preserves.
Contiguous == \A f \in Flows : \E n \in Nat : Seqs(f) = 0 .. n - 1

\* The hash a row at seq s has to link to.
LinkAt(f, s) == IF s = 0 THEN GENESIS ELSE events[f][s - 1].hash

RowsLinked ==
  \A f \in Flows : \A s \in Seqs(f) :
    /\ events[f][s].prev_hash = LinkAt(f, s)
    /\ events[f][s].hash = compute_hash(LinkAt(f, s), events[f][s].payload)
    /\ events[f][s].hash = HashedHistory(f, s)

\* However stale, what a writer is about to insert links to the row before its seq,
\* and the row at its seq, if there is one by now, is somebody else's.
PendLinked ==
  \A w \in Writers : pc[w] = "selected" =>
    LET f == pend[w].flow
        s == pend[w].seq
    IN /\ s = 0 \/ s - 1 \in Seqs(f)
       /\ pend[w].row.prev_hash = LinkAt(f, s)
       /\ pend[w].row.hash = compute_hash(LinkAt(f, s), pend[w].row.payload)
       /\ pend[w].row.actor = w
       /\ s \in Seqs(f) => events[f][s].actor # w

CommittedStored ==
  \A w \in Writers : pc[w] = "committed" =>
    /\ pend[w].seq \in Seqs(pend[w].flow)
    /\ events[pend[w].flow][pend[w].seq] = pend[w].row

LastAcked == \A w \in Writers : last[w] # NoEvent => last[w] \in acked

IInv ==
  /\ TypeOK
  /\ Contiguous
  /\ RowsLinked
  /\ PendLinked
  /\ CommittedStored
  /\ AckedDurable
  /\ LastAcked
  /\ CheckpointBacked

------------------------------------------------------------------------------
(* Facts about the operators. *)

\* ORDER BY seq DESC LIMIT 1 on a gap-free table finds its last row.
LEMMA MaxOfRange ==
  ASSUME NEW n \in Nat, n > 0
  PROVE  Max(0 .. n - 1) = n - 1
BY DEF Max

LEMMA NextSeqOfRange ==
  ASSUME NEW f \in Flows, NEW n \in Nat, Seqs(f) = 0 .. n - 1
  PROVE  /\ NextSeq(f) = n
         /\ n > 0 => TailHash(f) = events[f][n - 1].hash
         /\ n = 0 => TailHash(f) = GENESIS
<1>1. CASE n = 0
  BY <1>1 DEF NextSeq, TailHash
<1>2. CASE n > 0
  <2>1. Max(Seqs(f)) = n - 1
    BY <1>2, MaxOfRange
  <2>2. n - 1 \in Seqs(f)
    BY <1>2
  <2> QED BY <1>2, <2>1, <2>2 DEF NextSeq, TailHash
<1> QED BY <1>1, <1>2

\* Appending to a sequence given position by position.
LEMMA AppendPointwise ==
  ASSUME NEW T, NEW n \in Nat, NEW h \in [1 .. n -> T], NEW e \in T
  PROVE  Append(h, e) = [i \in 1 .. n + 1 |-> IF i = n + 1 THEN e ELSE h[i]]
<1> DEFINE a == Append(h, e)
<1>1. h \in Seq(T) /\ Len(h) = n
  OBVIOUS
<1>2. /\ a \in Seq(T) /\ Len(a) = n + 1 /\ a[n + 1] = e
      /\ \A i \in 1 .. n : a[i] = h[i]
  BY <1>1, AppendProperties
<1>3. a \in [1 .. n + 1 -> T]
  BY <1>2, LenProperties
<1>4. \A i \in 1 .. n + 1 : a[i] = IF i = n + 1 THEN e ELSE h[i]
  BY <1>2
<1> QED BY <1>3, <1>4

LEMMA RowTyped ==
  ASSUME TypeOK, NEW f \in Flows, NEW s \in Seqs(f)
  PROVE  events[f][s] \in Row /\ events[f][s].payload \in Payloads
BY DEF TypeOK, Row

LEMMA ContiguousGapFree == Contiguous => GapFree
BY NextSeqOfRange DEF Contiguous, GapFree

\* On a linked, gap-free table the walk of verify_chain succeeds.
LEMMA LinkedIntact ==
  ASSUME Contiguous, RowsLinked
  PROVE  ChainIntact
<1> SUFFICES ASSUME NEW f \in Flows, NEW s \in Seqs(f)
             PROVE  LET before == {t \in Seqs(f) : t < s}
                        prev == IF before = {} THEN GENESIS ELSE events[f][Max(before)].hash
                    IN /\ events[f][s].prev_hash = prev
                       /\ events[f][s].hash = compute_hash(prev, events[f][s].payload)
  BY DEF ChainIntact, verify_chain, RowsLinked
<1> DEFINE before == {t \in Seqs(f) : t < s}
<1>1. PICK n \in Nat : Seqs(f) = 0 .. n - 1
  BY DEF Contiguous
<1>2. before = 0 .. s - 1 /\ s \in Nat
  BY <1>1
<1>3. CASE s = 0
  BY <1>2, <1>3 DEF RowsLinked, LinkAt
<1>4. CASE s > 0
  <2>1. Max(before) = s - 1
    BY <1>2, <1>4, MaxOfRange
  <2> QED BY <1>2, <1>4, <2>1 DEF RowsLinked, LinkAt
<1> QED BY <1>2, <1>3, <1>4

------------------------------------------------------------------------------
LEMMA InitIInv == Init => IInv
<1> SUFFICES ASSUME Init PROVE IInv
  OBVIOUS
<1>1. \A f \in Flows : Seqs(f) = {}
  BY DEF Init, Seqs
<1>2. TypeOK
  BY <1>1 DEF Init, TypeOK, Seqs
<1>3. Contiguous
  <2>1. 0 .. 0 - 1 = {}
    OBVIOUS
  <2> QED BY <1>1, <2>1 DEF Contiguous
<1> QED BY <1>1, <1>2, <1>3
        DEF Init, IInv, RowsLinked, PendLinked, CommittedStored, AckedDurable, LastAcked, CheckpointBacked

LEMMA SelectIInv ==
  ASSUME IInv, NEW w \in Writers, NEW f \in Flows, NEW p \in Payloads, SelectTail(w, f, p)
  PROVE  IInv'
<1> USE DEF IInv
<1>1. PICK n \in Nat : Seqs(f) = 0 .. n - 1
  BY DEF Contiguous
<1>2. /\ NextSeq(f) = n
      /\ n > 0 => TailHash(f) = events[f][n - 1].hash
      /\ n = 0 => TailHash(f) = GENESIS
  BY <1>1, NextSeqOfRange
<1>3. TailHash(f) = LinkAt(f, n)
  BY <1>2 DEF LinkAt
<1>4. TailHash(f) \in Seq(Payloads)
  <2>1. CASE n = 0
    BY <1>2, <2>1 DEF GENESIS
  <2>2. CASE n > 0
    BY <1>1, <1>2, <2>2 DEF TypeOK, Row
  <2> QED BY <2>1, <2>2
<1>5. n \in SeqRange
  BY <1>2, MaxEventsAssumption DEF SelectTail, SeqRange
<1>6. UNCHANGED <<events, checkpoints, last, acked>>
  BY DEF SelectTail
<1> DEFINE new == [flow |-> f, seq |-> n,
                   row |-> [prev_hash |-> TailHash(f), hash |-> compute_hash(TailHash(f), p),
                            payload |-> p, actor |-> w]]
<1>7. /\ pend' = [pend EXCEPT ![w] = new]
      /\ pc' = [pc EXCEPT ![w] = "selected"]
      /\ pc[w] = "idle"
  BY <1>2 DEF SelectTail
<1>8. new \in Pending
  BY <1>4, <1>5 DEF Pending, Row, compute_hash
<1>9. TypeOK'
  BY <1>6, <1>7, <1>8 DEF TypeOK, Seqs
<1>10. PendLinked'
  <2> SUFFICES ASSUME NEW v \in Writers, pc'[v] = "selected"
               PROVE  LET g == pend'[v].flow
                          s == pend'[v].seq
                      IN /\ s = 0 \/ s - 1 \in Seqs(g)
                         /\ pend'[v].row.prev_hash = LinkAt(g, s)
                         /\ pend'[v].row.hash = compute_hash(LinkAt(g, s), pend'[v].row.payload)
                         /\ pend'[v].row.actor = v
                         /\ s \in Seqs(g) => events[g][s].actor # v
    BY <1>6 DEF PendLinked, Seqs, LinkAt
  <2>1. CASE v = w
    <3>1. pend'[v] = new
      BY <1>7, <2>1 DEF TypeOK
    <3>2. n \notin Seqs(f) /\ (n = 0 \/ n - 1 \in Seqs(f))
      BY <1>1
    <3> QED BY <1>3, <2>1, <3>1, <3>2
  <2>2. CASE v # w
    BY <1>7, <2>2 DEF PendLinked, TypeOK
  <2> QED BY <2>1, <2>2
<1>11. CommittedStored'
  BY <1>6, <1>7 DEF CommittedStored, TypeOK, Seqs
<1>12. Contiguous' /\ RowsLinked' /\ AckedDurable' /\ LastAcked' /\ CheckpointBacked'
  BY <1>6 DEF Contiguous, RowsLinked, AckedDurable, LastAcked, CheckpointBacked, Seqs, LinkAt,
              HashedHistory
<1> QED BY <1>9, <1>10, <1>11, <1>12

\* A row inserted at a free seq lands right after the last one: its rivals are all
\* there or none is.
LEMMA InsertLands ==
  ASSUME IInv, NEW w \in Writers, InsertRow(w),
         NEW f, f = pend[w].flow, NEW s, s = pend[w].seq
  PROVE  /\ f \in Flows /\ s \in Nat
         /\ Seqs(f) = 0 .. s - 1
         /\ DOMAIN events'[f] = 0 .. s
         /\ events'[f] = [t \in 0 .. s |-> IF t = s THEN pend[w].row ELSE events[f][t]]
         /\ \A g \in Flows \ {f} : events'[g] = events[g]
<1>1. pend[w] \in Pending /\ pc[w] = "selected" /\ s \notin Seqs(f)
  BY DEF IInv, TypeOK, InsertRow, KeyFree
<1>2. f \in Flows /\ s \in Nat
  BY <1>1, MaxEventsAssumption DEF Pending, SeqRange
<1>3. PICK n \in Nat : Seqs(f) = 0 .. n - 1
  BY <1>2 DEF IInv, Contiguous
<1>4. s = 0 \/ s - 1 \in Seqs(f)
  BY <1>1 DEF IInv, PendLinked
<1>5. n = s
  BY <1>1, <1>2, <1>3, <1>4
<1>6. (0 .. s - 1) \cup {s} = 0 .. s
  BY <1>2
<1>7. /\ events'[f] = [t \in Seqs(f) \cup {s} |-> IF t = s THEN pend[w].row ELSE events[f][t]]
      /\ \A g \in Flows \ {f} : events'[g] = events[g]
  BY <1>2 DEF InsertRow, IInv, TypeOK, Seqs
<1>8. Seqs(f) = 0 .. s - 1
  BY <1>3, <1>5
<1>9. events'[f] = [t \in 0 .. s |-> IF t = s THEN pend[w].row ELSE events[f][t]]
  BY <1>6, <1>7, <1>8
<1>10. DOMAIN events'[f] = 0 .. s
  BY <1>9
<1> QED BY <1>2, <1>7, <1>8, <1>9, <1>10

LEMMA InsertIInv ==
  ASSUME IInv, NEW w \in Writers, InsertRow(w)
  PROVE  IInv'
<1> USE DEF IInv
<1> DEFINE f == pend[w].flow
           s == pend[w].seq
           r == pend[w].row
<1>1. /\ f \in Flows /\ s \in Nat
      /\ Seqs(f) = 0 .. s - 1
      /\ DOMAIN events'[f] = 0 .. s
      /\ events'[f] = [t \in 0 .. s |-> IF t = s THEN r ELSE events[f][t]]
      /\ \A g \in Flows \ {f} : events'[g] = events[g]
  BY InsertLands
<1>2. /\ UNCHANGED <<checkpoints, pend, last, acked>>
      /\ pc[w] = "selected"
      /\ pc' = [pc EXCEPT ![w] = "committed"]
  BY DEF InsertRow
<1>3. pend[w] \in Pending /\ r \in Row /\ s \in SeqRange
  BY <1>2 DEF TypeOK, Pending
<1>4. /\ r.prev_hash = LinkAt(f, s)
      /\ r.hash = compute_hash(LinkAt(f, s), r.payload)
      /\ r.actor = w
  BY <1>2 DEF PendLinked
\* Old rows stay; the one new row is r.
<1>5. \A g \in Flows : \A t \in Seqs(g) : t \in DOMAIN events'[g] /\ events'[g][t] = events[g][t]
  BY <1>1 DEF Seqs
<1>6. \A g \in Flows : \A t \in DOMAIN events'[g] : t \in Seqs(g) \/ (g = f /\ t = s)
  BY <1>1 DEF Seqs
<1>7. events'[f][s] = r /\ s \in DOMAIN events'[f] /\ s \notin Seqs(f)
  BY <1>1
<1>8. \A g \in Flows : Seqs(g)' = DOMAIN events'[g]
  BY DEF Seqs
<1>9. TypeOK'
  <2>1. events' = [g \in Flows |-> events'[g]]
    BY DEF InsertRow, TypeOK
  <2>2. ASSUME NEW g \in Flows
        PROVE  DOMAIN events'[g] \subseteq SeqRange /\ events'[g] \in [DOMAIN events'[g] -> Row]
    <3>1. CASE g # f
      BY <1>1, <3>1 DEF TypeOK, Seqs
    <3>2. CASE g = f
      <4>1. \A t \in 0 .. s : events'[f][t] \in Row
        BY <1>1, <1>3 DEF TypeOK
      <4>2. 0 .. s \subseteq SeqRange
        BY <1>1, <1>3, MaxEventsAssumption DEF SeqRange
      <4> QED BY <1>1, <3>2, <4>1, <4>2
    <3> QED BY <3>1, <3>2
  <2>3. pc' \in [Writers -> {"idle", "selected", "committed", "dead"}]
    BY <1>2 DEF TypeOK
  <2>4. \A v \in Writers : pc'[v] \in {"selected", "committed"} => pend'[v] \in Pending
    BY <1>2 DEF TypeOK
  <2> QED BY <1>2, <1>8, <2>1, <2>2, <2>3, <2>4 DEF TypeOK
<1>10. Contiguous'
  <2> SUFFICES ASSUME NEW g \in Flows PROVE \E n \in Nat : DOMAIN events'[g] = 0 .. n - 1
    BY <1>8 DEF Contiguous
  <2>1. CASE g # f
    BY <1>1, <2>1 DEF Contiguous, Seqs
  <2>2. CASE g = f
    <3>1. s + 1 \in Nat /\ 0 .. s = 0 .. (s + 1) - 1
      BY <1>1
    <3> QED BY <1>1, <2>2, <3>1
  <2> QED BY <2>1, <2>2
\* Links look one row back, so they are unchanged wherever that row was there.
<1>11. \A g \in Flows : \A t \in Nat : (t = 0 \/ t - 1 \in Seqs(g)) => LinkAt(g, t)' = LinkAt(g, t)
  BY <1>5 DEF LinkAt
<1>12. \A g \in Flows : \A t \in Seqs(g) : t \in Nat /\ (t = 0 \/ t - 1 \in Seqs(g))
  BY DEF Contiguous
<1>13. \A g \in Flows : \A t \in Seqs(g) : HashedHistory(g, t)' = HashedHistory(g, t)
  <2> SUFFICES ASSUME NEW g \in Flows, NEW t \in Seqs(g)
               PROVE  HashedHistory(g, t)' = HashedHistory(g, t)
    OBVIOUS
  <2>1. \A i \in 1 .. t + 1 : i - 1 \in Seqs(g)
    BY DEF Contiguous
  <2>2. \A i \in 1 .. t + 1 : events'[g][i - 1] = events[g][i - 1]
    BY <1>5, <2>1
  <2> QED BY <2>2 DEF HashedHistory
<1>14. r.hash = HashedHistory(f, s)'
  <2>1. \A i \in 1 .. s : i - 1 \in Seqs(f) /\ events'[f][i - 1] = events[f][i - 1]
    BY <1>1, <1>5
  <2>2. LinkAt(f, s) = [i \in 1 .. s |-> events'[f][i - 1].payload]
    <3>1. CASE s = 0
      BY <3>1 DEF LinkAt, GENESIS
    <3>2. CASE s > 0
      <4>1. s - 1 \in Seqs(f) /\ (s - 1) + 1 = s
        BY <1>1, <3>2
      <4>2. LinkAt(f, s) = HashedHistory(f, s - 1)
        BY <1>1, <3>2, <4>1 DEF LinkAt, RowsLinked
      <4> QED BY <2>1, <4>1, <4>2 DEF HashedHistory
    <3> QED BY <1>1, <3>1, <3>2
  <2>3. Append([i \in 1 .. s |-> events'[f][i - 1].payload], r.payload)
          = [i \in 1 .. s + 1 |-> events'[f][i - 1].payload]
    <3> DEFINE h == [i \in 1 .. s |-> events'[f][i - 1].payload]
    <3>1. \A i \in 1 .. s : events'[f][i - 1].payload \in Payloads
      BY <1>1, <2>1, RowTyped
    <3>2. h \in [1 .. s -> Payloads]
      BY <3>1
    <3>3. r.payload \in Payloads /\ (s + 1) - 1 = s
      BY <1>1, <1>3 DEF Row
    <3> HIDE DEF h
    <3>4. Append(h, r.payload) = [i \in 1 .. s + 1 |-> IF i = s + 1 THEN r.payload ELSE h[i]]
      BY <1>1, <3>2, <3>3, AppendPointwise
    <3>5. ASSUME NEW i \in 1 .. s + 1
          PROVE  (IF i = s + 1 THEN r.payload ELSE h[i]) = events'[f][i - 1].payload
      <4>1. CASE i = s + 1
        BY <1>7, <3>3, <4>1
      <4>2. CASE i # s + 1
        <5>1. i \in 1 .. s
          BY <1>1, <4>2
        <5> QED BY <4>2, <5>1 DEF h
      <4> QED BY <4>1, <4>2
    <3> QED BY <3>4, <3>5 DEF h
  <2>4. r.hash = Append([i \in 1 .. s |-> events'[f][i - 1].payload], r.payload)
    BY <1>4, <2>2 DEF compute_hash
  <2>5. HashedHistory(f, s)' = [i \in 1 .. s + 1 |-> events'[f][i - 1].payload]
    BY <1>2 DEF HashedHistory
  <2> QED BY <2>3, <2>4, <2>5
<1>15. RowsLinked'
  <2> SUFFICES ASSUME NEW g \in Flows, NEW t \in DOMAIN events'[g]
               PROVE  /\ events'[g][t].prev_hash = LinkAt(g, t)'
                      /\ events'[g][t].hash = compute_hash(LinkAt(g, t)', events'[g][t].payload)
                      /\ events'[g][t].hash = HashedHistory(g, t)'
    BY <1>8 DEF RowsLinked, compute_hash
  <2>1. CASE t \in Seqs(g)
    <3>1. events'[g][t] = events[g][t]
      BY <1>5, <2>1
    <3>2. LinkAt(g, t)' = LinkAt(g, t)
      BY <1>11, <1>12, <2>1
    <3>3. HashedHistory(g, t)' = HashedHistory(g, t)
      BY <1>13, <2>1
    <3>4. /\ events[g][t].prev_hash = LinkAt(g, t)
          /\ events[g][t].hash = compute_hash(LinkAt(g, t), events[g][t].payload)
          /\ events[g][t].hash = HashedHistory(g, t)
      BY <2>1 DEF RowsLinked
    <3> QED BY <3>1, <3>2, <3>3, <3>4 DEF compute_hash
  <2>2. CASE g = f /\ t = s
    <3>1. s = 0 \/ s - 1 \in Seqs(f)
      BY <1>1
    <3>2. LinkAt(f, s)' = LinkAt(f, s)
      BY <1>1, <1>2, <1>11, <3>1
    <3> QED BY <1>2, <1>4, <1>7, <1>14, <2>2, <3>2 DEF compute_hash, LinkAt, HashedHistory
  <2> QED BY <1>6, <2>1, <2>2
<1>16. PendLinked'
  <2> SUFFICES ASSUME NEW v \in Writers, pc'[v] = "selected"
               PROVE  LET g == pend[v].flow
                          t == pend[v].seq
                      IN /\ t = 0 \/ t - 1 \in DOMAIN events'[g]
                         /\ pend[v].row.prev_hash = LinkAt(g, t)'
                         /\ pend[v].row.hash = compute_hash(LinkAt(g, t)', pend[v].row.payload)
                         /\ pend[v].row.actor = v
                         /\ t \in DOMAIN events'[g] => events'[g][t].actor # v
    BY <1>2 DEF PendLinked, Seqs, LinkAt, compute_hash
  <2>1. v # w /\ pc[v] = "selected" /\ pend[v] \in Pending
    BY <1>2 DEF TypeOK
  <2>2. pend[v].flow \in Flows /\ pend[v].seq \in Nat
    BY <2>1, MaxEventsAssumption DEF Pending, SeqRange
  <2>3. pend[v].seq = 0 \/ pend[v].seq - 1 \in Seqs(pend[v].flow)
    BY <2>1 DEF PendLinked
  <2>4. LinkAt(pend[v].flow, pend[v].seq)' = LinkAt(pend[v].flow, pend[v].seq)
    BY <1>2, <1>5, <2>2, <2>3 DEF LinkAt
  <2>5. pend[v].seq \in DOMAIN events'[pend[v].flow]
          => events'[pend[v].flow][pend[v].seq].actor # v
    BY <1>4, <1>5, <1>6, <1>7, <2>1, <2>2 DEF PendLinked
  <2>6. pend[v].seq = 0 \/ pend[v].seq - 1 \in DOMAIN events'[pend[v].flow]
    BY <1>5, <2>2, <2>3
  <2>7. /\ pend[v].row.prev_hash = LinkAt(pend[v].flow, pend[v].seq)
        /\ pend[v].row.hash = compute_hash(LinkAt(pend[v].flow, pend[v].seq), pend[v].row.payload)
        /\ pend[v].row.actor = v
    BY <2>1 DEF PendLinked
  <2> HIDE DEF IInv
  <2> QED BY <2>4, <2>5, <2>6, <2>7
<1>17. CommittedStored'
  <2> SUFFICES ASSUME NEW v \in Writers, pc'[v] = "committed"
               PROVE  /\ pend[v].seq \in DOMAIN events'[pend[v].flow]
                      /\ events'[pend[v].flow][pend[v].seq] = pend[v].row
    BY <1>2 DEF CommittedStored, Seqs
  <2>1. CASE v = w
    BY <1>7, <2>1
  <2>2. CASE v # w
    BY <1>2, <1>5, <2>2 DEF CommittedStored, TypeOK, Pending
  <2> QED BY <2>1, <2>2
<1>18. AckedDurable' /\ CheckpointBacked' /\ LastAcked'
  BY <1>2, <1>5, <1>8 DEF AckedDurable, CheckpointBacked, LastAcked, TypeOK, Returned
<1> QED BY <1>9, <1>10, <1>15, <1>16, <1>17, <1>18

\* The steps that leave the tables alone, or only append a checkpoint of a returned event.
LEMMA OtherIInv ==
  ASSUME IInv, NEW w \in Writers,
         InsertConflict(w) \/ ReturnEvent(w) \/ Checkpoint(w) \/ Die(w) \/ Reopen(w)
  PROVE  IInv'
<1> USE DEF IInv
<1>1. UNCHANGED <<events, pend>>
  BY DEF InsertConflict, ReturnEvent, Checkpoint, Die, Reopen
<1>2. /\ pc' \in [Writers -> {"idle", "selected", "committed", "dead"}]
      /\ \A v \in Writers : pc'[v] \in {"selected", "committed"} => pc'[v] = pc[v]
  BY DEF InsertConflict, ReturnEvent, Checkpoint, Die, Reopen, TypeOK
<1>3. Contiguous' /\ RowsLinked' /\ PendLinked' /\ CommittedStored'
  <2>1. Contiguous' /\ RowsLinked'
    BY <1>1 DEF Contiguous, RowsLinked, Seqs, LinkAt, HashedHistory
  <2>2. PendLinked'
    BY <1>1, <1>2 DEF PendLinked, Seqs, LinkAt
  <2>3. CommittedStored'
    BY <1>1, <1>2 DEF CommittedStored, Seqs
  <2> QED BY <2>1, <2>2, <2>3
<1>4. CASE ReturnEvent(w)
  <2> DEFINE ev == ReturnedEvent(w)
  <2>1. /\ pend[w] \in Pending
        /\ pend[w].seq \in Seqs(pend[w].flow)
        /\ events[pend[w].flow][pend[w].seq] = pend[w].row
    BY <1>4 DEF ReturnEvent, TypeOK, CommittedStored
  <2>2. ev \in Returned /\ ev.seq \in Seqs(ev.flow) /\ events[ev.flow][ev.seq].payload = ev.payload
    BY <2>1 DEF ReturnedEvent, Pending, Row, Returned
  <2>3. /\ last' = [last EXCEPT ![w] = ev]
        /\ acked' = acked \cup {ev}
        /\ checkpoints' = checkpoints
    BY <1>4 DEF ReturnEvent
  <2> HIDE DEF ev
  <2>4. TypeOK'
    BY <1>1, <1>2, <2>2, <2>3 DEF TypeOK, Seqs
  <2>5. AckedDurable' /\ LastAcked' /\ CheckpointBacked'
    BY <1>1, <2>2, <2>3 DEF AckedDurable, LastAcked, CheckpointBacked, Seqs, TypeOK
  <2> QED BY <1>3, <2>4, <2>5
<1>5. CASE Checkpoint(w)
  <2> DEFINE f == last[w].flow
             q == last[w].seq
  <2>1. last[w] \in acked /\ last[w] \in Returned
    BY <1>5 DEF Checkpoint, LastAcked, TypeOK
  <2>2. f \in Flows /\ q \in SeqRange /\ q \in Seqs(f)
    BY <2>1 DEF AckedDurable, Returned
  <2>3. /\ checkpoints' = [checkpoints EXCEPT ![f] = Append(@, q)]
        /\ last' = [last EXCEPT ![w] = NoEvent]
        /\ acked' = acked
    BY <1>5 DEF Checkpoint
  <2>4. /\ Append(checkpoints[f], q) \in Seq(SeqRange)
        /\ \A i \in DOMAIN Append(checkpoints[f], q) :
              \/ Append(checkpoints[f], q)[i] = q
              \/ i \in DOMAIN checkpoints[f] /\ Append(checkpoints[f], q)[i] = checkpoints[f][i]
    <3>1. checkpoints[f] \in Seq(SeqRange)
      BY <2>2 DEF TypeOK
    <3> QED BY <2>2, <3>1, AppendProperties, LenProperties
  <2> HIDE DEF f, q
  <2>5. TypeOK'
    BY <1>1, <1>2, <2>2, <2>3, <2>4 DEF TypeOK, Seqs
  <2>6. CheckpointBacked'
    BY <1>1, <2>2, <2>3, <2>4 DEF CheckpointBacked, Seqs, TypeOK
  <2>7. AckedDurable' /\ LastAcked'
    BY <1>1, <2>3 DEF AckedDurable, LastAcked, Seqs, TypeOK
  <2> QED BY <1>3, <2>5, <2>6, <2>7
<1>6. CASE InsertConflict(w) \/ Die(w) \/ Reopen(w)
  <2>1. /\ UNCHANGED <<checkpoints, acked>>
        /\ last' = last \/ last' = [last EXCEPT ![w] = NoEvent]
    BY <1>6 DEF InsertConflict, Die, Reopen
  <2>2. TypeOK'
    BY <1>1, <1>2, <2>1 DEF TypeOK, Seqs
  <2>3. AckedDurable' /\ LastAcked' /\ CheckpointBacked'
    BY <1>1, <2>1 DEF AckedDurable, LastAcked, CheckpointBacked, Seqs, TypeOK
  <2> QED BY <1>3, <2>2, <2>3
<1> QED BY <1>4, <1>5, <1>6

LEMMA StutterIInv == IInv /\ UNCHANGED vars => IInv'
<1> SUFFICES ASSUME IInv, UNCHANGED vars PROVE IInv'
  OBVIOUS
<1> USE DEF IInv, vars
<1>1. TypeOK'
  BY DEF TypeOK, Seqs
<1>2. Contiguous' /\ RowsLinked'
  BY DEF Contiguous, RowsLinked, Seqs, LinkAt, HashedHistory
<1>3. PendLinked' /\ CommittedStored'
  BY DEF PendLinked, CommittedStored, Seqs, LinkAt
<1>4. AckedDurable' /\ LastAcked' /\ CheckpointBacked'
  BY DEF AckedDurable, LastAcked, CheckpointBacked, Seqs
<1> QED BY <1>1, <1>2, <1>3, <1>4

LEMMA NextIInv == IInv /\ [Next]_vars => IInv'
<1> SUFFICES ASSUME IInv, [Next]_vars PROVE IInv'
  OBVIOUS
<1>1. CASE UNCHANGED vars
  BY <1>1, StutterIInv
<1>2. ASSUME NEW w \in Writers, NEW f \in Flows, NEW p \in Payloads, SelectTail(w, f, p)
      PROVE  IInv'
  BY <1>2, SelectIInv
<1>3. ASSUME NEW w \in Writers, InsertRow(w) PROVE IInv'
  BY <1>3, InsertIInv
<1>4. ASSUME NEW w \in Writers,
             InsertConflict(w) \/ ReturnEvent(w) \/ Checkpoint(w) \/ Die(w) \/ Reopen(w)
      PROVE  IInv'
  BY <1>4, OtherIInv
<1> QED BY <1>1, <1>2, <1>3, <1>4 DEF Next, Step

------------------------------------------------------------------------------
\* The inductive invariant holds in every reachable state.
THEOREM Invariance == Spec => []IInv
BY InitIInv, NextIInv, PTL DEF Spec

\* Every variable keeps its type and every seq its bound.
THEOREM TypeCorrect == Spec => []TypeOK
<1>1. IInv => TypeOK
  BY DEF IInv
<1> QED BY <1>1, Invariance, PTL

\* Racing and dying writers leave no gap in any flow's seq (EventStore Protocol: "gap-free").
THEOREM LogGapFree == Spec => []GapFree
<1>1. IInv => GapFree
  BY ContiguousGapFree DEF IInv
<1> QED BY <1>1, Invariance, PTL

\* verify_chain accepts every reachable log and each hash commits to its whole prefix:
\* a stale tail read never forks the chain.
THEOREM LogChainIntact == Spec => []ChainIntact
<1>1. IInv => ChainIntact
  BY LinkedIntact DEF IInv
<1> QED BY <1>1, Invariance, PTL

\* What append() returned is in the log for good; no checkpoint points past the log.
THEOREM Durability == Spec => [](AckedDurable /\ CheckpointBacked)
<1>1. IInv => AckedDurable /\ CheckpointBacked
  BY DEF IInv
<1> QED BY <1>1, Invariance, PTL

\* Every checkpoint that latest_checkpoint can return names a committed event of its flow: the
\* order of EventStore's two writes survives any crash between them.
THEOREM CheckpointsBacked == Spec => []CheckpointBacked
<1>1. IInv => CheckpointBacked
  BY DEF IInv
<1> QED BY <1>1, Invariance, PTL

\* No step changes or removes a committed row.
THEOREM AppendOnly == Spec => RowsImmutable
<1> DEFINE Kept == \A f \in Flows : \A s \in Seqs(f) :
                     s \in DOMAIN events'[f] /\ events'[f][s] = events[f][s]
<1>1. IInv /\ [Next]_vars => [Kept]_vars
  <2> SUFFICES ASSUME IInv, Next PROVE Kept
    OBVIOUS
  <2>1. ASSUME NEW w \in Writers, InsertRow(w) PROVE Kept
    <3>1. /\ pend[w].flow \in Flows
          /\ Seqs(pend[w].flow) = 0 .. pend[w].seq - 1
          /\ pend[w].seq \in Nat
          /\ events'[pend[w].flow] = [t \in 0 .. pend[w].seq |->
                IF t = pend[w].seq THEN pend[w].row ELSE events[pend[w].flow][t]]
          /\ \A g \in Flows \ {pend[w].flow} : events'[g] = events[g]
      BY <2>1, InsertLands
    <3> QED BY <3>1 DEF Seqs
  <2>2. CASE UNCHANGED events
    BY <2>2 DEF Seqs
  <2> QED BY <2>1, <2>2 DEF Next, Step, SelectTail, InsertConflict, ReturnEvent, Checkpoint, Die, Reopen
<1> QED BY <1>1, Invariance, PTL DEF Spec, RowsImmutable

\* An append is refused only because a rival took its seq.
THEOREM RefusalHasRival == Spec => ConflictHasRival
<1> DEFINE Rival == \A w \in Writers :
             (pc[w] = "selected" /\ pc'[w] = "idle") =>
               /\ pend[w].seq \in Seqs(pend[w].flow)
               /\ events[pend[w].flow][pend[w].seq].actor # w
<1>1. IInv /\ [Next]_vars => [Rival]_vars
  <2> SUFFICES ASSUME IInv, Next, NEW w \in Writers, pc[w] = "selected", pc'[w] = "idle"
               PROVE  /\ pend[w].seq \in Seqs(pend[w].flow)
                      /\ events[pend[w].flow][pend[w].seq].actor # w
    OBVIOUS
  <2>1. InsertConflict(w)
    BY DEF Next, Step, SelectTail, InsertRow, InsertConflict, ReturnEvent, Checkpoint, Die, Reopen,
           IInv, TypeOK
  <2> QED BY <2>1 DEF InsertConflict, KeyFree, IInv, PendLinked
<1> QED BY <1>1, Invariance, PTL DEF Spec, ConflictHasRival

------------------------------------------------------------------------------
(* Refinement: the table of racing writers is an atomic append-only log. *)

LEMMA InitLog == Init => A!Init
<1> SUFFICES ASSUME Init PROVE A!Init
  OBVIOUS
<1>1. \A f \in Flows : NextSeq(f) = 0
  BY DEF Init, NextSeq, Seqs
<1>2. \A f \in Flows : History(f) = <<>>
  BY <1>1 DEF History
<1> QED BY <1>2 DEF A!Init, Init

LEMMA InsertExtends ==
  ASSUME IInv, NEW w \in Writers, InsertRow(w)
  PROVE  A!Next
<1> DEFINE f == pend[w].flow
           s == pend[w].seq
           p == pend[w].row.payload
<1>1. /\ f \in Flows /\ s \in Nat
      /\ Seqs(f) = 0 .. s - 1
      /\ DOMAIN events'[f] = 0 .. s
      /\ events'[f] = [t \in 0 .. s |-> IF t = s THEN pend[w].row ELSE events[f][t]]
      /\ \A g \in Flows \ {f} : events'[g] = events[g]
  BY InsertLands
<1>2. p \in Payloads /\ UNCHANGED <<pend, acked>>
  BY DEF InsertRow, IInv, TypeOK, Pending, Row
<1>3. NextSeq(f) = s
  BY <1>1, NextSeqOfRange
<1>4. \A g \in Flows : NextSeq(g)' = IF g = f THEN s + 1 ELSE NextSeq(g)
  <2>1. ASSUME NEW g \in Flows, g # f PROVE NextSeq(g)' = NextSeq(g)
    BY <1>1, <2>1 DEF NextSeq, Seqs
  <2>2. NextSeq(f)' = s + 1
    <3>1. 0 .. s = 0 .. (s + 1) - 1 /\ s + 1 > 0 /\ s + 1 \in Nat
      BY <1>1
    <3>2. Max(0 .. s) = s
      BY <1>1, <3>1, MaxOfRange
    <3>3. s \in 0 .. s
      BY <1>1
    <3> QED BY <1>1, <1>2, <3>2, <3>3 DEF NextSeq, Seqs
  <2> QED BY <1>2, <2>1, <2>2
<1>5. ASSUME NEW g \in Flows, g # f PROVE History(g)' = History(g)
  BY <1>1, <1>4, <1>5 DEF History
<1>6. History(f)' = Append(History(f), p)
  <2>1. \A i \in 1 .. s : i - 1 \in Seqs(f) /\ events'[f][i - 1] = events[f][i - 1]
    BY <1>1
  <2>2. History(f) \in [1 .. s -> Payloads]
    BY <1>1, <1>3, <2>1, RowTyped DEF History, IInv
  <2> DEFINE h == History(f)
  <2>3. Append(h, p) = [i \in 1 .. s + 1 |-> IF i = s + 1 THEN p ELSE h[i]]
    <3>1. h \in [1 .. s -> Payloads] /\ s \in Nat /\ p \in Payloads
      BY <1>1, <1>2, <2>2
    <3> HIDE DEF h, p, s
    <3> QED BY <3>1, AppendPointwise
  <2>4. History(f)' = [i \in 1 .. s + 1 |-> events'[f][i - 1].payload]
    BY <1>1, <1>2, <1>4 DEF History
  <2>5. ASSUME NEW i \in 1 .. s + 1
        PROVE  (IF i = s + 1 THEN p ELSE h[i]) = events'[f][i - 1].payload
    <3>1. CASE i = s + 1
      <4>1. i - 1 = s /\ s \in 0 .. s
        BY <1>1, <3>1
      <4> QED BY <1>1, <3>1, <4>1
    <3>2. CASE i # s + 1
      <4>1. i \in 1 .. s
        BY <1>1, <3>2
      <4> QED BY <1>3, <2>1, <3>2, <4>1 DEF History
    <3> QED BY <3>1, <3>2
  <2> QED BY <2>3, <2>4, <2>5
<1>7. [g \in Flows |-> History(g)]' = [[g \in Flows |-> History(g)] EXCEPT ![f] = Append(@, p)]
  <2>1. ASSUME NEW g \in Flows
        PROVE  History(g)' = IF g = f THEN Append(History(g), p) ELSE History(g)
    <3>1. CASE g = f
      BY <1>2, <1>6, <3>1 DEF History, NextSeq, Seqs
    <3>2. CASE g # f
      BY <1>5, <3>2
    <3> QED BY <3>1, <3>2
  <2> QED BY <1>1, <2>1
<1>8. A!Extend(f, p)
  BY <1>2, <1>7 DEF A!Extend
<1> QED BY <1>1, <1>2, <1>8 DEF A!Next

LEMMA ReturnAcknowledges ==
  ASSUME IInv, NEW w \in Writers, ReturnEvent(w)
  PROVE  A!Next
<1> DEFINE f == pend[w].flow
           i == pend[w].seq + 1
<1>1. /\ pend[w] \in Pending
      /\ pend[w].seq \in Seqs(f)
      /\ events[f][pend[w].seq] = pend[w].row
  BY DEF ReturnEvent, IInv, TypeOK, CommittedStored
<1>2. f \in Flows /\ pend[w].seq \in Nat
  BY <1>1, MaxEventsAssumption DEF Pending, SeqRange
<1>3. PICK n \in Nat : Seqs(f) = 0 .. n - 1
  BY <1>2 DEF IInv, Contiguous
<1>4. NextSeq(f) = n /\ i \in 1 .. n /\ i - 1 = pend[w].seq
  <2>1. NextSeq(f) = n
    <3> HIDE DEF f
    <3> QED BY <1>2, <1>3, NextSeqOfRange
  <2> QED BY <1>1, <1>2, <1>3, <2>1
<1>5. History(f)[i] = pend[w].row.payload
  BY <1>1, <1>4 DEF History
<1>6. i \in 1 .. Len(History(f))
  BY <1>4 DEF History
<1>7. UNCHANGED [g \in Flows |-> History(g)]
  BY DEF ReturnEvent, History, NextSeq, Seqs
<1>8. acked' = acked \cup {[flow |-> f, seq |-> i - 1, payload |-> History(f)[i]]}
  BY <1>4, <1>5 DEF ReturnEvent, ReturnedEvent
<1>9. A!Acknowledge(f, i)
  BY <1>2, <1>7, <1>8 DEF A!Acknowledge
<1> QED BY <1>2, <1>6, <1>9 DEF A!Next

\* DurableEventStore implements the Protocol's "append-only, gap-free" history: every step is
\* one atomic append, one acknowledgement of what the history holds, or invisible.
THEOREM StoreImplementsLog == Spec => ImplementsLog
<1>1. IInv /\ [Next]_vars => [A!Next]_(A!vars)
  <2> SUFFICES ASSUME IInv, [Next]_vars PROVE [A!Next]_(A!vars)
    OBVIOUS
  <2>1. ASSUME NEW w \in Writers, InsertRow(w) PROVE A!Next
    BY <2>1, InsertExtends
  <2>2. ASSUME NEW w \in Writers, ReturnEvent(w) PROVE A!Next
    BY <2>2, ReturnAcknowledges
  <2>3. CASE UNCHANGED <<events, acked>>
    BY <2>3 DEF A!vars, History, NextSeq, Seqs
  <2> QED BY <2>1, <2>2, <2>3
          DEF Next, Step, vars, SelectTail, InsertConflict, Checkpoint, Die, Reopen
<1> QED BY <1>1, InitLog, Invariance, PTL DEF Spec, ImplementsLog, A!Spec
==============================================================================
