----------------------------- MODULE EventStore ------------------------------
(***************************************************************************)
(* The durable event plane: DurableEventStore (planes/memory.py), an       *)
(* SQLite table of hash-chained events and a table of checkpoints, used by *)
(* writers that may race and may die.                                      *)
(*                                                                         *)
(* append() runs SELECT tail and INSERT inside one `with self._conn`       *)
(* block, but sqlite3 opens its write transaction at the INSERT: the tail  *)
(* a writer computed its seq and prev_hash from can be stale when its row  *)
(* is inserted.  The primary key (flow_id, seq) is what then decides.  So  *)
(* an append is two steps here, and the INSERT with its commit is one.     *)
(***************************************************************************)
EXTENDS Naturals, Sequences, FiniteSetsExt

CONSTANTS
  Flows,      \* flow identifiers
  Writers,    \* processes with a connection to the database
  Payloads,   \* event payloads
  MaxEvents   \* bound: no append is begun at a seq of MaxEvents or more

ASSUME MaxEventsAssumption == MaxEvents \in Nat

VARIABLES
  events,       \* events[f]: partial function seq -> row (PRIMARY KEY (flow_id, seq))
  checkpoints,  \* checkpoints[f]: at_seq of each checkpoint row, in rowid order
  pc,           \* pc[w]: where writer w is in append()
  pend,         \* pend[w]: the row w is about to insert, or has just inserted
  last,         \* last[w]: the event append() last returned to w
  acked         \* history: every event some append() returned

vars == <<events, checkpoints, pc, pend, last, acked>>

------------------------------------------------------------------------------
(* compute_hash: SHA-256 taken as collision-free.  A digest of prev and the *)
(* payload is then as good as the history it stands for, which is what a    *)
(* sequence of payloads is.  Neither seq, kind nor actor is hashed.         *)
GENESIS == <<>>
compute_hash(prev, p) == Append(prev, p)

NoEvent == [flow |-> "none", seq |-> 0]

SeqRange == 0 .. MaxEvents - 1

Row == [prev_hash : Seq(Payloads), hash : Seq(Payloads), payload : Payloads, actor : Writers]

Pending == [flow : Flows, seq : SeqRange, row : Row]

Returned == [flow : Flows, seq : SeqRange, payload : Payloads]

Seqs(f) == DOMAIN events[f]

TypeOK ==
  /\ events = [f \in Flows |-> events[f]]
  /\ \A f \in Flows : Seqs(f) \subseteq SeqRange /\ events[f] \in [Seqs(f) -> Row]
  /\ checkpoints \in [Flows -> Seq(SeqRange)]
  /\ pc \in [Writers -> {"idle", "selected", "committed", "dead"}]
  /\ pend \in [Writers -> Pending \cup {NoEvent}]
  /\ last \in [Writers -> Returned \cup {NoEvent}]
  /\ acked \subseteq Returned
  /\ \A w \in Writers : pc[w] \in {"selected", "committed"} => pend[w] \in Pending

Init ==
  /\ events = [f \in Flows |-> [s \in {} |-> NoEvent]]
  /\ checkpoints = [f \in Flows |-> <<>>]
  /\ pc = [w \in Writers |-> "idle"]
  /\ pend = [w \in Writers |-> NoEvent]
  /\ last = [w \in Writers |-> NoEvent]
  /\ acked = {}

------------------------------------------------------------------------------
\* Mutant: seq counts from one, not from zero.
NextSeq_FromOne(f) == IF Seqs(f) = {} THEN 1 ELSE Max(Seqs(f)) + 1

\* The next position and the hash to link to, from ORDER BY seq DESC LIMIT 1.
NextSeq(f) == IF Seqs(f) = {} THEN 0 ELSE Max(Seqs(f)) + 1
TailHash(f) == IF Seqs(f) = {} THEN GENESIS ELSE events[f][Max(Seqs(f))].hash

\* append(): the SELECT, outside the write transaction.
SelectTail(w, f, p) ==
  /\ pc[w] = "idle"
  /\ NextSeq(f) < MaxEvents
  /\ pend' = [pend EXCEPT ![w] =
       [flow |-> f, seq |-> NextSeq(f),
        row |-> [prev_hash |-> TailHash(f), hash |-> compute_hash(TailHash(f), p),
                 payload |-> p, actor |-> w]]]
  /\ pc' = [pc EXCEPT ![w] = "selected"]
  /\ UNCHANGED <<events, checkpoints, last, acked>>

\* Mutants: a table without its primary key (INSERT OR REPLACE), and one that turns a
\* writer away because another is busy.
KeyFree_NoPrimaryKey(w) == TRUE
KeyFree_Busy(w) == \A v \in Writers \ {w} : pc[v] # "selected"

\* The primary key admits the row.
KeyFree(w) == pend[w].seq \notin Seqs(pend[w].flow)

\* append(): INSERT and commit.
InsertRow(w) ==
  /\ pc[w] = "selected"
  /\ KeyFree(w)
  /\ events' = [events EXCEPT ![pend[w].flow] =
       [s \in DOMAIN @ \cup {pend[w].seq} |->
          IF s = pend[w].seq THEN pend[w].row ELSE @[s]]]
  /\ pc' = [pc EXCEPT ![w] = "committed"]
  /\ UNCHANGED <<checkpoints, pend, last, acked>>

\* append(): IntegrityError on the primary key; the block rolls back, the caller sees the error.
InsertConflict(w) ==
  /\ pc[w] = "selected"
  /\ ~KeyFree(w)
  /\ pc' = [pc EXCEPT ![w] = "idle"]
  /\ UNCHANGED <<events, checkpoints, pend, last, acked>>

\* Mutant: the returned event carries the next seq.
ReturnedEvent_NextSeq(w) ==
  [flow |-> pend[w].flow, seq |-> pend[w].seq + 1, payload |-> pend[w].row.payload]

\* The Event built from what was inserted.
ReturnedEvent(w) ==
  [flow |-> pend[w].flow, seq |-> pend[w].seq, payload |-> pend[w].row.payload]

\* append() returns.
ReturnEvent(w) ==
  /\ pc[w] = "committed"
  /\ last' = [last EXCEPT ![w] = ReturnedEvent(w)]
  /\ acked' = acked \cup {ReturnedEvent(w)}
  /\ pc' = [pc EXCEPT ![w] = "idle"]
  /\ UNCHANGED <<events, checkpoints, pend>>

\* Mutant: the checkpoint is written for the position before its event is inserted.
Checkpoint_BeforeEvent(w) ==
  /\ pc[w] = "selected"
  /\ checkpoints' = [checkpoints EXCEPT ![pend[w].flow] = Append(@, pend[w].seq)]
  /\ UNCHANGED <<events, pc, pend, last, acked>>

\* checkpoint(): a transaction of its own, with at_seq taken from the event just
\* returned (the one caller, CellHandbrake._pause, appends and then checkpoints).
Checkpoint(w) ==
  /\ pc[w] = "idle"
  /\ last[w] # NoEvent
  /\ checkpoints' = [checkpoints EXCEPT ![last[w].flow] = Append(@, last[w].seq)]
  /\ last' = [last EXCEPT ![w] = NoEvent]
  /\ UNCHANGED <<events, pc, pend, acked>>

\* The process dies at any point; an uncommitted INSERT leaves nothing behind.
Die(w) ==
  /\ pc[w] # "dead"
  /\ pc' = [pc EXCEPT ![w] = "dead"]
  /\ last' = [last EXCEPT ![w] = NoEvent]
  /\ UNCHANGED <<events, checkpoints, pend, acked>>

\* A new process opens the same database: a fresh instance, no memory of the old one.
Reopen(w) ==
  /\ pc[w] = "dead"
  /\ pc' = [pc EXCEPT ![w] = "idle"]
  /\ UNCHANGED <<events, checkpoints, pend, last, acked>>

Step(w) == InsertRow(w) \/ InsertConflict(w) \/ ReturnEvent(w)

Next ==
  \E w \in Writers :
    \/ \E f \in Flows, p \in Payloads : SelectTail(w, f, p)
    \/ Step(w)
    \/ Checkpoint(w)
    \/ Die(w)
    \/ Reopen(w)

Spec == Init /\ [][Next]_vars

\* A running append() is straight-line code: it runs on unless the process dies.
FairSpec == Spec /\ \A w \in Writers : WF_vars(Step(w))

------------------------------------------------------------------------------
\* verify_chain: walk the rows in seq order, recomputing each link from the one before.
verify_chain(f) ==
  \A s \in Seqs(f) :
    LET before == {t \in Seqs(f) : t < s}
        prev == IF before = {} THEN GENESIS ELSE events[f][Max(before)].hash
    IN /\ events[f][s].prev_hash = prev
       /\ events[f][s].hash = compute_hash(prev, events[f][s].payload)

\* Each flow's log is 0, 1, 2, ... with no gap, whoever raced and whoever died
\* ("gap-free monotonic seq per flow", memory.py's EventStore Protocol).
GapFree == \A f \in Flows : Seqs(f) = 0 .. NextSeq(f) - 1

\* A history written by append() alone always verifies, and each row commits to the
\* whole prefix before it: racing appends never fork the chain.
HashedHistory(f, s) == [i \in 1 .. s + 1 |-> events[f][i - 1].payload]

ChainIntact ==
  \A f \in Flows :
    /\ verify_chain(f)
    /\ \A s \in Seqs(f) : events[f][s].hash = HashedHistory(f, s)

\* Every event append() ever returned is in the table, at the seq and with the
\* payload the caller was given.
AckedDurable ==
  \A a \in acked : a.seq \in Seqs(a.flow) /\ events[a.flow][a.seq].payload = a.payload

\* A checkpoint never refers past the history: its at_seq is a committed event.
CheckpointBacked ==
  \A f \in Flows : \A i \in DOMAIN checkpoints[f] : checkpoints[f][i] \in Seqs(f)

\* A committed row is never changed or removed, by any step of any writer.
RowsImmutable ==
  [][\A f \in Flows : \A s \in Seqs(f) :
       s \in DOMAIN events'[f] /\ events'[f][s] = events[f][s]]_vars

\* An append fails loudly only when a rival's append took the position it had read:
\* never on its own earlier row, never for nothing.
ConflictHasRival ==
  [][\A w \in Writers :
       (pc[w] = "selected" /\ pc'[w] = "idle") =>
          /\ pend[w].seq \in Seqs(pend[w].flow)
          /\ events[pend[w].flow][pend[w].seq].actor # w]_vars

\* Racing writers do not block one another: once somebody is about to insert at a
\* position, that position is filled, by it or by a rival, unless it dies.
TailAdvances ==
  \A w \in Writers, f \in Flows, n \in 0 .. MaxEvents - 1 :
    (pc[w] = "selected" /\ pend[w].flow = f /\ pend[w].seq = n)
      ~> (n \in Seqs(f) \/ pc[w] = "dead")

------------------------------------------------------------------------------
\* The abstract history: the payloads in seq order.
History(f) == [i \in 1 .. NextSeq(f) |-> events[f][i - 1].payload]

A == INSTANCE AppendOnlyLog WITH log <- [f \in Flows |-> History(f)]

\* The store implements an atomic append-only log, with any number of racing writers.
ImplementsLog == A!Spec
==============================================================================
