--------------------------- MODULE Backfill_proofs ---------------------------
(* Proofs about Backfill for every number of markets, candles, workers and *)
(* callers.                                                                *)
EXTENDS Backfill, FiniteSetTheorems, TLAPS

-----------------------------------------------------------------------------
(* Counting rows. *)

LEMMA RowSetFinite ==
    ASSUME NEW f \in [Candles -> Nat]
    PROVE  IsFiniteSet(RowSet(f)) /\ Cardinality(RowSet(f)) \in Nat
  <1> DEFINE piece(c) == {c} \X (1..f[c])
             pieces == {piece(c) : c \in Candles}
             cut == [c \in Candles |-> piece(c)]
  <1>1. IsFiniteSet(pieces)
    <2>1. cut \in Surjection(Candles, pieces)
      BY DEF Surjection
    <2>2. IsFiniteSet(Candles)
      BY BackfillAssumption DEF BackfillAssumption
    <2> QED BY <2>1, <2>2, FS_Surjection
  <1>2. ASSUME NEW c \in Candles PROVE IsFiniteSet(piece(c))
    <2>1. IsFiniteSet({c})
      BY FS_Singleton
    <2>2. IsFiniteSet(1..f[c])
      BY FS_Interval
    <2> QED BY <2>1, <2>2, FS_Product
  <1>3. RowSet(f) = UNION pieces
    BY DEF RowSet
  <1>4. IsFiniteSet(UNION pieces)
    BY <1>1, <1>2, FS_UNION
  <1> QED BY <1>3, <1>4, FS_CardinalityType

LEMMA RowSetGrows ==
    ASSUME NEW f \in [Candles -> Nat], NEW g \in [Candles -> Nat],
           \A c \in Candles : f[c] <= g[c]
    PROVE  Cardinality(RowSet(f)) <= Cardinality(RowSet(g))
  <1>1. RowSet(f) \subseteq RowSet(g)
    <2> SUFFICES ASSUME NEW c \in Candles, NEW p \in {c} \X (1..f[c])
                 PROVE  p \in {c} \X (1..g[c])
      BY DEF RowSet
    <2>1. f[c] \in Nat /\ g[c] \in Nat /\ f[c] <= g[c]
      OBVIOUS
    <2>2. 1..f[c] \subseteq 1..g[c]
      BY <2>1
    <2> QED BY <2>2
  <1> QED BY <1>1, RowSetFinite, FS_Subset

-----------------------------------------------------------------------------
(* Types. *)

LEMMA EmptyType == Empty \in Batches /\ Empty \in [Candles -> Nat]
  BY BackfillAssumption DEF BackfillAssumption, Empty, Batches

LEMMA BatchCounts ==
    ASSUME NEW batch \in Batches
    PROVE  batch \in [Candles -> Nat] /\ \A c \in Candles : batch[c] <= MaxRepeats
  BY BackfillAssumption DEF BackfillAssumption, Batches

LEMMA IdleType == Idle \in Task /\ NoRow \in Rows /\ NoCall \in Call
  <1>1. Idle.of \in Markets
    BY BackfillAssumption DEF BackfillAssumption, Idle
  <1> QED BY <1>1, EmptyType DEF Idle, Task, NoRow, Rows, NoCall, Call

(* The rows of a market with those of a batch. *)
LEMMA WithType ==
    ASSUME TypeOK, NEW m \in Markets, NEW batch \in Batches
    PROVE  /\ With(m, batch) \in [Markets -> [Candles -> Nat]]
           /\ \A d \in Markets, c \in Candles :
                 With(m, batch)[d][c] = IF d = m THEN copies[d][c] + batch[c] ELSE copies[d][c]
  <1>1. batch \in [Candles -> Nat] /\ copies[m] \in [Candles -> Nat]
    BY BatchCounts DEF TypeOK
  <1> DEFINE sum == [c \in Candles |-> copies[m][c] + batch[c]]
  <1>2. sum \in [Candles -> Nat]
    BY <1>1
  <1>3. With(m, batch) = [copies EXCEPT ![m] = sum]
    BY DEF With
  <1> QED BY <1>2, <1>3 DEF TypeOK

LEMMA VerdictType == ASSUME NEW n PROVE Verdict(n) \in {"ready", "warming_up"}
  BY DEF Verdict

LEMMA BecomeType ==
    ASSUME worker \in [Workers -> Task], NEW w \in Workers, NEW t \in Task, Become(w, t)
    PROVE  worker' \in [Workers -> Task]
  BY DEF Become

(* What a step of the queue or of a caller does to the types. *)
LEMMA QueueTypes ==
    ASSUME TypeOK, NEW q \in Callers, Queue(q)
    PROVE  TypeOK'
  <1>1. CASE BeginQueue(q)
    <2>1. ASSUME NEW n PROVE FirstOf(Due, n) \subseteq Markets
      BY DEF FirstOf, Due
    <2> QED BY <1>1, <2>1 DEF BeginQueue, TypeOK, Call
  <1>2. CASE SendTask(q)
    <2> DEFINE m == Earliest(caller[q].toSend)
               rest == [caller[q] EXCEPT !.toSend = @ \ {m}]
    <2>1. waiting' = [waiting EXCEPT ![m] = @ + 1]
      BY <1>2 DEF SendTask
    <2>2. rest \in Call
      BY DEF TypeOK, Call
    <2>3. caller' = [caller EXCEPT ![q] = rest]
      BY <1>2 DEF SendTask
    <2> HIDE DEF m, rest
    <2>4. caller' \in [Callers -> Call]
      BY <2>2, <2>3 DEF TypeOK
    <2>5. waiting' \in [Markets -> Nat]
      <3>1. CASE m \in Markets
        BY <2>1, <3>1 DEF TypeOK
      <3>2. CASE m \notin Markets
        BY <2>1, <3>2 DEF TypeOK
      <3> QED BY <3>1, <3>2
    <2> QED BY <1>2, <2>4, <2>5 DEF SendTask, TypeOK
  <1>3. CASE CommitQueue(q)
    <2>1. caller' \in [Callers -> Call]
      BY <1>3, IdleType DEF CommitQueue, TypeOK
    <2>2. row' \in [Markets -> Rows] /\ stranded' \subseteq Markets
      <3>1. \A m \in Markets : [row[m] EXCEPT !.status = "backfill_pending"] \in Rows
        BY DEF TypeOK, Rows, Statuses
      <3>2. caller[q].targets \subseteq Markets
        BY DEF TypeOK, Call
      <3>3. \/ row' = row /\ stranded' = stranded
            \/ /\ row' = [m \in Markets |-> IF m \in caller[q].targets
                                            THEN [row[m] EXCEPT !.status = "backfill_pending"]
                                            ELSE row[m]]
               /\ stranded' = (stranded \ caller[q].targets)
                                \cup {m \in caller[q].targets : ~Underway(m)}
        BY <1>3 DEF CommitQueue
      <3>4. row \in [Markets -> Rows] /\ stranded \subseteq Markets
        BY DEF TypeOK
      <3> QED BY <3>1, <3>2, <3>3, <3>4
    <2>3. /\ copies' = copies /\ ingested' = ingested /\ waiting' = waiting
          /\ worker' = worker /\ sent' = sent /\ losses' = losses
      BY <1>3 DEF CommitQueue
    <2> QED BY <2>1, <2>2, <2>3 DEF TypeOK
  <1>4. CASE FailQueue(q)
    BY <1>4, IdleType DEF FailQueue, TypeOK
  <1> QED BY <1>1, <1>2, <1>3, <1>4 DEF Queue

(* What a step of a running task does to the types. *)
LEMMA TaskTypes ==
    ASSUME TypeOK, NEW w \in Workers, TaskStep(w) \/ LoseTask(w)
    PROVE  TypeOK'
  <1> DEFINE t == worker[w]
  <1>0. t \in Task /\ t.of \in Markets /\ row[t.of] \in Rows
        /\ t.batch \in Batches /\ t.fresh \in Batches
    BY DEF TypeOK, Task
  <1>1. CASE FinishWithout(w)
    <2>1. PICK r \in {[row[t.of] EXCEPT !.status = "unsupported"],
                      [row[t.of] EXCEPT !.status = "backfill_failed"],
                      NoCandlesRow(row[t.of])} : row' = [row EXCEPT ![t.of] = r]
      BY <1>1 DEF FinishWithout
    <2>2. r \in Rows
      BY <1>0 DEF NoCandlesRow, Rows, Statuses
    <2>3. row' \in [Markets -> Rows]
      BY <2>1, <2>2 DEF TypeOK
    <2>4. worker' \in [Workers -> Task]
      BY <1>1, IdleType, BecomeType DEF FinishWithout, TypeOK
    <2> QED BY <1>1, <2>3, <2>4 DEF FinishWithout, TypeOK
  <1>2. CASE Fetch(w)
    <2>1. PICK batch \in Batches : Become(w, [t EXCEPT !.at = "check", !.batch = batch])
      BY <1>2 DEF Fetch
    <2>2. [t EXCEPT !.at = "check", !.batch = batch] \in Task
      BY <1>0 DEF Task
    <2>3. worker' \in [Workers -> Task]
      BY <2>1, <2>2, BecomeType DEF TypeOK
    <2> QED BY <1>2, <2>3 DEF Fetch, TypeOK
  <1>3. CASE CheckRows(w)
    <2>1. Missing(t.of, t.batch) \in Batches
      BY <1>0, BackfillAssumption DEF Missing, Batches, BackfillAssumption
    <2>2. [t EXCEPT !.at = "count", !.fresh = Missing(t.of, t.batch)] \in Task
      BY <1>0, <2>1 DEF Task
    <2>3. worker' \in [Workers -> Task]
      BY <1>3, <2>2, BecomeType DEF CheckRows, TypeOK
    <2> QED BY <1>3, <2>3 DEF CheckRows, TypeOK
  <1>4. CASE CountRows(w)
    <2>1. Counted(t) \in Nat
      <3>1. copies[t.of] \in [Candles -> Nat]
        BY <1>0 DEF TypeOK
      <3> QED BY <3>1, RowSetFinite DEF Counted, Stored
    <2>2. [t EXCEPT !.at = "commit", !.total = Counted(t), !.seen = row[t.of]] \in Task
      BY <1>0, <2>1 DEF Task
    <2>3. worker' \in [Workers -> Task]
      BY <1>4, <2>2, BecomeType DEF CountRows, TypeOK
    <2> QED BY <1>4, <2>3 DEF CountRows, TypeOK
  <1>5. CASE CommitRows(w)
    <2>1. worker' \in [Workers -> Task]
      BY <1>5, IdleType, BecomeType DEF CommitRows, TypeOK
    <2>2. row' \in [Markets -> Rows]
      <3>1. t.total \in Nat
        BY <1>0 DEF Task
      <3>2. Verdict(t.total) \in Statuses
        BY VerdictType DEF Statuses
      <3> QED BY <1>5, <1>0, <3>1, <3>2 DEF CommitRows, TypeOK, Rows
    <2>3. copies' \in [Markets -> [Candles -> Nat]]
      BY <1>0, <1>5, WithType DEF CommitRows
    <2> QED BY <1>5, <2>1, <2>2, <2>3 DEF CommitRows, TypeOK
  <1>6. CASE LoseTask(w)
    <2>1. worker' \in [Workers -> Task]
      BY <1>6, IdleType, BecomeType DEF LoseTask, TypeOK
    <2> QED BY <1>6, <1>0, <2>1 DEF LoseTask, TypeOK
  <1>7. CASE InsertRows(w)
    <2>1. worker' \in [Workers -> Task]
      BY <1>7, IdleType, BecomeType DEF InsertRows, TypeOK
    <2>2. copies' \in [Markets -> [Candles -> Nat]]
      BY <1>0, <1>7, WithType DEF InsertRows
    <2>3. ingested' \in [Markets -> [Candles -> Nat]]
      <3>1. ingested[t.of] \in [Candles -> Nat] /\ t.batch \in [Candles -> Nat]
        BY <1>0, BatchCounts DEF TypeOK
      <3>2. [c \in Candles |-> ingested[t.of][c] + t.batch[c]] \in [Candles -> Nat]
        BY <3>1
      <3> QED BY <1>7, <3>2 DEF InsertRows, TypeOK
    <2> QED BY <1>7, <2>1, <2>2, <2>3 DEF InsertRows, TypeOK
  <1> QED BY <1>1, <1>2, <1>3, <1>4, <1>5, <1>6, <1>7 DEF TaskStep

LEMMA IngestTypes ==
    ASSUME TypeOK, NEW w \in Workers, NEW m \in Markets, StartIngest(w, m)
    PROVE  TypeOK'
  <1>1. PICK batch \in Batches :
           Become(w, [Idle EXCEPT !.at = "insert", !.of = m, !.batch = batch])
    BY DEF StartIngest
  <1>2. [Idle EXCEPT !.at = "insert", !.of = m, !.batch = batch] \in Task
    BY IdleType DEF Task
  <1>3. worker' \in [Workers -> Task]
    BY <1>1, <1>2, BecomeType DEF TypeOK
  <1> QED BY <1>3 DEF StartIngest, TypeOK

LEMMA StartTypes ==
    ASSUME TypeOK, NEW w \in Workers, NEW m \in Markets, StartTask(w, m)
    PROVE  TypeOK'
  <1>1. [Idle EXCEPT !.at = "fetch", !.of = m] \in Task
    BY IdleType DEF Task
  <1>2. worker' \in [Workers -> Task]
    BY <1>1, BecomeType DEF StartTask, TypeOK
  <1>3. row' \in [Markets -> Rows]
    BY DEF StartTask, TypeOK, Rows, Statuses
  <1>4. waiting' \in [Markets -> Nat]
    BY DEF StartTask, TypeOK
  <1> QED BY <1>2, <1>3, <1>4 DEF StartTask, TypeOK

LEMMA StutterTypes == TypeOK /\ UNCHANGED vars => TypeOK'
  BY DEF TypeOK, vars

LEMMA TypeStep == TypeOK /\ [Next]_vars => TypeOK'
  <1> SUFFICES ASSUME TypeOK, [Next]_vars PROVE TypeOK'
    OBVIOUS
  <1>1. ASSUME NEW m \in Markets, RequestBackfill(m) PROVE TypeOK'
    BY <1>1 DEF RequestBackfill, TypeOK
  <1> QED BY <1>1, QueueTypes, TaskTypes, StartTypes, IngestTypes, StutterTypes DEF Next

LEMMA TypeInit == Init => TypeOK
  BY IdleType, EmptyType DEF Init, TypeOK

(* Every variable keeps its type, through every overlap of queue calls,    *)
(* tasks and losses.                                                       *)
THEOREM TypesHold == Spec => []TypeOK
  BY TypeInit, TypeStep, PTL DEF Spec

-----------------------------------------------------------------------------
(* A pending market has a task.                                            *)

(* A step of worker w leaves what the others will do alone. *)
LEMMA OthersDecide ==
    ASSUME NEW w \in Workers, NEW t, Become(w, t), worker \in [Workers -> Task],
           NEW v \in Workers, NEW m \in Markets, WillDecide(v, m), v # w
    PROVE  WillDecide(v, m)'
  BY DEF Become, WillDecide, WritesStatus

LEMMA PendingQueue ==
    ASSUME TypeOK, PendingHasTask, NEW q \in Callers, Queue(q)
    PROVE  PendingHasTask'
  <1>0. worker' = worker
    BY DEF Queue, BeginQueue, SendTask, CommitQueue, FailQueue
  <1>1. ASSUME waiting' = waiting, NEW m \in Markets PROVE Underway(m)' = Underway(m)
    BY <1>0, <1>1 DEF Underway, WillDecide, WritesStatus
  <1>2. CASE BeginQueue(q)
    BY <1>2, <1>1 DEF BeginQueue, PendingHasTask
  <1>3. CASE SendTask(q)
    <2> DEFINE e == Earliest(caller[q].toSend)
    <2>1. waiting' = [waiting EXCEPT ![e] = @ + 1] /\ row' = row /\ stranded' = stranded
      BY <1>3 DEF SendTask
    <2> HIDE DEF e
    <2>2. \A m \in Markets : waiting[m] > 0 => waiting'[m] > 0
      BY <2>1 DEF TypeOK
    <2>3. \A m \in Markets : Underway(m) => Underway(m)'
      BY <1>0, <2>2 DEF Underway, WillDecide, WritesStatus
    <2> QED BY <2>1, <2>3 DEF PendingHasTask
  <1>4. CASE CommitQueue(q)
    <2> SUFFICES ASSUME NEW m \in Markets, row'[m].status = "backfill_pending"
                 PROVE  Underway(m)' \/ m \in stranded'
      BY DEF PendingHasTask
    <2>1. Underway(m)' = Underway(m)
      BY <1>4, <1>1 DEF CommitQueue
    <2>2. CASE row' = row /\ stranded' = stranded
      BY <2>1, <2>2 DEF PendingHasTask
    <2>3. CASE /\ row' = [d \in Markets |-> IF d \in caller[q].targets
                                         THEN [row[d] EXCEPT !.status = "backfill_pending"]
                                         ELSE row[d]]
               /\ stranded' = (stranded \ caller[q].targets)
                                \cup {d \in caller[q].targets : ~Underway(d)}
      <3>1. CASE m \in caller[q].targets
        BY <2>1, <2>3, <3>1
      <3>2. CASE m \notin caller[q].targets
        BY <2>1, <2>3, <3>2 DEF PendingHasTask
      <3> QED BY <3>1, <3>2
    <2> QED BY <1>4, <2>2, <2>3 DEF CommitQueue
  <1>5. CASE FailQueue(q)
    BY <1>5, <1>1 DEF FailQueue, PendingHasTask
  <1> QED BY <1>2, <1>3, <1>4, <1>5 DEF Queue

(* A market that stays pending through a step of w keeps its task, if the  *)
(* step neither ends the promise of w nor takes a task from the broker.    *)
LEMMA PromiseKept ==
    ASSUME TypeOK, NEW w \in Workers, NEW t, Become(w, t), waiting' = waiting,
           NEW m \in Markets, Underway(m), WillDecide(w, m) => WillDecide(w, m)'
    PROVE  Underway(m)'
  <1>1. CASE waiting[m] > 0
    BY <1>1 DEF Underway
  <1>2. CASE \E v \in Workers : WillDecide(v, m)
    <2>1. PICK v \in Workers : WillDecide(v, m)
      BY <1>2
    <2>2. WillDecide(v, m)'
      BY <2>1, OthersDecide DEF TypeOK
    <2> QED BY <2>2 DEF Underway
  <1> QED BY <1>1, <1>2 DEF Underway

LEMMA PendingTask ==
    ASSUME TypeOK, PendingHasTask, NEW w \in Workers, TaskStep(w) \/ LoseTask(w)
    PROVE  PendingHasTask'
  <1> DEFINE t == worker[w]
  <1> SUFFICES ASSUME NEW m \in Markets, row'[m].status = "backfill_pending"
               PROVE  Underway(m)' \/ m \in stranded'
    BY DEF PendingHasTask
  <1>0. t \in Task /\ t.of \in Markets /\ row[t.of] \in Rows /\ row[m] \in Rows
    BY DEF TypeOK, Task
  <1>1. CASE FinishWithout(w)
    <2>1. PICK r \in {[row[t.of] EXCEPT !.status = "unsupported"],
                      [row[t.of] EXCEPT !.status = "backfill_failed"],
                      NoCandlesRow(row[t.of])} : row' = [row EXCEPT ![t.of] = r]
      BY <1>1 DEF FinishWithout
    <2>2. r.status # "backfill_pending"
      BY <1>0 DEF NoCandlesRow, Rows
    <2>3. m # t.of /\ row[m].status = "backfill_pending"
      BY <1>0, <2>1, <2>2 DEF TypeOK
    <2>4. ~WillDecide(w, m)
      BY <2>3 DEF WillDecide
    <2> QED BY <1>1, <2>3, <2>4, PromiseKept DEF FinishWithout, PendingHasTask
  <1>2. CASE Fetch(w)
    <2>1. PICK batch \in Batches : Become(w, [t EXCEPT !.at = "check", !.batch = batch])
      BY <1>2 DEF Fetch
    <2>2. WillDecide(w, m) => WillDecide(w, m)'
      BY <1>0, <2>1 DEF WillDecide, Become, TypeOK, Task
    <2> QED BY <1>2, <2>1, <2>2, PromiseKept DEF Fetch, PendingHasTask
  <1>3. CASE CheckRows(w)
    <2>1. WillDecide(w, m) => WillDecide(w, m)'
      BY <1>0, <1>3 DEF CheckRows, WillDecide, Become, TypeOK, Task
    <2> QED BY <1>3, <2>1, PromiseKept DEF CheckRows, PendingHasTask
  <1>4. CASE CountRows(w)
    <2>1. row' = row /\ waiting' = waiting /\ stranded' = stranded
      BY <1>4 DEF CountRows
    <2>2. WillDecide(w, m) => WillDecide(w, m)'
      <3> SUFFICES ASSUME WillDecide(w, m) PROVE WillDecide(w, m)'
        OBVIOUS
      <3>1. t.of = m
        BY DEF WillDecide
      <3>2. worker'[w] = [t EXCEPT !.at = "commit", !.total = Counted(t), !.seen = row[m]]
        BY <1>4, <3>1 DEF CountRows, Become, TypeOK
      <3>3. /\ worker'[w].at = "commit" /\ worker'[w].of = m
            /\ worker'[w].seen.status = "backfill_pending"
        BY <1>0, <2>1, <3>1, <3>2 DEF Task
      <3>4. Verdict(worker'[w].total) # "backfill_pending"
        BY VerdictType
      <3> QED BY <3>3, <3>4 DEF WillDecide, WritesStatus, Verdict
    <2> QED BY <1>4, <2>1, <2>2, PromiseKept DEF CountRows, PendingHasTask
  <1>5. CASE CommitRows(w)
    <2>1. Verdict(t.total) # "backfill_pending"
      BY VerdictType
    <2>2. row[m].status = "backfill_pending" /\ (m = t.of => ~WritesStatus(t))
      BY <1>5, <1>0, <2>1 DEF CommitRows, TypeOK, Rows
    <2>3. ~WillDecide(w, m)
      BY <1>5, <2>2 DEF CommitRows, WillDecide
    <2> QED BY <1>5, <2>2, <2>3, PromiseKept DEF CommitRows, PendingHasTask
  <1>6. CASE LoseTask(w)
    <2>1. row' = row /\ waiting' = waiting /\ stranded' = stranded \cup {t.of}
      BY <1>6 DEF LoseTask
    <2>2. CASE m = t.of
      BY <2>1, <2>2
    <2>3. CASE m # t.of
      <3>1. ~WillDecide(w, m)
        BY <2>3 DEF WillDecide
      <3> QED BY <1>6, <2>1, <3>1, PromiseKept DEF LoseTask, PendingHasTask
    <2> QED BY <2>2, <2>3
  <1>7. CASE InsertRows(w)
    <2>1. ~WillDecide(w, m)
      BY <1>7 DEF InsertRows, WillDecide
    <2> QED BY <1>7, <2>1, PromiseKept DEF InsertRows, PendingHasTask
  <1> QED BY <1>1, <1>2, <1>3, <1>4, <1>5, <1>6, <1>7 DEF TaskStep

(* A task that only adds rows takes an idle worker, which stood for nothing. *)
LEMMA PendingIngest ==
    ASSUME TypeOK, PendingHasTask, NEW w \in Workers, NEW d \in Markets, StartIngest(w, d)
    PROVE  PendingHasTask'
  <1> SUFFICES ASSUME NEW m \in Markets, row'[m].status = "backfill_pending"
               PROVE  Underway(m)' \/ m \in stranded'
    BY DEF PendingHasTask
  <1>1. ~WillDecide(w, m)
    BY DEF StartIngest, WillDecide
  <1> QED BY <1>1, PromiseKept DEF StartIngest, PendingHasTask

LEMMA PendingStart ==
    ASSUME TypeOK, PendingHasTask, NEW w \in Workers, NEW d \in Markets, StartTask(w, d)
    PROVE  PendingHasTask'
  <1> SUFFICES ASSUME NEW m \in Markets, row'[m].status = "backfill_pending"
               PROVE  Underway(m)' \/ m \in stranded'
    BY DEF PendingHasTask
  <1> DEFINE t == [Idle EXCEPT !.at = "fetch", !.of = d]
  <1>1. t.at = "fetch" /\ t.of = d
    BY IdleType DEF Task
  <1>2. worker' = [worker EXCEPT ![w] = t]
    BY DEF StartTask, Become
  <1> HIDE DEF t
  <1>3. CASE m = d
    <2>1. WillDecide(w, m)'
      BY <1>1, <1>2, <1>3 DEF WillDecide, TypeOK
    <2> QED BY <2>1 DEF Underway
  <1>4. CASE m # d
    <2>1. row[m].status = "backfill_pending" /\ (m \in stranded => m \in stranded')
      BY <1>4 DEF StartTask, TypeOK
    <2>2. CASE waiting[m] > 0
      BY <1>4, <2>2 DEF StartTask, TypeOK, Underway
    <2>3. CASE \E v \in Workers : WillDecide(v, m)
      <3>1. PICK v \in Workers : WillDecide(v, m)
        BY <2>3
      <3>2. v # w
        BY <3>1 DEF StartTask, WillDecide
      <3>3. WillDecide(v, m)'
        BY <1>2, <3>1, <3>2, OthersDecide DEF Become, TypeOK
      <3> QED BY <3>3 DEF Underway
    <2> QED BY <2>1, <2>2, <2>3 DEF PendingHasTask, Underway
  <1> QED BY <1>3, <1>4

LEMMA PendingStep == TypeOK /\ PendingHasTask /\ [Next]_vars => PendingHasTask'
  <1> SUFFICES ASSUME TypeOK, PendingHasTask, [Next]_vars PROVE PendingHasTask'
    OBVIOUS
  <1>1. ASSUME NEW d \in Markets, RequestBackfill(d) PROVE PendingHasTask'
    <2>1. \A m \in Markets : Underway(m) => Underway(m)'
      BY <1>1 DEF RequestBackfill, Underway, WillDecide, WritesStatus, TypeOK
    <2> QED BY <1>1, <2>1 DEF RequestBackfill, PendingHasTask
  <1>2. CASE UNCHANGED vars
    BY <1>2 DEF vars, PendingHasTask, Underway, WillDecide, WritesStatus
  <1> QED BY <1>1, <1>2, PendingQueue, PendingTask, PendingStart, PendingIngest DEF Next

LEMMA PendingInit == Init => PendingHasTask
  BY DEF Init, PendingHasTask, NoRow

(* A market stays pending only while a task stands for it, or because its  *)
(* last task was lost or overtaken by the queue's commit.  The types and   *)
(* the property itself are inductive, once "has a task" means a task that  *)
(* will still write the status: a commit that finds its verdict in the row *)
(* it loaded writes nothing.                                               *)
THEOREM PendingIsAccounted == Spec => []PendingHasTask
  <1>1. Init => TypeOK /\ PendingHasTask
    BY TypeInit, PendingInit
  <1>2. TypeOK /\ PendingHasTask /\ [Next]_vars => (TypeOK /\ PendingHasTask)'
    BY TypeStep, PendingStep
  <1> QED BY <1>1, <1>2, PTL DEF Spec

-----------------------------------------------------------------------------
(* How often a candle is stored.                                           *)

(* The workers that found no row for candle c of market m and have not     *)
(* committed theirs yet.                                                   *)
Holders(m, c) == {w \in Workers : /\ worker[w].of = m
                                  /\ worker[w].at \in {"count", "commit"}
                                  /\ worker[w].fresh[c] # 0}

(* Every copy that a backfill wrote is of a worker that looked before the  *)
(* first copy was there: with what the holders will write, the copies are  *)
(* at most one download for each worker and what was ingested.             *)
Spread ==
    \A m \in Markets, c \in Candles :
       copies[m][c] + MaxRepeats * Cardinality(Holders(m, c))
         <= ingested[m][c] + MaxRepeats * Cardinality(Workers)

LEMMA TimesGrows ==
    ASSUME NEW k \in Nat, NEW i \in Nat, NEW j \in Nat, i <= j
    PROVE  k * i \in Nat /\ k * j \in Nat /\ k * i <= k * j
  <1>1. PICK d \in Nat : j = i + d
    <2>1. j - i \in Nat /\ j = i + (j - i)
      OBVIOUS
    <2> QED BY <2>1
  <1>2. k * j = k * i + k * d
    BY <1>1
  <1>3. k * i \in Nat /\ k * d \in Nat
    OBVIOUS
  <1> QED BY <1>2, <1>3

LEMMA HoldersFinite ==
    ASSUME NEW S \in SUBSET Workers
    PROVE  IsFiniteSet(S) /\ Cardinality(S) \in Nat /\ Cardinality(S) <= Cardinality(Workers)
           /\ Cardinality(Workers) \in Nat
  <1>1. IsFiniteSet(Workers)
    BY BackfillAssumption DEF BackfillAssumption
  <1> QED BY <1>1, FS_Subset, FS_CardinalityType

LEMMA SpreadFewer ==
    ASSUME TypeOK, Spread, copies' = copies, ingested' = ingested,
           \A m \in Markets, c \in Candles : Holders(m, c)' \subseteq Holders(m, c)
    PROVE  Spread'
  <1> SUFFICES ASSUME NEW m \in Markets, NEW c \in Candles
               PROVE  copies[m][c] + MaxRepeats * Cardinality(Holders(m, c)')
                        <= ingested[m][c] + MaxRepeats * Cardinality(Workers)
    BY DEF Spread
  <1> DEFINE old == Holders(m, c)
             new == Holders(m, c)'
             i == Cardinality(new)
             j == Cardinality(old)
             bound == ingested[m][c] + MaxRepeats * Cardinality(Workers)
  <1>1. old \in SUBSET Workers /\ new \in SUBSET old
    BY DEF Holders
  <1>2. copies[m][c] \in Nat /\ ingested[m][c] \in Nat /\ MaxRepeats \in Nat
    BY BackfillAssumption DEF TypeOK, BackfillAssumption
  <1>3. copies[m][c] + MaxRepeats * j <= bound
    BY DEF Spread
  <1> HIDE DEF old, new
  <1>4. i <= j
    BY <1>1, HoldersFinite, FS_Subset
  <1>5. i \in Nat /\ j \in Nat /\ Cardinality(Workers) \in Nat
    BY <1>1, HoldersFinite
  <1>6. bound \in Nat
    BY <1>2, <1>5, TimesGrows
  <1> HIDE DEF i, j, bound
  <1>7. /\ MaxRepeats * i \in Nat /\ MaxRepeats * j \in Nat
        /\ MaxRepeats * i <= MaxRepeats * j
    BY <1>2, <1>4, <1>5, TimesGrows
  <1>8. copies[m][c] + MaxRepeats * i <= bound
    BY <1>2, <1>3, <1>6, <1>7
  <1> QED BY <1>8 DEF i, new, bound

(* A look-up holds no more than all the workers may. *)
LEMMA SpreadCheck ==
    ASSUME TypeOK, Spread, NEW w \in Workers, CheckRows(w)
    PROVE  Spread'
  <1> SUFFICES ASSUME NEW m \in Markets, NEW c \in Candles
               PROVE  copies[m][c] + MaxRepeats * Cardinality(Holders(m, c)')
                        <= ingested[m][c] + MaxRepeats * Cardinality(Workers)
    BY DEF Spread, CheckRows
  <1> DEFINE old == Holders(m, c)
             new == Holders(m, c)'
             missing == Missing(worker[w].of, worker[w].batch)
  <1>0. worker' = [worker EXCEPT ![w] = [worker[w] EXCEPT !.at = "count", !.fresh = missing]]
    BY DEF CheckRows, Become
  <1>1. new \in SUBSET Workers
    BY DEF Holders
  <1>2. copies[m][c] \in Nat /\ ingested[m][c] \in Nat /\ MaxRepeats \in Nat
    BY BackfillAssumption DEF TypeOK, BackfillAssumption
  <1>3. CASE copies[m][c] = 0
    <2> DEFINE i == Cardinality(new)
               j == Cardinality(Workers)
    <2>1. i <= j /\ i \in Nat /\ j \in Nat
      BY <1>1, HoldersFinite
    <2> HIDE DEF new, i, j
    <2>2. MaxRepeats * i \in Nat /\ MaxRepeats * j \in Nat /\ MaxRepeats * i <= MaxRepeats * j
      BY <1>2, <2>1, TimesGrows
    <2>3. copies[m][c] + MaxRepeats * i <= ingested[m][c] + MaxRepeats * j
      BY <1>2, <1>3, <2>2
    <2> QED BY <2>3 DEF i, j, new
  <1>4. CASE copies[m][c] # 0
    <2>1. worker[w].of = m => missing[c] = 0
      BY <1>4 DEF Missing
    <2>2. \A v \in Workers : v \in new => v \in old
      BY <1>0, <2>1 DEF Holders, TypeOK, Task
    <2>3. \A v \in Workers : v \in old => v \in new
      BY <1>0 DEF Holders, TypeOK, Task, CheckRows
    <2>4. new = old
      BY <2>2, <2>3 DEF Holders
    <2> QED BY <2>4 DEF Spread
  <1> QED BY <1>2, <1>3, <1>4

(* A commit turns what one holder held into copies. *)
LEMMA SpreadCommit ==
    ASSUME TypeOK, Spread, NEW w \in Workers, CommitRows(w)
    PROVE  Spread'
  <1> SUFFICES ASSUME NEW m \in Markets, NEW c \in Candles
               PROVE  copies'[m][c] + MaxRepeats * Cardinality(Holders(m, c)')
                        <= ingested[m][c] + MaxRepeats * Cardinality(Workers)
    BY DEF Spread, CommitRows
  <1> DEFINE old == Holders(m, c)
             new == Holders(m, c)'
             held == worker[w].fresh[c]
             i == Cardinality(new)
             j == Cardinality(old)
             bound == ingested[m][c] + MaxRepeats * Cardinality(Workers)
  <1>0. worker' = [worker EXCEPT ![w] = Idle] /\ worker[w].at = "commit" /\ Idle.at = "idle"
    BY DEF CommitRows, Become, Idle
  <1>1. old \in SUBSET Workers /\ new = old \ {w}
    BY <1>0 DEF Holders, TypeOK
  <1>2. copies[m][c] \in Nat /\ ingested[m][c] \in Nat /\ MaxRepeats \in Nat
        /\ held \in Nat /\ held <= MaxRepeats
    <2>1. worker[w].fresh \in Batches
      BY DEF TypeOK, Task
    <2> QED BY <2>1, BatchCounts, BackfillAssumption DEF TypeOK, BackfillAssumption
  <1>3. copies'[m][c] = IF w \in old THEN copies[m][c] + held ELSE copies[m][c]
    <2>1. copies'[m][c] = IF m = worker[w].of THEN copies[m][c] + held ELSE copies[m][c]
      BY WithType DEF CommitRows, TypeOK, Task
    <2>2. w \in old <=> m = worker[w].of /\ held # 0
      BY <1>0 DEF Holders
    <2> QED BY <1>2, <2>1, <2>2
  <1>4. copies[m][c] + MaxRepeats * j <= bound
    BY DEF Spread
  <1> HIDE DEF old, new, held
  <1>5. j \in Nat /\ i \in Nat /\ Cardinality(Workers) \in Nat
        /\ i = (IF w \in old THEN j - 1 ELSE j)
    BY <1>1, HoldersFinite, FS_RemoveElement
  <1>6. bound \in Nat
    BY <1>2, <1>5, TimesGrows
  <1> HIDE DEF i, j, bound
  <1>7. copies'[m][c] + MaxRepeats * i <= bound
    <2>1. CASE w \in old
      <3>1. MaxRepeats * j = MaxRepeats * i + MaxRepeats
        <4>1. j = i + 1
          BY <1>5, <2>1
        <4>2. MaxRepeats * (i + 1) = MaxRepeats * i + MaxRepeats
          BY <1>2, <1>5
        <4> QED BY <4>1, <4>2
      <3>2. MaxRepeats * i \in Nat
        BY <1>2, <1>5, TimesGrows
      <3> QED BY <1>2, <1>3, <1>4, <1>6, <2>1, <3>1, <3>2
    <2>2. CASE w \notin old
      BY <1>3, <1>4, <1>5, <2>2
    <2> QED BY <2>1, <2>2
  <1> QED BY <1>7 DEF i, new, bound

(* What is ingested counts on both sides, and is held by nobody. *)
LEMMA SpreadInsert ==
    ASSUME TypeOK, Spread, NEW w \in Workers, InsertRows(w)
    PROVE  Spread'
  <1> SUFFICES ASSUME NEW m \in Markets, NEW c \in Candles
               PROVE  copies'[m][c] + MaxRepeats * Cardinality(Holders(m, c)')
                        <= ingested'[m][c] + MaxRepeats * Cardinality(Workers)
    BY DEF Spread
  <1> DEFINE t == worker[w]
             more == t.batch[c]
             held == MaxRepeats * Cardinality(Holders(m, c))
             all == MaxRepeats * Cardinality(Workers)
  <1>0. worker' = [worker EXCEPT ![w] = Idle] /\ t.at = "insert" /\ Idle.at = "idle"
    BY DEF InsertRows, Become, Idle
  <1>1. Holders(m, c)' = Holders(m, c)
    BY <1>0 DEF Holders, TypeOK
  <1>2. t.batch \in Batches /\ t.of \in Markets
    BY DEF TypeOK, Task
  <1>3. copies[m][c] \in Nat /\ ingested[m][c] \in Nat /\ MaxRepeats \in Nat /\ more \in Nat
    BY <1>2, BatchCounts, BackfillAssumption DEF TypeOK, BackfillAssumption
  <1>4. copies'[m][c] = (IF m = t.of THEN copies[m][c] + more ELSE copies[m][c])
    BY <1>2, WithType DEF InsertRows
  <1>5. ingested'[m][c] = (IF m = t.of THEN ingested[m][c] + more ELSE ingested[m][c])
    BY <1>2 DEF InsertRows, TypeOK
  <1>6. held \in Nat /\ all \in Nat
    <2>1. Holders(m, c) \in SUBSET Workers
      BY DEF Holders
    <2> QED BY <1>3, <2>1, HoldersFinite, TimesGrows
  <1>7. copies[m][c] + held <= ingested[m][c] + all
    BY DEF Spread
  <1> HIDE DEF more, held, all
  <1>8. copies'[m][c] + held <= ingested'[m][c] + all
    BY <1>3, <1>4, <1>5, <1>6, <1>7
  <1> QED BY <1>1, <1>8 DEF held, all

(* A worker that leaves the two storing steps, or never entered them,      *)
(* holds nothing.                                                          *)
LEMMA SpreadStep ==
    ASSUME TypeOK, Spread, [Next]_vars
    PROVE  Spread'
  <1>1. ASSUME worker' = worker, copies' = copies, ingested' = ingested PROVE Spread'
    BY <1>1, SpreadFewer DEF Holders
  <1>2. ASSUME NEW w \in Workers, NEW t \in Task, Become(w, t), copies' = copies,
               ingested' = ingested, t.at \notin {"count", "commit"}
        PROVE  Spread'
    <2>1. \A m \in Markets, c \in Candles : Holders(m, c)' \subseteq Holders(m, c)
      BY <1>2 DEF Holders, Become, TypeOK
    <2> QED BY <1>2, <2>1, SpreadFewer
  <1>3. ASSUME NEW w \in Workers, CountRows(w) PROVE Spread'
    <2>1. worker' = [worker EXCEPT ![w] = [worker[w] EXCEPT !.at = "commit",
                       !.total = Counted(worker[w]), !.seen = row[worker[w].of]]]
      BY <1>3 DEF CountRows, Become
    <2>2. \A m \in Markets, c \in Candles : Holders(m, c)' \subseteq Holders(m, c)
      BY <1>3, <2>1 DEF CountRows, Holders, TypeOK, Task
    <2> QED BY <1>3, <2>2, SpreadFewer DEF CountRows
  <1>4. ASSUME NEW w \in Workers, FinishWithout(w) \/ LoseTask(w) PROVE Spread'
    <2>1. Idle.at = "idle"
      BY DEF Idle
    <2> QED BY <1>2, <1>4, <2>1, IdleType DEF FinishWithout, LoseTask
  <1>5. ASSUME NEW w \in Workers, Fetch(w) PROVE Spread'
    <2>1. PICK batch \in Batches :
             Become(w, [worker[w] EXCEPT !.at = "check", !.batch = batch])
      BY <1>5 DEF Fetch
    <2>2. /\ [worker[w] EXCEPT !.at = "check", !.batch = batch] \in Task
          /\ [worker[w] EXCEPT !.at = "check", !.batch = batch].at = "check"
      BY DEF TypeOK, Task
    <2> QED BY <1>2, <1>5, <2>1, <2>2 DEF Fetch
  <1>6. ASSUME NEW w \in Workers, NEW m \in Markets, StartTask(w, m) PROVE Spread'
    <2>1. /\ [Idle EXCEPT !.at = "fetch", !.of = m] \in Task
          /\ [Idle EXCEPT !.at = "fetch", !.of = m].at = "fetch"
      BY IdleType DEF Task
    <2> QED BY <1>2, <1>6, <2>1 DEF StartTask
  <1>7. ASSUME NEW w \in Workers, NEW m \in Markets, StartIngest(w, m) PROVE Spread'
    <2>1. PICK batch \in Batches :
             Become(w, [Idle EXCEPT !.at = "insert", !.of = m, !.batch = batch])
      BY <1>7 DEF StartIngest
    <2>2. /\ [Idle EXCEPT !.at = "insert", !.of = m, !.batch = batch] \in Task
          /\ [Idle EXCEPT !.at = "insert", !.of = m, !.batch = batch].at = "insert"
      BY IdleType DEF Task
    <2> QED BY <1>2, <1>7, <2>1, <2>2 DEF StartIngest
  <1>8. ASSUME NEW q \in Callers, Queue(q) PROVE Spread'
    BY <1>1, <1>8 DEF Queue, BeginQueue, SendTask, CommitQueue, FailQueue
  <1>9. ASSUME NEW m \in Markets, RequestBackfill(m) PROVE Spread'
    BY <1>1, <1>9 DEF RequestBackfill
  <1>10. ASSUME UNCHANGED vars PROVE Spread'
    BY <1>1, <1>10 DEF vars
  <1> QED BY <1>3, <1>4, <1>5, <1>6, <1>7, <1>8, <1>9, <1>10, SpreadCheck, SpreadCommit,
             SpreadInsert DEF Next, TaskStep

LEMMA SpreadInit == Init => Spread
  <1> SUFFICES ASSUME Init, NEW m \in Markets, NEW c \in Candles
               PROVE  copies[m][c] + MaxRepeats * Cardinality(Holders(m, c))
                        <= ingested[m][c] + MaxRepeats * Cardinality(Workers)
    BY DEF Spread
  <1>1. Holders(m, c) = {} /\ copies[m][c] = 0 /\ ingested[m][c] = 0
    BY DEF Init, Holders, Idle, Empty
  <1>2. Cardinality(Workers) \in Nat /\ Cardinality({}) = 0 /\ MaxRepeats \in Nat
    BY HoldersFinite, FS_EmptySet, BackfillAssumption DEF BackfillAssumption
  <1>3. MaxRepeats * 0 = 0 /\ MaxRepeats * Cardinality(Workers) \in Nat
    BY <1>2, TimesGrows
  <1> QED BY <1>1, <1>2, <1>3

LEMMA SpreadBounds == TypeOK /\ Spread => CopiesPerWorker
  <1> SUFFICES ASSUME TypeOK, Spread, NEW m \in Markets, NEW c \in Candles
               PROVE  copies[m][c] <= ingested[m][c] + MaxRepeats * Cardinality(Workers)
    BY DEF CopiesPerWorker
  <1> DEFINE held == MaxRepeats * Cardinality(Holders(m, c))
             all == MaxRepeats * Cardinality(Workers)
  <1>1. Holders(m, c) \in SUBSET Workers
    BY DEF Holders
  <1>2. held \in Nat /\ all \in Nat
    BY <1>1, HoldersFinite, TimesGrows, BackfillAssumption DEF BackfillAssumption
  <1>3. copies[m][c] + held <= ingested[m][c] + all
    BY DEF Spread
  <1> HIDE DEF held, all
  <1>4. copies[m][c] <= ingested[m][c] + all
    BY <1>2, <1>3 DEF TypeOK
  <1> QED BY <1>4 DEF all

(* What the backfills add to a candle is at most one download for each     *)
(* worker, for every number of workers: the strengthening counts, with the *)
(* copies, the workers that are about to write.  What is ingested without  *)
(* a look-up is counted apart and has no bound.                            *)
THEOREM CopiesAreFew == Spec => []CopiesPerWorker
  <1>1. Init => TypeOK /\ Spread
    BY TypeInit, SpreadInit
  <1>2. TypeOK /\ Spread /\ [Next]_vars => (TypeOK /\ Spread)'
    BY TypeStep, SpreadStep
  <1> QED BY <1>1, <1>2, SpreadBounds, PTL DEF Spec

-----------------------------------------------------------------------------
(* What a status row claims.                                               *)

(* A count that was taken stays true: rows are never deleted. *)
CountsTaken == \A w \in Workers : worker[w].at = "commit" => worker[w].total <= Stored(worker[w].of)

Backed == CountsAreBacked /\ CountsTaken

LEMMA StoredType ==
    ASSUME TypeOK, NEW m \in Markets
    PROVE  Stored(m) \in Nat
  <1>1. copies[m] \in [Candles -> Nat]
    BY DEF TypeOK
  <1> QED BY <1>1, RowSetFinite DEF Stored

LEMMA StoredGrows ==
    ASSUME TypeOK, TypeOK', [Next]_vars, NEW m \in Markets
    PROVE  Stored(m) <= Stored(m)' /\ Stored(m) \in Nat /\ Stored(m)' \in Nat
  <1>1. copies[m] \in [Candles -> Nat] /\ copies'[m] \in [Candles -> Nat]
    BY DEF TypeOK
  <1>2. \A c \in Candles : copies[m][c] <= copies'[m][c]
    <2>1. CASE copies' = copies
      BY <1>1, <2>1
    <2>2. ASSUME NEW d \in Markets, NEW batch \in Batches, copies' = With(d, batch)
          PROVE  \A c \in Candles : copies[m][c] <= copies'[m][c]
      <3>1. batch \in [Candles -> Nat]
        BY BatchCounts
      <3>2. \A c \in Candles : copies'[m][c] = IF m = d THEN copies[m][c] + batch[c]
                                                     ELSE copies[m][c]
        BY <2>2, WithType
      <3> QED BY <1>1, <3>1, <3>2
    <2>3. CASE \E w \in Workers : CommitRows(w) \/ InsertRows(w)
      BY <2>2, <2>3 DEF CommitRows, InsertRows, TypeOK, Task
    <2> QED BY <2>1, <2>3 DEF Next, vars, TaskStep, LoseTask, FinishWithout, Fetch, CheckRows,
               CountRows, StartTask, StartIngest, Queue, BeginQueue, SendTask, CommitQueue, FailQueue,
               RequestBackfill
  <1>3. Stored(m)' = Cardinality(RowSet(copies'[m]))
    BY DEF Stored, RowSet
  <1>4. Cardinality(RowSet(copies[m])) <= Cardinality(RowSet(copies'[m]))
    BY <1>1, <1>2, RowSetGrows
  <1>5. Cardinality(RowSet(copies[m])) \in Nat /\ Cardinality(RowSet(copies'[m])) \in Nat
    BY <1>1, RowSetFinite
  <1> QED BY <1>3, <1>4, <1>5 DEF Stored

(* A status row that claims no more than before, or than is stored. *)
LEMMA ClaimKept ==
    ASSUME TypeOK, TypeOK', CountsAreBacked, [Next]_vars, NEW m \in Markets,
           row'[m].count \in {0, row[m].count} \/ row'[m].count <= Stored(m),
           row'[m].status = "ready" => row[m].status = "ready" \/ ReadyRows <= Stored(m)
    PROVE  row'[m].count <= Stored(m)' /\ (row'[m].status = "ready" => Stored(m)' >= ReadyRows)
  <1> DEFINE n == Stored(m)
             k == Stored(m)'
  <1>1. n <= k /\ n \in Nat /\ k \in Nat
    BY StoredGrows
  <1>2. row[m].count <= n /\ (row[m].status = "ready" => n >= ReadyRows)
    BY DEF CountsAreBacked
  <1>3. row[m].count \in Nat /\ row'[m].count \in Nat /\ ReadyRows \in Nat
    BY BackfillAssumption DEF TypeOK, Rows, BackfillAssumption
  <1>4. row'[m].count \in {0, row[m].count} \/ row'[m].count <= n
    OBVIOUS
  <1>5. row'[m].status = "ready" => row[m].status = "ready" \/ ReadyRows <= n
    OBVIOUS
  <1> HIDE DEF n, k
  <1>6. row'[m].count <= k /\ (row'[m].status = "ready" => k >= ReadyRows)
    BY <1>1, <1>2, <1>3, <1>4, <1>5
  <1> QED BY <1>6 DEF k

LEMMA RowsBacked ==
    ASSUME TypeOK, TypeOK', Backed, [Next]_vars
    PROVE  CountsAreBacked'
  <1> SUFFICES ASSUME NEW m \in Markets
               PROVE  /\ row'[m].count \in {0, row[m].count} \/ row'[m].count <= Stored(m)
                      /\ row'[m].status = "ready" => row[m].status = "ready" \/ ReadyRows <= Stored(m)
    BY ClaimKept DEF CountsAreBacked, Backed
  <1>0. row[m] \in Rows
    BY DEF TypeOK
  <1>1. CASE row' = row
    BY <1>1
  <1>2. ASSUME NEW w \in Workers, NEW d \in Markets, StartTask(w, d)
        PROVE  row'[m].count = row[m].count /\ (row'[m].status = "ready" => row[m].status = "ready")
    <2>1. row' = [row EXCEPT ![d] = [row[d] EXCEPT !.status = "backfill_pending"]]
      BY <1>2 DEF StartTask
    <2>2. row \in [Markets -> Rows]
      BY DEF TypeOK
    <2>3. row'[m] = row[m] \/ row'[m] = [row[m] EXCEPT !.status = "backfill_pending"]
      BY <2>1, <2>2
    <2> QED BY <1>0, <2>3 DEF Rows
  <1>3. ASSUME NEW q \in Callers, CommitQueue(q)
        PROVE  row'[m].count = row[m].count /\ (row'[m].status = "ready" => row[m].status = "ready")
    <2>1. \/ row' = row
          \/ row' = [d \in Markets |-> IF d \in caller[q].targets
                                      THEN [row[d] EXCEPT !.status = "backfill_pending"]
                                      ELSE row[d]]
      BY <1>3 DEF CommitQueue
    <2>2. row'[m] = row[m] \/ row'[m] = [row[m] EXCEPT !.status = "backfill_pending"]
      BY <2>1
    <2> QED BY <1>0, <2>2 DEF Rows
  <1>4. ASSUME NEW w \in Workers, FinishWithout(w)
        PROVE  /\ row'[m].count \in {0, row[m].count}
               /\ row'[m].status = "ready" => row[m].status = "ready"
    <2> DEFINE of == worker[w].of
    <2>1. PICK r \in {[row[of] EXCEPT !.status = "unsupported"],
                      [row[of] EXCEPT !.status = "backfill_failed"],
                      NoCandlesRow(row[of])} : row' = [row EXCEPT ![of] = r]
      BY <1>4 DEF FinishWithout
    <2>2. of \in Markets /\ row[of] \in Rows
      BY DEF TypeOK, Task
    <2>3. r.status # "ready" /\ r.count \in {0, row[of].count}
      BY <2>2 DEF NoCandlesRow, Rows
    <2> QED BY <2>1, <2>2, <2>3 DEF TypeOK
  <1>5. ASSUME NEW w \in Workers, CommitRows(w)
        PROVE  /\ row'[m].count = row[m].count \/ row'[m].count <= Stored(m)
               /\ row'[m].status = "ready" => row[m].status = "ready" \/ ReadyRows <= Stored(m)
    <2> DEFINE t == worker[w]
               n == Stored(m)
    <2>1. CASE m # t.of
      BY <1>5, <2>1 DEF CommitRows, TypeOK
    <2>2. CASE m = t.of
      <3>1. t.total <= n /\ t.total \in Nat /\ n \in Nat /\ ReadyRows \in Nat
        BY <1>5, <2>2, StoredType, BackfillAssumption
           DEF CommitRows, Backed, CountsTaken, TypeOK, Task, BackfillAssumption
      <3>2. /\ row'[m].count \in {t.total, row[m].count}
            /\ row'[m].status \in {Verdict(t.total), row[m].status}
        BY <1>5, <2>2 DEF CommitRows, TypeOK
      <3> HIDE DEF n
      <3>3. Verdict(t.total) = "ready" => ReadyRows <= n
        BY <3>1 DEF Verdict
      <3>4. /\ row'[m].count = row[m].count \/ row'[m].count <= n
            /\ row'[m].status = "ready" => row[m].status = "ready" \/ ReadyRows <= n
        BY <3>1, <3>2, <3>3
      <3> QED BY <3>4 DEF n
    <2> QED BY <2>1, <2>2
  <1>6. \/ row' = row
        \/ \E w \in Workers : FinishWithout(w) \/ CommitRows(w) \/ \E d \in Markets : StartTask(w, d)
        \/ \E q \in Callers : CommitQueue(q)
    BY DEF Next, vars, TaskStep, LoseTask, Fetch, CheckRows, CountRows, InsertRows, Queue,
           BeginQueue, SendTask, FailQueue, RequestBackfill, StartIngest
  <1> QED BY <1>1, <1>2, <1>3, <1>4, <1>5, <1>6

LEMMA TakenKept ==
    ASSUME TypeOK, TypeOK', Backed, [Next]_vars
    PROVE  CountsTaken'
  <1> SUFFICES ASSUME NEW v \in Workers, worker'[v].at = "commit",
                      NEW m \in Markets, m = worker'[v].of
               PROVE  worker'[v].total <= Stored(m)'
    <2>1. \A v \in Workers : worker'[v].of \in Markets
      BY DEF TypeOK, Task
    <2> QED BY <2>1 DEF CountsTaken, Stored
  <1>0. worker'[v] \in Task /\ worker[v] \in Task
    BY DEF TypeOK
  <1>1. CASE worker'[v] = worker[v]
    <2> DEFINE n == Stored(m)
               k == Stored(m)'
    <2>1. worker[v].total \in Nat
      BY <1>0 DEF Task
    <2>2. n <= k /\ n \in Nat /\ k \in Nat
      BY StoredGrows
    <2>3. worker[v].total <= n
      BY <1>1 DEF Backed, CountsTaken
    <2> HIDE DEF n, k
    <2>4. worker[v].total <= k
      BY <2>1, <2>2, <2>3
    <2> QED BY <1>1, <2>4 DEF k
  <1>2. CASE CountRows(v)
    <2>1. worker'[v] = [worker[v] EXCEPT !.at = "commit", !.total = Counted(worker[v]),
                          !.seen = row[worker[v].of]] /\ copies' = copies
      BY <1>2 DEF CountRows, Become, TypeOK
    <2>2. worker'[v].total = Stored(m)
      BY <1>0, <2>1 DEF Task, Counted
    <2>3. Stored(m)' = Stored(m)
      BY <2>1 DEF Stored
    <2>4. worker'[v].total \in Nat
      BY <1>0 DEF Task
    <2> QED BY <2>2, <2>3, <2>4
  <1>3. worker'[v] = worker[v] \/ CountRows(v)
    <2>1. \A w \in Workers : \A t : Become(w, t) /\ w # v => worker'[v] = worker[v]
      BY DEF Become
    <2>2. \A t : Become(v, t) => worker'[v] = t
      BY DEF Become, TypeOK
    <2>3. /\ Idle.at # "commit"
          /\ \A d : [Idle EXCEPT !.at = "fetch", !.of = d].at # "commit"
          /\ \A d, batch : [Idle EXCEPT !.at = "insert", !.of = d, !.batch = batch].at # "commit"
      BY DEF Idle
    <2>4. \A batch : [worker[v] EXCEPT !.at = "check", !.batch = batch].at # "commit"
      BY <1>0 DEF Task
    <2>5. \A fresh : [worker[v] EXCEPT !.at = "count", !.fresh = fresh].at # "commit"
      BY <1>0 DEF Task
    <2>6. ASSUME NEW w \in Workers, TaskStep(w) \/ LoseTask(w)
          PROVE  worker'[v] = worker[v] \/ CountRows(v)
      <3>1. CASE w # v
        BY <2>1, <2>6, <3>1 DEF TaskStep, FinishWithout, Fetch, CheckRows, CountRows, CommitRows,
              InsertRows, LoseTask
      <3>2. CASE w = v
        BY <2>2, <2>3, <2>4, <2>5, <2>6, <3>2 DEF TaskStep, FinishWithout, Fetch, CheckRows,
              CommitRows, InsertRows, LoseTask
      <3> QED BY <3>1, <3>2
    <2>7. ASSUME NEW w \in Workers, NEW d \in Markets, StartTask(w, d) \/ StartIngest(w, d)
          PROVE  worker'[v] = worker[v]
      <3>1. CASE StartTask(w, d)
        BY <2>1, <2>2, <2>3, <3>1 DEF StartTask
      <3>2. CASE StartIngest(w, d)
        <4>1. PICK batch \in Batches :
                 Become(w, [Idle EXCEPT !.at = "insert", !.of = d, !.batch = batch])
          BY <3>2 DEF StartIngest
        <4> QED BY <2>1, <2>2, <2>3, <4>1
      <3> QED BY <2>7, <3>1, <3>2
    <2>8. ASSUME NEW q \in Callers, Queue(q) PROVE worker'[v] = worker[v]
      BY <2>8 DEF Queue, BeginQueue, SendTask, CommitQueue, FailQueue
    <2>9. ASSUME NEW d \in Markets, RequestBackfill(d) PROVE worker'[v] = worker[v]
      BY <2>9 DEF RequestBackfill
    <2>10. CASE UNCHANGED vars
      BY <2>10 DEF vars
    <2> QED BY <2>6, <2>7, <2>8, <2>9, <2>10 DEF Next
  <1> QED BY <1>1, <1>2, <1>3

LEMMA BackedInit == Init => Backed
  <1> SUFFICES ASSUME Init PROVE Backed
    OBVIOUS
  <1>1. ASSUME NEW m \in Markets PROVE 0 <= Stored(m)
    BY TypeInit, StoredType
  <1>2. CountsAreBacked
    BY <1>1 DEF Init, CountsAreBacked, NoRow
  <1>3. CountsTaken
    BY DEF Init, CountsTaken, Idle
  <1> QED BY <1>2, <1>3 DEF Backed

(* What the desk and the dashboard read of a market is covered by rows:    *)
(* row_count never overstates them and a ready market has ReadyRows of     *)
(* them, whichever overlapping task commits last.                          *)
THEOREM ClaimsAreBacked == Spec => []CountsAreBacked
  <1>1. Init => TypeOK /\ Backed
    BY TypeInit, BackedInit
  <1>2. TypeOK /\ Backed /\ [Next]_vars => (TypeOK /\ Backed)'
    <2> SUFFICES ASSUME TypeOK, Backed, [Next]_vars PROVE TypeOK' /\ Backed'
      OBVIOUS
    <2>1. TypeOK'
      BY TypeStep
    <2> QED BY <2>1, RowsBacked, TakenKept DEF Backed
  <1>3. Backed => CountsAreBacked
    BY DEF Backed
  <1> QED BY <1>1, <1>2, <1>3, PTL DEF Spec

=============================================================================
