------------------------------ MODULE Backfill ------------------------------
(***************************************************************************)
(* Historical candles of the primary exchange: queue_kraken_backfills      *)
(* picks markets and sends Celery tasks, anyone else may send one for any  *)
(* market, and a task downloads candles, stores those that are missing and *)
(* writes what became of the market into its asset_data_status row.        *)
(*                                                                         *)
(* A task is several transactions with the download between them.  Its     *)
(* short ones (read the row, write it) are one step; the storing one is    *)
(* three, because it runs for as long as there are candles to look up.     *)
(* Sessions do not autoflush: neither a look-up nor a count sees the rows  *)
(* just added.  A second kind of task, ingest_historical_data, adds what   *)
(* it fetched without looking anything up.                                 *)
(***************************************************************************)
EXTENDS Integers, FiniteSets

CONSTANTS Markets,     (* active analyzable spot markets, by db_symbol *)
          Candles,     (* timestamps an exchange may have a candle for *)
          Workers,     (* Celery worker processes *)
          Callers,     (* processes that call queue_kraken_backfills *)
          MaxActive,   (* KRAKEN_BACKFILL_MAX_ACTIVE *)
          BatchSize,   (* KRAKEN_BACKFILL_BATCH_SIZE *)
          ReadyRows,   (* candles that make a market ready *)
          FullRows,    (* candles after which the queue leaves it alone *)
          MaxRepeats,  (* bound: times an exchange returns a candle in one download *)
          MaxSent,     (* bound: tasks sent in a behaviour *)
          MaxLosses    (* bound: tasks and queue calls that die in a behaviour *)

Statuses == {"backfill_pending", "ready", "warming_up", "unsupported", "backfill_failed"}

ASSUME BackfillAssumption ==
    /\ Markets # {} /\ Markets \subseteq Nat
    /\ IsFiniteSet(Candles) /\ IsFiniteSet(Workers)
    /\ MaxActive \in Nat \ {0} /\ BatchSize \in Nat \ {0}
    /\ ReadyRows \in Nat \ {0} /\ FullRows \in Nat /\ MaxRepeats \in Nat \ {0}
    /\ MaxSent \in Nat /\ MaxLosses \in Nat

VARIABLES row,       (* asset_data_status of each market *)
          copies,    (* prices: how many rows a market has for a timestamp *)
          waiting,   (* tasks in the broker, per market *)
          worker,    (* the task each worker process runs *)
          caller,    (* the open call of queue_kraken_backfills, if any *)
          ingested,  (* history: how many of the copies ingest_historical_data added *)
          stranded,  (* history: markets whose pending status no task stands for *)
          sent, losses  (* history *)

vars == <<row, copies, waiting, worker, caller, ingested, stranded, sent, losses>>

NoRow == [status |-> "none", count |-> 0]
Rows  == [status : Statuses \cup {"none"}, count : Nat]

(* What a download can bring: the chunks are put together as they come.    *)
Batches == [Candles -> 0..MaxRepeats]
Empty   == [c \in Candles |-> 0]

Task == [at    : {"idle", "fetch", "check", "count", "commit", "insert"},
         of    : Markets,
         batch : Batches,  (* what the exchange returned *)
         fresh : Batches,  (* that without the candles that had a row when looked up *)
         total : Nat,      (* rows counted *)
         seen  : Rows]     (* the status row as the session loaded it *)

Idle == [at |-> "idle", of |-> CHOOSE m \in Markets : TRUE, batch |-> Empty, fresh |-> Empty,
         total |-> 0, seen |-> NoRow]

Call == [open    : BOOLEAN,
         toSend  : SUBSET Markets,
         targets : SUBSET Markets,
         known   : SUBSET Markets] (* those that had a row when the call began *)

NoCall == [open |-> FALSE, toSend |-> {}, targets |-> {}, known |-> {}]

RowSet(f) == UNION {{c} \X (1..f[c]) : c \in Candles}
Stored(m) == Cardinality(RowSet(copies[m]))

(* Mutants: the status is misspelt; a market without rows stays pending. *)
Verdict_Misspelt(total) == IF total >= ReadyRows THEN "ready" ELSE "warming"
Verdict_EmptyPending(total) ==
    IF total >= ReadyRows THEN "ready" ELSE IF total = 0 THEN "backfill_pending" ELSE "warming_up"

Verdict(total) == IF total >= ReadyRows THEN "ready" ELSE "warming_up"

(* The commit writes the status column only if it differs from what the    *)
(* session loaded.                                                         *)
WritesStatus(t) == t.seen.status # Verdict(t.total)

(* A task that will still write the status of market m. *)
WillDecide(w, m) ==
    /\ worker[w].of = m
    /\ \/ worker[w].at \in {"fetch", "check", "count"}
       \/ worker[w].at = "commit" /\ WritesStatus(worker[w])

Underway(m) == waiting[m] > 0 \/ \E w \in Workers : WillDecide(w, m)

-----------------------------------------------------------------------------
(* The queue. *)

(* What the cap counts. *)
ActiveRows == {m \in Markets : row[m].status \in {"backfill_pending", "warming_up"}}

Due == {m \in Markets : /\ ~(row[m].status = "ready" /\ row[m].count >= FullRows)
                        /\ row[m].status # "backfill_pending"}

MinOf(i, j) == IF i < j THEN i ELSE j
FirstOf(set, n) == {m \in set : Cardinality({d \in set : d <= m}) <= n}

Earliest(set) == CHOOSE m \in set : \A d \in set : m <= d

Throttled == Cardinality(ActiveRows) >= MaxActive

(* Below the cap a call reads the status rows and picks its targets. *)
BeginQueue(q) ==
    /\ ~caller[q].open /\ ~Throttled
    /\ LET batch == MinOf(BatchSize, MaxActive - Cardinality(ActiveRows))
           targets == FirstOf(Due, batch) IN
       caller' = [caller EXCEPT ![q] =
                    [open |-> TRUE, toSend |-> targets, targets |-> targets,
                     known |-> {m \in targets : row[m].status # "none"}]]
    /\ UNCHANGED <<row, copies, waiting, worker, ingested, stranded, sent, losses>>

(* A task reaches the broker at once, long before the transaction ends. *)
SendTask(q) ==
    /\ caller[q].toSend # {} /\ sent < MaxSent
    /\ LET m == Earliest(caller[q].toSend) IN
       /\ waiting' = [waiting EXCEPT ![m] = @ + 1]
       /\ caller' = [caller EXCEPT ![q].toSend = @ \ {m}]
    /\ sent' = sent + 1
    /\ UNCHANGED <<row, copies, worker, ingested, stranded, losses>>

(* The targets become pending.  A row that somebody else inserted since is *)
(* a violation of the unique constraint and takes everything back.         *)
CommitQueue(q) ==
    LET call == caller[q] IN
    /\ call.open /\ call.toSend = {}
    /\ IF \A m \in call.targets \ call.known : row[m].status = "none"
       THEN /\ row' = [m \in Markets |-> IF m \in call.targets
                                         THEN [row[m] EXCEPT !.status = "backfill_pending"]
                                         ELSE row[m]]
            /\ stranded' = (stranded \ call.targets) \cup {m \in call.targets : ~Underway(m)}
       ELSE UNCHANGED <<row, stranded>>
    /\ caller' = [caller EXCEPT ![q] = NoCall]
    /\ UNCHANGED <<copies, waiting, worker, ingested, sent, losses>>

(* The broker refuses a task, or the process dies: what was sent stays sent. *)
FailQueue(q) ==
    /\ caller[q].open /\ losses < MaxLosses
    /\ caller' = [caller EXCEPT ![q] = NoCall]
    /\ losses' = losses + 1
    /\ UNCHANGED <<row, copies, waiting, worker, ingested, stranded, sent>>

(* POST /backfill, a chart without candles, a new coin, the hourly core    *)
(* universe, gap filling: a task for a market, whatever its status.        *)
RequestBackfill(m) ==
    /\ sent < MaxSent
    /\ waiting' = [waiting EXCEPT ![m] = @ + 1]
    /\ sent' = sent + 1
    /\ UNCHANGED <<row, copies, worker, caller, ingested, stranded, losses>>

-----------------------------------------------------------------------------
(* The task: backfill_historical_candles. *)

Become(w, t) == worker' = [worker EXCEPT ![w] = t]

StartTask(w, m) ==
    /\ worker[w].at = "idle" /\ waiting[m] > 0
    /\ waiting' = [waiting EXCEPT ![m] = @ - 1]
    /\ row' = [row EXCEPT ![m].status = "backfill_pending"]
    /\ Become(w, [Idle EXCEPT !.at = "fetch", !.of = m])
    /\ stranded' = stranded \ {m}
    /\ UNCHANGED <<copies, caller, ingested, sent, losses>>

(* Mutant: a download without candles leaves the status alone. *)
NoCandlesRow_Kept(r) == [r EXCEPT !.count = 0]

(* "Exchange returned no candles." *)
NoCandlesRow(r) == [status |-> "backfill_failed", count |-> 0]

(* A market the exchange does not know, a download that fails (rate limit, *)
(* three errors, the soft time limit), or one that brings nothing.         *)
FinishWithout(w) ==
    LET m == worker[w].of IN
    /\ worker[w].at = "fetch"
    /\ \E r \in {[row[m] EXCEPT !.status = "unsupported"],
                 [row[m] EXCEPT !.status = "backfill_failed"], NoCandlesRow(row[m])} :
          row' = [row EXCEPT ![m] = r]
    /\ Become(w, Idle)
    /\ UNCHANGED <<copies, waiting, caller, ingested, stranded, sent, losses>>

Fetch(w) ==
    /\ worker[w].at = "fetch"
    /\ \E batch \in Batches \ {Empty} :
          Become(w, [worker[w] EXCEPT !.at = "check", !.batch = batch])
    /\ UNCHANGED <<row, copies, waiting, caller, ingested, stranded, sent, losses>>

(* Mutant: rows are looked up under the name the caller used. *)
Missing_All(m, batch) == batch

Missing(m, batch) == [c \in Candles |-> IF copies[m][c] = 0 THEN batch[c] ELSE 0]

(* Each candle is looked up and added to the session if it has no row: a   *)
(* candle that was returned twice is looked up twice, and added twice.     *)
CheckRows(w) ==
    /\ worker[w].at = "check"
    /\ Become(w, [worker[w] EXCEPT !.at = "count",
                    !.fresh = Missing(worker[w].of, worker[w].batch)])
    /\ UNCHANGED <<row, copies, waiting, caller, ingested, stranded, sent, losses>>

(* Mutant: what was fetched is added to what was stored. *)
Counted_WithBatch(t) == Stored(t.of) + Cardinality(RowSet(t.batch))

(* The count of the committed rows: those just added are not flushed yet. *)
Counted(t) == Stored(t.of)

CountRows(w) ==
    /\ worker[w].at = "count"
    /\ Become(w, [worker[w] EXCEPT !.at = "commit", !.total = Counted(worker[w]),
                    !.seen = row[worker[w].of]])
    /\ UNCHANGED <<row, copies, waiting, caller, ingested, stranded, sent, losses>>

(* The rows of market m with those of a batch.  No migration creates the   *)
(* unique constraint that the Price model declares.                        *)
With(m, batch) == [copies EXCEPT ![m] = [c \in Candles |-> @[c] + batch[c]]]

(* The rows and the changed columns of the status row are written. *)
CommitRows(w) ==
    LET t == worker[w]  m == t.of IN
    /\ t.at = "commit"
    /\ copies' = With(m, t.fresh)
    /\ row' = [row EXCEPT ![m] =
                 [status |-> IF WritesStatus(t) THEN Verdict(t.total) ELSE @.status,
                  count  |-> IF t.seen.count # t.total THEN t.total ELSE @.count]]
    /\ Become(w, Idle)
    /\ UNCHANGED <<waiting, caller, ingested, stranded, sent, losses>>

(* The hard time limit, a restart, or an exception while storing: nothing  *)
(* catches it, nothing retries the task.                                   *)
LoseTask(w) ==
    /\ worker[w].at \notin {"idle", "insert"} /\ losses < MaxLosses
    /\ stranded' = stranded \cup {worker[w].of}
    /\ Become(w, Idle)
    /\ losses' = losses + 1
    /\ UNCHANGED <<row, copies, waiting, caller, ingested, sent>>

-----------------------------------------------------------------------------
(* The task of POST /ingest/prices: ingest_historical_data.  It has no      *)
(* status, so nobody sees it before its rows: it is sent, taken and has     *)
(* downloaded in one step.  A download that fails brings nothing.           *)

StartIngest(w, m) ==
    /\ worker[w].at = "idle" /\ sent < MaxSent
    /\ \E batch \in Batches :
          Become(w, [Idle EXCEPT !.at = "insert", !.of = m, !.batch = batch])
    /\ sent' = sent + 1
    /\ UNCHANGED <<row, copies, waiting, caller, ingested, stranded, losses>>

(* Every candle that came is a row, whether there is one or not. *)
InsertRows(w) ==
    LET t == worker[w]  m == t.of IN
    /\ t.at = "insert"
    /\ copies' = With(m, t.batch)
    /\ ingested' = [ingested EXCEPT ![m] = [c \in Candles |-> @[c] + t.batch[c]]]
    /\ Become(w, Idle)
    /\ UNCHANGED <<row, waiting, caller, stranded, sent, losses>>

-----------------------------------------------------------------------------
Init ==
    /\ row = [m \in Markets |-> NoRow]
    /\ copies = [m \in Markets |-> Empty] /\ ingested = [m \in Markets |-> Empty]
    /\ waiting = [m \in Markets |-> 0]
    /\ worker = [w \in Workers |-> Idle]
    /\ caller = [q \in Callers |-> NoCall]
    /\ stranded = {} /\ sent = 0 /\ losses = 0

TaskStep(w) == \/ FinishWithout(w) \/ Fetch(w) \/ CheckRows(w) \/ CountRows(w) \/ CommitRows(w)
               \/ InsertRows(w)

Queue(q) == BeginQueue(q) \/ SendTask(q) \/ CommitQueue(q) \/ FailQueue(q)

Next == \/ \E w \in Workers : TaskStep(w) \/ LoseTask(w)
        \/ \E w \in Workers, m \in Markets : StartTask(w, m) \/ StartIngest(w, m)
        \/ \E q \in Callers : Queue(q)
        \/ \E m \in Markets : RequestBackfill(m)

Spec == Init /\ [][Next]_vars

(* A running task goes on (the time limits end a download), and the broker *)
(* is first in, first out: a market's task is not passed over for ever.    *)
Fairness == /\ \A w \in Workers : WF_vars(TaskStep(w))
            /\ \A m \in Markets : SF_vars(\E w \in Workers : StartTask(w, m))

FairSpec == Spec /\ Fairness

-----------------------------------------------------------------------------
(* Properties. *)

(* Every variable has its type. *)
TypeOK ==
    /\ row \in [Markets -> Rows]
    /\ copies \in [Markets -> [Candles -> Nat]] /\ ingested \in [Markets -> [Candles -> Nat]]
    /\ waiting \in [Markets -> Nat]
    /\ worker \in [Workers -> Task]
    /\ caller \in [Callers -> Call]
    /\ stranded \subseteq Markets
    /\ sent \in Nat /\ losses \in Nat

(* A market that says backfill_pending has a task that will say otherwise, *)
(* unless its last task was lost or ended before the queue's own commit:   *)
(* there is no third way to stay pending, however tasks of one market      *)
(* overlap.  (queue_kraken_backfills skips pending markets for ever)       *)
PendingHasTask ==
    \A m \in Markets : row[m].status = "backfill_pending" => Underway(m) \/ m \in stranded

(* The dashboard and the desk trade on what a ready market has: its rows   *)
(* are there, and row_count never overstates them, whichever of several    *)
(* overlapping tasks commits last.                                         *)
CountsAreBacked ==
    \A m \in Markets : /\ row[m].count <= Stored(m)
                       /\ row[m].status = "ready" => Stored(m) >= ReadyRows

(* The look-up before the insert is the only guard against duplicates.     *)
(* For what backfills add it holds them to one download for each worker    *)
(* process, however many of them overlap; what ingest_historical_data      *)
(* adds, it does not bound, nor candles that came twice in one download.   *)
CopiesPerWorker ==
    \A m \in Markets, c \in Candles :
        copies[m][c] <= ingested[m][c] + MaxRepeats * Cardinality(Workers)

(* A market with a task is decided in the end, or its task was lost.       *)
Decided ==
    \A m \in Markets : waiting[m] > 0 ~> row[m].status # "backfill_pending" \/ m \in stranded

(* What the program says, and does not keep: "Uses upsert logic to avoid   *)
(* duplicates."  (backfill_historical_candles, ingest_historical_data)     *)
NoDuplicates == \A m \in Markets, c \in Candles : copies[m][c] <= 1

(* What the program says, and does not keep: "Kraken backfill active task  *)
(* cap reached."  When the queue refuses, there is a task.                 *)
(* (queue_kraken_backfills)                                                *)
ThrottledByTasks == Throttled => \E m \in Markets : Underway(m)

=============================================================================
