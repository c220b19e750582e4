------------------------------ MODULE Imports -------------------------------
(***************************************************************************)
(* Bulk imports of ticks: the API queues ranges, Celery workers download   *)
(* the file of every day (Binance Vision) or hour (Dukascopy) of a range   *)
(* and store it in one transaction with the record of the import.          *)
(*                                                                         *)
(* Times count in units, Period units to a file.  A file has rows of four  *)
(* kinds: those with the id of a trade; those without one, as all of       *)
(* Dukascopy's; those that lack a column, which are passed over; and those *)
(* that cannot be read, which end the import.  All rows of a kind share    *)
(* one fate, so a kind is counted as one row.  The time of a Dukascopy     *)
(* tick is an offset from base_time.  One market per source.  The          *)
(* archives, Celery and PostgreSQL (its unique indexes and the waits on    *)
(* them) are modelled from how the code uses them.                         *)
(***************************************************************************)
EXTENDS Integers, Sequences, FiniteSets, SequencesExt

CONSTANTS Workers,     (* processes of the Celery worker *)
          Period,      (* units of time in a file *)
          LastFile,    (* bound: files are numbered 0..LastFile *)
          Unavailable, (* files the archives do not have *)
          Content,     (* kinds of rows in each file of a source *)
          Asked,       (* imports that users request: source, start, end, owner *)
          GapLists,    (* gaps that detect_gaps_data may find: sequences of start, end *)
          MaxRanges,   (* max_ranges of repair_market_gaps *)
          MaxTasks,    (* bound: tasks queued in a behaviour *)
          MaxBreaks    (* bound: network errors and deaths in a behaviour *)

Sources == {"binance_vision", "dukascopy"}
Owners  == {"none", "user"}  (* owner_id, NULL or not *)
Files   == 0..LastFile
Times   == 0..((LastFile + 1) * Period - 1)
Ticks   == {"tagged", "bare"}  (* rows with a trade id and without *)
RowKinds == Ticks \cup {"skipped", "broken"}
Task    == [source : Sources, start : Times, end : Times, owner : Owners]

(* What the constants are assumed to be. *)
ImportsAssumption ==
    /\ Period \in Nat \ {0} /\ LastFile \in Nat /\ Unavailable \subseteq Files
    /\ Content \in [Sources \X Files -> SUBSET RowKinds]
    /\ \A f \in Files : Content[<<"dukascopy", f>>] \subseteq {"bare", "broken"}
    /\ Asked \subseteq Task /\ \A t \in Asked : t.start <= t.end
    /\ \A g \in GapLists : /\ g \in Seq([start : Times, end : Times])
                           /\ \A i \in DOMAIN g : g[i].start < g[i].end
    /\ MaxRanges \in Nat \ {0} /\ MaxTasks \in Nat /\ MaxBreaks \in Nat

VARIABLES queue,  (* tasks the broker holds *)
          worker, (* program counter, task and current time of each process *)
          disk,   (* state of each downloaded file *)
          runs,   (* import_runs rows with status success *)
          copies, (* copies of a file's rows in ticks, by kind and shift of their times *)
          assets, (* sources whose asset row is committed *)
          sent,   (* tasks queued so far *)
          breaks  (* errors and deaths so far *)

vars == <<queue, worker, disk, runs, copies, assets, sent, breaks>>

NoTask  == [source |-> "binance_vision", start |-> 0, end |-> 0, owner |-> "none"]
Idle    == [at |-> "idle", task |-> NoTask, now |-> 0, holds |-> {}, adds |-> {}]
Places  == {"idle", "fetch", "request", "download", "check", "record", "asset", "new asset",
            "insert", "commit"}

File(w)  == worker[w].now \div Period
Shift(w) == IF worker[w].task.source = "dukascopy" THEN worker[w].now % Period ELSE 0
OnDisk(w) == <<worker[w].task.source, File(w)>>
Key(w)   == <<worker[w].task.source, worker[w].task.owner, File(w)>>
Stored(w, kind) == <<worker[w].task.source, File(w), Shift(w), kind>>

GoTo(w, place)        == worker' = [worker EXCEPT ![w].at = place]
GoWith(w, place, row) == worker' = [worker EXCEPT ![w].at = place, ![w].holds = @ \cup {row}]

(* Other processes with an uncommitted row that conflicts with one of w. *)
Holding(w, row, Same(_)) == {v \in Workers \ {w} : row \in worker[v].holds /\ Same(v)}
-----------------------------------------------------------------------------
(* The API. *)

Enqueue(tasks) ==
    /\ sent + Len(tasks) <= MaxTasks
    /\ queue' = queue \o tasks /\ sent' = sent + Len(tasks)
    /\ UNCHANGED <<worker, disk, runs, copies, assets, breaks>>

(* POST /imports/binance-vision and /imports/dukascopy *)
RequestImport == \E t \in Asked : Enqueue(<<t>>)

(* The end of a gap is exclusive; it is made inclusive for days, not for   *)
(* hours.                                                                  *)
TaskFor(gap, source, owner) ==
    [source |-> source, owner |-> owner, start |-> gap.start,
     end |-> IF source = "binance_vision" THEN gap.end - 1 ELSE gap.end]

(* repair_market_gaps: one task for each of the first ranges. *)
RepairGaps ==
    \E gaps \in GapLists, source \in Sources, owner \in Owners :
        LET n == IF Len(gaps) <= MaxRanges THEN Len(gaps) ELSE MaxRanges
        IN  Enqueue([i \in 1..n |-> TaskFor(gaps[i], source, owner)])
-----------------------------------------------------------------------------
(* import_binance_vision_range and import_dukascopy_range. *)

(* Days are dates; hours are counted from the start as it was given. *)
FirstTime(t) == IF t.source = "binance_vision" THEN (t.start \div Period) * Period ELSE t.start

Take(w) ==
    /\ worker[w].at = "idle" /\ queue # <<>>
    /\ worker' = [worker EXCEPT ![w] = [Idle EXCEPT !.at = "fetch", !.task = Head(queue),
                                                    !.now = FirstTime(Head(queue))]]
    /\ queue' = Tail(queue)
    /\ UNCHANGED <<disk, runs, copies, assets, sent, breaks>>

Following(now) == now + Period

(* The next file of the range, or the end of the task. *)
Onward(w) ==
    LET next == Following(worker[w].now)
    IN  worker' = [worker EXCEPT ![w] = IF next > worker[w].task.end THEN Idle
                       ELSE [Idle EXCEPT !.at = "fetch", !.task = worker[w].task, !.now = next]]

(* download_file: a file that exists is taken as it is. *)
Fetch(w) ==
    /\ worker[w].at = "fetch"
    /\ GoTo(w, IF disk[OnDisk(w)] = "none" THEN "request" ELSE "check")
    /\ UNCHANGED <<queue, disk, runs, copies, assets, sent, breaks>>

(* The answer 404 is logged and passed over. *)
NotFound(w) ==
    /\ worker[w].at = "request" /\ File(w) \in Unavailable
    /\ Onward(w)
    /\ UNCHANGED <<queue, disk, runs, copies, assets, sent, breaks>>

Downloading(f) == {v \in Workers : worker[v].at = "download" /\ OnDisk(v) = f}

(* The file is created, or truncated under another process that fills it. *)
Open(w) ==
    /\ worker[w].at = "request" /\ File(w) \notin Unavailable
    /\ disk' = [disk EXCEPT ![OnDisk(w)] = IF Downloading(OnDisk(w)) = {} THEN "partial" ELSE "shared"]
    /\ GoTo(w, "download")
    /\ UNCHANGED <<queue, runs, copies, assets, sent, breaks>>

(* What two processes wrote at once is whole, or has a hole. *)
Close(w) ==
    /\ worker[w].at = "download"
    /\ \E state \in (IF disk[OnDisk(w)] = "shared" THEN {"shared", "whole"} ELSE {"whole"}) :
          disk' = [disk EXCEPT ![OnDisk(w)] = state]
    /\ GoTo(w, "check")
    /\ UNCHANGED <<queue, runs, copies, assets, sent, breaks>>

(* already_imported *)
Check(w) ==
    /\ worker[w].at = "check"
    /\ IF runs[Key(w)] > 0 THEN Onward(w) ELSE GoTo(w, "record")
    /\ UNCHANGED <<queue, disk, runs, copies, assets, sent, breaks>>

(* Mutant: rows of the transaction stay locked after a rollback. *)
RolledBack_Holding(v) == [Idle EXCEPT !.holds = v.holds]

(* The exception ends the task, and the transaction with it: what was      *)
(* recorded as failed is rolled back too.                                  *)
RolledBack(v) == Idle

Fail(w) == worker' = [worker EXCEPT ![w] = RolledBack(@)]

(* record_import_start: a row with status success that was committed since *)
(* breaks the unique constraint, which knows no two equal NULLs; two of    *)
(* them break one_or_none.                                                 *)
Record(w) ==
    LET SameKey(v) == Key(v) = Key(w) /\ worker[w].task.owner # "none"
    IN  /\ worker[w].at = "record" /\ Holding(w, "record", SameKey) = {}
        /\ IF runs[Key(w)] > 1 \/ (runs[Key(w)] = 1 /\ worker[w].task.owner # "none")
           THEN Fail(w)
           ELSE GoWith(w, "asset", "record")
        /\ UNCHANGED <<queue, disk, runs, copies, assets, sent, breaks>>

(* get_or_create_asset looks the row up ... *)
FindAsset(w) ==
    /\ worker[w].at = "asset"
    /\ GoTo(w, IF worker[w].task.source \in assets THEN "insert" ELSE "new asset")
    /\ UNCHANGED <<queue, disk, runs, copies, assets, sent, breaks>>

(* ... and inserts it, unless another process has done so since. *)
AddAsset(w) ==
    LET SameAsset(v) == worker[v].task.source = worker[w].task.source
    IN  /\ worker[w].at = "new asset" /\ Holding(w, "asset", SameAsset) = {}
        /\ IF worker[w].task.source \in assets THEN Fail(w) ELSE GoWith(w, "insert", "asset")
        /\ UNCHANGED <<queue, disk, runs, copies, assets, sent, breaks>>

(* Mutant: the end of a truncated file is the end of its ticks. *)
Readable_Partial(f) == disk[f] \in {"partial", "whole"} /\ "broken" \notin Content[f]

(* The archive has its directory, or its end marker, at the end; a row     *)
(* whose time, price or volume is no number raises.                        *)
Readable(f) == disk[f] = "whole" /\ "broken" \notin Content[f]

(* CsvTickImporter.iter_ticks goes on after a row without one of the       *)
(* mapped columns, and says so to nobody.                                  *)
Found(f) == IF disk[f] = "whole" THEN Content[f] \cap Ticks ELSE {}

(* bulk_insert_ticks: ticks with an id are inserted unless they are there. *)
Inserted(w) == {kind \in Found(OnDisk(w)) : kind = "tagged" => copies[Stored(w, kind)] = 0}

Insert(w) ==
    LET SameTicks(v) == OnDisk(v) = OnDisk(w)
    IN  /\ worker[w].at = "insert" /\ Holding(w, "tagged", SameTicks) = {}
        /\ IF Readable(OnDisk(w))
           THEN worker' = [worker EXCEPT ![w].at = "commit", ![w].adds = Inserted(w),
                                         ![w].holds = @ \cup (Inserted(w) \cap {"tagged"})]
           ELSE Fail(w)
        /\ UNCHANGED <<queue, disk, runs, copies, assets, sent, breaks>>

(* record_import_finish, and session_scope commits. *)
Commit(w) ==
    /\ worker[w].at = "commit"
    /\ runs' = [runs EXCEPT ![Key(w)] = @ + 1]
    /\ copies' = [c \in DOMAIN copies |->
                    copies[c] + IF \E kind \in worker[w].adds : c = Stored(w, kind) THEN 1 ELSE 0]
    /\ assets' = assets \cup {worker[w].task.source}
    /\ Onward(w)
    /\ UNCHANGED <<queue, disk, sent, breaks>>

(* An error of the network or the database, a time limit, or the death of  *)
(* the process: the task is gone, a file that was open stays as it is.     *)
Break(w) ==
    /\ worker[w].at # "idle" /\ breaks < MaxBreaks
    /\ Fail(w) /\ breaks' = breaks + 1
    /\ UNCHANGED <<queue, disk, runs, copies, assets, sent>>
-----------------------------------------------------------------------------
Init ==
    /\ queue = <<>> /\ worker = [w \in Workers |-> Idle]
    /\ disk = [f \in Sources \X Files |-> "none"]
    /\ runs = [k \in Sources \X Owners \X Files |-> 0]
    /\ copies = [c \in Sources \X Files \X (0..(Period - 1)) \X Ticks |-> 0]
    /\ assets = {} /\ sent = 0 /\ breaks = 0

Work(w) == \/ Take(w) \/ Fetch(w) \/ NotFound(w) \/ Open(w) \/ Close(w) \/ Check(w) \/ Record(w)
           \/ FindAsset(w) \/ AddAsset(w) \/ Insert(w) \/ Commit(w)

Next == \/ RequestImport \/ RepairGaps
        \/ \E w \in Workers : Work(w) \/ Break(w)

(* A worker process goes on with its task, and with the next in the queue. *)
Spec == Init /\ [][Next]_vars /\ \A w \in Workers : WF_vars(Work(w))
-----------------------------------------------------------------------------
(* Every variable has its type. *)
TypeOK ==
    /\ queue \in Seq(Task) /\ assets \subseteq Sources /\ sent \in 0..MaxTasks /\ breaks \in 0..MaxBreaks
    /\ worker \in [Workers -> [at : Places, task : Task, now : Nat, adds : SUBSET Ticks,
                               holds : SUBSET {"record", "asset", "tagged"}]]
    /\ disk \in [Sources \X Files -> {"none", "partial", "shared", "whole"}]
    /\ runs \in [Sources \X Owners \X Files -> Nat]
    /\ copies \in [Sources \X Files \X (0..(Period - 1)) \X Ticks -> Nat]

(* The rows that a table holds for the keys, one by one. *)
RowsOf(count, keys) == UNION {{k} \X (1..count[k]) : k \in keys}

AllCopies(s, f, kind) == Cardinality(RowsOf(copies, {s} \X {f} \X (0..(Period - 1)) \X {kind}))
AllRuns(s, f) == Cardinality(RowsOf(runs, {s} \X Owners \X {f}))

LeastOf(m, n) == IF m < n THEN m ELSE n

(* What a record with status success says is stored, row by row, and       *)
(* nothing else is, however imports of the same file overlap, fail and are *)
(* repeated.  The rows with an id have one copy as soon as any import of   *)
(* the file succeeded, the others a copy for each success, which the       *)
(* unique constraint makes one for a user; rows that lack a column have    *)
(* none, though the record says success.  A file that cannot be read to    *)
(* its end, or of which a broken download left a part, has no record and   *)
(* no row.                                                                 *)
RecordedIsStored ==
    \A s \in Sources, f \in Files :
       LET successes == AllRuns(s, f)
       IN  /\ AllCopies(s, f, "tagged") =
                 IF "tagged" \in Content[<<s, f>>] THEN LeastOf(1, successes) ELSE 0
           /\ AllCopies(s, f, "bare") = IF "bare" \in Content[<<s, f>>] THEN successes ELSE 0
           /\ "broken" \in Content[<<s, f>>] => successes = 0
           /\ runs[<<s, "user", f>>] <= 1

(* What the program says, and does not keep: "Small gaps may still result  *)
(* in large data pulls, but idempotency prevents duplicates."  A row has   *)
(* at most one copy for each owner that imported it.  (repair_market_gaps) *)
NoDuplicateTicks ==
    \A s \in Sources, f \in Files, kind \in Ticks :
       AllCopies(s, f, kind) <= Cardinality({o \in Owners : runs[<<s, o, f>>] > 0})

(* Every task that a worker took ends: no file is tried for ever, and no   *)
(* process waits for ever for the rows of another one.                     *)
TasksEnd == \A w \in Workers : worker[w].at # "idle" ~> worker[w].at = "idle"

(* The ticks of a Dukascopy file are stored at their own times: the time   *)
(* in a record of the file is an offset from the start of the hour.        *)
TicksInPlace == \A f \in Files, s \in 1..(Period - 1) : copies[<<"dukascopy", f, s, "bare">>] = 0
=============================================================================
