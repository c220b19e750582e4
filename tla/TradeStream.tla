---------------------------- MODULE TradeStream ----------------------------
(***************************************************************************)
(* The trade pipeline: streamers append trades to a capped Redis stream,   *)
(* one writer process reads it through a consumer group, stores a batch in *)
(* one database transaction and acknowledges it.                           *)
(*                                                                         *)
(* Entries are numbered in the order of the stream.  Redis (the stream,    *)
(* the group, the pending list) is modelled from how the code uses it.     *)
(* Every message is well formed: publish_trade is the only producer.       *)
(***************************************************************************)
EXTENDS Integers, Sequences, FiniteSets

CONSTANTS Trades,       (* trades of the exchanges *)
          WithId,       (* those whose exchange sends a trade id *)
          MaxLen,       (* stream_maxlen *)
          BatchSize,    (* batch_size of run_writer *)
          MaxPublished, (* bound: entries in a behaviour *)
          MaxCrashes    (* bound: deaths of the writer in a behaviour *)

ASSUME StreamAssumption ==
    /\ WithId \subseteq Trades /\ IsFiniteSet(Trades)
    /\ MaxLen \in Nat \ {0} /\ BatchSize \in Nat \ {0}
    /\ MaxPublished \in Nat /\ MaxCrashes \in Nat

VARIABLES log,     (* the trade of every entry ever published *)
          oldest,  (* the first entry the stream still has *)
          last,    (* last-delivered entry of the group; -1: no group *)
          pending, (* entries delivered and not acknowledged *)
          writer,  (* where the writer is, and the batch it holds *)
          rows,    (* market_trades rows per entry *)
          ticks,   (* ticks rows per trade *)
          delivered, (* history: entries the group ever delivered *)
          crashes    (* history *)

vars == <<log, oldest, last, pending, writer, rows, ticks, delivered, crashes>>

Entries == 1..MaxPublished
Down    == [at |-> "down", batch |-> {}]
MinOf(i, j) == IF i < j THEN i ELSE j
MaxOf(i, j) == IF i < j THEN j ELSE i

-----------------------------------------------------------------------------
(* publish_trade: XADD with an approximate MAXLEN drops old entries, more  *)
(* or less lazily.  After a reconnect the exchange may send a trade again. *)
Publish ==
    /\ Len(log) < MaxPublished
    /\ \E t \in Trades : log' = Append(log, t)
    /\ oldest' \in oldest .. MaxOf(oldest, Len(log) + 2 - MaxLen)
    /\ UNCHANGED <<last, pending, writer, rows, ticks, delivered, crashes>>

(* Mutants: the group is created anew at every start, or one entry late. *)
StartAt_Latest == Len(log)
StartAt_Next == IF last = -1 THEN Len(log) + 1 ELSE last

(* ensure_consumer_group at "$": only what comes later is delivered.  A    *)
(* group that exists stays as it is (BUSYGROUP).                           *)
StartAt == IF last = -1 THEN Len(log) ELSE last

StartWriter ==
    /\ writer.at = "down"
    /\ last' = StartAt
    /\ writer' = [at |-> "read", batch |-> {}]
    /\ UNCHANGED <<log, oldest, pending, rows, ticks, delivered, crashes>>

(* Mutant: a restarted writer asks for its pending entries first. *)
Unread_PendingFirst ==
    IF pending # {} THEN pending
    ELSE {e \in Entries : MaxOf(last + 1, oldest) <= e /\ e <= Len(log)}

(* ">": what the group has not delivered and the stream still has. *)
Unread == {e \in Entries : MaxOf(last + 1, oldest) <= e /\ e <= Len(log)}

(* Mutant: the newest entries first. *)
FirstOf_Newest(set, n) == {e \in set : Cardinality({d \in set : d >= e}) <= n}

FirstOf(set, n) == {e \in set : Cardinality({d \in set : d <= e}) <= n}

(* Mutant: the read does not register its entries (NOACK). *)
Claim_NoAck(batch) == pending

Claim(batch) == pending \cup batch

Read ==
    /\ writer.at = "read" /\ Unread # {}
    /\ LET batch == FirstOf(Unread, BatchSize) IN
       /\ last' = MaxOf(last, CHOOSE e \in batch : \A d \in batch : d <= e)
       /\ pending' = Claim(batch)
       /\ writer' = [at |-> "store", batch |-> batch]
       /\ delivered' = delivered \cup batch
    /\ UNCHANGED <<log, oldest, rows, ticks, crashes>>

Copies(batch, t) == {e \in batch : log[e] = t}

(* Mutant: no unique index on the trade id. *)
TicksWith_NoConflict(batch) == [t \in Trades |-> ticks[t] + Cardinality(Copies(batch, t))]

(* bulk_insert_ticks: ON CONFLICT (.., exchange_trade_id, ..) DO NOTHING. *)
TicksWith(batch) ==
    [t \in Trades |-> IF t \in WithId THEN MinOf(1, ticks[t] + Cardinality(Copies(batch, t)))
                      ELSE ticks[t] + Cardinality(Copies(batch, t))]

(* session_scope: both tables in one transaction. *)
Store ==
    /\ writer.at = "store"
    /\ rows' = [e \in Entries |-> IF e \in writer.batch THEN rows[e] + 1 ELSE rows[e]]
    /\ ticks' = TicksWith(writer.batch)
    /\ writer' = [writer EXCEPT !.at = "ack"]
    /\ UNCHANGED <<log, oldest, last, pending, delivered, crashes>>

Ack ==
    /\ writer.at = "ack"
    /\ pending' = pending \ writer.batch
    /\ writer' = [at |-> "read", batch |-> {}]
    /\ UNCHANGED <<log, oldest, last, rows, ticks, delivered, crashes>>

(* The process dies; an error of the database or of Redis ends it as well: *)
(* run_writer catches nothing outside the parsing of a message.            *)
Crash ==
    /\ writer.at # "down" /\ crashes < MaxCrashes
    /\ writer' = Down /\ crashes' = crashes + 1
    /\ UNCHANGED <<log, oldest, last, pending, rows, ticks, delivered>>

Init ==
    /\ log = <<>> /\ oldest = 1 /\ last = -1 /\ pending = {} /\ writer = Down
    /\ rows = [e \in Entries |-> 0] /\ ticks = [t \in Trades |-> 0]
    /\ delivered = {} /\ crashes = 0

Next == Publish \/ StartWriter \/ Read \/ Store \/ Ack \/ Crash

Spec == Init /\ [][Next]_vars

(* A writer that runs goes on.  Nothing in the code starts it again. *)
FairSpec == Spec /\ WF_vars(Read \/ Store \/ Ack)

(* An operator who always starts it again. *)
TendedSpec == FairSpec /\ WF_vars(StartWriter)

-----------------------------------------------------------------------------
(* Properties. *)

(* Every variable has its type. *)
TypeOK ==
    /\ log \in Seq(Trades) /\ Len(log) <= MaxPublished
    /\ oldest \in 1..(MaxPublished + 1)
    /\ last \in -1..MaxPublished
    /\ pending \subseteq Entries
    /\ writer \in [at : {"down", "read", "store", "ack"}, batch : SUBSET Entries]
    /\ rows \in [Entries -> Nat] /\ ticks \in [Trades -> Nat]
    /\ delivered \subseteq Entries /\ crashes \in 0..MaxCrashes

(* However often the writer dies between its commit and its XACK, an entry *)
(* is never stored twice.  (run_writer)                                    *)
StoredOnce == \A e \in Entries : rows[e] <= 1

(* An entry leaves the pending list only once it is in the database.       *)
(* (the order of session_scope and xack in run_writer)                     *)
AckedIsStored == \A e \in delivered \ pending : rows[e] = 1

(* The tables agree: a trade with an id has one tick however often it was  *)
(* published, any other as many as it has rows.  (bulk_insert_ticks)       *)
TicksMatchRows ==
    \A t \in Trades :
       LET stored == {e \in 1..Len(log) : log[e] = t /\ rows[e] > 0} IN
       ticks[t] = IF t \in WithId THEN MinOf(1, Cardinality(stored)) ELSE Cardinality(stored)

(* Entries that nobody will be given: trimmed, skipped, or stranded in the *)
(* pending list of a writer that died.                                     *)
Gone == {e \in 1..Len(log) : /\ rows[e] = 0
                             /\ e <= last \/ e < oldest
                             /\ writer.at = "store" => e \notin writer.batch}

(* The pipeline keeps at most once, in the order of the stream, and a      *)
(* stranded entry is never picked up again.                                *)
Abstract == INSTANCE Ingest WITH sent <- 1..Len(log), kept <- {e \in Entries : rows[e] > 0},
                                 lost <- Gone
ImplementsIngest == Abstract!Spec

(* The cursor of the group passes no entry that the stream still has       *)
(* without delivering it, across any number of restarts.                   *)
(* (ensure_consumer_group, xreadgroup)                                     *)
NothingSkipped ==
    [][last # -1 => \A e \in (last + 1)..last' : e \in delivered' \/ e < oldest]_vars

(* A writer that stays up reaches every entry that is not trimmed first.   *)
CaughtUp ==
    \A e \in Entries : writer.at # "down" /\ last < e /\ e <= Len(log)
                       ~> e \in delivered \/ e < oldest \/ writer.at = "down"

(* What the program says, and does not keep: "Durable stream for DB        *)
(* ingestion".  What the group delivered is stored in the end.             *)
(* (publish_trade)                                                         *)
DeliveredIsStored == \A e \in Entries : e \in delivered ~> rows[e] > 0

=============================================================================
