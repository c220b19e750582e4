------------------------------ MODULE Sources -------------------------------
(***************************************************************************)
(* The two ways trades come in beside the trade stream itself: bulk        *)
(* imports of files and subscriptions at the exchanges.  They share no     *)
(* variable, so a behaviour follows one of them: the subject.              *)
(***************************************************************************)
EXTENDS Subscriptions

CONSTANTS Workers, Period, LastFile, Unavailable, Content, Asked, GapLists, MaxRanges, MaxTasks,
          MaxBreaks

VARIABLES subject,  (* "imports" or "subscriptions" *)
          queue, worker, disk, runs, copies, assets, sent, breaks

I == INSTANCE Imports

ASSUME SourcesAssumption == I!ImportsAssumption

importVars == <<queue, worker, disk, runs, copies, assets, sent, breaks>>
sourceVars == <<subject, importVars, vars>>

(* While imports are followed, the streamer is one that remembers. *)
SourcesInit ==
    /\ subject \in {"imports", "subscriptions"} /\ I!Init /\ Init
    /\ subject = "imports" => remembers

SourcesNext == \/ subject = "imports" /\ I!Next /\ UNCHANGED <<subject, vars>>
               \/ subject = "subscriptions" /\ Next /\ UNCHANGED <<subject, importVars>>

SourcesSpec ==
    /\ SourcesInit /\ [][SourcesNext]_sourceVars
    /\ \A w \in Workers :
           WF_sourceVars(subject = "imports" /\ I!Work(w) /\ UNCHANGED <<subject, vars>>)
-----------------------------------------------------------------------------
(* A recorded file has its ticks stored, once where they have ids or the   *)
(* import has an owner, and a file that could not be read has nothing.     *)
(* (ingest_ticks, bulk_insert_ticks, CsvTickImporter.iter_ticks)           *)
RecordedIsStored == I!RecordedIsStored

(* "Idempotency prevents duplicates": refuted.  (repair_market_gaps)       *)
NoDuplicateTicks == I!NoDuplicateTicks

(* Import tasks end.  (import_binance_vision_range, import_dukascopy_range) *)
TasksEnd == I!TasksEnd

(* Dukascopy ticks keep their times.  (import_dukascopy_range, base_time)  *)
TicksInPlace == I!TicksInPlace
=============================================================================
