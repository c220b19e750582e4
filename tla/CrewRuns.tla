------------------------------ MODULE CrewRuns ------------------------------
(***************************************************************************)
(* Runs of the crew that a user starts, and the recommendations they       *)
(* leave: a request works through the assets in one transaction, with a    *)
(* call of the model for each, while other requests execute                *)
(* recommendations again, add some, or cancel a run.                       *)
(*                                                                         *)
(* One user and one paper account.  What the market, the model and the     *)
(* strategy answer is any answer.  Cash and positions are in               *)
(* PaperSchedules; here a step of the account fills an order, refuses one  *)
(* or makes none.  A request that updates the account holds its row until  *)
(* it commits.                                                             *)
(***************************************************************************)
EXTENDS Integers, FiniteSets, FiniteSetsExt

CONSTANTS Runs,       (* POST /crew/runs *)
          Clicks,     (* requests that execute or add a recommendation *)
          Manual,     (* recommendations that requests may add *)
          LastAsset,  (* assets 1..LastAsset, in the order of their rank *)
          SymbolOf,   (* the symbol of an asset: exchanges share symbols *)
          MaxSymbols, (* max_symbols *)
          MaxTrades   (* max_trades_per_day *)

Assets == 1..LastAsset

ASSUME CrewRunsAssumption ==
    /\ IsFiniteSet(Runs) /\ IsFiniteSet(Clicks) /\ IsFiniteSet(Manual)
    /\ Runs \cap Clicks = {}
    /\ LastAsset \in Nat /\ DOMAIN SymbolOf = Assets
    /\ MaxSymbols \in Nat \ {0} /\ MaxTrades \in Nat \ {0}

VARIABLES runs,    (* agent_runs rows that others see *)
          work,    (* what each run request has done in its transaction *)
          click,   (* the recommendation each other request works on *)
          recs,    (* agent_recommendations rows that others see *)
          orders   (* filled orders of today, by recommendation *)

vars == <<runs, work, click, recs, orders>>

RecIds  == (Runs \X Assets) \cup (Manual \X {0})
Answers == {"filled", "refused", "none"}

(* stored is history: the status a recommendation was first committed with *)
NoRec == [status |-> "absent", stored |-> "absent"]
NoRun == [status |-> "absent", selected |-> {}, made |-> 0, executed |-> 0, rejected |-> 0]
Ready == [at |-> "ready", auto |-> FALSE, todo |-> {}, selected |-> {}, failed |-> {}, made |-> {}, executed |-> {},
          rejected |-> {}, filled |-> {}, holds |-> FALSE]
Over  == [Ready EXCEPT !.at = "over"]
NoClick == [at |-> "idle", rec |-> <<>>, new |-> FALSE]

(* Each filled order, by its number among those of its recommendation. *)
FilledOrders == UNION {{id} \X (1..orders[id]) : id \in RecIds}

Trades  == Cardinality(FilledOrders)
Holders == {r \in Runs : work[r].holds}
-----------------------------------------------------------------------------
(* run_crew_cycle *)

(* The assets with the best rank for their symbol. *)
Preferred(ready) == {a \in ready : \A b \in ready : SymbolOf[b] = SymbolOf[a] => a <= b}

(* _select_ready_assets *)
Selection(ready) ==
    {a \in Preferred(ready) : Cardinality({b \in Preferred(ready) : b <= a}) <= MaxSymbols}

(* Mutant: the row of the run is committed when the run begins. *)
Shown_Running(r) == [runs EXCEPT ![r].status = "running"]

(* The row is flushed, and nobody else sees it. *)
Shown(r) == runs

(* The model is there, and assets are ready: on with the first. *)
Begin(r) ==
    /\ work[r].at = "ready"
    /\ \E ready \in SUBSET Assets \ {{}}, auto \in BOOLEAN :
          work' = [work EXCEPT ![r] = [@ EXCEPT !.at = "deciding", !.auto = auto, !.todo = Selection(ready)]]
    /\ runs' = Shown(r)
    /\ UNCHANGED <<click, recs, orders>>

(* No model, or no asset: the run is committed as failed. *)
Refuse(r) ==
    /\ work[r].at = "ready"
    /\ work' = [work EXCEPT ![r] = Over]
    /\ runs' = [runs EXCEPT ![r] = [NoRun EXCEPT !.status = "failed"]]
    /\ UNCHANGED <<click, recs, orders>>

Current(r) == Min(work[r].todo)
Deciding(r) == work[r].at = "deciding" /\ work[r].todo # {}

Proceed(r, row) == /\ work' = [work EXCEPT ![r] = [row EXCEPT !.at = "deciding", !.todo = @ \ {Current(r)}]]
                   /\ UNCHANGED <<runs, click, recs, orders>>

(* _build_snapshot: the data is not ready any more. *)
Skip(r) == Deciding(r) /\ Proceed(r, work[r])

Select(row, a) == [row EXCEPT !.selected = @ \cup {a}]
Make(row, a)   == [Select(row, a) EXCEPT !.made = @ \cup {a}]

(* generate_decision: a timeout, an answer that is not JSON or not valid. *)
Reject(r) == Deciding(r) /\ Proceed(r, [Select(work[r], Current(r)) EXCEPT !.failed = @ \cup {Current(r)}])

(* A recommendation of hold or reject, or whose backtest failed, or that a *)
(* guardrail stops: the limit of trades, the switch, the symbols allowed,  *)
(* the result of the backtest.                                             *)
Decline(r) == Deciding(r) /\ Proceed(r, [Make(work[r], Current(r)) EXCEPT !.rejected = @ \cup {Current(r)}])

(* A backtest completed, and auto_execute is off. *)
Propose(r) == Deciding(r) /\ ~work[r].auto /\ Proceed(r, Make(work[r], Current(r)))

(* Mutant: one more trade than allowed. *)
Allowed_OneMore(trades) == trades <= MaxTrades

(* check_guardrails, the limit of trades a day. *)
Allowed(trades) == trades < MaxTrades

(* attempt_autonomous_execution, from the guardrails, which count what is  *)
(* committed and what this transaction filled ...                          *)
Attempt(r) ==
    /\ Deciding(r) /\ work[r].auto /\ Allowed(Trades + Cardinality(work[r].filled))
    /\ work' = [work EXCEPT ![r].at = "stepping"]
    /\ UNCHANGED <<runs, click, recs, orders>>

(* ... to the step of the account, whose row must be free: a refused order *)
(* is an order in the answer, so the status is executed.                   *)
Step(r) ==
    /\ work[r].at = "stepping" /\ Holders \subseteq {r}
    /\ \E answer \in Answers :
          Proceed(r, [Make(work[r], Current(r)) EXCEPT
                        !.holds = TRUE,
                        !.filled = IF answer = "filled" THEN @ \cup {Current(r)} ELSE @,
                        !.executed = IF answer # "none" THEN @ \cup {Current(r)} ELSE @,
                        !.rejected = IF answer = "none" THEN @ \cup {Current(r)} ELSE @])

(* No candles: the account is not touched. *)
StepNoData(r) ==
    /\ work[r].at = "stepping"
    /\ Proceed(r, [Make(work[r], Current(r)) EXCEPT !.rejected = @ \cup {Current(r)}])

StatusIn(row, a) ==
    IF a \in row.executed THEN "executed" ELSE IF a \in row.rejected THEN "rejected" ELSE "proposed"

Row(status) == [status |-> status, stored |-> status]

(* The run is completed: everything is committed at once. *)
Complete(r) ==
    LET row == work[r]
        Mine(id) == id[1] = r /\ id[2] \in row.made
    IN  /\ row.at = "deciding" /\ row.todo = {}
        /\ runs' = [runs EXCEPT ![r] = [status |-> "completed", selected |-> row.selected,
                                        made |-> Cardinality(row.made),
                                        executed |-> Cardinality(row.executed),
                                        rejected |-> Cardinality(row.rejected)]]
        /\ recs' = [id \in RecIds |-> IF Mine(id) THEN Row(StatusIn(row, id[2])) ELSE recs[id]]
        /\ orders' = [id \in RecIds |-> IF Mine(id) /\ id[2] \in row.filled THEN 1 ELSE orders[id]]
        /\ work' = [work EXCEPT ![r] = [Over EXCEPT !.failed = row.failed]]
        /\ UNCHANGED <<click>>

(* Mutant: the session of a dead request stays open. *)
Dropped_Open(row) == [row EXCEPT !.at = "over"]

Dropped(row) == Over

(* An exception, or the death of the process: everything is rolled back. *)
Die(r) ==
    /\ work[r].at \in {"deciding", "stepping"}
    /\ work' = [work EXCEPT ![r] = Dropped(@)]
    /\ UNCHANGED <<runs, click, recs, orders>>
-----------------------------------------------------------------------------
(* Other requests. *)

(* POST /recommendations/{id}/execute-paper: the status is not looked at. *)
Execute(c) ==
    /\ click[c].at = "idle"
    /\ \E id \in RecIds :
          /\ recs[id].status # "absent"
          /\ click' = [click EXCEPT ![c] = [at |-> "checking", rec |-> id, new |-> FALSE]]
    /\ UNCHANGED <<runs, work, recs, orders>>

(* POST /recommendations *)
Add(c) ==
    /\ click[c].at = "idle"
    /\ \E m \in Manual :
          /\ recs[<<m, 0>>].status = "absent"
          /\ \A d \in Clicks : click[d].rec # <<m, 0>>
          /\ \/ recs' = [recs EXCEPT ![<<m, 0>>] = Row("proposed")] /\ UNCHANGED click
             \/ /\ click' = [click EXCEPT ![c] = [at |-> "checking", rec |-> <<m, 0>>, new |-> TRUE]]
                /\ UNCHANGED recs
    /\ UNCHANGED <<runs, work, orders>>

(* A status that equals the one loaded is not written; which answer of two *)
(* overlapping ones stays is of no matter here: stored is what was first.  *)
WithStatus(c, status) ==
    IF click[c].new THEN Row(status) ELSE [recs[click[c].rec] EXCEPT !.status = status]

(* The request commits, and is done. *)
Answer(c, status) ==
    /\ recs' = [recs EXCEPT ![click[c].rec] = WithStatus(c, status)]
    /\ click' = [click EXCEPT ![c] = NoClick]
    /\ UNCHANGED <<runs, work>>

ClickAttempt(c) ==
    /\ click[c].at = "checking" /\ Allowed(Trades)
    /\ click' = [click EXCEPT ![c].at = "stepping"]
    /\ UNCHANGED <<runs, work, recs, orders>>

ClickBlock(c) ==
    /\ click[c].at = "checking"
    /\ Answer(c, "rejected") /\ UNCHANGED orders

ClickStep(c) ==
    /\ click[c].at = "stepping" /\ Holders = {}
    /\ \E answer \in Answers :
          /\ Answer(c, IF answer = "none" THEN "rejected" ELSE "executed")
          /\ orders' = [orders EXCEPT ![click[c].rec] = IF answer = "filled" THEN @ + 1 ELSE @]

(* POST /runs/{id}/cancel: one that has ended is left as it is; a run that *)
(* is not seen is not found.                                               *)
Cancel(r) ==
    /\ runs[r].status # "absent"
    /\ runs' = IF runs[r].status = "running" THEN [runs EXCEPT ![r].status = "cancelled"] ELSE runs
    /\ UNCHANGED <<work, click, recs, orders>>
-----------------------------------------------------------------------------
Init ==
    /\ runs = [r \in Runs |-> NoRun] /\ work = [r \in Runs |-> Ready]
    /\ click = [c \in Clicks |-> NoClick]
    /\ recs = [id \in RecIds |-> NoRec] /\ orders = [id \in RecIds |-> 0]

RunStep(r) == \/ Skip(r) \/ Reject(r) \/ Decline(r) \/ Propose(r) \/ Attempt(r)
              \/ Step(r) \/ StepNoData(r) \/ Complete(r)

ClickGoesOn(c) == ClickAttempt(c) \/ ClickBlock(c) \/ ClickStep(c)

Next == \/ \E r \in Runs : Begin(r) \/ Refuse(r) \/ RunStep(r) \/ Die(r) \/ Cancel(r)
        \/ \E c \in Clicks : Execute(c) \/ Add(c) \/ ClickGoesOn(c)

(* A request that has begun goes on: the model has a timeout. *)
Spec == /\ Init /\ [][Next]_vars
        /\ \A r \in Runs : WF_vars(RunStep(r))
        /\ \A c \in Clicks : WF_vars(ClickGoesOn(c))
-----------------------------------------------------------------------------
Statuses == {"absent", "proposed", "executed", "rejected"}

(* Every variable has its type. *)
TypeOK ==
    /\ runs \in [Runs -> [status : {"absent", "failed", "completed", "running", "cancelled"},
                          selected : SUBSET Assets, made : Nat, executed : Nat, rejected : Nat]]
    /\ work \in [Runs -> [at : {"ready", "deciding", "stepping", "over"}, auto : BOOLEAN, holds : BOOLEAN,
                          todo : SUBSET Assets, selected : SUBSET Assets, failed : SUBSET Assets,
                          made : SUBSET Assets, executed : SUBSET Assets,
                          rejected : SUBSET Assets, filled : SUBSET Assets]]
    /\ click \in [Clicks -> [at : {"idle", "checking", "stepping"}, rec : RecIds \cup {<<>>}, new : BOOLEAN]]
    /\ recs \in [RecIds -> [status : Statuses, stored : Statuses]]
    /\ orders \in [RecIds -> Nat]

Left(r, status) == {a \in Assets : recs[<<r, a>>].stored = status}

(* A run is seen when it has ended, with all it did or with nothing, at    *)
(* whatever asset it failed or died and whoever asked to cancel it.  A     *)
(* completed run took a symbol from one exchange only; each selected asset *)
(* has its recommendation, unless the model gave none; and its summary     *)
(* counts the recommendations as they were left, orders included.          *)
RunsAreWhole ==
    \A r \in Runs :
        LET left == {a \in Assets : recs[<<r, a>>].status # "absent"}
        IN  /\ runs[r].status \in {"absent", "failed", "completed"}
            /\ runs[r].status # "completed" => left = {} /\ \A a \in Assets : orders[<<r, a>>] = 0
            /\ runs[r].status = "completed" =>
                  /\ left = runs[r].selected \ work[r].failed /\ runs[r].made = Cardinality(left)
                  /\ \A a, b \in runs[r].selected : SymbolOf[a] = SymbolOf[b] => a = b
                  /\ Cardinality(runs[r].selected) <= MaxSymbols
                  /\ runs[r].executed = Cardinality(Left(r, "executed"))
                  /\ runs[r].rejected = Cardinality(Left(r, "rejected"))

(* The limit of trades a day holds for runs and clicks together, however   *)
(* often a recommendation is executed again, but for one trade of each     *)
(* request that had passed the guardrails while another one filled.        *)
TradesNearAllowance == Trades <= MaxTrades + Cardinality(Runs \cup Clicks) - 1

(* A run that began ends, and a request that waits for the account behind  *)
(* a run with all its calls of the model gets its turn.                    *)
RequestsEnd ==
    /\ \A r \in Runs : work[r].at \in {"deciding", "stepping"} ~> work[r].at = "over"
    /\ \A c \in Clicks : click[c].at = "stepping" ~> click[c].at = "idle"
=============================================================================
