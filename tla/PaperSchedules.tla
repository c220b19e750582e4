--------------------------- MODULE PaperSchedules ---------------------------
(***************************************************************************)
(* A paper account that is traded by schedules: the scheduler tick steps   *)
(* every due schedule in one transaction, and the API runs one schedule or *)
(* makes a manual step in a transaction of its own at any time.            *)
(*                                                                         *)
(* As everywhere, a session keeps the account and the schedules as it      *)
(* loaded them, queries rows afresh, does not autoflush, and writes        *)
(* absolute values.  A step flushes only when it fills an order; a row it  *)
(* deletes is found again by every query until the next flush.             *)
(*                                                                         *)
(* One account: those of other users meet it only as further schedules in  *)
(* the transaction of the tick.  Prices are not modelled.                  *)
(***************************************************************************)
EXTENDS Integers, FiniteSets

CONSTANTS Schedules,  (* paper_schedules that can be created *)
          Markets,    (* exchange and symbol *)
          MarketOf,   (* the market of each schedule *)
          Invalid,    (* schedules with an unknown strategy or timeframe *)
          WithData,   (* schedules whose market always has candles *)
          Manual,     (* schedules on whose market manual steps are made *)
          Limited,    (* schedules with a max_drawdown_pct *)
          Workers,    (* Celery worker processes *)
          Threads,    (* threads of the API that step or run *)
          RowIds,     (* primary keys of paper_positions, numbers *)
          Bankroll,   (* cash_balance the account was created with *)
          Costs,      (* what a buy can take from the cash *)
          Proceeds,   (* what a sell can bring *)
          MaxOrders,  (* bound: orders decided in a behaviour *)
          MaxLosses   (* bound: processes that die in a behaviour *)

Processes == Workers \cup Threads

ASSUME PaperAssumption ==
    /\ IsFiniteSet(Workers) /\ IsFiniteSet(Threads)
    /\ MarketOf \in [Schedules -> Markets]
    /\ Invalid \subseteq Schedules /\ Limited \subseteq Schedules
    /\ Manual \subseteq Schedules /\ WithData \subseteq Schedules /\ RowIds \subseteq Nat
    /\ Bankroll \in Nat /\ Costs \subseteq Nat \ {0} /\ Proceeds \subseteq Nat
    /\ MaxOrders \in Nat /\ MaxLosses \in Nat

VARIABLES schedule,  (* status of each schedule, and whether it ever ran *)
          cash,      (* cash_balance of the account *)
          rows,      (* paper_positions of the account *)
          session,   (* the open transaction of each process *)
          book       (* history: orders decided; committed net cash, buys less sells
                        per market, deaths, and whether a transaction that
                        filled had been overtaken by another *)

vars == <<schedule, cash, rows, session, book>>

Schedule == [status : {"none", "active", "paused"}, stamped : BOOLEAN]
Row      == [id : RowIds, market : Markets]

Session == [task    : {"idle", "tick", "run", "step"},
            todo    : SUBSET Schedules,
            order   : SUBSET Schedules,  (* its order waits for its flush, at most one *)
            lot     : SUBSET RowIds,     (* the position of that order, or none *)
            stamped : SUBSET Schedules,  (* last_run_at was set when the tick loaded them *)
            cash    : Int,               (* account.cash_balance in this session *)
            bought  : SUBSET Row,        (* inserted rows *)
            touched : SUBSET RowIds,     (* rows with a new last_price to be written *)
            doomed  : SUBSET RowIds,     (* deleted in the session, not yet flushed *)
            sold    : SUBSET RowIds,     (* deleted in the database *)
            ran     : SUBSET Schedules,  (* stepped with candles *)
            off     : SUBSET Schedules,  (* disabled by their drawdown limit *)
            flow    : Int,               (* net cash of the flushed orders *)
            fills   : Nat,               (* number of flushed orders *)
            net     : [Markets -> Int],  (* buys less sells *)
            overtaken : BOOLEAN]         (* history: another fill committed since *)

NoNet == [m \in Markets |-> 0]
Idle  == [task |-> "idle", todo |-> {}, order |-> {}, lot |-> {}, stamped |-> {}, cash |-> 0, bought |-> {},
          touched |-> {}, doomed |-> {}, sold |-> {}, ran |-> {}, off |-> {},
          flow |-> 0, fills |-> 0, net |-> NoNet, overtaken |-> FALSE]

Ids(set) == {r.id : r \in set}

(* The rows that a query of session x returns: those it only means to      *)
(* delete are among them.                                                  *)
VisibleRows(x) == {r \in rows \cup x.bought : r.id \notin x.sold}

(* Mutant: committed rows are not found (the symbol is spelt otherwise). *)
RowsOf_OwnOnly(x, m) == {r \in x.bought : r.id \notin x.sold /\ r.market = m}

RowsOf(x, m) == {r \in VisibleRows(x) : r.market = m}

UsedRows == Ids(rows) \cup UNION {Ids(session[p].bought) \cup session[p].touched \cup session[p].lot
                                  \cup session[p].doomed \cup session[p].sold : p \in Processes}

(* The sequence of the table gives the next key. *)
NextRow == {r \in RowIds \ UsedRows : \A q \in RowIds \ UsedRows : r <= q}

(* A flush writes the account first, and holds its row to the commit. *)
AccountFree(p) == \A q \in Processes \ {p} : session[q].fills = 0

(* A row that is to be updated was deleted by another transaction. *)
StaleRows(x) == ~(x.touched \subseteq Ids(VisibleRows(x)))

Become(p, x) == session' = [session EXCEPT ![p] = x]
Drop(p)      == Become(p, Idle) /\ UNCHANGED <<schedule, cash, rows, book>>
-----------------------------------------------------------------------------
(* The API of schedules: short transactions. *)

(* create_schedule checks neither the strategy nor the timeframe. *)
CreateSchedule(s) ==
    /\ schedule[s].status = "none"
    /\ schedule' = [schedule EXCEPT ![s].status = "active"]
    /\ UNCHANGED <<cash, rows, session, book>>

(* PATCH with is_active, the button of the dashboard. *)
ToggleSchedule(s) ==
    /\ schedule[s].status # "none"
    /\ schedule' = [schedule EXCEPT ![s].status = IF @ = "active" THEN "paused" ELSE "active"]
    /\ UNCHANGED <<cash, rows, session, book>>

-----------------------------------------------------------------------------
(* Three transactions step the account. *)

Active == {s \in Schedules : schedule[s].status = "active"}
Stamped == {s \in Schedules : schedule[s].stamped}

Open(p, task, todo, stamped) ==
    /\ session[p].task = "idle"
    /\ Become(p, [Idle EXCEPT !.task = task, !.todo = todo, !.stamped = stamped, !.cash = cash])
    /\ UNCHANGED <<schedule, cash, rows, book>>

(* Mutant: schedules that ran are loaded, new ones are not. *)
StartTick_Stamped(p) == Open(p, "tick", Active \cap Stamped, Active \cap Stamped)

(* tick_paper_schedules *)
StartTick(p) == Open(p, "tick", Active, Active \cap Stamped)

(* POST /schedules/{id}/run *)
StartRun(p, s) == s \in Active /\ Open(p, "run", {s}, {})

(* POST /accounts/{id}/step; of s only the market counts. *)
StartStep(p, s) == s \in Manual /\ Open(p, "step", {s}, {})

-----------------------------------------------------------------------------
(* execute_paper_step, for one schedule of the session. *)

(* _schedule_due subtracts the last_run_at of the database, which has no   *)
(* time zone, from a clock that has one: once it is set, it raises.        *)
Raises(x, s) == \/ s \in Invalid /\ x.task # "step"
                \/ s \in x.stamped /\ x.task = "tick"

(* Nothing catches an error: the transaction is rolled back. *)
RaiseError(p) ==
    /\ session[p].order = {}
    /\ \E s \in session[p].todo : Raises(session[p], s)
    /\ Drop(p)

At(p, s) == /\ s \in session[p].todo /\ session[p].order = {}
            /\ ~Raises(session[p], s)

(* "no_data": the tick goes on, the API answers 404. *)
NoCandles(p, s) ==
    /\ At(p, s) /\ s \notin WithData
    /\ IF session[p].task = "tick"
       THEN /\ Become(p, [session[p] EXCEPT !.todo = @ \ {s}])
            /\ UNCHANGED <<schedule, cash, rows, book>>
       ELSE Drop(p)

(* The position that the step works on: the first of the market, or none. *)
Lots(x, s) == LET found == RowsOf(x, MarketOf[s]) IN
              IF found = {} THEN {{}} ELSE {{r.id} : r \in found}

(* Its quantity is positive. *)
Holds(x, lot) == lot # {} /\ lot \cap x.doomed = {}

(* The step is done.  Its equity may have reached the drawdown limit of    *)
(* the schedule; that takes a position or spent cash.                      *)
Stepped(x, s) ==
    LET y == [x EXCEPT !.todo = @ \ {s}, !.ran = @ \cup {s}] IN
    {y} \cup IF s \in Limited /\ x.task # "step" /\ (x.cash # Bankroll \/ VisibleRows(x) # {})
             THEN {[y EXCEPT !.off = @ \cup {s}]} ELSE {}

(* No signal, one that does not fit the position, or a rejected fill: a    *)
(* new price is noted in the row.                                          *)
Hold(p, s) ==
    LET x == session[p] IN
    /\ At(p, s)
    /\ \E lot \in Lots(x, s) : \E touched \in {{}, lot \ x.doomed} :
          \E y \in Stepped([x EXCEPT !.touched = @ \cup touched], s) : Become(p, y)
    /\ UNCHANGED <<schedule, cash, rows, book>>

(* Mutant: the buy is sized by the equity alone. *)
Affordable_Uncapped(x) == Costs

Affordable(x) == {c \in Costs : c <= x.cash}

(* The signal fits the position: a sell if there is one, else a buy.       *)
Decide(p, s) ==
    LET x == session[p] IN
    /\ At(p, s) /\ book.orders < MaxOrders
    /\ \E lot \in Lots(x, s) :
          /\ Holds(x, lot) \/ Affordable(x) # {}
          /\ Become(p, [x EXCEPT !.order = {s}, !.lot = lot])
    /\ book' = [book EXCEPT !.orders = @ + 1]
    /\ UNCHANGED <<schedule, cash, rows>>

(* The flush of the order writes the rows of the steps before it as well.  *)
Flushed(x) == [x EXCEPT !.sold = @ \cup x.doomed, !.doomed = {}, !.touched = {},
                        !.order = {}, !.lot = {}]

Order(x, amount, m, sign) ==
    [Flushed(x) EXCEPT !.cash = x.cash + amount, !.flow = x.flow + amount,
                       !.fills = x.fills + 1, !.net = [x.net EXCEPT ![m] = @ + sign]]

CanFill(p, s) == /\ s \in session[p].order
                 /\ AccountFree(p) /\ ~StaleRows(session[p])

(* A buy inserts a row; or it sets the quantity of a row that an earlier   *)
(* step of the same tick sold and deleted, and the flush deletes that row. *)
Buy(p, s) ==
    LET x == session[p]  m == MarketOf[s] IN
    /\ CanFill(p, s) /\ ~Holds(x, x.lot)
    /\ \E c \in Affordable(x) :
       \E new \in IF x.lot # {} THEN {{}} ELSE {{[id |-> r, market |-> m]} : r \in NextRow} :
       \E y \in Stepped([Order(x, -c, m, 1) EXCEPT !.bought = @ \cup new], s) : Become(p, y)
    /\ UNCHANGED <<schedule, cash, rows, book>>

(* Mutant: the sold position is not deleted. *)
Sold_Kept(lot) == {}

Sold(lot) == lot

(* A sell closes the position; its row is deleted after the flush. *)
Sell(p, s) ==
    LET x == session[p] IN
    /\ CanFill(p, s) /\ Holds(x, x.lot)
    /\ \E amount \in Proceeds :
       \E y \in Stepped([Order(x, amount, MarketOf[s], -1) EXCEPT !.doomed = Sold(x.lot)], s) :
          Become(p, y)
    /\ UNCHANGED <<schedule, cash, rows, book>>

-----------------------------------------------------------------------------
(* The end of a transaction. *)

(* StaleDataError in a flush. *)
RaiseStale(p) ==
    /\ session[p].task # "idle" /\ StaleRows(session[p]) /\ AccountFree(p)
    /\ session[p].order # {} \/ session[p].todo = {}
    /\ Drop(p)

(* Mutant: the balance is not written. *)
CashWith_Kept(x) == cash

(* Unchanged columns are not written. *)
CashWith(x) == IF x.fills > 0 THEN x.cash ELSE cash

(* Mutant: the disabled schedule gets a status of its own. *)
RunStatus_Disabled(x, s) == IF s \in x.off THEN "disabled" ELSE schedule[s].status

(* is_active is written by the drawdown switch only. *)
RunStatus(x, s) == IF s \in x.off THEN "paused" ELSE schedule[s].status

Commit(p) ==
    LET x == session[p] IN
    /\ x.task # "idle" /\ x.todo = {} /\ ~StaleRows(x)
    /\ x.ran # {} => AccountFree(p)
    /\ cash' = CashWith(x)
    /\ rows' = {r \in VisibleRows(x) : r.id \notin x.doomed}
    /\ schedule' = [s \in Schedules |->
                      IF s \in x.ran /\ x.task # "step"
                      THEN [status |-> RunStatus(x, s), stamped |-> TRUE] ELSE schedule[s]]
    /\ session' = [q \in Processes |->
                     IF q = p THEN Idle
                     ELSE [session[q] EXCEPT !.overtaken = @ \/ (session[q].task # "idle" /\ x.fills > 0)]]
    /\ book' = [book EXCEPT !.flow = @ + x.flow,
                            !.net = [m \in Markets |-> @[m] + x.net[m]],
                            !.torn = @ \/ (x.overtaken /\ x.fills > 0)]

(* The process dies, or the time limit of the task ends it. *)
Die(p) ==
    /\ session[p].task # "idle" /\ book.losses < MaxLosses
    /\ Become(p, Idle)
    /\ book' = [book EXCEPT !.losses = @ + 1]
    /\ UNCHANGED <<schedule, cash, rows>>

-----------------------------------------------------------------------------
Init ==
    /\ schedule = [s \in Schedules |-> [status |-> "none", stamped |-> FALSE]]
    /\ cash = Bankroll
    /\ rows = {}
    /\ session = [p \in Processes |-> Idle]
    /\ book = [orders |-> 0, flow |-> 0, net |-> NoNet, losses |-> 0, torn |-> FALSE]

Step(p) == \E s \in Schedules : NoCandles(p, s) \/ Hold(p, s) \/ Decide(p, s) \/ Buy(p, s) \/ Sell(p, s)

TaskStep(p) == Step(p) \/ RaiseError(p) \/ RaiseStale(p) \/ Commit(p)

Api(p) == \E s \in Schedules : StartRun(p, s) \/ StartStep(p, s)

Next == \/ \E p \in Processes : TaskStep(p) \/ Die(p)
        \/ \E p \in Workers : StartTick(p)
        \/ \E p \in Threads : Api(p)
        \/ \E s \in Schedules : CreateSchedule(s) \/ ToggleSchedule(s)

Spec == Init /\ [][Next]_vars

(* A transaction that is open goes on, and beat sends ticks for ever. *)
Fairness == /\ \A p \in Processes : WF_vars(TaskStep(p))
            /\ \A p \in Workers : WF_vars(StartTick(p))

FairSpec == Spec /\ Fairness

-----------------------------------------------------------------------------
(* Properties. *)

(* Every variable has its type. *)
TypeOK ==
    /\ schedule \in [Schedules -> Schedule]
    /\ cash \in Int
    /\ rows \subseteq Row
    /\ session \in [Processes -> Session]
    /\ book \in [orders : Nat, flow : Int, net : [Markets -> Int], losses : Nat, torn : BOOLEAN]

(* However ticks, runs and manual steps overlap, and however many steps    *)
(* one tick makes on its own balance, the account never owes money.        *)
(* (compute_buy_fill, execute_paper_step)                                  *)
CashNeverNegative == cash >= 0

(* The balance is the bankroll plus what the committed orders took and     *)
(* brought, through failed ticks and dead processes, until a transaction   *)
(* fills an order on a balance that another has replaced.                  *)
CashMatchesOrders == ~book.torn => cash = Bankroll + book.flow

(* Until then, no position is there that no order paid for, and none is    *)
(* left that an order sold, whatever order a tick steps its schedules in.  *)
RowsArePaid ==
    ~book.torn => \A m \in Markets : Cardinality({r \in rows : r.market = m}) <= book.net[m]

(* paper_positions has no unique constraint.  The look-up before a buy     *)
(* leaves a market one row per process at most, through all overlaps.      *)
RowsPerProcess ==
    \A m \in Markets : Cardinality({r \in rows : r.market = m}) <= Cardinality(Processes)

(* A schedule that is due for its first run.                               *)
Waits(s) == s \in Active \ (Stamped \cup Invalid)

(* A schedule that makes every tick fail. *)
Blocked == Active \cap (Stamped \cup Invalid) # {}

(* As long as no schedule blocks the tick, a new one gets its first run,   *)
(* in spite of pauses, stale rows and dead workers.                        *)
WaitsOrBlocked == \A s \in WithData : Waits(s) ~> ~Waits(s) \/ Blocked

(* What the program says, and does not keep.                               *)

(* "optional paper-trading schedules", run at their interval: a schedule   *)
(* that is due runs in the end.  (_schedule_due, tick_paper_schedules)     *)
DueRuns == \A s \in WithData : Waits(s) ~> ~Waits(s)

(* "payload["position"]["quantity"] > 0" after a buy: what was bought and  *)
(* not sold is a position.  (execute_paper_step)                           *)
BuyKeepsRow ==
    ~book.torn => \A m \in Markets : book.net[m] <= Cardinality({r \in rows : r.market = m})

=============================================================================
