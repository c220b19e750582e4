------------------------------ MODULE CrewDesk ------------------------------
(***************************************************************************)
(* The autonomous paper-trading desk of one user: research cycles write    *)
(* standing theses, monitor ticks turn a crossed price into a paper order  *)
(* after a review by the trade model, and the API pauses, starts, edits    *)
(* and resets the desk while those tasks run.                              *)
(*                                                                         *)
(* A task is ONE database transaction.  What it read at its start it keeps *)
(* (the identity map of its SQLAlchemy session, READ COMMITTED, autoflush  *)
(* off): `view`, `cash` and the switches.  What it counts or searches it   *)
(* reads afresh.  A flushed row stays locked until the commit.  The review *)
(* is an LLM call of up to CREW_LLM_TIMEOUT_SECONDS made inside the        *)
(* transaction, so every other process can step during it.                 *)
(*                                                                         *)
(* Prices are not modelled: a step chooses whether its condition crossed.  *)
(***************************************************************************)
EXTENDS Integers, FiniteSets

CONSTANTS Workers,          (* Celery worker processes; one task each at a time *)
          Symbols,          (* tradable symbols of the primary exchange *)
          ThesisIds,        (* primary keys of research theses, in creation order *)
          RowIds,           (* primary keys of position rows *)
          Bankroll,         (* default_starting_bankroll *)
          Costs,            (* what a buy fill can take from the cash *)
          Proceeds,         (* what a sell fill can bring *)
          MaxOpenPositions, (* guardrail of the profile *)
          MaxTradesPerDay,  (* guardrail of the profile *)
          PatchStatuses,    (* statuses that PATCH /theses/{id} is used with *)
          PatchSwitches,    (* switch settings that PATCH /autonomy is used with *)
          Expiring,         (* bound: theses whose expires_at can pass *)
          MaxManualResets,  (* bound: POST /resets calls in a behaviour *)
          MaxFailures       (* bound: tasks lost or abandoned in a behaviour *)

Switches == [autonomous : BOOLEAN, research : BOOLEAN, monitor : BOOLEAN]
Live     == {"active", "entry_triggered"}
Statuses == Live \cup {"none", "closed", "expired", "superseded", "cancelled"}

ASSUME DeskAssumption ==
    /\ Workers # {} /\ IsFiniteSet(Workers)
    /\ Symbols # {}
    /\ ThesisIds \subseteq Nat
    /\ Bankroll \in Nat
    /\ Costs \subseteq Nat \ {0}
    /\ Proceeds \subseteq Nat
    /\ MaxOpenPositions \in Nat \ {0} /\ MaxTradesPerDay \in Nat \ {0}
    /\ PatchStatuses \subseteq Statuses \ {"none"}
    /\ PatchSwitches \subseteq Switches
    /\ Expiring \subseteq ThesisIds
    /\ MaxManualResets \in Nat /\ MaxFailures \in Nat

VARIABLES profile,    (* the three switches of the guardrail profile *)
          cash,       (* paper_accounts.cash_balance of the AI account *)
          positions,  (* paper_positions rows of the AI account *)
          theses,     (* agent_research_theses *)
          lapsed,     (* theses whose expires_at has passed *)
          session,    (* the open transaction of each worker *)
          reset,      (* the open transaction of POST /resets *)
          book        (* history: committed fills, their net cash since the last
                         reset, manual resets, failures, and whether a manual
                         reset overlapped another writer *)

vars == <<profile, cash, positions, theses, lapsed, session, reset, book>>

-----------------------------------------------------------------------------
Thesis   == [status : Statuses, symbol : Symbols]
Position == [id : RowIds, symbol : Symbols]
Blank    == [status |-> "none", symbol |-> CHOOSE s \in Symbols : TRUE]
Unread   == [t \in ThesisIds |-> Blank]

Session == [task   : {"idle", "monitor", "research"},
            step   : {"scan", "review", "fill"},
            todo   : SUBSET ThesisIds,       (* theses this tick still has to visit *)
            plan   : SUBSET Symbols,         (* assets this cycle still has to research *)
            lapsed : SUBSET ThesisIds,       (* expired as of the tick's `now` *)
            view   : [ThesisIds -> Thesis],  (* identity map *)
            held   : SUBSET ThesisIds,       (* thesis rows locked by a flush *)
            dirty  : SUBSET ThesisIds,       (* thesis rows whose new status is flushed *)
            cash   : Int,                    (* account.cash_balance as this task has it *)
            side   : {"buy", "sell"},
            lot    : SUBSET RowIds,          (* the position row the fill works on *)
            bought : SUBSET Position,        (* inserted position rows *)
            sold   : SUBSET RowIds,          (* deleted position rows *)
            flow   : Int,                    (* net cash of the flushed orders *)
            fills  : Nat]                    (* number of flushed orders *)

IdleSession == [task |-> "idle", step |-> "scan", todo |-> {}, plan |-> {}, lapsed |-> {},
                view |-> Unread, held |-> {}, dirty |-> {}, cash |-> 0, side |-> "buy",
                lot |-> {}, bought |-> {}, sold |-> {}, flow |-> 0, fills |-> 0]

IdleReset == [open |-> FALSE, rows |-> {}, cash |-> 0]

(* Mutant: an entered thesis is forgotten. *)
LiveIn_ActiveOnly(store) == {t \in ThesisIds : store[t].status = "active"}

LiveIn(store) == {t \in ThesisIds : store[t].status \in Live}

(* Row locks: a flushed UPDATE holds its row until the commit. *)
ThesisFree(w, t) == \A v \in Workers \ {w} : t \notin session[v].held
AccountFree(w)   == \A v \in Workers \ {w} : session[v].fills = 0

(* What a query of session s returns: the committed rows and its own. *)
VisibleRows(s) == {p \in positions \cup s.bought : p.id \notin s.sold}
VisibleTheses(s) == [t \in ThesisIds |-> IF t \in s.dirty THEN s.view[t] ELSE theses[t]]

(* Mutant: committed rows are not found (the exchange key is spelt otherwise). *)
RowsOf_OwnOnly(s, sym) == {p \in s.bought : p.id \notin s.sold /\ p.symbol = sym}

RowsOf(s, sym) == {p \in VisibleRows(s) : p.symbol = sym}

Head(s)    == CHOOSE t \in s.todo : \A u \in s.todo : t <= u
Advance(s) == [s EXCEPT !.todo = @ \ {Head(s)}, !.step = "scan", !.lot = {}, !.side = "buy"]
Lock(s, t) == [s EXCEPT !.held = @ \cup {t}]
Write(s, t, th) == [s EXCEPT !.view[t] = th, !.held = @ \cup {t}, !.dirty = @ \cup {t}]
Become(w, s)    == session' = [session EXCEPT ![w] = s]

UsedRows == {p.id : p \in positions} \cup reset.rows
              \cup UNION {{p.id : p \in session[w].bought} : w \in Workers}
UnusedThesis(t) == /\ theses[t].status = "none"
                   /\ \A w \in Workers : t \notin session[w].dirty
-----------------------------------------------------------------------------
(* The monitor tick: monitor_price_triggers. *)

(* Both switches are read once; with either one off the tick only traces.  *)
StartTick(w) ==
    /\ session[w].task = "idle"
    /\ profile.monitor /\ profile.autonomous
    /\ Become(w, [IdleSession EXCEPT
                    !.task = "monitor", !.todo = LiveIn(theses), !.cash = cash,
                    !.lapsed = LiveIn(theses) \cap lapsed,
                    !.view = [t \in ThesisIds |-> IF t \in LiveIn(theses) THEN theses[t] ELSE Blank]])
    /\ UNCHANGED <<profile, cash, positions, theses, lapsed, reset, book>>

(* Worker w stands at the next thesis of its tick. *)
AtThesis(w) == session[w].task = "monitor" /\ session[w].step = "scan" /\ session[w].todo # {}

ExpireThesis(w) ==
    LET s == session[w]  t == Head(s) IN
    /\ AtThesis(w) /\ t \in s.lapsed /\ ThesisFree(w, t)
    /\ Become(w, Advance(Write(s, t, [s.view[t] EXCEPT !.status = "expired"])))
    /\ UNCHANGED <<profile, cash, positions, theses, lapsed, reset, book>>

(* A new price is written to latest_observed_price and locks the row; an   *)
(* unchanged or missing one writes nothing.                                *)
Observed(w, t) == {session[w]} \cup (IF ThesisFree(w, t) THEN {Lock(session[w], t)} ELSE {})

(* No price, condition not crossed, or a guardrail refused. *)
SkipThesis(w) ==
    LET t == Head(session[w]) IN
    /\ AtThesis(w) /\ t \notin session[w].lapsed
    /\ \E s \in Observed(w, t) : Become(w, Advance(s))
    /\ UNCHANGED <<profile, cash, positions, theses, lapsed, reset, book>>

(* Mutants: the limits are reached one trade, or one position, too late.   *)
GuardrailsPass_ExtraTrade(s, side) ==
    /\ side = "buy" => Cardinality(VisibleRows(s)) < MaxOpenPositions
    /\ book.fills + s.fills <= MaxTradesPerDay
GuardrailsPass_ExtraPosition(s, side) ==
    /\ side = "buy" => Cardinality(VisibleRows(s)) <= MaxOpenPositions
    /\ book.fills + s.fills < MaxTradesPerDay

(* check_guardrails with the cached profile: the position and order counts *)
(* are fresh queries.  The guardrails on backtest, symbol and data age may *)
(* refuse at any time: SkipThesis.                                         *)
GuardrailsPass(s, side) ==
    /\ side = "buy" => Cardinality(VisibleRows(s)) < MaxOpenPositions
    /\ book.fills + s.fills < MaxTradesPerDay

(* An active thesis without a position enters; any position may exit. *)
SideFor(s, t) == IF s.view[t].status = "active" /\ RowsOf(s, s.view[t].symbol) = {}
                 THEN "buy" ELSE "sell"

RequestReview(w) ==
    LET t == Head(session[w])  side == SideFor(session[w], t) IN
    /\ AtThesis(w) /\ t \notin session[w].lapsed
    /\ side = "sell" => RowsOf(session[w], session[w].view[t].symbol) # {}
    /\ GuardrailsPass(session[w], side)
    /\ \E s \in Observed(w, t) : Become(w, [s EXCEPT !.step = "review", !.side = side])
    /\ UNCHANGED <<profile, cash, positions, theses, lapsed, reset, book>>

(* The trade model rejects, times out or answers with something invalid. *)
DeclineTrade(w) ==
    /\ session[w].step = "review"
    /\ Become(w, Advance(session[w]))
    /\ UNCHANGED <<profile, cash, positions, theses, lapsed, reset, book>>

(* The model approves; execute_price_trigger_order queries the positions. *)
ApproveTrade(w) ==
    LET s == session[w]  rows == RowsOf(s, s.view[Head(s)].symbol) IN
    /\ s.step = "review"
    /\ \E lot \in IF rows = {} THEN {{}} ELSE {{p.id} : p \in rows} :
          Become(w, [s EXCEPT !.step = "fill", !.lot = lot])
    /\ UNCHANGED <<profile, cash, positions, theses, lapsed, reset, book>>

(* insufficient_cash for a buy, no_position for a sell. *)
RejectFill(w) ==
    LET s == session[w] IN
    /\ s.step = "fill" /\ (s.side = "sell" => s.lot = {})
    /\ Become(w, Advance(s))
    /\ UNCHANGED <<profile, cash, positions, theses, lapsed, reset, book>>

(* The row of the lot is still there when the flush reaches it. *)
LotStored(s) == s.lot \subseteq {p.id : p \in VisibleRows(s)}
FillReady(w) == session[w].step = "fill" /\ AccountFree(w) /\ ThesisFree(w, Head(session[w]))

(* Mutant: the fill is sized by the equity alone. *)
Affordable_Uncapped(s) == Costs

Affordable(s) == {c \in Costs : c <= s.cash}

(* A fill is flushed: order, cash, position row, then the thesis status.   *)
Fill(s, amount, status) ==
    LET t == Head(s) IN
    [Write(s, t, [s.view[t] EXCEPT !.status = status]) EXCEPT
        !.cash = @ + amount, !.flow = @ + amount, !.fills = @ + 1]

(* A buy opens a row, or is averaged into the row found. *)
FillBuy(w) ==
    LET s == session[w]  sym == s.view[Head(s)].symbol IN
    /\ FillReady(w) /\ s.side = "buy" /\ LotStored(s)
    /\ \E c \in Affordable(s) :
       \E new \in IF s.lot # {} THEN {{}}
                  ELSE {{[id |-> r, symbol |-> sym]} : r \in RowIds \ UsedRows} :
          Become(w, Advance([Fill(s, -c, "entry_triggered") EXCEPT !.bought = @ \cup new]))
    /\ UNCHANGED <<profile, cash, positions, theses, lapsed, reset, book>>

(* A sell closes the whole row and deletes it. *)
FillSell(w) ==
    LET s == session[w] IN
    /\ FillReady(w) /\ s.side = "sell" /\ s.lot # {} /\ LotStored(s)
    /\ \E p \in Proceeds : Become(w, Advance([Fill(s, p, "closed") EXCEPT !.sold = @ \cup s.lot]))
    /\ UNCHANGED <<profile, cash, positions, theses, lapsed, reset, book>>

-----------------------------------------------------------------------------
(* How a task ends. *)

(* Only changed columns are written: the cash by a fill, a status by dirty. *)
CommitSession(w) ==
    LET s == session[w] IN
    /\ cash' = IF s.fills > 0 THEN s.cash ELSE cash
    /\ positions' = VisibleRows(s)
    /\ theses' = VisibleTheses(s)
    /\ Become(w, IdleSession)
    /\ UNCHANGED <<profile, lapsed, reset>>

FinishTick(w) ==
    /\ session[w].task = "monitor" /\ session[w].step = "scan" /\ session[w].todo = {}
    /\ CommitSession(w)
    /\ book' = [book EXCEPT !.fills = @ + session[w].fills, !.flow = @ + session[w].flow]

(* Mutant: the reset leaves the balance alone. *)
CashAfterReset_Kept(believed) == cash

(* Setting cash to the bankroll writes nothing when the session believes   *)
(* that it holds the bankroll already.                                     *)
CashAfterReset(believed) == IF believed = Bankroll THEN cash ELSE Bankroll

(* Mutants: the status is misspelt; entered theses are forgotten. *)
Cancelled_Misspelt(store) ==
    [t \in ThesisIds |-> IF store[t].status \in Live
                         THEN [store[t] EXCEPT !.status = "canceled"] ELSE store[t]]
Cancelled_ActiveOnly(store) ==
    [t \in ThesisIds |-> IF store[t].status = "active"
                         THEN [store[t] EXCEPT !.status = "cancelled"] ELSE store[t]]

Cancelled(store) ==
    [t \in ThesisIds |-> IF store[t].status \in Live
                         THEN [store[t] EXCEPT !.status = "cancelled"] ELSE store[t]]

(* maybe_reset_bankroll: the drawdown reached the limit.  A drawdown needs *)
(* a position or spent cash.                                               *)
FinishTickWithReset(w) ==
    LET s == session[w] IN
    /\ s.task = "monitor" /\ s.step = "scan" /\ s.todo = {}
    /\ s.cash # Bankroll \/ VisibleRows(s) # {}
    /\ AccountFree(w) /\ \A t \in LiveIn(VisibleTheses(s)) : ThesisFree(w, t)
    /\ cash' = IF s.fills > 0 THEN Bankroll ELSE CashAfterReset(s.cash)
    /\ positions' = {}
    /\ theses' = Cancelled(VisibleTheses(s))
    /\ book' = [book EXCEPT !.fills = @ + s.fills, !.flow = 0]
    /\ Become(w, IdleSession)
    /\ UNCHANGED <<profile, lapsed, reset>>

Failures == book.failures < MaxFailures

(* An exception inside the cycle is caught by the Celery task, which goes  *)
(* on and commits whatever the cycle had flushed.                          *)
AbandonTask(w) ==
    /\ Failures /\ session[w].task # "idle" /\ session[w].step = "scan"
    /\ CommitSession(w)
    /\ book' = [book EXCEPT !.fills = @ + session[w].fills, !.flow = @ + session[w].flow,
                            !.failures = @ + 1]

(* The worker dies or the database refuses a statement: all is rolled back. *)
LoseTask(w) ==
    /\ Failures /\ session[w].task # "idle"
    /\ Become(w, IdleSession)
    /\ book' = [book EXCEPT !.failures = @ + 1]
    /\ UNCHANGED <<profile, cash, positions, theses, lapsed, reset>>

(* The UPDATE of a row another transaction deleted matches nothing:        *)
(* SQLAlchemy raises StaleDataError and the session can only roll back.    *)
StaleFill(w) ==
    /\ FillReady(w) /\ ~LotStored(session[w])
    /\ Become(w, IdleSession)
    /\ UNCHANGED <<profile, cash, positions, theses, lapsed, reset, book>>

(* Worker w waits for a row that worker v has locked. *)
WaitsFor(w, v) ==
    LET s == session[w]  t == Head(s) IN
    /\ w # v /\ s.task = "monitor" /\ s.todo # {}
    /\ \/ s.step = "fill" /\ (session[v].fills > 0 \/ t \in session[v].held)
       \/ s.step = "scan" /\ t \in s.lapsed /\ t \in session[v].held

(* PostgreSQL breaks a deadlock by aborting one of the transactions. *)
AbortDeadlock(w) ==
    /\ \E v \in Workers : WaitsFor(w, v) /\ WaitsFor(v, w)
    /\ Become(w, IdleSession)
    /\ UNCHANGED <<profile, cash, positions, theses, lapsed, reset, book>>

-----------------------------------------------------------------------------
(* The research cycle: run_autonomous_research_cycle. *)

StartResearch(w) ==
    /\ session[w].task = "idle" /\ profile.research
    /\ \E plan \in SUBSET Symbols :
          Become(w, [IdleSession EXCEPT !.task = "research", !.plan = plan])
    /\ UNCHANGED <<profile, cash, positions, theses, lapsed, reset, book>>

(* No snapshot, no answer in time, not a buy, or no backtest. *)
RejectIdea(w) ==
    LET s == session[w] IN
    /\ \E sym \in s.plan : Become(w, [s EXCEPT !.plan = @ \ {sym}])
    /\ UNCHANGED <<profile, cash, positions, theses, lapsed, reset, book>>

(* Mutants: an entered thesis is no rival; an ended one is. *)
Rivals_ActiveOnly(s, sym) ==
    {t \in ThesisIds : VisibleTheses(s)[t] = [status |-> "active", symbol |-> sym]}
Rivals_Ended(s, sym) ==
    {t \in ThesisIds : VisibleTheses(s)[t].status # "none" /\ VisibleTheses(s)[t].symbol = sym}

(* The live theses of the symbol that _store_thesis finds. *)
Rivals(s, sym) == {t \in LiveIn(VisibleTheses(s)) : VisibleTheses(s)[t].symbol = sym}

(* _store_thesis: supersede the symbol's live theses, insert the new one.  *)
StoreThesis(w) ==
    LET s == session[w] IN
    /\ \E sym \in s.plan, new \in ThesisIds :
          /\ UnusedThesis(new)
          /\ \A t \in ThesisIds : UnusedThesis(t) => new <= t
          /\ \A t \in Rivals(s, sym) : ThesisFree(w, t)
          /\ LET changed == Rivals(s, sym) \cup {new} IN
             Become(w, [s EXCEPT
               !.plan = @ \ {sym},
               !.held = @ \cup changed, !.dirty = @ \cup changed,
               !.view = [t \in ThesisIds |->
                           IF t = new THEN [status |-> "active", symbol |-> sym]
                           ELSE IF t \in changed
                                THEN [VisibleTheses(s)[t] EXCEPT !.status = "superseded"]
                                ELSE @[t]]])
    /\ UNCHANGED <<profile, cash, positions, theses, lapsed, reset, book>>

FinishResearch(w) ==
    /\ session[w].task = "research" /\ session[w].plan = {}
    /\ CommitSession(w)
    /\ UNCHANGED book

-----------------------------------------------------------------------------
(* The API.  Each handler but the reset is one short transaction. *)

SwitchTo(p) ==
    /\ profile' = p
    /\ UNCHANGED <<cash, positions, theses, lapsed, session, reset, book>>

StartBot == SwitchTo([autonomous |-> TRUE, research |-> TRUE, monitor |-> TRUE])
PauseBot == SwitchTo([autonomous |-> FALSE, research |-> FALSE, monitor |-> FALSE])
UpdateAutonomy == \E p \in PatchSwitches : SwitchTo(p)

(* PATCH /theses/{id} sets status and expiry to whatever the user sends. *)
UpdateThesis(t) ==
    /\ theses[t].status # "none"
    /\ \A w \in Workers : t \notin session[w].held
    /\ \E st \in PatchStatuses \cup {theses[t].status} :
          theses' = [theses EXCEPT ![t].status = st]
    /\ \E late \in {{}, {t} \cap Expiring} : lapsed' = (lapsed \ {t}) \cup late
    /\ UNCHANGED <<profile, cash, positions, session, reset, book>>

(* POST /resets reads the account and the position rows ... *)
BeginReset ==
    /\ ~reset.open /\ book.resets < MaxManualResets
    /\ reset' = [open |-> TRUE, rows |-> {p.id : p \in positions}, cash |-> cash]
    /\ UNCHANGED <<profile, cash, positions, theses, lapsed, session, book>>

(* A writer stepped between the read and the commit of this reset, or has  *)
(* read what the reset is about to replace.                                *)
Overlapped == \/ \E w \in Workers : session[w].task = "monitor"
              \/ reset.rows # {p.id : p \in positions}
              \/ (reset.cash = Bankroll) # (cash = Bankroll)

(* ... and, once the locks are free, deletes the rows it read, cancels the *)
(* live theses and sets the cash.                                          *)
CommitReset ==
    /\ reset.open
    /\ \A w \in Workers : session[w].fills = 0
    /\ \A t \in LiveIn(theses), w \in Workers : t \notin session[w].held
    /\ cash' = CashAfterReset(reset.cash)
    /\ positions' = {p \in positions : p.id \notin reset.rows}
    /\ theses' = Cancelled(theses)
    /\ book' = [book EXCEPT !.flow = 0, !.resets = @ + 1, !.torn = Overlapped]
    /\ reset' = IdleReset
    /\ UNCHANGED <<profile, lapsed, session>>

(* The clock passes the expires_at of a thesis. *)
PassExpiry(t) ==
    /\ theses[t].status # "none" /\ t \in Expiring \ lapsed
    /\ lapsed' = lapsed \cup {t}
    /\ UNCHANGED <<profile, cash, positions, theses, session, reset, book>>

-----------------------------------------------------------------------------
Init ==
    /\ profile = [autonomous |-> FALSE, research |-> FALSE, monitor |-> FALSE]
    /\ cash = Bankroll
    /\ positions = {}
    /\ theses = Unread
    /\ lapsed = {}
    /\ session = [w \in Workers |-> IdleSession]
    /\ reset = IdleReset
    /\ book = [fills |-> 0, flow |-> 0, resets |-> 0, failures |-> 0, torn |-> FALSE]

(* The steps a running task takes on its own. *)
TaskStep(w) ==
    \/ ExpireThesis(w) \/ SkipThesis(w) \/ RequestReview(w)
    \/ DeclineTrade(w) \/ ApproveTrade(w)
    \/ RejectFill(w) \/ FillBuy(w) \/ FillSell(w) \/ StaleFill(w) \/ AbortDeadlock(w)
    \/ FinishTick(w) \/ FinishTickWithReset(w)
    \/ RejectIdea(w) \/ StoreThesis(w) \/ FinishResearch(w)

Task(w) == StartTick(w) \/ StartResearch(w) \/ TaskStep(w) \/ AbandonTask(w) \/ LoseTask(w)

Api == \/ StartBot \/ PauseBot \/ UpdateAutonomy \/ BeginReset \/ CommitReset
       \/ \E t \in ThesisIds : UpdateThesis(t)

Next == (\E w \in Workers : Task(w)) \/ Api \/ (\E t \in ThesisIds : PassExpiry(t))

Spec == Init /\ [][Next]_vars

(* A running task goes on: every LLM call ends, by its timeout at the      *)
(* latest, and PostgreSQL breaks deadlocks.  Beat queues ticks for ever    *)
(* and the queue is first in, first out, so a worker that keeps becoming   *)
(* idle keeps getting a tick.                                              *)
Fairness == \A w \in Workers : WF_vars(TaskStep(w)) /\ SF_vars(StartTick(w))

FairSpec == Spec /\ Fairness

-----------------------------------------------------------------------------
(* Properties. *)

(* Every variable has its type. *)
TypeOK ==
    /\ profile \in Switches
    /\ cash \in Int
    /\ positions \subseteq Position
    /\ theses \in [ThesisIds -> Thesis]
    /\ lapsed \subseteq ThesisIds
    /\ session \in [Workers -> Session]
    /\ reset \in [open : BOOLEAN, rows : SUBSET RowIds, cash : Int]
    /\ book \in [fills : Nat, flow : Int, resets : Nat, failures : Nat, torn : BOOLEAN]

(* However ticks and resets overlap, and whatever stale balance a tick     *)
(* writes back, the account never owes money: a buy is sized by the cash   *)
(* the transaction itself believes in.  (execute_price_trigger_order)      *)
CashNeverNegative == cash >= 0

(* max_trades_per_day counts committed orders and the tick's own, so a     *)
(* worker that passed the guardrails before another committed its fills    *)
(* can add one trade, and no more: with one worker the guardrail is exact. *)
TradesWithinAllowance == book.fills < MaxTradesPerDay + Cardinality(Workers)

(* A symbol has one open row per worker at most, although paper_positions  *)
(* has no unique constraint: with one worker, none is ever doubled.        *)
RowsPerSymbol ==
    \A sym \in Symbols :
       Cardinality({p \in positions : p.symbol = sym}) <= Cardinality(Workers)

(* max_open_positions, in the same sense: one position more for each       *)
(* further worker.                                                         *)
OpenWithinAllowance == Cardinality(positions) < MaxOpenPositions + Cardinality(Workers)

(* With one worker, the balance is the bankroll plus what the committed    *)
(* fills since the last reset took and brought, unless a manual reset      *)
(* overlapped a tick.                                                      *)
BookBalances == ~book.torn => cash = Bankroll + book.flow

(* With one worker, a symbol has one standing thesis at most, through      *)
(* every order of research, ticks, resets and lost tasks.                  *)
OneLiveThesis ==
    \A t, u \in LiveIn(theses) : theses[t].symbol = theses[u].symbol => t = u

(* With one worker, a thesis that counts as entered has its position: no   *)
(* crash, stale fill or reset leaves one waiting to exit nothing.          *)
EnteredHasPosition ==
    \A t \in ThesisIds : theses[t].status = "entry_triggered" =>
       \E p \in positions : p.symbol = theses[t].symbol

(* With one worker, a thesis that was superseded, closed or expired is     *)
(* never brought back or relabelled by a tick, a research cycle or a reset *)
(* with an older picture of it: only PATCH /theses/{id} changes it.        *)
EndedStaysEnded ==
    [][\A t \in ThesisIds : theses[t].status \in {"superseded", "closed", "expired"}
                            => \/ theses'[t] = theses[t]
                               \/ theses'[t].status \in PatchStatuses]_vars

(* While monitoring stays on, a live thesis past its expiry is retired,    *)
(* whatever the trade model answers and whichever tasks fail meanwhile.    *)
Monitoring == profile.monitor /\ profile.autonomous
Overdue(t) == theses[t].status \in Live /\ t \in lapsed
OverdueRetires == <>[]Monitoring => \A t \in ThesisIds : Overdue(t) ~> ~Overdue(t)

(* What the program says, and does not keep.                               *)

(* "thesis expired before execution": a thesis that expires never bought.  *)
(* (trigger_expired in monitor_price_triggers)                             *)
ExpiredNeverEntered ==
    [][\A t \in ThesisIds : theses'[t].status = "expired" /\ theses[t].status # "expired"
                            => theses[t].status # "entry_triggered"]_vars

(* "Autonomous research, trigger monitoring, and paper execution were      *)
(* paused": no order is committed while the desk is paused.                *)
(* (_pause_bot_profile)                                                    *)
PauseStopsOrders == [][book'.fills > book.fills => profile.autonomous]_vars

(* "restart with clean bankroll": after a reset the account holds the      *)
(* starting bankroll and no position.  (manualReset of the dashboard)      *)
ResetIsClean == [][book'.resets > book.resets => cash' = Bankroll /\ positions' = {}]_vars

=============================================================================
