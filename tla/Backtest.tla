------------------------------ MODULE Backtest ------------------------------
(***************************************************************************)
(* A backtest, and a walk-forward evaluation, which is a backtest of       *)
(* several strategies on every test window of the data.  One thread of the *)
(* API computes it row by row.                                             *)
(*                                                                         *)
(* Money, quantities and prices are integers: the smallest amount of each. *)
(* Fees and slippage are fractions of Base, and a division rounds down     *)
(* where a float rounds somehow.  The oscillator of the rsi strategy is    *)
(* not modelled: its signal is any.                                        *)
(***************************************************************************)
EXTENDS Integers, Sequences, Functions

CONSTANTS Series,      (* the candle closes that a request can find, sequences *)
          Strategies,  (* main strategies that requests make, with their parameters *)
          Baselines,   (* names of the baselines that requests ask for, sequences *)
          Plans,       (* train_window, test_window and step_window of requests *)
          Short, Long, (* default windows of the averages of sma_cross *)
          InitialCash, MinTrade,
          Base, FeeRate, Slippage, PositionPct  (* fractions of Base *)

Names == {"sma_cross", "buy_hold", "rsi"}

(* A strategy and its parameters: the windows are of use to sma_cross. *)
Made == [name : Names, short : Nat \ {0}, long : Nat \ {0}]

(* What the constants are assumed to be. *)
BacktestAssumption ==
    /\ \A s \in Series : s \in Seq(Nat \ {0}) /\ s # <<>>
    /\ \A p \in Plans : p.train \in Nat /\ p.test \in Nat \ {0} /\ p.step \in Nat \ {0}
    /\ Strategies \subseteq Made /\ Baselines \subseteq Seq(Names)
    /\ Short \in Nat \ {0} /\ Long \in Nat \ {0}
    /\ InitialCash \in Nat /\ MinTrade \in Nat
    /\ Base \in Nat \ {0} /\ FeeRate \in Nat /\ PositionPct \in Nat
    /\ Slippage \in Nat /\ Slippage < Base

VARIABLES data,    (* the closes of the request in progress, none when idle *)
          plan,    (* its windows and its strategies, the main one first *)
          cursor,  (* the row before the training rows of the current window *)
          turn,    (* the strategy that runs now, counted in plan.strategies *)
          row,     (* rows of the window already passed *)
          engine,  (* local variables of run *)
          windows  (* results: one entry per window, one result per strategy *)

vars == <<data, plan, cursor, turn, row, engine, windows>>

Signals == {"buy", "sell", "hold"}
NoPlan  == [train |-> 0, test |-> 0, step |-> 0, strategies |-> <<>>]

(* pnl holds what the round trips brought, apart for those that won and    *)
(* those that lost.                                                        *)
Fresh == [cash |-> InitialCash, qty |-> 0, entryCost |-> 0,
          wins |-> 0, losses |-> 0, trades |-> 0, trips |-> 0]

(* Mutant: the next strategy starts with the cash that the last one left. *)
Restarted_Kept(e) == [e EXCEPT !.qty = 0, !.entryCost = 0, !.wins = 0, !.losses = 0,
                               !.trades = 0, !.trips = 0]

(* Each call of run starts anew, on the same engine object. *)
Restarted(e) == Fresh

FirstRow == cursor + plan.train + 1
LastRow  == cursor + plan.train + plan.test
Now      == FirstRow + row          (* the row to be passed next *)
Close    == data[Now]
Strategy == plan.strategies[turn]
Busy     == data # <<>>
-----------------------------------------------------------------------------
(* Signals. *)

(* The closes of the test window, which is all that a strategy is given.   *)
Slice == [i \in 1..plan.test |-> data[FirstRow + i - 1]]

(* A rolling sum of w closes of d up to row i.  The averages are compared  *)
(* crosswise, and are NaN until there are w rows.                          *)
Rolling(d, w, i) == SumFunctionOnSet(d, (i - w + 1)..i)
Fast(s, d, i)    == Rolling(d, s.short, i) * s.long
Slow(s, d, i)    == Rolling(d, s.long, i) * s.short
Warm(s, i)       == i >= s.long /\ i >= s.short

Crossing(s, d, i) ==
    IF ~Warm(s, i - 1) THEN "hold"
    ELSE IF Fast(s, d, i - 1) <= Slow(s, d, i - 1) /\ Fast(s, d, i) > Slow(s, d, i) THEN "buy"
    ELSE IF Fast(s, d, i - 1) >= Slow(s, d, i - 1) /\ Fast(s, d, i) < Slow(s, d, i) THEN "sell"
    ELSE "hold"

(* The signals that strategy s may give at row i of d. *)
SignalsOf(s, d, i) ==
    CASE s.name = "buy_hold"  -> {IF i = 1 THEN "buy" ELSE "hold"}
      [] s.name = "sma_cross" -> {Crossing(s, d, i)}
      [] s.name = "rsi"       -> Signals
-----------------------------------------------------------------------------
(* Fills. *)

Fee(notional) == (notional * FeeRate) \div Base
BuyPrice(p)   == (p * (Base + Slippage)) \div Base
SellPrice(p)  == (p * (Base - Slippage)) \div Base
Equity(e, p)  == e.cash + e.qty * p
Lower(a, b)   == IF a <= b THEN a ELSE b
Target(e, p)  == Lower(e.cash, (Equity(e, p) * PositionPct) \div Base)
CostOf(q, f)  == q * f + Fee(q * f)

(* Mutant: the fee is left out of what the cash must cover. *)
QuantityBought_NoFee(e, p) ==
    LET f == BuyPrice(p)
    IN  Target(e, p) \div f

(* The quantity for the target, or what the cash can pay with the fee. *)
QuantityBought(e, p) ==
    LET f == BuyPrice(p)
        q == Target(e, p) \div f
    IN  IF CostOf(q, f) > e.cash THEN (e.cash * Base) \div (f * (Base + FeeRate)) ELSE q

CanBuy(e, p)  == /\ e.cash > 0 /\ Target(e, p) >= MinTrade /\ BuyPrice(p) > 0
                 /\ QuantityBought(e, p) > 0
CanSell(e, p) == SellPrice(p) > 0

Bought(e, p) ==
    LET q    == QuantityBought(e, p)
        cost == CostOf(q, BuyPrice(p))
    IN  [e EXCEPT !.cash = @ - cost, !.qty = q, !.entryCost = cost, !.trades = @ + 1]

Sold(e, p) ==
    LET net == e.qty * SellPrice(p) - Fee(e.qty * SellPrice(p))
        pnl == net - e.entryCost
    IN  [e EXCEPT !.cash = @ + net, !.qty = 0, !.entryCost = 0, !.trades = @ + 1, !.trips = @ + 1,
                  !.wins = @ + (IF pnl > 0 THEN pnl ELSE 0),
                  !.losses = @ + (IF pnl > 0 THEN 0 ELSE pnl)]
-----------------------------------------------------------------------------
(* The loop over the rows. *)

InRows == Busy /\ turn <= Len(plan.strategies) /\ Now <= LastRow

Pass(e) ==
    /\ engine' = e /\ row' = row + 1
    /\ UNCHANGED <<data, plan, cursor, turn, windows>>

BuyRow  == /\ InRows /\ "buy" \in SignalsOf(Strategy, Slice, row + 1)
           /\ engine.qty = 0 /\ CanBuy(engine, Close)
           /\ Pass(Bought(engine, Close))

SellRow == /\ InRows /\ "sell" \in SignalsOf(Strategy, Slice, row + 1)
           /\ engine.qty > 0 /\ CanSell(engine, Close)
           /\ Pass(Sold(engine, Close))

(* A row without a signal, or whose signal finds nothing to do. *)
HoldRow ==
    /\ InRows
    /\ \E s \in SignalsOf(Strategy, Slice, row + 1) :
          /\ ~(s = "buy" /\ engine.qty = 0 /\ CanBuy(engine, Close))
          /\ ~(s = "sell" /\ engine.qty > 0 /\ CanSell(engine, Close))
    /\ Pass(engine)

(* _compute_metrics *)
Result == [strategy |-> Strategy, trades |-> engine.trades, trips |-> engine.trips,
           wins |-> engine.wins, losses |-> engine.losses, flat |-> engine.qty = 0,
           ending |-> Equity(engine, data[LastRow])]

FinishRun ==
    /\ Busy /\ turn <= Len(plan.strategies) /\ Now > LastRow
    /\ windows' = [windows EXCEPT ![Len(windows)].results = Append(@, Result)]
    /\ turn' = turn + 1 /\ row' = 0 /\ engine' = Restarted(engine)
    /\ UNCHANGED <<data, plan, cursor>>

Window(c, p) == [first |-> c + p.train + 1, last |-> c + p.train + p.test, results |-> <<>>]

Fits(c, p, d) == c + p.train + p.test <= Len(d)

NextWindow ==
    /\ Busy /\ turn > Len(plan.strategies)
    /\ Fits(cursor + plan.step, plan, data)
    /\ cursor' = cursor + plan.step /\ turn' = 1
    /\ windows' = Append(windows, Window(cursor + plan.step, plan))
    /\ UNCHANGED <<data, plan, row, engine>>

(* The response; the next request begins with nothing of this one. *)
Respond ==
    /\ Busy /\ turn > Len(plan.strategies)
    /\ ~Fits(cursor + plan.step, plan, data)
    /\ data' = <<>> /\ plan' = NoPlan /\ cursor' = 0 /\ turn' = 1 /\ windows' = <<>>
    /\ UNCHANGED <<row, engine>>
-----------------------------------------------------------------------------
(* Requests. *)

Begin(d, p) ==
    /\ data' = d /\ plan' = p /\ windows' = <<Window(0, p)>>
    /\ UNCHANGED <<cursor, turn, row, engine>>

(* POST /backtests/ *)
StartBacktest ==
    ~Busy /\ \E d \in Series, s \in Strategies :
        Begin(d, [train |-> 0, test |-> Len(d), step |-> Len(d), strategies |-> <<s>>])

(* A baseline is made with no parameters; two of them when none is asked   *)
(* for.                                                                    *)
Default(name) == [name |-> name, short |-> Short, long |-> Long]
BaselinesOf(asked) ==
    LET names == IF asked = <<>> THEN <<"buy_hold", "sma_cross">> ELSE asked
    IN  [i \in DOMAIN names |-> Default(names[i])]

(* POST /backtests/walk-forward: the main strategy has the parameters of   *)
(* the request, its baselines have not.                                    *)
StartWalk ==
    ~Busy /\ \E d \in Series, s \in Strategies, p \in Plans, asked \in Baselines :
        /\ p.train > 0 /\ Fits(0, p, d)
        /\ Begin(d, [train |-> p.train, test |-> p.test, step |-> p.step,
                     strategies |-> <<s>> \o BaselinesOf(asked)])

Init ==
    /\ data = <<>> /\ plan = NoPlan /\ cursor = 0 /\ turn = 1 /\ row = 0
    /\ engine = Fresh /\ windows = <<>>

Next == \/ StartBacktest \/ StartWalk
        \/ BuyRow \/ SellRow \/ HoldRow
        \/ FinishRun \/ NextWindow \/ Respond

Spec == Init /\ [][Next]_vars
-----------------------------------------------------------------------------

Engine == [cash : Int, qty : Nat, entryCost : Nat, wins : Nat, losses : Int,
           trades : Nat, trips : Nat]
Outcome == [strategy : Made, trades : Nat, trips : Nat,
            wins : Nat, losses : Int, flat : BOOLEAN, ending : Int]

(* Every variable has its type. *)
TypeOK ==
    /\ data \in Series \cup {<<>>}
    /\ plan \in [train : Nat, test : Nat, step : Nat, strategies : Seq(Made)]
    /\ cursor \in Nat /\ turn \in Nat \ {0} /\ row \in Nat
    /\ engine \in Engine
    /\ windows \in Seq([first : Nat, last : Nat, results : Seq(Outcome)])

(* At every row the cash is not negative and is what the run began with    *)
(* plus the round trips less the cost of the open one, through the two     *)
(* branches of compute_buy_fill and the two of the metrics; and a result   *)
(* of a run that ended flat adds up in the same way.                       *)
BooksClose ==
    /\ engine.cash >= 0
    /\ engine.cash = InitialCash + engine.wins + engine.losses - engine.entryCost
    /\ engine.trades = 2 * engine.trips + (IF engine.qty > 0 THEN 1 ELSE 0)
    /\ \A k \in DOMAIN windows : \A n \in DOMAIN windows[k].results :
          LET r == windows[k].results[n]
          IN  r.flat => r.ending = InitialCash + r.wins + r.losses

Closes(w) == [i \in 1..plan.test |-> data[w.first + i - 1]]

(* A result depends on its strategy, with the parameters it was made with, *)
(* and on the closes of its own test window alone: neither on the training *)
(* rows, nor on an earlier run of the same engine object, nor on the       *)
(* window before.  So a main strategy with the default parameters and the  *)
(* baseline of its name report the same, and one with others need not.     *)
(* (The rsi signals are a choice, so not for rsi.)                         *)
WindowsIsolated ==
    \A j, k \in DOMAIN windows :
        Closes(windows[j]) = Closes(windows[k]) =>
            \A m \in DOMAIN windows[j].results, n \in DOMAIN windows[k].results :
                /\ windows[j].results[m].strategy = windows[k].results[n].strategy
                /\ windows[j].results[m].strategy.name # "rsi"
                => windows[j].results[m] = windows[k].results[n]
=============================================================================
