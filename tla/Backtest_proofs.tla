--------------------------- MODULE Backtest_proofs ---------------------------
(* Proofs about Backtest for every series of closes, every plan of windows *)
(* and every fee, slippage and size of a position: a run's cash follows    *)
(* from its round trips and never falls below zero, and a result depends   *)
(* on the closes of its own window alone.                                  *)
EXTENDS Backtest, SequenceTheorems, WellFoundedInduction, TLAPS

-----------------------------------------------------------------------------
(* Fills.  The only arithmetic that is not linear is here. *)

LEMMA Division ==
    ASSUME NEW a \in Nat, NEW b \in Nat \ {0}
    PROVE  a \div b \in Nat /\ b * (a \div b) <= a
  BY SMT

LEMMA Product == ASSUME NEW a \in Nat, NEW b \in Nat PROVE a * b \in Nat
  BY SMT

(* The factor of a product that is not larger is not larger. *)
LEMMA Cancel ==
    ASSUME NEW a \in Int, NEW b \in Int, NEW c \in Nat \ {0}, c * a <= c * b
    PROVE  a <= b
  BY SMT

LEMMA FeeIsNat == ASSUME BacktestAssumption, NEW n \in Nat PROVE Fee(n) \in Nat
  <1>1. FeeRate \in Nat /\ Base \in Nat \ {0}
    BY DEF BacktestAssumption
  <1>2. n * FeeRate \in Nat
    BY <1>1, Product
  <1> QED BY <1>1, <1>2, Division DEF Fee

LEMMA PricesAreNat ==
    ASSUME BacktestAssumption, NEW p \in Nat
    PROVE  BuyPrice(p) \in Nat /\ SellPrice(p) \in Nat
  <1>1. Base \in Nat \ {0} /\ Base + Slippage \in Nat /\ Base - Slippage \in Nat
    BY DEF BacktestAssumption
  <1>2. p * (Base + Slippage) \in Nat /\ p * (Base - Slippage) \in Nat
    BY <1>1, Product
  <1> QED BY <1>1, <1>2, Division DEF BuyPrice, SellPrice

LEMMA EquityIsInt ==
    ASSUME NEW e \in Engine, NEW p \in Nat
    PROVE  Equity(e, p) \in Int /\ (e.cash >= 0 => Equity(e, p) \in Nat)
  <1>1. e.cash \in Int /\ e.qty \in Nat
    BY DEF Engine
  <1>2. e.qty * p \in Nat
    BY <1>1, Product
  <1> QED BY <1>1, <1>2 DEF Equity

(* With what the cash can pay bought at price f, fee included, some is left *)
(* or none. *)
LEMMA Payable ==
    ASSUME BacktestAssumption, NEW cash \in Nat, NEW f \in Nat \ {0}
    PROVE  LET q == (cash * Base) \div (f * (Base + FeeRate))
           IN  q \in Nat /\ CostOf(q, f) <= cash
  <1> DEFINE d == f * (Base + FeeRate)
             q == (cash * Base) \div d
             n == q * f
  <1>1. FeeRate \in Nat /\ Base \in Nat \ {0}
    BY DEF BacktestAssumption
  <1>2. d \in Nat \ {0}
    BY <1>1, SMT
  <1>3. q \in Nat /\ d * q <= cash * Base
    BY <1>1, <1>2, Division, Product
  <1>4. n \in Nat
    BY <1>3, Product
  <1>5. d * q = n * Base + n * FeeRate
    BY <1>1, <1>3, SMT
  <1>6. n * FeeRate \in Nat
    BY <1>1, <1>4, Product
  <1>7. Fee(n) \in Nat /\ Base * Fee(n) <= n * FeeRate
    BY <1>1, <1>6, Division DEF Fee
  <1>8. Base * (n + Fee(n)) = n * Base + Base * Fee(n)
    BY <1>1, <1>4, <1>7, SMT
  <1>9. Base * (n + Fee(n)) <= Base * cash
    <2>1. n * Base \in Int /\ Base * Fee(n) \in Int /\ cash * Base = Base * cash /\ Base * cash \in Int
      BY <1>1, <1>4, <1>7, SMT
    <2> HIDE DEF n, q, d
    <2> QED BY <2>1, <1>3, <1>5, <1>6, <1>7, <1>8
  <1>10. n + Fee(n) <= cash
    <2> HIDE DEF n, q, d
    <2> QED BY <1>1, <1>4, <1>7, <1>9, Cancel
  <1> QED BY <1>3, <1>10 DEF CostOf

(* A buy fills a quantity that the cash pays, by either branch. *)
LEMMA BuyIsPayable ==
    ASSUME BacktestAssumption, NEW e \in Engine, NEW p \in Nat, CanBuy(e, p)
    PROVE  /\ QuantityBought(e, p) \in Nat \ {0}
           /\ CostOf(QuantityBought(e, p), BuyPrice(p)) \in Nat
           /\ CostOf(QuantityBought(e, p), BuyPrice(p)) <= e.cash
  <1> DEFINE f == BuyPrice(p)
             t == Target(e, p)
             q == t \div f
  <1>1. /\ Base \in Nat \ {0} /\ PositionPct \in Nat /\ MinTrade \in Nat
        /\ e.cash \in Nat /\ t >= MinTrade /\ f \in Nat \ {0}
    <2>1. Base \in Nat \ {0} /\ PositionPct \in Nat /\ MinTrade \in Nat
      BY DEF BacktestAssumption
    <2>2. e.cash \in Nat
      BY DEF CanBuy, Engine
    <2>3. t >= MinTrade /\ f > 0
      BY DEF CanBuy
    <2>4. f \in Nat
      BY PricesAreNat
    <2> HIDE DEF f, t
    <2> QED BY <2>1, <2>2, <2>3, <2>4
  <1>2. Equity(e, p) * PositionPct \in Nat
    BY <1>1, EquityIsInt, Product
  <1>3. t \in Nat
    BY <1>1, <1>2, Division DEF Target, Lower
  <1>4. q \in Nat
    BY <1>1, <1>3, Division
  <1>5. ASSUME NEW n \in Nat PROVE CostOf(n, f) \in Nat
    <2>1. n * f \in Nat
      BY <1>1, Product
    <2> QED BY <2>1, FeeIsNat DEF CostOf
  <1>6. CASE CostOf(q, f) > e.cash
    <2>1. QuantityBought(e, p) = (e.cash * Base) \div (f * (Base + FeeRate))
      BY <1>6 DEF QuantityBought
    <2>2. QuantityBought(e, p) \in Nat /\ CostOf(QuantityBought(e, p), f) <= e.cash
      BY <1>1, <2>1, Payable
    <2> QED BY <1>5, <2>2 DEF CanBuy
  <1>7. CASE ~(CostOf(q, f) > e.cash)
    <2>1. QuantityBought(e, p) = q
      BY <1>7 DEF QuantityBought
    <2> QED BY <1>1, <1>4, <1>5, <1>7, <2>1 DEF CanBuy
  <1> QED BY <1>6, <1>7

-----------------------------------------------------------------------------
(* The engine: what a run holds at every row. *)

(* The cash of a run is what its round trips left, less what the open one  *)
(* cost; without a position nothing is open.                               *)
Kept(e) ==
    /\ e \in Engine
    /\ e.cash = InitialCash + e.wins + e.losses - e.entryCost
    /\ e.trades = 2 * e.trips + (IF e.qty > 0 THEN 1 ELSE 0)
    /\ e.qty = 0 => e.entryCost = 0

LEMMA FreshIsKept == BacktestAssumption => Kept(Fresh)
  BY DEF BacktestAssumption, Kept, Fresh, Engine

LEMMA BoughtIsKept ==
    ASSUME BacktestAssumption, NEW e, Kept(e), NEW p \in Nat, e.qty = 0, CanBuy(e, p)
    PROVE  Kept(Bought(e, p)) /\ Bought(e, p).cash >= 0
  <1> DEFINE q == QuantityBought(e, p)
             cost == CostOf(q, BuyPrice(p))
  <1>1. e \in Engine /\ InitialCash \in Nat
    BY DEF Kept, BacktestAssumption
  <1>2. q \in Nat \ {0} /\ cost \in Nat /\ cost <= e.cash
    BY <1>1, BuyIsPayable
  <1>3. Bought(e, p) = [e EXCEPT !.cash = @ - cost, !.qty = q, !.entryCost = cost, !.trades = @ + 1]
    BY DEF Bought
  <1> HIDE DEF q, cost
  <1> DEFINE b == Bought(e, p)
  <1>4. /\ b.cash = e.cash - cost /\ b.qty = q /\ b.entryCost = cost /\ b.trades = e.trades + 1
        /\ b.wins = e.wins /\ b.losses = e.losses /\ b.trips = e.trips
    BY <1>1, <1>3 DEF Engine
  <1>5. b \in Engine
    <2>1. b = [cash |-> e.cash - cost, qty |-> q, entryCost |-> cost, wins |-> e.wins, losses |-> e.losses,
               trades |-> e.trades + 1, trips |-> e.trips]
      BY <1>1, <1>3 DEF Engine
    <2>2. /\ e.cash - cost \in Int /\ q \in Nat /\ cost \in Nat /\ e.wins \in Nat /\ e.losses \in Int
          /\ e.trades + 1 \in Nat /\ e.trips \in Nat
      BY <1>1, <1>2 DEF Engine
    <2> HIDE DEF b
    <2> QED BY <2>1, <2>2 DEF Engine
  <1>6. /\ e.cash \in Int /\ e.wins \in Int /\ e.losses \in Int /\ e.trades \in Int /\ e.trips \in Int
        /\ e.entryCost = 0 /\ e.trades = 2 * e.trips
        /\ e.cash = InitialCash + e.wins + e.losses - e.entryCost
    BY <1>1 DEF Kept, Engine
  <1> HIDE DEF b
  <1>7. Kept(b) /\ b.cash >= 0
    BY <1>1, <1>2, <1>4, <1>5, <1>6 DEF Kept
  <1> QED BY <1>7 DEF b

(* A fee is a part of what it is charged on. *)
LEMMA FeeIsPart ==
    ASSUME BacktestAssumption, FeeRate <= Base, NEW n \in Nat
    PROVE  Fee(n) \in Nat /\ Fee(n) <= n
  <1>1. FeeRate \in Nat /\ Base \in Nat \ {0}
    BY DEF BacktestAssumption
  <1>2. n * FeeRate \in Nat /\ n * FeeRate <= Base * n
    BY <1>1, Product, SMT
  <1>3. Fee(n) \in Nat /\ Base * Fee(n) <= n * FeeRate
    BY <1>1, <1>2, Division DEF Fee
  <1>4. Base * Fee(n) <= Base * n
    <2>1. Base * Fee(n) \in Int /\ Base * n \in Int
      BY <1>1, <1>3, SMT
    <2> QED BY <1>2, <1>3, <2>1
  <1> QED BY <1>1, <1>3, <1>4, Cancel

LEMMA AfterSale ==
    ASSUME NEW cash \in Int, NEW start \in Int, NEW wins \in Int, NEW losses \in Int, NEW entry \in Int,
           NEW net \in Int, NEW won \in Int, NEW lost \in Int,
           cash = start + wins + losses - entry, won + lost = net - entry
    PROVE  cash + net = start + (wins + won) + (losses + lost) - 0
  OBVIOUS

LEMMA SoldIsKept ==
    ASSUME BacktestAssumption, NEW e, Kept(e), NEW p \in Nat, e.qty > 0
    PROVE  Kept(Sold(e, p)) /\ (FeeRate <= Base /\ e.cash >= 0 => Sold(e, p).cash >= 0)
  <1> DEFINE gross == e.qty * SellPrice(p)
             net == gross - Fee(gross)
             pnl == net - e.entryCost
             won == IF pnl > 0 THEN pnl ELSE 0
             lost == IF pnl > 0 THEN 0 ELSE pnl
  <1>1. e \in Engine /\ InitialCash \in Nat
    BY DEF Kept, BacktestAssumption
  <1>2. gross \in Nat
    BY <1>1, PricesAreNat, Product DEF Engine
  <1>3. net \in Int /\ (FeeRate <= Base => net >= 0)
    <2> HIDE DEF gross
    <2>1. Fee(gross) \in Nat
      BY <1>2, FeeIsNat
    <2>2. ASSUME FeeRate <= Base PROVE Fee(gross) <= gross
      BY <1>2, <2>2, FeeIsPart
    <2> QED BY <1>2, <2>1, <2>2
  <1>4. /\ pnl \in Int /\ won \in Nat /\ lost \in Int /\ won + lost = pnl
    <2> HIDE DEF net
    <2> QED BY <1>1, <1>3 DEF Engine
  <1>5. Sold(e, p) = [e EXCEPT !.cash = @ + net, !.qty = 0, !.entryCost = 0, !.trades = @ + 1, !.trips = @ + 1,
                               !.wins = @ + won, !.losses = @ + lost]
    BY DEF Sold
  <1>6. won + lost = net - e.entryCost
    BY <1>4
  <1> HIDE DEF gross, net, pnl, won, lost
  <1> DEFINE b == Sold(e, p)
  <1>7. /\ b.cash = e.cash + net /\ b.qty = 0 /\ b.entryCost = 0 /\ b.trades = e.trades + 1
        /\ b.wins = e.wins + won /\ b.losses = e.losses + lost /\ b.trips = e.trips + 1
    BY <1>1, <1>5 DEF Engine
  <1>8. b \in Engine
    <2>1. b = [cash |-> e.cash + net, qty |-> 0, entryCost |-> 0, wins |-> e.wins + won,
               losses |-> e.losses + lost, trades |-> e.trades + 1, trips |-> e.trips + 1]
      BY <1>1, <1>5 DEF Engine
    <2>2. /\ e.cash + net \in Int /\ e.wins + won \in Nat /\ e.losses + lost \in Int
          /\ e.trades + 1 \in Nat /\ e.trips + 1 \in Nat
      BY <1>1, <1>3, <1>4 DEF Engine
    <2> HIDE DEF b
    <2> QED BY <2>1, <2>2 DEF Engine
  <1>9. /\ e.cash \in Int /\ e.wins \in Int /\ e.losses \in Int /\ e.trades \in Int /\ e.trips \in Int
        /\ e.entryCost \in Int /\ e.trades = 2 * e.trips + 1
        /\ e.cash = InitialCash + e.wins + e.losses - e.entryCost
    BY <1>1 DEF Kept, Engine
  <1> HIDE DEF b
  <1>10. /\ FeeRate <= Base /\ e.cash >= 0 => b.cash >= 0
         /\ b.cash = InitialCash + b.wins + b.losses - b.entryCost
    <2>1. FeeRate <= Base /\ e.cash >= 0 => b.cash >= 0
      BY <1>3, <1>7, <1>9
    <2>2. e.cash + net = InitialCash + (e.wins + won) + (e.losses + lost) - 0
      <3> DEFINE cash == e.cash
                 wins == e.wins
                 losses == e.losses
                 entry == e.entryCost
      <3>1. /\ cash \in Int /\ wins \in Int /\ losses \in Int /\ entry \in Int /\ InitialCash \in Int
            /\ net \in Int /\ won \in Int /\ lost \in Int
        BY <1>1, <1>3, <1>4, <1>9
      <3>2. cash = InitialCash + wins + losses - entry /\ won + lost = net - entry
        BY <1>6, <1>9
      <3>3. cash + net = InitialCash + (wins + won) + (losses + lost) - 0
        <4> HIDE DEF cash, wins, losses, entry
        <4> QED BY <3>1, <3>2, AfterSale
      <3> QED BY <3>3
    <2>3. b.cash = InitialCash + b.wins + b.losses - b.entryCost
      BY <2>2, <1>7
    <2> QED BY <2>1, <2>3
  <1>11. Kept(b)
    BY <1>7, <1>8, <1>9, <1>10 DEF Kept
  <1> QED BY <1>10, <1>11 DEF b

-----------------------------------------------------------------------------
(* The loop: where it stands in the data, and what it has reported. *)

Placed ==
    /\ ~Busy => cursor = 0
    /\ Busy => /\ plan.test \in Nat \ {0} /\ windows # <<>>
               /\ Fits(cursor, plan, data)

(* A result of a run that ended without a position adds up. *)
AddsUp(r) == r.flat => r.ending = InitialCash + r.wins + r.losses

Reported == \A k \in DOMAIN windows : \A n \in DOMAIN windows[k].results : AddsUp(windows[k].results[n])

Inv == TypeOK /\ Placed /\ Kept(engine) /\ Reported

Solvent == engine.cash >= 0

WindowSet == [first : Nat, last : Nat, results : Seq(Outcome)]

LEMMA LoopTypes ==
    ASSUME BacktestAssumption, TypeOK
    PROVE  /\ cursor \in Nat /\ row \in Nat /\ turn \in Nat \ {0}
           /\ plan.train \in Nat /\ plan.test \in Nat /\ plan.step \in Nat /\ plan.strategies \in Seq(Made)
           /\ data \in Seq(Nat) /\ Len(data) \in Nat /\ windows \in Seq(WindowSet)
  <1>1. data \in Seq(Nat)
    <2>1. CASE data = <<>>
      BY <2>1
    <2>2. CASE data \in Series
      <3>1. data \in Seq(Nat \ {0})
        BY <2>2 DEF BacktestAssumption
      <3> QED BY <3>1
    <2> QED BY <2>1, <2>2 DEF TypeOK
  <1> QED BY <1>1 DEF TypeOK, Made, WindowSet

(* A row that is passed, and the last one of a window, are in the data. *)
LEMMA ClosesExist ==
    ASSUME BacktestAssumption, TypeOK, Placed, Busy
    PROVE  data[LastRow] \in Nat /\ (Now <= LastRow => Close \in Nat)
  <1>1. /\ cursor \in Nat /\ row \in Nat /\ plan.train \in Nat
        /\ data \in Seq(Nat) /\ Len(data) \in Nat
    BY LoopTypes
  <1>2. plan.test \in Nat \ {0} /\ cursor + plan.train + plan.test <= Len(data)
    BY DEF Placed, Fits
  <1>3. LastRow \in 1..Len(data)
    BY <1>1, <1>2 DEF LastRow
  <1>4. ASSUME Now <= LastRow PROVE Now \in 1..Len(data)
    <2>1. Now \in Nat \ {0}
      BY <1>1 DEF Now, FirstRow
    <2> QED BY <1>1, <1>3, <1>4, <2>1
  <1>5. \A i \in 1..Len(data) : data[i] \in Nat
    BY <1>1
  <1> QED BY <1>3, <1>4, <1>5 DEF Close

LEMMA InitInv == BacktestAssumption /\ Init => Inv
  <1> SUFFICES ASSUME BacktestAssumption, Init PROVE Inv
    OBVIOUS
  <1>1. Kept(engine)
    BY FreshIsKept DEF Init
  <1>2. TypeOK
    BY <1>1 DEF Init, TypeOK, Kept, NoPlan
  <1> QED BY <1>1, <1>2 DEF Inv, Init, Placed, Busy, Reported

LEMMA PassKeeps ==
    ASSUME BacktestAssumption, Inv, NEW e, Kept(e), Pass(e)
    PROVE  Inv'
  <1>1. TypeOK'
    BY DEF Inv, TypeOK, Pass, Kept
  <1> QED BY <1>1 DEF Inv, Pass, Placed, Busy, Fits, Reported

LEMMA RowsKeep ==
    ASSUME BacktestAssumption, Inv, BuyRow \/ SellRow \/ HoldRow
    PROVE  Inv' /\ (FeeRate <= Base /\ Solvent => Solvent')
  <1>1. TypeOK /\ Placed /\ Kept(engine)
    BY DEF Inv
  <1>2. Close \in Nat
    BY <1>1, ClosesExist DEF BuyRow, SellRow, HoldRow, InRows
  <1>3. CASE BuyRow
    <2>1. Kept(Bought(engine, Close)) /\ Bought(engine, Close).cash >= 0 /\ Pass(Bought(engine, Close))
      BY <1>1, <1>2, <1>3, BoughtIsKept DEF BuyRow
    <2> QED BY <2>1, PassKeeps DEF Pass, Solvent
  <1>4. CASE SellRow
    <2>1. /\ Kept(Sold(engine, Close)) /\ Pass(Sold(engine, Close))
          /\ FeeRate <= Base /\ engine.cash >= 0 => Sold(engine, Close).cash >= 0
      BY <1>1, <1>2, <1>4, SoldIsKept DEF SellRow
    <2> QED BY <2>1, PassKeeps DEF Pass, Solvent
  <1>5. CASE HoldRow
    BY <1>1, <1>5, PassKeeps DEF HoldRow, Pass, Solvent
  <1> QED BY <1>3, <1>4, <1>5

LEMMA ResultAddsUp ==
    ASSUME BacktestAssumption, TypeOK, Placed, Kept(engine), Busy, turn <= Len(plan.strategies)
    PROVE  Result \in Outcome /\ AddsUp(Result)
  <1>1. data[LastRow] \in Nat
    BY ClosesExist
  <1>2. Strategy \in Made
    BY LoopTypes DEF Strategy
  <1>3. engine \in Engine
    BY DEF Kept
  <1>4. Equity(engine, data[LastRow]) \in Int
    BY <1>1, <1>3, EquityIsInt
  <1>5. Result \in Outcome
    BY <1>2, <1>3, <1>4 DEF Result, Outcome, Engine, Made
  <1>6. ASSUME engine.qty = 0 PROVE Equity(engine, data[LastRow]) = InitialCash + engine.wins + engine.losses
    <2>1. Equity(engine, data[LastRow]) = engine.cash
      BY <1>1, <1>3, <1>6 DEF Equity, Engine
    <2>2. engine.cash = InitialCash + engine.wins + engine.losses - 0
      BY <1>6 DEF Kept
    <2>3. InitialCash \in Int /\ engine.wins \in Int /\ engine.losses \in Int
      BY <1>3 DEF Engine, BacktestAssumption
    <2> QED BY <2>1, <2>2, <2>3
  <1> QED BY <1>5, <1>6 DEF AddsUp, Result

LEMMA FinishKeeps == ASSUME BacktestAssumption, Inv, FinishRun PROVE Inv'
  <1> DEFINE n == Len(windows)
             old == windows[n].results
  <1>1. TypeOK /\ Placed /\ Kept(engine) /\ Reported
    BY DEF Inv
  <1>2. Result \in Outcome /\ AddsUp(Result)
    BY <1>1, ResultAddsUp DEF FinishRun
  <1>3. windows \in Seq(WindowSet) /\ n \in Nat /\ n \in DOMAIN windows /\ DOMAIN windows = 1..n
    BY <1>1, LoopTypes DEF FinishRun, Placed
  <1>4. windows[n] \in WindowSet /\ old \in Seq(Outcome)
    <2>1. windows[n] \in WindowSet
      BY <1>3
    <2> QED BY <2>1 DEF WindowSet
  <1>5. windows' = [windows EXCEPT ![n].results = Append(@, Result)]
    BY DEF FinishRun
  <1>6. Append(old, Result) \in Seq(Outcome)
    BY <1>2, <1>4
  <1>7. windows' \in Seq(WindowSet)
    <2>1. windows \in [1..n -> WindowSet]
      BY <1>3
    <2>2. [windows[n] EXCEPT !.results = Append(@, Result)] \in WindowSet
      <3> DEFINE w == windows[n]
      <3>1. w \in WindowSet /\ Append(w.results, Result) \in Seq(Outcome)
        BY <1>4, <1>6
      <3>2. [w EXCEPT !.results = Append(@, Result)] \in WindowSet
        <4> HIDE DEF w
        <4> QED BY <3>1 DEF WindowSet
      <3> QED BY <3>2
    <2>3. windows' \in [1..n -> WindowSet]
      BY <1>5, <2>1, <2>2
    <2> QED BY <1>3, <2>3, SeqDef
  <1>8. Reported'
    <2> SUFFICES ASSUME NEW k \in DOMAIN windows', NEW m \in DOMAIN windows'[k].results
                 PROVE  AddsUp(windows'[k].results[m])
      BY DEF Reported, AddsUp
    <2>1. DOMAIN windows' = DOMAIN windows
      BY <1>5
    <2>2. CASE k # n
      <3>1. windows'[k] = windows[k]
        BY <1>5, <2>1, <2>2
      <3> QED BY <1>1, <2>1, <3>1 DEF Reported
    <2>3. CASE k = n
      <3>1. windows'[k].results = Append(old, Result)
        <4>1. windows'[k] = [windows[n] EXCEPT !.results = Append(@, Result)]
          BY <1>3, <1>5, <2>3
        <4> QED BY <1>4, <4>1 DEF WindowSet
      <3>2. m \in 1..(Len(old) + 1)
        BY <1>2, <1>4, <3>1
      <3>3. CASE m = Len(old) + 1
        <4>1. windows'[k].results[m] = Result
          BY <1>2, <1>4, <3>1, <3>3
        <4> QED BY <1>2, <4>1
      <3>4. CASE m \in 1..Len(old)
        <4>1. windows'[k].results[m] = old[m] /\ m \in DOMAIN old
          BY <1>2, <1>4, <3>1, <3>4
        <4> QED BY <1>1, <1>3, <4>1 DEF Reported
      <3> QED BY <1>4, <3>2, <3>3, <3>4
    <2> QED BY <2>2, <2>3
  <1>9. Kept(engine')
    BY FreshIsKept DEF FinishRun, Restarted
  <1>10. TypeOK'
    <2>1. turn' \in Nat \ {0} /\ row' \in Nat
      BY <1>1 DEF FinishRun, TypeOK
    <2>2. UNCHANGED <<data, plan, cursor>>
      BY DEF FinishRun
    <2> QED BY <1>1, <1>7, <1>9, <2>1, <2>2 DEF TypeOK, Kept, WindowSet
  <1>11. Placed'
    <2>1. windows' # <<>>
      BY <1>3, <1>5
    <2> QED BY <1>1, <2>1 DEF FinishRun, Placed, Busy, Fits
  <1> QED BY <1>8, <1>9, <1>10, <1>11 DEF Inv

-----------------------------------------------------------------------------
(* Windows and requests. *)

(* A window is opened without results. *)
LEMMA WindowType ==
    ASSUME NEW c \in Nat, NEW p, p.train \in Nat, p.test \in Nat
    PROVE  Window(c, p) \in WindowSet /\ Window(c, p).results = <<>>
  <1>1. c + p.train + 1 \in Nat /\ c + p.train + p.test \in Nat /\ <<>> \in Seq(Outcome)
    OBVIOUS
  <1> QED BY <1>1 DEF Window, WindowSet

LEMMA NextWindowKeeps == ASSUME BacktestAssumption, Inv, NextWindow PROVE Inv'
  <1> DEFINE c == cursor + plan.step
             w == Window(c, plan)
  <1>1. TypeOK /\ Placed /\ Kept(engine) /\ Reported
    BY DEF Inv
  <1>2. c \in Nat /\ plan.train \in Nat /\ plan.test \in Nat /\ windows \in Seq(WindowSet)
    BY <1>1, LoopTypes
  <1>3. w \in WindowSet /\ w.results = <<>>
    BY <1>2, WindowType
  <1>4. cursor' = c /\ turn' = 1 /\ windows' = Append(windows, w) /\ UNCHANGED <<data, plan, row, engine>>
    BY DEF NextWindow
  <1>5. windows' \in Seq(WindowSet) /\ windows' # <<>>
    BY <1>2, <1>3, <1>4
  <1>6. TypeOK'
    BY <1>1, <1>2, <1>4, <1>5 DEF TypeOK, WindowSet
  <1>7. Placed'
    BY <1>1, <1>4, <1>5 DEF NextWindow, Placed, Busy, Fits
  <1>8. Reported'
    <2> SUFFICES ASSUME NEW k \in DOMAIN windows', NEW m \in DOMAIN windows'[k].results
                 PROVE  AddsUp(windows'[k].results[m])
      BY DEF Reported, AddsUp
    <2>1. CASE k \in DOMAIN windows
      <3>1. windows'[k] = windows[k]
        BY <1>2, <1>3, <1>4, <2>1
      <3> QED BY <1>1, <2>1, <3>1 DEF Reported
    <2>2. CASE k \notin DOMAIN windows
      <3>1. windows'[k] = w
        BY <1>2, <1>3, <1>4, <2>2
      <3> QED BY <1>3, <3>1
    <2> QED BY <2>1, <2>2
  <1> QED BY <1>1, <1>4, <1>6, <1>7, <1>8 DEF Inv, Kept

LEMMA RespondKeeps == ASSUME BacktestAssumption, Inv, Respond PROVE Inv'
  <1>1. TypeOK'
    BY DEF Inv, TypeOK, Respond, NoPlan
  <1> QED BY <1>1 DEF Inv, Respond, Placed, Busy, Reported, Kept

(* A request that fits its data starts at row 0 with one empty window. *)
LEMMA BeginKeeps ==
    ASSUME BacktestAssumption, Inv, ~Busy, NEW d \in Series,
           NEW p \in [train : Nat, test : Nat \ {0}, step : Nat, strategies : Seq(Made)],
           Fits(0, p, d), Begin(d, p)
    PROVE  Inv'
  <1>1. TypeOK /\ cursor = 0 /\ Kept(engine)
    BY DEF Inv, Placed
  <1>2. d # <<>>
    BY DEF BacktestAssumption
  <1>3. Window(0, p) \in WindowSet /\ Window(0, p).results = <<>>
    BY WindowType
  <1>4. data' = d /\ plan' = p /\ windows' = <<Window(0, p)>> /\ UNCHANGED <<cursor, turn, row, engine>>
    BY DEF Begin
  <1>5. windows' \in Seq(WindowSet) /\ DOMAIN windows' = {1} /\ windows'[1] = Window(0, p) /\ windows' # <<>>
    BY <1>3, <1>4
  <1>6. TypeOK'
    <2>1. plan' \in [train : Nat, test : Nat, step : Nat, strategies : Seq(Made)]
      BY <1>4
    <2> QED BY <1>1, <1>4, <1>5, <2>1 DEF TypeOK, WindowSet
  <1>7. Placed'
    BY <1>1, <1>2, <1>4, <1>5 DEF Placed, Busy
  <1>8. Reported'
    BY <1>3, <1>5 DEF Reported
  <1> QED BY <1>1, <1>4, <1>6, <1>7, <1>8 DEF Inv, Kept

LEMMA BaselinesMade ==
    ASSUME BacktestAssumption, NEW asked \in Seq(Names)
    PROVE  BaselinesOf(asked) \in Seq(Made)
  <1> DEFINE names == IF asked = <<>> THEN <<"buy_hold", "sma_cross">> ELSE asked
  <1>1. names \in Seq(Names)
    <2>1. "buy_hold" \in Names /\ "sma_cross" \in Names
      BY DEF Names
    <2>2. <<"buy_hold", "sma_cross">> \in Seq(Names)
      BY <2>1
    <2> QED BY <2>2
  <1> HIDE DEF names
  <1>2. \A n \in Names : Default(n) \in Made
    BY DEF Default, Made, BacktestAssumption
  <1>3. PICK len \in Nat : DOMAIN names = 1..len /\ \A i \in 1..len : names[i] \in Names
    <2>1. Len(names) \in Nat /\ DOMAIN names = 1..Len(names)
      BY <1>1, LenProperties
    <2>2. \A i \in 1..Len(names) : names[i] \in Names
      BY <1>1, ElementOfSeq
    <2> QED BY <2>1, <2>2
  <1>4. [i \in DOMAIN names |-> Default(names[i])] \in [1..len -> Made]
    BY <1>2, <1>3
  <1>5. [i \in DOMAIN names |-> Default(names[i])] \in Seq(Made)
    BY <1>4, SeqDef
  <1> QED BY <1>5 DEF BaselinesOf, names

LEMMA RequestsKeep == ASSUME BacktestAssumption, Inv, StartBacktest \/ StartWalk PROVE Inv'
  <1>1. CASE StartBacktest
    <2>1. PICK d \in Series, s \in Strategies :
             Begin(d, [train |-> 0, test |-> Len(d), step |-> Len(d), strategies |-> <<s>>])
      BY <1>1 DEF StartBacktest
    <2> DEFINE p == [train |-> 0, test |-> Len(d), step |-> Len(d), strategies |-> <<s>>]
    <2>2. d \in Seq(Nat \ {0}) /\ d # <<>>
      BY DEF BacktestAssumption
    <2>3. Len(d) \in Nat \ {0}
      BY <2>2
    <2>4. p \in [train : Nat, test : Nat \ {0}, step : Nat, strategies : Seq(Made)]
      <3>1. s \in Made
        BY DEF BacktestAssumption
      <3>2. <<s>> \in Seq(Made)
        BY <3>1
      <3> QED BY <2>3, <3>2
    <2>5. Fits(0, p, d)
      BY <2>3 DEF Fits
    <2> QED BY <1>1, <2>1, <2>4, <2>5, BeginKeeps DEF StartBacktest
  <1>2. CASE StartWalk
    <2>1. PICK d \in Series, s \in Strategies, p \in Plans, asked \in Baselines :
             /\ Fits(0, p, d)
             /\ Begin(d, [train |-> p.train, test |-> p.test, step |-> p.step,
                          strategies |-> <<s>> \o BaselinesOf(asked)])
      BY <1>2 DEF StartWalk
    <2> DEFINE q == [train |-> p.train, test |-> p.test, step |-> p.step,
                     strategies |-> <<s>> \o BaselinesOf(asked)]
    <2>2. p.train \in Nat /\ p.test \in Nat \ {0} /\ p.step \in Nat \ {0}
      BY DEF BacktestAssumption
    <2>3. <<s>> \o BaselinesOf(asked) \in Seq(Made)
      <3>1. s \in Made /\ asked \in Seq(Names)
        BY DEF BacktestAssumption
      <3>2. <<s>> \in Seq(Made) /\ BaselinesOf(asked) \in Seq(Made)
        BY <3>1, BaselinesMade
      <3> QED BY <3>2, ConcatProperties
    <2>4. q \in [train : Nat, test : Nat \ {0}, step : Nat, strategies : Seq(Made)]
      BY <2>2, <2>3
    <2>5. Fits(0, q, d)
      BY <2>1 DEF Fits
    <2> QED BY <1>2, <2>1, <2>4, <2>5, BeginKeeps DEF StartWalk
  <1> QED BY <1>1, <1>2

LEMMA InvStep == BacktestAssumption /\ Inv /\ [Next]_vars => Inv'
  <1> SUFFICES ASSUME BacktestAssumption, Inv, [Next]_vars PROVE Inv'
    OBVIOUS
  <1>1. CASE StartBacktest \/ StartWalk
    BY <1>1, RequestsKeep
  <1>2. CASE BuyRow \/ SellRow \/ HoldRow
    BY <1>2, RowsKeep
  <1>3. CASE FinishRun
    BY <1>3, FinishKeeps
  <1>4. CASE NextWindow
    BY <1>4, NextWindowKeeps
  <1>5. CASE Respond
    BY <1>5, RespondKeeps
  <1>6. CASE UNCHANGED vars
    BY <1>6 DEF vars, Inv, TypeOK, Placed, Busy, Fits, Kept, Reported, AddsUp
  <1> QED BY <1>1, <1>2, <1>3, <1>4, <1>5, <1>6 DEF Next

-----------------------------------------------------------------------------
(* Only a sale whose fee is more than what it brings could leave less than *)
(* nothing.                                                                *)
LEMMA SolventStep == BacktestAssumption /\ FeeRate <= Base /\ Inv /\ Solvent /\ [Next]_vars => Solvent'
  <1> SUFFICES ASSUME BacktestAssumption, FeeRate <= Base, Inv, Solvent, [Next]_vars PROVE Solvent'
    OBVIOUS
  <1>1. CASE BuyRow \/ SellRow \/ HoldRow
    BY <1>1, RowsKeep
  <1>2. CASE FinishRun
    BY <1>2 DEF FinishRun, Restarted, Fresh, Solvent, BacktestAssumption
  <1>3. CASE UNCHANGED engine
    BY <1>3 DEF Solvent
  <1> QED BY <1>1, <1>2, <1>3
          DEF Next, vars, StartBacktest, StartWalk, Begin, NextWindow, Respond

(* Every variable of a request in progress has its type, whatever fees are *)
(* charged.  (run, run_walk_forward)                                       *)
THEOREM TypesHold == ASSUME BacktestAssumption PROVE Spec => []TypeOK
  <1>1. Init => Inv
    BY InitInv
  <1>2. Inv /\ [Next]_vars => Inv'
    BY InvStep
  <1>3. Inv => TypeOK
    BY DEF Inv
  <1> QED BY <1>1, <1>2, <1>3, PTL DEF Spec

(* The cash of a backtest follows from its round trips at every row, and   *)
(* so does each result that is reported, for all closes, windows, fees,    *)
(* slippages and sizes of a position; and it is never negative for fees of *)
(* at most what they are charged on.                                       *)
(* (compute_buy_fill, compute_sell_fill, PaperBacktester.run)              *)
THEOREM BooksAlwaysClose == ASSUME BacktestAssumption, FeeRate <= Base PROVE Spec => []BooksClose
  <1>1. Init => Inv /\ Solvent
    BY InitInv DEF Init, Fresh, Solvent, BacktestAssumption
  <1>2. Inv /\ Solvent /\ [Next]_vars => (Inv /\ Solvent)'
    BY InvStep, SolventStep
  <1>3. Inv /\ Solvent => BooksClose
    BY DEF Inv, Kept, Reported, AddsUp, BooksClose, Solvent
  <1> QED BY <1>1, <1>2, <1>3, PTL DEF Spec
-----------------------------------------------------------------------------
(* What a run computes.  It is a function of the strategy and of the       *)
(* closes that it is given: row i takes the engine from g[i - 1] to g[i],  *)
(* whatever the program did before.                                        *)

(* The one signal at row i, of a strategy whose signals are no choice. *)
Signal(s, d, i) ==
    IF s.name = "buy_hold" THEN (IF i = 1 THEN "buy" ELSE "hold") ELSE Crossing(s, d, i)

(* What row i makes of engine e. *)
Passed(s, d, i, e) ==
    IF Signal(s, d, i) = "buy" /\ e.qty = 0 /\ CanBuy(e, d[i]) THEN Bought(e, d[i])
    ELSE IF Signal(s, d, i) = "sell" /\ e.qty > 0 /\ CanSell(e, d[i]) THEN Sold(e, d[i])
    ELSE e

Trace(s, d, n, g) == g[0] = Fresh /\ \A i \in 1..n : g[i] = Passed(s, d, i, g[i - 1])

(* What is reported of strategy s that ends with engine e at close p. *)
Report(s, e, p) == [strategy |-> s, trades |-> e.trades, trips |-> e.trips,
                    wins |-> e.wins, losses |-> e.losses, flat |-> e.qty = 0,
                    ending |-> Equity(e, p)]

(* A set of natural numbers that has a member has a least one. *)
LEMMA LeastExists ==
    ASSUME NEW S \in SUBSET Nat, S # {}
    PROVE  \E m \in S : \A k \in S : m <= k
  <1> DEFINE R == OpToRel(<, Nat)
  <1>1. IsWellFoundedOn(R, Nat)
    BY NatLessThanWellFounded
  <1>2. \A x, y \in Nat : <<x, y>> \in R <=> x < y
    BY DEF OpToRel
  <1>3. PICK m \in S : \A k \in S : <<k, m>> \notin R
    <2> HIDE DEF R
    <2> QED BY <1>1, WFMin
  <1>4. \A k \in S : ~(k < m)
    <2> HIDE DEF R
    <2> QED BY <1>2, <1>3
  <1> QED BY <1>4

(* Two runs of a strategy over the same closes agree: at the first row     *)
(* where they did not they would have been equal just before.              *)
LEMMA TracesAgree ==
    ASSUME NEW s, NEW d, NEW n \in Nat, NEW g, NEW h, Trace(s, d, n, g), Trace(s, d, n, h)
    PROVE  g[n] = h[n]
  <1> DEFINE S == {i \in 0..n : g[i] # h[i]}
  <1>1. SUFFICES ASSUME S # {} PROVE FALSE
    OBVIOUS
  <1>2. S \in SUBSET Nat
    OBVIOUS
  <1>3. PICK m \in S : \A k \in S : m <= k
    <2> HIDE DEF S
    <2> QED BY <1>1, <1>2, LeastExists
  <1>4. m \in 1..n
    <2>1. g[0] = h[0]
      BY DEF Trace
    <2> QED BY <1>3, <2>1
  <1>5. g[m - 1] = h[m - 1]
    <2>1. m - 1 \in 0..n /\ m - 1 \notin S
      BY <1>3, <1>4
    <2> QED BY <2>1
  <1>6. g[m] = Passed(s, d, m, g[m - 1]) /\ h[m] = Passed(s, d, m, h[m - 1])
    BY <1>4 DEF Trace
  <1> QED BY <1>3, <1>5, <1>6

(* One more row makes a longer trace. *)
LEMMA TraceGrows ==
    ASSUME NEW s, NEW d, NEW n \in Nat, NEW g, Trace(s, d, n, g)
    PROVE  \E h : Trace(s, d, n + 1, h) /\ h[n + 1] = Passed(s, d, n + 1, g[n])
  <1> DEFINE h == [i \in 0..(n + 1) |-> IF i = n + 1 THEN Passed(s, d, n + 1, g[n]) ELSE g[i]]
  <1>1. h[n + 1] = Passed(s, d, n + 1, g[n])
    OBVIOUS
  <1>2. \A i \in 0..n : h[i] = g[i]
    OBVIOUS
  <1> HIDE DEF h
  <1>3. h[0] = Fresh
    BY <1>2 DEF Trace
  <1>4. ASSUME NEW i \in 1..(n + 1) PROVE h[i] = Passed(s, d, i, h[i - 1])
    <2>1. CASE i = n + 1
      <3>1. i - 1 = n /\ n \in 0..n
        BY <2>1
      <3> QED BY <1>1, <1>2, <2>1, <3>1
    <2>2. CASE i \in 1..n
      <3>1. i - 1 \in 0..n /\ i \in 0..n
        BY <2>2
      <3>2. g[i] = Passed(s, d, i, g[i - 1])
        BY <2>2 DEF Trace
      <3> QED BY <1>2, <3>1, <3>2
    <2> QED BY <2>1, <2>2
  <1> QED BY <1>1, <1>3, <1>4 DEF Trace

-----------------------------------------------------------------------------
(* Windows apart. *)

Running == Busy /\ turn <= Len(plan.strategies)

(* The last window is the one that runs, and its rows are not overrun;     *)
(* between two runs the engine is as new.                                  *)
Aligned ==
    /\ Busy => windows[Len(windows)].first = FirstRow /\ row <= plan.test
    /\ ~Running => row = 0 /\ engine = Fresh

(* The engine is what its strategy makes of the rows passed. *)
Explained ==
    Running /\ Strategy.name # "rsi" => \E g : Trace(Strategy, Slice, row, g) /\ g[row] = engine

(* And so is each result, of the closes of its window. *)
FromTrace(r, d, n) ==
    r.strategy.name # "rsi" => \E g : Trace(r.strategy, d, n, g) /\ r = Report(r.strategy, g[n], d[n])

(* The closes of a window that begins at row a. *)
ClosesFrom(closes, a, n) == [i \in 1..n |-> closes[a + i - 1]]

ReportsExplained ==
    \A k \in DOMAIN windows : \A n \in DOMAIN windows[k].results :
        FromTrace(windows[k].results[n], ClosesFrom(data, windows[k].first, plan.test), plan.test)

Apart == Aligned /\ Explained /\ ReportsExplained

LEMMA InitApart == BacktestAssumption /\ Init => Apart
  BY DEF Init, Apart, Aligned, Explained, ReportsExplained, Running, Busy

(* A run that has passed no row has a trace. *)
LEMMA TraceStarts == ASSUME NEW s, NEW d PROVE \E g : Trace(s, d, 0, g) /\ g[0] = Fresh
  <1> DEFINE g == [i \in {0} |-> Fresh]
  <1>1. Trace(s, d, 0, g) /\ g[0] = Fresh
    BY DEF Trace
  <1> QED BY <1>1

(* The row to be passed is the next one of the slice. *)
LEMMA SliceRow ==
    ASSUME BacktestAssumption, TypeOK, Placed, InRows
    PROVE  row + 1 \in 1..plan.test /\ Slice[row + 1] = Close
  <1>1. cursor \in Nat /\ row \in Nat /\ plan.train \in Nat /\ plan.test \in Nat
    BY LoopTypes
  <1>2. row + 1 \in 1..plan.test
    BY <1>1 DEF InRows, Now, FirstRow, LastRow
  <1>3. FirstRow + (row + 1) - 1 = Now
    BY <1>1 DEF FirstRow, Now
  <1> QED BY <1>2, <1>3 DEF Slice, Close

(* A strategy but rsi has one signal at a row. *)
LEMMA OneSignal ==
    ASSUME BacktestAssumption, NEW s \in Made, s.name # "rsi", NEW d, NEW i
    PROVE  SignalsOf(s, d, i) = {Signal(s, d, i)}
  <1>1. s.name \in {"buy_hold", "sma_cross"}
    BY DEF Made, Names
  <1> QED BY <1>1 DEF SignalsOf, Signal

(* A step that passes a row passes it as the trace does. *)
LEMMA RowPasses ==
    ASSUME BacktestAssumption, Inv, BuyRow \/ SellRow \/ HoldRow, Strategy.name # "rsi"
    PROVE  Pass(Passed(Strategy, Slice, row + 1, engine))
  <1> DEFINE next == Passed(Strategy, Slice, row + 1, engine)
             sig == Signal(Strategy, Slice, row + 1)
  <1>1. TypeOK /\ Placed /\ InRows
    BY DEF Inv, BuyRow, SellRow, HoldRow
  <1>2. Slice[row + 1] = Close
    BY <1>1, SliceRow
  <1>3. Strategy \in Made
    BY <1>1, LoopTypes DEF Strategy, InRows
  <1>4. SignalsOf(Strategy, Slice, row + 1) = {sig}
    BY <1>3, OneSignal
  <1>5. next = IF sig = "buy" /\ engine.qty = 0 /\ CanBuy(engine, Close) THEN Bought(engine, Close)
               ELSE IF sig = "sell" /\ engine.qty > 0 /\ CanSell(engine, Close) THEN Sold(engine, Close)
               ELSE engine
    BY <1>2 DEF Passed
  <1> HIDE DEF next, sig
  <1>6. CASE BuyRow
    BY <1>4, <1>5, <1>6 DEF BuyRow, next
  <1>7. CASE SellRow
    <2>1. sig = "sell"
      BY <1>4, <1>7 DEF SellRow
    <2> QED BY <1>5, <1>7, <2>1 DEF SellRow, next
  <1>8. CASE HoldRow
    <2>1. next = engine
      BY <1>4, <1>5, <1>8 DEF HoldRow
    <2> QED BY <1>8, <2>1 DEF HoldRow, next
  <1> QED BY <1>6, <1>7, <1>8

LEMMA RowsApart ==
    ASSUME BacktestAssumption, Inv, Apart, BuyRow \/ SellRow \/ HoldRow
    PROVE  Apart'
  <1>1. /\ TypeOK /\ Placed /\ InRows /\ row' = row + 1
        /\ UNCHANGED <<data, plan, cursor, turn, windows>>
    BY DEF Inv, BuyRow, SellRow, HoldRow, Pass
  <1>2. cursor \in Nat /\ row \in Nat /\ plan.train \in Nat /\ plan.test \in Nat
    BY <1>1, LoopTypes
  <1>3. Running /\ Running'
    BY <1>1 DEF InRows, Running, Busy
  <1>4. row' <= plan'.test
    BY <1>1, SliceRow
  <1>5. Aligned'
    BY <1>1, <1>3, <1>4 DEF Apart, Aligned, Running, Busy, FirstRow
  <1>6. Strategy' = Strategy /\ Slice' = Slice
    BY <1>1 DEF Strategy, Slice, FirstRow
  <1>7. ASSUME Strategy.name # "rsi"
        PROVE  \E g : Trace(Strategy, Slice, row', g) /\ g[row'] = engine'
    <2>1. PICK g : Trace(Strategy, Slice, row, g) /\ g[row] = engine
      BY <1>3, <1>7 DEF Apart, Explained
    <2>2. engine' = Passed(Strategy, Slice, row + 1, engine)
      BY <1>7, RowPasses DEF Pass
    <2>3. PICK h : Trace(Strategy, Slice, row + 1, h) /\ h[row + 1] = Passed(Strategy, Slice, row + 1, g[row])
      BY <1>2, <2>1, TraceGrows
    <2> QED BY <1>1, <2>1, <2>2, <2>3
  <1>8. Explained'
    BY <1>6, <1>7 DEF Explained
  <1>9. ReportsExplained'
    BY <1>1 DEF Apart, ReportsExplained
  <1> QED BY <1>5, <1>8, <1>9 DEF Apart
(* The end of a run reports what its trace makes of the whole window. *)
LEMMA ResultFromTrace ==
    ASSUME BacktestAssumption, Inv, Apart, FinishRun
    PROVE  FromTrace(Result, Slice, plan.test)
  <1>1. TypeOK /\ Placed /\ Running /\ Now > LastRow
    BY DEF Inv, FinishRun, Running
  <1>2. cursor \in Nat /\ row \in Nat /\ plan.train \in Nat /\ plan.test \in Nat \ {0}
    BY <1>1, LoopTypes DEF Placed, Running
  <1>3. row = plan.test
    <2>1. row <= plan.test
      BY <1>1 DEF Apart, Aligned, Running
    <2> QED BY <1>1, <1>2, <2>1 DEF Now, FirstRow, LastRow
  <1>4. data[LastRow] = Slice[plan.test]
    <2>1. plan.test \in 1..plan.test /\ FirstRow + plan.test - 1 = LastRow
      BY <1>2 DEF FirstRow, LastRow
    <2> QED BY <2>1 DEF Slice
  <1>5. Result.strategy = Strategy /\ Result = Report(Strategy, engine, Slice[plan.test])
    BY <1>4 DEF Result, Report
  <1>6. ASSUME Strategy.name # "rsi"
        PROVE  \E g : Trace(Strategy, Slice, plan.test, g) /\ g[plan.test] = engine
    BY <1>1, <1>3, <1>6 DEF Apart, Explained
  <1> QED BY <1>5, <1>6 DEF FromTrace

LEMMA FinishApart == ASSUME BacktestAssumption, Inv, Apart, FinishRun PROVE Apart'
  <1> DEFINE n == Len(windows)
             old == windows[n].results
  <1>1. TypeOK /\ Placed /\ Running
    BY DEF Inv, FinishRun, Running
  <1>2. /\ windows' = [windows EXCEPT ![n].results = Append(@, Result)]
        /\ turn' = turn + 1 /\ row' = 0 /\ engine' = Fresh /\ UNCHANGED <<data, plan, cursor>>
    BY DEF FinishRun, Restarted
  <1>3. /\ windows \in Seq(WindowSet) /\ n \in Nat /\ n \in DOMAIN windows /\ DOMAIN windows = 1..n
        /\ cursor \in Nat /\ plan.train \in Nat /\ plan.test \in Nat
    BY <1>1, LoopTypes DEF Running, Placed
  <1>4. windows[n] \in WindowSet /\ old \in Seq(Outcome)
    <2>1. windows[n] \in WindowSet
      BY <1>3
    <2> QED BY <2>1 DEF WindowSet
  <1>5. /\ DOMAIN windows' = 1..n /\ Len(windows') = n
        /\ \A k \in 1..n : k # n => windows'[k] = windows[k]
        /\ windows'[n].results = Append(old, Result) /\ windows'[n].first = windows[n].first
    <2>1. DOMAIN windows' = 1..n /\ \A k \in 1..n : k # n => windows'[k] = windows[k]
      BY <1>2, <1>3
    <2>2. Len(windows') = n
      <3>1. windows' \in Seq(WindowSet)
        BY FinishKeeps DEF Inv, TypeOK, WindowSet
      <3>2. Len(windows') \in Nat /\ DOMAIN windows' = 1..Len(windows')
        BY <3>1
      <3> DEFINE l == Len(windows')
      <3>3. l \in Nat /\ 1..l = 1..n /\ n \in 1..n
        BY <1>3, <2>1, <3>2
      <3> HIDE DEF l, n
      <3>4. n <= l /\ l >= 1
        BY <3>3
      <3>5. l \in 1..l
        BY <3>3, <3>4
      <3>6. l = n
        BY <3>3, <3>4, <3>5
      <3> QED BY <3>6 DEF l, n
    <2>3. windows'[n] = [windows[n] EXCEPT !.results = Append(@, Result)]
      BY <1>2, <1>3
    <2>4. windows'[n].results = Append(old, Result) /\ windows'[n].first = windows[n].first
      BY <1>4, <2>3 DEF WindowSet
    <2> QED BY <2>1, <2>2, <2>4
  <1>6. Aligned'
    <2>1. Busy /\ windows[n].first = FirstRow
      BY <1>1 DEF Apart, Aligned, Running
    <2>2. Busy' /\ FirstRow' = FirstRow
      BY <1>2, <2>1 DEF Busy, FirstRow
    <2>3. windows'[Len(windows')].first = FirstRow'
      BY <1>5, <2>1, <2>2
    <2>4. row' <= plan'.test
      BY <1>2, <1>3
    <2> QED BY <1>2, <2>2, <2>3, <2>4 DEF Aligned
  <1>7. Explained'
    <2>1. \E g : Trace(Strategy', Slice', 0, g) /\ g[0] = Fresh
      BY TraceStarts
    <2> QED BY <1>2, <2>1 DEF Explained
  <1>8. ReportsExplained'
    <2>1. ClosesFrom(data, windows[n].first, plan.test) = Slice
      BY <1>1 DEF Apart, Aligned, Running, ClosesFrom, Slice
    <2> SUFFICES ASSUME NEW k \in 1..n, NEW m \in DOMAIN windows'[k].results
                 PROVE  FromTrace(windows'[k].results[m],
                                  ClosesFrom(data, windows'[k].first, plan.test), plan.test)
      BY <1>2, <1>5 DEF ReportsExplained
    <2>4. CASE k # n
      BY <1>3, <1>5, <2>4 DEF Apart, ReportsExplained
    <2>5. CASE k = n
      <3>1. Result \in Outcome
        BY <1>1, ResultAddsUp DEF Inv, Running
      <3>2. windows'[k].results = Append(old, Result)
        BY <1>5, <2>5
      <3>3. m \in 1..(Len(old) + 1)
        BY <1>4, <3>2, <3>1
      <3>4. CASE m = Len(old) + 1
        <4>1. windows'[k].results[m] = Result
          BY <1>4, <3>2, <3>1, <3>4
        <4> QED BY <1>5, <2>1, <2>5, <4>1, ResultFromTrace
      <3>5. CASE m \in 1..Len(old)
        <4>1. windows'[k].results[m] = old[m] /\ m \in DOMAIN old
          BY <1>4, <3>2, <3>1, <3>5
        <4> QED BY <1>3, <1>5, <2>5, <4>1 DEF Apart, ReportsExplained
      <3> QED BY <1>4, <3>3, <3>4, <3>5
    <2> QED BY <2>4, <2>5
  <1> QED BY <1>6, <1>7, <1>8 DEF Apart

LEMMA NextWindowApart == ASSUME BacktestAssumption, Inv, Apart, NextWindow PROVE Apart'
  <1> DEFINE c == cursor + plan.step
             w == Window(c, plan)
             n == Len(windows)
  <1>1. TypeOK /\ ~Running /\ Busy
    BY DEF Inv, NextWindow, Running, TypeOK
  <1>2. /\ c \in Nat /\ plan.train \in Nat /\ plan.test \in Nat /\ windows \in Seq(WindowSet)
        /\ turn \in Nat /\ Len(plan.strategies) \in Nat
    BY <1>1, LoopTypes
  <1>3. w \in WindowSet /\ w.results = <<>> /\ w.first = c + plan.train + 1
    BY <1>2, WindowType DEF Window
  <1>4. cursor' = c /\ turn' = 1 /\ windows' = Append(windows, w) /\ UNCHANGED <<data, plan, row, engine>>
    BY DEF NextWindow
  <1>5. row = 0 /\ engine = Fresh
    <2>1. ~(turn <= Len(plan.strategies))
      BY <1>2 DEF NextWindow
    <2> QED BY <2>1 DEF Apart, Aligned, Running
  <1> HIDE DEF c, w
  <1>6. /\ DOMAIN windows' = 1..(n + 1) /\ Len(windows') = n + 1 /\ n \in Nat /\ DOMAIN windows = 1..n
        /\ windows'[n + 1] = w /\ \A k \in 1..n : windows'[k] = windows[k]
    BY <1>2, <1>3, <1>4
  <1>7. Aligned'
    BY <1>2, <1>3, <1>4, <1>5, <1>6 DEF Aligned, FirstRow
  <1>8. Explained'
    <2>1. \E g : Trace(Strategy', Slice', 0, g) /\ g[0] = Fresh
      BY TraceStarts
    <2> QED BY <1>4, <1>5, <2>1 DEF Explained
  <1>9. ReportsExplained'
    <2> SUFFICES ASSUME NEW k \in 1..(n + 1), NEW m \in DOMAIN windows'[k].results
                 PROVE  FromTrace(windows'[k].results[m],
                                  ClosesFrom(data, windows'[k].first, plan.test), plan.test)
      BY <1>4, <1>6 DEF ReportsExplained
    <2>1. CASE k \in 1..n
      BY <1>6, <2>1 DEF Apart, ReportsExplained
    <2>2. CASE k = n + 1
      BY <1>3, <1>6, <2>2
    <2> QED BY <1>6, <2>1, <2>2
  <1> QED BY <1>7, <1>8, <1>9 DEF Apart

LEMMA RespondApart == ASSUME BacktestAssumption, Inv, Apart, Respond PROVE Apart'
  <1>1. TypeOK
    BY DEF Inv
  <1>2. row = 0 /\ engine = Fresh
    <2>1. ~(turn <= Len(plan.strategies))
      BY <1>1, LoopTypes DEF Respond
    <2> QED BY <2>1 DEF Apart, Aligned, Running
  <1> QED BY <1>2 DEF Respond, Apart, Aligned, Explained, ReportsExplained, Running, Busy

LEMMA RequestsApart ==
    ASSUME BacktestAssumption, Inv, Apart, StartBacktest \/ StartWalk
    PROVE  Apart'
  <1>1. PICK d, p : ~Busy /\ Begin(d, p)
    BY DEF StartBacktest, StartWalk
  <1>2. /\ data' = d /\ plan' = p /\ windows' = <<Window(0, p)>>
        /\ UNCHANGED <<cursor, turn, row, engine>>
    BY <1>1 DEF Begin
  <1>3. cursor = 0 /\ row = 0 /\ engine = Fresh
    BY <1>1 DEF Inv, Placed, Apart, Aligned, Running
  <1>4. plan'.test \in Nat
    BY InvStep DEF Next, Inv, TypeOK
  <1>5. /\ DOMAIN windows' = {1} /\ Len(windows') = 1 /\ windows'[1] = Window(0, p)
        /\ Window(0, p).results = <<>> /\ Window(0, p).first = 0 + p.train + 1
    BY <1>2 DEF Window
  <1>6. Aligned'
    BY <1>2, <1>3, <1>4, <1>5 DEF Aligned, FirstRow
  <1>7. Explained'
    <2>1. \E g : Trace(Strategy', Slice', 0, g) /\ g[0] = Fresh
      BY TraceStarts
    <2> QED BY <1>2, <1>3, <2>1 DEF Explained
  <1>8. ReportsExplained'
    BY <1>5 DEF ReportsExplained
  <1> QED BY <1>6, <1>7, <1>8 DEF Apart

LEMMA ApartStep == BacktestAssumption /\ Inv /\ Apart /\ [Next]_vars => Apart'
  <1> SUFFICES ASSUME BacktestAssumption, Inv, Apart, [Next]_vars PROVE Apart'
    OBVIOUS
  <1>1. CASE UNCHANGED vars
    BY <1>1 DEF vars, Apart, Aligned, Explained, ReportsExplained, Running, Busy,
                FirstRow, Strategy, Slice
  <1> QED BY <1>1, RequestsApart, RowsApart, FinishApart, NextWindowApart, RespondApart DEF Next

(* Two results of one strategy on equal closes come from traces that agree. *)
LEMMA ApartIsolates == BacktestAssumption /\ Inv /\ Apart => WindowsIsolated
  <1> SUFFICES ASSUME BacktestAssumption, Inv, Apart,
                      NEW j \in DOMAIN windows, NEW k \in DOMAIN windows,
                      Closes(windows[j]) = Closes(windows[k]),
                      NEW m \in DOMAIN windows[j].results, NEW n \in DOMAIN windows[k].results,
                      windows[j].results[m].strategy = windows[k].results[n].strategy,
                      windows[j].results[m].strategy.name # "rsi"
               PROVE  windows[j].results[m] = windows[k].results[n]
    BY DEF WindowsIsolated
  <1> DEFINE d == Closes(windows[j])
             s == windows[j].results[m].strategy
  <1>1. plan.test \in Nat /\ \A i \in DOMAIN windows : ClosesFrom(data, windows[i].first, plan.test) = Closes(windows[i])
    BY LoopTypes DEF Inv, Closes, ClosesFrom
  <1>2. PICK g : /\ Trace(s, d, plan.test, g)
                 /\ windows[j].results[m] = Report(s, g[plan.test], d[plan.test])
    BY <1>1 DEF Apart, ReportsExplained, FromTrace
  <1>3. PICK h : /\ Trace(s, d, plan.test, h)
                 /\ windows[k].results[n] = Report(s, h[plan.test], d[plan.test])
    BY <1>1 DEF Apart, ReportsExplained, FromTrace
  <1>4. g[plan.test] = h[plan.test]
    BY <1>1, <1>2, <1>3, TracesAgree
  <1> QED BY <1>2, <1>3, <1>4

(* Whatever windows a request evaluates, in whatever order, and whatever   *)
(* ran before on the same engine object: two windows with the same closes  *)
(* have the same result for the same strategy with the same parameters,    *)
(* main or baseline, for all closes, parameters, baselines, windows, fees  *)
(* and sizes of a position.                                                *)
(* (run_walk_forward, PaperBacktester.run)                                 *)
THEOREM WindowsStayIsolated == ASSUME BacktestAssumption PROVE Spec => []WindowsIsolated
  <1>1. Init => Inv /\ Apart
    BY InitInv, InitApart
  <1>2. Inv /\ Apart /\ [Next]_vars => (Inv /\ Apart)'
    BY InvStep, ApartStep
  <1>3. Inv /\ Apart => WindowsIsolated
    BY ApartIsolates
  <1> QED BY <1>1, <1>2, <1>3, PTL DEF Spec
=============================================================================
