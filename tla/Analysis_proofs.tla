--------------------------- MODULE Analysis_proofs ---------------------------
(* Proofs about what the API computes: the account's profit and loss for   *)
(* every set of prices, quantities and bankrolls, backtests for all closes *)
(* and windows (with Backtest_proofs), the candles and gaps of every range *)
(* of every market.                                                        *)
EXTENDS Analysis, FiniteSetTheorems, SequenceTheorems, WellFoundedInduction, TLAPS

BP == INSTANCE Backtest_proofs
-----------------------------------------------------------------------------
(* Types. *)

LEMMA InitTypes == Init => TypeOK
  <1> SUFFICES ASSUME Init PROVE TypeOK
    OBVIOUS
  <1>1. cash \in Int /\ bankroll \in Int
    BY LedgerAssumption DEF LedgerAssumption, Init
  <1> QED BY <1>1, LedgerAssumption DEF Init, TypeOK, NoLot, LedgerAssumption

(* The amounts that a fill is made of. *)
LEMMA FillTypes ==
    ASSUME TypeOK
    PROVE  /\ mark \in Nat /\ Spread \in Nat /\ FillFee \in Nat /\ bankroll \in Nat
           /\ mark - Spread \in Nat /\ mark + Spread \in Nat
           /\ position.qty \in Nat /\ position.cost \in Nat
           /\ past.earned \in Int /\ past.openingFee \in Nat /\ past.started \in Nat
           /\ replay.qty \in Nat /\ replay.cost \in Int /\ replay.realized \in Int
           /\ cash \in Int /\ resets \in Int
  <1>1. past.started \in Bankrolls /\ bankroll \in Bankrolls /\ mark \in Marks
    BY DEF TypeOK
  <1>2. past.started \in Nat /\ bankroll \in Nat
    BY <1>1, LedgerAssumption DEF LedgerAssumption
  <1>3. mark \in Nat /\ mark > Spread /\ Spread \in Nat /\ FillFee \in Nat
    BY <1>1, LedgerAssumption DEF LedgerAssumption
  <1> QED BY <1>2, <1>3 DEF TypeOK

LEMMA MoveTypes ==
    ASSUME TypeOK, Move
    PROVE  TypeOK'
  <1>1. PICK m \in Marks :
            /\ mark' = m
            /\ past' = [past EXCEPT !.earned = @ + position.qty * (m - mark)]
            /\ UNCHANGED <<cash, position, replay, resets, bankroll>>
    BY DEF Move
  <1>2. m \in Int
    BY LedgerAssumption DEF LedgerAssumption
  <1>3. position.qty * (m - mark) \in Int
    BY <1>2, FillTypes
  <1>4. past.earned + position.qty * (m - mark) \in Int
    BY <1>3, FillTypes
  <1> QED BY <1>1, <1>4 DEF TypeOK

LEMMA BuyTypes ==
    ASSUME TypeOK, Buy
    PROVE  TypeOK'
  <1>1. PICK q \in Quantities :
            /\ past.orders < MaxOrders
            /\ cash' = cash - (q * (mark + Spread) + FillFee)
            /\ position' = [qty |-> position.qty + q, cost |-> Basis(q, mark + Spread)]
            /\ replay' = ReplayBuy(replay, q, mark + Spread)
            /\ past' = [Recorded(q * mark - (q * (mark + Spread) + FillFee)) EXCEPT
                          !.openingFee = IF position.qty = 0 THEN FillFee ELSE @]
            /\ UNCHANGED <<mark, resets, bankroll>>
    BY DEF Buy
  <1>2. q \in Nat /\ q > 0
    BY LedgerAssumption DEF LedgerAssumption
  <1> DEFINE paid == q * (mark + Spread)
             worth == q * mark
  <1>3. paid \in Nat /\ worth \in Nat
    BY <1>2, FillTypes
  <1> HIDE DEF paid, worth
  <1>4. cash' \in Int
    BY <1>1, <1>3, FillTypes DEF paid
  <1>5. position' \in [qty : Nat, cost : Nat] /\ position'.qty # 0
    <2>1. Basis(q, mark + Spread) \in Nat
      BY <1>3, FillTypes DEF Basis, paid
    <2>2. position.qty + q \in Nat /\ position.qty + q # 0
      BY <1>2, FillTypes
    <2> QED BY <1>1, <2>1, <2>2
  <1>6. replay' \in [qty : Nat, cost : Int, realized : Int]
    <2>1. replay.qty + q \in Nat /\ replay.cost + q * (mark + Spread) + FillFee \in Int
      BY <1>2, <1>3, FillTypes DEF paid
    <2> QED BY <1>1, <2>1 DEF ReplayBuy, TypeOK
  <1>7. past' \in [earned : Int, openingFee : Nat, started : Bankrolls, wasReset : BOOLEAN,
                   edited : BOOLEAN, orders : 0..MaxOrders]
    <2>1. past.earned + (q * mark - (q * (mark + Spread) + FillFee)) \in Int
      BY <1>3, FillTypes DEF paid, worth
    <2>2. past.orders + 1 \in 0..MaxOrders
      BY <1>1, LedgerAssumption DEF TypeOK, LedgerAssumption
    <2> QED BY <1>1, <2>1, <2>2, FillTypes DEF Recorded, TypeOK
  <1> QED BY <1>1, <1>4, <1>5, <1>6, <1>7 DEF TypeOK

(* What the replay of a sell leaves, whatever part of the lot it takes. *)
LEMMA ReplayTypes ==
    ASSUME NEW r \in [qty : Nat, cost : Int, realized : Int], NEW q \in Nat, NEW price \in Nat
    PROVE  ReplaySell(r, q, price) \in [qty : Nat, cost : Int, realized : Int]
  <1> DEFINE sold == IF q <= r.qty THEN q ELSE r.qty
  <1>1. sold \in Nat /\ r.qty - sold \in Nat
    OBVIOUS
  <1>2. FillFee \in Int
    BY LedgerAssumption DEF LedgerAssumption
  <1>3. CASE r.qty = 0
    BY <1>3 DEF ReplaySell
  <1>4. CASE r.qty # 0
    <2>1. CostOfPart(r, sold) \in Int
      <3>1. CASE sold = r.qty
        BY <3>1 DEF CostOfPart
      <3>2. CASE sold # r.qty
        <4>1. r.cost * sold \in Int /\ r.qty \in Nat \ {0}
          BY <1>1, <1>4
        <4> DEFINE product == r.cost * sold
        <4> HIDE DEF product, sold
        <4>2. product \in Int
          BY <4>1 DEF product
        <4>3. product \div r.qty \in Int
          BY <4>1, <4>2
        <4> QED BY <3>2, <4>3 DEF CostOfPart, product
      <3> QED BY <3>1, <3>2
    <2>2. sold * price \in Int
      BY <1>1
    <2>3. ReplaySell(r, q, price) =
            [qty      |-> r.qty - sold,
             cost     |-> IF sold = r.qty THEN 0 ELSE r.cost - CostOfPart(r, sold),
             realized |-> r.realized + sold * price - CostOfPart(r, sold) - FillFee]
      BY <1>4 DEF ReplaySell
    <2> DEFINE gain == sold * price
               part == CostOfPart(r, sold)
    <2> HIDE DEF gain, part, sold
    <2> QED BY <1>1, <1>2, <2>1, <2>2, <2>3 DEF gain, part
  <1> QED BY <1>3, <1>4

LEMMA SellTypes ==
    ASSUME TypeOK, Sell
    PROVE  TypeOK'
  <1> DEFINE fill == mark - Spread
             gain == position.qty * fill - FillFee - position.qty * mark
  <1>1. fill \in Nat /\ position.qty * fill \in Int /\ position.qty * mark \in Int
    BY FillTypes
  <1>2. /\ past.orders < MaxOrders
        /\ cash' = cash + (position.qty * fill - FillFee)
        /\ position' = NoLot
        /\ replay' = ReplaySell(replay, position.qty, fill)
        /\ past' = [Recorded(position.qty * fill - FillFee - position.qty * mark)
                      EXCEPT !.openingFee = 0]
        /\ UNCHANGED <<mark, resets, bankroll>>
    BY DEF Sell
  <1> HIDE DEF fill
  <1>3. replay' \in [qty : Nat, cost : Int, realized : Int]
    BY <1>1, <1>2, FillTypes, ReplayTypes DEF TypeOK
  <1>4. cash' \in Int
    BY <1>1, <1>2, FillTypes
  <1>5. past' \in [earned : Int, openingFee : Nat, started : Bankrolls, wasReset : BOOLEAN,
                   edited : BOOLEAN, orders : 0..MaxOrders]
    <2>1. past.earned + gain \in Int
      BY <1>1, FillTypes
    <2>2. past.orders + 1 \in 0..MaxOrders
      BY <1>2, LedgerAssumption DEF TypeOK, LedgerAssumption
    <2> QED BY <1>2, <2>1, <2>2 DEF Recorded, TypeOK
  <1> QED BY <1>2, <1>3, <1>4, <1>5 DEF TypeOK, NoLot

LEMMA ResetTypes ==
    ASSUME TypeOK, Reset \/ EditBankroll \/ UNCHANGED vars
    PROVE  TypeOK'
  <1>1. CASE Reset
    <2>1. position.qty * mark \in Int
      BY FillTypes
    <2>2. ResetPnl \in Int
      BY <2>1, FillTypes DEF ResetPnl, Equity
    <2>3. past.orders + 1 \in 0..MaxOrders
      BY <1>1, LedgerAssumption DEF Reset, TypeOK, LedgerAssumption
    <2>4. past.earned + 0 \in Int /\ resets + ResetPnl \in Int
      BY <2>2, FillTypes
    <2>5. cash' \in Int
      BY <1>1, FillTypes DEF Reset
    <2> QED BY <1>1, <2>3, <2>4, <2>5 DEF Reset, Recorded, NoLot, TypeOK
  <1>2. CASE EditBankroll
    BY <1>2 DEF EditBankroll, TypeOK
  <1>3. CASE UNCHANGED vars
    BY <1>3 DEF vars, TypeOK
  <1> QED BY <1>1, <1>2, <1>3

LEMMA TypesStep == TypeOK /\ [Next]_vars => TypeOK'
  BY MoveTypes, BuyTypes, SellTypes, ResetTypes DEF Next

(* Every variable of the account has its type: in particular a position    *)
(* without quantity has no row, so that _positions_payload never divides   *)
(* by zero.                                                                *)
THEOREM TypesHold == Spec => []TypeOK
  <1>1. Init => TypeOK
    BY InitTypes
  <1>2. TypeOK /\ [Next]_vars => TypeOK'
    BY TypesStep
  <1> QED BY <1>1, <1>2, PTL DEF Spec
-----------------------------------------------------------------------------
(* The replay of the orders follows the position.  Before the first reset  *)
(* the replay holds the lot that the position is, at a cost that has the   *)
(* fee of the opening buy beside the basis, and the cash is what the       *)
(* account began with, what was realized, less the cost of the open lot.   *)
Followed ==
    /\ position.qty = 0 => past.openingFee = 0
    /\ ~past.wasReset =>
          /\ replay.qty = position.qty
          /\ replay.cost = position.cost + past.openingFee
          /\ cash = past.started + replay.realized - replay.cost

LEMMA FollowedAtFirst == Init => Followed
  <1> SUFFICES ASSUME Init PROVE Followed
    OBVIOUS
  <1>1. bankroll \in Int
    BY LedgerAssumption DEF Init, LedgerAssumption
  <1> QED BY <1>1 DEF Init, Followed, NoLot

LEMMA FollowedBuy ==
    ASSUME TypeOK, Followed, Buy
    PROVE  Followed'
  <1>1. PICK q \in Quantities :
            /\ cash' = cash - (q * (mark + Spread) + FillFee)
            /\ position' = [qty |-> position.qty + q, cost |-> Basis(q, mark + Spread)]
            /\ replay' = ReplayBuy(replay, q, mark + Spread)
            /\ past' = [Recorded(q * mark - (q * (mark + Spread) + FillFee)) EXCEPT
                          !.openingFee = IF position.qty = 0 THEN FillFee ELSE @]
    BY DEF Buy
  <1> DEFINE paid == q * (mark + Spread)
             fee == IF position.qty = 0 THEN FillFee ELSE past.openingFee
  <1>2. q \in Nat /\ q > 0 /\ paid \in Int /\ past.started \in Int
    BY FillTypes, LedgerAssumption DEF LedgerAssumption
  <1>3. past'.openingFee = fee /\ past'.started = past.started /\ past'.wasReset = past.wasReset
    BY <1>1 DEF TypeOK, Recorded
  <1>4. /\ replay'.qty = replay.qty + q /\ replay'.cost = replay.cost + paid + FillFee
        /\ replay'.realized = replay.realized
    BY <1>1 DEF TypeOK, ReplayBuy
  <1>5. /\ position'.qty = position.qty + q
        /\ position'.cost = position.cost + paid + (IF position.qty = 0 THEN 0 ELSE FillFee)
    BY <1>1 DEF Basis
  <1>6. cash' = cash - (paid + FillFee)
    BY <1>1
  <1> HIDE DEF paid
  <1>7. position'.qty # 0
    BY <1>2, <1>5, FillTypes
  <1>8. position.qty = 0 => position.cost = 0 /\ past.openingFee = 0
    BY DEF TypeOK, NoLot, Followed
  <1>9. ASSUME ~past.wasReset
        PROVE  /\ replay'.qty = position'.qty
               /\ replay'.cost = position'.cost + fee
               /\ cash' = past.started + replay'.realized - replay'.cost
    <2>1. /\ replay.qty = position.qty /\ replay.cost = position.cost + past.openingFee
          /\ cash = past.started + replay.realized - replay.cost
      BY <1>9 DEF Followed
    <2> QED BY <1>2, <1>4, <1>5, <1>6, <1>8, <2>1, FillTypes
  <1> QED BY <1>3, <1>7, <1>9 DEF Followed

LEMMA FollowedSell ==
    ASSUME TypeOK, Followed, Sell
    PROVE  Followed'
  <1> DEFINE fill == mark - Spread
             gain == position.qty * fill
  <1>1. fill \in Nat /\ gain \in Int /\ past.started \in Int
    BY FillTypes, LedgerAssumption DEF LedgerAssumption
  <1>2. /\ position.qty > 0 /\ cash' = cash + (gain - FillFee) /\ position' = NoLot
        /\ replay' = ReplaySell(replay, position.qty, fill)
        /\ past' = [Recorded(gain - FillFee - position.qty * mark) EXCEPT !.openingFee = 0]
    BY DEF Sell
  <1> HIDE DEF fill
  <1>3. past'.openingFee = 0 /\ past'.started = past.started /\ past'.wasReset = past.wasReset
    BY <1>2 DEF TypeOK, Recorded
  <1>4. ASSUME ~past.wasReset
        PROVE  /\ replay'.qty = position'.qty /\ replay'.cost = position'.cost
               /\ cash' = past.started + replay'.realized - replay'.cost
    <2>1. /\ replay.qty = position.qty
          /\ cash = past.started + replay.realized - replay.cost
      BY <1>4 DEF Followed
    <2>2. ReplaySell(replay, position.qty, fill) =
            [qty |-> replay.qty - replay.qty, cost |-> 0,
             realized |-> replay.realized + gain - replay.cost - FillFee]
      BY <1>2, <2>1, FillTypes DEF ReplaySell, CostOfPart
    <2> HIDE DEF gain
    <2> QED BY <1>1, <1>2, <2>1, <2>2, FillTypes DEF NoLot
  <1> QED BY <1>1, <1>2, <1>3, <1>4 DEF Followed, NoLot

LEMMA FollowedOtherwise ==
    ASSUME TypeOK, Followed, Move \/ Reset \/ EditBankroll \/ UNCHANGED vars
    PROVE  Followed'
  <1>1. CASE Move
    <2>1. /\ past'.openingFee = past.openingFee /\ past'.started = past.started
          /\ past'.wasReset = past.wasReset
      BY <1>1 DEF Move, TypeOK
    <2> QED BY <1>1, <2>1 DEF Move, Followed
  <1>2. CASE Reset
    <2>1. past'.openingFee = 0 /\ past'.wasReset
      BY <1>2 DEF Reset, Recorded, TypeOK
    <2> QED BY <2>1 DEF Followed
  <1>3. CASE EditBankroll
    <2>1. /\ past'.openingFee = past.openingFee /\ past'.started = past.started
          /\ past'.wasReset = past.wasReset
      BY <1>3 DEF EditBankroll, TypeOK
    <2> QED BY <1>3, <2>1 DEF EditBankroll, Followed
  <1>4. CASE UNCHANGED vars
    BY <1>4 DEF vars, Followed
  <1> QED BY <1>1, <1>2, <1>3, <1>4

LEMMA FollowedStep == TypeOK /\ Followed /\ [Next]_vars => Followed'
  BY FollowedBuy, FollowedSell, FollowedOtherwise DEF Next

LEMMA FollowedAddsUp == TypeOK /\ Followed => PnlAddsUp
  <1> SUFFICES ASSUME TypeOK, Followed, ~past.wasReset
               PROVE  replay.realized + Unrealized = Equity - past.started + past.openingFee
    BY DEF PnlAddsUp
  <1>1. /\ replay.cost = position.cost + past.openingFee
        /\ cash = past.started + replay.realized - replay.cost
    BY DEF Followed
  <1> DEFINE worth == position.qty * mark
  <1>2. worth \in Int /\ past.started \in Int
    BY FillTypes, LedgerAssumption DEF LedgerAssumption
  <1>3. Unrealized = worth - position.cost /\ Equity = cash + worth
    BY DEF Unrealized, Equity
  <1> HIDE DEF worth
  <1> QED BY <1>1, <1>2, <1>3, FillTypes

(* The realized PnL that _realized_pnl_from_orders replays and the         *)
(* unrealized PnL of the position account for the equity, up to the fee of *)
(* the opening buy, until the first reset: for every fee, spread, price    *)
(* and quantity.                                                           *)
THEOREM SummaryAddsUp == Spec => []PnlAddsUp
  <1>1. Init => TypeOK /\ Followed
    BY InitTypes, FollowedAtFirst
  <1>2. TypeOK /\ Followed /\ [Next]_vars => (TypeOK /\ Followed)'
    BY TypesStep, FollowedStep
  <1>3. TypeOK /\ Followed => PnlAddsUp
    BY FollowedAddsUp
  <1> QED BY <1>1, <1>2, <1>3, PTL DEF Spec
-----------------------------------------------------------------------------
(* The PnL of all time. *)

LEMMA AllTimeBuy ==
    ASSUME TypeOK, AllTimeAddsUp, Buy
    PROVE  AllTimeAddsUp'
  <1>1. PICK q \in Quantities :
            /\ cash' = cash - (q * (mark + Spread) + FillFee)
            /\ position'.qty = position.qty + q
            /\ past' = [Recorded(q * mark - (q * (mark + Spread) + FillFee)) EXCEPT
                          !.openingFee = IF position.qty = 0 THEN FillFee ELSE @]
            /\ UNCHANGED <<mark, resets, bankroll>>
    BY DEF Buy
  <1> DEFINE paid == q * (mark + Spread)
             bought == q * mark
             worth == position.qty * mark
  <1>2. q \in Int /\ paid \in Int /\ bought \in Int /\ worth \in Int
    BY FillTypes, LedgerAssumption DEF LedgerAssumption
  <1>3. past'.edited = past.edited /\ past'.earned = past.earned + (bought - (paid + FillFee))
    BY <1>1 DEF TypeOK, Recorded
  <1>4. position'.qty * mark' = worth + bought
    BY <1>1, <1>2, FillTypes
  <1>5. cash' = cash - (paid + FillFee) /\ resets' = resets /\ bankroll' = bankroll
    BY <1>1
  <1> HIDE DEF paid, bought, worth
  <1>6. ASSUME ~past.edited
        PROVE  resets' + ((cash' + position'.qty * mark') - bankroll') = past'.earned
    <2>1. resets + ((cash + worth) - bankroll) = past.earned
      BY <1>6 DEF AllTimeAddsUp, AllTimePnl, CyclePnl, Equity, worth
    <2> QED BY <1>2, <1>3, <1>4, <1>5, <2>1, FillTypes
  <1> QED BY <1>3, <1>6 DEF AllTimeAddsUp, AllTimePnl, CyclePnl, Equity

LEMMA AllTimeSell ==
    ASSUME TypeOK, AllTimeAddsUp, Sell
    PROVE  AllTimeAddsUp'
  <1> DEFINE gain == position.qty * (mark - Spread)
             worth == position.qty * mark
  <1>1. /\ cash' = cash + (gain - FillFee) /\ position' = NoLot
        /\ past' = [Recorded(gain - FillFee - worth) EXCEPT !.openingFee = 0]
        /\ UNCHANGED <<mark, resets, bankroll>>
    BY DEF Sell
  <1>2. gain \in Int /\ worth \in Int
    BY FillTypes
  <1>3. past'.edited = past.edited /\ past'.earned = past.earned + (gain - FillFee - worth)
    BY <1>1 DEF TypeOK, Recorded
  <1>4. position'.qty * mark' = 0
    BY <1>1, FillTypes DEF NoLot
  <1>5. ASSUME ~past.edited
        PROVE  resets' + ((cash' + position'.qty * mark') - bankroll') = past'.earned
    <2>1. resets + ((cash + worth) - bankroll) = past.earned
      BY <1>5 DEF AllTimeAddsUp, AllTimePnl, CyclePnl, Equity
    <2> HIDE DEF gain, worth
    <2> QED BY <1>1, <1>2, <1>3, <1>4, <2>1, FillTypes
  <1> QED BY <1>3, <1>5 DEF AllTimeAddsUp, AllTimePnl, CyclePnl, Equity

LEMMA AllTimeMove ==
    ASSUME TypeOK, AllTimeAddsUp, Move
    PROVE  AllTimeAddsUp'
  <1>1. PICK m \in Marks :
            /\ mark' = m
            /\ past' = [past EXCEPT !.earned = @ + position.qty * (m - mark)]
            /\ UNCHANGED <<cash, position, replay, resets, bankroll>>
    BY DEF Move
  <1> DEFINE worth == position.qty * mark
             later == position.qty * m
  <1>2. m \in Int /\ worth \in Int /\ later \in Int
    BY FillTypes, LedgerAssumption DEF LedgerAssumption
  <1>3. position.qty * (m - mark) = later - worth
    BY <1>2, FillTypes
  <1>4. past'.edited = past.edited /\ past'.earned = past.earned + position.qty * (m - mark)
    BY <1>1 DEF TypeOK
  <1>5. position'.qty * mark' = later
    BY <1>1
  <1>6. ASSUME ~past.edited
        PROVE  resets' + ((cash' + position'.qty * mark') - bankroll') = past'.earned
    <2>1. resets + ((cash + worth) - bankroll) = past.earned
      BY <1>6 DEF AllTimeAddsUp, AllTimePnl, CyclePnl, Equity
    <2> HIDE DEF worth, later
    <2> QED BY <1>1, <1>2, <1>3, <1>4, <1>5, <2>1, FillTypes
  <1> QED BY <1>4, <1>6 DEF AllTimeAddsUp, AllTimePnl, CyclePnl, Equity

LEMMA AllTimeOtherwise ==
    ASSUME TypeOK, AllTimeAddsUp, Reset \/ EditBankroll \/ UNCHANGED vars
    PROVE  AllTimeAddsUp'
  <1>1. CASE Reset
    <2> DEFINE worth == position.qty * mark
    <2>1. worth \in Int
      BY FillTypes
    <2>2. past'.edited = past.edited /\ past'.earned = past.earned + 0
      BY <1>1 DEF Reset, Recorded, TypeOK
    <2>3. resets' = resets + ((cash + worth) - bankroll)
      BY <1>1 DEF Reset, ResetPnl, Equity
    <2>4. cash' = bankroll /\ bankroll' = bankroll /\ position'.qty * mark' = 0
      BY <1>1, FillTypes DEF Reset, NoLot
    <2>5. ASSUME ~past.edited
          PROVE  resets' + ((cash' + position'.qty * mark') - bankroll') = past'.earned
      <3>1. resets + ((cash + worth) - bankroll) = past.earned
        BY <2>5 DEF AllTimeAddsUp, AllTimePnl, CyclePnl, Equity
      <3> HIDE DEF worth
      <3> QED BY <2>1, <2>2, <2>3, <2>4, <3>1, FillTypes
    <2> QED BY <2>2, <2>5 DEF AllTimeAddsUp, AllTimePnl, CyclePnl, Equity
  <1>2. CASE EditBankroll
    <2>1. past'.edited
      BY <1>2 DEF EditBankroll, TypeOK
    <2> QED BY <2>1 DEF AllTimeAddsUp
  <1>3. CASE UNCHANGED vars
    BY <1>3 DEF vars, AllTimeAddsUp, AllTimePnl, CyclePnl, Equity
  <1> QED BY <1>1, <1>2, <1>3

(* The reset rows and the current cycle are together all that prices and   *)
(* fills ever brought, over any number of resets in any state of the       *)
(* position, while nobody edits the default bankroll.                      *)
THEOREM AllTimeIsEarned == Spec => []AllTimeAddsUp
  <1>1. Init => TypeOK /\ AllTimeAddsUp
    <2> SUFFICES ASSUME Init PROVE AllTimeAddsUp
      BY InitTypes
    <2>1. mark \in Int /\ bankroll \in Int
      BY LedgerAssumption DEF Init, LedgerAssumption
    <2> QED BY <2>1 DEF Init, NoLot, AllTimeAddsUp, AllTimePnl, CyclePnl, Equity
  <1>2. TypeOK /\ AllTimeAddsUp /\ [Next]_vars => (TypeOK /\ AllTimeAddsUp)'
    BY TypesStep, AllTimeBuy, AllTimeSell, AllTimeMove, AllTimeOtherwise DEF Next
  <1> QED BY <1>1, <1>2, PTL DEF Spec
-----------------------------------------------------------------------------
(* The parts side by side. *)

(* A behaviour of the whole is, for each part, one of that part: while     *)
(* another is followed it stands still.                                    *)
THEOREM PartsBehave == AnalysisSpec => Spec /\ B!Spec /\ C!Spec
  <1>1. AnalysisInit => Init /\ B!Init /\ C!Init
    BY DEF AnalysisInit
  <1>2. [AnalysisNext]_analysisVars => [Next]_vars
    BY DEF AnalysisNext, analysisVars, vars
  <1>3. [AnalysisNext]_analysisVars => [B!Next]_(B!vars)
    BY DEF AnalysisNext, analysisVars, backtestVars, B!vars
  <1>4. [AnalysisNext]_analysisVars => [C!Next]_(C!vars)
    BY DEF AnalysisNext, analysisVars, candleVars, C!vars
  <1> QED BY <1>1, <1>2, <1>3, <1>4, PTL DEF AnalysisSpec, Spec, B!Spec, C!Spec

(* The instance of Backtest and the one that its proofs are about.         *)
LEMMA SameBacktest ==
    /\ B!BacktestAssumption <=> BP!BacktestAssumption
    /\ B!Init <=> BP!Init
    /\ B!Next <=> BP!Next
    /\ B!BooksClose <=> BP!BooksClose
    /\ B!WindowsIsolated <=> BP!WindowsIsolated
  <1>1. B!BacktestAssumption <=> BP!BacktestAssumption
    BY DEF B!BacktestAssumption, BP!BacktestAssumption, B!Made, BP!Made, B!Names, BP!Names
  <1>2. B!Init <=> BP!Init
    BY DEF B!Init, BP!Init, B!Fresh, BP!Fresh, B!NoPlan, BP!NoPlan
  <1>3. B!BooksClose <=> BP!BooksClose
    BY DEF B!BooksClose, BP!BooksClose
  <1>4. B!WindowsIsolated <=> BP!WindowsIsolated
    BY DEF B!WindowsIsolated, BP!WindowsIsolated, B!Closes, BP!Closes
  <1>5. B!Next <=> BP!Next
    BY DEF
       B!Fresh, BP!Fresh, B!NoPlan, BP!NoPlan, B!Next, BP!Next, B!StartBacktest,
       BP!StartBacktest, B!StartWalk, BP!StartWalk, B!BaselinesOf, BP!BaselinesOf, B!Default,
       BP!Default, B!BuyRow, BP!BuyRow, B!SellRow, BP!SellRow,
       B!HoldRow, BP!HoldRow, B!FinishRun, BP!FinishRun, B!NextWindow, BP!NextWindow, B!Respond,
       BP!Respond, B!Begin, BP!Begin, B!Window, BP!Window, B!Fits, BP!Fits, B!Busy, BP!Busy,
       B!InRows, BP!InRows, B!Now, BP!Now, B!FirstRow, BP!FirstRow, B!LastRow, BP!LastRow,
       B!Close, BP!Close, B!Strategy, BP!Strategy, B!SignalsOf, BP!SignalsOf, B!Signals,
       BP!Signals, B!Crossing, BP!Crossing, B!Warm, BP!Warm, B!Fast, BP!Fast, B!Slow, BP!Slow,
       B!Rolling, BP!Rolling, B!Slice, BP!Slice, B!Pass, BP!Pass, B!Bought, BP!Bought, B!Sold,
       BP!Sold, B!CanBuy,
       BP!CanBuy, B!CanSell, BP!CanSell, B!QuantityBought, BP!QuantityBought, B!Target,
       BP!Target, B!CostOf, BP!CostOf, B!BuyPrice, BP!BuyPrice, B!SellPrice, BP!SellPrice, B!Fee,
       BP!Fee, B!Equity, BP!Equity, B!Lower, BP!Lower, B!Result, BP!Result, B!Restarted,
       BP!Restarted
  <1> QED BY <1>1, <1>2, <1>3, <1>4, <1>5

(* What holds of a backtest at any time, in the terms of Backtest. *)
LEMMA BacktestInvariant ==
    /\ B!Init => BP!Inv /\ BP!Apart /\ BP!Solvent
    /\ BP!Inv /\ [B!Next]_(B!vars) => BP!Inv'
    /\ BP!Inv /\ BP!Apart /\ [B!Next]_(B!vars) => BP!Apart'
    /\ FeeRate <= Base /\ BP!Inv /\ BP!Solvent /\ [B!Next]_(B!vars) => BP!Solvent'
  <1>1. BP!BacktestAssumption
    BY AnalysisAssumption, SameBacktest
  <1>2. B!Init => BP!Inv /\ BP!Apart
    BY <1>1, BP!InitInv, BP!InitApart, SameBacktest
  <1>3. B!Init => BP!Solvent
    BY <1>1, SameBacktest DEF BP!Init, BP!Fresh, BP!Solvent, BP!BacktestAssumption
  <1>4. [B!Next]_(B!vars) <=> [BP!Next]_(BP!vars)
    BY SameBacktest DEF B!vars, BP!vars
  <1> QED BY <1>1, <1>2, <1>3, <1>4, BP!InvStep, BP!ApartStep, BP!SolventStep

(* The cash of a backtest follows from its round trips, whatever else the  *)
(* API computes, and is not negative for fees of at most what they are     *)
(* charged on.                                                             *)
(* (PaperBacktester.run, compute_buy_fill, compute_sell_fill)              *)
THEOREM BacktestsClose == ASSUME FeeRate <= Base PROVE AnalysisSpec => []BooksClose
  <1>1. B!Init => BP!Inv /\ BP!Solvent
    BY BacktestInvariant
  <1>2. BP!Inv /\ BP!Solvent /\ [B!Next]_(B!vars) => (BP!Inv /\ BP!Solvent)'
    BY BacktestInvariant
  <1>3. BP!Inv /\ BP!Solvent => BooksClose
    BY SameBacktest DEF BooksClose, BP!BooksClose, BP!Inv, BP!Kept, BP!Reported, BP!AddsUp, BP!Solvent
  <1> QED BY <1>1, <1>2, <1>3, PartsBehave, PTL DEF B!Spec

(* A result depends on the closes of its own window alone, for all series, *)
(* windows, fees and sizes of a position.                                  *)
(* (run_walk_forward, PaperBacktester.run)                                 *)
THEOREM WindowsStayIsolated == AnalysisSpec => []WindowsIsolated
  <1>1. B!Init => BP!Inv /\ BP!Apart
    BY BacktestInvariant
  <1>2. BP!Inv /\ BP!Apart /\ [B!Next]_(B!vars) => (BP!Inv /\ BP!Apart)'
    BY BacktestInvariant
  <1>3. BP!Inv /\ BP!Apart => WindowsIsolated
    BY AnalysisAssumption, BP!ApartIsolates, SameBacktest DEF WindowsIsolated
  <1> QED BY <1>1, <1>2, <1>3, PartsBehave, PTL DEF B!Spec
-----------------------------------------------------------------------------
(* Buckets and the kinds of rows. *)

LEMMA MinIs == ASSUME NEW S \in SUBSET Int, NEW e \in S, \A i \in S : e <= i PROVE C!Min(S) = e
  <1>1. C!Min(S) \in S /\ \A i \in S : C!Min(S) <= i
    BY DEF C!Min
  <1>2. C!Min(S) <= e /\ e <= C!Min(S) /\ C!Min(S) \in Int /\ e \in Int
    BY <1>1
  <1> QED BY <1>2

LEMMA MaxIs == ASSUME NEW S \in SUBSET Int, NEW e \in S, \A i \in S : i <= e PROVE C!Max(S) = e
  <1>1. C!Max(S) \in S /\ \A i \in S : C!Max(S) >= i
    BY DEF C!Max
  <1>2. e <= C!Max(S) /\ C!Max(S) <= e /\ C!Max(S) \in Int /\ e \in Int
    BY <1>1
  <1> QED BY <1>2

(* The indices of some rows have a first and a last. *)
LEMMA EndsExist ==
    ASSUME NEW n \in Nat, NEW S \in SUBSET (1..n), S # {}
    PROVE  /\ C!Min(S) \in S /\ \A i \in S : C!Min(S) <= i
           /\ C!Max(S) \in S /\ \A i \in S : i <= C!Max(S)
  <1>1. PICK e \in S : \A i \in S : e <= i
    BY BP!LeastExists
  <1> DEFINE U == {u \in Nat : \A i \in S : i <= u}
  <1>2. U \in SUBSET Nat /\ n \in U
    OBVIOUS
  <1>3. PICK u \in U : \A v \in U : u <= v
    <2> HIDE DEF U
    <2> QED BY <1>2, BP!LeastExists
  <1>4. u \in S
    <2>1. SUFFICES ASSUME u \notin S PROVE FALSE
      OBVIOUS
    <2>2. u \in Nat /\ \A i \in S : i \in Nat /\ i <= u /\ i # u /\ i >= 1
      BY <1>3, <2>1
    <2>3. u >= 1
      BY <2>2
    <2>4. u - 1 \in Nat /\ \A i \in S : i <= u - 1
      BY <2>2, <2>3
    <2>5. u - 1 \in U
      BY <2>4
    <2>6. u <= u - 1
      <3> HIDE DEF U
      <3> QED BY <1>3, <2>5
    <2> QED BY <2>2, <2>6
  <1>5. C!Min(S) = e
    BY <1>1, MinIs
  <1>6. C!Max(S) = u
    BY <1>3, <1>4, MaxIs
  <1> QED BY <1>1, <1>3, <1>4, <1>5, <1>6

LEMMA Successor ==
    ASSUME NEW i \in Int, NEW j \in Int, NEW s \in Nat \ {0}, NEW a \in Int, a + s * i < a + s * j
    PROVE  a + s * i + s <= a + s * j
  <1>1. i < j
    <2>1. ASSUME j <= i PROVE FALSE
      <3>1. s * j <= s * i
        BY <2>1, SMT
      <3>2. s * i \in Int /\ s * j \in Int
        BY SMT
      <3> DEFINE x == s * i
                 y == s * j
      <3> HIDE DEF x, y
      <3>3. x \in Int /\ y \in Int /\ y <= x /\ a + x < a + y
        BY <3>1, <3>2 DEF x, y
      <3> QED BY <3>3
    <2> QED BY <2>1
  <1>2. s * (i + 1) <= s * j
    BY <1>1, SMT
  <1>3. s * (i + 1) = s * i + s
    BY SMT
  <1> DEFINE x == s * i
             y == s * j
             z == s * (i + 1)
  <1>4. x \in Int /\ y \in Int /\ z \in Int
    BY SMT
  <1> HIDE DEF x, y, z
  <1>5. z <= y /\ z = x + s
    BY <1>2, <1>3 DEF x, y, z
  <1>6. a + x + s <= a + y
    BY <1>4, <1>5
  <1> QED BY <1>6 DEF x, y

(* Buckets are whole numbers of their size from the origin. *)
LEMMA BucketGrid ==
    ASSUME NEW t \in Int, NEW s \in Nat \ {0}, NEW o \in Int
    PROVE  /\ C!Bucket(t, s, o) \in Int /\ C!Bucket(t, s, o) <= t /\ t < C!Bucket(t, s, o) + s
           /\ \E k \in Int : C!Bucket(t, s, o) = o + s * k
  <1> DEFINE u == t - o
             k == u \div s
  <1>1. u \in Int
    OBVIOUS
  <1>2. k \in Int /\ s * k <= u /\ u < s * k + s
    <2> HIDE DEF u
    <2> QED BY <1>1, SMT
  <1>3. k * s = s * k /\ s * k \in Int
    <2> HIDE DEF k
    <2> QED BY <1>2, SMT
  <1>4. C!Bucket(t, s, o) = o + s * k
    BY <1>3 DEF C!Bucket
  <1> DEFINE x == s * k
  <1> HIDE DEF k, x
  <1>5. x \in Int /\ x <= t - o /\ t - o < x + s /\ C!Bucket(t, s, o) = o + x
    BY <1>2, <1>3, <1>4 DEF x
  <1> QED BY <1>2, <1>4, <1>5

(* The buckets counted from 1970. *)
LEMMA EpochGrid ==
    ASSUME NEW t \in Int, NEW s \in Nat \ {0}
    PROVE  C!Bucket(t, s, 0) \in Int /\ \E k \in Int : C!Bucket(t, s, 0) = s * k
  <1> DEFINE o == 0
  <1>1. o \in Int
    OBVIOUS
  <1> HIDE DEF o
  <1>2. C!Bucket(t, s, o) \in Int
    BY <1>1, BucketGrid
  <1>3. PICK k \in Int : C!Bucket(t, s, o) = o + s * k
    BY <1>1, BucketGrid
  <1>4. o + s * k = s * k
    BY DEF o
  <1> QED BY <1>2, <1>3, <1>4 DEF o

LEMMA BucketOrder ==
    ASSUME NEW t \in Int, NEW u \in Int, NEW s \in Nat \ {0}, NEW o \in Int
    PROVE  /\ t <= u => C!Bucket(t, s, o) <= C!Bucket(u, s, o)
           /\ C!Bucket(t, s, o) < C!Bucket(u, s, o) => C!Bucket(t, s, o) + s <= C!Bucket(u, s, o)
  <1> DEFINE b == C!Bucket(t, s, o)
             c == C!Bucket(u, s, o)
  <1>1. PICK k \in Int : b = o + s * k
    BY BucketGrid
  <1>2. PICK l \in Int : c = o + s * l
    BY BucketGrid
  <1>3. b \in Int /\ c \in Int /\ b <= t /\ t < b + s /\ c <= u /\ u < c + s
    BY BucketGrid
  <1> HIDE DEF b, c
  <1>4. b < c => b + s <= c
    BY <1>1, <1>2, Successor
  <1>5. c < b => c + s <= b
    BY <1>1, <1>2, Successor
  <1>6. t <= u => b <= c
    BY <1>3, <1>5
  <1> QED BY <1>4, <1>6 DEF b, c

(* The bucket of t is the one on the grid that t is in. *)
LEMMA BucketIs ==
    ASSUME NEW t \in Int, NEW s \in Nat \ {0}, NEW o \in Int, NEW b \in Int,
           NEW k \in Int, b = o + s * k, b <= t, t < b + s
    PROVE  C!Bucket(t, s, o) = b
  <1> DEFINE c == C!Bucket(t, s, o)
  <1>1. c \in Int /\ c <= t /\ t < c + s
    BY BucketGrid
  <1>2. PICK l \in Int : c = o + s * l
    BY BucketGrid
  <1> HIDE DEF c
  <1>3. (b < c => b + s <= c) /\ (c < b => c + s <= b)
    BY <1>2, Successor
  <1>4. c = b
    BY <1>1, <1>3
  <1> QED BY <1>4 DEF c

LEMMA Multiple ==
    ASSUME NEW a \in Int, NEW s \in Nat \ {0}
    PROVE  a % s = 0 <=> \E i \in Int : a = s * i
  <1> DEFINE d == a \div s
             m == a % s
  <1>1. d \in Int /\ m \in Int /\ 0 <= m /\ m < s /\ a = s * d + m
    BY SMT
  <1> HIDE DEF d, m
  <1>2. s * d \in Int
    BY <1>1
  <1>3. m = 0 => a = s * d
    BY <1>1, <1>2
  <1>4. ASSUME NEW i \in Int, a = s * i, m # 0 PROVE FALSE
    <2> DEFINE x == s * d
               y == s * i
    <2>1. 0 + x < 0 + y => 0 + x + s <= 0 + y
      BY <1>1, Successor
    <2>2. x \in Int /\ y \in Int /\ y = x + m
      BY <1>1, <1>2, <1>4
    <2> HIDE DEF x, y
    <2> QED BY <1>1, <1>4, <2>1, <2>2
  <1> QED BY <1>1, <1>3, <1>4 DEF m

Ordered(rows) == \A i, j \in DOMAIN rows : i <= j => rows[i].time <= rows[j].time

(* What is known of the rows and the request. *)
LEMMA InputTypes ==
    ASSUME NEW c \in Contents, NEW q \in Requests
    PROVE  /\ \A k \in C!Kinds : c[k] \in Seq(C!Row) /\ Ordered(c[k])
           /\ q.start \in Int /\ q.end \in Int /\ q.start <= q.end
           /\ q.size \in Nat \ {0} /\ q.max \in Nat \ {0} /\ C!OriginOf(q) \in Int
           /\ q.source = "auto" \/ q.source \in C!Kinds
  BY AnalysisAssumption DEF C!CandlesAssumption, Ordered, C!OriginOf

LEMMA FirstWithIsKind ==
    ASSUME NEW kinds \in Seq(C!Kinds), NEW c, NEW from, NEW to
    PROVE  C!FirstWith(kinds, c, from, to) \in C!Kinds
  <1> DEFINE found == {i \in DOMAIN kinds : C!InRange(c[kinds[i]], from, to) # {}}
  <1>1. Len(kinds) \in Nat /\ found \in SUBSET (1..Len(kinds))
    OBVIOUS
  <1>2. found # {} => C!Min(found) \in found
    <2> HIDE DEF found
    <2> QED BY <1>1, EndsExist
  <1>3. found # {} => kinds[C!Min(found)] \in C!Kinds
    <2> SUFFICES ASSUME found # {} PROVE kinds[C!Min(found)] \in C!Kinds
      OBVIOUS
    <2> DEFINE m == C!Min(found)
    <2>1. m \in 1..Len(kinds)
      <3> HIDE DEF found
      <3> QED BY <1>1, <1>2
    <2> HIDE DEF m
    <2> QED BY <2>1 DEF m
  <1>4. "none" \in C!Kinds
    BY DEF C!Kinds
  <1> HIDE DEF found
  <1> QED BY <1>3, <1>4 DEF C!FirstWith, found

LEMMA KindNames ==
    /\ "ticks" \in C!Kinds /\ "market_trades" \in C!Kinds /\ "prices" \in C!Kinds /\ "none" \in C!Kinds
    /\ "ticks_1s" \in C!Kinds /\ "ticks_3s" \in C!Kinds /\ "ticks_5s" \in C!Kinds /\ "ticks_7s" \in C!Kinds
  BY DEF C!Kinds, C!Views

LEMMA SourceIsKind ==
    ASSUME NEW c \in Contents, NEW q \in Requests
    PROVE  C!Source(c, q) \in C!Kinds /\ C!GapSource(c, q) \in C!Kinds
  <1>1. C!Loadable \in Seq(C!Kinds)
    BY KindNames DEF C!Loadable
  <1>2. C!Searched(q) \in Seq(C!Kinds)
    BY KindNames DEF C!Searched
  <1>3. q.source = "auto" \/ q.source \in C!Kinds
    BY InputTypes
  <1>4. C!Source(c, q) \in C!Kinds
    BY <1>1, <1>3, KindNames, FirstWithIsKind DEF C!Source
  <1>5. C!GapSource(c, q) \in C!Kinds
    BY <1>2, <1>3, FirstWithIsKind DEF C!GapSource
  <1> QED BY <1>4, <1>5
-----------------------------------------------------------------------------
(* Gaps. *)

MissingNow == C!Missing(tables[request.kind], request)

Covers(range, b) == range.start <= b /\ b < range.end

RangeSet == [start : Int, end : Int, buckets : Nat]

(* A range begins at a bucket, has none with data and counts those it has. *)
Honest(range, size, buckets, missing) ==
    /\ range.start \in buckets
    /\ range.end = range.start + range.buckets * size
    /\ \A b \in buckets : Covers(range, b) => b \in missing

(* The ranges so far end before all buckets that are left, one before the  *)
(* other, and cover the other missing ones.                                *)
Joined(ranges, left, size, buckets, missing) ==
    /\ left \subseteq missing /\ ranges \in Seq(RangeSet)
    /\ \A n \in DOMAIN ranges : n > 1 => ranges[n].start > ranges[n - 1].end
    /\ \A n \in DOMAIN ranges : Honest(ranges[n], size, buckets, missing)
    /\ \A n \in DOMAIN ranges, b \in left : ranges[n].end <= b
    /\ \A b \in missing \ left : \E n \in DOMAIN ranges : Covers(ranges[n], b)

JoinInv ==
    phase \in {"joining", "gaps"} =>
        /\ request.size \in Nat \ {0} /\ request.start \in Int /\ request.origin \in Int
        /\ tables[request.kind] \in Seq(C!Row)
        /\ phase = "gaps" => todo = {}
        /\ Joined(answer, todo, request.size, C!BucketsOf(request), MissingNow)

LEMMA MissingAreBuckets == MissingNow \subseteq C!BucketsOf(request)
  BY DEF MissingNow, C!Missing

(* Buckets are whole numbers of bucket sizes apart. *)
LEMMA Grid ==
    ASSUME request.size \in Nat \ {0}, request.start \in Int,
           NEW b \in C!BucketsOf(request), NEW c \in C!BucketsOf(request)
    PROVE  b \in Int /\ c \in Int /\ (b < c => b + request.size <= c)
  <1> DEFINE s == request.size
             a == C!AlignedStart(request)
  <1>1. s \in Nat \ {0}
    OBVIOUS
  <1>2. a \in Int
    BY BucketGrid DEF C!AlignedStart
  <1>3. PICK i \in Int : b = a + s * i
    BY DEF C!BucketsOf
  <1>4. PICK j \in Int : c = a + s * j
    BY DEF C!BucketsOf
  <1> HIDE DEF a, s
  <1>5. s * i \in Int /\ s * j \in Int
    BY <1>1
  <1>6. b \in Int /\ c \in Int
    BY <1>2, <1>3, <1>4, <1>5
  <1>7. b < c => b + s <= c
    BY <1>1, <1>2, <1>3, <1>4, Successor
  <1> QED BY <1>6, <1>7 DEF s

LEMMA JoinBegins ==
    ASSUME C!DetectGaps
    PROVE  JoinInv'
  <1>1. PICK c \in Contents, q \in Requests :
            LET kind == C!GapSource(c, q)
                next == C!Accepted(q, q.size, kind, C!OriginOf(q))
            IN  /\ tables' = c /\ request' = next /\ todo' = C!Missing(c[kind], next)
                /\ phase' = "joining" /\ answer' = <<>>
    BY DEF C!DetectGaps
  <1> DEFINE kind == C!GapSource(c, q)
             next == C!Accepted(q, q.size, kind, C!OriginOf(q))
  <1>2. /\ next.start = q.start /\ next.size = q.size /\ next.kind = kind
        /\ next.origin = C!OriginOf(q)
    BY DEF C!Accepted
  <1>3. kind \in C!Kinds
    BY SourceIsKind
  <1> HIDE DEF kind, next
  <1>4. /\ tables' = c /\ request' = next /\ todo' = C!Missing(c[kind], next)
        /\ phase' = "joining" /\ answer' = <<>>
    BY <1>1 DEF kind, next
  <1>5. todo' = MissingNow'
    BY <1>2, <1>4 DEF MissingNow
  <1>6. /\ request'.size \in Nat \ {0} /\ request'.start \in Int /\ request'.origin \in Int
        /\ tables'[request'.kind] \in Seq(C!Row)
    BY <1>2, <1>3, <1>4, InputTypes
  <1> QED BY <1>4, <1>5, <1>6 DEF JoinInv, Joined

(* The first of the buckets that are left; all are on a grid. *)
First(b, left, size, buckets) ==
    /\ b \in left /\ b \in Int /\ \A c \in left : b <= c
    /\ \A c \in buckets : c \in Int /\ (b < c => b + size <= c) /\ (c < b => c + size <= b)

(* Ranges whose last, the k-th, takes bucket b in beside what was covered. *)
Takes(next, ranges, k, b, size) ==
    /\ k \in Nat \ {0} /\ next \in Seq(RangeSet) /\ DOMAIN next = 1..k
    /\ \A m \in 1..(k - 1) : m \in DOMAIN ranges /\ next[m] = ranges[m]
    /\ k > 1 => next[k].start > ranges[k - 1].end
    /\ next[k].start <= b /\ next[k].end = b + size
    /\ \A m \in DOMAIN ranges, c \in Int :
           Covers(ranges[m], c) => \E l \in 1..k : Covers(next[l], c)

(* What a list of ranges is after a bucket that comes before the others. *)
LEMMA RangeJoins ==
    ASSUME NEW ranges, NEW next, NEW left, NEW size \in Nat \ {0}, NEW buckets, NEW missing,
           Joined(ranges, left, size, buckets, missing), missing \subseteq buckets,
           NEW b, First(b, left, size, buckets), NEW k, Takes(next, ranges, k, b, size),
           Honest(next[k], size, buckets, missing)
    PROVE  Joined(next, left \ {b}, size, buckets, missing)
  <1> USE DEF First, Takes
  <1>1. \A m \in 1..k : m # k => m \in 1..(k - 1)
    OBVIOUS
  <1>2. \A m \in DOMAIN next : next[m] \in RangeSet
    OBVIOUS
  <1>3. \A m \in DOMAIN next : m > 1 => next[m].start > next[m - 1].end
    <2> SUFFICES ASSUME NEW m \in 1..k, m > 1 PROVE next[m].start > next[m - 1].end
      OBVIOUS
    <2>1. m - 1 \in 1..(k - 1)
      OBVIOUS
    <2>2. CASE m = k
      BY <2>1, <2>2
    <2>3. CASE m # k
      BY <1>1, <2>1, <2>3 DEF Joined
    <2> QED BY <2>2, <2>3
  <1>4. \A m \in DOMAIN next : Honest(next[m], size, buckets, missing)
    BY <1>1 DEF Joined
  <1>5. \A m \in DOMAIN next, c \in left \ {b} : next[m].end <= c
    <2> SUFFICES ASSUME NEW m \in 1..k, NEW c \in left, c # b PROVE next[m].end <= c
      OBVIOUS
    <2>1. c \in Int /\ b + size <= c
      BY DEF Joined
    <2>2. CASE m = k
      BY <2>1, <2>2
    <2>3. CASE m # k
      BY <1>1, <2>3 DEF Joined
    <2> QED BY <2>2, <2>3
  <1>6. \A c \in missing \ (left \ {b}) : \E m \in DOMAIN next : Covers(next[m], c)
    <2> SUFFICES ASSUME NEW c \in missing, c \notin left \/ c = b
                 PROVE  \E m \in 1..k : Covers(next[m], c)
      OBVIOUS
    <2>1. CASE c = b
      <3>1. Covers(next[k], b)
        BY DEF Covers
      <3> QED BY <2>1, <3>1
    <2>2. CASE c \notin left
      <3>1. \E m \in DOMAIN ranges : Covers(ranges[m], c)
        BY <2>2 DEF Joined
      <3> QED BY <3>1
    <2> QED BY <2>1, <2>2
  <1> QED BY <1>3, <1>4, <1>5, <1>6 DEF Joined

(* The range that a bucket of the grid extends. *)
LEMMA Extended ==
    ASSUME NEW last \in RangeSet, NEW s \in Nat \ {0}, NEW b \in Int,
           NEW all, NEW missing, Honest(last, s, all, missing), last.end = b, b \in missing,
           \A c \in all : c \in Int /\ (b < c => b + s <= c)
    PROVE  LET next == [last EXCEPT !.end = b + s, !.buckets = @ + 1]
           IN  /\ next \in RangeSet /\ next.start = last.start /\ next.end = b + s
               /\ Honest(next, s, all, missing) /\ last.start <= b
  <1> DEFINE next == [last EXCEPT !.end = b + s, !.buckets = @ + 1]
             width == last.buckets * s
             wider == (last.buckets + 1) * s
  <1>1. last.start \in Int /\ last.end \in Int /\ last.buckets \in Nat
    BY DEF RangeSet
  <1>2. next = [start |-> last.start, end |-> b + s, buckets |-> last.buckets + 1]
    <2> DEFINE mid == [last EXCEPT !.end = b + s]
    <2>1. mid = [start |-> last.start, end |-> b + s, buckets |-> last.buckets]
      BY DEF RangeSet
    <2> HIDE DEF mid
    <2>2. [mid EXCEPT !.buckets = last.buckets + 1] =
             [start |-> last.start, end |-> b + s, buckets |-> last.buckets + 1]
      BY <2>1
    <2> QED BY <2>2 DEF mid
  <1>3. next \in RangeSet
    BY <1>1, <1>2 DEF RangeSet
  <1>4. width \in Nat /\ wider = width + s
    BY <1>1
  <1>5. b = last.start + width
    BY DEF Honest
  <1> HIDE DEF width, wider
  <1>6. b + s = last.start + wider
    BY <1>1, <1>4, <1>5
  <1>7. next.end = next.start + next.buckets * s
    BY <1>2, <1>6 DEF wider
  <1>8. \A c \in all : Covers(next, c) => c \in missing
    <2> SUFFICES ASSUME NEW c \in all, last.start <= c, c < b + s PROVE c \in missing
      BY <1>2 DEF Covers
    <2>1. c \in Int /\ ~(b < c)
      <3>1. c \in Int /\ (b < c => b + s <= c)
        OBVIOUS
      <3> QED BY <3>1
    <2>2. CASE c = b
      BY <2>2
    <2>3. CASE c < b
      BY <2>3 DEF Honest, Covers
    <2> QED BY <2>1, <2>2, <2>3
  <1>9. last.start <= b
    BY <1>1, <1>4, <1>5
  <1> QED BY <1>2, <1>3, <1>7, <1>8, <1>9 DEF Honest

(* A bucket that continues the last range, or opens the next. *)
LEMMA BucketJoins ==
    ASSUME JoinInv, C!JoinBucket
    PROVE  JoinInv'
  <1> DEFINE n == Len(answer)
             s == request.size
             all == C!BucketsOf(request)
  <1>1. PICK b \in todo :
            /\ \A later \in todo : b <= later
            /\ answer' = IF n > 0 /\ answer[n].end = b
                         THEN [answer EXCEPT ![n].end = b + s, ![n].buckets = @ + 1]
                         ELSE Append(answer, [start |-> b, end |-> b + s, buckets |-> 1])
            /\ todo' = todo \ {b}
            /\ UNCHANGED <<tables, request, phase>> /\ phase = "joining"
    BY DEF C!JoinBucket, C!Continues
  <1>2. s \in Nat \ {0} /\ request.start \in Int /\ Joined(answer, todo, s, all, MissingNow)
    BY <1>1 DEF JoinInv
  <1>3. todo \subseteq MissingNow /\ answer \in Seq(RangeSet) /\ MissingNow \subseteq all
    BY <1>2, MissingAreBuckets DEF Joined
  <1>4. /\ b \in all /\ b \in Int /\ First(b, todo, s, all)
        /\ \A c \in all : c \in Int /\ (b < c => b + s <= c) /\ (c < b => c + s <= b)
    <2>1. b \in all /\ \A c \in all : c \in Int /\ (b < c => b + s <= c) /\ (c < b => c + s <= b)
      BY <1>2, <1>3, Grid
    <2> QED BY <1>1, <2>1 DEF First
  <1>5. n \in Nat /\ DOMAIN answer = 1..n /\ \A k \in 1..n : answer[k] \in RangeSet
    BY <1>3
  <1>6. \A k \in 1..n : /\ answer[k].end <= b /\ Honest(answer[k], s, all, MissingNow)
                        /\ k > 1 => answer[k].start > answer[k - 1].end
    BY <1>2, <1>5 DEF Joined
  <1> HIDE DEF n, s, all
  <1>7. Joined(answer', todo', s, all, MissingNow)
    <2>1. CASE n > 0 /\ answer[n].end = b
      <3> DEFINE last == answer[n]
                 next == [last EXCEPT !.end = b + s, !.buckets = @ + 1]
      <3>1. last \in RangeSet /\ n \in 1..n
        BY <1>5, <2>1
      <3>2. last.end = b /\ Honest(last, s, all, MissingNow)
        BY <1>6, <2>1, <3>1
      <3>3. /\ next \in RangeSet /\ next.start = last.start /\ next.end = b + s
            /\ Honest(next, s, all, MissingNow) /\ last.start <= b
        <4> HIDE DEF last
        <4> QED BY <1>2, <1>3, <1>4, <3>1, <3>2, Extended
      <3>4. answer' = [answer EXCEPT ![n] = next]
        BY <1>1, <1>5, <2>1
      <3> HIDE DEF next
      <3>5. /\ answer' \in Seq(RangeSet) /\ DOMAIN answer' = 1..n
            /\ answer'[n] = next /\ \A m \in 1..(n - 1) : m \in 1..n /\ answer'[m] = answer[m]
        BY <1>3, <1>5, <3>1, <3>3, <3>4
      <3>7. \A m \in DOMAIN answer, c \in Int :
               Covers(answer[m], c) => \E l \in 1..n : Covers(answer'[l], c)
        <4> SUFFICES ASSUME NEW m \in 1..n, NEW c \in Int, Covers(answer[m], c)
                     PROVE  \E l \in 1..n : Covers(answer'[l], c)
          BY <1>5
        <4>1. CASE m = n
          <5>1. Covers(next, c)
            BY <1>2, <1>4, <3>2, <3>3, <4>1 DEF Covers
          <5> QED BY <3>1, <3>5, <5>1
        <4>2. CASE m # n
          <5>1. m \in 1..(n - 1)
            BY <1>5, <4>2
          <5> QED BY <3>5, <5>1
        <4> QED BY <4>1, <4>2
      <3>8. n \in Nat \ {0} /\ (n > 1 => next.start > answer[n - 1].end)
        BY <1>5, <1>6, <2>1, <3>1, <3>3
      <3>9. Takes(answer', answer, n, b, s)
        BY <1>5, <3>3, <3>5, <3>7, <3>8 DEF Takes
      <3>10. Honest(answer'[n], s, all, MissingNow)
        BY <3>3, <3>5
      <3>11. Joined(answer', todo \ {b}, s, all, MissingNow)
        BY <1>2, <1>3, <1>4, <3>9, <3>10, RangeJoins
      <3> QED BY <1>1, <3>11
    <2>2. CASE ~(n > 0 /\ answer[n].end = b)
      <3> DEFINE next == [start |-> b, end |-> b + s, buckets |-> 1]
      <3>1. answer' = Append(answer, next) /\ next \in RangeSet
        BY <1>1, <1>2, <1>4, <2>2 DEF RangeSet
      <3>2. Honest(next, s, all, MissingNow)
        <4>1. next.end = next.start + 1 * s
          BY <1>2, <1>4
        <4>2. \A c \in all : Covers(next, c) => c = b
          BY <1>2, <1>4 DEF Covers
        <4> QED BY <1>3, <4>1, <4>2 DEF Honest
      <3>3. next.start = b /\ next.end = b + s
        OBVIOUS
      <3> HIDE DEF next
      <3>4. /\ answer' \in Seq(RangeSet) /\ DOMAIN answer' = 1..(n + 1)
            /\ answer'[n + 1] = next /\ \A m \in 1..n : answer'[m] = answer[m]
        BY <1>3, <1>5, <3>1 DEF n
      <3>5. n + 1 > 1 => next.start > answer[n].end
        <4> SUFFICES ASSUME n > 0 PROVE b > answer[n].end
          BY <1>5, <3>3
        <4>1. n \in 1..n /\ answer[n].end \in Int
          BY <1>5 DEF RangeSet
        <4> QED BY <1>4, <1>6, <2>2, <4>1
      <3>6. \A m \in DOMAIN answer, c \in Int :
               Covers(answer[m], c) => \E l \in 1..(n + 1) : Covers(answer'[l], c)
        BY <1>5, <3>4
      <3>7. n + 1 \in Nat \ {0} /\ (n + 1) - 1 = n
        BY <1>5
      <3>8. Takes(answer', answer, n + 1, b, s)
        BY <1>4, <1>5, <3>3, <3>4, <3>5, <3>6, <3>7 DEF Takes
      <3>9. Honest(answer'[n + 1], s, all, MissingNow)
        BY <3>2, <3>4
      <3>10. Joined(answer', todo \ {b}, s, all, MissingNow)
        BY <1>2, <1>3, <1>4, <3>8, <3>9, RangeJoins
      <3> QED BY <1>1, <3>10
    <2> QED BY <2>1, <2>2
  <1> QED BY <1>1, <1>2, <1>7 DEF JoinInv, MissingNow, s, all

LEMMA JoinStep == JoinInv /\ [C!Next]_(C!vars) => JoinInv'
  <1> SUFFICES ASSUME JoinInv, [C!Next]_(C!vars) PROVE JoinInv'
    OBVIOUS
  <1>1. CASE C!LoadCandles \/ C!MergeRow \/ C!CandlesReady \/ C!Respond
    BY <1>1 DEF C!LoadCandles, C!MergeRow, C!CandlesReady, C!Respond, JoinInv
  <1>2. CASE C!DetectGaps
    BY <1>2, JoinBegins
  <1>3. CASE C!JoinBucket
    BY <1>3, BucketJoins
  <1>4. CASE C!GapsReady
    BY <1>4 DEF C!GapsReady, JoinInv, MissingNow
  <1>5. CASE UNCHANGED C!vars
    BY <1>5 DEF C!vars, JoinInv, MissingNow
  <1> QED BY <1>1, <1>2, <1>3, <1>4, <1>5 DEF C!Next

(* What is missing, bucket by bucket. *)
LEMMA MissingIs ==
    ASSUME request.size \in Nat \ {0}, request.start \in Int, request.origin \in Int,
           tables[request.kind] \in Seq(C!Row), NEW b \in C!BucketsOf(request)
    PROVE  b \in MissingNow <=>
              ~(/\ C!GridsMeet(request)
                /\ \E i \in DOMAIN tables[request.kind] :
                      /\ b <= C!RowAt(i).time /\ C!RowAt(i).time < b + request.size
                      /\ C!RowAt(i).time <= C!AlignedEnd(request))
  <1> DEFINE rows == tables[request.kind]
             s == request.size
             o == request.origin
             a == C!AlignedStart(request)
             e == C!AlignedEnd(request)
  <1>1. s \in Nat \ {0} /\ o \in Int /\ a \in Int
    BY BucketGrid DEF C!AlignedStart
  <1>2. PICK j \in Int : a = s * j
    BY EpochGrid DEF C!AlignedStart
  <1>3. PICK n \in Nat : b = a + s * n
    BY DEF C!BucketsOf
  <1>4. \A i \in DOMAIN rows : C!RowAt(i) = rows[i] /\ rows[i].time \in Int
    <2>1. \A r \in C!Row : r.time \in Int
      BY DEF C!Row
    <2> QED BY <2>1 DEF C!RowAt
  <1>5. b \in MissingNow <=> \A i \in DOMAIN rows :
            a <= rows[i].time /\ rows[i].time <= e => C!Bucket(rows[i].time, s, o) # b
    BY DEF MissingNow, C!Missing, C!Counted, C!InRange
  <1> HIDE DEF rows, s, o, a, e
  <1>6. b \in Int /\ a <= b /\ b = s * (j + n)
    <2>1. s * n \in Nat /\ s * j \in Int /\ s * (j + n) = s * j + s * n
      BY <1>1
    <2> DEFINE x == s * n
               y == s * j
               z == s * (j + n)
    <2> HIDE DEF x, y, z
    <2>2. x \in Nat /\ y \in Int /\ z = y + x /\ a = y /\ b = a + x
      BY <1>2, <1>3, <2>1 DEF x, y, z
    <2>3. b \in Int /\ a <= b /\ b = z
      BY <1>1, <2>2
    <2> QED BY <2>3 DEF z
  <1>7. C!GridsMeet(request) <=> \E i \in Int : o = s * i
    BY <1>1, Multiple DEF C!GridsMeet, s, o
  <1>8. ASSUME NEW t \in Int, C!Bucket(t, s, o) = b
        PROVE  C!GridsMeet(request) /\ b <= t /\ t < b + s
    <2>1. PICK k \in Int : b = o + s * k
      BY <1>1, <1>8, BucketGrid
    <2>2. s * ((j + n) - k) = s * (j + n) - s * k /\ s * (j + n) \in Int /\ s * k \in Int
      BY <1>1
    <2> DEFINE x == s * (j + n)
               y == s * k
               z == s * ((j + n) - k)
    <2> HIDE DEF x, y, z
    <2>3. x \in Int /\ y \in Int /\ z = x - y /\ b = x /\ b = o + y
      BY <1>6, <2>1, <2>2 DEF x, y, z
    <2>4. o = z
      BY <1>1, <2>3
    <2>5. (j + n) - k \in Int
      BY <1>3
    <2> QED BY <1>1, <1>7, <1>8, <2>4, <2>5, BucketGrid DEF z
  <1>9. ASSUME NEW t \in Int, C!GridsMeet(request), b <= t, t < b + s
        PROVE  C!Bucket(t, s, o) = b /\ a <= t
    <2>1. PICK i \in Int : o = s * i
      BY <1>7, <1>9
    <2>2. s * ((j + n) - i) = s * (j + n) - s * i /\ s * (j + n) \in Int /\ s * i \in Int
      BY <1>1
    <2> DEFINE x == s * (j + n)
               y == s * i
               z == s * ((j + n) - i)
    <2> HIDE DEF x, y, z
    <2>3. x \in Int /\ y \in Int /\ z = x - y /\ b = x /\ o = y
      BY <1>6, <2>1, <2>2 DEF x, y, z
    <2>4. b = o + z
      BY <1>1, <2>3
    <2>5. (j + n) - i \in Int
      BY <1>3
    <2>6. C!Bucket(t, s, o) = b
      BY <1>1, <1>6, <1>9, <2>4, <2>5, BucketIs DEF z
    <2> QED BY <1>1, <1>6, <1>9, <2>6
  <1>10. b \in MissingNow <=>
            ~(/\ C!GridsMeet(request)
              /\ \E i \in DOMAIN rows : b <= rows[i].time /\ rows[i].time < b + s /\ rows[i].time <= e)
    BY <1>4, <1>5, <1>8, <1>9
  <1> QED BY <1>4, <1>10 DEF rows, s, e

(* With no bucket left the ranges are the gaps. *)
LEMMA JoinedIsExact == JoinInv => GapsExact
  <1> SUFFICES ASSUME JoinInv, phase = "gaps"
               PROVE  GapsExact
    BY DEF GapsExact, C!GapsExact
  <1>1. /\ todo = {} /\ Joined(answer, todo, request.size, C!BucketsOf(request), MissingNow)
        /\ request.size \in Nat \ {0} /\ request.start \in Int /\ request.origin \in Int
        /\ tables[request.kind] \in Seq(C!Row)
    BY DEF JoinInv
  <1>2. \A n \in DOMAIN answer :
           /\ answer[n].start \in C!BucketsOf(request)
           /\ answer[n].end = answer[n].start + answer[n].buckets * request.size
           /\ n > 1 => answer[n].start > answer[n - 1].end
    BY <1>1 DEF Joined, Honest
  <1>3. \A b \in C!BucketsOf(request) :
           (\E n \in DOMAIN answer : answer[n].start <= b /\ b < answer[n].end) <=> b \in MissingNow
    BY <1>1, MissingAreBuckets DEF Joined, Honest, Covers
  <1>4. \A b \in C!BucketsOf(request) :
           (\E n \in DOMAIN answer : answer[n].start <= b /\ b < answer[n].end) <=>
           ~(/\ C!GridsMeet(request)
             /\ \E i \in DOMAIN tables[request.kind] :
                   /\ b <= C!RowAt(i).time /\ C!RowAt(i).time < b + request.size
                   /\ C!RowAt(i).time <= C!AlignedEnd(request))
    BY <1>1, <1>3, MissingIs
  <1> QED BY <1>2, <1>4 DEF GapsExact, C!GapsExact

(* The ranges that a request for gaps answers are in order and apart, and  *)
(* together they are the buckets in which the source has no row counted,   *)
(* none twice and none left out: for every content of tables and views,    *)
(* every source and range, every bucket size, and both origins of buckets, *)
(* those of TimescaleDB that meet the request's buckets or do not.         *)
(* (detect_gaps_data, _coalesce_gap_ranges)                                *)
THEOREM GapsAreExact == AnalysisSpec => []GapsExact
  <1>1. C!Init => JoinInv
    BY DEF C!Init, JoinInv
  <1>2. JoinInv /\ [C!Next]_(C!vars) => JoinInv'
    BY JoinStep
  <1> QED BY <1>1, <1>2, JoinedIsExact, PartsBehave, PTL DEF C!Spec
-----------------------------------------------------------------------------
(* Sums.  C!SumFunctionOnSet takes one member after the other, in an order   *)
(* of its own; the lemmas say that the order does not matter.              *)

Taken(s) == CHOOSE x \in s : TRUE

(* g holds the sum of f over each part of T, one member taken at a time. *)
Sums(f, T, g) ==
    g = [s \in SUBSET T |-> IF s = {} THEN 0 ELSE f[Taken(s)] + g[s \ {Taken(s)}]]

LEMMA SumIsOne == ASSUME NEW f, NEW T PROVE C!SumFunctionOnSet(f, T) = (CHOOSE g : Sums(f, T, g))[T]
  BY DEF C!SumFunctionOnSet, C!FoldFunctionOnSet, C!MapThenFoldSet, Sums, Taken

LEMMA TakenIsMember == ASSUME NEW s, s # {} PROVE Taken(s) \in s
  BY DEF Taken

(* A part of a finite set without the member taken is smaller. *)
LEMMA Smaller ==
    ASSUME NEW s, IsFiniteSet(s), NEW x \in s
    PROVE  /\ IsFiniteSet(s \ {x}) /\ Cardinality(s \ {x}) \in Nat
           /\ Cardinality(s) \in Nat /\ Cardinality(s \ {x}) = Cardinality(s) - 1
  BY FS_RemoveElement, FS_CardinalityType

(* Of a family of finite sets that has a member, one is smallest. *)
LEMMA SmallestSet ==
    ASSUME NEW F, F # {}, \A s \in F : IsFiniteSet(s)
    PROVE  \E m \in F : \A k \in F : Cardinality(m) <= Cardinality(k)
  <1> DEFINE S == {Cardinality(s) : s \in F}
  <1>1. S \in SUBSET Nat /\ S # {}
    BY FS_CardinalityType
  <1>2. PICK c \in S : \A k \in S : c <= k
    <2> HIDE DEF S
    <2> QED BY <1>1, BP!LeastExists
  <1> QED BY <1>2

(* Up to every size of parts, and so for all of them, the sums exist. *)
LEMMA SumsExist ==
    ASSUME NEW T, IsFiniteSet(T), NEW f
    PROVE  \E g : Sums(f, T, g)
  <1> DEFINE Of(g, s) == IF s = {} THEN 0 ELSE f[Taken(s)] + g[s \ {Taken(s)}]
             Upto(n) == \E g : /\ DOMAIN g = SUBSET T /\ g = [s \in SUBSET T |-> g[s]]
                               /\ \A s \in SUBSET T : Cardinality(s) <= n => g[s] = Of(g, s)
             Bad == {n \in Nat : ~Upto(n)}
  <1>0. \A s \in SUBSET T : IsFiniteSet(s) /\ Cardinality(s) \in Nat /\ (Cardinality(s) = 0 <=> s = {})
    BY FS_Subset, FS_CardinalityType, FS_EmptySet
  <1>1. Bad = {}
    <2> SUFFICES ASSUME Bad # {} PROVE FALSE
      OBVIOUS
    <2>1. PICK n \in Bad : \A k \in Bad : n <= k
      <3>1. Bad \in SUBSET Nat
        OBVIOUS
      <3> HIDE DEF Bad
      <3> QED BY <3>1, BP!LeastExists
    <2>2. CASE n = 0
      <3> DEFINE g == [s \in SUBSET T |-> 0]
      <3>1. \A s \in SUBSET T : Cardinality(s) <= 0 => g[s] = Of(g, s)
        BY <1>0
      <3>2. Upto(0)
        BY <3>1
      <3> QED BY <2>1, <2>2, <3>2
    <2>3. CASE n # 0
      <3>1. n \in Nat /\ n - 1 \in Nat /\ Upto(n - 1)
        <4> HIDE DEF Upto
        <4>1. n \in Nat /\ n - 1 \in Nat /\ n - 1 \notin Bad
          <5>1. n \in Nat /\ n - 1 \in Nat
            BY <2>1, <2>3
          <5> HIDE DEF Bad
          <5> QED BY <2>1, <5>1
        <4> QED BY <4>1
      <3>2. PICK h : /\ DOMAIN h = SUBSET T
                     /\ \A s \in SUBSET T : Cardinality(s) <= n - 1 => h[s] = Of(h, s)
        BY <3>1
      <3> DEFINE g == [s \in SUBSET T |-> IF Cardinality(s) = n THEN Of(h, s) ELSE h[s]]
      <3>3. \A s \in SUBSET T : s # {} => /\ Taken(s) \in s /\ s \ {Taken(s)} \in SUBSET T
                                          /\ Cardinality(s \ {Taken(s)}) = Cardinality(s) - 1
        BY <1>0, Smaller, TakenIsMember
      <3>4. ASSUME NEW s \in SUBSET T, Cardinality(s) <= n PROVE g[s] = Of(g, s)
        <4>1. Of(g, s) = Of(h, s)
          <5>1. CASE s = {}
            BY <5>1
          <5>2. CASE s # {}
            <6> DEFINE t == s \ {Taken(s)}
            <6>1. t \in SUBSET T /\ Cardinality(t) # n
              BY <1>0, <3>1, <3>3, <3>4, <5>2
            <6>2. g[t] = h[t]
              <7> HIDE DEF t
              <7> QED BY <6>1
            <6> HIDE DEF g
            <6> QED BY <5>2, <6>2
          <5> QED BY <5>1, <5>2
        <4>2. CASE Cardinality(s) = n
          BY <4>1, <4>2
        <4>3. CASE Cardinality(s) # n
          <5>1. Cardinality(s) <= n - 1
            BY <1>0, <3>1, <3>4, <4>3
          <5>2. g[s] = h[s]
            BY <4>3
          <5> HIDE DEF g, Of
          <5> QED BY <3>2, <4>1, <5>1, <5>2
        <4> QED BY <4>2, <4>3
      <3>5. Upto(n)
        <4>1. DOMAIN g = SUBSET T /\ g = [s \in SUBSET T |-> g[s]]
          OBVIOUS
        <4> HIDE DEF g, Of
        <4> QED BY <3>4, <4>1
      <3> QED BY <2>1, <3>5
    <2> QED BY <2>2, <2>3
  <1>2. Upto(Cardinality(T))
    <2>1. Cardinality(T) \in Nat
      BY FS_CardinalityType
    <2> HIDE DEF Upto
    <2> QED BY <1>1, <2>1
  <1>3. PICK g : /\ g = [s \in SUBSET T |-> g[s]]
                 /\ \A s \in SUBSET T : Cardinality(s) <= Cardinality(T) => g[s] = Of(g, s)
    BY <1>2
  <1>4. \A s \in SUBSET T : Cardinality(s) <= Cardinality(T)
    BY FS_Subset
  <1>5. g = [s \in SUBSET T |-> Of(g, s)]
    <2> HIDE DEF Of
    <2> QED BY <1>3, <1>4
  <1> QED BY <1>5 DEF Sums

LEMMA SumIsOf ==
    ASSUME NEW T, IsFiniteSet(T), NEW f
    PROVE  \E g : Sums(f, T, g) /\ C!SumFunctionOnSet(f, T) = g[T]
  BY SumIsOne, SumsExist

(* Sums over parts of a set depend on the values there alone. *)
LEMMA SumsAgree ==
    ASSUME NEW T, IsFiniteSet(T), NEW U \in SUBSET T, NEW f, NEW h, NEW g, NEW k,
           \A x \in U : f[x] = h[x], Sums(f, T, g), Sums(h, U, k)
    PROVE  g[U] = k[U]
  <1> DEFINE F == {s \in SUBSET U : g[s] # k[s]}
  <1>1. SUFFICES ASSUME F # {} PROVE FALSE
    OBVIOUS
  <1>2. \A s \in SUBSET T : IsFiniteSet(s)
    BY FS_Subset
  <1>3. PICK m \in F : \A s \in F : Cardinality(m) <= Cardinality(s)
    <2>1. \A s \in F : IsFiniteSet(s)
      BY <1>2
    <2> HIDE DEF F
    <2> QED BY <1>1, <2>1, SmallestSet
  <1>4. m # {}
    BY <1>3 DEF Sums
  <1> DEFINE x == Taken(m)
  <1>5. x \in m
    BY <1>4, TakenIsMember
  <1>6. m \ {x} \in SUBSET U /\ m \ {x} \notin F
    <2>1. Cardinality(m \ {x}) = Cardinality(m) - 1 /\ Cardinality(m) \in Nat
      BY <1>2, <1>3, <1>5, Smaller
    <2> HIDE DEF F, x
    <2> QED BY <1>3, <2>1 DEF F
  <1>7. g[m \ {x}] = k[m \ {x}]
    BY <1>6
  <1>8. g[m] = f[x] + g[m \ {x}] /\ k[m] = h[x] + k[m \ {x}]
    <2>1. m \in SUBSET T /\ m \in SUBSET U
      BY <1>3
    <2> HIDE DEF F
    <2> QED BY <1>4, <2>1 DEF Sums
  <1> QED BY <1>3, <1>5, <1>7, <1>8

(* Any member adds its value. *)
LEMMA SumsAdd ==
    ASSUME NEW T, IsFiniteSet(T), NEW f, \A x \in T : f[x] \in Int, NEW g, Sums(f, T, g)
    PROVE  \A s \in SUBSET T : g[s] \in Int /\ \A x \in T \ s : g[s \cup {x}] = g[s] + f[x]
  <1> DEFINE F == {s \in SUBSET T : ~(g[s] \in Int /\ \A x \in T \ s : g[s \cup {x}] = g[s] + f[x])}
  <1>1. SUFFICES ASSUME F # {} PROVE FALSE
    OBVIOUS
  <1>2. \A s \in SUBSET T : IsFiniteSet(s)
    BY FS_Subset
  <1>3. PICK m \in F : \A s \in F : Cardinality(m) <= Cardinality(s)
    <2>1. \A s \in F : IsFiniteSet(s)
      BY <1>2
    <2> HIDE DEF F
    <2> QED BY <1>1, <2>1, SmallestSet
  <1>4. ASSUME NEW s \in SUBSET m, NEW x \in m, x \notin s
        PROVE  g[s] \in Int /\ \A y \in T \ s : g[s \cup {y}] = g[s] + f[y]
    <2>1. IsFiniteSet(m) /\ IsFiniteSet(m \ {x}) /\ s \in SUBSET (m \ {x}) /\ s \in SUBSET T
      BY <1>2, <1>3, <1>4
    <2>2. Cardinality(s) <= Cardinality(m \ {x}) /\ Cardinality(s) \in Nat
      BY <2>1, FS_Subset, FS_CardinalityType
    <2>3. Cardinality(m \ {x}) = Cardinality(m) - 1 /\ Cardinality(m) \in Nat
      BY <2>1, <1>4, Smaller
    <2>4. s \notin F
      <3> HIDE DEF F
      <3> QED BY <1>3, <2>2, <2>3
    <2> QED BY <2>1, <2>4
  <1>5. \A s \in SUBSET T : s # {} => g[s] = f[Taken(s)] + g[s \ {Taken(s)}] /\ Taken(s) \in s
    BY TakenIsMember DEF Sums
  <1>6. g[{}] = 0
    BY DEF Sums
  <1>7. g[m] \in Int
    <2>1. CASE m = {}
      BY <1>6, <2>1
    <2>2. CASE m # {}
      <3>1. m \in SUBSET T /\ Taken(m) \in m /\ g[m] = f[Taken(m)] + g[m \ {Taken(m)}]
        BY <1>3, <1>5, <2>2
      <3>2. g[m \ {Taken(m)}] \in Int
        BY <1>4, <3>1
      <3> QED BY <3>1, <3>2
    <2> QED BY <2>1, <2>2
  <1>8. ASSUME NEW x \in T, x \notin m PROVE g[m \cup {x}] = g[m] + f[x]
    <2> DEFINE u == m \cup {x}
               p == Taken(u)
    <2>1. m \in SUBSET T /\ u \in SUBSET T /\ u # {}
      BY <1>3, <1>8
    <2>2. p \in u /\ g[u] = f[p] + g[u \ {p}]
      BY <1>5, <2>1
    <2>3. CASE p = x
      <3>1. u \ {p} = m
        BY <1>8, <2>3
      <3>2. f[x] \in Int
        BY <1>8
      <3>3. g[u] = f[x] + g[m]
        <4> HIDE DEF u
        <4> QED BY <2>2, <2>3, <3>1
      <3> QED BY <1>7, <3>2, <3>3
    <2>4. CASE p # x
      <3> DEFINE r == m \ {p}
      <3>1. p \in m /\ r \in SUBSET m /\ p \notin r /\ x \in T \ r /\ p \in T \ r
        BY <1>8, <2>1, <2>2, <2>4
      <3>2. u \ {p} = r \cup {x} /\ r \cup {p} = m
        BY <2>4, <3>1
      <3>3. g[r] \in Int /\ g[r \cup {x}] = g[r] + f[x] /\ g[r \cup {p}] = g[r] + f[p]
        <4> HIDE DEF r, p, u
        <4> QED BY <1>4, <3>1
      <3>4. f[x] \in Int /\ f[p] \in Int
        BY <3>1, <2>1
      <3>5. g[u] = f[p] + g[r \cup {x}] /\ g[m] = g[r \cup {p}]
        <4> HIDE DEF u, r, p
        <4> QED BY <2>2, <3>2
      <3>6. g[u] = g[m] + f[x]
        <4> HIDE DEF u, r, p
        <4> QED BY <3>3, <3>4, <3>5
      <3> QED BY <3>6
    <2> QED BY <2>3, <2>4
  <1> QED BY <1>3, <1>7, <1>8

(* The sum over a set with one member more. *)
LEMMA SumGrows ==
    ASSUME NEW S, IsFiniteSet(S), NEW x, x \notin S, NEW f, NEW h,
           \A y \in S \cup {x} : f[y] \in Int, \A y \in S : f[y] = h[y]
    PROVE  /\ C!SumFunctionOnSet(f, S \cup {x}) = C!SumFunctionOnSet(h, S) + f[x]
           /\ C!SumFunctionOnSet(f, S \cup {x}) \in Int /\ C!SumFunctionOnSet(h, S) \in Int
  <1> DEFINE T == S \cup {x}
  <1>1. IsFiniteSet(T)
    BY FS_AddElement
  <1> HIDE DEF T
  <1>2. PICK g : Sums(f, T, g) /\ C!SumFunctionOnSet(f, T) = g[T]
    BY <1>1, SumIsOf
  <1>3. PICK k : Sums(h, S, k) /\ C!SumFunctionOnSet(h, S) = k[S]
    BY SumIsOf
  <1>4. S \in SUBSET T /\ T \in SUBSET T /\ x \in T \ S /\ T = S \cup {x}
    BY DEF T
  <1>5. g[S] = k[S]
    BY <1>1, <1>2, <1>3, <1>4, SumsAgree
  <1>6. g[S] \in Int /\ g[T] \in Int /\ g[T] = g[S] + f[x]
    BY <1>1, <1>2, <1>4, SumsAdd
  <1> QED BY <1>2, <1>3, <1>4, <1>5, <1>6

LEMMA SumOfOne == ASSUME NEW x, NEW f, f[x] \in Int PROVE C!SumFunctionOnSet(f, {x}) = f[x]
  <1>1. IsFiniteSet({x})
    BY FS_Singleton
  <1>2. PICK g : Sums(f, {x}, g) /\ C!SumFunctionOnSet(f, {x}) = g[{x}]
    BY <1>1, SumIsOf
  <1>3. Taken({x}) = x
    BY TakenIsMember
  <1>4. g[{}] = 0 /\ g[{x}] = f[x] + g[{x} \ {x}]
    BY <1>2, <1>3 DEF Sums
  <1>5. g[{x} \ {x}] = 0
    <2>1. {x} \ {x} = {}
      OBVIOUS
    <2> QED BY <1>4, <2>1
  <1>6. g[{x}] = f[x]
    BY <1>4, <1>5
  <1> QED BY <1>2, <1>6
-----------------------------------------------------------------------------
(* Candles. *)

(* What candle c says of the rows with the indices R. *)
Describes(c, rows, R) ==
    /\ \E e \in R : (\A i \in R : rows[e].time <= rows[i].time) /\ c.open = rows[e].open
    /\ \E e \in R : /\ \A i \in R : rows[i].time <= rows[e].time
                    /\ c.close = rows[e].close /\ c.until = rows[e].time
    /\ \E e \in R : (\A i \in R : rows[i].high <= rows[e].high) /\ c.high = rows[e].high
    /\ \E e \in R : (\A i \in R : rows[i].low >= rows[e].low) /\ c.low = rows[e].low
    /\ c.volume = C!SumFunctionOnSet([i \in R |-> rows[i].volume], R)

LEMMA HigherLower ==
    ASSUME NEW a \in Nat, NEW b \in Nat
    PROVE  /\ C!Max({a, b}) = IF a >= b THEN a ELSE b
           /\ C!Min({a, b}) = IF a <= b THEN a ELSE b
           /\ C!Max({a, b}) \in Nat /\ C!Min({a, b}) \in Nat
  <1>1. \E x \in {a, b} : \A y \in {a, b} : x >= y
    OBVIOUS
  <1>2. \E x \in {a, b} : \A y \in {a, b} : x <= y
    OBVIOUS
  <1>3. C!Max({a, b}) \in {a, b} /\ \A y \in {a, b} : C!Max({a, b}) >= y
    BY <1>1 DEF C!Max
  <1>4. C!Min({a, b}) \in {a, b} /\ \A y \in {a, b} : C!Min({a, b}) <= y
    BY <1>2 DEF C!Min
  <1> QED BY <1>3, <1>4

(* A candle of one row describes it. *)
LEMMA OneRow ==
    ASSUME NEW rows \in Seq(C!Row), NEW i \in DOMAIN rows, NEW b \in Int
    PROVE  /\ Describes(C!Opened(rows[i], b), rows, {i})
           /\ C!Opened(rows[i], b) \in C!Candle /\ C!Opened(rows[i], b).time = b
  <1> DEFINE r == rows[i]
             c == C!Opened(r, b)
             f == [k \in {i} |-> rows[k].volume]
  <1>1. r \in C!Row /\ i \in Nat
    OBVIOUS
  <1>2. f[i] = r.volume /\ r.volume \in Int
    BY <1>1 DEF C!Row
  <1>3. C!SumFunctionOnSet(f, {i}) = r.volume
    <2> HIDE DEF f, r
    <2> QED BY <1>2, SumOfOne
  <1>4. /\ c.open = r.open /\ c.close = r.close /\ c.high = r.high /\ c.low = r.low /\ c.volume = r.volume
        /\ c.time = b /\ c.until = r.time /\ c \in C!Candle
        /\ r.high \in Nat /\ r.low \in Nat /\ r.time \in Int
    <2> HIDE DEF r
    <2> QED BY <1>1 DEF C!Row, C!Opened, C!Candle
  <1> HIDE DEF c, f
  <1>5. Describes(c, rows, {i})
    BY <1>1, <1>3, <1>4 DEF Describes, f
  <1> QED BY <1>4, <1>5 DEF c

LEMMA NatSum == ASSUME NEW a \in Nat, NEW b \in Nat PROVE a + b \in Nat
  OBVIOUS

(* A later row merged into a candle is described with the others. *)
LEMMA MergedRow ==
    ASSUME NEW rows \in Seq(C!Row), NEW R \in SUBSET DOMAIN rows, IsFiniteSet(R),
           NEW i \in DOMAIN rows, \A k \in R : k < i /\ rows[k].time <= rows[i].time,
           NEW c \in C!Candle, Describes(c, rows, R),
           NEW close \in Nat, close = rows[i].close \/ (close = c.close /\ rows[i].time = c.until)
    PROVE  /\ Describes(C!Merged(c, rows[i], close), rows, R \cup {i})
           /\ C!Merged(c, rows[i], close) \in C!Candle /\ C!Merged(c, rows[i], close).time = c.time
  <1> DEFINE r == rows[i]
             m == C!Merged(c, r, close)
             f == [k \in R \cup {i} |-> rows[k].volume]
             h == [k \in R |-> rows[k].volume]
  <1>1. r \in C!Row /\ i \in Nat /\ \A k \in R : rows[k] \in C!Row /\ k \in Nat
    OBVIOUS
  <1>2. /\ r.open \in Nat /\ r.high \in Nat /\ r.low \in Nat /\ r.close \in Nat /\ r.volume \in Nat
        /\ r.trades \in Nat /\ r.time \in Int
        /\ c.open \in Nat /\ c.high \in Nat /\ c.low \in Nat /\ c.close \in Nat /\ c.volume \in Nat
        /\ c.trades \in Nat /\ c.time \in Int /\ c.until \in Int
        /\ \A k \in R : rows[k].high \in Nat /\ rows[k].low \in Nat /\ rows[k].volume \in Nat /\ rows[k].time \in Int
    <2> HIDE DEF r
    <2> QED BY <1>1 DEF C!Row, C!Candle
  <1>3. /\ m.high = (IF c.high >= r.high THEN c.high ELSE r.high)
        /\ m.low = (IF c.low <= r.low THEN c.low ELSE r.low)
        /\ m.open = c.open /\ m.close = close /\ m.volume = c.volume + r.volume
        /\ m.time = c.time /\ m.until = r.time /\ m \in C!Candle
    <2>1. /\ C!Max({c.high, r.high}) = IF c.high >= r.high THEN c.high ELSE r.high
          /\ C!Min({c.low, r.low}) = IF c.low <= r.low THEN c.low ELSE r.low
          /\ C!Max({c.high, r.high}) \in Nat /\ C!Min({c.low, r.low}) \in Nat
      BY <1>2, HigherLower
    <2> DEFINE high == C!Max({c.high, r.high})
               low == C!Min({c.low, r.low})
               volume == c.volume + r.volume
               trades == c.trades + r.trades
    <2>2. m = [c EXCEPT !.high = high, !.low = low, !.close = close, !.volume = volume,
                        !.trades = trades, !.until = r.time]
      BY DEF C!Merged
    <2>3. high \in Nat /\ low \in Nat /\ volume \in Nat /\ trades \in Nat /\ close \in Nat /\ r.time \in Int
      <3>1. volume \in Nat /\ trades \in Nat
        BY <1>2, NatSum
      <3> QED BY <1>2, <2>1, <3>1
    <2> HIDE DEF m, high, low, volume, trades, r
    <2>4. /\ m.high = high /\ m.low = low /\ m.open = c.open /\ m.close = close /\ m.volume = volume
          /\ m.time = c.time /\ m.until = r.time /\ m \in C!Candle
      BY <2>2, <2>3 DEF C!Candle
    <2> QED BY <2>1, <2>4 DEF high, low, volume
  <1>4. c.volume + r.volume = C!SumFunctionOnSet(f, R \cup {i})
    <2>1. \A k \in R \cup {i} : f[k] \in Int
      <3>1. \A k \in R \cup {i} : f[k] = rows[k].volume
        OBVIOUS
      <3>2. ASSUME NEW k \in R \cup {i} PROVE rows[k].volume \in Int
        <4>1. rows[i].volume \in Nat /\ (k \in R => rows[k].volume \in Nat)
          BY <1>2
        <4> HIDE DEF f, h, m, r
        <4> QED BY <4>1
      <3> HIDE DEF f, h, m, r
      <3> QED BY <3>1, <3>2
    <2>2. \A k \in R : f[k] = h[k]
      OBVIOUS
    <2>3. f[i] = r.volume /\ i \notin R
      BY <1>1
    <2>4. c.volume = C!SumFunctionOnSet(h, R)
      BY DEF Describes
    <2> HIDE DEF f, h, r
    <2>5. C!SumFunctionOnSet(f, R \cup {i}) = C!SumFunctionOnSet(h, R) + f[i]
      BY <2>1, <2>2, <2>3, SumGrows
    <2> QED BY <2>3, <2>4, <2>5
  <1> HIDE DEF m, r, f, h
  <1>5. \E e \in R \cup {i} : (\A k \in R \cup {i} : rows[e].time <= rows[k].time) /\ m.open = rows[e].open
    <2>1. PICK e \in R : (\A k \in R : rows[e].time <= rows[k].time) /\ c.open = rows[e].open
      BY DEF Describes
    <2> QED BY <1>1, <1>3, <2>1
  <1>6. \E e \in R \cup {i} : /\ \A k \in R \cup {i} : rows[k].time <= rows[e].time
                              /\ m.close = rows[e].close /\ m.until = rows[e].time
    <2>1. CASE close = rows[i].close
      BY <1>2, <1>3, <2>1 DEF r
    <2>2. CASE close = c.close /\ rows[i].time = c.until
      <3>1. PICK e \in R : /\ \A k \in R : rows[k].time <= rows[e].time
                           /\ c.close = rows[e].close /\ c.until = rows[e].time
        BY DEF Describes
      <3>2. rows[i].time <= rows[e].time /\ m.until = rows[e].time
        BY <1>2, <1>3, <2>2, <3>1 DEF r
      <3> QED BY <1>3, <2>2, <3>1, <3>2
    <2> QED BY <2>1, <2>2
  <1>7. \E e \in R \cup {i} : (\A k \in R \cup {i} : rows[k].high <= rows[e].high) /\ m.high = rows[e].high
    <2>1. PICK e \in R : (\A k \in R : rows[k].high <= rows[e].high) /\ c.high = rows[e].high
      BY DEF Describes
    <2>2. CASE c.high >= r.high
      BY <1>2, <1>3, <2>1, <2>2 DEF r
    <2>3. CASE ~(c.high >= r.high)
      <3>1. ASSUME NEW k \in R PROVE rows[k].high <= rows[i].high
        <4>1. rows[k].high \in Nat /\ rows[i].high \in Nat /\ c.high \in Nat /\ rows[k].high <= c.high
          BY <1>2, <2>1 DEF r
        <4>2. ~(c.high >= rows[i].high)
          BY <2>3 DEF r
        <4> QED BY <4>1, <4>2
      <3> QED BY <1>2, <1>3, <2>3, <3>1 DEF r
    <2> QED BY <2>2, <2>3
  <1>8. \E e \in R \cup {i} : (\A k \in R \cup {i} : rows[k].low >= rows[e].low) /\ m.low = rows[e].low
    <2>1. PICK e \in R : (\A k \in R : rows[k].low >= rows[e].low) /\ c.low = rows[e].low
      BY DEF Describes
    <2>2. CASE c.low <= r.low
      BY <1>2, <1>3, <2>1, <2>2 DEF r
    <2>3. CASE ~(c.low <= r.low)
      <3>1. ASSUME NEW k \in R PROVE rows[k].low >= rows[i].low
        <4>1. rows[k].low \in Nat /\ rows[i].low \in Nat /\ c.low \in Nat /\ rows[k].low >= c.low
          BY <1>2, <2>1 DEF r
        <4>2. ~(c.low <= rows[i].low)
          BY <2>3 DEF r
        <4> QED BY <4>1, <4>2
      <3> QED BY <1>2, <1>3, <2>3, <3>1 DEF r
    <2> QED BY <2>2, <2>3
  <1>9. Describes(m, rows, R \cup {i})
    BY <1>3, <1>4, <1>5, <1>6, <1>7, <1>8 DEF Describes, f
  <1> QED BY <1>3, <1>9 DEF m, r

(* The rows among D in the bucket that begins at b. *)
Group(rows, size, o, D, b) == {i \in D : C!Bucket(rows[i].time, size, o) = b}

(* What the candles a say of the rows D: in the order of time, one for     *)
(* each bucket with a row, none before the bucket that begins at first.    *)
Candled(a, rows, size, o, D, first) ==
    /\ a \in Seq(C!Candle)
    /\ \A n \in DOMAIN a : \E i \in D : a[n].time = C!Bucket(rows[i].time, size, o)
    /\ \A i \in D : \E n \in DOMAIN a : a[n].time = C!Bucket(rows[i].time, size, o)
    /\ \A m, n \in DOMAIN a : m < n => a[m].time < a[n].time
    /\ \A n \in DOMAIN a : Describes(a[n], rows, Group(rows, size, o, D, a[n].time))
    /\ \A n \in DOMAIN a : first + size * (n - 1) <= a[n].time

(* The next row joins the last candle when it is in its bucket. *)
LEMMA RowJoinsCandle ==
    ASSUME NEW rows \in Seq(C!Row), NEW size \in Nat \ {0}, NEW D, IsFiniteSet(D), D \subseteq DOMAIN rows,
           NEW o \in Int, NEW first \in Int, NEW i \in DOMAIN rows,
           \A k \in D : k < i, Ordered(rows),
           NEW a, Candled(a, rows, size, o, D, first), Len(a) > 0,
           a[Len(a)].time = C!Bucket(rows[i].time, size, o), NEW close,
           close = rows[i].close \/ (close = a[Len(a)].close /\ rows[i].time = a[Len(a)].until)
    PROVE  Candled([a EXCEPT ![Len(a)] = C!Merged(@, rows[i], close)], rows, size, o, D \cup {i}, first)
  <1> DEFINE n == Len(a)
             b == C!Bucket(rows[i].time, size, o)
             next == [a EXCEPT ![n] = C!Merged(@, rows[i], close)]
             R == Group(rows, size, o, D, b)
  <1>1. a \in Seq(C!Candle) /\ n \in Nat /\ n \in DOMAIN a /\ DOMAIN a = 1..n
    BY DEF Candled
  <1>2. a[n] \in C!Candle /\ a[n].time = b
    BY <1>1
  <1>3. R \in SUBSET DOMAIN rows /\ IsFiniteSet(R) /\ \A k \in R : k < i /\ rows[k].time <= rows[i].time
    BY FS_Subset DEF Group, Ordered
  <1>4. Describes(a[n], rows, R)
    BY <1>1, <1>2 DEF Candled
  <1>5. /\ Describes(C!Merged(a[n], rows[i], close), rows, R \cup {i})
        /\ C!Merged(a[n], rows[i], close) \in C!Candle /\ C!Merged(a[n], rows[i], close).time = b
    <2>1. close = rows[i].close \/ (close = a[n].close /\ rows[i].time = a[n].until)
      OBVIOUS
    <2> DEFINE w == a[n]
    <2>2. w \in C!Candle /\ w.time = b /\ Describes(w, rows, R)
      BY <1>2, <1>4
    <2>3. close = rows[i].close \/ (close = w.close /\ rows[i].time = w.until)
      BY <2>1
    <2>4. close \in Nat
      <3>1. rows[i] \in C!Row
        OBVIOUS
      <3>2. rows[i].close \in Nat
        BY <3>1 DEF C!Row
      <3>3. w.close \in Nat
        BY <2>2 DEF C!Candle
      <3> QED BY <2>3, <3>2, <3>3
    <2> HIDE DEF R, n, b, w
    <2>5. /\ Describes(C!Merged(w, rows[i], close), rows, R \cup {i})
          /\ C!Merged(w, rows[i], close) \in C!Candle /\ C!Merged(w, rows[i], close).time = w.time
      BY <1>3, <2>2, <2>3, <2>4, MergedRow
    <2> QED BY <2>2, <2>5 DEF w
  <1>6. /\ next \in Seq(C!Candle) /\ DOMAIN next = 1..n /\ next[n] = C!Merged(a[n], rows[i], close)
        /\ \A m \in 1..n : m # n => next[m] = a[m]
    <2> DEFINE w == C!Merged(a[n], rows[i], close)
    <2>1. w \in C!Candle
      BY <1>5
    <2>2. next = [a EXCEPT ![n] = w]
      OBVIOUS
    <2> HIDE DEF w, next, n
    <2>3. next \in Seq(C!Candle) /\ DOMAIN next = 1..n /\ next[n] = w /\ \A m \in 1..n : m # n => next[m] = a[m]
      BY <1>1, <2>1, <2>2
    <2> QED BY <2>3 DEF w
  <1>7. \A m \in 1..n : next[m].time = a[m].time
    BY <1>2, <1>5, <1>6
  <1>8. \A m \in 1..n : m # n => a[m].time # b
    <2> SUFFICES ASSUME NEW m \in 1..n, m # n PROVE a[m].time < b /\ a[m].time \in Int /\ b \in Int
      OBVIOUS
    <2>1. m < n /\ m \in DOMAIN a
      <3> HIDE DEF n
      <3> QED BY <1>1
    <2>2. a[m] \in C!Candle /\ a[n] \in C!Candle
      BY <1>1, <2>1
    <2>3. a[m].time < b
      BY <1>1, <1>2, <2>1 DEF Candled
    <2> HIDE DEF b, n
    <2> QED BY <1>2, <2>2, <2>3 DEF C!Candle
  <1>9. ASSUME NEW m \in 1..n PROVE Describes(next[m], rows, Group(rows, size, o, D \cup {i}, next[m].time))
    <2>1. CASE m = n
      <3>1. Group(rows, size, o, D \cup {i}, b) = R \cup {i}
        BY DEF Group
      <3> QED BY <1>2, <1>5, <1>6, <1>7, <2>1, <3>1
    <2>2. CASE m # n
      <3>1. Group(rows, size, o, D \cup {i}, a[m].time) = Group(rows, size, o, D, a[m].time)
        BY <1>8, <2>2 DEF Group
      <3>2. Describes(a[m], rows, Group(rows, size, o, D, a[m].time))
        BY <1>1 DEF Candled
      <3> QED BY <1>6, <1>7, <2>2, <3>1, <3>2
    <2> QED BY <2>1, <2>2
  <1>10. \A k \in D \cup {i} : \E m \in 1..n : next[m].time = C!Bucket(rows[k].time, size, o)
    <2> SUFFICES ASSUME NEW k \in D \cup {i} PROVE \E m \in 1..n : a[m].time = C!Bucket(rows[k].time, size, o)
      BY <1>7
    <2>1. CASE k = i
      BY <1>1, <1>2, <2>1
    <2>2. CASE k \in D
      BY <1>1, <2>2 DEF Candled
    <2> QED BY <2>1, <2>2
  <1> HIDE DEF next, n
  <1>11. \A m \in 1..n : \E k \in D \cup {i} : next[m].time = C!Bucket(rows[k].time, size, o)
    <2> SUFFICES ASSUME NEW m \in 1..n
                 PROVE  \E k \in D \cup {i} : next[m].time = C!Bucket(rows[k].time, size, o)
      OBVIOUS
    <2>1. PICK k \in D : a[m].time = C!Bucket(rows[k].time, size, o)
      BY <1>1 DEF Candled
    <2> QED BY <1>7, <2>1
  <1>12. \A m, k \in 1..n : m < k => next[m].time < next[k].time
    BY <1>1, <1>7 DEF Candled
  <1>13. \A m \in 1..n : first + size * (m - 1) <= next[m].time
    BY <1>1, <1>7 DEF Candled
  <1>14. Candled(next, rows, size, o, D \cup {i}, first)
    BY <1>6, <1>9, <1>10, <1>11, <1>12, <1>13 DEF Candled
  <1> QED BY <1>14 DEF next, n

(* The next row opens a candle when it is in a later bucket. *)
LEMMA RowOpensCandle ==
    ASSUME NEW rows \in Seq(C!Row), Ordered(rows), NEW size \in Nat \ {0},
           NEW D, IsFiniteSet(D), D \subseteq DOMAIN rows,
           NEW o \in Int, NEW start \in Int, NEW i \in DOMAIN rows, \A k \in D : k < i, start <= rows[i].time,
           NEW a, Candled(a, rows, size, o, D, C!Bucket(start, size, o)),
           ~(Len(a) > 0 /\ a[Len(a)].time = C!Bucket(rows[i].time, size, o))
    PROVE  Candled(Append(a, C!Opened(rows[i], C!Bucket(rows[i].time, size, o))),
                   rows, size, o, D \cup {i}, C!Bucket(start, size, o))
  <1> DEFINE n == Len(a)
             b == C!Bucket(rows[i].time, size, o)
             first == C!Bucket(start, size, o)
             c == C!Opened(rows[i], b)
             next == Append(a, c)
  <1>1. a \in Seq(C!Candle) /\ n \in Nat /\ DOMAIN a = 1..n
    BY DEF Candled
  <1>2. rows[i] \in C!Row /\ i \in Nat /\ \A k \in D : rows[k] \in C!Row /\ k \in Nat
    OBVIOUS
  <1>3. rows[i].time \in Int /\ \A k \in D : rows[k].time \in Int /\ rows[k].time <= rows[i].time
    <2>1. rows[i].time \in Int /\ \A k \in D : rows[k].time \in Int
      BY <1>2 DEF C!Row
    <2>2. \A k \in D : rows[k].time <= rows[i].time
      BY <1>2 DEF Ordered
    <2> QED BY <2>1, <2>2
  <1>4. b \in Int /\ first \in Int /\ first <= b
    BY <1>3, BucketGrid, BucketOrder
  <1>5. ASSUME NEW m \in 1..n PROVE a[m].time \in Int /\ a[m].time + size <= b
    <2>1. n \in 1..n /\ m <= n
      <3> HIDE DEF n
      <3> QED BY <1>1
    <2>2. PICK k \in D : a[n].time = C!Bucket(rows[k].time, size, o)
      BY <1>1, <2>1 DEF Candled
    <2>3. a[n].time \in Int /\ a[n].time <= b /\ (a[n].time < b => a[n].time + size <= b)
      <3>1. rows[k].time \in Int /\ rows[k].time <= rows[i].time
        BY <1>3
      <3>2. C!Bucket(rows[k].time, size, o) \in Int
        BY <3>1, BucketGrid
      <3>3. /\ C!Bucket(rows[k].time, size, o) <= b
            /\ C!Bucket(rows[k].time, size, o) < b => C!Bucket(rows[k].time, size, o) + size <= b
        BY <1>3, <3>1, BucketOrder
      <3> QED BY <2>2, <3>2, <3>3
    <2>4. a[n].time # b
      <3>1. n > 0
        BY <1>1, <2>1
      <3> QED BY <3>1
    <2>5. a[m].time \in Int
      <3>1. a[m] \in C!Candle
        BY <1>1
      <3> QED BY <3>1 DEF C!Candle
    <2>6. m = n \/ a[m].time < a[n].time
      <3>1. m # n => m < n
        <4> HIDE DEF n
        <4> QED BY <1>1, <2>1
      <3> QED BY <1>1, <2>1, <3>1 DEF Candled
    <2> DEFINE last == a[n].time
               this == a[m].time
    <2>7. /\ last \in Int /\ last <= b /\ last # b /\ (last < b => last + size <= b)
          /\ this \in Int /\ (this = last \/ this < last)
      BY <2>3, <2>4, <2>5, <2>6
    <2> HIDE DEF b, last, this
    <2>8. last + size <= b
      BY <1>4, <2>7
    <2>9. this + size <= b
      BY <1>4, <2>7, <2>8
    <2> QED BY <2>7, <2>9 DEF this
  <1>6. Describes(c, rows, {i}) /\ c \in C!Candle /\ c.time = b
    <2> HIDE DEF b
    <2> QED BY <1>4, OneRow
  <1>7. /\ next \in Seq(C!Candle) /\ DOMAIN next = 1..(n + 1) /\ next[n + 1] = c
        /\ \A m \in 1..n : next[m] = a[m]
    <2> HIDE DEF c
    <2> QED BY <1>1, <1>6
  <1>8. \A m \in 1..(n + 1) : m = n + 1 \/ m \in 1..n
    <2> HIDE DEF n
    <2> QED BY <1>1
  <1>9. ASSUME NEW m \in 1..(n + 1) PROVE Describes(next[m], rows, Group(rows, size, o, D \cup {i}, next[m].time))
    <2>1. CASE m = n + 1
      <3>1. \A k \in D : C!Bucket(rows[k].time, size, o) # b
        <4> SUFFICES ASSUME NEW k \in D, C!Bucket(rows[k].time, size, o) = b PROVE FALSE
          OBVIOUS
        <4>1. PICK m2 \in 1..n : a[m2].time = C!Bucket(rows[k].time, size, o)
          BY <1>1 DEF Candled
        <4>2. a[m2].time \in Int /\ a[m2].time + size <= b
          BY <1>5
        <4> HIDE DEF b
        <4> QED BY <1>4, <4>1, <4>2
      <3>2. Group(rows, size, o, D \cup {i}, b) = {i}
        BY <3>1 DEF Group
      <3> HIDE DEF next, c, b, n
      <3> QED BY <1>6, <1>7, <2>1, <3>2
    <2>2. CASE m \in 1..n
      <3>1. b # a[m].time
        <4> HIDE DEF b
        <4> QED BY <1>4, <1>5, <2>2
      <3>2. Group(rows, size, o, D \cup {i}, a[m].time) = Group(rows, size, o, D, a[m].time)
        BY <3>1 DEF Group
      <3>3. Describes(a[m], rows, Group(rows, size, o, D, a[m].time))
        BY <1>1, <2>2 DEF Candled
      <3> HIDE DEF next, n
      <3> QED BY <1>7, <2>2, <3>2, <3>3
    <2> QED BY <1>8, <2>1, <2>2
  <1> HIDE DEF next, c, n
  <1>10. \A k \in D \cup {i} : \E m \in 1..(n + 1) : next[m].time = C!Bucket(rows[k].time, size, o)
    <2> SUFFICES ASSUME NEW k \in D \cup {i} PROVE \E m \in 1..(n + 1) : next[m].time = C!Bucket(rows[k].time, size, o)
      OBVIOUS
    <2>1. CASE k = i
      <3>1. n + 1 \in 1..(n + 1)
        BY <1>1
      <3> QED BY <1>6, <1>7, <2>1, <3>1
    <2>2. CASE k \in D
      <3>1. PICK m \in 1..n : a[m].time = C!Bucket(rows[k].time, size, o)
        BY <1>1, <2>2 DEF Candled
      <3>2. m \in 1..(n + 1)
        BY <1>1
      <3> QED BY <1>7, <3>1, <3>2
    <2> QED BY <2>1, <2>2
  <1>11. ASSUME NEW m \in 1..(n + 1) PROVE \E k \in D \cup {i} : next[m].time = C!Bucket(rows[k].time, size, o)
    <2>1. CASE m = n + 1
      BY <1>6, <1>7, <2>1
    <2>2. CASE m \in 1..n
      <3>1. PICK k \in D : a[m].time = C!Bucket(rows[k].time, size, o)
        BY <1>1, <2>2 DEF Candled
      <3> QED BY <1>7, <2>2, <3>1
    <2> QED BY <1>8, <2>1, <2>2
  <1>12. ASSUME NEW m \in 1..(n + 1), NEW k \in 1..(n + 1), m < k PROVE next[m].time < next[k].time
    <2>1. m \in 1..n
      BY <1>1, <1>12
    <2>2. CASE k = n + 1
      <3> HIDE DEF b
      <3> QED BY <1>4, <1>5, <1>6, <1>7, <2>1, <2>2
    <2>3. CASE k \in 1..n
      BY <1>1, <1>7, <1>12, <2>1, <2>3 DEF Candled
    <2> QED BY <1>8, <2>2, <2>3
  <1>13. ASSUME NEW m \in 1..(n + 1) PROVE first + size * (m - 1) <= next[m].time
    <2>1. CASE m \in 1..n
      BY <1>1, <1>7, <2>1 DEF Candled
    <2>2. CASE m = n + 1 /\ n = 0
      <3>1. size * (m - 1) = 0
        BY <2>2
      <3> HIDE DEF b, first
      <3> QED BY <1>4, <1>6, <1>7, <2>2, <3>1
    <2>3. CASE m = n + 1 /\ n # 0
      <3>1. n \in 1..n
        BY <1>1, <2>3
      <3>2. first + size * (n - 1) <= a[n].time /\ a[n].time \in Int /\ a[n].time + size <= b
        BY <1>1, <1>5, <3>1 DEF Candled
      <3>3. size * n = size * (n - 1) + size /\ size * (n - 1) \in Int
        BY <1>1
      <3>4. next[m].time = b /\ m - 1 = n
        BY <1>1, <1>6, <1>7, <2>3
      <3> DEFINE x == size * (n - 1)
      <3> HIDE DEF b, first, x
      <3>5. first + (x + size) <= b
        BY <1>4, <3>2, <3>3 DEF x
      <3> QED BY <3>3, <3>4, <3>5 DEF x
    <2> QED BY <1>8, <2>1, <2>2, <2>3
  <1>14. Candled(next, rows, size, o, D \cup {i}, first)
    BY <1>7, <1>9, <1>10, <1>11, <1>12, <1>13 DEF Candled
  <1> QED BY <1>14 DEF next, c

-----------------------------------------------------------------------------
(* The loop over the rows of the range, which are lo..hi; those up to d    *)
(* are merged.                                                             *)

MergedUpto(rows, left, a, q, lo, hi, d) ==
    /\ lo \in Nat \ {0} /\ hi \in Nat /\ d \in Nat /\ hi <= Len(rows) /\ lo <= d + 1 /\ d <= hi
    /\ C!InRange(rows, q.start, q.end) = lo..hi
    /\ left = SubSeq(rows, d + 1, hi)
    /\ Candled(a, rows, q.size, q.origin, lo..d, C!Bucket(q.start, q.size, q.origin))

MergeInv ==
    phase \in {"merging", "candles"} =>
        /\ tables[request.kind] \in Seq(C!Row) /\ Ordered(tables[request.kind])
        /\ request.start \in Int /\ request.end \in Int /\ request.start <= request.end
        /\ request.origin \in Int
        /\ request.size \in Nat \ {0} /\ request.max \in Nat
        /\ request.kind # "prices" => C!Span(request) <= request.size * request.max
        /\ \E lo, hi, d : MergedUpto(tables[request.kind], todo, answer, request, lo, hi, d)
        /\ phase = "candles" => todo = <<>>

(* The bucket that is chosen keeps the span within max_points buckets. *)
LEMMA BucketSuffices ==
    ASSUME NEW q, q.start \in Int, q.end \in Int, q.size \in Nat \ {0}, q.max \in Nat \ {0}
    PROVE  C!BucketSize(q) \in Nat \ {0} /\ C!Span(q) <= C!BucketSize(q) * q.max
  <1> DEFINE span == C!Span(q)
             max == q.max
             d == (span + max - 1) \div max
  <1>1. span \in Nat \ {0} /\ max \in Nat \ {0}
    BY DEF C!Span
  <1>2. d \in Nat /\ max * d <= span + max - 1 /\ span + max - 1 < max * d + max
    <2> HIDE DEF span, max
    <2>1. span + max - 1 \in Nat
      BY <1>1
    <2> QED BY <1>1, <2>1, SMT
  <1>3. d * max = max * d /\ max * d \in Nat /\ span <= max * d
    <2> HIDE DEF d
    <2>1. d * max = max * d /\ max * d \in Nat
      BY <1>1, <1>2, SMT
    <2> DEFINE x == max * d
    <2> HIDE DEF span, max, x
    <2> QED BY <1>1, <1>2, <2>1 DEF x
  <1>4. d # 0
    <2>1. d = 0 => max * d = 0
      BY <1>1
    <2> HIDE DEF span, max, d
    <2> QED BY <1>1, <1>3, <2>1
  <1>5. CASE span > max * q.size
    BY <1>2, <1>3, <1>4, <1>5 DEF C!BucketSize
  <1>6. CASE ~(span > max * q.size)
    <2>1. C!BucketSize(q) = q.size
      BY <1>6 DEF C!BucketSize
    <2>2. max * q.size = q.size * max /\ max * q.size \in Nat
      BY <1>1, SMT
    <2> DEFINE x == max * q.size
    <2> HIDE DEF span, max, x
    <2> QED BY <1>1, <1>6, <2>1, <2>2 DEF span, max, x
  <1> QED BY <1>5, <1>6

(* The rows that are selected are those of the range, which follow each    *)
(* other.                                                                  *)
LEMMA RangeFollows ==
    ASSUME NEW rows \in Seq(C!Row), Ordered(rows), NEW from \in Int, NEW to \in Int,
           C!InRange(rows, from, to) # {}
    PROVE  \E lo, hi \in Nat \ {0} : /\ lo <= hi /\ hi <= Len(rows)
                                     /\ C!InRange(rows, from, to) = lo..hi
                                     /\ C!Within(rows, from, to) = SubSeq(rows, lo, hi)
  <1> DEFINE S == C!InRange(rows, from, to)
             n == Len(rows)
  <1>1. n \in Nat /\ DOMAIN rows = 1..n /\ S \in SUBSET (1..n)
    BY DEF C!InRange
  <1>2. S # {} /\ C!Within(rows, from, to) = SubSeq(rows, C!Min(S), C!Max(S))
    BY DEF C!Within, C!InRange
  <1> DEFINE lo == C!Min(S)
             hi == C!Max(S)
  <1> HIDE DEF S
  <1>3. lo \in S /\ hi \in S /\ \A i \in S : lo <= i /\ i <= hi
    BY <1>1, <1>2, EndsExist
  <1> HIDE DEF lo, hi, n
  <1>4. lo \in 1..n /\ hi \in 1..n /\ lo <= hi
    BY <1>1, <1>3
  <1>5. ASSUME NEW i \in lo..hi PROVE i \in S
    <2>1. i \in 1..n
      BY <1>1, <1>4
    <2>2. rows[i] \in C!Row /\ rows[lo] \in C!Row /\ rows[hi] \in C!Row
      BY <1>1, <1>4, <2>1
    <2>3. rows[lo].time <= rows[i].time /\ rows[i].time <= rows[hi].time
      BY <1>1, <1>4, <2>1 DEF Ordered
    <2>4. from <= rows[lo].time /\ rows[hi].time <= to
      BY <1>3 DEF S, C!InRange
    <2>5. from <= rows[i].time /\ rows[i].time <= to
      <3>1. rows[i].time \in Int /\ rows[lo].time \in Int /\ rows[hi].time \in Int
        BY <2>2 DEF C!Row
      <3> QED BY <2>3, <2>4, <3>1
    <2> QED BY <1>1, <2>1, <2>5 DEF S, C!InRange
  <1>6. S = lo..hi
    <2>1. \A i \in S : i \in lo..hi
      BY <1>1, <1>3, <1>4
    <2> QED BY <1>5, <2>1
  <1>7. lo \in Nat \ {0} /\ hi \in Nat \ {0} /\ hi <= n
    BY <1>1, <1>4
  <1>8. S = lo..hi /\ C!Within(rows, from, to) = SubSeq(rows, lo, hi)
    BY <1>2, <1>6 DEF lo, hi
  <1> QED BY <1>4, <1>7, <1>8 DEF S, n

LEMMA LoadBegins == ASSUME C!LoadCandles PROVE MergeInv'
  <1>1. PICK c \in Contents, q \in Requests :
            LET kind == C!Source(c, q)
                rows == C!Within(c[kind], q.start, q.end)
            IN  /\ tables' = c
                /\ request' = C!Accepted(q, C!SizeFor(kind, q), kind, C!GridOf(kind, q, rows))
                /\ todo' = rows
                /\ phase' = "merging" /\ answer' = <<>>
    BY DEF C!LoadCandles
  <1> DEFINE kind == C!Source(c, q)
             size == C!SizeFor(kind, q)
             rows == c[kind]
             part == C!Within(rows, q.start, q.end)
             o == C!GridOf(kind, q, part)
  <1>2. /\ q.start \in Int /\ q.end \in Int /\ q.start <= q.end /\ q.size \in Nat \ {0}
        /\ q.max \in Nat \ {0} /\ C!OriginOf(q) \in Int
    BY InputTypes
  <1>3. kind \in C!Kinds /\ rows \in Seq(C!Row) /\ Ordered(rows)
    BY InputTypes, SourceIsKind
  <1>4. size \in Nat \ {0} /\ (kind # "prices" => C!Span(q) <= size * q.max)
    BY <1>2, BucketSuffices DEF C!SizeFor
  <1> HIDE DEF kind, size, rows
  <1>5. part \in Seq(C!Row) /\ \E lo \in Nat \ {0}, hi \in Nat :
            /\ lo <= hi + 1 /\ hi <= Len(rows) /\ C!InRange(rows, q.start, q.end) = lo..hi
            /\ part = SubSeq(rows, lo, hi)
    <2>1. CASE C!InRange(rows, q.start, q.end) = {}
      <3>1. part = <<>>
        BY <2>1 DEF C!Within
      <3>2. SubSeq(rows, 1, 0) = <<>> /\ 1..0 = {} /\ 0 <= Len(rows)
        BY <1>3
      <3> QED BY <2>1, <3>1, <3>2
    <2>2. CASE C!InRange(rows, q.start, q.end) # {}
      <3>1. PICK lo, hi \in Nat \ {0} : /\ lo <= hi /\ hi <= Len(rows)
                                        /\ C!InRange(rows, q.start, q.end) = lo..hi
                                        /\ part = SubSeq(rows, lo, hi)
        BY <1>2, <1>3, <2>2, RangeFollows
      <3>2. SubSeq(rows, lo, hi) \in Seq(C!Row)
        BY <1>3, <3>1
      <3> QED BY <3>1, <3>2
    <2> QED BY <2>1, <2>2
  <1>6. o \in Int
    <2>1. ASSUME part # <<>> PROVE C!Bucket(part[1].time, Day, 0) \in Int
      <3>1. part[1] \in C!Row
        BY <1>5, <2>1
      <3>2. part[1].time \in Int
        BY <3>1 DEF C!Row
      <3>3. Day \in Nat \ {0}
        BY AnalysisAssumption DEF C!CandlesAssumption
      <3> QED BY <3>2, <3>3, EpochGrid
    <2> QED BY <1>2, <2>1 DEF C!GridOf
  <1> HIDE DEF part, o
  <1>7. /\ request' = C!Accepted(q, size, kind, o) /\ tables' = c /\ phase' = "merging"
        /\ answer' = <<>> /\ todo' = part
    BY <1>1 DEF kind, size, rows, part, o
  <1>8. /\ request'.start = q.start /\ request'.end = q.end /\ request'.size = size
        /\ request'.max = q.max /\ request'.kind = kind /\ request'.origin = o
    BY <1>7 DEF C!Accepted
  <1>9. tables'[request'.kind] = rows
    BY <1>7, <1>8 DEF rows
  <1>10. C!Span(request') = C!Span(q)
    BY <1>8 DEF C!Span
  <1>11. \E lo, hi, d : MergedUpto(rows, todo', <<>>, request', lo, hi, d)
    <2>1. PICK lo \in Nat \ {0}, hi \in Nat :
             /\ lo <= hi + 1 /\ hi <= Len(rows) /\ C!InRange(rows, q.start, q.end) = lo..hi
             /\ part = SubSeq(rows, lo, hi)
      BY <1>5
    <2>2. lo - 1 \in Nat /\ (lo - 1) + 1 = lo /\ lo - 1 <= hi /\ lo..(lo - 1) = {}
      BY <2>1
    <2>3. Candled(<<>>, rows, size, o, {}, C!Bucket(q.start, size, o))
      BY DEF Candled
    <2>4. MergedUpto(rows, todo', <<>>, request', lo, hi, lo - 1)
      BY <1>7, <1>8, <2>1, <2>2, <2>3 DEF MergedUpto
    <2> QED BY <2>4
  <1> QED BY <1>2, <1>3, <1>4, <1>6, <1>7, <1>8, <1>9, <1>10, <1>11 DEF MergeInv

(* The first of the rows that are left, and the rest. *)
LEMMA LeftRows ==
    ASSUME NEW rows \in Seq(C!Row), NEW d \in Nat, NEW hi \in Nat, d <= hi, hi <= Len(rows)
    PROVE  /\ SubSeq(rows, d + 1, hi) = <<>> <=> d = hi
           /\ d < hi => /\ Head(SubSeq(rows, d + 1, hi)) = rows[d + 1]
                        /\ Tail(SubSeq(rows, d + 1, hi)) = SubSeq(rows, d + 2, hi)
  <1> DEFINE s == SubSeq(rows, d + 1, hi)
             t == SubSeq(rows, d + 2, hi)
  <1>1. Len(rows) \in Nat
    OBVIOUS
  <1>2. s \in Seq(C!Row) /\ Len(s) = hi - d /\ \A k \in 1..(hi - d) : s[k] = rows[d + k]
    OBVIOUS
  <1>3. ASSUME d < hi
        PROVE  t \in Seq(C!Row) /\ Len(t) = hi - d - 1 /\ \A k \in 1..(hi - d - 1) : t[k] = rows[d + 1 + k]
    BY <1>3
  <1> HIDE DEF s, t
  <1>4. s = <<>> <=> d = hi
    BY <1>2
  <1>5. ASSUME d < hi PROVE Head(s) = rows[d + 1] /\ Tail(s) = t
    <2>1. s # <<>> /\ 1 \in 1..(hi - d)
      BY <1>4, <1>5
    <2>2. Head(s) = s[1]
      BY <1>2, <2>1
    <2>3. Tail(s) \in Seq(C!Row) /\ Len(Tail(s)) = Len(s) - 1 /\ \A k \in 1..(Len(s) - 1) : Tail(s)[k] = s[k + 1]
      BY <1>2, <2>1
    <2>4. \A k \in 1..(hi - d - 1) : Tail(s)[k] = t[k]
      <3> SUFFICES ASSUME NEW k \in 1..(hi - d - 1) PROVE Tail(s)[k] = t[k]
        OBVIOUS
      <3>1. k + 1 \in 1..(hi - d) /\ d + (k + 1) = d + 1 + k /\ k \in 1..(Len(s) - 1)
        BY <1>2
      <3> QED BY <1>2, <1>3, <1>5, <2>3, <3>1
    <2>5. Len(Tail(s)) = Len(t) /\ Len(t) = hi - d - 1
      BY <1>2, <1>3, <1>5, <2>3
    <2>6. Tail(s) = t
      BY <1>3, <1>5, <2>3, <2>4, <2>5, SeqEqual
    <2> QED BY <1>2, <2>1, <2>2, <2>6
  <1> QED BY <1>4, <1>5 DEF s, t

(* A row merged leaves one row less. *)
LEMMA RowMerges == ASSUME MergeInv, C!MergeRow PROVE MergeInv'
  <1>0. /\ phase = "merging" /\ todo # <<>>
        /\ UNCHANGED <<tables, request, phase>> /\ todo' = Tail(todo)
    BY DEF C!MergeRow
  <1> DEFINE rows == tables[request.kind]
             size == request.size
             o == request.origin
             start == request.start
  <1>1. /\ rows \in Seq(C!Row) /\ Ordered(rows) /\ start \in Int /\ request.end \in Int
        /\ size \in Nat \ {0} /\ o \in Int
    BY <1>0 DEF MergeInv
  <1>2. PICK lo, hi, d : MergedUpto(rows, todo, answer, request, lo, hi, d)
    BY <1>0 DEF MergeInv
  <1> DEFINE D == lo..d
             i == d + 1
             r == rows[i]
             b == C!Bucket(r.time, size, o)
             n == Len(answer)
  <1>3. /\ lo \in Nat \ {0} /\ hi \in Nat /\ d \in Nat /\ hi <= Len(rows) /\ lo <= d + 1 /\ d <= hi
        /\ C!InRange(rows, start, request.end) = lo..hi
        /\ todo = SubSeq(rows, d + 1, hi)
        /\ Candled(answer, rows, size, o, D, C!Bucket(start, size, o))
    BY <1>2 DEF MergedUpto
  <1>4. d < hi /\ Head(todo) = r /\ Tail(todo) = SubSeq(rows, d + 2, hi)
    <2> HIDE DEF rows
    <2> QED BY <1>0, <1>1, <1>3, LeftRows
  <1>5. /\ i \in DOMAIN rows /\ D \subseteq DOMAIN rows /\ IsFiniteSet(D) /\ \A k \in D : k < i
        /\ D \cup {i} = lo..i /\ i \in lo..hi
    <2>1. i \in Nat /\ lo <= i /\ i <= hi /\ i <= Len(rows) /\ lo >= 1 /\ Len(rows) \in Nat
      <3> HIDE DEF rows
      <3> QED BY <1>1, <1>3, <1>4
    <2>2. i \in DOMAIN rows /\ i \in lo..hi
      <3> HIDE DEF rows, i
      <3> QED BY <1>1, <1>3, <2>1
    <2>3. \A k \in D : k \in 1..Len(rows) /\ k < i
      <3> HIDE DEF rows
      <3> QED BY <1>3, <2>1
    <2>4. IsFiniteSet(D)
      BY <1>3, FS_Interval
    <2>5. D \cup {i} = lo..i
      <3> HIDE DEF rows
      <3> QED BY <1>3
    <2> HIDE DEF rows, D, i
    <2> QED BY <1>1, <2>2, <2>3, <2>4, <2>5
  <1>6. start <= r.time
    BY <1>3, <1>5 DEF C!InRange
  <1>7. /\ n > 0 /\ answer[n].time = b =>
              \E close \in C!Closings(answer[n], r) : answer' = [answer EXCEPT ![n] = C!Merged(@, r, close)]
        /\ ~(n > 0 /\ answer[n].time = b) => answer' = Append(answer, C!Opened(r, b))
    <2> HIDE DEF r
    <2> QED BY <1>4 DEF C!MergeRow
  <1>8. Candled(answer', rows, size, o, D \cup {i}, C!Bucket(start, size, o))
    <2>1. CASE n > 0 /\ answer[n].time = b
      <3>1. C!Bucket(start, size, o) \in Int
        BY <1>1, BucketGrid
      <3>2. PICK close \in C!Closings(answer[n], r) : answer' = [answer EXCEPT ![n] = C!Merged(@, r, close)]
        BY <1>7, <2>1
      <3>3. close = r.close \/ (close = answer[n].close /\ r.time = answer[n].until)
        BY <3>2 DEF C!Closings
      <3>4. Candled([answer EXCEPT ![Len(answer)] = C!Merged(@, rows[i], close)],
                    rows, size, o, D \cup {i}, C!Bucket(start, size, o))
        <4> HIDE DEF rows, size, o, start, D, i
        <4> QED BY <1>1, <1>3, <1>5, <2>1, <3>1, <3>3, RowJoinsCandle DEF n, b, r
      <3> QED BY <3>2, <3>4
    <2>2. CASE ~(n > 0 /\ answer[n].time = b)
      <3>1. answer' = Append(answer, C!Opened(r, b))
        BY <1>7, <2>2
      <3>2. Candled(Append(answer, C!Opened(rows[i], C!Bucket(rows[i].time, size, o))),
                    rows, size, o, D \cup {i}, C!Bucket(start, size, o))
        <4> HIDE DEF rows, size, o, start, D, i
        <4> QED BY <1>1, <1>3, <1>5, <1>6, <2>2, RowOpensCandle DEF n, b, r
      <3> QED BY <3>1, <3>2
    <2> QED BY <2>1, <2>2
  <1>9. MergedUpto(rows, todo', answer', request, lo, hi, d + 1)
    <2>1. d + 1 \in Nat /\ lo <= (d + 1) + 1 /\ d + 1 <= hi /\ (d + 1) + 1 = d + 2
      BY <1>3, <1>4
    <2> HIDE DEF rows
    <2> QED BY <1>0, <1>3, <1>4, <1>5, <1>8, <2>1 DEF MergedUpto
  <1>10. \E lo2, hi2, d2 : MergedUpto(rows, todo', answer', request, lo2, hi2, d2)
    BY <1>9
  <1> QED BY <1>0, <1>10 DEF MergeInv

LEMMA MergeStep == MergeInv /\ [C!Next]_(C!vars) => MergeInv'
  <1> SUFFICES ASSUME MergeInv, [C!Next]_(C!vars) PROVE MergeInv'
    OBVIOUS
  <1>1. CASE C!LoadCandles
    BY <1>1, LoadBegins
  <1>2. CASE C!MergeRow
    BY <1>2, RowMerges
  <1>3. CASE C!CandlesReady
    BY <1>3 DEF C!CandlesReady, MergeInv
  <1>4. CASE C!DetectGaps \/ C!JoinBucket \/ C!GapsReady \/ C!Respond
    BY <1>4 DEF C!DetectGaps, C!JoinBucket, C!GapsReady, C!Respond, MergeInv
  <1>5. CASE UNCHANGED C!vars
    BY <1>5 DEF C!vars, MergeInv
  <1> QED BY <1>1, <1>2, <1>3, <1>4, <1>5 DEF C!Next

(* Candles in different buckets from the first to the last of a span that  *)
(* max buckets hold are at most one more than max.                         *)
LEMMA FewCandles ==
    ASSUME NEW n \in Nat \ {0}, NEW size \in Nat \ {0}, NEW max \in Nat, NEW start \in Int, NEW end \in Int,
           NEW first \in Int, NEW last \in Int, start < first + size, first + size * (n - 1) <= last,
           last <= end, start <= end, NEW span \in Nat, end - start <= span, span <= size * max
    PROVE  n <= max + 1
  <1> DEFINE x == size * (n - 1)
             y == size * max
             z == size * (max + 1)
  <1>1. x \in Int /\ y \in Int /\ z \in Int /\ z = y + size
    BY SMT
  <1>2. x < z
    <2> HIDE DEF x, y, z
    <2>1. first + x <= last /\ span <= y
      BY DEF x, y
    <2> QED BY <1>1, <2>1
  <1>3. SUFFICES ASSUME max + 1 <= n - 1 PROVE FALSE
    OBVIOUS
  <1>4. z <= x
    BY <1>3, SMT
  <1> HIDE DEF x, y, z
  <1> QED BY <1>1, <1>2, <1>4

(* What remains is the statement: when all rows are merged the groups are  *)
(* the rows of the buckets.                                                *)
LEMMA DescribedExactly ==
    ASSUME NEW rows \in Seq(C!Row), NEW R \in SUBSET DOMAIN rows, NEW c, Describes(c, rows, R)
    PROVE  /\ c.high = C!Max({rows[i].high : i \in R}) /\ c.low = C!Min({rows[i].low : i \in R})
  <1>1. R \in SUBSET Int /\ \A i \in R : rows[i] \in C!Row
    OBVIOUS
  <1>2. \A i \in R : rows[i].high \in Int /\ rows[i].low \in Int
    <2>1. \A r \in C!Row : r.high \in Int /\ r.low \in Int
      BY DEF C!Row
    <2> QED BY <1>1, <2>1
  <1>3. PICK h \in R : (\A i \in R : rows[i].high <= rows[h].high) /\ c.high = rows[h].high
    BY DEF Describes
  <1>4. PICK l \in R : (\A i \in R : rows[i].low >= rows[l].low) /\ c.low = rows[l].low
    BY DEF Describes
  <1>5. C!Max({rows[i].high : i \in R}) = rows[h].high
    <2> DEFINE S == {rows[i].high : i \in R}
    <2>1. S \in SUBSET Int /\ rows[h].high \in S /\ \A x \in S : x <= rows[h].high
      BY <1>2, <1>3
    <2>2. C!Max(S) = rows[h].high
      <3> HIDE DEF S
      <3> QED BY <2>1, MaxIs
    <2> QED BY <2>2
  <1>6. C!Min({rows[i].low : i \in R}) = rows[l].low
    <2> DEFINE S == {rows[i].low : i \in R}
    <2>1. S \in SUBSET Int /\ rows[l].low \in S /\ \A x \in S : rows[l].low <= x
      BY <1>2, <1>4
    <2>2. C!Min(S) = rows[l].low
      <3> HIDE DEF S
      <3> QED BY <2>1, MinIs
    <2> QED BY <2>2
  <1> QED BY <1>3, <1>4, <1>5, <1>6

LEMMA MergedExactly == MergeInv => CandlesExact
  <1> SUFFICES ASSUME MergeInv, phase = "candles" PROVE CandlesExact
    BY DEF CandlesExact, C!CandlesExact
  <1> DEFINE rows == tables[request.kind]
             size == request.size
             start == request.start
             end == request.end
             o == request.origin
             D == C!InRange(rows, start, end)
             first == C!Bucket(start, size, o)
  <1>1. /\ rows \in Seq(C!Row) /\ start \in Int /\ end \in Int /\ start <= end /\ o \in Int
        /\ size \in Nat \ {0} /\ request.max \in Nat /\ todo = <<>>
        /\ request.kind # "prices" => C!Span(request) <= size * request.max
    BY DEF MergeInv
  <1>2. PICK lo, hi, d : MergedUpto(rows, todo, answer, request, lo, hi, d)
    BY DEF MergeInv
  <1>3. Candled(answer, rows, size, o, D, first)
    <2>1. /\ hi \in Nat /\ d \in Nat /\ hi <= Len(rows) /\ d <= hi /\ D = lo..hi
          /\ todo = SubSeq(rows, d + 1, hi) /\ Candled(answer, rows, size, o, lo..d, first)
      BY <1>2 DEF MergedUpto
    <2>2. d = hi
      <3> HIDE DEF rows, size, o, D, first
      <3>1. SubSeq(rows, d + 1, hi) = <<>>
        BY <1>1, <2>1
      <3> QED BY <1>1, <2>1, <3>1, LeftRows
    <2> QED BY <2>1, <2>2
  <1>4. D = C!RowsInRange
    BY DEF C!RowsInRange
  <1>5. {answer[n].time : n \in DOMAIN answer} = {C!Bucket(C!RowAt(i).time, size, o) : i \in D}
    <2>1. \A i \in D : C!RowAt(i) = rows[i]
      BY DEF C!RowAt
    <2> HIDE DEF rows, D, size
    <2> QED BY <1>3, <2>1 DEF Candled
  <1>6. \A m, n \in DOMAIN answer : m < n => answer[m].time < answer[n].time
    BY <1>3 DEF Candled
  <1>7. ASSUME NEW n \in DOMAIN answer
        PROVE  LET R == C!RowsOfBucket(answer[n].time)
               IN  /\ \E i \in R : /\ answer[n].open = C!RowAt(i).open
                                  /\ \A j \in R : C!RowAt(i).time <= C!RowAt(j).time
                   /\ \E i \in R : /\ answer[n].close = C!RowAt(i).close
                                  /\ \A j \in R : C!RowAt(j).time <= C!RowAt(i).time
                   /\ answer[n].high = C!Max({C!RowAt(i).high : i \in R})
                   /\ answer[n].low = C!Min({C!RowAt(i).low : i \in R})
                   /\ answer[n].volume = C!SumFunctionOnSet([i \in R |-> C!RowAt(i).volume], R)
    <2> DEFINE R == C!RowsOfBucket(answer[n].time)
    <2>1. R = Group(rows, size, o, D, answer[n].time)
        BY <1>4 DEF C!RowsOfBucket, Group, C!RowAt
    <2>2. Describes(answer[n], rows, R)
      <3> HIDE DEF R, rows, D, size, first
      <3> QED BY <1>3, <1>7, <2>1 DEF Candled
    <2>3. R \in SUBSET DOMAIN rows
      BY DEF C!RowsOfBucket, C!RowsInRange, C!InRange
    <2>4. /\ answer[n].high = C!Max({rows[i].high : i \in R}) /\ answer[n].low = C!Min({rows[i].low : i \in R})
      <3> HIDE DEF R, rows
      <3> QED BY <1>1, <2>2, <2>3, DescribedExactly
    <2>5. /\ \E e \in R : (\A i \in R : rows[e].time <= rows[i].time) /\ answer[n].open = rows[e].open
          /\ \E e \in R : (\A i \in R : rows[i].time <= rows[e].time) /\ answer[n].close = rows[e].close
          /\ answer[n].volume = C!SumFunctionOnSet([i \in R |-> rows[i].volume], R)
      BY <2>2 DEF Describes
    <2> HIDE DEF R
    <2> QED BY <2>4, <2>5 DEF C!RowAt, R
  <1>8. request.kind # "prices" => Len(answer) <= request.max + 1
    <2> DEFINE n == Len(answer)
    <2>1. n \in Nat /\ DOMAIN answer = 1..n
      BY <1>3 DEF Candled
    <2>2. CASE n = 0
      BY <1>1, <2>2
    <2>3. CASE n # 0 /\ request.kind # "prices"
      <3>1. n \in DOMAIN answer
        <4> HIDE DEF n
        <4> QED BY <2>1, <2>3
      <3>2. PICK i \in D : answer[n].time = C!Bucket(rows[i].time, size, o)
        BY <1>3, <3>1 DEF Candled
      <3>3. rows[i].time \in Int /\ rows[i].time <= end
        <4>1. rows[i] \in C!Row /\ rows[i].time <= end
          BY <1>1 DEF C!InRange
        <4> QED BY <4>1 DEF C!Row
      <3>4. answer[n].time \in Int /\ answer[n].time <= end
        <4>1. C!Bucket(rows[i].time, size, o) \in Int /\ C!Bucket(rows[i].time, size, o) <= rows[i].time
          BY <1>1, <3>3, BucketGrid
        <4> HIDE DEF end, rows, size, n
        <4> QED BY <1>1, <3>2, <3>3, <4>1
      <3>5. first \in Int /\ start < first + size
        BY <1>1, BucketGrid
      <3>6. first + size * (n - 1) <= answer[n].time
        BY <1>3, <3>1 DEF Candled
      <3>7. C!Span(request) \in Nat /\ end - start <= C!Span(request) /\ C!Span(request) <= size * request.max
        BY <1>1, <2>3 DEF C!Span
      <3> HIDE DEF n, first, size, o, start, end
      <3> QED BY <1>1, <2>1, <2>3, <3>4, <3>5, <3>6, <3>7, FewCandles DEF n
    <2> QED BY <2>2, <2>3
  <1> HIDE DEF D, size, o, start, end
  <1> QED BY <1>4, <1>5, <1>6, <1>7, <1>8 DEF CandlesExact, C!CandlesExact, rows, size, o, start, end

(* Whatever the rows of the market, the request and its source: candles    *)
(* are one for each bucket with a row in the range, in the order of time,  *)
(* and each says what the rows of its bucket say, with either origin of    *)
(* the buckets, and whichever of the rows that are last in time closes it; *)
(* from ticks and trades they are at most one more than max_points.        *)
(* (load_candles_df, _bucket_rows)                                         *)
THEOREM CandlesAreExact == AnalysisSpec => []CandlesExact
  <1>1. C!Init => MergeInv
    BY DEF C!Init, MergeInv
  <1>2. MergeInv /\ [C!Next]_(C!vars) => MergeInv'
    BY MergeStep
  <1>3. MergeInv => CandlesExact
    BY MergedExactly
  <1> QED BY <1>1, <1>2, <1>3, PartsBehave, PTL DEF C!Spec
=============================================================================
