------------------------------- MODULE Ledger -------------------------------
(***************************************************************************)
(* What the AI account says it earned: the summary derives the realized    *)
(* PnL from all orders ever made, the unrealized PnL from the position,    *)
(* and the PnL of all time from the bankroll resets.                       *)
(*                                                                         *)
(* One market: the sums over the markets of an account are taken term by   *)
(* term.  A position keeps quantity times average entry price as its       *)
(* basis.  The orders of an account only grow, so the replay of all of     *)
(* them is kept up to date order by order.  One actor: the interleavings   *)
(* of the desk are in CrewDesk.                                            *)
(***************************************************************************)
EXTENDS Integers

CONSTANTS Marks,      (* latest prices of the market *)
          Quantities, (* what a buy can fill *)
          Bankrolls,  (* default_starting_bankroll, first and after edits *)
          FillFee,    (* fee of a fill *)
          Spread,     (* slippage of a fill *)
          MaxOrders   (* bound: orders and resets in a behaviour *)

ASSUME LedgerAssumption ==
    /\ Marks \subseteq Nat \ {0} /\ Quantities \subseteq Nat \ {0} /\ Bankrolls \subseteq Nat \ {0}
    /\ FillFee \in Nat /\ Spread \in Nat /\ \A m \in Marks : m > Spread
    /\ MaxOrders \in Nat

VARIABLES cash,      (* cash_balance *)
          position,  (* quantity and cost basis of the row, none is zero *)
          mark,      (* latest price *)
          replay,    (* lots and realized PnL, as the replay of the orders leaves them *)
          resets,    (* sum of realized_pnl over the reset rows *)
          bankroll,  (* default_starting_bankroll of the profile *)
          past       (* history: what price moves and fills brought, the fee in the
                        cost of the open position, bankroll at creation, whether
                        there were resets and edits, and the number of orders *)

vars == <<cash, position, mark, replay, resets, bankroll, past>>

NoLot == [qty |-> 0, cost |-> 0]

Equity         == cash + position.qty * mark
Unrealized     == position.qty * mark - position.cost
CyclePnl       == Equity - bankroll
AllTimePnl     == resets + CyclePnl

Recorded(gain) == [past EXCEPT !.earned = @ + gain, !.orders = @ + 1]
-----------------------------------------------------------------------------
(* _realized_pnl_from_orders, one order further *)

(* Mutant: the lot does not pay the fee of its buy. *)
ReplayBuy_NoFee(r, q, price) ==
    [r EXCEPT !.qty = @ + q, !.cost = @ + q * price]

ReplayBuy(r, q, price) ==
    [r EXCEPT !.qty = @ + q, !.cost = @ + q * price + FillFee]

(* The cost of a whole lot is its cost; that of a part is its share. *)
CostOfPart(r, q) == IF q = r.qty THEN r.cost ELSE (r.cost * q) \div r.qty

ReplaySell(r, q, price) ==
    LET sold == IF q <= r.qty THEN q ELSE r.qty
    IN  IF r.qty = 0 THEN r
        ELSE [qty      |-> r.qty - sold,
              cost     |-> IF sold = r.qty THEN 0 ELSE r.cost - CostOfPart(r, sold),
              realized |-> r.realized + sold * price - CostOfPart(r, sold) - FillFee]
-----------------------------------------------------------------------------
Init ==
    /\ mark \in Marks /\ bankroll \in Bankrolls
    /\ cash = bankroll /\ position = NoLot /\ resets = 0
    /\ replay = [qty |-> 0, cost |-> 0, realized |-> 0]
    /\ past = [earned |-> 0, openingFee |-> 0, started |-> bankroll, wasReset |-> FALSE,
               edited |-> FALSE, orders |-> 0]

(* A new price, written to the position when it is next valued. *)
Move ==
    \E m \in Marks \ {mark} :
        /\ mark' = m
        /\ past' = [past EXCEPT !.earned = @ + position.qty * (m - mark)]
        /\ UNCHANGED <<cash, position, replay, resets, bankroll>>

(* The basis of a new row leaves the fee out, that of a further buy does not. *)
Basis(q, fill) == position.cost + q * fill + (IF position.qty = 0 THEN 0 ELSE FillFee)

(* execute_price_trigger_order, side buy *)
Buy ==
    \E q \in Quantities :
        LET fill == mark + Spread
            cost == q * fill + FillFee
        IN  /\ past.orders < MaxOrders
            /\ cost <= cash
            /\ cash' = cash - cost
            /\ position' = [qty |-> position.qty + q, cost |-> Basis(q, fill)]
            /\ replay' = ReplayBuy(replay, q, fill)
            /\ past' = [Recorded(q * mark - cost) EXCEPT
                          !.openingFee = IF position.qty = 0 THEN FillFee ELSE @]
            /\ UNCHANGED <<mark, resets, bankroll>>

(* execute_price_trigger_order, side sell: always the whole position *)
Sell ==
    LET fill == mark - Spread
        net  == position.qty * fill - FillFee
    IN  /\ past.orders < MaxOrders
        /\ position.qty > 0
        /\ cash' = cash + net
        /\ position' = NoLot
        /\ replay' = ReplaySell(replay, position.qty, fill)
        /\ past' = [Recorded(net - position.qty * mark) EXCEPT !.openingFee = 0]
        /\ UNCHANGED <<mark, resets, bankroll>>

(* Mutant: the reset records what all orders realized. *)
ResetPnl_Realized == replay.realized

(* realized_pnl of the reset row *)
ResetPnl == Equity - bankroll

(* reset_bankroll: the row is gone, its orders stay. *)
Reset ==
    /\ past.orders < MaxOrders
    /\ resets' = resets + ResetPnl
    /\ position' = NoLot /\ cash' = bankroll
    /\ past' = [Recorded(0) EXCEPT !.openingFee = 0, !.wasReset = TRUE]
    /\ UNCHANGED <<mark, replay, bankroll>>

(* PATCH /autonomy with default_starting_bankroll *)
EditBankroll ==
    \E b \in Bankrolls \ {bankroll} :
        /\ bankroll' = b /\ past' = [past EXCEPT !.edited = TRUE]
        /\ UNCHANGED <<cash, position, mark, replay, resets>>

Next == Move \/ Buy \/ Sell \/ Reset \/ EditBankroll

Spec == Init /\ [][Next]_vars
-----------------------------------------------------------------------------
(* Every variable has its type; a position without quantity has no row. *)
TypeOK ==
    /\ cash \in Int /\ mark \in Marks /\ resets \in Int /\ bankroll \in Bankrolls
    /\ position \in [qty : Nat, cost : Nat] /\ (position.qty = 0 => position = NoLot)
    /\ replay \in [qty : Nat, cost : Int, realized : Int]
    /\ past \in [earned : Int, openingFee : Nat, started : Bankrolls, wasReset : BOOLEAN,
                 edited : BOOLEAN, orders : 0..MaxOrders]

(* Before the first reset the realized PnL that is replayed from the       *)
(* orders and the unrealized PnL of the position are together what the     *)
(* equity gained since the account was created, but for the fee of the     *)
(* opening buy, which the lots pay and the basis of the position does not; *)
(* without a position the realized PnL is the gain exactly.                *)
PnlAddsUp ==
    ~past.wasReset => replay.realized + Unrealized = Equity - past.started + past.openingFee

(* Over any number of resets the PnL of all time is what prices and fills  *)
(* brought since the account was created, as long as the default bankroll  *)
(* is not edited.                                                          *)
AllTimeAddsUp == ~past.edited => AllTimePnl = past.earned
=============================================================================
