------------------------------ MODULE Analysis -------------------------------
(***************************************************************************)
(* What the API computes from stored rows and shows: backtests, candles    *)
(* and gaps, and the account's profit and loss.  They share no variable,   *)
(* so a behaviour follows one of them: the subject.                        *)
(***************************************************************************)
EXTENDS Ledger, Sequences

CONSTANTS Series, Strategies, Baselines, Plans, Short, Long, InitialCash, MinTrade, Base, FeeRate,
          Slippage, PositionPct, Contents, Requests, Origin, Day

VARIABLES subject,  (* "ledger", "backtest" or "candles" *)
          data, plan, cursor, turn, row, engine, windows,
          tables, request, phase, todo, answer

B == INSTANCE Backtest
C == INSTANCE Candles

ASSUME AnalysisAssumption == B!BacktestAssumption /\ C!CandlesAssumption

backtestVars == <<data, plan, cursor, turn, row, engine, windows>>
candleVars   == <<tables, request, phase, todo, answer>>
analysisVars == <<subject, backtestVars, candleVars, vars>>

(* While others are followed, the account is one of those it can be. *)
AnalysisInit ==
    /\ subject \in {"ledger", "backtest", "candles"} /\ B!Init /\ C!Init /\ Init
    /\ subject # "ledger" => /\ mark = CHOOSE m \in Marks : TRUE
                             /\ bankroll = CHOOSE b \in Bankrolls : TRUE

AnalysisNext ==
    \/ subject = "ledger" /\ Next /\ UNCHANGED <<subject, backtestVars, candleVars>>
    \/ subject = "backtest" /\ B!Next /\ UNCHANGED <<subject, candleVars, vars>>
    \/ subject = "candles" /\ C!Next /\ UNCHANGED <<subject, backtestVars, vars>>

AnalysisSpec == AnalysisInit /\ [][AnalysisNext]_analysisVars
-----------------------------------------------------------------------------
(* A run's cash is what it began with and what its round trips brought.    *)
(* (PaperBacktester.run, compute_buy_fill)                                 *)
BooksClose == B!BooksClose

(* Results depend on the closes of their own windows.  (run_walk_forward)  *)
WindowsIsolated == B!WindowsIsolated

(* Candles say what the rows of their buckets say.  (load_candles_df)      *)
CandlesExact == C!CandlesExact

(* Gaps are the missing buckets.  (detect_gaps_data)                       *)
GapsExact == C!GapsExact

(* "A gap means no data recorded in the bucket": refuted.  (get_market_gaps) *)
GapsAreEmpty == C!GapsAreEmpty
=============================================================================
