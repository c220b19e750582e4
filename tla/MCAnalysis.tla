----------------------------- MODULE MCAnalysis -----------------------------
(* Analysis for TLC: any six closes of two prices in a row; tables of up   *)
(* to three rows in a range of five seconds.                               *)
EXTENDS Analysis

SixCloses == [1..6 -> {10, 20}]
TwoPlans  == {[train |-> 1, test |-> 3, step |-> 1], [train |-> 2, test |-> 2, step |-> 2]}

(* Crossing averages with the default windows, and with these exchanged. *)
FewStrategies == {[name |-> "sma_cross", short |-> 1, long |-> 2],
                  [name |-> "sma_cross", short |-> 2, long |-> 1],
                  [name |-> "buy_hold", short |-> 1, long |-> 2],
                  [name |-> "rsi", short |-> 1, long |-> 2]}
FewBaselines == {<<>>, <<"sma_cross">>}

At(t, p) == [time |-> t, open |-> p, high |-> p, low |-> p, close |-> p, volume |-> t + 1, trades |-> 1]
Bar(t, o, h, l, c) == [time |-> t, open |-> o, high |-> h, low |-> l, close |-> c, volume |-> 4, trades |-> 2]

Rows(n)  == {s \in [1..n -> {At(t, p) : t \in 0..4, p \in {1, 2}}] :
                \A i \in 1..(n - 1) : s[i].time <= s[i + 1].time}
SomeBars == <<Bar(1, 2, 3, 1, 2), Bar(2, 4, 5, 4, 5), Bar(3, 1, 2, 1, 2)>>
Nothing  == [k \in {"ticks_1s", "ticks_3s", "ticks_5s", "ticks_7s", "ticks", "market_trades",
                     "prices", "none"} |-> <<>>]

(* Any few ticks; or trades and prices, with a tick late in the range or   *)
(* none; or a view whose ticks are gone, with a trade or none.             *)
FewContents ==
    {[Nothing EXCEPT !["ticks"] = s] : s \in {<<>>} \cup Rows(1) \cup Rows(3)}
    \cup {[Nothing EXCEPT !["ticks"] = t, !["market_trades"] = s, !["prices"] = p] :
              t \in {<<>>, <<At(4, 1)>>}, s \in {<<>>} \cup Rows(2), p \in {<<>>, SomeBars}}
    \cup {[Nothing EXCEPT !["ticks_3s"] = v, !["market_trades"] = s] :
              v \in {<<Bar(1, 1, 2, 1, 2)>>, <<Bar(1, 1, 2, 1, 2), Bar(4, 2, 2, 1, 1)>>},
              s \in {<<>>, <<At(2, 1)>>}}

(* Sizes 1 and 2 divide the origin 4 of TimescaleDB, 3 does not. *)
FewRequests ==
    [start : {0, 1}, end : {4}, size : {1, 2, 3}, max : {2, 5}, source : {"auto"},
     database : {"postgresql", "other"}]
    \cup [start : {0}, end : {3}, size : {1, 3}, max : {5}, database : {"postgresql", "other"},
           source : {"ticks", "market_trades", "prices", "ticks_3s"}]
=============================================================================
