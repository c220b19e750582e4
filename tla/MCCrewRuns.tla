----------------------------- MODULE MCCrewRuns -----------------------------
(* CrewRuns for TLC. *)
EXTENDS CrewRuns

(* Two exchanges have the first symbol. *)
TwoSymbols == <<"btc", "btc", "eth">>
=============================================================================
