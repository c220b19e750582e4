----------------------------- MODULE MCSources ------------------------------
(* Sources for TLC.  A file is three units long; the archives have the     *)
(* second and the third of three files, and the third cannot be read.      *)
EXTENDS Sources

TwoImports ==
    {[source |-> "binance_vision", start |-> 1, end |-> 4, owner |-> "user"],
     [source |-> "dukascopy", start |-> 3, end |-> 6, owner |-> "none"]}

ThreeKinds ==
    [f \in {"binance_vision", "dukascopy"} \X (0..2) |->
       IF f[2] = 2 THEN {"bare", "broken"}
       ELSE IF f[1] = "dukascopy" THEN {"bare"} ELSE {"tagged", "bare", "skipped"}]

(* Two gaps in the hour that exists, and one later. *)
ThreeGaps == {<<[start |-> 3, end |-> 4], [start |-> 5, end |-> 6], [start |-> 7, end |-> 8]>>}
=============================================================================
