----------------------------- MODULE MCCrewDesk -----------------------------
(* CrewDesk for TLC.  Workers and row identifiers are interchangeable: the *)
(* specification compares them and never orders them.                      *)
EXTENDS CrewDesk, TLC

DeskSymmetry == Permutations(Workers) \cup Permutations(RowIds)

(* PATCH /autonomy that turns one switch off and leaves the others on. *)
OneSwitchOff == {[autonomous |-> FALSE, research |-> TRUE, monitor |-> TRUE]}
=============================================================================
