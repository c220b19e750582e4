------------------------------- MODULE Ingest -------------------------------
(***************************************************************************)
(* What the trade pipeline promises at least: an entry that was sent is    *)
(* kept (a row of market_trades) or lost, never both; what is kept later   *)
(* was sent later; and what was decided stays decided.                     *)
(***************************************************************************)
EXTENDS Integers

CONSTANT Entries  (* numbered in the order they are sent *)

VARIABLES sent,  (* entries published so far *)
          kept,  (* entries that became a row *)
          lost   (* entries that no writer will be given any more *)

state == <<sent, kept, lost>>

Open == sent \ (kept \cup lost)

Init == sent = {} /\ kept = {} /\ lost = {}

(* A full stream drops old entries when it takes a new one. *)
Send == /\ \E e \in Entries \ sent : sent' = sent \cup {e} /\ \A d \in sent : d < e
        /\ lost \subseteq lost' /\ lost' \subseteq sent' \ kept
        /\ kept' = kept

Keep == /\ kept \subseteq kept' /\ kept' \ kept \subseteq Open
        /\ \A e \in kept' \ kept, d \in kept : d < e
        /\ sent' = sent /\ lost' = lost

Lose == /\ lost \subseteq lost' /\ lost' \ lost \subseteq Open
        /\ sent' = sent /\ kept' = kept

Spec == Init /\ [][Send \/ Keep \/ Lose]_state
=============================================================================
