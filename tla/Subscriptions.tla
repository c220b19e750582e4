---------------------------- MODULE Subscriptions ---------------------------
(***************************************************************************)
(* One exchange connection of the streamer process: it reconnects with a   *)
(* growing delay, sends the subscriptions it remembers, and adds those     *)
(* that the API asks for on a Redis channel while somebody looks at a      *)
(* market.                                                                 *)
(*                                                                         *)
(* The coroutines of the process interleave at their awaits only.  The     *)
(* channel delivers a command to a process that listens, or to nobody.     *)
(***************************************************************************)
EXTENDS Integers, Sequences

CONSTANTS Symbols,      (* markets *)
          Initial,      (* CORE_UNIVERSE *)
          MaxDelay,     (* the delay between connections is at most so long *)
          MaxCommands,  (* bound: commands in a behaviour *)
          MaxFailures   (* bound: failed and lost connections, deaths of the process *)

ASSUME SubscriptionsAssumption ==
    /\ Initial \subseteq Symbols
    /\ MaxDelay \in Nat \ {0} /\ MaxCommands \in Nat /\ MaxFailures \in Nat

VARIABLES remembers, (* Kraken and Binance remember what they subscribe to, Coinbase does not *)
          link,      (* "down", "connecting", "open", "live" or "waiting" *)
          delay,     (* backoff_seconds *)
          commands,  (* _write_queue *)
          sending,   (* what the write loop has taken from it and not sent *)
          known,     (* _pairs, _subscribe_params or _product_ids *)
          streamed,  (* what the exchange sends on this connection *)
          taken,     (* history: the commands this process took *)
          asked,     (* commands sent so far *)
          failures   (* failures so far *)

vars == <<remembers, link, delay, commands, sending, known, streamed, taken, asked, failures>>

Links == {"down", "connecting", "open", "live", "waiting"}
-----------------------------------------------------------------------------
(* The API publishes a command when a chart or an analysis is opened;      *)
(* _command_listener takes it, if there is one.                            *)
Command ==
    \E s \in Symbols :
        /\ asked < MaxCommands
        /\ asked' = asked + 1
        /\ IF link = "down" THEN UNCHANGED <<commands, taken>>
           ELSE commands' = Append(commands, s) /\ taken' = taken \cup {s}
        /\ UNCHANGED <<remembers, link, delay, sending, known, streamed, failures>>

(* run_all: a new process knows its configuration only. *)
Start ==
    /\ link = "down"
    /\ link' = "connecting" /\ delay' = 1 /\ known' = Initial
    /\ UNCHANGED <<remembers, commands, sending, streamed, taken, asked, failures>>

Connect ==
    /\ link = "connecting"
    /\ link' = "open" /\ delay' = 1
    /\ UNCHANGED <<remembers, commands, sending, known, streamed, taken, asked, failures>>

(* The first message on a connection: get_subscription_message. *)
Subscribe ==
    /\ link = "open"
    /\ link' = "live" /\ streamed' = known
    /\ UNCHANGED <<remembers, delay, commands, sending, known, taken, asked, failures>>

(* Mutant: no exchange remembers a market that is asked for. *)
KnownWhenTaken_Never(s) == known

(* _make_subscription_payload remembers before the message is sent. *)
KnownWhenTaken(s) == IF remembers THEN known \cup {s} ELSE known

(* _write_loop takes a command ... *)
TakeCommand ==
    /\ link = "live" /\ sending = {} /\ commands # <<>>
    /\ sending' = {Head(commands)} /\ commands' = Tail(commands)
    /\ known' = KnownWhenTaken(Head(commands))
    /\ UNCHANGED <<remembers, link, delay, streamed, taken, asked, failures>>

(* ... and sends it. *)
SendCommand ==
    /\ link = "live" /\ sending # {}
    /\ streamed' = streamed \cup sending /\ sending' = {}
    /\ UNCHANGED <<remembers, link, delay, commands, known, taken, asked, failures>>

Fail(place) ==
    /\ failures < MaxFailures /\ failures' = failures + 1
    /\ link' = place /\ streamed' = {} /\ sending' = {}

(* The connection cannot be made, or breaks with an exception in either    *)
(* loop: the other is cancelled, and what it was sending is gone.          *)
Lose ==
    /\ link \in {"connecting", "open", "live"}
    /\ Fail("waiting")
    /\ UNCHANGED <<remembers, delay, commands, known, taken, asked>>

(* The exchange closes the connection in order: the read loop ends without *)
(* an exception, and the next connection is made at once.                  *)
Closed ==
    /\ link = "live"
    /\ Fail("connecting")
    /\ UNCHANGED <<remembers, delay, commands, known, taken, asked>>

Doubled(d) == IF 2 * d <= MaxDelay THEN 2 * d ELSE MaxDelay

Wait ==
    /\ link = "waiting"
    /\ link' = "connecting" /\ delay' = Doubled(delay)
    /\ UNCHANGED <<remembers, commands, sending, known, streamed, taken, asked, failures>>

(* The process ends, or an error of Redis in the listener ends all of      *)
(* run_all; it is started again.                                           *)
Die ==
    /\ link # "down"
    /\ Fail("down")
    /\ commands' = <<>> /\ taken' = {} /\ known' = Initial
    /\ UNCHANGED <<remembers, delay, asked>>
-----------------------------------------------------------------------------
Init ==
    /\ remembers \in BOOLEAN
    /\ link = "down" /\ delay = 1 /\ commands = <<>> /\ sending = {} /\ known = Initial
    /\ streamed = {} /\ taken = {} /\ asked = 0 /\ failures = 0

Next == \/ Command \/ Start \/ Connect \/ Subscribe \/ TakeCommand \/ SendCommand \/ Wait
        \/ Lose \/ Closed \/ Die

Spec == Init /\ [][Next]_vars
-----------------------------------------------------------------------------
(* Every variable has its type; the delay stays within its bound. *)
TypeOK ==
    /\ remembers \in BOOLEAN /\ link \in Links /\ delay \in 1..MaxDelay
    /\ commands \in Seq(Symbols) /\ sending \subseteq Symbols /\ known \subseteq Symbols
    /\ streamed \subseteq Symbols /\ taken \subseteq Symbols
    /\ asked \in 0..MaxCommands /\ failures \in 0..MaxFailures

(* On Kraken and Binance no command is lost while the process lives: what  *)
(* it took is queued, being sent, or among what every later connection     *)
(* subscribes to, and a live connection without a command in hand streams  *)
(* exactly what is known, whichever way earlier connections ended.         *)
NothingForgotten ==
    remembers =>
        /\ taken \subseteq known \cup {commands[i] : i \in DOMAIN commands}
        /\ link = "live" => streamed \cup sending = known
=============================================================================
