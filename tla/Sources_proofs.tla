--------------------------- MODULE Sources_proofs ---------------------------
(* Proofs about the two ways trades come in: subscriptions, for every set  *)
(* of markets, every limit of the delay and any number of commands and     *)
(* failures; imports, for any workers, files, ranges and breaks.           *)
EXTENDS Sources, SequenceTheorems, FiniteSetTheorems, TLAPS

-----------------------------------------------------------------------------
(* Types. *)

LEMMA InitTypes == Init => TypeOK
  <1> SUFFICES ASSUME Init PROVE TypeOK
    OBVIOUS
  <1>1. 1 \in 1..MaxDelay /\ 0 \in 0..MaxCommands /\ 0 \in 0..MaxFailures
    BY SubscriptionsAssumption DEF SubscriptionsAssumption
  <1>2. Initial \subseteq Symbols
    BY SubscriptionsAssumption DEF SubscriptionsAssumption
  <1> QED BY <1>1, <1>2 DEF Init, TypeOK, Links

LEMMA DoubledType == ASSUME NEW d \in 1..MaxDelay PROVE Doubled(d) \in 1..MaxDelay
  BY SubscriptionsAssumption DEF SubscriptionsAssumption, Doubled

(* A failure is counted, and leaves nothing streamed and nothing in hand. *)
LEMMA FailTypes ==
    ASSUME TypeOK, NEW place \in Links, Fail(place)
    PROVE  /\ failures' \in 0..MaxFailures /\ link' = place
           /\ streamed' = {} /\ sending' = {}
  BY SubscriptionsAssumption DEF SubscriptionsAssumption, TypeOK, Fail

LEMMA TypesStep == TypeOK /\ [Next]_vars => TypeOK'
  <1> SUFFICES ASSUME TypeOK, [Next]_vars PROVE TypeOK'
    OBVIOUS
  <1>1. CASE Command
    <2>1. PICK s \in Symbols :
             /\ asked < MaxCommands /\ asked' = asked + 1
             /\ \/ UNCHANGED <<commands, taken>>
                \/ commands' = Append(commands, s) /\ taken' = taken \cup {s}
             /\ UNCHANGED <<remembers, link, delay, sending, known, streamed, failures>>
      BY <1>1 DEF Command
    <2>2. asked' \in 0..MaxCommands
      BY <2>1, SubscriptionsAssumption DEF SubscriptionsAssumption, TypeOK
    <2>3. commands' \in Seq(Symbols) /\ taken' \subseteq Symbols
      BY <2>1 DEF TypeOK
    <2> QED BY <2>1, <2>2, <2>3 DEF TypeOK
  <1>2. CASE Start
    BY <1>2, SubscriptionsAssumption DEF SubscriptionsAssumption, Start, TypeOK, Links
  <1>3. CASE Connect
    BY <1>3, SubscriptionsAssumption DEF SubscriptionsAssumption, Connect, TypeOK, Links
  <1>4. CASE Subscribe
    BY <1>4 DEF Subscribe, TypeOK, Links
  <1>5. CASE TakeCommand
    <2>1. Head(commands) \in Symbols /\ Tail(commands) \in Seq(Symbols)
      BY <1>5 DEF TakeCommand, TypeOK
    <2> QED BY <1>5, <2>1 DEF TakeCommand, KnownWhenTaken, TypeOK
  <1>6. CASE SendCommand
    BY <1>6 DEF SendCommand, TypeOK
  <1>7. CASE Wait
    BY <1>7, DoubledType DEF Wait, TypeOK, Links
  <1>8. CASE Lose
    <2>1. Fail("waiting") /\ UNCHANGED <<remembers, delay, commands, known, taken, asked>>
      BY <1>8 DEF Lose
    <2> QED BY <2>1, FailTypes DEF TypeOK, Links
  <1>9. CASE Closed
    <2>1. Fail("connecting") /\ UNCHANGED <<remembers, delay, commands, known, taken, asked>>
      BY <1>9 DEF Closed
    <2> QED BY <2>1, FailTypes DEF TypeOK, Links
  <1>10. CASE Die
    <2>1. /\ Fail("down") /\ UNCHANGED <<remembers, delay, asked>>
          /\ commands' = <<>> /\ taken' = {} /\ known' = Initial
      BY <1>10 DEF Die
    <2>2. Initial \subseteq Symbols
      BY SubscriptionsAssumption DEF SubscriptionsAssumption
    <2> QED BY <2>1, <2>2, FailTypes DEF TypeOK, Links
  <1>11. CASE UNCHANGED vars
    BY <1>11 DEF vars, TypeOK
  <1> QED BY <1>1, <1>2, <1>3, <1>4, <1>5, <1>6, <1>7, <1>8, <1>9, <1>10, <1>11 DEF Next

(* Every variable of the connection has its type, and the delay between    *)
(* connections never passes its limit.                                     *)
THEOREM TypesHold == Spec => []TypeOK
  BY InitTypes, TypesStep, PTL DEF Spec
-----------------------------------------------------------------------------
(* What is queued. *)

Queued(q) == {q[i] : i \in DOMAIN q}

LEMMA QueuedAppend ==
    ASSUME NEW q \in Seq(Symbols), NEW s \in Symbols
    PROVE  Queued(q) \cup {s} \subseteq Queued(Append(q, s))
  <1>1. \A i \in DOMAIN q : i \in DOMAIN Append(q, s) /\ Append(q, s)[i] = q[i]
    OBVIOUS
  <1>2. Len(q) + 1 \in DOMAIN Append(q, s) /\ Append(q, s)[Len(q) + 1] = s
    OBVIOUS
  <1> QED BY <1>1, <1>2 DEF Queued

LEMMA QueuedTail ==
    ASSUME NEW q \in Seq(Symbols), q # <<>>
    PROVE  Queued(q) \subseteq {Head(q)} \cup Queued(Tail(q))
  <1> SUFFICES ASSUME NEW i \in DOMAIN q, i # 1 PROVE q[i] \in Queued(Tail(q))
    BY DEF Queued
  <1>1. i - 1 \in DOMAIN Tail(q) /\ Tail(q)[i - 1] = q[i]
    OBVIOUS
  <1> QED BY <1>1 DEF Queued

(* A process that is down has taken nothing, and only a live connection    *)
(* has a command in hand: with this, nothing is forgotten in the next step *)
(* either.                                                                 *)
Careful ==
    /\ link = "down" => taken = {}
    /\ link # "live" => sending = {}
    /\ NothingForgotten

LEMMA CarefulCommand ==
    ASSUME TypeOK, Careful, Command
    PROVE  Careful'
  <1>1. PICK s \in Symbols :
           /\ IF link = "down" THEN UNCHANGED <<commands, taken>>
              ELSE commands' = Append(commands, s) /\ taken' = taken \cup {s}
           /\ UNCHANGED <<remembers, link, sending, known, streamed>>
    BY DEF Command
  <1>2. CASE link = "down"
    BY <1>1, <1>2 DEF Careful, NothingForgotten
  <1>3. CASE link # "down"
    <2>1. commands' = Append(commands, s) /\ taken' = taken \cup {s} /\ link' # "down"
      BY <1>1, <1>3
    <2>2. Queued(commands) \cup {s} \subseteq Queued(commands')
      BY <2>1, QueuedAppend DEF TypeOK
    <2>3. remembers => taken' \subseteq known' \cup Queued(commands')
      BY <1>1, <2>1, <2>2 DEF Careful, NothingForgotten, Queued
    <2> QED BY <1>1, <2>1, <2>3 DEF Careful, NothingForgotten, Queued
  <1> QED BY <1>2, <1>3

LEMMA CarefulTake ==
    ASSUME TypeOK, Careful, TakeCommand
    PROVE  Careful'
  <1> DEFINE h == Head(commands)
  <1>1. /\ link = "live" /\ sending = {} /\ commands # <<>>
        /\ sending' = {h} /\ commands' = Tail(commands)
        /\ known' = KnownWhenTaken(h)
        /\ UNCHANGED <<remembers, link, streamed, taken>>
    BY DEF TakeCommand
  <1>2. Queued(commands) \subseteq {h} \cup Queued(commands')
    BY <1>1, QueuedTail DEF TypeOK
  <1> HIDE DEF h
  <1>3. ASSUME remembers
        PROVE  /\ taken' \subseteq known' \cup Queued(commands')
               /\ streamed' \cup sending' = known'
    <2>1. known' = known \cup {h} /\ taken \subseteq known \cup Queued(commands)
          /\ streamed = known
      BY <1>1, <1>3 DEF KnownWhenTaken, Careful, NothingForgotten, Queued
    <2> QED BY <1>1, <1>2, <2>1
  <1> QED BY <1>1, <1>3 DEF Careful, NothingForgotten, Queued

LEMMA CarefulOtherwise ==
    ASSUME TypeOK, Careful,
           \/ Start \/ Connect \/ Subscribe \/ SendCommand \/ Wait \/ Lose \/ Closed \/ Die
           \/ UNCHANGED vars
    PROVE  Careful'
  <1>1. CASE Start
    BY <1>1 DEF Start, Careful, NothingForgotten
  <1>2. CASE Connect
    BY <1>2 DEF Connect, Careful, NothingForgotten
  <1>3. CASE Subscribe
    BY <1>3 DEF Subscribe, Careful, NothingForgotten
  <1>4. CASE SendCommand
    BY <1>4 DEF SendCommand, Careful, NothingForgotten
  <1>5. CASE Wait
    BY <1>5 DEF Wait, Careful, NothingForgotten
  <1>6. CASE Lose
    BY <1>6 DEF Lose, Fail, Careful, NothingForgotten
  <1>7. CASE Closed
    BY <1>7 DEF Closed, Fail, Careful, NothingForgotten
  <1>8. CASE Die
    BY <1>8 DEF Die, Fail, Careful, NothingForgotten
  <1>9. CASE UNCHANGED vars
    BY <1>9 DEF vars, Careful, NothingForgotten
  <1> QED BY <1>1, <1>2, <1>3, <1>4, <1>5, <1>6, <1>7, <1>8, <1>9

(* On an exchange whose client remembers its subscriptions, what the       *)
(* process took is queued or known, and a live connection streams what is  *)
(* known, across any number of reconnections: run_forever, _write_loop and *)
(* _make_subscription_payload lose no market between them.                 *)
THEOREM SubscriptionsSurvive == Spec => []NothingForgotten
  <1>1. Init => TypeOK /\ Careful
    <2>1. Init => Careful
      BY DEF Init, Careful, NothingForgotten
    <2> QED BY <2>1, InitTypes
  <1>2. TypeOK /\ Careful /\ [Next]_vars => (TypeOK /\ Careful)'
    BY TypesStep, CarefulCommand, CarefulTake, CarefulOtherwise DEF Next
  <1>3. Careful => NothingForgotten
    BY DEF Careful
  <1> QED BY <1>1, <1>2, <1>3, PTL DEF Spec
-----------------------------------------------------------------------------
(* A behaviour of the whole is, for each part, one of that part: while the *)
(* other is followed it stands still.                                      *)
THEOREM PartsBehave == SourcesSpec => Spec /\ I!Init /\ [][I!Next]_importVars
  <1>1. SourcesInit => Init /\ I!Init
    BY DEF SourcesInit
  <1>2. [SourcesNext]_sourceVars => [Next]_vars
    BY DEF SourcesNext, sourceVars, vars
  <1>3. [SourcesNext]_sourceVars => [I!Next]_importVars
    BY DEF SourcesNext, sourceVars, importVars
  <1> QED BY <1>1, <1>2, <1>3, PTL DEF SourcesSpec, Spec
-----------------------------------------------------------------------------
(* Imports. *)

(* A process between two tasks holds nothing; before its last file is done *)
(* it is inside its range; what it is about to commit it holds.            *)
Steady(w) ==
    /\ worker[w].at = "idle" => worker[w].holds = {}
    /\ worker[w].at # "idle" => worker[w].now <= worker[w].task.end
    /\ worker[w].at \in {"asset", "new asset", "insert", "commit"} => "record" \in worker[w].holds
    /\ worker[w].at = "commit" /\ "tagged" \in worker[w].adds => "tagged" \in worker[w].holds

(* The ticks of a file that an import of w would add. *)
Lacking(w) == {k \in Content[I!OnDisk(w)] \cap I!Ticks : k = "tagged" => copies[I!Stored(w, k)] = 0}

(* A user's record is only held while there is none; the ticks that are    *)
(* about to be committed are those that are not there, of a file that was  *)
(* read to its end.                                                        *)
Sure(w) ==
    /\ "record" \in worker[w].holds /\ worker[w].task.owner = "user" => runs[I!Key(w)] = 0
    /\ worker[w].at = "commit" =>
          worker[w].adds = Lacking(w) /\ "broken" \notin Content[I!OnDisk(w)]

(* No two processes hold a record of one user's file, or one file's ticks  *)
(* with an id.                                                             *)
Excluded(v, w) ==
    /\ ~(/\ "record" \in worker[v].holds /\ "record" \in worker[w].holds
         /\ I!Key(v) = I!Key(w) /\ worker[w].task.owner = "user")
    /\ ~(/\ "tagged" \in worker[v].holds /\ "tagged" \in worker[w].holds
         /\ I!OnDisk(v) = I!OnDisk(w))

(* The ticks of Binance Vision have their own time. *)
InPlace == \A f \in I!Files, s \in 1..(Period - 1), k \in I!Ticks :
              copies[<<"binance_vision", f, s, k>>] = 0

Claims ==
    /\ \A w \in Workers : Steady(w) /\ Sure(w)
    /\ \A v, w \in Workers : v # w => Excluded(v, w)
    /\ InPlace /\ RecordedIsStored

InOrder == \A i \in DOMAIN queue : queue[i].start <= queue[i].end

ImportsInv == I!TypeOK /\ InOrder /\ Claims

Session == [at : I!Places, task : I!Task, now : Nat, adds : SUBSET I!Ticks,
            holds : SUBSET {"record", "asset", "tagged"}]

(* Process w goes from what it was to session s; the others stay. *)
Becomes(w, s) == worker' = [worker EXCEPT ![w] = s]

LEMMA ConstantTypes ==
    /\ Period \in Nat \ {0} /\ LastFile \in Nat /\ I!ImportsAssumption
    /\ MaxTasks \in Nat /\ MaxBreaks \in Nat
  BY SourcesAssumption DEF I!ImportsAssumption

LEMMA BecomesTypes ==
    ASSUME I!TypeOK, NEW w \in Workers, NEW s \in Session, Becomes(w, s)
    PROVE  /\ worker' \in [Workers -> Session] /\ worker'[w] = s
           /\ \A v \in Workers \ {w} : worker'[v] = worker[v]
  BY DEF Becomes, I!TypeOK, Session

LEMMA SessionFields ==
    ASSUME I!TypeOK, NEW w \in Workers
    PROVE  /\ worker[w] \in Session /\ worker[w].at \in I!Places /\ worker[w].task \in I!Task
           /\ worker[w].now \in Nat /\ worker[w].adds \in SUBSET I!Ticks
           /\ worker[w].holds \in SUBSET {"record", "asset", "tagged"}
  BY DEF I!TypeOK, Session

LEMMA GoToBecomes ==
    ASSUME I!TypeOK, NEW w \in Workers, NEW place \in I!Places, I!GoTo(w, place)
    PROVE  \E s \in Session :
               /\ Becomes(w, s) /\ s.at = place /\ s.task = worker[w].task /\ s.now = worker[w].now
               /\ s.adds = worker[w].adds /\ s.holds = worker[w].holds
  <1> DEFINE s == [worker[w] EXCEPT !.at = place]
  <1>1. worker[w] \in Session
    BY SessionFields
  <1>2. /\ s \in Session /\ s.at = place /\ s.task = worker[w].task /\ s.now = worker[w].now
        /\ s.adds = worker[w].adds /\ s.holds = worker[w].holds
    BY <1>1 DEF Session
  <1>3. Becomes(w, s)
    BY DEF I!GoTo, Becomes
  <1> QED BY <1>2, <1>3

LEMMA GoWithBecomes ==
    ASSUME I!TypeOK, NEW w \in Workers, NEW place \in I!Places,
           NEW row \in {"record", "asset", "tagged"}, I!GoWith(w, place, row)
    PROVE  \E s \in Session :
               /\ Becomes(w, s) /\ s.at = place /\ s.task = worker[w].task /\ s.now = worker[w].now
               /\ s.adds = worker[w].adds /\ s.holds = worker[w].holds \cup {row}
  <1> DEFINE mid == [worker EXCEPT ![w].at = place]
             s == [mid[w] EXCEPT !.holds = worker[w].holds \cup {row}]
  <1>1. worker \in [Workers -> Session]
    BY DEF I!TypeOK, Session
  <1>2. mid[w] = [worker[w] EXCEPT !.at = place] /\ mid \in [Workers -> Session]
        /\ \A v \in Workers \ {w} : mid[v] = worker[v]
    BY <1>1 DEF Session
  <1>3. /\ mid[w] \in Session /\ mid[w].at = place /\ mid[w].task = worker[w].task
        /\ mid[w].now = worker[w].now /\ mid[w].adds = worker[w].adds /\ mid[w].holds = worker[w].holds
    BY <1>1, <1>2 DEF Session
  <1>4. worker' = [mid EXCEPT ![w] = [mid[w] EXCEPT !.holds = worker[w].holds \cup {row}]]
    BY <1>1, <1>3 DEF I!GoWith
  <1> HIDE DEF mid
  <1>5. /\ s \in Session /\ s.at = place /\ s.task = worker[w].task /\ s.now = worker[w].now
        /\ s.adds = worker[w].adds /\ s.holds = worker[w].holds \cup {row}
    BY <1>3 DEF Session
  <1> HIDE DEF s
  <1>6. Becomes(w, s)
    BY <1>1, <1>2, <1>4 DEF Becomes, s
  <1> QED BY <1>5, <1>6

(* A process at the first step for a file, or at none. *)
Fetching(t, n) == [I!Idle EXCEPT !.at = "fetch", !.task = t, !.now = n]

LEMMA IdleIsSession ==
    /\ I!Idle \in Session /\ I!Idle.at = "idle" /\ I!Idle.holds = {}
    /\ \A t \in I!Task, n \in Nat :
          /\ Fetching(t, n) \in Session /\ Fetching(t, n).at = "fetch" /\ Fetching(t, n).holds = {}
          /\ Fetching(t, n).task = t /\ Fetching(t, n).now = n
  <1>1. I!NoTask \in I!Task
    <2>1. 0 \in I!Times
      <3> DEFINE p == (LastFile + 1) * Period
      <3>1. p \in Nat \ {0}
        BY ConstantTypes
      <3> HIDE DEF p
      <3>2. 0 \in 0..(p - 1)
        BY <3>1
      <3> QED BY <3>2 DEF I!Times, p
    <2> QED BY <2>1 DEF I!NoTask, I!Task, I!Sources, I!Owners
  <1>2. I!Idle \in Session /\ I!Idle.at = "idle" /\ I!Idle.holds = {}
    BY <1>1 DEF I!Idle, Session, I!Places
  <1>3. ASSUME NEW t \in I!Task, NEW n \in Nat
        PROVE  /\ Fetching(t, n) \in Session /\ Fetching(t, n).at = "fetch" /\ Fetching(t, n).holds = {}
               /\ Fetching(t, n).task = t /\ Fetching(t, n).now = n
    <2> DEFINE a == [I!Idle EXCEPT !.at = "fetch"]
               b == [a EXCEPT !.task = t]
               c == [b EXCEPT !.now = n]
    <2>1. a \in Session /\ a.at = "fetch" /\ a.holds = {}
      BY <1>2 DEF Session, I!Places
    <2> HIDE DEF a
    <2>2. b \in Session /\ b.at = "fetch" /\ b.holds = {} /\ b.task = t
      BY <2>1 DEF Session
    <2> HIDE DEF b
    <2>3. c \in Session /\ c.at = "fetch" /\ c.holds = {} /\ c.task = t /\ c.now = n
      BY <2>2 DEF Session
    <2> QED BY <2>3 DEF a, b, Fetching
  <1> QED BY <1>2, <1>3

(* The times of the bounded archive belong to its files. *)
LEMMA FileOfTime ==
    ASSUME NEW n \in Nat, NEW t \in I!Times, n <= t
    PROVE  n \div Period \in I!Files /\ n % Period \in 0..(Period - 1)
  <1> DEFINE q == n \div Period
             r == n % Period
             p == (LastFile + 1) * Period
  <1>1. q \in Nat /\ r \in 0..(Period - 1) /\ n = Period * q + r
    BY ConstantTypes
  <1>2. n < p
    <2>1. p \in Nat
      BY ConstantTypes
    <2> HIDE DEF p
    <2>2. t \in 0..(p - 1)
      BY DEF I!Times, p
    <2> QED BY <2>1, <2>2
  <1>3. q < LastFile + 1
    <2> SUFFICES ASSUME LastFile + 1 <= q PROVE FALSE
      BY <1>1, ConstantTypes
    <2> DEFINE x == Period * q
    <2>1. x \in Nat /\ p <= x
      <3> HIDE DEF q
      <3> QED BY <1>1, ConstantTypes
    <2>2. n = x + r /\ p \in Nat
      BY <1>1, ConstantTypes
    <2> HIDE DEF x, p, r
    <2> QED BY <1>1, <1>2, <2>1, <2>2
  <1> HIDE DEF q, r
  <1>4. q \in 0..LastFile
    BY <1>1, <1>3, ConstantTypes
  <1> QED BY <1>1, <1>4 DEF I!Files, q, r

LEMMA PlaceTypes ==
    ASSUME I!TypeOK, NEW w \in Workers, worker[w].now <= worker[w].task.end
    PROVE  /\ I!File(w) \in I!Files /\ I!Shift(w) \in 0..(Period - 1)
           /\ worker[w].task.source = "binance_vision" => I!Shift(w) = 0
           /\ worker[w].task.source \in I!Sources /\ worker[w].task.owner \in I!Owners
  <1>1. worker[w].now \in Nat /\ worker[w].task \in I!Task
    BY SessionFields
  <1>2. worker[w].task.end \in I!Times /\ worker[w].task.source \in I!Sources /\ worker[w].task.owner \in I!Owners
    BY <1>1 DEF I!Task
  <1>3. worker[w].now \div Period \in I!Files /\ worker[w].now % Period \in 0..(Period - 1)
    BY <1>1, <1>2, FileOfTime
  <1>4. 0 \in 0..(Period - 1)
    BY ConstantTypes
  <1> QED BY <1>2, <1>3, <1>4 DEF I!File, I!Shift

(* The rows of a table, one by one. *)
LEMMA RowIn ==
    ASSUME NEW count, NEW keys, NEW x
    PROVE  x \in I!RowsOf(count, keys) <=> \E k \in keys : \E n \in 1..count[k] : x = <<k, n>>
  BY DEF I!RowsOf

LEMMA RowsFinite ==
    ASSUME NEW keys, IsFiniteSet(keys), NEW count, \A k \in keys : count[k] \in Nat
    PROVE  IsFiniteSet(I!RowsOf(count, keys)) /\ Cardinality(I!RowsOf(count, keys)) \in Nat
  <1> DEFINE rows == [k \in keys |-> {k} \X (1..count[k])]
             all == {rows[k] : k \in keys}
  <1>1. \A T \in all : IsFiniteSet(T)
    <2> SUFFICES ASSUME NEW k \in keys PROVE IsFiniteSet({k} \X (1..count[k]))
      OBVIOUS
    <2>1. count[k] \in Int
      OBVIOUS
    <2>2. IsFiniteSet(1..count[k])
      BY <2>1, FS_Interval
    <2>3. IsFiniteSet({k})
      BY FS_Singleton
    <2> QED BY <2>2, <2>3, FS_Product
  <1>2. IsFiniteSet(all)
    <2>1. rows \in Surjection(keys, all)
      BY DEF Surjection
    <2> HIDE DEF rows, all
    <2> QED BY <2>1, FS_Surjection DEF ExistsSurjection
  <1>3. I!RowsOf(count, keys) = UNION all
    BY DEF I!RowsOf
  <1> HIDE DEF all
  <1>4. IsFiniteSet(UNION all)
    BY <1>1, <1>2, FS_UNION
  <1> QED BY <1>3, <1>4, FS_CardinalityType

LEMMA SameRows ==
    ASSUME NEW keys, NEW count, NEW other, \A k \in keys : other[k] = count[k]
    PROVE  I!RowsOf(other, keys) = I!RowsOf(count, keys)
  BY DEF I!RowsOf

LEMMA OneRowMore ==
    ASSUME NEW keys, IsFiniteSet(keys), NEW count, \A k \in keys : count[k] \in Nat,
           NEW key \in keys, NEW more, more[key] = count[key] + 1,
           \A k \in keys \ {key} : more[k] = count[k]
    PROVE  Cardinality(I!RowsOf(more, keys)) = Cardinality(I!RowsOf(count, keys)) + 1
  <1> DEFINE old == I!RowsOf(count, keys)
             row == <<key, count[key] + 1>>
  <1>1. IsFiniteSet(old)
    BY RowsFinite
  <1>2. row \notin old
    BY RowIn
  <1>3. I!RowsOf(more, keys) = old \cup {row}
    <2>1. ASSUME NEW x \in I!RowsOf(more, keys) PROVE x \in old \cup {row}
      <3>1. PICK k \in keys : \E n \in 1..more[k] : x = <<k, n>>
        BY RowIn
      <3>2. PICK n \in 1..more[k] : x = <<k, n>>
        BY <3>1
      <3>3. CASE k = key /\ n = count[key] + 1
        BY <3>2, <3>3
      <3>4. CASE ~(k = key /\ n = count[key] + 1)
        <4>1. n \in 1..count[k]
          BY <3>4
        <4> QED BY <3>2, <4>1, RowIn
      <3> QED BY <3>3, <3>4
    <2>2. ASSUME NEW x \in old PROVE x \in I!RowsOf(more, keys)
      <3>1. PICK k \in keys : \E n \in 1..count[k] : x = <<k, n>>
        BY RowIn
      <3>2. PICK n \in 1..count[k] : x = <<k, n>>
        BY <3>1
      <3>3. n \in 1..more[k]
        OBVIOUS
      <3> QED BY <3>2, <3>3, RowIn
    <2>3. row \in I!RowsOf(more, keys)
      <3>1. count[key] + 1 \in 1..more[key]
        OBVIOUS
      <3> QED BY <3>1, RowIn
    <2> HIDE DEF old, row
    <2> QED BY <2>1, <2>2, <2>3
  <1> HIDE DEF old, row
  <1> QED BY <1>1, <1>2, <1>3, FS_AddElement DEF old

LEMMA NoRow ==
    ASSUME NEW keys, IsFiniteSet(keys), NEW count, \A k \in keys : count[k] \in Nat
    PROVE  Cardinality(I!RowsOf(count, keys)) = 0 <=> \A k \in keys : count[k] = 0
  <1>1. Cardinality(I!RowsOf(count, keys)) = 0 <=> I!RowsOf(count, keys) = {}
    BY RowsFinite, FS_EmptySet
  <1>2. ASSUME \A k \in keys : count[k] = 0 PROVE I!RowsOf(count, keys) = {}
    <2>1. ASSUME NEW x \in I!RowsOf(count, keys) PROVE FALSE
      <3>1. PICK k \in keys : \E n \in 1..count[k] : x = <<k, n>>
        BY RowIn
      <3> QED BY <1>2, <3>1
    <2> QED BY <2>1
  <1>3. ASSUME NEW k \in keys, count[k] # 0 PROVE I!RowsOf(count, keys) # {}
    <2>1. 1 \in 1..count[k]
      BY <1>3
    <2>2. <<k, 1>> \in I!RowsOf(count, keys)
      BY <2>1, RowIn
    <2> QED BY <2>2
  <1> QED BY <1>1, <1>2, <1>3

CopyKeys(s, f, k) == {s} \X {f} \X (0..(Period - 1)) \X {k}
RunKeys(s, f)     == {s} \X I!Owners \X {f}
CopyTable == I!Sources \X I!Files \X (0..(Period - 1)) \X I!Ticks

(* The instance has the operators of FiniteSets under names of its own. *)
LEMMA CountsAsRows ==
    ASSUME NEW s, NEW f
    PROVE  /\ \A k : /\ I!AllCopies(s, f, k) = Cardinality(I!RowsOf(copies, CopyKeys(s, f, k)))
                    /\ I!AllCopies(s, f, k)' = Cardinality(I!RowsOf(copies', CopyKeys(s, f, k)))
           /\ I!AllRuns(s, f) = Cardinality(I!RowsOf(runs, RunKeys(s, f)))
           /\ I!AllRuns(s, f)' = Cardinality(I!RowsOf(runs', RunKeys(s, f)))
  BY DEF I!AllCopies, I!AllRuns, CopyKeys, RunKeys, I!Cardinality, Cardinality

LEMMA KeysFinite ==
    ASSUME NEW s, NEW f
    PROVE  (\A k : IsFiniteSet(CopyKeys(s, f, k))) /\ IsFiniteSet(RunKeys(s, f))
  <1>1. IsFiniteSet(0..(Period - 1))
    <2>1. 0 \in Int /\ Period - 1 \in Int
      BY ConstantTypes
    <2> QED BY <2>1, FS_Interval
  <1>2. IsFiniteSet(I!Owners)
    <2>1. IsFiniteSet({"none"})
      BY FS_Singleton
    <2>2. IsFiniteSet({"none"} \cup {"user"})
      BY <2>1, FS_AddElement
    <2>3. I!Owners = {"none"} \cup {"user"}
      BY DEF I!Owners
    <2> QED BY <2>2, <2>3
  <1>3. ASSUME NEW k PROVE CopyKeys(s, f, k) = {<<s, f, t, k>> : t \in 0..(Period - 1)}
    BY DEF CopyKeys
  <1>4. RunKeys(s, f) = {<<s, o, f>> : o \in I!Owners}
    BY DEF RunKeys
  <1>5. ASSUME NEW k
        PROVE  [t \in 0..(Period - 1) |-> <<s, f, t, k>>] \in Surjection(0..(Period - 1), CopyKeys(s, f, k))
    BY <1>3 DEF Surjection
  <1>6. [o \in I!Owners |-> <<s, o, f>>] \in Surjection(I!Owners, RunKeys(s, f))
    BY <1>4 DEF Surjection
  <1>7. ASSUME NEW k PROVE IsFiniteSet(CopyKeys(s, f, k))
    BY <1>1, <1>5, FS_Surjection
  <1>8. IsFiniteSet(RunKeys(s, f))
    BY <1>2, <1>6, FS_Surjection
  <1> QED BY ONLY <1>7, <1>8

(* What a step does to the process that takes it: it returns, to the next  *)
(* file or to none, or goes on at the same file.                           *)
Returns(w) ==
    \E s \in Session : /\ Becomes(w, s) /\ s.holds = {} /\ s.at \in {"idle", "fetch"}
                       /\ s.at = "fetch" => s.now <= s.task.end

Goes(w) ==
    /\ worker[w].at # "idle"
    /\ \E s \in Session :
          /\ Becomes(w, s) /\ s.task = worker[w].task /\ s.now = worker[w].now
          /\ s.at \notin {"idle", "commit"} /\ s.holds \in {worker[w].holds, worker[w].holds \cup {"asset"}}
          /\ s.at \in {"asset", "new asset", "insert"} => "record" \in worker[w].holds

LEMMA FailReturns ==
    ASSUME I!TypeOK, NEW w \in Workers, I!Fail(w)
    PROVE  Returns(w)
  <1>1. Becomes(w, I!Idle)
    BY DEF I!Fail, I!RolledBack, Becomes
  <1> QED BY <1>1, IdleIsSession DEF Returns

LEMMA OnwardReturns ==
    ASSUME I!TypeOK, NEW w \in Workers, I!Onward(w)
    PROVE  Returns(w)
  <1> DEFINE next == worker[w].now + Period
             t == worker[w].task
  <1>1. next \in Nat /\ t \in I!Task /\ t.end \in Int
    <2>1. worker[w].now \in Nat /\ t \in I!Task
      BY SessionFields
    <2> QED BY <2>1, ConstantTypes DEF I!Task, I!Times
  <1>2. CASE next > t.end
    <2>1. Becomes(w, I!Idle)
      BY <1>2 DEF I!Onward, I!Following, Becomes
    <2> QED BY <2>1, IdleIsSession DEF Returns
  <1>3. CASE ~(next > t.end)
    <2>1. Becomes(w, Fetching(t, next))
      BY <1>3 DEF I!Onward, I!Following, Becomes, Fetching
    <2> HIDE DEF t, next
    <2>2. next <= t.end
      BY <1>1, <1>3
    <2> QED BY <1>1, <2>1, <2>2, IdleIsSession DEF Returns
  <1> QED BY <1>2, <1>3

LEMMA KindTypes ==
    ASSUME I!TypeOK, NEW w \in Workers, Returns(w) \/ Goes(w)
    PROVE  worker' \in [Workers -> Session]
  BY BecomesTypes DEF Returns, Goes

(* Only what w claims can change when nothing is committed. *)
LEMMA OthersKeep ==
    ASSUME I!TypeOK, Claims, NEW w \in Workers, NEW s \in Session, Becomes(w, s),
           UNCHANGED <<runs, copies>>, (Steady(w) /\ Sure(w))',
           \A v \in Workers \ {w} : (Excluded(v, w) /\ Excluded(w, v))'
    PROVE  Claims'
  <1>1. \A v \in Workers \ {w} : worker'[v] = worker[v]
    BY BecomesTypes
  <1>2. ASSUME NEW v \in Workers \ {w} PROVE (Steady(v) /\ Sure(v))'
    <2>1. worker'[v] = worker[v] /\ Steady(v) /\ Sure(v)
      BY <1>1 DEF Claims
    <2> QED BY <2>1 DEF Steady, Sure, Lacking, I!Key, I!OnDisk, I!Stored, I!File, I!Shift
  <1>3. ASSUME NEW u \in Workers \ {w}, NEW v \in Workers \ {w}, u # v PROVE Excluded(u, v)'
    <2>1. worker'[v] = worker[v] /\ worker'[u] = worker[u] /\ Excluded(u, v)
      BY <1>1, <1>3 DEF Claims
    <2> QED BY <2>1 DEF Excluded, I!Key, I!OnDisk, I!File
  <1>4. InPlace' /\ RecordedIsStored'
    BY DEF Claims, InPlace, RecordedIsStored, I!RecordedIsStored, I!AllCopies, I!AllRuns
  <1> QED BY <1>2, <1>3, <1>4 DEF Claims

LEMMA KindsKeep ==
    ASSUME I!TypeOK, Claims, NEW w \in Workers, Returns(w) \/ Goes(w), UNCHANGED <<runs, copies>>
    PROVE  Claims'
  <1>1. CASE Returns(w)
    <2>1. PICK s \in Session : /\ Becomes(w, s) /\ s.holds = {} /\ s.at \in {"idle", "fetch"}
                               /\ s.at = "fetch" => s.now <= s.task.end
      BY <1>1 DEF Returns
    <2>2. worker'[w] = s
      BY <2>1, BecomesTypes
    <2>3. Steady(w)' /\ Sure(w)'
      BY <2>1, <2>2 DEF Steady, Sure
    <2>4. \A v \in Workers \ {w} : (Excluded(v, w) /\ Excluded(w, v))'
      BY <2>1, <2>2 DEF Excluded
    <2> QED BY <2>1, <2>3, <2>4, OthersKeep
  <1>2. CASE Goes(w)
    <2>1. PICK s \in Session :
             /\ Becomes(w, s) /\ s.task = worker[w].task /\ s.now = worker[w].now
             /\ s.at \notin {"idle", "commit"} /\ s.holds \in {worker[w].holds, worker[w].holds \cup {"asset"}}
             /\ s.at \in {"asset", "new asset", "insert"} => "record" \in worker[w].holds
      BY <1>2 DEF Goes
    <2>2. worker'[w] = s /\ \A v \in Workers \ {w} : worker'[v] = worker[v]
      BY <2>1, BecomesTypes
    <2>3. Steady(w) /\ Sure(w) /\ worker[w].at # "idle"
      BY <1>2 DEF Claims, Goes
    <2>4. Steady(w)'
      BY <2>1, <2>2, <2>3 DEF Steady
    <2>5. I!Key(w)' = I!Key(w) /\ I!OnDisk(w)' = I!OnDisk(w)
      BY <2>1, <2>2 DEF I!Key, I!OnDisk, I!File
    <2>6. Sure(w)'
      <3>1. /\ worker'[w].at # "commit" /\ worker'[w].task = worker[w].task
            /\ "record" \in worker'[w].holds => "record" \in worker[w].holds
        <4>1. s.at # "commit" /\ s.task = worker[w].task /\ s.holds \in {worker[w].holds, worker[w].holds \cup {"asset"}}
          BY <2>1
        <4>2. "record" \in s.holds => "record" \in worker[w].holds
          BY <4>1
        <4> HIDE <2>1
        <4> QED BY <2>2, <4>1, <4>2
      <3>2. runs' = runs
        OBVIOUS
      <3> QED BY <2>3, <2>5, <3>1, <3>2 DEF Sure
    <2>7. ASSUME NEW v \in Workers \ {w} PROVE (Excluded(v, w) /\ Excluded(w, v))'
      <3>1. Excluded(v, w) /\ Excluded(w, v)
        BY DEF Claims
      <3>2. worker'[v] = worker[v]
        BY <2>2
      <3>3. I!Key(v)' = I!Key(v) /\ I!OnDisk(v)' = I!OnDisk(v)
        BY <3>2 DEF I!Key, I!OnDisk, I!File
      <3>4. worker'[w].task = worker[w].task /\ worker'[w].holds \in {worker[w].holds, worker[w].holds \cup {"asset"}}
        BY <2>1, <2>2
      <3> QED BY <2>5, <3>1, <3>2, <3>3, <3>4 DEF Excluded
    <2> QED BY <2>1, <2>4, <2>6, <2>7, OthersKeep
  <1> QED BY <1>1, <1>2

LEMMA GoToGoes ==
    ASSUME I!TypeOK, NEW w \in Workers, worker[w].at # "idle",
           NEW place \in I!Places \ {"idle", "commit"},
           place \in {"asset", "new asset", "insert"} => "record" \in worker[w].holds,
           I!GoTo(w, place)
    PROVE  Goes(w)
  BY GoToBecomes DEF Goes

LEMMA TakeKind ==
    ASSUME I!TypeOK, InOrder, NEW w \in Workers, I!Take(w)
    PROVE  Returns(w)
  <1> DEFINE t == Head(queue)
             n == I!FirstTime(t)
  <1>1. t \in I!Task /\ t.start <= t.end
    BY DEF I!Take, I!TypeOK, InOrder
  <1>2. t.start \in Nat /\ t.end \in Nat
    <2>1. \A x \in I!Times : x \in Nat
      BY ConstantTypes DEF I!Times
    <2> QED BY <1>1, <2>1 DEF I!Task
  <1>3. n \in Nat /\ n <= t.start
    <2> HIDE DEF t
    <2> DEFINE a == t.start
               q == a \div Period
               r == a % Period
    <2>1. q \in Nat /\ r \in Nat /\ a = Period * q + r /\ Period * q \in Nat
      <3>1. a \in Nat
        BY <1>2
      <3> HIDE DEF a
      <3> QED BY <3>1, ConstantTypes
    <2>2. q * Period = Period * q
      <3> HIDE DEF q
      <3> QED BY <2>1, ConstantTypes
    <2>3. n = q * Period \/ n = a
      BY DEF I!FirstTime
    <2> HIDE DEF n, q, r
    <2> QED BY <1>2, <2>1, <2>2, <2>3
  <1>4. Becomes(w, Fetching(t, n))
    BY DEF I!Take, Becomes, Fetching
  <1>5. n <= t.end
    <2> HIDE DEF n, t
    <2> QED BY <1>1, <1>2, <1>3
  <1> HIDE DEF n, t
  <1> QED BY <1>1, <1>3, <1>4, <1>5, IdleIsSession DEF Returns

LEMMA ReadingKind ==
    ASSUME I!TypeOK, Claims, NEW w \in Workers,
           I!Fetch(w) \/ I!NotFound(w) \/ I!Open(w) \/ I!Close(w) \/ I!Check(w) \/ I!FindAsset(w)
    PROVE  Returns(w) \/ Goes(w)
  <1>1. CASE I!Fetch(w)
    <2> DEFINE place == IF disk[I!OnDisk(w)] = "none" THEN "request" ELSE "check"
    <2>1. place \in {"request", "check"} /\ I!GoTo(w, place) /\ worker[w].at # "idle"
      BY <1>1 DEF I!Fetch
    <2> HIDE DEF place
    <2> QED BY <2>1, GoToGoes DEF I!Places
  <1>2. CASE I!NotFound(w)
    BY <1>2, OnwardReturns DEF I!NotFound
  <1>3. CASE I!Open(w)
    BY <1>3, GoToGoes DEF I!Open, I!Places
  <1>4. CASE I!Close(w)
    BY <1>4, GoToGoes DEF I!Close, I!Places
  <1>5. CASE I!Check(w)
    <2>1. CASE I!Onward(w)
      BY <2>1, OnwardReturns
    <2>2. CASE I!GoTo(w, "record")
      BY <1>5, <2>2, GoToGoes DEF I!Check, I!Places
    <2> QED BY <1>5, <2>1, <2>2 DEF I!Check
  <1>6. CASE I!FindAsset(w)
    <2> DEFINE place == IF worker[w].task.source \in assets THEN "insert" ELSE "new asset"
    <2>1. place \in {"insert", "new asset"} /\ I!GoTo(w, place) /\ worker[w].at = "asset"
      BY <1>6 DEF I!FindAsset
    <2>2. "record" \in worker[w].holds
      BY <2>1 DEF Claims, Steady
    <2> HIDE DEF place
    <2> QED BY <2>1, <2>2, GoToGoes DEF I!Places
  <1> QED BY <1>1, <1>2, <1>3, <1>4, <1>5, <1>6

LEMMA AddAssetKind ==
    ASSUME I!TypeOK, Claims, NEW w \in Workers, I!AddAsset(w)
    PROVE  Returns(w) \/ Goes(w)
  <1>1. CASE I!Fail(w)
    BY <1>1, FailReturns
  <1>2. CASE I!GoWith(w, "insert", "asset")
    <2>1. worker[w].at = "new asset" /\ "record" \in worker[w].holds
      BY DEF I!AddAsset, Claims, Steady
    <2>2. "insert" \in I!Places
      BY DEF I!Places
    <2>3. PICK s \in Session :
               /\ Becomes(w, s) /\ s.at = "insert" /\ s.task = worker[w].task /\ s.now = worker[w].now
               /\ s.adds = worker[w].adds /\ s.holds = worker[w].holds \cup {"asset"}
      BY <1>2, <2>2, GoWithBecomes
    <2> QED BY <2>1, <2>3 DEF Goes
  <1> QED BY <1>1, <1>2 DEF I!AddAsset

(* What these steps leave to be shown: the types of what else they change. *)
LEMMA KindsKeepAll ==
    ASSUME ImportsInv, NEW w \in Workers, Returns(w) \/ Goes(w), UNCHANGED <<runs, copies, sent>>,
           queue' \in Seq(I!Task), InOrder', assets' \subseteq I!Sources, breaks' \in 0..MaxBreaks,
           disk' \in [I!Sources \X I!Files -> {"none", "partial", "shared", "whole"}]
    PROVE  ImportsInv'
  <1>1. Claims'
    BY KindsKeep DEF ImportsInv
  <1>2. worker' \in [Workers -> Session]
    BY KindTypes DEF ImportsInv
  <1>3. I!TypeOK'
    BY <1>2 DEF ImportsInv, I!TypeOK, Session
  <1> QED BY <1>1, <1>3 DEF ImportsInv

LEMMA QuietSteps ==
    ASSUME ImportsInv, NEW w \in Workers,
           \/ I!Take(w) \/ I!Fetch(w) \/ I!NotFound(w) \/ I!Open(w) \/ I!Close(w) \/ I!Check(w)
           \/ I!FindAsset(w) \/ I!AddAsset(w) \/ I!Break(w)
    PROVE  ImportsInv'
  <1> USE DEF ImportsInv
  <1>1. CASE I!Take(w)
    <2>1. queue \in Seq(I!Task) /\ queue # <<>> /\ queue' = Tail(queue)
      BY <1>1 DEF I!Take, I!TypeOK
    <2>2. queue' \in Seq(I!Task) /\ InOrder'
      <3>1. queue' \in Seq(I!Task) /\ Len(queue') = Len(queue) - 1
        BY <2>1, HeadTailProperties
      <3>2. \A i \in DOMAIN queue' : i + 1 \in DOMAIN queue /\ queue'[i] = queue[i + 1]
        BY <2>1, HeadTailProperties
      <3> QED BY <3>1, <3>2 DEF InOrder
    <2> QED BY <1>1, <2>2, TakeKind, KindsKeepAll DEF I!Take, I!TypeOK
  <1>2. CASE I!Fetch(w)
    BY <1>2, ReadingKind, KindsKeepAll DEF I!Fetch, I!TypeOK, InOrder
  <1>3. CASE I!NotFound(w)
    BY <1>3, ReadingKind, KindsKeepAll DEF I!NotFound, I!TypeOK, InOrder
  <1>4. CASE I!Open(w)
    <2>1. disk' \in [I!Sources \X I!Files -> {"none", "partial", "shared", "whole"}]
      BY <1>4 DEF I!Open, I!TypeOK
    <2> QED BY <1>4, <2>1, ReadingKind, KindsKeepAll DEF I!Open, I!TypeOK, InOrder
  <1>5. CASE I!Close(w)
    <2>1. disk' \in [I!Sources \X I!Files -> {"none", "partial", "shared", "whole"}]
      BY <1>5 DEF I!Close, I!TypeOK
    <2> QED BY <1>5, <2>1, ReadingKind, KindsKeepAll DEF I!Close, I!TypeOK, InOrder
  <1>6. CASE I!Check(w)
    BY <1>6, ReadingKind, KindsKeepAll DEF I!Check, I!TypeOK, InOrder
  <1>7. CASE I!FindAsset(w)
    BY <1>7, ReadingKind, KindsKeepAll DEF I!FindAsset, I!TypeOK, InOrder
  <1>8. CASE I!AddAsset(w)
    BY <1>8, AddAssetKind, KindsKeepAll DEF I!AddAsset, I!TypeOK, InOrder
  <1>9. CASE I!Break(w)
    <2>1. breaks' \in 0..MaxBreaks
      BY <1>9, ConstantTypes DEF I!Break, I!TypeOK
    <2> QED BY <1>9, <2>1, FailReturns, KindsKeepAll DEF I!Break, I!TypeOK, InOrder
  <1> QED BY <1>1, <1>2, <1>3, <1>4, <1>5, <1>6, <1>7, <1>8, <1>9

LEMMA RecordStep ==
    ASSUME ImportsInv, NEW w \in Workers, I!Record(w)
    PROVE  ImportsInv'
  <1> USE DEF ImportsInv
  <1>1. /\ UNCHANGED <<runs, copies, sent, queue, disk, assets, breaks>> /\ worker[w].at = "record"
        /\ \/ I!Fail(w)
           \/ /\ I!GoWith(w, "asset", "record")
              /\ ~(runs[I!Key(w)] > 1 \/ (runs[I!Key(w)] = 1 /\ worker[w].task.owner # "none"))
    BY DEF I!Record
  <1>2. CASE I!Fail(w)
    BY <1>1, <1>2, FailReturns, KindsKeepAll DEF I!TypeOK, InOrder
  <1>3. CASE I!GoWith(w, "asset", "record")
               /\ ~(runs[I!Key(w)] > 1 \/ (runs[I!Key(w)] = 1 /\ worker[w].task.owner # "none"))
    <2>1. "asset" \in I!Places
      BY DEF I!Places
    <2>2. PICK s \in Session :
               /\ Becomes(w, s) /\ s.at = "asset" /\ s.task = worker[w].task /\ s.now = worker[w].now
               /\ s.adds = worker[w].adds /\ s.holds = worker[w].holds \cup {"record"}
      BY <1>3, <2>1, GoWithBecomes
    <2>3. worker'[w] = s /\ \A v \in Workers \ {w} : worker'[v] = worker[v]
      BY <2>2, BecomesTypes
    <2>4. worker' \in [Workers -> Session]
      BY <2>2, BecomesTypes
    <2>5. Steady(w) /\ Sure(w)
      BY DEF Claims
    <2>6. Steady(w)'
      BY <1>1, <2>2, <2>3, <2>5 DEF Steady
    <2>7. I!Key(w)' = I!Key(w) /\ I!OnDisk(w)' = I!OnDisk(w)
      BY <2>2, <2>3 DEF I!Key, I!OnDisk, I!File
    <2>8. worker[w].task.owner = "user" => runs[I!Key(w)] = 0
      <3>1. worker[w].now <= worker[w].task.end
        BY <1>1, <2>5 DEF Steady
      <3>2. I!Key(w) \in I!Sources \X I!Owners \X I!Files
        BY <3>1, PlaceTypes DEF I!Key
      <3>3. runs[I!Key(w)] \in Nat
        BY <3>2 DEF I!TypeOK
      <3> QED BY <1>3, <3>3
    <2>9. Sure(w)'
      <3>1. worker'[w].at # "commit" /\ worker'[w].task = worker[w].task
        BY <2>2, <2>3
      <3> QED BY <1>1, <2>7, <2>8, <3>1 DEF Sure
    <2>10. ASSUME NEW v \in Workers \ {w} PROVE (Excluded(v, w) /\ Excluded(w, v))'
      <3>1. Excluded(v, w) /\ Excluded(w, v)
        BY DEF Claims
      <3>2. worker'[v] = worker[v]
        BY <2>3
      <3>3. I!Key(v)' = I!Key(v) /\ I!OnDisk(v)' = I!OnDisk(v)
        BY <3>2 DEF I!Key, I!OnDisk, I!File
      <3>4. worker'[w].task = worker[w].task /\ worker'[w].holds = worker[w].holds \cup {"record"}
        BY <2>2, <2>3
      <3>5. ~("record" \in worker[v].holds /\ I!Key(v) = I!Key(w) /\ worker[w].task.owner # "none")
        <4>1. ~("record" \in worker[v].holds /\ (I!Key(v) = I!Key(w) /\ worker[w].task.owner # "none"))
          BY DEF I!Record, I!Holding
        <4> QED BY <4>1
      <3>6. I!Key(v) = I!Key(w) => worker[v].task.owner = worker[w].task.owner
        BY DEF I!Key
      <3>7. (Excluded(v, w))'
        BY <2>7, <3>1, <3>2, <3>3, <3>4, <3>5 DEF Excluded
      <3>8. (Excluded(w, v))'
        BY <2>7, <3>1, <3>2, <3>3, <3>4, <3>5, <3>6 DEF Excluded
      <3> QED BY <3>7, <3>8
    <2>11. Claims'
      BY <1>1, <2>2, <2>6, <2>9, <2>10, OthersKeep
    <2>12. I!TypeOK' /\ InOrder'
      BY <1>1, <2>4 DEF I!TypeOK, InOrder, Session
    <2> QED BY <2>11, <2>12
  <1> QED BY <1>1, <1>2, <1>3

LEMMA InsertBecomes ==
    ASSUME I!TypeOK, NEW w \in Workers, NEW n \in SUBSET I!Ticks,
           worker' = [worker EXCEPT ![w].at = "commit", ![w].adds = n,
                                    ![w].holds = @ \cup (n \cap {"tagged"})]
    PROVE  \E s \in Session :
               /\ Becomes(w, s) /\ s.at = "commit" /\ s.task = worker[w].task /\ s.now = worker[w].now
               /\ s.adds = n /\ s.holds = worker[w].holds \cup (n \cap {"tagged"})
  <1> DEFINE one == [worker EXCEPT ![w].at = "commit"]
             two == [one EXCEPT ![w].adds = n]
             more == n \cap {"tagged"}
             s == [two[w] EXCEPT !.holds = worker[w].holds \cup more]
  <1>1. worker \in [Workers -> Session] /\ more \in SUBSET {"tagged"}
    BY DEF I!TypeOK, Session
  <1>2. one \in [Workers -> Session] /\ \A v \in Workers \ {w} : one[v] = worker[v]
    BY <1>1 DEF Session, I!Places
  <1>3. /\ one[w].at = "commit" /\ one[w].task = worker[w].task /\ one[w].now = worker[w].now
        /\ one[w].holds = worker[w].holds
    BY <1>1 DEF Session
  <1>4. worker' = [two EXCEPT ![w] = [two[w] EXCEPT !.holds = two[w].holds \cup more]]
    BY <1>1, <1>2
  <1> HIDE DEF one, more
  <1>5. two \in [Workers -> Session] /\ \A v \in Workers \ {w} : two[v] = worker[v]
    BY <1>2 DEF Session
  <1>6. /\ two[w].at = "commit" /\ two[w].task = worker[w].task /\ two[w].now = worker[w].now
        /\ two[w].holds = worker[w].holds /\ two[w].adds = n
    BY <1>2, <1>3 DEF Session
  <1> HIDE DEF two
  <1>7. /\ s \in Session /\ s.at = "commit" /\ s.task = worker[w].task /\ s.now = worker[w].now
        /\ s.holds = worker[w].holds \cup more /\ s.adds = n
    <2>1. two[w] \in Session
      BY <1>5
    <2> QED BY <1>1, <1>6, <2>1 DEF Session
  <1>8. Becomes(w, s)
    BY <1>1, <1>4, <1>5, <1>6 DEF Becomes
  <1> QED BY <1>7, <1>8 DEF more

LEMMA InsertStep ==
    ASSUME ImportsInv, NEW w \in Workers, I!Insert(w)
    PROVE  ImportsInv'
  <1> USE DEF ImportsInv
  <1> DEFINE n == I!Inserted(w)
  <1>1. /\ UNCHANGED <<runs, copies, sent, queue, disk, assets, breaks>> /\ worker[w].at = "insert"
        /\ \/ I!Fail(w)
           \/ /\ I!Readable(I!OnDisk(w))
              /\ worker' = [worker EXCEPT ![w].at = "commit", ![w].adds = n,
                                          ![w].holds = @ \cup (n \cap {"tagged"})]
    BY DEF I!Insert
  <1>2. CASE I!Fail(w)
    BY <1>1, <1>2, FailReturns, KindsKeepAll DEF I!TypeOK, InOrder
  <1>3. CASE /\ I!Readable(I!OnDisk(w))
             /\ worker' = [worker EXCEPT ![w].at = "commit", ![w].adds = n,
                                         ![w].holds = @ \cup (n \cap {"tagged"})]
    <2>1. n = Lacking(w) /\ n \in SUBSET I!Ticks /\ "broken" \notin Content[I!OnDisk(w)]
      BY <1>3 DEF I!Inserted, I!Found, I!Readable, Lacking
    <2>2. worker' = [worker EXCEPT ![w].at = "commit", ![w].adds = n,
                                   ![w].holds = @ \cup (n \cap {"tagged"})]
      BY <1>3
    <2> HIDE DEF n
    <2>3. PICK s \in Session :
               /\ Becomes(w, s) /\ s.at = "commit" /\ s.task = worker[w].task /\ s.now = worker[w].now
               /\ s.adds = n /\ s.holds = worker[w].holds \cup (n \cap {"tagged"})
      BY <2>1, <2>2, InsertBecomes
    <2>4. worker'[w] = s /\ \A v \in Workers \ {w} : worker'[v] = worker[v]
      BY <2>3, BecomesTypes
    <2>5. worker' \in [Workers -> Session]
      BY <2>3, BecomesTypes
    <2>6. Steady(w) /\ Sure(w)
      BY DEF Claims
    <2>7. Steady(w)'
      BY <1>1, <2>3, <2>4, <2>6 DEF Steady
    <2>8. I!Key(w)' = I!Key(w) /\ I!OnDisk(w)' = I!OnDisk(w)
      BY <2>3, <2>4 DEF I!Key, I!OnDisk, I!File
    <2>9. Sure(w)'
      <3>1. /\ worker'[w].adds = n /\ worker'[w].task = worker[w].task
            /\ "record" \in worker'[w].holds => "record" \in worker[w].holds
        <4>1. s.adds = n /\ s.task = worker[w].task /\ s.holds = worker[w].holds \cup (n \cap {"tagged"})
          BY <2>3
        <4>2. "record" \in s.holds => "record" \in worker[w].holds
          BY <4>1
        <4> HIDE <2>3
        <4> QED BY <2>4, <4>1, <4>2
      <3>2. copies' = copies /\ runs' = runs
        BY <1>1
      <3>3. Lacking(w)' = Lacking(w)
        BY <2>3, <2>4, <2>8, <3>2 DEF Lacking, I!Stored, I!File, I!Shift
      <3> QED BY <2>1, <2>6, <2>8, <3>1, <3>2, <3>3 DEF Sure
    <2>10. ASSUME NEW v \in Workers \ {w} PROVE (Excluded(v, w) /\ Excluded(w, v))'
      <3>1. Excluded(v, w) /\ Excluded(w, v)
        BY DEF Claims
      <3>2. worker'[v] = worker[v]
        BY <2>4
      <3>3. I!Key(v)' = I!Key(v) /\ I!OnDisk(v)' = I!OnDisk(v)
        BY <3>2 DEF I!Key, I!OnDisk, I!File
      <3>4. /\ worker'[w].task = worker[w].task
            /\ worker'[w].holds = worker[w].holds \cup (n \cap {"tagged"})
        BY <2>3, <2>4
      <3>5. ~("tagged" \in worker[v].holds /\ I!OnDisk(v) = I!OnDisk(w))
        BY DEF I!Insert, I!Holding
      <3>6. (Excluded(v, w))'
        BY <2>8, <3>1, <3>2, <3>3, <3>4, <3>5 DEF Excluded
      <3>7. (Excluded(w, v))'
        BY <2>8, <3>1, <3>2, <3>3, <3>4, <3>5 DEF Excluded
      <3> QED BY <3>6, <3>7
    <2>11. Claims'
      BY <1>1, <2>3, <2>7, <2>9, <2>10, OthersKeep
    <2>12. I!TypeOK' /\ InOrder'
      BY <1>1, <2>5 DEF I!TypeOK, InOrder, Session
    <2> QED BY <2>11, <2>12
  <1> QED BY <1>1, <1>2, <1>3

(* The step that stores a file: what it changes, apart from the process.   *)
LEMMA CommitTypes ==
    ASSUME ImportsInv, NEW w \in Workers, I!Commit(w)
    PROVE  /\ I!File(w) \in I!Files /\ I!Shift(w) \in 0..(Period - 1)
           /\ worker[w].task.source = "binance_vision" => I!Shift(w) = 0
           /\ worker[w].task.source \in I!Sources /\ worker[w].task.owner \in I!Owners
           /\ I!Key(w) \in I!Sources \X I!Owners \X I!Files
           /\ \A k \in I!Ticks : I!Stored(w, k) \in CopyTable
           /\ worker[w].at = "commit" /\ worker[w].adds \in SUBSET I!Ticks
           /\ Steady(w) /\ Sure(w)
  <1>1. worker[w].at = "commit" /\ Steady(w) /\ Sure(w)
    BY DEF I!Commit, ImportsInv, Claims
  <1>2. worker[w].now <= worker[w].task.end
    BY <1>1 DEF Steady
  <1>3. /\ I!File(w) \in I!Files /\ I!Shift(w) \in 0..(Period - 1)
        /\ worker[w].task.source = "binance_vision" => I!Shift(w) = 0
        /\ worker[w].task.source \in I!Sources /\ worker[w].task.owner \in I!Owners
    BY <1>2, PlaceTypes DEF ImportsInv
  <1>4. worker[w].adds \in SUBSET I!Ticks
    BY SessionFields DEF ImportsInv
  <1> QED BY <1>1, <1>3, <1>4 DEF I!Key, I!Stored, CopyTable

(* The rows that a commit adds. *)
Adds(w, c) == \E k \in worker[w].adds : c = I!Stored(w, k)

LEMMA CommitCounts ==
    ASSUME ImportsInv, NEW w \in Workers, I!Commit(w)
    PROVE  /\ runs' \in [I!Sources \X I!Owners \X I!Files -> Nat]
           /\ copies \in [CopyTable -> Nat] /\ copies' \in [CopyTable -> Nat]
           /\ runs'[I!Key(w)] = runs[I!Key(w)] + 1
           /\ \A k \in I!Sources \X I!Owners \X I!Files : k # I!Key(w) => runs'[k] = runs[k]
           /\ \A c \in CopyTable : copies'[c] = IF Adds(w, c) THEN copies[c] + 1 ELSE copies[c]
  <1>1. /\ runs \in [I!Sources \X I!Owners \X I!Files -> Nat]
        /\ copies \in [CopyTable -> Nat]
    BY DEF ImportsInv, I!TypeOK, CopyTable
  <1>2. /\ runs' = [runs EXCEPT ![I!Key(w)] = @ + 1]
        /\ copies' = [c \in DOMAIN copies |-> copies[c] + IF Adds(w, c) THEN 1 ELSE 0]
    BY DEF I!Commit, Adds
  <1>3. I!Key(w) \in I!Sources \X I!Owners \X I!Files
    BY CommitTypes
  <1>4. copies' = [c \in CopyTable |-> copies[c] + IF Adds(w, c) THEN 1 ELSE 0]
    BY <1>1, <1>2
  <1>5. \A c \in CopyTable : copies'[c] = IF Adds(w, c) THEN copies[c] + 1 ELSE copies[c]
    BY <1>1, <1>4
  <1>6. copies' \in [CopyTable -> Nat]
    BY <1>1, <1>4
  <1> QED BY <1>1, <1>2, <1>3, <1>5, <1>6

LEMMA KeysInTables ==
    ASSUME NEW s \in I!Sources, NEW f \in I!Files
    PROVE  /\ \A k \in I!Ticks : CopyKeys(s, f, k) \subseteq CopyTable
           /\ RunKeys(s, f) \subseteq I!Sources \X I!Owners \X I!Files
  BY DEF CopyKeys, RunKeys, CopyTable

(* The files whose rows a commit leaves alone. *)
LEMMA CommitElsewhere ==
    ASSUME ImportsInv, NEW w \in Workers, I!Commit(w), NEW s \in I!Sources, NEW f \in I!Files,
           <<s, f>> # I!OnDisk(w)
    PROVE  /\ \A k \in I!Ticks : I!AllCopies(s, f, k)' = I!AllCopies(s, f, k)
           /\ I!AllRuns(s, f)' = I!AllRuns(s, f)
  <1>1. \A k \in RunKeys(s, f) : runs'[k] = runs[k]
    <2>1. \A k \in RunKeys(s, f) : k # I!Key(w)
      BY DEF RunKeys, I!Key, I!OnDisk
    <2> QED BY <2>1, CommitCounts, KeysInTables
  <1>2. ASSUME NEW k \in I!Ticks
        PROVE  I!RowsOf(copies', CopyKeys(s, f, k)) = I!RowsOf(copies, CopyKeys(s, f, k))
    <2>1. \A c \in CopyKeys(s, f, k) : ~Adds(w, c)
      BY DEF CopyKeys, Adds, I!Stored, I!OnDisk
    <2>2. \A c \in CopyKeys(s, f, k) : copies'[c] = copies[c]
      BY <2>1, CommitCounts, KeysInTables
    <2> QED BY <2>2, SameRows
  <1>3. I!RowsOf(runs', RunKeys(s, f)) = I!RowsOf(runs, RunKeys(s, f))
    BY <1>1, SameRows
  <1> QED BY <1>2, <1>3, CountsAsRows

LEMMA CommitHere ==
    ASSUME ImportsInv, NEW w \in Workers, I!Commit(w), NEW s, NEW f, <<s, f>> = I!OnDisk(w)
    PROVE  /\ I!AllRuns(s, f)' = I!AllRuns(s, f) + 1
           /\ \A k \in I!Ticks :
                 I!AllCopies(s, f, k)' = IF k \in worker[w].adds THEN I!AllCopies(s, f, k) + 1
                                                               ELSE I!AllCopies(s, f, k)
  <1>1. s = worker[w].task.source /\ f = I!File(w)
    BY DEF I!OnDisk
  <1>2. s \in I!Sources /\ f \in I!Files
    BY <1>1, CommitTypes
  <1>3. RunKeys(s, f) \subseteq I!Sources \X I!Owners \X I!Files
    BY <1>2, KeysInTables
  <1>4. runs \in [I!Sources \X I!Owners \X I!Files -> Nat]
    BY DEF ImportsInv, I!TypeOK
  <1>5. I!Key(w) \in RunKeys(s, f)
    BY <1>1, CommitTypes DEF RunKeys, I!Key
  <1>6. IsFiniteSet(RunKeys(s, f)) /\ \A k : IsFiniteSet(CopyKeys(s, f, k))
    BY KeysFinite
  <1>7. Cardinality(I!RowsOf(runs', RunKeys(s, f))) = Cardinality(I!RowsOf(runs, RunKeys(s, f))) + 1
    <2>1. \A k \in RunKeys(s, f) : runs[k] \in Nat
      BY <1>3, <1>4
    <2>2. \A k \in RunKeys(s, f) \ {I!Key(w)} : runs'[k] = runs[k]
      BY <1>3, CommitCounts
    <2>3. runs'[I!Key(w)] = runs[I!Key(w)] + 1
      BY CommitCounts
    <2> QED BY <1>5, <1>6, <2>1, <2>2, <2>3, OneRowMore
  <1>8. ASSUME NEW k \in I!Ticks
        PROVE  I!AllCopies(s, f, k)' = IF k \in worker[w].adds THEN I!AllCopies(s, f, k) + 1
                                                               ELSE I!AllCopies(s, f, k)
    <2> DEFINE keys == CopyKeys(s, f, k)
               c0 == I!Stored(w, k)
    <2>1. keys \subseteq CopyTable /\ c0 \in keys
      <3>1. c0 \in keys
        BY <1>1, CommitTypes DEF CopyKeys, I!Stored
      <3> QED BY <1>2, <3>1, KeysInTables
    <2>2. \A c \in keys : copies[c] \in Nat
      BY <2>1, CommitCounts
    <2>3. \A c \in keys \ {c0} : copies'[c] = copies[c]
      <3>1. \A c \in keys \ {c0} : ~Adds(w, c)
        BY DEF CopyKeys, Adds, I!Stored
      <3> QED BY <2>1, <3>1, CommitCounts
    <2>4. Adds(w, c0) <=> k \in worker[w].adds
      BY DEF Adds, I!Stored
    <2>5. CASE k \in worker[w].adds
      <3>1. copies'[c0] = copies[c0] + 1
        BY <2>1, <2>4, <2>5, CommitCounts
      <3>2. Cardinality(I!RowsOf(copies', keys)) = Cardinality(I!RowsOf(copies, keys)) + 1
        <4> HIDE DEF keys, c0
        <4>1. IsFiniteSet(keys)
          BY <1>6 DEF keys
        <4> QED BY <2>1, <2>2, <2>3, <3>1, <4>1, OneRowMore
      <3> QED BY <2>5, <3>2, CountsAsRows
    <2>6. CASE k \notin worker[w].adds
      <3>1. \A c \in keys : copies'[c] = copies[c]
        BY <2>1, <2>3, <2>4, <2>6, CommitCounts
      <3>2. I!RowsOf(copies', keys) = I!RowsOf(copies, keys)
        <4> HIDE DEF keys
        <4> QED BY <3>1, SameRows
      <3> QED BY <2>6, <3>2, CountsAsRows
    <2> QED BY <2>5, <2>6
  <1> QED BY <1>7, <1>8, CountsAsRows

LEMMA CountsTypes ==
    ASSUME I!TypeOK, NEW s \in I!Sources, NEW f \in I!Files
    PROVE  /\ I!AllRuns(s, f) \in Nat
           /\ \A k \in I!Ticks :
                 /\ I!AllCopies(s, f, k) \in Nat
                 /\ I!AllCopies(s, f, k) = 0 <=> \A c \in CopyKeys(s, f, k) : copies[c] = 0
  <1>1. /\ \A k \in RunKeys(s, f) : runs[k] \in Nat
        /\ \A k \in I!Ticks : \A c \in CopyKeys(s, f, k) : copies[c] \in Nat
    BY KeysInTables DEF I!TypeOK, CopyTable
  <1>2. (\A k : IsFiniteSet(CopyKeys(s, f, k))) /\ IsFiniteSet(RunKeys(s, f))
    BY KeysFinite
  <1>3. Cardinality(I!RowsOf(runs, RunKeys(s, f))) \in Nat
    BY <1>1, <1>2, RowsFinite
  <1>4. ASSUME NEW k \in I!Ticks
        PROVE  /\ Cardinality(I!RowsOf(copies, CopyKeys(s, f, k))) \in Nat
               /\ Cardinality(I!RowsOf(copies, CopyKeys(s, f, k))) = 0
                    <=> \A c \in CopyKeys(s, f, k) : copies[c] = 0
    BY <1>1, <1>2, RowsFinite, NoRow
  <1> QED BY <1>3, <1>4, CountsAsRows

(* Whoever else holds a record or ticks holds those of other rows.         *)
LEMMA CommitOthers ==
    ASSUME ImportsInv, NEW w \in Workers, I!Commit(w), NEW v \in Workers \ {w}, worker'[v] = worker[v]
    PROVE  (Steady(v) /\ Sure(v))'
  <1>1. Steady(v) /\ Sure(v) /\ Excluded(w, v)
    BY DEF ImportsInv, Claims
  <1>2. /\ worker[w].at = "commit" /\ "record" \in worker[w].holds
        /\ "tagged" \in worker[w].adds => "tagged" \in worker[w].holds
    BY CommitTypes DEF Steady
  <1>3. I!Key(v)' = I!Key(v) /\ I!OnDisk(v)' = I!OnDisk(v) /\ \A k : I!Stored(v, k)' = I!Stored(v, k)
    BY DEF I!Key, I!OnDisk, I!Stored, I!File, I!Shift
  <1>4. (Steady(v))'
    BY <1>1 DEF Steady
  <1>5. ASSUME "record" \in worker[v].holds, worker[v].task.owner = "user" PROVE runs'[I!Key(v)] = 0
    <2>1. I!Key(v) # I!Key(w) /\ runs[I!Key(v)] = 0
      BY <1>1, <1>2, <1>5 DEF Excluded, Sure
    <2>2. worker[v].at # "idle"
      BY <1>1, <1>5 DEF Steady
    <2>3. worker[v].now <= worker[v].task.end
      BY <1>1, <2>2 DEF Steady
    <2>4. I!Key(v) \in I!Sources \X I!Owners \X I!Files
      BY <2>3, PlaceTypes DEF I!Key, ImportsInv
    <2> QED BY <2>1, <2>4, CommitCounts
  <1>6. ASSUME worker[v].at = "commit"
        PROVE  Lacking(v)' = Lacking(v)
    <2> DEFINE c == I!Stored(v, "tagged")
    <2>1. worker[v].adds = Lacking(v)
      BY <1>1, <1>6 DEF Sure
    <2>2. c \in CopyTable
      <3>1. worker[v].now <= worker[v].task.end
        BY <1>1, <1>6 DEF Steady
      <3> QED BY <3>1, PlaceTypes DEF I!Stored, ImportsInv, CopyTable, I!Ticks
    <2>3. ASSUME "tagged" \in Content[I!OnDisk(v)]
          PROVE  copies'[c] = 0 <=> copies[c] = 0
      <3>1. CASE copies[c] = 0
        <4>1. "tagged" \in worker[v].adds
          BY <2>1, <2>3, <3>1 DEF Lacking, I!Ticks
        <4>2. "tagged" \in worker[v].holds
          BY <1>1, <1>6, <4>1 DEF Steady
        <4>3. ~Adds(w, c)
          <5>1. ASSUME Adds(w, c) PROVE FALSE
            <6>1. "tagged" \in worker[w].adds /\ I!OnDisk(v) = I!OnDisk(w)
              BY <5>1 DEF Adds, I!Stored, I!OnDisk
            <6> QED BY <1>1, <1>2, <4>2, <6>1 DEF Excluded
          <5> QED BY <5>1
        <4> QED BY <2>2, <3>1, <4>3, CommitCounts
      <3>2. CASE copies[c] # 0
        <4>1. copies[c] \in Nat /\ copies'[c] \in {copies[c], copies[c] + 1}
          BY <2>2, CommitCounts
        <4> QED BY <3>2, <4>1
      <3> QED BY <3>1, <3>2
    <2> QED BY <1>3, <2>3 DEF Lacking
  <1>7. (Sure(v))'
    BY <1>1, <1>3, <1>5, <1>6 DEF Sure
  <1> QED BY <1>4, <1>7

LEMMA CommitInPlace ==
    ASSUME ImportsInv, NEW w \in Workers, I!Commit(w)
    PROVE  InPlace'
  <1> SUFFICES ASSUME NEW f \in I!Files, NEW s \in 1..(Period - 1), NEW k \in I!Ticks
               PROVE  copies'[<<"binance_vision", f, s, k>>] = 0
    BY DEF InPlace
  <1>1. copies[<<"binance_vision", f, s, k>>] = 0
    BY DEF ImportsInv, Claims, InPlace
  <1>2. ~Adds(w, <<"binance_vision", f, s, k>>)
    <2>1. s # 0
      BY ConstantTypes
    <2> QED BY <2>1, CommitTypes DEF Adds, I!Stored
  <1>3. <<"binance_vision", f, s, k>> \in CopyTable
    <2>1. s \in 0..(Period - 1)
      BY ConstantTypes
    <2> QED BY <2>1 DEF I!Sources, CopyTable
  <1> QED BY <1>1, <1>2, <1>3, CommitCounts

(* Of the ticks with ids a commit adds the copy that was missing, or none; *)
(* only files of Binance Vision have any.                                  *)
LEMMA CommitTagged ==
    ASSUME ImportsInv, NEW w \in Workers, I!Commit(w), NEW s \in I!Sources, NEW f \in I!Files,
           I!OnDisk(w) = <<s, f>>, "tagged" \in Content[<<s, f>>]
    PROVE  I!AllCopies(s, f, "tagged")' = I!LeastOf(1, I!AllRuns(s, f)')
  <1> DEFINE old == I!AllCopies(s, f, "tagged")
             had == I!AllRuns(s, f)
             new == I!AllCopies(s, f, "tagged")'
             has == I!AllRuns(s, f)'
             c0 == <<s, f, 0, "tagged">>
  <1>1. "tagged" \in I!Ticks
    BY DEF I!Ticks
  <1>2. s = "binance_vision"
    BY ConstantTypes DEF I!ImportsAssumption, I!Sources
  <1>3. /\ old \in Nat /\ had \in Nat
        /\ old = 0 <=> \A c \in CopyKeys(s, f, "tagged") : copies[c] = 0
    BY <1>1, CountsTypes DEF ImportsInv
  <1>4. old = IF 1 < had THEN 1 ELSE had
    BY DEF ImportsInv, Claims, RecordedIsStored, I!RecordedIsStored, I!LeastOf
  <1>5. has = had + 1 /\ new = IF "tagged" \in worker[w].adds THEN old + 1 ELSE old
    BY <1>1, CommitHere
  <1>6. I!Stored(w, "tagged") = c0
    <2>1. worker[w].task.source = s /\ I!File(w) = f
      BY DEF I!OnDisk
    <2> QED BY <1>2, <2>1, CommitTypes DEF I!Stored
  <1>7. "tagged" \in worker[w].adds <=> copies[c0] = 0
    BY <1>1, <1>6, CommitTypes DEF Sure, Lacking
  <1>8. copies[c0] \in Nat
    BY <1>1, <1>6, CommitTypes, CommitCounts
  <1>9. old = 0 <=> copies[c0] = 0
    <2>1. c0 \in CopyKeys(s, f, "tagged")
      <3>1. 0 \in 0..(Period - 1)
        BY ConstantTypes
      <3> QED BY <3>1 DEF CopyKeys
    <2>2. ASSUME copies[c0] = 0, NEW c \in CopyKeys(s, f, "tagged") PROVE copies[c] = 0
      <3>1. PICK t \in 0..(Period - 1) : c = <<s, f, t, "tagged">>
        BY DEF CopyKeys
      <3>2. CASE t = 0
        BY <2>2, <3>1, <3>2
      <3>3. CASE t # 0
        <4>1. t \in 1..(Period - 1)
          BY <3>3, ConstantTypes
        <4> QED BY <1>1, <1>2, <3>1, <4>1 DEF ImportsInv, Claims, InPlace
      <3> QED BY <3>2, <3>3
    <2> HIDE DEF old, c0
    <2> QED BY <1>3, <2>1, <2>2
  <1> HIDE DEF old, had, new, has, c0
  <1>10. new = IF 1 < has THEN 1 ELSE has
    BY <1>3, <1>4, <1>5, <1>7, <1>8, <1>9
  <1> QED BY <1>10 DEF I!LeastOf, new, has

LEMMA CommitRecorded ==
    ASSUME ImportsInv, NEW w \in Workers, I!Commit(w)
    PROVE  RecordedIsStored'
  <1> SUFFICES ASSUME NEW s \in I!Sources, NEW f \in I!Files
               PROVE  /\ I!AllCopies(s, f, "tagged")' =
                           IF "tagged" \in Content[<<s, f>>] THEN I!LeastOf(1, I!AllRuns(s, f)') ELSE 0
                      /\ I!AllCopies(s, f, "bare")' =
                           IF "bare" \in Content[<<s, f>>] THEN I!AllRuns(s, f)' ELSE 0
                      /\ "broken" \in Content[<<s, f>>] => I!AllRuns(s, f)' = 0
                      /\ runs'[<<s, "user", f>>] <= 1
    BY DEF RecordedIsStored, I!RecordedIsStored, I!LeastOf
  <1>1. /\ I!AllCopies(s, f, "tagged") =
             IF "tagged" \in Content[<<s, f>>] THEN I!LeastOf(1, I!AllRuns(s, f)) ELSE 0
        /\ I!AllCopies(s, f, "bare") = IF "bare" \in Content[<<s, f>>] THEN I!AllRuns(s, f) ELSE 0
        /\ "broken" \in Content[<<s, f>>] => I!AllRuns(s, f) = 0
        /\ runs[<<s, "user", f>>] <= 1
    BY DEF ImportsInv, Claims, RecordedIsStored, I!RecordedIsStored
  <1>2. "tagged" \in I!Ticks /\ "bare" \in I!Ticks /\ "user" \in I!Owners
    BY DEF I!Ticks, I!Owners
  <1>3. CASE I!OnDisk(w) # <<s, f>>
    <2>1. /\ I!AllCopies(s, f, "tagged")' = I!AllCopies(s, f, "tagged")
          /\ I!AllCopies(s, f, "bare")' = I!AllCopies(s, f, "bare")
          /\ I!AllRuns(s, f)' = I!AllRuns(s, f)
      BY <1>2, <1>3, CommitElsewhere
    <2>2. <<s, "user", f>> # I!Key(w)
      BY <1>3 DEF I!Key, I!OnDisk
    <2>3. runs'[<<s, "user", f>>] = runs[<<s, "user", f>>]
      BY <1>2, <2>2, CommitCounts
    <2> QED BY <1>1, <2>1, <2>3 DEF I!LeastOf
  <1>4. CASE I!OnDisk(w) = <<s, f>>
    <2>1. worker[w].adds = Lacking(w) /\ "broken" \notin Content[<<s, f>>]
      BY <1>4, CommitTypes DEF Sure
    <2>2. /\ "bare" \in worker[w].adds <=> "bare" \in Content[<<s, f>>]
          /\ "tagged" \in worker[w].adds => "tagged" \in Content[<<s, f>>]
      BY <1>2, <1>4, <2>1 DEF Lacking
    <2>3. /\ I!AllRuns(s, f)' = I!AllRuns(s, f) + 1
          /\ \A k \in I!Ticks :
                I!AllCopies(s, f, k)' = IF k \in worker[w].adds THEN I!AllCopies(s, f, k) + 1
                                                              ELSE I!AllCopies(s, f, k)
      BY <1>4, CommitHere
    <2>4. I!AllCopies(s, f, "tagged")' =
             IF "tagged" \in Content[<<s, f>>] THEN I!LeastOf(1, I!AllRuns(s, f)') ELSE 0
      BY <1>1, <1>2, <1>4, <2>2, <2>3, CommitTagged
    <2>5. I!AllCopies(s, f, "bare")' = IF "bare" \in Content[<<s, f>>] THEN I!AllRuns(s, f)' ELSE 0
      BY <1>1, <1>2, <2>2, <2>3
    <2>6. runs'[<<s, "user", f>>] <= 1
      <3>1. CASE <<s, "user", f>> = I!Key(w)
        <4>1. worker[w].task.owner = "user" /\ "record" \in worker[w].holds
          BY <3>1, CommitTypes DEF I!Key, Steady
        <4>2. runs[I!Key(w)] = 0
          BY <4>1, CommitTypes DEF Sure
        <4> QED BY <3>1, <4>2, CommitCounts
      <3>2. CASE <<s, "user", f>> # I!Key(w)
        BY <1>1, <1>2, <3>2, CommitCounts
      <3> QED BY <3>1, <3>2
    <2> QED BY <2>1, <2>4, <2>5, <2>6
  <1> QED BY <1>3, <1>4

LEMMA CommitStep ==
    ASSUME ImportsInv, NEW w \in Workers, I!Commit(w)
    PROVE  ImportsInv'
  <1>1. I!TypeOK /\ InOrder /\ Claims
    BY DEF ImportsInv
  <1>2. Returns(w) /\ UNCHANGED <<queue, disk, sent, breaks>> /\ assets' = assets \cup {worker[w].task.source}
    BY <1>1, OnwardReturns DEF I!Commit
  <1>3. PICK s \in Session : /\ Becomes(w, s) /\ s.holds = {} /\ s.at \in {"idle", "fetch"}
                             /\ s.at = "fetch" => s.now <= s.task.end
    BY <1>2 DEF Returns
  <1>4. /\ worker' \in [Workers -> Session] /\ worker'[w] = s
        /\ \A v \in Workers \ {w} : worker'[v] = worker[v]
    BY <1>1, <1>3, BecomesTypes
  <1>5. (Steady(w) /\ Sure(w))'
    BY <1>3, <1>4 DEF Steady, Sure
  <1>6. \A v \in Workers \ {w} : (Steady(v) /\ Sure(v))'
    BY <1>4, CommitOthers
  <1>7. ASSUME NEW u \in Workers, NEW v \in Workers, u # v PROVE (Excluded(u, v))'
    <2>1. CASE u = w \/ v = w
      BY <1>3, <1>4, <2>1 DEF Excluded
    <2>2. CASE u # w /\ v # w
      <3>1. worker'[v] = worker[v] /\ worker'[u] = worker[u] /\ Excluded(u, v)
        BY <1>1, <1>4, <1>7, <2>2 DEF Claims
      <3> QED BY <3>1 DEF Excluded, I!Key, I!OnDisk, I!File
    <2> QED BY <2>1, <2>2
  <1>8. Claims'
    BY <1>5, <1>6, <1>7, CommitInPlace, CommitRecorded DEF Claims
  <1>9. I!TypeOK'
    <2>1. assets' \subseteq I!Sources
      BY <1>1, <1>2, CommitTypes DEF I!TypeOK
    <2>2. /\ runs' \in [I!Sources \X I!Owners \X I!Files -> Nat]
          /\ copies' \in [I!Sources \X I!Files \X (0..(Period - 1)) \X I!Ticks -> Nat]
      BY CommitCounts DEF CopyTable
    <2> QED BY <1>1, <1>2, <1>4, <2>1, <2>2 DEF I!TypeOK, Session
  <1>10. InOrder'
    BY <1>1, <1>2 DEF InOrder
  <1> QED BY <1>8, <1>9, <1>10 DEF ImportsInv

(* What is queued is a range that is in order. *)
LEMMA EnqueueStep ==
    ASSUME ImportsInv, NEW tasks \in Seq(I!Task), \A i \in DOMAIN tasks : tasks[i].start <= tasks[i].end,
           I!Enqueue(tasks)
    PROVE  ImportsInv'
  <1>1. /\ queue \in Seq(I!Task) /\ queue' = queue \o tasks /\ sent' = sent + Len(tasks)
        /\ sent + Len(tasks) <= MaxTasks /\ sent \in 0..MaxTasks /\ Len(tasks) \in Nat
        /\ UNCHANGED <<worker, disk, runs, copies, assets, breaks>>
    BY LenProperties DEF I!Enqueue, ImportsInv, I!TypeOK
  <1>2. queue' \in Seq(I!Task)
    BY <1>1, ConcatProperties
  <1>3. InOrder'
    <2>1. InOrder
      BY DEF ImportsInv
    <2>2. ASSUME NEW i \in DOMAIN queue' PROVE queue'[i].start <= queue'[i].end
      <3>1. i \in 1..(Len(queue) + Len(tasks))
        BY <1>1, ConcatProperties, LenProperties
      <3>2. CASE i <= Len(queue)
        <4>1. i \in DOMAIN queue /\ queue'[i] = queue[i]
          BY <1>1, <3>1, <3>2, ConcatProperties, LenProperties
        <4> QED BY <2>1, <4>1 DEF InOrder
      <3>3. CASE ~(i <= Len(queue))
        <4>1. i - Len(queue) \in DOMAIN tasks /\ queue'[i] = tasks[i - Len(queue)]
          BY <1>1, <3>1, <3>3, ConcatProperties, LenProperties
        <4> QED BY <4>1
      <3> QED BY <3>2, <3>3
    <2> QED BY <2>2 DEF InOrder
  <1>4. sent' \in 0..MaxTasks
    BY <1>1, ConstantTypes
  <1>5. I!TypeOK'
    BY <1>1, <1>2, <1>4 DEF ImportsInv, I!TypeOK
  <1>6. Claims'
    <2>1. Claims /\ worker' = worker /\ runs' = runs /\ copies' = copies
      BY <1>1 DEF ImportsInv
    <2> QED BY <2>1 DEF Claims, Steady, Sure, Excluded, InPlace, RecordedIsStored, I!RecordedIsStored,
             I!AllCopies, I!AllRuns, Lacking, I!Key, I!Stored, I!OnDisk, I!File, I!Shift
  <1> QED BY <1>3, <1>5, <1>6 DEF ImportsInv

LEMMA TaskForInOrder ==
    ASSUME NEW gap \in [start : I!Times, end : I!Times], gap.start < gap.end,
           NEW source \in I!Sources, NEW owner \in I!Owners
    PROVE  /\ I!TaskFor(gap, source, owner) \in I!Task
           /\ I!TaskFor(gap, source, owner).start <= I!TaskFor(gap, source, owner).end
  <1> DEFINE p == (LastFile + 1) * Period - 1
             a == gap.start
             b == gap.end
  <1>1. p \in Int
    BY ConstantTypes
  <1> HIDE DEF p
  <1>2. a \in 0..p /\ b \in 0..p /\ a < b
    BY DEF I!Times, p
  <1>3. a \in 0..p /\ (b - 1) \in 0..p /\ a <= b - 1 /\ a <= b
    BY <1>1, <1>2
  <1>4. a \in I!Times /\ b \in I!Times /\ b - 1 \in I!Times
    BY <1>2, <1>3 DEF I!Times, p
  <1> QED BY <1>3, <1>4 DEF I!TaskFor, I!Task

LEMMA RequestSteps ==
    ASSUME ImportsInv, I!RequestImport \/ I!RepairGaps
    PROVE  ImportsInv'
  <1>1. CASE I!RequestImport
    <2>1. PICK t \in Asked : I!Enqueue(<<t>>)
      BY <1>1 DEF I!RequestImport
    <2>2. t \in I!Task /\ t.start <= t.end
      BY ConstantTypes DEF I!ImportsAssumption
    <2>3. <<t>> \in Seq(I!Task) /\ \A i \in DOMAIN <<t>> : <<t>>[i].start <= <<t>>[i].end
      BY <2>2
    <2> QED BY <2>1, <2>3, EnqueueStep
  <1>2. CASE I!RepairGaps
    <2>1. PICK gaps \in GapLists, source \in I!Sources, owner \in I!Owners :
             LET n == IF Len(gaps) <= MaxRanges THEN Len(gaps) ELSE MaxRanges
             IN  I!Enqueue([i \in 1..n |-> I!TaskFor(gaps[i], source, owner)])
      BY <1>2 DEF I!RepairGaps
    <2> DEFINE n == IF Len(gaps) <= MaxRanges THEN Len(gaps) ELSE MaxRanges
               tasks == [i \in 1..n |-> I!TaskFor(gaps[i], source, owner)]
    <2>2. /\ gaps \in Seq([start : I!Times, end : I!Times])
          /\ \A i \in DOMAIN gaps : gaps[i].start < gaps[i].end
      BY ConstantTypes DEF I!ImportsAssumption
    <2>3. n \in Nat /\ n <= Len(gaps)
      BY <2>2, ConstantTypes, LenProperties DEF I!ImportsAssumption
    <2> HIDE DEF n
    <2>4. ASSUME NEW i \in 1..n
          PROVE  /\ I!TaskFor(gaps[i], source, owner) \in I!Task
                 /\ I!TaskFor(gaps[i], source, owner).start <= I!TaskFor(gaps[i], source, owner).end
      <3>1. i \in DOMAIN gaps /\ gaps[i] \in [start : I!Times, end : I!Times]
        <4>1. Len(gaps) \in Nat /\ DOMAIN gaps = 1..Len(gaps)
          BY <2>2, LenProperties
        <4>2. i \in 1..Len(gaps)
          BY <2>3, <4>1
        <4> QED BY <2>2, <4>1, <4>2, ElementOfSeq
      <3> QED BY <2>2, <3>1, TaskForInOrder
    <2>5. tasks \in Seq(I!Task) /\ \A i \in DOMAIN tasks : tasks[i].start <= tasks[i].end
      <3>1. DOMAIN tasks = 1..n /\ \A i \in 1..n : tasks[i] = I!TaskFor(gaps[i], source, owner)
        OBVIOUS
      <3>2. tasks \in [1..n -> I!Task]
        BY <2>4
      <3> HIDE DEF tasks
      <3> QED BY <2>3, <2>4, <3>1, <3>2, SeqDef
    <2>6. I!Enqueue(tasks)
      BY <2>1 DEF n
    <2> HIDE DEF tasks
    <2> QED BY <2>5, <2>6, EnqueueStep
  <1> QED BY <1>1, <1>2

LEMMA ImportsStep ==
    ASSUME ImportsInv, I!Next
    PROVE  ImportsInv'
  <1>1. CASE I!RequestImport \/ I!RepairGaps
    BY <1>1, RequestSteps
  <1>2. CASE \E w \in Workers : I!Work(w) \/ I!Break(w)
    <2>1. PICK w \in Workers : I!Work(w) \/ I!Break(w)
      BY <1>2
    <2> QED BY <2>1, QuietSteps, RecordStep, InsertStep, CommitStep DEF I!Work
  <1> QED BY <1>1, <1>2 DEF I!Next

LEMMA ImportsStutter ==
    ASSUME ImportsInv, UNCHANGED importVars
    PROVE  ImportsInv'
  <1>1. I!TypeOK' /\ InOrder' /\ InPlace'
    BY DEF ImportsInv, Claims, importVars, I!TypeOK, InOrder, InPlace
  <1>2. \A w \in Workers : (Steady(w) /\ Sure(w))'
    BY DEF ImportsInv, Claims, importVars, Steady, Sure, Lacking, I!Key, I!Stored, I!OnDisk, I!File,
           I!Shift, I!Readable
  <1>3. \A v, w \in Workers : v # w => Excluded(v, w)'
    BY DEF ImportsInv, Claims, importVars, Excluded, I!Key, I!OnDisk, I!File
  <1>4. RecordedIsStored'
    BY DEF ImportsInv, Claims, importVars, RecordedIsStored, I!RecordedIsStored, I!AllCopies, I!AllRuns
  <1> QED BY <1>1, <1>2, <1>3, <1>4 DEF ImportsInv, Claims

LEMMA ImportsInit ==
    ASSUME I!Init
    PROVE  ImportsInv
  <1>1. /\ queue = <<>> /\ worker = [w \in Workers |-> I!Idle] /\ assets = {} /\ sent = 0 /\ breaks = 0
        /\ disk = [f \in I!Sources \X I!Files |-> "none"]
        /\ runs = [k \in I!Sources \X I!Owners \X I!Files |-> 0]
        /\ copies = [c \in CopyTable |-> 0]
    BY DEF I!Init, CopyTable
  <1>2. worker \in [Workers -> Session] /\ \A w \in Workers : worker[w] = I!Idle
    BY <1>1, IdleIsSession
  <1>3. I!TypeOK
    <2>1. 0 \in 0..MaxTasks /\ 0 \in 0..MaxBreaks
      BY ConstantTypes
    <2>2. <<>> \in Seq(I!Task)
      OBVIOUS
    <2> QED BY <1>1, <1>2, <2>1, <2>2 DEF I!TypeOK, Session, CopyTable
  <1>4. InOrder
    BY <1>1 DEF InOrder
  <1>5. \A w \in Workers : Steady(w) /\ Sure(w)
    BY <1>2, IdleIsSession DEF Steady, Sure
  <1>6. \A v, w \in Workers : v # w => Excluded(v, w)
    BY <1>2, IdleIsSession DEF Excluded
  <1>7. InPlace
    <2> SUFFICES ASSUME NEW f \in I!Files, NEW s \in 1..(Period - 1), NEW k \in I!Ticks
                 PROVE  copies[<<"binance_vision", f, s, k>>] = 0
      BY DEF InPlace
    <2>1. <<"binance_vision", f, s, k>> \in CopyTable
      <3>1. s \in 0..(Period - 1)
        BY ConstantTypes
      <3> QED BY <3>1 DEF I!Sources, CopyTable
    <2> QED BY <1>1, <2>1
  <1>8. RecordedIsStored
    <2>1. ASSUME NEW s \in I!Sources, NEW f \in I!Files
          PROVE  /\ I!AllCopies(s, f, "tagged") = 0 /\ I!AllCopies(s, f, "bare") = 0
                 /\ I!AllRuns(s, f) = 0
      <3>1. \A k \in I!Ticks : \A c \in CopyKeys(s, f, k) : copies[c] = 0
        BY <1>1, KeysInTables
      <3>2. \A k \in RunKeys(s, f) : runs[k] = 0
        BY <1>1, KeysInTables
      <3>3. \A k \in RunKeys(s, f) : runs[k] \in Nat
        BY <3>2
      <3>4. I!AllRuns(s, f) = 0
        BY <3>2, <3>3, KeysFinite, NoRow, CountsAsRows
      <3> QED BY <1>3, <3>1, <3>4, CountsTypes DEF I!Ticks
    <2>2. "user" \in I!Owners
      BY DEF I!Owners
    <2>3. ASSUME NEW s \in I!Sources, NEW f \in I!Files PROVE runs[<<s, "user", f>>] <= 1
      BY <1>1, <2>2
    <2>4. I!LeastOf(1, 0) = 0
      BY DEF I!LeastOf
    <2> SUFFICES ASSUME NEW s \in I!Sources, NEW f \in I!Files
                 PROVE  /\ I!AllCopies(s, f, "tagged") =
                             IF "tagged" \in Content[<<s, f>>] THEN I!LeastOf(1, I!AllRuns(s, f)) ELSE 0
                        /\ I!AllCopies(s, f, "bare") =
                             IF "bare" \in Content[<<s, f>>] THEN I!AllRuns(s, f) ELSE 0
                        /\ "broken" \in Content[<<s, f>>] => I!AllRuns(s, f) = 0
                        /\ runs[<<s, "user", f>>] <= 1
      BY DEF RecordedIsStored, I!RecordedIsStored
    <2> QED BY <2>1, <2>3, <2>4
  <1> QED BY <1>3, <1>4, <1>5, <1>6, <1>7, <1>8 DEF ImportsInv, Claims

(* However imports of a file overlap, fail and are repeated, on any number *)
(* of workers and whatever rows the files have: of a file recorded as      *)
(* imported the ticks that have an id are stored once, the others once for *)
(* every record, and the rows that lack a column never; no user has two    *)
(* records of one file; a file that cannot be read has no record and no    *)
(* row, and a failed import leaves nothing.  (ingest_ticks,                *)
(* CsvTickImporter.iter_ticks, bulk_insert_ticks, record_import_start,     *)
(* record_import_finish)                                                   *)
THEOREM RecordsAreStored == SourcesSpec => []RecordedIsStored
  <1>1. I!Init => ImportsInv
    BY ImportsInit
  <1>2. ImportsInv /\ [I!Next]_importVars => ImportsInv'
    BY ImportsStep, ImportsStutter
  <1>3. ImportsInv => RecordedIsStored
    BY DEF ImportsInv, Claims
  <1> QED BY <1>1, <1>2, <1>3, PartsBehave, PTL
=============================================================================
