------------------------- MODULE TradeStream_proofs -------------------------
(* Proofs about the trade pipeline, for every set of trades, every stream  *)
(* length, batch size and number of deaths.                                *)
EXTENDS TradeStream, FiniteSetTheorems, TLAPS

-----------------------------------------------------------------------------
(* What a read takes: an interval that starts at the first entry left. *)

Lo == MaxOf(last + 1, oldest)
Hi == MinOf(Len(log), Lo + BatchSize - 1)

LEMMA FirstOfInterval ==
    ASSUME NEW a \in Int, NEW b \in Int, NEW n \in Nat
    PROVE  FirstOf(a..b, n) = a..MinOf(b, a + n - 1)
  <1>1. ASSUME NEW e \in a..b
        PROVE  Cardinality({d \in a..b : d <= e}) = e - a + 1
    <2>1. {d \in a..b : d <= e} = a..e /\ e \in Int /\ a <= e
      OBVIOUS
    <2>2. Cardinality(a..e) = e - a + 1
      BY <2>1, FS_Interval
    <2> QED BY <2>1, <2>2
  <1>2. FirstOf(a..b, n) = {e \in a..b : e - a + 1 <= n}
    BY <1>1 DEF FirstOf
  <1>3. ASSUME NEW e \in Int
        PROVE  e \in a..b /\ e - a + 1 <= n <=> e \in a..MinOf(b, a + n - 1)
    BY DEF MinOf
  <1>4. a..MinOf(b, a + n - 1) \subseteq Int /\ a..b \subseteq Int
    OBVIOUS
  <1> QED BY <1>2, <1>3, <1>4

LEMMA UnreadInterval ==
    ASSUME TypeOK
    PROVE  /\ Lo \in Int /\ last < Lo /\ oldest <= Lo /\ 1 <= Lo
           /\ Len(log) \in Nat /\ Len(log) <= MaxPublished
           /\ Unread = Lo..Len(log)
  <1>1. /\ last \in Int /\ oldest \in Int /\ 1 <= oldest /\ MaxPublished \in Nat
        /\ Len(log) \in Nat /\ Len(log) <= MaxPublished
    BY StreamAssumption DEF TypeOK, StreamAssumption
  <1>2. Lo \in Int /\ last < Lo /\ oldest <= Lo /\ 1 <= Lo
    BY <1>1 DEF Lo, MaxOf
  <1>3. Unread = Lo..Len(log)
    BY <1>1, <1>2 DEF Unread, Lo, Entries
  <1> QED BY <1>1, <1>2, <1>3

(* The batch of a read, and the cursor after it. *)
LEMMA ReadTakes ==
    ASSUME TypeOK, Read
    PROVE  /\ Lo \in Int /\ last < Lo /\ oldest <= Lo /\ 1 <= Lo
           /\ Hi \in Int /\ Lo <= Hi /\ Hi <= Len(log) /\ Hi <= MaxPublished
           /\ last' = Hi
           /\ writer' = [at |-> "store", batch |-> Lo..Hi]
           /\ pending' = pending \cup (Lo..Hi) /\ delivered' = delivered \cup (Lo..Hi)
  <1>1. BatchSize \in Nat /\ BatchSize >= 1 /\ last \in Int /\ MaxPublished \in Nat
    BY StreamAssumption DEF TypeOK, StreamAssumption
  <1>2. /\ Lo \in Int /\ last < Lo /\ oldest <= Lo /\ 1 <= Lo
        /\ Len(log) \in Nat /\ Len(log) <= MaxPublished /\ Unread = Lo..Len(log)
    BY UnreadInterval
  <1>3. Lo <= Len(log)
    BY <1>2 DEF Read
  <1>4. FirstOf(Unread, BatchSize) = Lo..Hi
    BY <1>1, <1>2, FirstOfInterval DEF Hi
  <1>5. Hi \in Int /\ Lo <= Hi /\ Hi <= Len(log) /\ Hi <= MaxPublished
    BY <1>1, <1>2, <1>3 DEF Hi, MinOf
  <1>6. (CHOOSE e \in Lo..Hi : \A d \in Lo..Hi : d <= e) = Hi
    <2>1. Hi \in Lo..Hi /\ \A d \in Lo..Hi : d <= Hi
      BY <1>2, <1>5
    <2>2. \A e \in Lo..Hi : (\A d \in Lo..Hi : d <= e) => e = Hi
      BY <1>2, <1>5
    <2> QED BY <2>1, <2>2
  <1>7. MaxOf(last, Hi) = Hi
    BY <1>1, <1>2, <1>5 DEF MaxOf
  <1> QED BY <1>2, <1>4, <1>5, <1>6, <1>7 DEF Read, Claim

-----------------------------------------------------------------------------
(* Types. *)

LEMMA PublishTypes == TypeOK /\ Publish => TypeOK'
  <1> SUFFICES ASSUME TypeOK, Publish PROVE TypeOK'
    OBVIOUS
  <1>1. PICK t \in Trades : log' = Append(log, t)
    BY DEF Publish
  <1>2. log \in Seq(Trades) /\ Len(log) \in Nat /\ Len(log) < MaxPublished
    BY DEF TypeOK, Publish
  <1>3. log' \in Seq(Trades) /\ Len(log') = Len(log) + 1
    BY <1>1, <1>2
  <1>4. MaxPublished \in Nat /\ MaxLen \in Nat /\ MaxLen >= 1
    BY StreamAssumption DEF StreamAssumption
  <1>5. oldest' \in 1..(MaxPublished + 1)
    BY <1>2, <1>4 DEF TypeOK, Publish, MaxOf
  <1> QED BY <1>2, <1>3, <1>4, <1>5 DEF TypeOK, Publish

LEMMA TicksWithType ==
    ASSUME NEW batch \in SUBSET Entries, TypeOK
    PROVE  TicksWith(batch) \in [Trades -> Nat]
  <1>1. MaxPublished \in Nat
    BY StreamAssumption DEF StreamAssumption
  <1>2. IsFiniteSet(Entries)
    BY <1>1, FS_Interval DEF Entries
  <1>3. ASSUME NEW t \in Trades
        PROVE  Cardinality(Copies(batch, t)) \in Nat
    <2>1. Copies(batch, t) \subseteq Entries
      BY DEF Copies
    <2> QED BY <1>2, <2>1, FS_Subset, FS_CardinalityType
  <1> QED BY <1>3 DEF TicksWith, MinOf, TypeOK

LEMMA TypeStep == TypeOK /\ [Next]_vars => TypeOK'
  <1> SUFFICES ASSUME TypeOK, [Next]_vars PROVE TypeOK'
    OBVIOUS
  <1> MaxPublished \in Nat /\ MaxCrashes \in Nat
    BY StreamAssumption DEF StreamAssumption
  <1>1. CASE Publish
    BY <1>1, PublishTypes
  <1>2. CASE StartWriter
    BY <1>2 DEF StartWriter, StartAt, TypeOK
  <1>3. CASE Read
    <2>1. Lo..Hi \subseteq Entries /\ Hi \in -1..MaxPublished
      BY <1>3, ReadTakes DEF Entries
    <2> QED BY <1>3, <2>1, ReadTakes DEF Read, TypeOK
  <1>4. CASE Store
    <2>1. ticks' \in [Trades -> Nat]
      BY <1>4, TicksWithType DEF Store, TypeOK
    <2>2. rows' \in [Entries -> Nat]
      BY <1>4 DEF Store, TypeOK
    <2>3. writer' \in [at : {"down", "read", "store", "ack"}, batch : SUBSET Entries]
      BY <1>4 DEF Store, TypeOK
    <2> QED BY <1>4, <2>1, <2>2, <2>3 DEF Store, TypeOK
  <1>5. CASE Ack
    BY <1>5 DEF Ack, TypeOK
  <1>6. CASE Crash
    BY <1>6 DEF Crash, Down, TypeOK
  <1>7. CASE UNCHANGED vars
    BY <1>7 DEF vars, TypeOK
  <1> QED BY <1>1, <1>2, <1>3, <1>4, <1>5, <1>6, <1>7 DEF Next

LEMMA TypeInit == Init => TypeOK
  <1> MaxPublished \in Nat /\ MaxCrashes \in Nat
    BY StreamAssumption DEF StreamAssumption
  <1> QED BY DEF Init, TypeOK, Down

(* Every variable of the pipeline keeps its type. *)
THEOREM TypesHold == Spec => []TypeOK
  <1> QED BY TypeInit, TypeStep, PTL DEF Spec

-----------------------------------------------------------------------------
(* Where an entry stands. *)

(* Delivered entries are behind the cursor, and only they are pending, in  *)
(* hand or stored.                                                         *)
Delivery ==
    /\ \A e \in delivered : e <= last /\ e <= Len(log)
    /\ pending \subseteq delivered
    /\ writer.at \in {"store", "ack"} => writer.batch \subseteq delivered
    /\ \A e \in Entries : rows[e] > 0 => e \in delivered

(* Before its Store, the batch in hand has no row and is newer than every  *)
(* entry that has one; after it, all of it has its row.                    *)
InHand ==
    /\ writer.at = "store" =>
         \A e \in writer.batch : /\ e \in pending /\ rows[e] = 0
                                 /\ \A d \in Entries : rows[d] > 0 => d < e
    /\ writer.at = "ack" => \A e \in writer.batch : rows[e] = 1

Flow == StoredOnce /\ AckedIsStored /\ Delivery /\ InHand

LEMMA FlowRead == TypeOK /\ Flow /\ Read => Flow'
  <1> SUFFICES ASSUME TypeOK, Flow, Read PROVE Flow'
    OBVIOUS
  <1> DEFINE batch == Lo..Hi
  <1>1. /\ batch \subseteq Entries /\ batch \subseteq Int
        /\ \A e \in batch : last < e /\ e <= Hi /\ e <= Len(log)
    <2>1. /\ Lo \in Int /\ last < Lo /\ 1 <= Lo /\ Hi \in Int
          /\ Hi <= Len(log) /\ Hi <= MaxPublished
      BY ReadTakes
    <2>2. last \in Int /\ Len(log) \in Int /\ MaxPublished \in Nat
      BY UnreadInterval, StreamAssumption DEF TypeOK, StreamAssumption
    <2> QED BY <2>1, <2>2 DEF Entries
  <1>2. /\ last' = Hi /\ last < Hi /\ Hi \in Int /\ last \in Int
        /\ writer'.at = "store" /\ writer'.batch = batch
        /\ pending' = pending \cup batch /\ delivered' = delivered \cup batch
        /\ rows' = rows /\ log' = log
    BY ReadTakes DEF Read, TypeOK
  <1>3. delivered \subseteq Int /\ \A e \in Entries : rows[e] \in Nat
    BY DEF TypeOK, Entries
  <1> HIDE DEF batch
  <1>4. \A e \in batch : e \notin delivered /\ rows[e] = 0
    BY <1>1, <1>2, <1>3 DEF Flow, Delivery
  <1>5. StoredOnce' /\ AckedIsStored'
    BY <1>2 DEF Flow, StoredOnce, AckedIsStored
  <1>6. Delivery'
    BY <1>1, <1>2, <1>3 DEF Flow, Delivery
  <1>7. ASSUME NEW e \in batch, NEW d \in Entries, rows[d] > 0
        PROVE  d < e
    <2>1. d \in delivered /\ d <= last
      BY <1>7 DEF Flow, Delivery
    <2> QED BY <1>1, <1>2, <1>3, <2>1
  <1>8. InHand'
    BY <1>2, <1>4, <1>7 DEF InHand
  <1> QED BY <1>5, <1>6, <1>8 DEF Flow

LEMMA FlowStore == TypeOK /\ Flow /\ Store => Flow'
  <1> SUFFICES ASSUME TypeOK, Flow, Store PROVE Flow'
    OBVIOUS
  <1>1. writer.batch \subseteq Entries /\ writer.batch \subseteq delivered
    BY DEF TypeOK, Flow, Delivery, Store
  <1>2. /\ writer'.at = "ack" /\ writer'.batch = writer.batch
        /\ UNCHANGED <<log, last, pending, delivered>>
    BY DEF Store, TypeOK
  <1>3. \A e \in Entries : rows'[e] = IF e \in writer.batch THEN 1 ELSE rows[e]
    BY DEF Store, Flow, InHand, TypeOK
  <1>4. StoredOnce'
    BY <1>3 DEF Flow, StoredOnce
  <1>5. AckedIsStored'
    BY <1>2, <1>3 DEF Flow, AckedIsStored, TypeOK
  <1>6. Delivery'
    BY <1>1, <1>2, <1>3 DEF Flow, Delivery
  <1>7. InHand'
    BY <1>1, <1>2, <1>3 DEF InHand
  <1> QED BY <1>4, <1>5, <1>6, <1>7 DEF Flow

LEMMA FlowStep == TypeOK /\ Flow /\ [Next]_vars => Flow'
  <1> SUFFICES ASSUME TypeOK, Flow, [Next]_vars PROVE Flow'
    OBVIOUS
  <1>1. CASE Publish
    <2>1. Len(log') = Len(log) + 1 /\ Len(log) \in Nat
      BY <1>1 DEF Publish, TypeOK
    <2>2. delivered \subseteq Int
      BY DEF TypeOK, Entries
    <2>3. Delivery'
      BY <1>1, <2>1, <2>2 DEF Publish, Flow, Delivery
    <2> QED BY <1>1, <2>3 DEF Publish, Flow, StoredOnce, AckedIsStored, InHand
  <1>2. CASE StartWriter
    <2>1. \A e \in delivered : e <= last'
      BY <1>2 DEF StartWriter, StartAt, Flow, Delivery
    <2>2. writer'.at = "read"
      BY <1>2 DEF StartWriter
    <2> QED BY <1>2, <2>1, <2>2
            DEF StartWriter, Flow, StoredOnce, AckedIsStored, Delivery, InHand
  <1>3. CASE Read
    BY <1>3, FlowRead
  <1>4. CASE Store
    BY <1>4, FlowStore
  <1>5. CASE Ack
    <2>1. writer'.at = "read" /\ writer.at = "ack" /\ pending' = pending \ writer.batch
      BY <1>5 DEF Ack
    <2> QED BY <1>5, <2>1 DEF Ack, Flow, StoredOnce, AckedIsStored, Delivery, InHand
  <1>6. CASE Crash
    BY <1>6 DEF Crash, Down, Flow, StoredOnce, AckedIsStored, Delivery, InHand
  <1>7. CASE UNCHANGED vars
    BY <1>7 DEF vars, Flow, StoredOnce, AckedIsStored, Delivery, InHand
  <1> QED BY <1>1, <1>2, <1>3, <1>4, <1>5, <1>6, <1>7 DEF Next

LEMMA FlowInit == Init => Flow
  BY DEF Init, Flow, StoredOnce, AckedIsStored, Delivery, InHand, Down

LEMMA FlowHolds == Spec => [](TypeOK /\ Flow)
  <1> QED BY TypeInit, TypeStep, FlowInit, FlowStep, PTL DEF Spec

(* However often the writer dies between its commit and its                *)
(* acknowledgement, no entry is stored twice.                              *)
THEOREM NeverTwice == Spec => []StoredOnce
  <1>1. Flow => StoredOnce
    BY DEF Flow
  <1> QED BY <1>1, FlowHolds, PTL

(* What the group no longer holds as pending is in the database.           *)
THEOREM AcknowledgedIsSafe == Spec => []AckedIsStored
  <1>1. Flow => AckedIsStored
    BY DEF Flow
  <1> QED BY <1>1, FlowHolds, PTL

-----------------------------------------------------------------------------
(* The two tables. *)

(* Entries of trade t that have a row. *)
StoredOf(t) == {e \in 1..Len(log) : log[e] = t /\ rows[e] > 0}

(* Sets of entries are finite, and disjoint ones add up. *)
LEMMA EntriesAddUp ==
    ASSUME NEW S \in SUBSET Entries, NEW T \in SUBSET Entries, S \cap T = {}
    PROVE  /\ Cardinality(S) \in Nat /\ Cardinality(T) \in Nat
           /\ Cardinality(S \cup T) = Cardinality(S) + Cardinality(T)
  <1>1. IsFiniteSet(Entries)
    BY FS_Interval, StreamAssumption DEF Entries, StreamAssumption
  <1>2. IsFiniteSet(S) /\ IsFiniteSet(T)
    BY <1>1, FS_Subset
  <1>3. /\ Cardinality(S) \in Nat /\ Cardinality(T) \in Nat
        /\ Cardinality(S \cup T) = Cardinality(S) + Cardinality(T) - Cardinality(S \cap T)
    BY <1>2, FS_CardinalityType, FS_Union
  <1>4. Cardinality(S \cap T) = 0
    BY FS_EmptySet
  <1> QED BY <1>3, <1>4

LEMMA StoredOfPublish ==
    ASSUME TypeOK, Flow, Publish, NEW t \in Trades
    PROVE  StoredOf(t)' = StoredOf(t)
  <1>1. PICK u \in Trades : log' = Append(log, u)
    BY DEF Publish
  <1>2. /\ Len(log) \in Nat /\ Len(log') = Len(log) + 1
        /\ \A e \in 1..Len(log) : log'[e] = log[e]
    BY <1>1 DEF TypeOK
  <1>3. Len(log) + 1 \in Entries /\ Len(log) + 1 \notin delivered
    BY <1>2, StreamAssumption DEF Publish, Entries, Flow, Delivery, StreamAssumption
  <1>4. ~(rows[Len(log) + 1] > 0)
    BY <1>3 DEF Flow, Delivery
  <1>5. 1..Len(log') = (1..Len(log)) \cup {Len(log) + 1}
    BY <1>2
  <1> QED BY <1>2, <1>4, <1>5 DEF StoredOf, Publish

(* A batch adds its copies of a trade to the rows, and none was there.     *)
LEMMA StoredOfStore ==
    ASSUME TypeOK, Flow, Store, NEW t \in Trades
    PROVE  /\ StoredOf(t)' = StoredOf(t) \cup Copies(writer.batch, t)
           /\ StoredOf(t) \in SUBSET Entries /\ Copies(writer.batch, t) \in SUBSET Entries
           /\ StoredOf(t) \cap Copies(writer.batch, t) = {}
  <1>1. /\ writer.batch \subseteq Entries
        /\ \A e \in writer.batch : e <= Len(log) /\ rows[e] = 0
    BY DEF TypeOK, Flow, Delivery, InHand, Store
  <1>2. \A e \in Entries : rows[e] \in Nat /\ rows'[e] = IF e \in writer.batch THEN 1 ELSE rows[e]
    BY <1>1 DEF Store, TypeOK
  <1>3. Len(log) \in Nat /\ Len(log) <= MaxPublished /\ MaxPublished \in Nat
    BY StreamAssumption DEF TypeOK, StreamAssumption
  <1>4. 1..Len(log) \subseteq Entries /\ writer.batch \subseteq 1..Len(log)
    BY <1>1, <1>3 DEF Entries
  <1>5. log' = log
    BY DEF Store
  <1>6. StoredOf(t)' = StoredOf(t) \cup Copies(writer.batch, t)
    BY <1>2, <1>4, <1>5 DEF StoredOf, Copies
  <1> QED BY <1>1, <1>4, <1>6 DEF StoredOf, Copies

LEMMA TicksStored ==
    ASSUME TypeOK, Flow, Store, NEW t \in Trades,
           ticks[t] = IF t \in WithId THEN MinOf(1, Cardinality(StoredOf(t)))
                      ELSE Cardinality(StoredOf(t))
    PROVE  ticks'[t] = IF t \in WithId THEN MinOf(1, Cardinality(StoredOf(t)'))
                       ELSE Cardinality(StoredOf(t)')
  <1> DEFINE s == Cardinality(StoredOf(t))  c == Cardinality(Copies(writer.batch, t))
  <1>1. s \in Nat /\ c \in Nat /\ Cardinality(StoredOf(t)') = s + c
    BY StoredOfStore, EntriesAddUp
  <1>2. ticks'[t] = IF t \in WithId THEN MinOf(1, ticks[t] + c) ELSE ticks[t] + c
    BY DEF Store, TicksWith
  <1> HIDE DEF s, c
  <1>3. MinOf(1, MinOf(1, s) + c) = MinOf(1, s + c)
    BY <1>1 DEF MinOf
  <1> QED BY <1>1, <1>2, <1>3 DEF s

LEMMA TicksStep == TypeOK /\ Flow /\ TicksMatchRows /\ [Next]_vars => TicksMatchRows'
  <1> SUFFICES ASSUME TypeOK, Flow, TicksMatchRows, [Next]_vars, NEW t \in Trades
               PROVE  ticks'[t] = IF t \in WithId THEN MinOf(1, Cardinality(StoredOf(t)'))
                                  ELSE Cardinality(StoredOf(t)')
    BY DEF TicksMatchRows, StoredOf
  <1>1. ticks[t] = IF t \in WithId THEN MinOf(1, Cardinality(StoredOf(t)))
                   ELSE Cardinality(StoredOf(t))
    BY DEF TicksMatchRows, StoredOf
  <1>2. CASE Publish
    BY <1>1, <1>2, StoredOfPublish DEF Publish
  <1>3. CASE Store
    BY <1>1, <1>3, TicksStored
  <1>4. CASE UNCHANGED <<log, rows, ticks>>
    <2>1. StoredOf(t)' = StoredOf(t) /\ ticks' = ticks
      BY <1>4 DEF StoredOf
    <2> QED BY <1>1, <2>1
  <1> QED BY <1>2, <1>3, <1>4 DEF Next, StartWriter, Read, Ack, Crash, vars

LEMMA TicksInit == Init => TicksMatchRows
  <1> SUFFICES ASSUME Init, NEW t \in Trades
               PROVE  ticks[t] = 0 /\ Cardinality(StoredOf(t)) = 0
    BY DEF TicksMatchRows, StoredOf, MinOf
  <1>1. StoredOf(t) = {}
    BY DEF Init, StoredOf
  <1> QED BY <1>1, FS_EmptySet DEF Init

(* A trade with an id has one tick however often it was published and the  *)
(* writer died; any other has as many as it has rows.                      *)
THEOREM TablesAgree == Spec => []TicksMatchRows
  <1> QED BY TypeInit, TypeStep, FlowInit, FlowStep, TicksInit, TicksStep, PTL DEF Spec

-----------------------------------------------------------------------------
(* The cursor. *)

(* Across any number of restarts the cursor passes no entry that the       *)
(* stream still has without delivering it.                                 *)
THEOREM CursorIsHonest == Spec => NothingSkipped
  <1> DEFINE Honest == last # -1 => \A e \in (last + 1)..last' : e \in delivered' \/ e < oldest
  <1>1. TypeOK /\ [Next]_vars => [Honest]_vars
    <2> SUFFICES ASSUME TypeOK, Next PROVE Honest
      BY DEF vars
    <2>1. last \in Int /\ oldest \in Int
      BY DEF TypeOK
    <2>2. CASE last' = last
      BY <2>1, <2>2
    <2>3. CASE Read
      BY <2>1, <2>3, ReadTakes DEF Lo, MaxOf
    <2>4. CASE StartWriter
      BY <2>2, <2>4 DEF StartWriter, StartAt
    <2> QED BY <2>2, <2>3, <2>4 DEF Next, Publish, Store, Ack, Crash
  <1> QED BY <1>1, TypesHold, PTL DEF Spec, NothingSkipped

-----------------------------------------------------------------------------
(* The abstract pipeline. *)

Kept == {e \in Entries : rows[e] > 0}

LEMMA SendStep == TypeOK /\ Flow /\ Publish => Abstract!Send
  <1> SUFFICES ASSUME TypeOK, Flow, Publish PROVE Abstract!Send
    OBVIOUS
  <1>1. PICK t \in Trades : log' = Append(log, t)
    BY DEF Publish
  <1>2. /\ Len(log) \in Nat /\ Len(log) < MaxPublished /\ Len(log') = Len(log) + 1
        /\ MaxPublished \in Nat /\ MaxLen \in Nat
    BY <1>1, StreamAssumption DEF Publish, TypeOK, StreamAssumption
  <1>3. oldest \in Int /\ oldest' \in Int /\ oldest <= oldest'
    BY <1>2 DEF Publish, TypeOK, MaxOf
  <1>4. \A e \in Entries : e < oldest => e < oldest'
    BY <1>3 DEF Entries
  <1>5. Gone \subseteq Gone'
    BY <1>2, <1>3, <1>4 DEF Gone, Publish, Entries
  <1>6. Gone' \subseteq (1..Len(log')) \ Kept
    BY <1>2 DEF Gone, Kept, Publish
  <1>7. /\ Len(log) + 1 \in Entries \ (1..Len(log))
        /\ 1..Len(log') = (1..Len(log)) \cup {Len(log) + 1}
        /\ \A d \in 1..Len(log) : d < Len(log) + 1
    BY <1>2 DEF Entries
  <1>8. Kept' = Kept
    BY DEF Kept, Publish
  <1> QED BY <1>5, <1>6, <1>7, <1>8 DEF Abstract!Send, Kept

LEMMA KeepStep == TypeOK /\ Flow /\ Store => Abstract!Keep
  <1> SUFFICES ASSUME TypeOK, Flow, Store PROVE Abstract!Keep
    OBVIOUS
  <1>1. /\ writer.batch \subseteq Entries
        /\ \A e \in writer.batch : /\ e <= Len(log) /\ rows[e] = 0
                                   /\ \A d \in Entries : rows[d] > 0 => d < e
    BY DEF TypeOK, Flow, Delivery, InHand, Store
  <1>2. \A e \in Entries : rows[e] \in Nat /\ rows'[e] = IF e \in writer.batch THEN 1 ELSE rows[e]
    BY <1>1 DEF Store, TypeOK
  <1>3. Kept' = Kept \cup writer.batch
    BY <1>1, <1>2 DEF Kept
  <1>4. writer.at = "store" /\ writer'.at = "ack" /\ UNCHANGED <<log, oldest, last>>
    BY DEF Store, TypeOK
  <1>5. Len(log) \in Nat /\ Len(log) <= MaxPublished /\ MaxPublished \in Nat
    BY StreamAssumption DEF TypeOK, StreamAssumption
  <1>6. Gone' = Gone
    BY <1>2, <1>4, <1>5 DEF Gone, Entries
  <1>7. writer.batch \subseteq (1..Len(log)) \ (Kept \cup Gone)
    BY <1>1, <1>2, <1>4, <1>5 DEF Kept, Gone, Entries
  <1>8. \A e \in writer.batch, d \in Kept : d < e
    BY <1>1 DEF Kept
  <1> QED BY <1>3, <1>4, <1>6, <1>7, <1>8 DEF Abstract!Keep, Abstract!Open, Kept

LEMMA LoseStep ==
    ASSUME TypeOK, Flow, StartWriter \/ Read \/ Ack \/ Crash
    PROVE  Abstract!Lose
  <1>1. rows' = rows /\ log' = log /\ oldest' = oldest
    BY DEF StartWriter, Read, Ack, Crash
  <1>2. \A e \in 1..Len(log) : e <= last => e <= last'
    <2>1. CASE Read
      BY <2>1, ReadTakes DEF TypeOK
    <2>2. CASE ~Read
      BY <2>2 DEF StartWriter, StartAt, Ack, Crash
    <2> QED BY <2>1, <2>2
  <1>3. \A e \in Gone : writer'.at = "store" => e \notin writer'.batch
    <2>1. CASE Read
      BY <2>1, ReadTakes DEF Gone, Read, TypeOK
    <2>2. CASE ~Read
      BY <2>2 DEF StartWriter, Ack, Crash, Down
    <2> QED BY <2>1, <2>2
  <1>4. Gone \subseteq Gone'
    BY <1>1, <1>2, <1>3 DEF Gone
  <1>5. Gone' \subseteq (1..Len(log)) \ Kept
    BY <1>1 DEF Gone, Kept
  <1> QED BY <1>1, <1>4, <1>5 DEF Abstract!Lose, Abstract!Open, Kept

LEMMA AbstractInit == Init => Abstract!Init
  BY DEF Init, Abstract!Init, Gone

LEMMA AbstractStep ==
    TypeOK /\ Flow /\ [Next]_vars
      => [Abstract!Send \/ Abstract!Keep \/ Abstract!Lose]_(Abstract!state)
  <1>1. UNCHANGED vars => UNCHANGED Abstract!state
    BY DEF vars, Abstract!state, Gone
  <1> QED BY <1>1, SendStep, KeepStep, LoseStep DEF Next

(* Every behaviour of the pipeline is one of the abstract pipeline: an     *)
(* entry is kept or lost and never both, in order, and for good.           *)
THEOREM StreamImplementsIngest == Spec => ImplementsIngest
  <1> QED BY FlowHolds, AbstractInit, AbstractStep, PTL
          DEF Spec, ImplementsIngest, Abstract!Spec

=============================================================================
