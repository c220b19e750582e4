------------------------ MODULE PaperSchedules_proofs ------------------------
(* Proofs about PaperSchedules for any schedules, processes and bankroll.  *)
EXTENDS PaperSchedules, FiniteSetTheorems, TLAPS

-----------------------------------------------------------------------------
(* What the operators on sessions return. *)

LEMMA IdleType == Idle \in Session
  BY PaperAssumption DEF PaperAssumption, Idle, Session, NoNet

(* The fields that the end of a step leaves alone. *)
SameBooks(x, y) == /\ y.cash = x.cash /\ y.flow = x.flow /\ y.fills = x.fills
                   /\ y.bought = x.bought /\ y.sold = x.sold
                   /\ y.order = x.order /\ y.lot = x.lot
                   /\ y.task = x.task /\ y.overtaken = x.overtaken
                   /\ y.net = x.net /\ y.doomed = x.doomed

LEMMA SteppedKeeps ==
    ASSUME NEW x \in Session, NEW s \in Schedules, NEW y \in Stepped(x, s)
    PROVE  y \in Session /\ SameBooks(x, y)
  <1> DEFINE done == [x EXCEPT !.todo = @ \ {s}, !.ran = @ \cup {s}]
             stopped == [done EXCEPT !.off = @ \cup {s}]
  <1>1. y \in {done, stopped}
    BY DEF Stepped
  <1>2. done \in Session /\ SameBooks(x, done)
    BY DEF Session, SameBooks
  <1> HIDE DEF done
  <1>3. stopped \in Session /\ SameBooks(done, stopped)
    BY <1>2 DEF Session, SameBooks
  <1> QED BY <1>1, <1>2, <1>3 DEF SameBooks

LEMMA OrderFields ==
    ASSUME NEW x \in Session, NEW amount \in Int, NEW m \in Markets, NEW sign \in Int
    PROVE  LET y == Order(x, amount, m, sign) IN
           /\ y \in Session
           /\ y.cash = x.cash + amount /\ y.flow = x.flow + amount /\ y.fills = x.fills + 1
           /\ y.bought = x.bought /\ y.sold = x.sold \cup x.doomed
           /\ y.order = {} /\ y.lot = {} /\ y.doomed = {}
           /\ y.task = x.task /\ y.overtaken = x.overtaken
  <1> DEFINE f == Flushed(x)
             net2 == [x.net EXCEPT ![m] = @ + sign]
             cash2 == x.cash + amount
             flow2 == x.flow + amount
             fills2 == x.fills + 1
             y == [f EXCEPT !.cash = cash2, !.flow = flow2, !.fills = fills2, !.net = net2]
  <1>1. /\ f \in Session
        /\ f.bought = x.bought /\ f.sold = x.sold \cup x.doomed
        /\ f.order = {} /\ f.lot = {} /\ f.doomed = {}
        /\ f.task = x.task /\ f.overtaken = x.overtaken
    BY DEF Flushed, Session
  <1>2. net2 \in [Markets -> Int] /\ cash2 \in Int /\ flow2 \in Int /\ fills2 \in Nat
    BY DEF Session
  <1>3. Order(x, amount, m, sign) = y
    BY DEF Order
  <1> HIDE DEF f, net2, cash2, flow2, fills2
  <1>4. /\ y \in Session /\ y.cash = cash2 /\ y.flow = flow2 /\ y.fills = fills2
        /\ y.bought = f.bought /\ y.sold = f.sold /\ y.doomed = f.doomed
        /\ y.order = f.order /\ y.lot = f.lot
        /\ y.task = f.task /\ y.overtaken = f.overtaken
    BY <1>1, <1>2 DEF Session
  <1> QED BY <1>1, <1>3, <1>4 DEF cash2, flow2, fills2

(* One more, or one less, is bought than sold. *)
Counts(x, y, m, sign) == \A k \in Markets : y.net[k] = IF k = m THEN x.net[k] + sign ELSE x.net[k]

LEMMA OrderCounts ==
    ASSUME NEW x \in Session, NEW amount \in Int, NEW m \in Markets, NEW sign \in Int
    PROVE  Counts(x, Order(x, amount, m, sign), m, sign)
  <1> DEFINE f == Flushed(x)
             net2 == [x.net EXCEPT ![m] = @ + sign]
             cash2 == x.cash + amount
             flow2 == x.flow + amount
             fills2 == x.fills + 1
             y == [f EXCEPT !.cash = cash2, !.flow = flow2, !.fills = fills2, !.net = net2]
  <1>1. f \in Session
    BY DEF Flushed, Session
  <1>2. Order(x, amount, m, sign) = y
    BY DEF Order
  <1>3. y.net = net2
    <2> HIDE DEF f, net2, cash2, flow2, fills2
    <2> QED BY <1>1 DEF Session
  <1>4. \A k \in Markets : net2[k] = IF k = m THEN x.net[k] + sign ELSE x.net[k]
    BY DEF Session
  <1> QED BY <1>2, <1>3, <1>4 DEF Counts

LEMMA MarketType == ASSUME NEW s \in Schedules PROVE MarketOf[s] \in Markets
  BY PaperAssumption DEF PaperAssumption

(* A step that only replaces the session of p. *)
Moves(p, y) == Become(p, y) /\ y \in Session /\ UNCHANGED <<schedule, cash, rows>>

(* The flush of an order: what both fills have in common. *)
Fills(p, y, amount) ==
    LET x == session[p] IN
    /\ Moves(p, y) /\ book' = book /\ AccountFree(p)
    /\ y.cash = x.cash + amount /\ y.flow = x.flow + amount /\ y.fills = x.fills + 1
    /\ y.sold = x.sold \cup x.doomed /\ y.order = {} /\ y.lot = {}
    /\ y.task = x.task /\ y.overtaken = x.overtaken

(* The flush of a sell, and of a buy: what was only to be deleted is gone. *)
Takes(p, y, s) ==
    LET x == session[p] IN
    /\ s \in x.order /\ x.lot # {} /\ x.lot \cap x.doomed = {} /\ y.doomed = x.lot
    /\ Counts(x, y, MarketOf[s], -1)

Gives(p, y, s) ==
    LET x == session[p] IN
    /\ s \in x.order /\ y.doomed = {} /\ Counts(x, y, MarketOf[s], 1)

LEMMA SellEffect ==
    ASSUME TypeOK, NEW p \in Processes, NEW s \in Schedules, Sell(p, s)
    PROVE  \E amount \in Nat, y \in Session :
              /\ Fills(p, y, amount) /\ y.bought = session[p].bought
              /\ Takes(p, y, s)
  <1> DEFINE x == session[p]
             order(a) == Order(x, a, MarketOf[s], -1)
             z(a) == [order(a) EXCEPT !.doomed = Sold(x.lot)]
  <1>1. x \in Session /\ MarketOf[s] \in Markets /\ AccountFree(p)
    BY MarketType DEF TypeOK, Sell, CanFill
  <1>2. PICK amount \in Proceeds : \E y \in Stepped(z(amount), s) : Become(p, y)
    BY DEF Sell
  <1>3. PICK y \in Stepped(z(amount), s) : Become(p, y)
    BY <1>2
  <1>4. amount \in Nat /\ amount \in Int
    BY PaperAssumption DEF PaperAssumption
  <1>5. /\ order(amount) \in Session
        /\ order(amount).cash = x.cash + amount /\ order(amount).flow = x.flow + amount
        /\ order(amount).fills = x.fills + 1 /\ order(amount).bought = x.bought
        /\ order(amount).sold = x.sold \cup x.doomed
        /\ order(amount).order = {} /\ order(amount).lot = {}
        /\ order(amount).task = x.task /\ order(amount).overtaken = x.overtaken
        /\ Counts(x, order(amount), MarketOf[s], -1)
    <2> HIDE DEF x
    <2> QED BY <1>1, <1>4, OrderFields, OrderCounts
  <1>6. /\ z(amount) \in Session /\ z(amount).doomed = x.lot
        /\ SameBooks([order(amount) EXCEPT !.doomed = x.lot], z(amount))
        /\ z(amount).cash = x.cash + amount /\ z(amount).flow = x.flow + amount
        /\ z(amount).fills = x.fills + 1 /\ z(amount).bought = x.bought
        /\ z(amount).sold = x.sold \cup x.doomed
        /\ z(amount).order = {} /\ z(amount).lot = {}
        /\ z(amount).task = x.task /\ z(amount).overtaken = x.overtaken
        /\ z(amount).net = order(amount).net
    <2>1. Sold(x.lot) = x.lot /\ x.lot \in SUBSET RowIds
      BY <1>1 DEF Sold, Session
    <2> HIDE DEF x, order
    <2> QED BY <1>5, <2>1 DEF Session, SameBooks
  <1>7. y \in Session /\ SameBooks(z(amount), y)
    <2> HIDE DEF z
    <2> QED BY <1>3, <1>6, SteppedKeeps
  <1>8. UNCHANGED <<schedule, cash, rows, book>>
    BY DEF Sell
  <1> HIDE DEF z, order
  <1>9. Fills(p, y, amount) /\ y.bought = x.bought
    BY <1>1, <1>3, <1>6, <1>7, <1>8 DEF Fills, Moves, SameBooks
  <1>10. Takes(p, y, s)
    <2>1. s \in x.order /\ x.lot # {} /\ x.lot \cap x.doomed = {}
      BY DEF Sell, CanFill, Holds
    <2> QED BY <1>5, <1>6, <1>7, <2>1 DEF Takes, Counts, SameBooks
  <1> QED BY <1>4, <1>7, <1>9, <1>10

LEMMA BuyEffect ==
    ASSUME TypeOK, NEW p \in Processes, NEW s \in Schedules, Buy(p, s)
    PROVE  \E c \in Nat, y \in Session, new \in SUBSET Row :
              /\ Fills(p, y, -c) /\ c <= session[p].cash
              /\ y.bought = session[p].bought \cup new /\ Gives(p, y, s)
              /\ \/ new = {}
                 \/ /\ session[p].lot = {} /\ s \in session[p].order
                    /\ \E r : new = {r} /\ r.market = MarketOf[s]
  <1> DEFINE x == session[p]
             m == MarketOf[s]
             order(c) == Order(x, -c, m, 1)
             z(c, new) == [order(c) EXCEPT !.bought = @ \cup new]
             news == IF x.lot # {} THEN {{}} ELSE {{[id |-> r, market |-> m]} : r \in NextRow}
  <1>1. x \in Session /\ m \in Markets /\ AccountFree(p) /\ s \in x.order
    BY MarketType DEF TypeOK, Buy, CanFill
  <1>2. PICK c \in Affordable(x), new \in news : \E y \in Stepped(z(c, new), s) : Become(p, y)
    BY DEF Buy
  <1>3. PICK y \in Stepped(z(c, new), s) : Become(p, y)
    BY <1>2
  <1>4. c \in Nat /\ -c \in Int /\ c <= x.cash
    BY PaperAssumption DEF PaperAssumption, Affordable
  <1>5. /\ new \in SUBSET Row
        /\ new = {} \/ (x.lot = {} /\ \E r : new = {r} /\ r.market = m)
    <2>1. CASE x.lot # {}
      BY <2>1
    <2>2. CASE x.lot = {}
      <3>1. PICK r \in NextRow : new = {[id |-> r, market |-> m]}
        BY <2>2
      <3>2. r \in RowIds
        BY DEF NextRow
      <3>3. [id |-> r, market |-> m] \in Row /\ [id |-> r, market |-> m].market = m
        BY <1>1, <3>2 DEF Row
      <3> QED BY <2>2, <3>1, <3>3
    <2> QED BY <2>1, <2>2
  <1>6. /\ order(c) \in Session
        /\ order(c).cash = x.cash + (-c) /\ order(c).flow = x.flow + (-c)
        /\ order(c).fills = x.fills + 1 /\ order(c).bought = x.bought
        /\ order(c).sold = x.sold \cup x.doomed
        /\ order(c).order = {} /\ order(c).lot = {}
        /\ order(c).task = x.task /\ order(c).overtaken = x.overtaken
        /\ order(c).doomed = {} /\ Counts(x, order(c), m, 1)
    <2> HIDE DEF x, m
    <2>1. 1 \in Int
      OBVIOUS
    <2> QED BY <1>1, <1>4, <2>1, OrderFields, OrderCounts
  <1>7. /\ z(c, new) \in Session
        /\ SameBooks([order(c) EXCEPT !.bought = order(c).bought \cup new], z(c, new))
        /\ z(c, new).bought = x.bought \cup new
        /\ z(c, new).cash = x.cash + (-c) /\ z(c, new).flow = x.flow + (-c)
        /\ z(c, new).fills = x.fills + 1
        /\ z(c, new).sold = x.sold \cup x.doomed
        /\ z(c, new).order = {} /\ z(c, new).lot = {}
        /\ z(c, new).task = x.task /\ z(c, new).overtaken = x.overtaken
        /\ z(c, new).doomed = {} /\ z(c, new).net = order(c).net
    <2> HIDE DEF x, order, m, news
    <2> QED BY <1>5, <1>6 DEF Session, SameBooks
  <1>8. y \in Session /\ SameBooks(z(c, new), y)
    <2> HIDE DEF z
    <2> QED BY <1>3, <1>7, SteppedKeeps
  <1>9. UNCHANGED <<schedule, cash, rows, book>>
    BY DEF Buy
  <1> HIDE DEF z, order
  <1>10. Fills(p, y, -c) /\ y.bought = x.bought \cup new
    BY <1>1, <1>3, <1>7, <1>8, <1>9 DEF Fills, Moves, SameBooks
  <1>11. Gives(p, y, s)
    BY <1>1, <1>6, <1>7, <1>8 DEF Gives, Counts, SameBooks
  <1> QED BY <1>1, <1>4, <1>5, <1>8, <1>10, <1>11

SameNet == book'.flow = book.flow /\ book'.net = book.net /\ book'.torn = book.torn

(* The steps that change one session and fill nothing. *)
Quiet(p, y) ==
    LET x == session[p] IN
    /\ Moves(p, y) /\ SameNet
    /\ y.cash = x.cash /\ y.flow = x.flow /\ y.fills = x.fills
    /\ y.bought = x.bought /\ y.sold = x.sold
    /\ y.task = x.task /\ y.overtaken = x.overtaken
    /\ y.net = x.net /\ y.doomed = x.doomed

LEMMA LotsType ==
    ASSUME TypeOK, NEW p \in Processes, NEW s \in Schedules, NEW lot \in Lots(session[p], s)
    PROVE  /\ lot \in SUBSET RowIds
           /\ lot = {} => RowsOf(session[p], MarketOf[s]) = {}
           /\ lot # {} => \E r \in RowsOf(session[p], MarketOf[s]) : lot = {r.id}
  <1> DEFINE found == RowsOf(session[p], MarketOf[s])
  <1>1. session[p].bought \subseteq Row
    BY DEF TypeOK, Session
  <1>2. \A r \in found : r.id \in RowIds
    BY <1>1 DEF TypeOK, RowsOf, VisibleRows, Row
  <1>3. lot \in IF found = {} THEN {{}} ELSE {{r.id} : r \in found}
    BY DEF Lots
  <1> HIDE DEF found
  <1>4. /\ lot \in SUBSET RowIds /\ (lot = {} => found = {})
        /\ lot # {} => \E r \in found : lot = {r.id}
    BY <1>2, <1>3
  <1> QED BY <1>4 DEF found

LEMMA HoldEffect ==
    ASSUME TypeOK, NEW p \in Processes, NEW s \in Schedules, Hold(p, s)
    PROVE  \E y \in Session :
              Quiet(p, y) /\ y.order = session[p].order /\ y.lot = session[p].lot /\ book' = book
  <1> DEFINE x == session[p]
             z(touched) == [x EXCEPT !.touched = @ \cup touched]
  <1>1. x \in Session
    BY DEF TypeOK
  <1>2. PICK lot \in Lots(x, s) : \E touched \in {{}, lot \ x.doomed} :
           \E y \in Stepped(z(touched), s) : Become(p, y)
    BY DEF Hold
  <1>3. PICK touched \in {{}, lot \ x.doomed} : \E y \in Stepped(z(touched), s) : Become(p, y)
    BY <1>2
  <1>4. PICK y \in Stepped(z(touched), s) : Become(p, y)
    BY <1>3
  <1>5. lot \in SUBSET RowIds
    BY <1>2, LotsType
  <1>6. z(touched) \in Session /\ SameBooks(x, z(touched))
    <2>1. touched \in SUBSET RowIds
      BY <1>5
    <2> HIDE DEF x
    <2> QED BY <1>1, <2>1 DEF Session, SameBooks
  <1>7. y \in Session /\ SameBooks(z(touched), y)
    <2> HIDE DEF z
    <2> QED BY <1>4, <1>6, SteppedKeeps
  <1>8. UNCHANGED <<schedule, cash, rows, book>>
    BY DEF Hold
  <1> HIDE DEF z
  <1> QED BY <1>4, <1>6, <1>7, <1>8 DEF Quiet, Moves, SameBooks, SameNet

LEMMA DecideEffect ==
    ASSUME TypeOK, NEW p \in Processes, NEW s \in Schedules, Decide(p, s)
    PROVE  \E y \in Session :
              /\ Quiet(p, y) /\ book' = [book EXCEPT !.orders = @ + 1]
              /\ session[p].order = {} /\ y.order = {s}
              /\ y.lot = {} => RowsOf(session[p], MarketOf[s]) = {}
              /\ y.lot # {} => \E r \in RowsOf(session[p], MarketOf[s]) : y.lot = {r.id}
  <1> DEFINE x == session[p]
             y(lot) == [x EXCEPT !.order = {s}, !.lot = lot]
  <1>1. x \in Session /\ x.order = {}
    BY DEF TypeOK, Decide, At
  <1>2. PICK lot \in Lots(x, s) : Become(p, y(lot))
    BY DEF Decide
  <1>3. /\ lot \in SUBSET RowIds /\ (lot = {} => RowsOf(x, MarketOf[s]) = {})
        /\ lot # {} => \E r \in RowsOf(x, MarketOf[s]) : lot = {r.id}
    BY <1>2, LotsType
  <1>4. y(lot) \in Session /\ SameBooks([x EXCEPT !.order = {s}, !.lot = lot], y(lot))
        /\ y(lot).order = {s} /\ y(lot).lot = lot /\ y(lot).cash = x.cash
        /\ y(lot).flow = x.flow /\ y(lot).fills = x.fills /\ y(lot).bought = x.bought
        /\ y(lot).sold = x.sold /\ y(lot).task = x.task /\ y(lot).overtaken = x.overtaken
        /\ y(lot).net = x.net /\ y(lot).doomed = x.doomed
    <2> HIDE DEF x
    <2> QED BY <1>1, <1>3 DEF Session, SameBooks
  <1>5. book' = [book EXCEPT !.orders = @ + 1] /\ UNCHANGED <<schedule, cash, rows>>
    BY DEF Decide
  <1>6. SameNet
    BY <1>5 DEF TypeOK, SameNet
  <1> HIDE DEF y
  <1> QED BY <1>1, <1>2, <1>3, <1>4, <1>5, <1>6 DEF Quiet, Moves

(* The transaction is over, and nothing of it remains. *)
Clears(p) == Moves(p, Idle) /\ SameNet

(* A tick without candles goes on with the next schedule. *)
LEMMA NoCandlesEffect ==
    ASSUME TypeOK, NEW p \in Processes, NEW s \in Schedules, NoCandles(p, s)
    PROVE  /\ book' = book
           /\ \/ Clears(p)
              \/ \E y \in Session : /\ Quiet(p, y)
                                    /\ y.order = session[p].order /\ y.lot = session[p].lot
  <1> DEFINE x == session[p]
             y == [x EXCEPT !.todo = @ \ {s}]
  <1>1. x \in Session
    BY DEF TypeOK
  <1>2. CASE x.task = "tick"
    <2>1. Become(p, y) /\ UNCHANGED <<schedule, cash, rows, book>>
      BY <1>2 DEF NoCandles
    <2>2. y \in Session /\ SameBooks(x, y)
      <3> HIDE DEF x
      <3> QED BY <1>1 DEF Session, SameBooks
    <2> HIDE DEF y
    <2> QED BY <2>1, <2>2 DEF Quiet, Moves, SameBooks, SameNet
  <1>3. CASE x.task # "tick"
    BY <1>3, IdleType DEF NoCandles, Drop, Clears, Moves, SameNet
  <1> QED BY <1>2, <1>3

LEMMA DropEffect ==
    ASSUME TypeOK, NEW p \in Processes, RaiseError(p) \/ RaiseStale(p) \/ Die(p)
    PROVE  Clears(p) /\ book' \in {book, [book EXCEPT !.losses = @ + 1]}
  BY IdleType DEF TypeOK, RaiseError, RaiseStale, Die, Drop, Clears, Moves, SameNet

(* A transaction begins with the balance of the moment. *)
Opens(p, y) == /\ Moves(p, y) /\ book' = book
               /\ y.cash = cash /\ y.flow = 0 /\ y.fills = 0
               /\ y.bought = {} /\ y.sold = {} /\ y.order = {} /\ y.lot = {}
               /\ y.net = NoNet /\ y.doomed = {} /\ y.overtaken = FALSE

LEMMA OpenEffect ==
    ASSUME TypeOK, NEW p \in Processes,
           StartTick(p) \/ \E s \in Schedules : StartRun(p, s) \/ StartStep(p, s)
    PROVE  \E y \in Session : Opens(p, y)
  <1>1. PICK task \in {"tick", "run", "step"}, todo \in SUBSET Schedules,
             stamped \in SUBSET Schedules : Open(p, task, todo, stamped)
    <2>1. CASE StartTick(p)
      BY <2>1 DEF StartTick, Active, Stamped
    <2>2. ASSUME NEW s \in Schedules, StartRun(p, s) PROVE Open(p, "run", {s}, {})
      BY <2>2 DEF StartRun
    <2>3. ASSUME NEW s \in Schedules, StartStep(p, s) PROVE Open(p, "step", {s}, {})
      BY <2>3 DEF StartStep
    <2> QED BY <2>1, <2>2, <2>3
  <1> DEFINE y == [Idle EXCEPT !.task = task, !.todo = todo, !.stamped = stamped, !.cash = cash]
  <1>2. /\ y \in Session /\ y.cash = cash /\ y.flow = 0 /\ y.fills = 0
        /\ y.bought = {} /\ y.sold = {} /\ y.order = {} /\ y.lot = {}
        /\ y.net = NoNet /\ y.doomed = {} /\ y.overtaken = FALSE
    BY IdleType DEF TypeOK, Session, Idle
  <1> HIDE DEF y
  <1>3. Become(p, y) /\ UNCHANGED <<schedule, cash, rows, book>>
    BY <1>1 DEF Open, y
  <1> QED BY <1>2, <1>3 DEF Opens, Moves

(* What a commit leaves behind. *)
LEMMA CommitEffect ==
    ASSUME TypeOK, NEW p \in Processes, Commit(p)
    PROVE  LET x == session[p] IN
           /\ cash' = IF x.fills > 0 THEN x.cash ELSE cash
           /\ rows' = {r \in VisibleRows(x) : r.id \notin x.doomed}
           /\ session'[p] = Idle
           /\ \A q \in Processes \ {p} :
                 /\ session'[q].cash = session[q].cash /\ session'[q].flow = session[q].flow
                 /\ session'[q].fills = session[q].fills /\ session'[q].bought = session[q].bought
                 /\ session'[q].sold = session[q].sold /\ session'[q].order = session[q].order
                 /\ session'[q].lot = session[q].lot /\ session'[q].task = session[q].task
                 /\ session'[q].net = session[q].net /\ session'[q].doomed = session[q].doomed
                 /\ session'[q].overtaken = (session[q].overtaken \/ (session[q].task # "idle" /\ x.fills > 0))
           /\ session' \in [Processes -> Session]
           /\ book'.flow = book.flow + x.flow /\ \A m \in Markets : book'.net[m] = book.net[m] + x.net[m]
           /\ book'.torn = (book.torn \/ (x.overtaken /\ x.fills > 0))
  <1> DEFINE x == session[p]
             late(q) == session[q].overtaken \/ (session[q].task # "idle" /\ x.fills > 0)
  <1>1. session' = [q \in Processes |-> IF q = p THEN Idle
                                        ELSE [session[q] EXCEPT !.overtaken = late(q)]]
    BY DEF Commit
  <1>2. ASSUME NEW q \in Processes \ {p}
        PROVE  LET y == session'[q] IN
               /\ y \in Session
               /\ y.cash = session[q].cash /\ y.flow = session[q].flow
               /\ y.fills = session[q].fills /\ y.bought = session[q].bought
               /\ y.sold = session[q].sold /\ y.order = session[q].order
               /\ y.lot = session[q].lot /\ y.task = session[q].task
               /\ y.net = session[q].net /\ y.doomed = session[q].doomed
               /\ y.overtaken = late(q)
    <2>1. late(q) \in BOOLEAN /\ session[q] \in Session
      BY DEF TypeOK, Session
    <2>2. session'[q] = [session[q] EXCEPT !.overtaken = late(q)]
      BY <1>1
    <2> HIDE DEF late
    <2> QED BY <2>1, <2>2 DEF Session
  <1>3. session' \in [Processes -> Session] /\ session'[p] = Idle
    BY <1>1, <1>2, IdleType
  <1>4. /\ book'.flow = book.flow + x.flow /\ book'.torn = (book.torn \/ (x.overtaken /\ x.fills > 0))
        /\ \A m \in Markets : book'.net[m] = book.net[m] + x.net[m]
    BY DEF Commit, TypeOK
  <1>5. /\ cash' = IF x.fills > 0 THEN x.cash ELSE cash
        /\ rows' = {r \in VisibleRows(x) : r.id \notin x.doomed}
    BY DEF Commit, CashWith
  <1> QED BY <1>2, <1>3, <1>4, <1>5

-----------------------------------------------------------------------------
(* Types. *)

LEMMA MovesType ==
    ASSUME TypeOK, NEW p \in Processes, NEW y, Moves(p, y)
    PROVE  schedule' = schedule /\ cash' = cash /\ rows' = rows /\ session' \in [Processes -> Session]
  BY DEF TypeOK, Moves, Become

LEMMA CommitType == ASSUME TypeOK, NEW p \in Processes, Commit(p) PROVE TypeOK'
  <1> DEFINE x == session[p]
  <1>1. x \in Session /\ x.cash \in Int /\ x.flow \in Int /\ x.net \in [Markets -> Int]
        /\ x.bought \subseteq Row
    BY DEF TypeOK, Session
  <1>2. cash' \in Int
    BY <1>1, CommitEffect DEF TypeOK
  <1>3. rows' \subseteq Row
    BY <1>1, CommitEffect DEF TypeOK, VisibleRows
  <1>4. schedule' \in [Schedules -> Schedule]
    <2>1. \A s \in Schedules : RunStatus(x, s) \in {"none", "active", "paused"}
      BY DEF RunStatus, TypeOK, Schedule
    <2>2. \A s \in Schedules : [status |-> RunStatus(x, s), stamped |-> TRUE] \in Schedule
      BY <2>1 DEF Schedule
    <2> QED BY <2>2 DEF Commit, TypeOK
  <1>5. book' \in [orders : Nat, flow : Int, net : [Markets -> Int], losses : Nat, torn : BOOLEAN]
    <2> DEFINE net2 == [m \in Markets |-> book.net[m] + x.net[m]]
               torn2 == book.torn \/ (x.overtaken /\ x.fills > 0)
    <2>1. net2 \in [Markets -> Int] /\ torn2 \in BOOLEAN /\ book.flow + x.flow \in Int
      BY <1>1 DEF TypeOK
    <2>2. book' = [book EXCEPT !.flow = book.flow + x.flow, !.net = net2, !.torn = torn2]
      BY DEF Commit, TypeOK
    <2> HIDE DEF net2, torn2, x
    <2> QED BY <2>1, <2>2 DEF TypeOK
  <1>6. session' \in [Processes -> Session]
    BY CommitEffect
  <1> QED BY <1>2, <1>3, <1>4, <1>5, <1>6 DEF TypeOK

LEMMA TypeStep == TypeOK /\ [Next]_vars => TypeOK'
  <1> SUFFICES ASSUME TypeOK, [Next]_vars PROVE TypeOK'
    OBVIOUS
  <1>1. ASSUME NEW p \in Processes, NEW y, Moves(p, y),
               book' \in [orders : Nat, flow : Int, net : [Markets -> Int], losses : Nat, torn : BOOLEAN]
        PROVE  TypeOK'
    BY <1>1, MovesType DEF TypeOK
  <1>2. ASSUME NEW p \in Processes, NEW s \in Schedules, NoCandles(p, s) PROVE TypeOK'
    BY <1>1, <1>2, NoCandlesEffect DEF Clears, Quiet, TypeOK
  <1>3. ASSUME NEW p \in Processes, NEW s \in Schedules, Hold(p, s) PROVE TypeOK'
    BY <1>1, <1>3, HoldEffect DEF Quiet, TypeOK
  <1>4. ASSUME NEW p \in Processes, NEW s \in Schedules, Decide(p, s) PROVE TypeOK'
    <2>1. book' \in [orders : Nat, flow : Int, net : [Markets -> Int], losses : Nat, torn : BOOLEAN]
      BY <1>4, DecideEffect DEF TypeOK
    <2> QED BY <1>1, <1>4, <2>1, DecideEffect DEF Quiet
  <1>5. ASSUME NEW p \in Processes, NEW s \in Schedules, Buy(p, s) PROVE TypeOK'
    BY <1>1, <1>5, BuyEffect DEF Fills, TypeOK
  <1>6. ASSUME NEW p \in Processes, NEW s \in Schedules, Sell(p, s) PROVE TypeOK'
    BY <1>1, <1>6, SellEffect DEF Fills, TypeOK
  <1>7. ASSUME NEW p \in Processes, RaiseError(p) \/ RaiseStale(p) \/ Die(p) PROVE TypeOK'
    <2>1. book' \in [orders : Nat, flow : Int, net : [Markets -> Int], losses : Nat, torn : BOOLEAN]
      BY <1>7, DropEffect DEF TypeOK
    <2> QED BY <1>1, <1>7, <2>1, DropEffect DEF Clears
  <1>8. ASSUME NEW p \in Processes, Commit(p) PROVE TypeOK'
    BY <1>8, CommitType
  <1>9. ASSUME NEW p \in Processes,
               StartTick(p) \/ \E s \in Schedules : StartRun(p, s) \/ StartStep(p, s)
        PROVE  TypeOK'
    BY <1>1, <1>9, OpenEffect DEF Opens, TypeOK
  <1>10. ASSUME NEW s \in Schedules, CreateSchedule(s) \/ ToggleSchedule(s) PROVE TypeOK'
    <2>1. \A status \in {"active", "paused"} : [schedule[s] EXCEPT !.status = status] \in Schedule
      BY DEF TypeOK, Schedule
    <2>2. PICK status \in {"active", "paused"} :
             schedule' = [schedule EXCEPT ![s] = [schedule[s] EXCEPT !.status = status]]
      BY <1>10 DEF CreateSchedule, ToggleSchedule
    <2> QED BY <1>10, <2>1, <2>2 DEF CreateSchedule, ToggleSchedule, TypeOK
  <1>11. CASE UNCHANGED vars
    BY <1>11 DEF vars, TypeOK
  <1> QED BY <1>2, <1>3, <1>4, <1>5, <1>6, <1>7, <1>8, <1>9, <1>10, <1>11
          DEF Next, TaskStep, Step, Api, Processes

LEMMA TypeInit == Init => TypeOK
  BY IdleType, PaperAssumption DEF PaperAssumption, Init, TypeOK, Schedule, NoNet

(* Type correctness, for every set of schedules and processes.             *)
THEOREM TypesHold == Spec => []TypeOK
  BY TypeInit, TypeStep, PTL DEF Spec

-----------------------------------------------------------------------------
(* A case analysis of the steps, by what they do to one session.           *)

Inserts(p, new) ==
    new = {} \/ /\ session[p].lot = {}
                /\ \E s \in session[p].order : \E r : new = {r} /\ r.market = MarketOf[s]

Pays(p, y, amount) ==
    /\ Fills(p, y, amount) /\ (0 <= amount \/ -amount <= session[p].cash)
    /\ \E new : \E s \in Schedules :
          /\ Inserts(p, new) /\ y.bought = session[p].bought \cup new
          /\ \/ Gives(p, y, s) /\ \A r \in new : r.market = MarketOf[s]
             \/ Takes(p, y, s) /\ new = {}

(* A step decides on an order, or leaves it as it is. *)
Rests(p, y)    == y.order = session[p].order /\ y.lot = session[p].lot
Seeks(p, y, s) == /\ session[p].order = {} /\ y.order = {s}
                  /\ y.lot = {} => RowsOf(session[p], MarketOf[s]) = {}
                  /\ y.lot # {} => \E r \in RowsOf(session[p], MarketOf[s]) : y.lot = {r.id}
Looks(p, y)    == Quiet(p, y) /\ (Rests(p, y) \/ \E s \in Schedules : Seeks(p, y, s))

LEMMA Kinds ==
    ASSUME TypeOK, [Next]_vars
    PROVE  \/ UNCHANGED <<cash, rows, session, book>>
           \/ \E p \in Processes : Clears(p)
           \/ \E p \in Processes, y \in Session : Opens(p, y)
           \/ \E p \in Processes, y \in Session : Looks(p, y)
           \/ \E p \in Processes, y \in Session, amount \in Int : Pays(p, y, amount)
           \/ \E p \in Processes : Commit(p) /\ session[p].task # "idle"
  <1>1. ASSUME NEW p \in Processes, NEW s \in Schedules, NoCandles(p, s)
        PROVE  Clears(p) \/ \E y \in Session : Looks(p, y)
    BY <1>1, NoCandlesEffect DEF Looks, Rests
  <1>2. ASSUME NEW p \in Processes, NEW s \in Schedules, Hold(p, s) \/ Decide(p, s)
        PROVE  \E y \in Session : Looks(p, y)
    <2>1. CASE Hold(p, s)
      BY <2>1, HoldEffect DEF Looks, Rests
    <2>2. CASE Decide(p, s)
      BY <2>2, DecideEffect DEF Looks, Seeks
    <2> QED BY <1>2, <2>1, <2>2
  <1>3. ASSUME NEW p \in Processes, NEW s \in Schedules, Buy(p, s)
        PROVE  \E y \in Session, amount \in Int : Pays(p, y, amount)
    <2>1. PICK c \in Nat, y \in Session, new \in SUBSET Row :
             /\ Fills(p, y, -c) /\ c <= session[p].cash
             /\ y.bought = session[p].bought \cup new /\ Gives(p, y, s)
             /\ \/ new = {}
                \/ /\ session[p].lot = {} /\ s \in session[p].order
                   /\ \E r : new = {r} /\ r.market = MarketOf[s]
      BY <1>3, BuyEffect
    <2>2. -c \in Int /\ -(-c) = c
      OBVIOUS
    <2>3. Inserts(p, new) /\ \A r \in new : r.market = MarketOf[s]
      BY <2>1 DEF Inserts
    <2>4. Pays(p, y, -c)
      BY <2>1, <2>2, <2>3 DEF Pays
    <2> QED BY <2>2, <2>4
  <1>4. ASSUME NEW p \in Processes, NEW s \in Schedules, Sell(p, s)
        PROVE  \E y \in Session, amount \in Int : Pays(p, y, amount)
    <2>1. PICK amount \in Nat, y \in Session :
             Fills(p, y, amount) /\ y.bought = session[p].bought /\ Takes(p, y, s)
      BY <1>4, SellEffect
    <2>2. amount \in Int /\ 0 <= amount
      OBVIOUS
    <2>3. Inserts(p, {}) /\ y.bought = session[p].bought \cup {}
      BY <2>1 DEF Inserts
    <2>4. Pays(p, y, amount)
      BY <2>1, <2>2, <2>3 DEF Pays
    <2> QED BY <2>2, <2>4
  <1>5. ASSUME NEW p \in Processes, RaiseError(p) \/ RaiseStale(p) \/ Die(p) PROVE Clears(p)
    BY <1>5, DropEffect
  <1>6. ASSUME NEW p \in Processes, Commit(p) PROVE session[p].task # "idle"
    BY <1>6 DEF Commit
  <1>7. ASSUME NEW p \in Processes,
               StartTick(p) \/ \E s \in Schedules : StartRun(p, s) \/ StartStep(p, s)
        PROVE  \E y \in Session : Opens(p, y)
    BY <1>7, OpenEffect
  <1>8. ASSUME NEW s \in Schedules, CreateSchedule(s) \/ ToggleSchedule(s)
        PROVE  UNCHANGED <<cash, rows, session, book>>
    BY <1>8 DEF CreateSchedule, ToggleSchedule
  <1>9. CASE UNCHANGED vars
    BY <1>9 DEF vars
  <1>10. CASE \E s \in Schedules : CreateSchedule(s) \/ ToggleSchedule(s)
    BY <1>8, <1>10
  <1>11. CASE \E p \in Processes : TaskStep(p) \/ Die(p)
    BY <1>1, <1>2, <1>3, <1>4, <1>5, <1>6, <1>11 DEF TaskStep, Step
  <1>12. CASE \/ \E p \in Workers : StartTick(p)
              \/ \E p \in Threads : Api(p)
    BY <1>7, <1>12 DEF Api, Processes
  <1> QED BY <1>9, <1>10, <1>11, <1>12 DEF Next

-----------------------------------------------------------------------------
(* Solvency.  The account alone is not inductive, as a commit writes the   *)
(* balance that its session believes in.                                   *)

Solvent == cash >= 0 /\ \A p \in Processes : session[p].cash >= 0

LEMMA SolventStep == TypeOK /\ Solvent /\ [Next]_vars => Solvent'
  <1> SUFFICES ASSUME TypeOK, Solvent, [Next]_vars PROVE Solvent'
    OBVIOUS
  <1>1. ASSUME NEW p \in Processes, NEW y, Moves(p, y), y.cash >= 0 PROVE Solvent'
    BY <1>1 DEF Moves, Become, Solvent, TypeOK
  <1>2. ASSUME NEW p \in Processes, Clears(p) PROVE Solvent'
    BY <1>1, <1>2 DEF Clears, Idle
  <1>3. ASSUME NEW p \in Processes, NEW y \in Session, Opens(p, y) \/ Looks(p, y) PROVE Solvent'
    <2>1. y.cash >= 0 /\ Moves(p, y)
      BY <1>3 DEF Opens, Looks, Quiet, Solvent
    <2> QED BY <1>1, <2>1
  <1>4. ASSUME NEW p \in Processes, NEW y \in Session, NEW amount \in Int, Pays(p, y, amount)
        PROVE  Solvent'
    <2>1. session[p].cash \in Int /\ session[p].cash >= 0
      BY DEF TypeOK, Session, Solvent
    <2>2. y.cash = session[p].cash + amount /\ Moves(p, y)
      BY <1>4 DEF Pays, Fills
    <2>3. y.cash >= 0
      BY <1>4, <2>1, <2>2 DEF Pays
    <2> QED BY <1>1, <2>2, <2>3
  <1>5. ASSUME NEW p \in Processes, Commit(p) PROVE Solvent'
    <2>1. cash' >= 0
      BY <1>5, CommitEffect DEF Solvent
    <2>2. ASSUME NEW q \in Processes PROVE session'[q].cash >= 0
      <3>1. CASE q = p
        BY <1>5, <3>1, CommitEffect DEF Idle
      <3>2. CASE q # p
        BY <1>5, <3>2, CommitEffect DEF Solvent
      <3> QED BY <3>1, <3>2
    <2> QED BY <2>1, <2>2 DEF Solvent, Processes
  <1>6. CASE UNCHANGED <<cash, rows, session, book>>
    BY <1>6 DEF Solvent
  <1> QED BY <1>2, <1>3, <1>4, <1>5, <1>6, Kinds

LEMMA SolventInit == Init => Solvent
  BY PaperAssumption DEF PaperAssumption, Init, Solvent, Idle

(* However many ticks, runs and manual steps overlap, the account never    *)
(* owes money: a buy is sized by the balance that its session writes.      *)
THEOREM NeverOwing == Spec => []CashNeverNegative
  <1>1. Init => TypeOK /\ Solvent
    BY TypeInit, SolventInit
  <1>2. TypeOK /\ Solvent /\ [Next]_vars => (TypeOK /\ Solvent)'
    BY TypeStep, SolventStep
  <1>3. Solvent => CashNeverNegative
    BY DEF Solvent, CashNeverNegative
  <1> QED BY <1>1, <1>2, <1>3, PTL DEF Spec

-----------------------------------------------------------------------------
(* The books.  A session that nothing has overtaken differs from the       *)
(* account by what it has ordered.                                         *)

Books == /\ CashMatchesOrders
         /\ \A p \in Processes :
               /\ session[p].fills = 0 => session[p].flow = 0
               /\ session[p].task # "idle" /\ ~session[p].overtaken
                     => session[p].cash = cash + session[p].flow

LEMMA BooksStep == TypeOK /\ Books /\ [Next]_vars => Books'
  <1> SUFFICES ASSUME TypeOK, Books, [Next]_vars PROVE Books'
    OBVIOUS
  <1>1. ASSUME NEW p \in Processes, NEW y, Moves(p, y), SameNet,
               y.fills = 0 => y.flow = 0,
               y.task # "idle" /\ ~y.overtaken => y.cash = cash + y.flow
        PROVE  Books'
    BY <1>1 DEF Moves, Become, Books, TypeOK, CashMatchesOrders, SameNet
  <1>2. ASSUME NEW p \in Processes, Clears(p) PROVE Books'
    <2>1. Idle.flow = 0 /\ Idle.task = "idle"
      BY DEF Idle
    <2> QED BY <1>1, <1>2, <2>1 DEF Clears
  <1>3. ASSUME NEW p \in Processes, NEW y \in Session, Opens(p, y) PROVE Books'
    <2>1. y.cash = cash + y.flow /\ y.flow = 0 /\ Moves(p, y) /\ SameNet
      BY <1>3 DEF Opens, SameNet, TypeOK
    <2> QED BY <1>1, <2>1
  <1>4. ASSUME NEW p \in Processes, NEW y \in Session, Looks(p, y) PROVE Books'
    <2>1. Moves(p, y) /\ SameNet /\ (y.fills = 0 => y.flow = 0)
          /\ (y.task # "idle" /\ ~y.overtaken => y.cash = cash + y.flow)
      BY <1>4 DEF Looks, Quiet, Books
    <2> QED BY <1>1, <2>1
  <1>5. ASSUME NEW p \in Processes, NEW y \in Session, NEW amount \in Int, Pays(p, y, amount)
        PROVE  Books'
    <2> DEFINE x == session[p]
    <2>1. x.cash \in Int /\ x.flow \in Int /\ x.fills \in Nat /\ cash \in Int
      BY DEF TypeOK, Session
    <2>2. /\ y.cash = x.cash + amount /\ y.flow = x.flow + amount /\ y.fills = x.fills + 1
          /\ y.task = x.task /\ y.overtaken = x.overtaken
          /\ Moves(p, y) /\ SameNet
      BY <1>5 DEF Pays, Fills, SameNet
    <2>3. x.task # "idle" /\ ~x.overtaken => x.cash = cash + x.flow
      BY DEF Books
    <2> HIDE DEF x
    <2>4. y.task # "idle" /\ ~y.overtaken => y.cash = cash + y.flow
      BY <2>1, <2>2, <2>3
    <2>5. y.fills # 0
      BY <2>1, <2>2
    <2> QED BY <1>1, <2>2, <2>4, <2>5
  <1>6. ASSUME NEW p \in Processes, Commit(p), session[p].task # "idle" PROVE Books'
    <2> DEFINE x == session[p]
    <2>1. /\ x.cash \in Int /\ x.flow \in Int /\ x.fills \in Nat /\ cash \in Int
          /\ book.flow \in Int /\ Bankroll \in Int
          /\ book.torn \in BOOLEAN /\ x.overtaken \in BOOLEAN
      BY PaperAssumption DEF PaperAssumption, TypeOK, Session
    <2>2. /\ cash' = IF x.fills > 0 THEN x.cash ELSE cash
          /\ book'.flow = book.flow + x.flow
          /\ book'.torn = (book.torn \/ (x.overtaken /\ x.fills > 0))
      BY <1>6, CommitEffect
    <2>3. /\ x.fills = 0 => x.flow = 0
          /\ ~x.overtaken => x.cash = cash + x.flow
          /\ ~book.torn => cash = Bankroll + book.flow
      BY <1>6 DEF Books, CashMatchesOrders
    <2>4. CashMatchesOrders'
      <3> HIDE DEF x
      <3>1. CASE x.fills = 0
        BY <2>1, <2>2, <2>3, <3>1 DEF CashMatchesOrders
      <3>2. CASE x.fills > 0
        BY <2>1, <2>2, <2>3, <3>2 DEF CashMatchesOrders
      <3> QED BY <2>1, <3>1, <3>2
    <2>5. ASSUME NEW q \in Processes
          PROVE  /\ session'[q].fills = 0 => session'[q].flow = 0
                 /\ session'[q].task # "idle" /\ ~session'[q].overtaken
                       => session'[q].cash = cash' + session'[q].flow
      <3>1. CASE q = p
        BY <1>6, <3>1, CommitEffect DEF Idle
      <3>2. CASE q # p
        <4>1. /\ session'[q].cash = session[q].cash /\ session'[q].flow = session[q].flow
              /\ session'[q].fills = session[q].fills /\ session'[q].task = session[q].task
              /\ session'[q].overtaken = (session[q].overtaken \/ (session[q].task # "idle" /\ x.fills > 0))
          BY <1>6, <3>2, CommitEffect
        <4>2. CASE x.fills > 0
          BY <4>1, <4>2 DEF Books
        <4>3. CASE ~(x.fills > 0)
          BY <2>2, <4>1, <4>3 DEF Books
        <4> QED BY <4>2, <4>3
      <3> QED BY <3>1, <3>2
    <2> QED BY <2>4, <2>5 DEF Books, Processes
  <1>7. CASE UNCHANGED <<cash, rows, session, book>>
    BY <1>7 DEF Books, CashMatchesOrders
  <1> QED BY <1>2, <1>3, <1>4, <1>5, <1>6, <1>7, Kinds

LEMMA BooksInit == Init => Books
  BY PaperAssumption DEF PaperAssumption, Init, Books, CashMatchesOrders, Idle

(* The balance is the bankroll plus the committed orders, until an order   *)
(* is filled on a balance that another transaction has replaced.           *)
THEOREM BooksAgree == Spec => []CashMatchesOrders
  <1>1. Init => TypeOK /\ Books
    BY TypeInit, BooksInit
  <1>2. TypeOK /\ Books /\ [Next]_vars => (TypeOK /\ Books)'
    BY TypeStep, BooksStep
  <1>3. Books => CashMatchesOrders
    BY DEF Books
  <1> QED BY <1>1, <1>2, <1>3, PTL DEF Spec

-----------------------------------------------------------------------------
(* Rows of one market.  Whoever has looked up a market and found nothing   *)
(* may still add a row, even if others do so meanwhile; the lock of the    *)
(* account lets one process at a time have flushed rows.                   *)

RowsIn(m) == {r \in rows : r.market = m}
Adds(m)   == {p \in Processes : session[p].lot = {} /\ \E s \in session[p].order : MarketOf[s] = m}
Late(m)   == {p \in Adds(m) : session[p].fills = 0}
Fillers   == {p \in Processes : session[p].fills # 0}

OwnRows(p, m) == {r \in session[p].bought : r.id \notin session[p].sold /\ r.market = m}

Few(set, others) == Cardinality(set) + Cardinality(others) <= Cardinality(Processes)

Finite == IsFiniteSet(rows) /\ \A p \in Processes : IsFiniteSet(session[p].bought)

Flushers ==
    /\ \A p, q \in Fillers : p = q
    /\ \A p \in Processes \ Fillers : session[p].bought = {} /\ session[p].sold = {}
    /\ \A p \in Processes, m \in Markets :
          /\ \A r1, r2 \in OwnRows(p, m) : r1 = r2
          /\ p \in Adds(m) => OwnRows(p, m) = {}

Room ==
    /\ \A m \in Markets : Few(RowsIn(m), Late(m))
    /\ \A p \in Fillers, m \in Markets : Few(RowsOf(session[p], m), Adds(m))

RowsInv == Finite /\ Flushers /\ Room

LEMMA ProcessesFinite ==
    ASSUME NEW S \in SUBSET Processes
    PROVE  IsFiniteSet(S) /\ Cardinality(S) \in Nat /\ Cardinality(S) <= Cardinality(Processes)
           /\ Cardinality(Processes) \in Nat
  <1>1. IsFiniteSet(Processes)
    BY PaperAssumption, FS_Union DEF PaperAssumption, Processes
  <1> QED BY <1>1, FS_Subset, FS_CardinalityType

LEMMA FewFewer ==
    ASSUME NEW S, IsFiniteSet(S), NEW T \in SUBSET S,
           NEW P \in SUBSET Processes, NEW Q \in SUBSET P, Few(S, P)
    PROVE  Few(T, Q)
  <1>1. Cardinality(T) <= Cardinality(S) /\ Cardinality(T) \in Nat /\ Cardinality(S) \in Nat
    BY FS_Subset, FS_CardinalityType
  <1>2. Cardinality(Q) <= Cardinality(P) /\ Cardinality(Q) \in Nat /\ Cardinality(P) \in Nat
        /\ Cardinality(Processes) \in Nat
    BY ProcessesFinite, FS_Subset
  <1> QED BY <1>1, <1>2 DEF Few

(* A row is added by a process that stops waiting for it. *)
LEMMA FewTrade ==
    ASSUME NEW S, IsFiniteSet(S), NEW r, NEW T \in SUBSET (S \cup {r}),
           NEW P \in SUBSET Processes, NEW p \in P, NEW Q \in SUBSET (P \ {p}), Few(S, P)
    PROVE  Few(T, Q)
  <1>1. IsFiniteSet(S \cup {r}) /\ Cardinality(S \cup {r}) <= Cardinality(S) + 1
        /\ Cardinality(S \cup {r}) \in Nat /\ Cardinality(S) \in Nat
    <2>1. Cardinality(S) \in Nat
      BY FS_CardinalityType
    <2>2. /\ IsFiniteSet(S \cup {r})
          /\ Cardinality(S \cup {r}) = IF r \in S THEN Cardinality(S) ELSE Cardinality(S) + 1
      BY FS_AddElement
    <2> QED BY <2>1, <2>2
  <1>2. Cardinality(P \ {p}) = Cardinality(P) - 1 /\ Cardinality(P \ {p}) \in Nat
        /\ Cardinality(P) \in Nat /\ Cardinality(Processes) \in Nat
    BY ProcessesFinite, FS_RemoveElement
  <1>3. Few(S \cup {r}, P \ {p})
    BY <1>1, <1>2 DEF Few
  <1> QED BY <1>1, <1>3, FewFewer

LEMMA FewNone == ASSUME NEW P \in SUBSET Processes PROVE Few({}, P)
  BY ProcessesFinite, FS_EmptySet DEF Few

LEMMA FewOne ==
    ASSUME NEW r, NEW p \in Processes, NEW P \in SUBSET (Processes \ {p})
    PROVE  Few({r}, P)
  <1>1. Few({}, Processes) /\ IsFiniteSet({}) /\ {r} \in SUBSET ({} \cup {r})
    BY FewNone, FS_EmptySet
  <1> QED BY <1>1, FewTrade

LEMMA VisibleFinite ==
    ASSUME TypeOK, Finite, NEW p \in Processes, NEW m
    PROVE  IsFiniteSet(RowsOf(session[p], m)) /\ IsFiniteSet(RowsIn(m))
  <1>1. IsFiniteSet(rows \cup session[p].bought)
    BY FS_Union DEF Finite
  <1>2. RowsOf(session[p], m) \subseteq rows \cup session[p].bought /\ RowsIn(m) \subseteq rows
    BY DEF RowsOf, VisibleRows, RowsIn
  <1> QED BY <1>1, <1>2, FS_Subset DEF Finite

(* With the account in its hands, a process finds room for what it sees.  *)
LEMMA FreeRoom ==
    ASSUME TypeOK, RowsInv, NEW p \in Processes, Fillers \subseteq {p}, NEW m \in Markets
    PROVE  Few(RowsOf(session[p], m), Adds(m))
  <1>1. CASE p \in Fillers
    BY <1>1 DEF RowsInv, Room
  <1>2. CASE p \notin Fillers
    <2>1. Late(m) = Adds(m)
      BY <1>2 DEF Late, Adds, Fillers
    <2>2. RowsOf(session[p], m) = RowsIn(m)
      BY <1>2 DEF RowsInv, Flushers, RowsOf, RowsIn, VisibleRows
    <2> QED BY <2>1, <2>2 DEF RowsInv, Room
  <1> QED BY <1>1, <1>2

(* Sessions that look, hold or end add nothing. *)
Kept(p)  == /\ session'[p].fills = session[p].fills /\ session'[p].bought = session[p].bought
            /\ session'[p].sold = session[p].sold /\ session'[p].order = session[p].order
            /\ session'[p].lot = session[p].lot
Blank(p) == /\ session'[p].fills = 0 /\ session'[p].bought = {}
            /\ session'[p].sold = {} /\ session'[p].order = {}

LEMMA RowsKept ==
    ASSUME TypeOK, RowsInv, rows' \subseteq rows, \A p \in Processes : Kept(p) \/ Blank(p)
    PROVE  RowsInv'
  <1>1. \A m : Adds(m)' \subseteq Adds(m) /\ Late(m)' \subseteq Late(m)
    BY DEF Adds, Late, Kept, Blank, Processes
  <1>2. Fillers' \subseteq Fillers /\ \A p \in Fillers' : Kept(p)
    BY DEF Fillers, Kept, Blank, Processes
  <1>3. Finite'
    BY FS_Subset, FS_EmptySet DEF RowsInv, Finite, Kept, Blank, Processes
  <1>4. Flushers'
    <2>1. \A p \in Processes, m \in Markets : OwnRows(p, m)' \subseteq OwnRows(p, m)
      BY DEF OwnRows, Kept, Blank
    <2>2. \A p \in Processes \ Fillers' : session'[p].bought = {} /\ session'[p].sold = {}
      BY DEF RowsInv, Flushers, Fillers, Kept, Blank, Processes
    <2>3. \A p \in Processes, m \in Markets :
             /\ \A r1, r2 \in OwnRows(p, m)' : r1 = r2
             /\ p \in Adds(m)' => OwnRows(p, m)' = {}
      BY <1>1, <2>1 DEF RowsInv, Flushers
    <2>4. \A p, q \in Fillers' : p = q
      BY <1>2 DEF RowsInv, Flushers
    <2> QED BY <2>2, <2>3, <2>4 DEF Flushers, Processes
  <1>5. ASSUME NEW m \in Markets PROVE Few(RowsIn(m)', Late(m)')
    <2>1. RowsIn(m)' \subseteq RowsIn(m)
      BY DEF RowsIn
    <2>2. IsFiniteSet(RowsIn(m))
      BY FS_Subset DEF RowsInv, Finite, RowsIn
    <2>3. Late(m) \subseteq Processes
      BY DEF Late, Adds
    <2> QED BY <1>1, <2>1, <2>2, <2>3, FewFewer DEF RowsInv, Room
  <1>6. ASSUME NEW p \in Fillers', NEW m \in Markets PROVE Few(RowsOf(session[p], m)', Adds(m)')
    <2>1. p \in Processes /\ p \in Fillers /\ Kept(p)
      BY <1>2 DEF Fillers
    <2>2. RowsOf(session[p], m)' \subseteq RowsOf(session[p], m)
      BY <2>1 DEF RowsOf, VisibleRows, Kept
    <2>3. IsFiniteSet(RowsOf(session[p], m))
      BY <2>1, VisibleFinite DEF RowsInv
    <2>4. Adds(m) \subseteq Processes
      BY DEF Adds
    <2> QED BY <1>1, <2>1, <2>2, <2>3, <2>4, FewFewer DEF RowsInv, Room
  <1>7. Room'
    BY <1>5, <1>6 DEF Room, Few, Processes
  <1> QED BY <1>3, <1>4, <1>7 DEF RowsInv

(* Whoever decides to add a row has seen none. *)
LEMMA RowsDecide ==
    ASSUME TypeOK, RowsInv, NEW p \in Processes, NEW y \in Session, NEW s \in Schedules,
           Quiet(p, y), session[p].order = {}, y.order = {s},
           y.lot = {} => RowsOf(session[p], MarketOf[s]) = {}
    PROVE  RowsInv'
  <1> DEFINE x == session[p]
             M == MarketOf[s]
  <1>1. /\ session' = [session EXCEPT ![p] = y] /\ session \in [Processes -> Session]
        /\ rows' = rows /\ y.fills = x.fills /\ y.bought = x.bought /\ y.sold = x.sold
    BY DEF Quiet, Moves, Become, TypeOK
  <1>2. \A q \in Processes :
           /\ session'[q].fills = session[q].fills /\ session'[q].bought = session[q].bought
           /\ session'[q].sold = session[q].sold
    BY <1>1
  <1>3. Fillers' = Fillers
    BY <1>2 DEF Fillers, Processes
  <1>4. Finite'
    BY <1>1, <1>2 DEF RowsInv, Finite, Processes
  <1>5. \A q \in Processes : \A m : /\ OwnRows(q, m)' = OwnRows(q, m)
                                   /\ RowsOf(session[q], m)' = RowsOf(session[q], m)
    BY <1>1, <1>2 DEF OwnRows, RowsOf, VisibleRows
  <1>6. \A m : RowsIn(m)' = RowsIn(m)
    BY <1>1 DEF RowsIn
  <1>7. \A m : p \notin Adds(m)
    BY DEF Adds
  <1>8. \A m : (y.lot = {} /\ m = M) \/ (Adds(m)' = Adds(m) /\ Late(m)' = Late(m))
    <2> SUFFICES ASSUME NEW m, ~(y.lot = {} /\ m = M)
                 PROVE  Adds(m)' = Adds(m) /\ Late(m)' = Late(m)
      OBVIOUS
    <2>1. p \notin Adds(m)'
      BY <1>1 DEF Adds
    <2>2. Adds(m)' = Adds(m)
      BY <1>1, <1>7, <2>1 DEF Adds, Processes
    <2> QED BY <1>2, <2>2 DEF Late, Adds
  <1>9. Adds(M)' \subseteq Adds(M) \cup {p} /\ Adds(M)' \subseteq Processes
        /\ Late(M)' \subseteq Processes /\ Late(M)' \subseteq Adds(M)'
        /\ (p \in Fillers => Late(M)' \subseteq Late(M))
    BY <1>1, <1>2 DEF Adds, Late, Fillers, Processes
  <1>10. M \in Markets
    BY MarketType
  <1>11. y.lot = {} => OwnRows(p, M) = {} /\ (p \notin Fillers => RowsIn(M) = {})
    <2>1. OwnRows(p, M) \subseteq RowsOf(x, M)
      BY DEF OwnRows, RowsOf, VisibleRows
    <2>2. p \notin Fillers => RowsIn(M) \subseteq RowsOf(x, M)
      BY DEF RowsIn, RowsOf, VisibleRows, RowsInv, Flushers
    <2> QED BY <2>1, <2>2
  <1>12. Flushers'
    <2>1. ASSUME NEW q \in Processes, NEW m \in Markets, q \in Adds(m)'
          PROVE  OwnRows(q, m) = {}
      <3>1. CASE q \in Adds(m)
        BY <3>1 DEF RowsInv, Flushers
      <3>2. CASE q \notin Adds(m)
        <4>1. y.lot = {} /\ m = M /\ q = p
          BY <1>8, <1>9, <2>1, <3>2
        <4> QED BY <1>11, <4>1
      <3> QED BY <3>1, <3>2
    <2>2. \A q \in Processes \ Fillers' : session'[q].bought = {} /\ session'[q].sold = {}
      BY <1>2, <1>3 DEF RowsInv, Flushers
    <2>3. \A q \in Processes, m \in Markets :
             /\ \A r1, r2 \in OwnRows(q, m)' : r1 = r2
             /\ q \in Adds(m)' => OwnRows(q, m)' = {}
      BY <1>5, <2>1 DEF RowsInv, Flushers
    <2>4. \A p1, q \in Fillers' : p1 = q
      BY <1>3 DEF RowsInv, Flushers
    <2> QED BY <2>2, <2>3, <2>4 DEF Flushers, Processes
  <1>13. ASSUME NEW m \in Markets PROVE Few(RowsIn(m)', Late(m)')
    <2>1. CASE y.lot = {} /\ m = M /\ p \notin Fillers
      BY <1>6, <1>9, <1>11, <2>1, FewNone
    <2>2. CASE y.lot = {} /\ m = M /\ p \in Fillers
      <3>1. IsFiniteSet(RowsIn(M)) /\ Few(RowsIn(M), Late(M)) /\ Late(M) \in SUBSET Processes
        BY <1>10, FS_Subset DEF RowsInv, Finite, Room, RowsIn, Late, Adds
      <3> QED BY <1>6, <1>9, <2>2, <3>1, FewFewer
    <2>3. CASE ~(y.lot = {} /\ m = M)
      BY <1>6, <1>8, <2>3 DEF RowsInv, Room
    <2> QED BY <2>1, <2>2, <2>3
  <1>14. ASSUME NEW h \in Fillers, NEW m \in Markets PROVE Few(RowsOf(session[h], m)', Adds(m)')
    <2>0. h \in Processes
      BY DEF Fillers
    <2>1. CASE y.lot = {} /\ m = M /\ h = p
      BY <1>5, <1>9, <2>1, FewNone
    <2>2. CASE y.lot = {} /\ m = M /\ h # p
      <3>1. p \notin Fillers
        BY <2>2 DEF RowsInv, Flushers
      <3>2. RowsOf(session[h], M) \subseteq OwnRows(h, M)
        BY <1>11, <2>2, <3>1 DEF RowsOf, RowsIn, VisibleRows, OwnRows
      <3>3. CASE OwnRows(h, M) = {}
        <4>1. RowsOf(session[h], m)' = {} /\ Adds(m)' \in SUBSET Processes
          BY <1>5, <1>9, <2>0, <2>2, <3>2, <3>3
        <4> QED BY <4>1, FewNone
      <3>4. CASE OwnRows(h, M) # {}
        <4>1. PICK r \in OwnRows(h, M) : OwnRows(h, M) = {r}
          BY <1>10, <2>0, <3>4 DEF RowsInv, Flushers
        <4>2. h \notin Adds(M)'
          BY <1>9, <1>10, <2>0, <2>2, <3>4 DEF RowsInv, Flushers
        <4>3. Few({r}, Adds(M)') /\ IsFiniteSet({r})
          <5> DEFINE waiting == Adds(M)'
          <5>1. waiting \in SUBSET (Processes \ {h})
            BY <1>9, <4>2
          <5> HIDE DEF waiting
          <5>2. Few({r}, waiting)
            BY <2>0, <5>1, FewOne
          <5> QED BY <5>2, FS_Singleton DEF waiting
        <4>4. RowsOf(session[h], m)' \in SUBSET {r} /\ Adds(m)' \in SUBSET Adds(M)'
              /\ Adds(M)' \in SUBSET Processes
          BY <1>5, <1>9, <2>0, <2>2, <3>2, <4>1
        <4> QED BY <4>3, <4>4, FewFewer
      <3> QED BY <3>3, <3>4
    <2>3. CASE ~(y.lot = {} /\ m = M)
      BY <1>5, <1>8, <2>0, <2>3 DEF RowsInv, Room
    <2> QED BY <2>1, <2>2, <2>3
  <1>15. Room'
    BY <1>3, <1>13, <1>14 DEF Room, Few, Processes
  <1> QED BY <1>4, <1>12, <1>15 DEF RowsInv

(* A flush adds the row that its process has been waiting to add. *)
LEMMA RowsFill ==
    ASSUME TypeOK, RowsInv, NEW p \in Processes, NEW y \in Session, NEW amount \in Int,
           Pays(p, y, amount)
    PROVE  RowsInv'
  <1> DEFINE x == session[p]
  <1>1. PICK new : Inserts(p, new) /\ y.bought = x.bought \cup new
    BY DEF Pays
  <1>2. /\ session' = [session EXCEPT ![p] = y] /\ session \in [Processes -> Session]
        /\ rows' = rows /\ y.fills = x.fills + 1 /\ y.sold = x.sold \cup x.doomed
        /\ y.order = {} /\ y.lot = {} /\ AccountFree(p)
    BY DEF Pays, Fills, Moves, Become, TypeOK
  <1>3. Fillers \subseteq {p} /\ Fillers' = {p}
    <2>1. y.fills # 0
      BY <1>2 DEF Session
    <2> QED BY <1>2, <2>1 DEF Fillers, AccountFree, Processes
  <1>4. \A m : /\ Adds(m) \subseteq Processes /\ Adds(m)' \subseteq Adds(m) \ {p}
              /\ Late(m)' \subseteq Late(m) /\ Late(m) \subseteq Processes
    BY <1>2 DEF Adds, Late, Processes
  <1>5. Finite'
    <2>1. IsFiniteSet(new)
      BY <1>1, FS_EmptySet, FS_Singleton DEF Inserts
    <2>2. IsFiniteSet(x.bought \cup new)
      BY <2>1, FS_Union DEF RowsInv, Finite
    <2> QED BY <1>1, <1>2, <2>2 DEF RowsInv, Finite, Processes
  <1>6. \A m : \/ OwnRows(p, m)' \subseteq OwnRows(p, m) /\ RowsOf(session[p], m)' \subseteq RowsOf(x, m)
              \/ /\ p \in Adds(m)
                 /\ \E r : /\ OwnRows(p, m)' \subseteq OwnRows(p, m) \cup {r}
                          /\ RowsOf(session[p], m)' \subseteq RowsOf(x, m) \cup {r}
    <2>1. CASE new = {}
      BY <1>1, <1>2, <2>1 DEF OwnRows, RowsOf, VisibleRows
    <2>2. CASE new # {}
      <3>1. PICK s \in x.order : \E r : new = {r} /\ r.market = MarketOf[s]
        BY <1>1, <2>2 DEF Inserts
      <3>2. PICK r : new = {r} /\ r.market = MarketOf[s]
        BY <3>1
      <3>3. p \in Adds(MarketOf[s])
        BY <1>1, <2>2, <3>1 DEF Inserts, Adds
      <3>4. ASSUME NEW m, m # MarketOf[s]
            PROVE  OwnRows(p, m)' \subseteq OwnRows(p, m) /\ RowsOf(session[p], m)' \subseteq RowsOf(x, m)
        BY <1>1, <1>2, <3>2, <3>4 DEF OwnRows, RowsOf, VisibleRows
      <3>5. /\ OwnRows(p, MarketOf[s])' \subseteq OwnRows(p, MarketOf[s]) \cup {r}
            /\ RowsOf(session[p], MarketOf[s])' \subseteq RowsOf(x, MarketOf[s]) \cup {r}
        BY <1>1, <1>2, <3>2 DEF OwnRows, RowsOf, VisibleRows
      <3> QED BY <3>3, <3>4, <3>5
    <2> QED BY <2>1, <2>2
  <1>7. Flushers'
    <2>1. ASSUME NEW q \in Processes, NEW m \in Markets
          PROVE  /\ \A r1, r2 \in OwnRows(q, m)' : r1 = r2
                 /\ q \in Adds(m)' => OwnRows(q, m)' = {}
      <3>1. CASE q # p
        <4>1. OwnRows(q, m)' = OwnRows(q, m) /\ (q \in Adds(m)' => q \in Adds(m))
          BY <1>2, <1>4, <3>1 DEF OwnRows
        <4> QED BY <4>1 DEF RowsInv, Flushers
      <3>2. CASE q = p
        <4>1. q \notin Adds(m)'
          BY <1>4, <3>2
        <4>2. p \in Adds(m) => OwnRows(p, m) = {}
          BY DEF RowsInv, Flushers
        <4>3. \A r1, r2 \in OwnRows(p, m) : r1 = r2
          BY DEF RowsInv, Flushers
        <4> QED BY <1>6, <3>2, <4>1, <4>2, <4>3
      <3> QED BY <3>1, <3>2
    <2>2. \A q \in Processes \ Fillers' : session'[q].bought = {} /\ session'[q].sold = {}
      BY <1>2, <1>3 DEF RowsInv, Flushers
    <2>3. \A q, h \in Fillers' : q = h
      BY <1>3
    <2> QED BY <2>1, <2>2, <2>3 DEF Flushers, Processes
  <1>8. ASSUME NEW m \in Markets PROVE Few(RowsIn(m)', Late(m)')
    <2>1. RowsIn(m)' = RowsIn(m) /\ IsFiniteSet(RowsIn(m))
      BY <1>2, VisibleFinite DEF RowsIn, RowsInv
    <2> QED BY <1>4, <2>1, FewFewer DEF RowsInv, Room
  <1>9. ASSUME NEW m \in Markets PROVE Few(RowsOf(session[p], m)', Adds(m)')
    <2> DEFINE seen == RowsOf(x, m)
               sees == RowsOf(session[p], m)'
               waiting == Adds(m)
               waits == Adds(m)'
    <2>1. Few(seen, waiting) /\ IsFiniteSet(seen)
      BY <1>3, FreeRoom, VisibleFinite DEF RowsInv
    <2>2. waiting \in SUBSET Processes /\ waits \in SUBSET (waiting \ {p})
      BY <1>4
    <2>3. sees \in SUBSET seen \/ (p \in waiting /\ \E r : sees \in SUBSET (seen \cup {r}))
      BY <1>6
    <2> HIDE DEF seen, sees, waiting, waits
    <2>4. ASSUME sees \in SUBSET seen PROVE Few(sees, waits)
      BY <2>1, <2>2, <2>4, FewFewer
    <2>5. ASSUME p \in waiting, \E r : sees \in SUBSET (seen \cup {r}) PROVE Few(sees, waits)
      <3>1. PICK r : sees \in SUBSET (seen \cup {r})
        BY <2>5
      <3> QED BY <2>1, <2>2, <2>5, <3>1, FewTrade
    <2>6. Few(sees, waits)
      BY <2>3, <2>4, <2>5
    <2> QED BY <2>6 DEF sees, waits
  <1>10. Room'
    BY <1>3, <1>8, <1>9 DEF Room, Few, Processes
  <1> QED BY <1>5, <1>7, <1>10 DEF RowsInv

LEMMA RowsCommit ==
    ASSUME TypeOK, RowsInv, NEW p \in Processes, Commit(p)
    PROVE  RowsInv'
  <1> DEFINE x == session[p]
  <1>1. Blank(p) /\ \A q \in Processes \ {p} : Kept(q)
    BY CommitEffect DEF Blank, Kept, Idle
  <1>2. rows' \subseteq VisibleRows(x)
    BY CommitEffect
  <1>3. CASE p \notin Fillers
    <2>1. rows' \subseteq rows
      BY <1>2, <1>3 DEF VisibleRows, RowsInv, Flushers
    <2> QED BY <1>1, <2>1, RowsKept
  <1>4. CASE p \in Fillers
    <2>1. Fillers = {p} /\ Fillers' = {}
      BY <1>1, <1>4 DEF RowsInv, Flushers, Fillers, Kept, Blank, Processes
    <2>2. Finite'
      <3>1. IsFiniteSet(rows \cup x.bought)
        BY FS_Union DEF RowsInv, Finite
      <3>2. IsFiniteSet(rows')
        BY <1>2, <3>1, FS_Subset DEF VisibleRows
      <3>3. \A q \in Processes : IsFiniteSet(session'[q].bought)
        BY <1>1, FS_EmptySet DEF RowsInv, Finite, Kept, Blank
      <3> QED BY <3>2, <3>3 DEF Finite, Processes
    <2>3. Flushers'
      <3>1. \A q \in Processes : session'[q].bought = {} /\ session'[q].sold = {}
        BY <1>1, <2>1 DEF RowsInv, Flushers, Kept, Blank
      <3>2. \A q \in Processes, m \in Markets : OwnRows(q, m)' = {}
        BY <3>1 DEF OwnRows
      <3> QED BY <2>1, <3>1, <3>2 DEF Flushers, Processes
    <2>4. ASSUME NEW m \in Markets PROVE Few(RowsIn(m)', Late(m)')
      <3>1. RowsIn(m)' \in SUBSET RowsOf(x, m)
        BY <1>2 DEF RowsIn, RowsOf
      <3>2. Late(m)' \in SUBSET Adds(m) /\ Adds(m) \in SUBSET Processes
        BY <1>1 DEF Late, Adds, Kept, Blank, Processes
      <3>3. Few(RowsOf(x, m), Adds(m)) /\ IsFiniteSet(RowsOf(x, m))
        BY <2>1, FreeRoom, VisibleFinite DEF RowsInv
      <3> QED BY <3>1, <3>2, <3>3, FewFewer
    <2>5. Room'
      BY <2>1, <2>4 DEF Room, Few, Processes
    <2> QED BY <2>2, <2>3, <2>5 DEF RowsInv
  <1> QED BY <1>3, <1>4

LEMMA RowsStep == TypeOK /\ RowsInv /\ [Next]_vars => RowsInv'
  <1> SUFFICES ASSUME TypeOK, RowsInv, [Next]_vars PROVE RowsInv'
    OBVIOUS
  <1>1. ASSUME NEW p \in Processes, NEW y, Moves(p, y),
               \/ y.fills = 0 /\ y.bought = {} /\ y.sold = {} /\ y.order = {}
               \/ /\ y.fills = session[p].fills /\ y.bought = session[p].bought
                  /\ y.sold = session[p].sold /\ y.order = session[p].order
                  /\ y.lot = session[p].lot
        PROVE  RowsInv'
    <2>1. rows' = rows /\ \A q \in Processes : Kept(q) \/ Blank(q)
      BY <1>1 DEF Moves, Become, TypeOK, Kept, Blank
    <2> QED BY <2>1, RowsKept
  <1>2. ASSUME NEW p \in Processes, Clears(p) PROVE RowsInv'
    <2>1. Idle.fills = 0 /\ Idle.bought = {} /\ Idle.sold = {} /\ Idle.order = {}
      BY DEF Idle
    <2> QED BY <1>1, <1>2, <2>1 DEF Clears
  <1>3. ASSUME NEW p \in Processes, NEW y \in Session, Opens(p, y) PROVE RowsInv'
    BY <1>1, <1>3 DEF Opens
  <1>4. ASSUME NEW p \in Processes, NEW y \in Session, Looks(p, y) PROVE RowsInv'
    <2>1. CASE Rests(p, y)
      BY <1>1, <1>4, <2>1 DEF Looks, Quiet, Rests
    <2>2. ASSUME NEW s \in Schedules, Seeks(p, y, s) PROVE RowsInv'
      BY <1>4, <2>2, RowsDecide DEF Looks, Seeks
    <2> QED BY <1>4, <2>1, <2>2 DEF Looks
  <1>5. ASSUME NEW p \in Processes, NEW y \in Session, NEW amount \in Int, Pays(p, y, amount)
        PROVE  RowsInv'
    BY <1>5, RowsFill
  <1>6. ASSUME NEW p \in Processes, Commit(p) PROVE RowsInv'
    BY <1>6, RowsCommit
  <1>7. CASE UNCHANGED <<cash, rows, session, book>>
    <2>1. rows' \subseteq rows /\ \A p \in Processes : Kept(p)
      BY <1>7 DEF Kept
    <2> QED BY <2>1, RowsKept
  <1> QED BY <1>2, <1>3, <1>4, <1>5, <1>6, <1>7, Kinds

LEMMA RowsInit == Init => RowsInv
  <1> SUFFICES ASSUME Init PROVE RowsInv
    OBVIOUS
  <1>1. rows = {} /\ \A p \in Processes : session[p] = Idle
    BY DEF Init
  <1>2. Idle.fills = 0 /\ Idle.bought = {} /\ Idle.sold = {} /\ Idle.order = {}
    BY DEF Idle
  <1>3. Fillers = {}
    BY <1>1, <1>2 DEF Fillers
  <1>4. Finite
    BY <1>1, <1>2, FS_EmptySet DEF Finite
  <1>5. Flushers
    BY <1>1, <1>2, <1>3 DEF Flushers, OwnRows
  <1>6. \A m : RowsIn(m) = {} /\ Late(m) \in SUBSET Processes
    BY <1>1 DEF RowsIn, Late, Adds
  <1>7. Room
    BY <1>3, <1>6, FewNone DEF Room
  <1> QED BY <1>4, <1>5, <1>7 DEF RowsInv

LEMMA RowsBound == RowsInv => RowsPerProcess
  <1> SUFFICES ASSUME RowsInv, NEW m \in Markets
               PROVE  Cardinality(RowsIn(m)) <= Cardinality(Processes)
    BY DEF RowsPerProcess, RowsIn
  <1>1. Few(RowsIn(m), Late(m)) /\ Late(m) \in SUBSET Processes
    BY DEF RowsInv, Room, Late, Adds
  <1>2. IsFiniteSet(RowsIn(m))
    BY FS_Subset DEF RowsInv, Finite, RowsIn
  <1>3. Cardinality(RowsIn(m)) \in Nat
    BY <1>2, FS_CardinalityType
  <1> QED BY <1>1, <1>3, ProcessesFinite DEF Few

(* The table has no unique constraint, and look-ups and insertions         *)
(* interleave; a market still gets one row per process at most.            *)
THEOREM RowsAreFew == Spec => []RowsPerProcess
  <1>1. Init => TypeOK /\ RowsInv
    BY TypeInit, RowsInit
  <1>2. TypeOK /\ RowsInv /\ [Next]_vars => (TypeOK /\ RowsInv)'
    BY TypeStep, RowsStep
  <1> QED BY <1>1, <1>2, RowsBound, PTL DEF Spec

-----------------------------------------------------------------------------
(* Rows and orders.  A session that no other fill has overtaken would      *)
(* leave no row that nobody paid for, and the position that its order      *)
(* sells is there.                                                         *)

LeftRows(x, m) == {r \in RowsOf(x, m) : r.id \notin x.doomed}

Current(p) == ~book.torn /\ session[p].task # "idle" /\ ~session[p].overtaken

Unused(p) == session[p].fills = 0 => session[p].doomed = {} /\ \A m \in Markets : session[p].net[m] = 0

Paid(p) ==
    Current(p) =>
        /\ \A m \in Markets : Cardinality(LeftRows(session[p], m)) <= book.net[m] + session[p].net[m]
        /\ \A s \in session[p].order :
              session[p].lot # {} => \E r \in RowsOf(session[p], MarketOf[s]) : session[p].lot = {r.id}

PaidInv == RowsArePaid /\ \A p \in Processes : Unused(p) /\ Paid(p)

LEMMA NetType ==
    ASSUME TypeOK, NEW p \in Processes, NEW m \in Markets
    PROVE  book.net[m] \in Int /\ session[p].net[m] \in Int
  BY DEF TypeOK, Session

LEMMA LeftFinite ==
    ASSUME TypeOK, RowsInv, NEW p \in Processes, NEW m
    PROVE  IsFiniteSet(LeftRows(session[p], m)) /\ Cardinality(LeftRows(session[p], m)) \in Nat
  <1>1. LeftRows(session[p], m) \subseteq RowsOf(session[p], m)
    BY DEF LeftRows
  <1> QED BY <1>1, VisibleFinite, FS_Subset, FS_CardinalityType DEF RowsInv

(* A session that a step leaves alone. *)
LEMMA PaidStays ==
    ASSUME PaidInv, rows' = rows, SameNet, NEW q \in Processes, session'[q] = session[q]
    PROVE  Unused(q)' /\ Paid(q)'
  <1>1. Unused(q) /\ Paid(q)
    BY DEF PaidInv
  <1>2. \A m : RowsOf(session[q], m)' = RowsOf(session[q], m) /\ LeftRows(session[q], m)' = LeftRows(session[q], m)
    BY DEF RowsOf, VisibleRows, LeftRows
  <1> QED BY <1>1, <1>2 DEF Unused, Paid, Current, SameNet

(* A step of one session: what is to be shown is about that session. *)
LEMMA PaidMoves ==
    ASSUME TypeOK, PaidInv, NEW p \in Processes, NEW y, Moves(p, y), SameNet, Unused(p)', Paid(p)'
    PROVE  PaidInv'
  <1>1. rows' = rows /\ \A q \in Processes : q # p => session'[q] = session[q]
    BY DEF TypeOK, Moves, Become
  <1>2. RowsArePaid'
    BY <1>1 DEF PaidInv, RowsArePaid, SameNet
  <1> QED BY <1>1, <1>2, PaidStays DEF PaidInv, Processes

LEMMA PaidOpens ==
    ASSUME TypeOK, PaidInv, NEW p \in Processes, NEW y \in Session, Opens(p, y)
    PROVE  PaidInv'
  <1>1. session'[p] = y /\ rows' = rows /\ SameNet /\ Moves(p, y)
    BY DEF Opens, Moves, Become, TypeOK, SameNet
  <1>2. \A m : LeftRows(session[p], m)' = {r \in rows : r.market = m}
    BY <1>1 DEF LeftRows, RowsOf, VisibleRows, Opens
  <1>3. \A m \in Markets : y.net[m] = 0
    BY DEF Opens, NoNet
  <1>4. Paid(p)'
    <2> SUFFICES ASSUME Current(p)', NEW m \in Markets
                 PROVE  Cardinality(LeftRows(session[p], m)') <= book'.net[m] + session'[p].net[m]
      BY <1>1 DEF Paid, Opens
    <2>1. Cardinality({r \in rows : r.market = m}) <= book.net[m]
      BY <1>1 DEF Current, PaidInv, RowsArePaid, SameNet
    <2>2. session'[p].net[m] = 0 /\ book'.net[m] = book.net[m] /\ book.net[m] \in Int
      BY <1>1, <1>3, NetType DEF SameNet
    <2>3. book'.net[m] + session'[p].net[m] = book.net[m]
      BY <2>2
    <2>4. Cardinality(LeftRows(session[p], m)') = Cardinality({r \in rows : r.market = m})
      BY <1>2
    <2> QED BY <2>1, <2>3, <2>4
  <1>5. Unused(p)'
    BY <1>1, <1>3 DEF Unused, Opens
  <1> QED BY <1>1, <1>4, <1>5, PaidMoves

LEMMA PaidLooks ==
    ASSUME TypeOK, PaidInv, NEW p \in Processes, NEW y \in Session, Looks(p, y)
    PROVE  PaidInv'
  <1> DEFINE x == session[p]
  <1>1. /\ session'[p] = y /\ rows' = rows /\ SameNet /\ Moves(p, y)
        /\ y.fills = x.fills /\ y.bought = x.bought /\ y.sold = x.sold /\ y.task = x.task
        /\ y.overtaken = x.overtaken /\ y.net = x.net /\ y.doomed = x.doomed
    BY DEF Looks, Quiet, Moves, Become, TypeOK
  <1>2. \A m : RowsOf(session[p], m)' = RowsOf(x, m) /\ LeftRows(session[p], m)' = LeftRows(x, m)
    BY <1>1 DEF LeftRows, RowsOf, VisibleRows
  <1>3. Unused(p) /\ Paid(p) /\ (Current(p)' => Current(p))
    BY <1>1 DEF PaidInv, Current, SameNet
  <1>4. Unused(p)'
    BY <1>1, <1>3 DEF Unused
  <1>5. ASSUME Current(p)', NEW m \in Markets
        PROVE  Cardinality(LeftRows(session[p], m)') <= book'.net[m] + session'[p].net[m]
    BY <1>1, <1>2, <1>3, <1>5 DEF Paid, SameNet
  <1>6. ASSUME Current(p)', NEW s \in y.order, y.lot # {}
        PROVE  \E r \in RowsOf(session[p], MarketOf[s])' : y.lot = {r.id}
    <2>1. CASE Rests(p, y)
      BY <1>2, <1>3, <1>6, <2>1 DEF Paid, Rests
    <2>2. ASSUME NEW k \in Schedules, Seeks(p, y, k) PROVE \E r \in RowsOf(x, MarketOf[s]) : y.lot = {r.id}
      BY <1>6, <2>2 DEF Seeks
    <2> QED BY <1>2, <2>1, <2>2 DEF Looks
  <1>7. Paid(p)'
    <2> HIDE DEF x
    <2> QED BY <1>1, <1>5, <1>6 DEF Paid
  <1> QED BY <1>1, <1>4, <1>7, PaidMoves

(* A fill: a buy leaves one row more of its market at most, and a sell one *)
(* less at least.                                                          *)
LEMMA PaidFill ==
    ASSUME TypeOK, RowsInv, PaidInv, NEW p \in Processes, NEW y \in Session, NEW amount \in Int, Pays(p, y, amount)
    PROVE  PaidInv'
  <1> DEFINE x == session[p]
  <1>1. PICK new : \E s \in Schedules :
           /\ Inserts(p, new) /\ y.bought = x.bought \cup new
           /\ \/ Gives(p, y, s) /\ \A r \in new : r.market = MarketOf[s]
              \/ Takes(p, y, s) /\ new = {}
    BY DEF Pays
  <1>2. PICK s \in Schedules :
           /\ Inserts(p, new) /\ y.bought = x.bought \cup new
           /\ \/ Gives(p, y, s) /\ \A r \in new : r.market = MarketOf[s]
              \/ Takes(p, y, s) /\ new = {}
    BY <1>1
  <1>3. /\ session'[p] = y /\ rows' = rows /\ SameNet /\ Moves(p, y)
        /\ y.fills = x.fills + 1 /\ y.sold = x.sold \cup x.doomed /\ y.order = {}
        /\ y.task = x.task /\ y.overtaken = x.overtaken
    BY DEF Pays, Fills, Moves, Become, TypeOK, SameNet
  <1>4. Unused(p)'
    BY <1>3 DEF Unused, TypeOK, Session
  <1>5. ASSUME Current(p)', NEW m \in Markets
        PROVE  Cardinality(LeftRows(session[p], m)') <= book'.net[m] + session'[p].net[m]
    <2> DEFINE before == LeftRows(x, m)
               after  == LeftRows(session[p], m)'
               M == MarketOf[s]
    <2>1. Current(p) /\ Paid(p)
      BY <1>3, <1>5 DEF PaidInv, Current, SameNet
    <2>2. Cardinality(before) <= book.net[m] + x.net[m]
      BY <2>1 DEF Paid
    <2>3. IsFiniteSet(before) /\ Cardinality(before) \in Nat
      BY LeftFinite
    <2>4. book'.net[m] = book.net[m] /\ book.net[m] \in Int /\ x.net[m] \in Int
      BY <1>3, NetType DEF SameNet
    <2>5. after \subseteq before \cup {r \in new : r.market = m}
      BY <1>2, <1>3 DEF LeftRows, RowsOf, VisibleRows
    <2>6. CASE Gives(p, y, s) /\ \A r \in new : r.market = MarketOf[s]
      <3>1. \E r : after \subseteq before \cup {r}
        BY <1>2, <2>5 DEF Inserts
      <3>2. PICK r : after \subseteq before \cup {r}
        BY <3>1
      <3>3. m # M => after \subseteq before
        BY <2>5, <2>6
      <3> HIDE DEF before, after
      <3>4. /\ IsFiniteSet(before \cup {r}) /\ Cardinality(before \cup {r}) <= Cardinality(before) + 1
            /\ Cardinality(before \cup {r}) \in Nat
        <4>1. /\ IsFiniteSet(before \cup {r})
              /\ Cardinality(before \cup {r}) = IF r \in before THEN Cardinality(before) ELSE Cardinality(before) + 1
          BY <2>3, FS_AddElement
        <4> QED BY <2>3, <4>1
      <3>5. Cardinality(after) \in Nat /\ Cardinality(after) <= Cardinality(before) + 1
        BY <2>3, <3>2, <3>4, FS_Subset, FS_CardinalityType
      <3>6. m # M => Cardinality(after) <= Cardinality(before)
        BY <2>3, <3>3, FS_Subset
      <3>7. y.net[m] = IF m = M THEN x.net[m] + 1 ELSE x.net[m]
        BY <2>6 DEF Gives, Counts
      <3>8. Cardinality(after) <= book'.net[m] + y.net[m]
        BY <2>2, <2>3, <2>4, <3>5, <3>6, <3>7
      <3> QED BY <1>3, <3>8 DEF after
    <2>7. CASE Takes(p, y, s) /\ new = {}
      <3>1. s \in x.order /\ x.lot # {} /\ x.lot \cap x.doomed = {} /\ y.doomed = x.lot
        BY <2>7 DEF Takes
      <3>2. PICK r \in RowsOf(x, M) : x.lot = {r.id}
        BY <2>1, <3>1 DEF Paid
      <3>3. m = M => r \in before
        BY <3>1, <3>2 DEF LeftRows
      <3>4. r.id \in y.doomed
        BY <3>1, <3>2
      <3>5. after \subseteq before \ {r}
        BY <1>3, <2>5, <2>7, <3>4 DEF LeftRows
      <3> HIDE DEF before, after
      <3>6. /\ IsFiniteSet(before \ {r}) /\ Cardinality(before \ {r}) \in Nat
            /\ Cardinality(before \ {r}) = IF r \in before THEN Cardinality(before) - 1 ELSE Cardinality(before)
        BY <2>3, FS_RemoveElement, FS_CardinalityType
      <3>7. Cardinality(after) \in Nat /\ Cardinality(after) <= Cardinality(before \ {r})
        BY <3>5, <3>6, FS_Subset, FS_CardinalityType
      <3>8. y.net[m] = IF m = M THEN x.net[m] + (-1) ELSE x.net[m]
        BY <2>7 DEF Takes, Counts
      <3>9. Cardinality(after) <= book'.net[m] + y.net[m]
        BY <2>2, <2>3, <2>4, <3>3, <3>6, <3>7, <3>8
      <3> QED BY <1>3, <3>9 DEF after
    <2> QED BY <1>2, <2>6, <2>7
  <1>6. Paid(p)'
    <2> HIDE DEF x
    <2> QED BY <1>3, <1>5 DEF Paid
  <1> QED BY <1>3, <1>4, <1>6, PaidMoves

(* A commit that filled publishes what its session would leave, and        *)
(* overtakes the others; one that did not changes nothing.                 *)
LEMMA PaidCommit ==
    ASSUME TypeOK, RowsInv, PaidInv, NEW p \in Processes, Commit(p), session[p].task # "idle"
    PROVE  PaidInv'
  <1> DEFINE x == session[p]
  <1>1. /\ rows' = {r \in VisibleRows(x) : r.id \notin x.doomed} /\ session'[p] = Idle
        /\ book'.torn = (book.torn \/ (x.overtaken /\ x.fills > 0))
        /\ \A m \in Markets : book'.net[m] = book.net[m] + x.net[m]
    BY CommitEffect
  <1>2. ASSUME NEW q \in Processes \ {p}
        PROVE  /\ session'[q].fills = session[q].fills /\ session'[q].bought = session[q].bought
               /\ session'[q].sold = session[q].sold /\ session'[q].order = session[q].order
               /\ session'[q].lot = session[q].lot /\ session'[q].task = session[q].task
               /\ session'[q].net = session[q].net /\ session'[q].doomed = session[q].doomed
               /\ session'[q].overtaken = (session[q].overtaken \/ (session[q].task # "idle" /\ x.fills > 0))
    BY CommitEffect
  <1>3. x.fills \in Nat
    BY DEF TypeOK, Session
  <1>4. Unused(p) /\ Paid(p)
    BY DEF PaidInv
  <1>5. Unused(p)' /\ Paid(p)'
    BY <1>1 DEF Unused, Paid, Current, Idle, NoNet
  <1>6. ASSUME NEW q \in Processes \ {p} PROVE Unused(q)'
    BY <1>2 DEF Unused, PaidInv
  <1>7. CASE x.fills = 0
    <2>1. rows' = rows
      BY <1>1, <1>4, <1>7 DEF Unused, VisibleRows, RowsInv, Flushers, Fillers
    <2>2. book'.torn = book.torn /\ \A m \in Markets : book'.net[m] = book.net[m]
      <3>1. ~(x.fills > 0) /\ book.torn \in BOOLEAN
        BY <1>3, <1>7 DEF TypeOK
      <3>2. book'.torn = book.torn
        BY <1>1, <3>1
      <3>3. ASSUME NEW m \in Markets PROVE book'.net[m] = book.net[m]
        <4>1. x.net[m] = 0 /\ book.net[m] \in Int
          BY <1>4, <1>7, NetType DEF Unused
        <4> QED BY <1>1, <4>1
      <3> QED BY <3>2, <3>3
    <2>3. RowsArePaid'
      BY <2>1, <2>2 DEF PaidInv, RowsArePaid
    <2>4. ASSUME NEW q \in Processes \ {p} PROVE Paid(q)'
      <3>1. session'[q].overtaken = session[q].overtaken
        BY <1>2, <1>3, <1>7 DEF TypeOK, Session
      <3>2. \A m : /\ RowsOf(session[q], m)' = RowsOf(session[q], m)
                   /\ LeftRows(session[q], m)' = LeftRows(session[q], m)
        BY <1>2, <2>1 DEF RowsOf, VisibleRows, LeftRows
      <3>3. Paid(q)
        BY DEF PaidInv
      <3> QED BY <1>2, <2>2, <3>1, <3>2, <3>3 DEF Paid, Current
    <2> QED BY <1>5, <1>6, <2>3, <2>4 DEF PaidInv, Processes
  <1>8. CASE x.fills > 0
    <2>1. RowsArePaid'
      <3> SUFFICES ASSUME ~book'.torn, NEW m \in Markets
                   PROVE  Cardinality({r \in rows' : r.market = m}) <= book'.net[m]
        BY DEF RowsArePaid
      <3>1. Current(p)
        BY <1>1, <1>8 DEF Current
      <3>2. {r \in rows' : r.market = m} = LeftRows(x, m)
        BY <1>1 DEF LeftRows, RowsOf
      <3>3. Cardinality(LeftRows(x, m)) <= book.net[m] + x.net[m]
        BY <1>4, <3>1 DEF Paid
      <3> QED BY <1>1, <3>2, <3>3
    <2>2. ASSUME NEW q \in Processes \ {p} PROVE Paid(q)'
      BY <1>2, <1>8 DEF Paid, Current
    <2> QED BY <1>5, <1>6, <2>1, <2>2 DEF PaidInv, Processes
  <1> QED BY <1>3, <1>7, <1>8

LEMMA PaidStep == TypeOK /\ RowsInv /\ PaidInv /\ [Next]_vars => PaidInv'
  <1> SUFFICES ASSUME TypeOK, RowsInv, PaidInv, [Next]_vars PROVE PaidInv'
    OBVIOUS
  <1>1. ASSUME NEW p \in Processes, Clears(p) PROVE PaidInv'
    <2>1. session'[p] = Idle /\ Moves(p, Idle) /\ SameNet
      BY <1>1 DEF Clears, Moves, Become, TypeOK
    <2>2. Unused(p)' /\ Paid(p)'
      BY <2>1 DEF Unused, Paid, Current, Idle, NoNet
    <2> QED BY <2>1, <2>2, PaidMoves
  <1>2. CASE UNCHANGED <<cash, rows, session, book>>
    <2>1. RowsArePaid'
      BY <1>2 DEF PaidInv, RowsArePaid
    <2> QED BY <1>2, <2>1, PaidStays DEF PaidInv, SameNet, Processes
  <1> QED BY <1>1, <1>2, PaidOpens, PaidLooks, PaidFill, PaidCommit, Kinds

LEMMA PaidInit == Init => PaidInv
  <1> SUFFICES ASSUME Init PROVE PaidInv
    OBVIOUS
  <1>1. ASSUME NEW m \in Markets PROVE Cardinality({r \in rows : r.market = m}) <= book.net[m]
    <2>1. {r \in rows : r.market = m} = {} /\ book.net[m] = 0
      BY DEF Init, NoNet
    <2> QED BY <2>1, FS_EmptySet
  <1>2. \A p \in Processes : Unused(p) /\ Paid(p)
    BY DEF Init, Unused, Paid, Current, Idle, NoNet
  <1> QED BY <1>1, <1>2 DEF PaidInv, RowsArePaid

(* Until an order is filled on a balance that another transaction has      *)
(* replaced, each position was bought and not sold since, for any number   *)
(* of processes, schedules and markets: no tick resurrects a row it sold,  *)
(* and no overlap inserts a row that no order paid for.                    *)
(* (execute_paper_step, in the ticks, runs and manual steps)               *)
THEOREM PositionsArePaid == Spec => []RowsArePaid
  <1>1. Init => TypeOK /\ RowsInv /\ PaidInv
    BY TypeInit, RowsInit, PaidInit
  <1>2. TypeOK /\ RowsInv /\ PaidInv /\ [Next]_vars => (TypeOK /\ RowsInv /\ PaidInv)'
    BY TypeStep, RowsStep, PaidStep
  <1>3. PaidInv => RowsArePaid
    BY DEF PaidInv
  <1> QED BY <1>1, <1>2, <1>3, PTL DEF Spec

=============================================================================
