-------------------------- MODULE CrewDesk_proofs --------------------------
(* Proofs about the trading desk, for every set of workers, symbols and    *)
(* theses and every amount.                                                *)
EXTENDS CrewDesk, TLAPS, WellFoundedInduction, FiniteSetTheorems

(* A task past the scan stands at a thesis: a review or a fill is always   *)
(* about the head of a list that is not empty.                             *)
Aimed == \A w \in Workers : session[w].step # "scan" => session[w].todo # {}

TypeInv == TypeOK /\ Aimed

-----------------------------------------------------------------------------
(* Sessions. *)

LEMMA HeadIsDue ==
    ASSUME NEW s \in Session, s.todo # {}
    PROVE  Head(s) \in s.todo /\ Head(s) \in ThesisIds
  <1>1. s.todo \subseteq ThesisIds /\ s.todo \subseteq Nat
    BY DeskAssumption DEF Session, DeskAssumption
  <1>2. PICK t \in s.todo : \A u \in s.todo : <<u, t>> \notin OpToRel(<, Nat)
    BY <1>1, NatLessThanWellFounded, WFMin
  <1>3. ASSUME NEW u \in s.todo PROVE t <= u
    <2>1. t \in Nat /\ u \in Nat /\ <<u, t>> \notin OpToRel(<, Nat)
      BY <1>1, <1>2
    <2>2. u < t => <<u, t>> \in OpToRel(<, Nat)
      BY <2>1, SMT DEF OpToRel
    <2>3. ~(u < t)
      BY <2>1, <2>2, Zenon
    <2> QED BY <2>3, <1>1, SMT
  <1> QED BY <1>1, <1>3 DEF Head

LEMMA IdleType == IdleSession \in Session /\ Unread \in [ThesisIds -> Thesis]
  <1>1. Blank \in Thesis
    BY DeskAssumption DEF DeskAssumption, Blank, Thesis, Statuses
  <1> QED BY <1>1 DEF IdleSession, Session, Unread

LEMMA AdvanceType ==
    ASSUME NEW s \in Session
    PROVE  Advance(s) \in Session /\ Advance(s).step = "scan"
  BY DEF Advance, Session

LEMMA LockType ==
    ASSUME NEW s \in Session, NEW t \in ThesisIds
    PROVE  Lock(s, t) \in Session
  BY DEF Lock, Session

LEMMA MarkType ==
    ASSUME NEW s \in Session, NEW t \in ThesisIds
    PROVE  [s EXCEPT !.held = @ \cup {t}, !.dirty = @ \cup {t}] \in Session
  BY DEF Session

LEMMA WriteType ==
    ASSUME NEW s \in Session, NEW t \in ThesisIds, NEW th \in Thesis
    PROVE  Write(s, t, th) \in Session
  <1> DEFINE r == [s EXCEPT !.view = [s.view EXCEPT ![t] = th]]
  <1>1. [s.view EXCEPT ![t] = th] \in [ThesisIds -> Thesis]
    BY DEF Session
  <1>2. r \in Session
    BY <1>1 DEF Session
  <1>3. Write(s, t, th) = [r EXCEPT !.held = @ \cup {t}, !.dirty = @ \cup {t}]
    BY DEF Write, Session
  <1> HIDE DEF r
  <1> QED BY <1>2, <1>3, MarkType

LEMMA BecomeType ==
    ASSUME session \in [Workers -> Session], Aimed,
           NEW w \in Workers, NEW s \in Session, s.step # "scan" => s.todo # {},
           Become(w, s)
    PROVE  session' \in [Workers -> Session] /\ Aimed'
  BY DEF Become, Aimed

LEMMA ObservedType ==
    ASSUME NEW w \in Workers, session[w] \in Session, NEW t \in ThesisIds,
           NEW s \in Observed(w, t)
    PROVE  s \in Session /\ s.todo = session[w].todo
  <1>1. s = session[w] \/ s = Lock(session[w], t)
    BY DEF Observed
  <1>2. Lock(session[w], t) \in Session /\ Lock(session[w], t).todo = session[w].todo
    BY LockType DEF Lock, Session
  <1> QED BY <1>1, <1>2

LEMMA BookedType ==
    ASSUME NEW s \in Session, NEW amount \in Int
    PROVE  [s EXCEPT !.cash = @ + amount, !.flow = @ + amount, !.fills = @ + 1] \in Session
  <1>1. s.cash + amount \in Int /\ s.flow + amount \in Int /\ s.fills + 1 \in Nat
    BY DEF Session
  <1> QED BY <1>1 DEF Session

LEMMA FillType ==
    ASSUME NEW s \in Session, s.todo # {}, NEW amount \in Int,
           NEW status \in Statuses
    PROVE  Fill(s, amount, status) \in Session
  <1> DEFINE t == Head(s)
             r == Write(s, t, [s.view[t] EXCEPT !.status = status])
  <1>1. t \in ThesisIds
    BY HeadIsDue
  <1>2. [s.view[t] EXCEPT !.status = status] \in Thesis
    BY <1>1 DEF Session, Thesis
  <1>3. r \in Session
    BY <1>1, <1>2, WriteType
  <1>4. Fill(s, amount, status) = [r EXCEPT !.cash = @ + amount, !.flow = @ + amount, !.fills = @ + 1]
    BY DEF Fill
  <1> HIDE DEF r
  <1> QED BY <1>3, <1>4, BookedType

LEMMA VisibleTheses_Type ==
    ASSUME NEW s \in Session, theses \in [ThesisIds -> Thesis]
    PROVE  VisibleTheses(s) \in [ThesisIds -> Thesis]
  BY DEF VisibleTheses, Session

LEMMA CancelledType ==
    ASSUME NEW store \in [ThesisIds -> Thesis]
    PROVE  Cancelled(store) \in [ThesisIds -> Thesis]
  BY DEF Cancelled, Thesis, Statuses

LEMMA CashAfterReset_Type ==
    ASSUME cash \in Int, NEW b \in Int
    PROVE  CashAfterReset(b) \in Int
  BY DeskAssumption DEF CashAfterReset, DeskAssumption

LEMMA CommitType ==
    ASSUME TypeInv, NEW w \in Workers, CommitSession(w)
    PROVE  /\ cash' \in Int /\ positions' \subseteq Position /\ theses' \in [ThesisIds -> Thesis]
           /\ session' \in [Workers -> Session] /\ Aimed'
           /\ UNCHANGED <<profile, lapsed, reset>>
  <1>1. session[w] \in Session
    BY DEF TypeInv, TypeOK
  <1>2. cash' \in Int
    BY <1>1 DEF TypeInv, TypeOK, CommitSession, Session
  <1>3. positions' \subseteq Position
    BY <1>1 DEF TypeInv, TypeOK, CommitSession, VisibleRows, Session
  <1>4. theses' \in [ThesisIds -> Thesis]
    BY <1>1, VisibleTheses_Type DEF TypeInv, TypeOK, CommitSession
  <1>5. IdleSession \in Session /\ IdleSession.step = "scan"
    BY IdleType DEF IdleSession
  <1>6. session' \in [Workers -> Session] /\ Aimed'
    BY <1>5, BecomeType DEF TypeInv, TypeOK, CommitSession
  <1> QED BY <1>2, <1>3, <1>4, <1>6 DEF CommitSession

-----------------------------------------------------------------------------
(* Type correctness. *)

LEMMA InitTypes == Init => TypeInv
  <1> SUFFICES ASSUME Init PROVE TypeInv
    OBVIOUS
  <1>1. session = [w \in Workers |-> IdleSession] /\ theses = Unread
    BY DEF Init
  <1>2. session \in [Workers -> Session] /\ theses \in [ThesisIds -> Thesis]
    BY <1>1, IdleType
  <1>3. profile \in Switches /\ cash \in Int /\ positions \subseteq Position /\ lapsed \subseteq ThesisIds
    BY DeskAssumption DEF Init, Switches, DeskAssumption
  <1>4. reset \in [open : BOOLEAN, rows : SUBSET RowIds, cash : Int]
    BY DEF Init, IdleReset
  <1>5. book \in [fills : Nat, flow : Int, resets : Nat, failures : Nat, torn : BOOLEAN]
    BY DEF Init
  <1>6. Aimed
    BY <1>1 DEF Aimed, IdleSession
  <1> QED BY <1>2, <1>3, <1>4, <1>5, <1>6 DEF TypeInv, TypeOK

(* A step of one worker that changes nothing but its own session. *)
LEMMA OwnStep ==
    ASSUME TypeInv, NEW w \in Workers, NEW s \in Session,
           s.step # "scan" => s.todo # {}, Become(w, s),
           UNCHANGED <<profile, cash, positions, theses, lapsed, reset, book>>
    PROVE  TypeInv'
  <1>1. session' \in [Workers -> Session] /\ Aimed'
    BY BecomeType DEF TypeInv, TypeOK
  <1> QED BY <1>1 DEF TypeInv, TypeOK, Aimed

LEMMA TickTypes ==
    ASSUME TypeInv, NEW w \in Workers,
           \/ StartTick(w) \/ ExpireThesis(w) \/ SkipThesis(w) \/ RequestReview(w)
           \/ DeclineTrade(w) \/ ApproveTrade(w) \/ RejectFill(w)
    PROVE  TypeInv'
  <1> DEFINE s == session[w]
             t == Head(s)
  <1>s. s \in Session
    BY DEF TypeInv, TypeOK
  <1>t. s.todo # {} => t \in ThesisIds
    BY <1>s, HeadIsDue
  <1>1. CASE StartTick(w)
    <2> DEFINE v == [u \in ThesisIds |-> IF u \in LiveIn(theses) THEN theses[u] ELSE Blank]
               r == [IdleSession EXCEPT !.task = "monitor", !.todo = LiveIn(theses), !.cash = cash,
                       !.lapsed = LiveIn(theses) \cap lapsed, !.view = v]
    <2>1. Blank \in Thesis
      BY DeskAssumption DEF DeskAssumption, Blank, Thesis, Statuses
    <2>2. v \in [ThesisIds -> Thesis]
      BY <2>1 DEF TypeInv, TypeOK
    <2>3. LiveIn(theses) \subseteq ThesisIds /\ cash \in Int
      BY DEF LiveIn, TypeInv, TypeOK
    <2>4. r \in Session /\ r.step = "scan"
      <3> HIDE DEF v
      <3> QED BY <2>2, <2>3, IdleType DEF Session, IdleSession
    <2>5. Become(w, r) /\ UNCHANGED <<profile, cash, positions, theses, lapsed, reset, book>>
      BY <1>1 DEF StartTick
    <2> HIDE DEF r
    <2> QED BY <2>4, <2>5, OwnStep
  <1>2. CASE ExpireThesis(w)
    <2> DEFINE r == Write(s, t, [s.view[t] EXCEPT !.status = "expired"])
    <2>1. t \in ThesisIds
      BY <1>2, <1>t DEF ExpireThesis, AtThesis
    <2>2. [s.view[t] EXCEPT !.status = "expired"] \in Thesis
      BY <2>1, <1>s DEF Session, Thesis, Statuses
    <2>3. r \in Session
      BY <1>s, <2>1, <2>2, WriteType
    <2>4. Become(w, Advance(r)) /\ UNCHANGED <<profile, cash, positions, theses, lapsed, reset, book>>
      BY <1>2 DEF ExpireThesis
    <2> HIDE DEF r
    <2> QED BY <2>3, <2>4, AdvanceType, OwnStep
  <1>3. CASE SkipThesis(w)
    <2>1. t \in ThesisIds
      BY <1>3, <1>t DEF SkipThesis, AtThesis
    <2>2. PICK r \in Observed(w, t) : Become(w, Advance(r))
      BY <1>3 DEF SkipThesis
    <2>3. r \in Session
      BY <1>s, <2>1, ObservedType
    <2>4. UNCHANGED <<profile, cash, positions, theses, lapsed, reset, book>>
      BY <1>3 DEF SkipThesis
    <2> QED BY <2>2, <2>3, <2>4, AdvanceType, OwnStep
  <1>4. CASE RequestReview(w)
    <2> DEFINE side == SideFor(s, t)
    <2>1. t \in ThesisIds /\ s.todo # {}
      BY <1>4, <1>t DEF RequestReview, AtThesis
    <2>2. PICK r \in Observed(w, t) : Become(w, [r EXCEPT !.step = "review", !.side = side])
      BY <1>4 DEF RequestReview
    <2>3. r \in Session /\ r.todo = s.todo /\ side \in {"buy", "sell"}
      BY <1>s, <2>1, ObservedType DEF SideFor
    <2>4. [r EXCEPT !.step = "review", !.side = side] \in Session
      BY <2>3 DEF Session
    <2>5. [r EXCEPT !.step = "review", !.side = side].todo # {}
      BY <2>1, <2>3 DEF Session
    <2>6. UNCHANGED <<profile, cash, positions, theses, lapsed, reset, book>>
      BY <1>4 DEF RequestReview
    <2> QED BY <2>2, <2>4, <2>5, <2>6, OwnStep
  <1>5. CASE DeclineTrade(w)
    BY <1>5, <1>s, AdvanceType, OwnStep DEF DeclineTrade
  <1>6. CASE ApproveTrade(w)
    <2> DEFINE rows == RowsOf(s, s.view[t].symbol)
    <2>1. s.todo # {}
      BY <1>6 DEF ApproveTrade, TypeInv, Aimed
    <2>2. PICK lot \in IF rows = {} THEN {{}} ELSE {{p.id} : p \in rows} :
             Become(w, [s EXCEPT !.step = "fill", !.lot = lot])
      BY <1>6 DEF ApproveTrade
    <2>3. rows \subseteq Position
      BY <1>s DEF RowsOf, VisibleRows, Session, TypeInv, TypeOK
    <2>4. lot \subseteq RowIds
      BY <2>2, <2>3 DEF Position
    <2>5. [s EXCEPT !.step = "fill", !.lot = lot] \in Session
      BY <1>s, <2>4 DEF Session
    <2>6. [s EXCEPT !.step = "fill", !.lot = lot].todo # {}
      BY <1>s, <2>1 DEF Session
    <2>7. UNCHANGED <<profile, cash, positions, theses, lapsed, reset, book>>
      BY <1>6 DEF ApproveTrade
    <2> QED BY <2>2, <2>5, <2>6, <2>7, OwnStep
  <1>7. CASE RejectFill(w)
    BY <1>7, <1>s, AdvanceType, OwnStep DEF RejectFill
  <1> QED BY <1>1, <1>2, <1>3, <1>4, <1>5, <1>6, <1>7

LEMMA FillTypes ==
    ASSUME TypeInv, NEW w \in Workers,
           FillBuy(w) \/ FillSell(w) \/ StaleFill(w) \/ AbortDeadlock(w) \/ LoseTask(w)
    PROVE  TypeInv'
  <1> DEFINE s == session[w]
  <1>s. s \in Session
    BY DEF TypeInv, TypeOK
  <1>t. s.step # "scan" => s.todo # {} /\ Head(s) \in ThesisIds
    BY <1>s, HeadIsDue DEF TypeInv, Aimed
  <1>i. IdleSession \in Session /\ IdleSession.step = "scan"
    BY IdleType DEF IdleSession
  <1>1. CASE FillBuy(w)
    <2> DEFINE sym == s.view[Head(s)].symbol
    <2>1. s.todo # {} /\ sym \in Symbols
      BY <1>1, <1>s, <1>t DEF FillBuy, FillReady, Session, Thesis
    <2>2. PICK c \in Affordable(s),
               new \in IF s.lot # {} THEN {{}} ELSE {{[id |-> r, symbol |-> sym]} : r \in RowIds \ UsedRows} :
                  Become(w, Advance([Fill(s, -c, "entry_triggered") EXCEPT !.bought = @ \cup new]))
      BY <1>1 DEF FillBuy
    <2>3. -c \in Int
      <3>1. c \in Costs /\ Costs \subseteq Nat
        BY <2>2, DeskAssumption DEF Affordable, DeskAssumption
      <3> QED BY <3>1
    <2>4. Fill(s, -c, "entry_triggered") \in Session
      BY <1>s, <2>1, <2>3, FillType DEF Statuses, Live
    <2>5. new \subseteq Position
      BY <2>1, <2>2 DEF Position
    <2>6. [Fill(s, -c, "entry_triggered") EXCEPT !.bought = @ \cup new] \in Session
      BY <2>4, <2>5 DEF Session
    <2>7. UNCHANGED <<profile, cash, positions, theses, lapsed, reset, book>>
      BY <1>1 DEF FillBuy
    <2> QED BY <2>2, <2>6, <2>7, AdvanceType, OwnStep
  <1>2. CASE FillSell(w)
    <2>1. s.todo # {}
      BY <1>2, <1>t DEF FillSell, FillReady
    <2>2. PICK p \in Proceeds : Become(w, Advance([Fill(s, p, "closed") EXCEPT !.sold = @ \cup s.lot]))
      BY <1>2 DEF FillSell
    <2>3. p \in Int
      BY DeskAssumption DEF DeskAssumption
    <2>4. Fill(s, p, "closed") \in Session
      BY <1>s, <2>1, <2>3, FillType DEF Statuses
    <2>5. [Fill(s, p, "closed") EXCEPT !.sold = @ \cup s.lot] \in Session
      BY <1>s, <2>4 DEF Session
    <2>6. UNCHANGED <<profile, cash, positions, theses, lapsed, reset, book>>
      BY <1>2 DEF FillSell
    <2> QED BY <2>2, <2>5, <2>6, AdvanceType, OwnStep
  <1>3. CASE StaleFill(w)
    BY <1>3, <1>i, OwnStep DEF StaleFill
  <1>4. CASE AbortDeadlock(w)
    BY <1>4, <1>i, OwnStep DEF AbortDeadlock
  <1>5. CASE LoseTask(w)
    <2>1. session' \in [Workers -> Session] /\ Aimed'
      BY <1>5, <1>i, BecomeType DEF LoseTask, TypeInv, TypeOK
    <2>2. book' \in [fills : Nat, flow : Int, resets : Nat, failures : Nat, torn : BOOLEAN]
      BY <1>5 DEF LoseTask, TypeInv, TypeOK
    <2> QED BY <1>5, <2>1, <2>2 DEF LoseTask, TypeInv, TypeOK
  <1> QED BY <1>1, <1>2, <1>3, <1>4, <1>5

LEMMA EndTypes ==
    ASSUME TypeInv, NEW w \in Workers,
           FinishTick(w) \/ FinishTickWithReset(w) \/ AbandonTask(w) \/ FinishResearch(w)
    PROVE  TypeInv'
  <1> DEFINE s == session[w]
             Book == [fills : Nat, flow : Int, resets : Nat, failures : Nat, torn : BOOLEAN]
  <1>s. s \in Session /\ s.fills \in Nat /\ s.flow \in Int /\ s.cash \in Int /\ book \in Book
    BY DEF TypeInv, TypeOK, Session
  <1>b. ASSUME NEW f \in Nat, NEW c \in Int, NEW n \in Nat
        PROVE  /\ [book EXCEPT !.fills = f, !.flow = c] \in Book
               /\ [book EXCEPT !.fills = f, !.flow = c, !.failures = n] \in Book
    BY <1>s
  <1>n. book.fills + s.fills \in Nat /\ book.flow + s.flow \in Int /\ book.failures + 1 \in Nat
    BY <1>s
  <1>1. CASE FinishTick(w)
    <2>1. book' \in Book
      BY <1>1, <1>s, <1>b, <1>n DEF FinishTick
    <2> QED BY <1>1, <2>1, CommitType DEF FinishTick, TypeInv, TypeOK
  <1>2. CASE FinishTickWithReset(w)
    <2>1. book' \in Book
      <3>1. book' = [book EXCEPT !.fills = book.fills + s.fills, !.flow = 0]
        BY <1>2 DEF FinishTickWithReset
      <3>2. 0 \in Int
        OBVIOUS
      <3> QED BY <3>1, <3>2, <1>b, <1>n, Zenon
    <2>2. cash' \in Int
      BY <1>2, <1>s, CashAfterReset_Type, DeskAssumption
         DEF FinishTickWithReset, TypeInv, TypeOK, DeskAssumption
    <2>3. theses' \in [ThesisIds -> Thesis]
      BY <1>2, <1>s, VisibleTheses_Type, CancelledType DEF FinishTickWithReset, TypeInv, TypeOK
    <2>4. IdleSession \in Session /\ IdleSession.step = "scan"
      BY IdleType DEF IdleSession
    <2>5. session' \in [Workers -> Session] /\ Aimed'
      BY <1>2, <2>4, BecomeType DEF FinishTickWithReset, TypeInv, TypeOK
    <2> QED BY <1>2, <2>1, <2>2, <2>3, <2>5 DEF FinishTickWithReset, TypeInv, TypeOK
  <1>3. CASE AbandonTask(w)
    <2>1. book' \in Book
      BY <1>3, <1>s, <1>b, <1>n DEF AbandonTask
    <2> QED BY <1>3, <2>1, CommitType DEF AbandonTask, TypeInv, TypeOK
  <1>4. CASE FinishResearch(w)
    BY <1>4, CommitType DEF FinishResearch, TypeInv, TypeOK
  <1> QED BY <1>1, <1>2, <1>3, <1>4

LEMMA ResearchTypes ==
    ASSUME TypeInv, NEW w \in Workers, StartResearch(w) \/ RejectIdea(w) \/ StoreThesis(w)
    PROVE  TypeInv'
  <1> DEFINE s == session[w]
  <1>s. s \in Session /\ (s.step # "scan" => s.todo # {})
    BY DEF TypeInv, TypeOK, Aimed
  <1>1. CASE StartResearch(w)
    <2>1. PICK plan \in SUBSET Symbols :
             Become(w, [IdleSession EXCEPT !.task = "research", !.plan = plan])
      BY <1>1 DEF StartResearch
    <2> DEFINE r == [IdleSession EXCEPT !.task = "research", !.plan = plan]
    <2>2. r \in Session /\ r.step = "scan"
      BY IdleType DEF Session, IdleSession
    <2>3. UNCHANGED <<profile, cash, positions, theses, lapsed, reset, book>>
      BY <1>1 DEF StartResearch
    <2> HIDE DEF r
    <2> QED BY <2>1, <2>2, <2>3, OwnStep DEF r
  <1>2. CASE RejectIdea(w)
    <2>1. PICK sym \in s.plan : Become(w, [s EXCEPT !.plan = @ \ {sym}])
      BY <1>2 DEF RejectIdea
    <2>2. [s EXCEPT !.plan = @ \ {sym}] \in Session
      BY <1>s DEF Session
    <2>3. [s EXCEPT !.plan = @ \ {sym}].step = s.step /\ [s EXCEPT !.plan = @ \ {sym}].todo = s.todo
      BY <1>s DEF Session
    <2>4. UNCHANGED <<profile, cash, positions, theses, lapsed, reset, book>>
      BY <1>2 DEF RejectIdea
    <2> QED BY <1>s, <2>1, <2>2, <2>3, <2>4, OwnStep
  <1>3. CASE StoreThesis(w)
    <2> DEFINE Stored(sym, new) ==
                 [t \in ThesisIds |->
                    IF t = new THEN [status |-> "active", symbol |-> sym]
                    ELSE IF t \in Rivals(s, sym) \cup {new}
                         THEN [VisibleTheses(s)[t] EXCEPT !.status = "superseded"]
                         ELSE s.view[t]]
               After(sym, new) ==
                 [s EXCEPT !.plan = @ \ {sym},
                           !.held = @ \cup (Rivals(s, sym) \cup {new}),
                           !.dirty = @ \cup (Rivals(s, sym) \cup {new}),
                           !.view = Stored(sym, new)]
    <2>1. PICK sym \in s.plan, new \in ThesisIds : Become(w, After(sym, new))
      BY <1>3 DEF StoreThesis
    <2>2. VisibleTheses(s) \in [ThesisIds -> Thesis] /\ s.view \in [ThesisIds -> Thesis]
      BY <1>s, VisibleTheses_Type DEF TypeInv, TypeOK, Session
    <2>3. sym \in Symbols /\ Rivals(s, sym) \subseteq ThesisIds
      BY <1>s, <2>1 DEF Session, Rivals, LiveIn
    <2>4. Stored(sym, new) \in [ThesisIds -> Thesis]
      <3>1. ASSUME NEW t \in ThesisIds PROVE Stored(sym, new)[t] \in Thesis
        BY <2>2, <2>3 DEF Thesis, Statuses, Live
      <3> QED BY <3>1
    <2>5. After(sym, new) \in Session
      <3> HIDE DEF Stored
      <3> QED BY <1>s, <2>3, <2>4 DEF Session
    <2>6. After(sym, new).step = s.step /\ After(sym, new).todo = s.todo
      BY <1>s DEF Session
    <2>7. UNCHANGED <<profile, cash, positions, theses, lapsed, reset, book>>
      BY <1>3 DEF StoreThesis
    <2> HIDE DEF After
    <2> QED BY <1>s, <2>1, <2>5, <2>6, <2>7, OwnStep
  <1> QED BY <1>1, <1>2, <1>3

LEMMA ApiTypes ==
    ASSUME TypeInv, Api \/ (\E t \in ThesisIds : PassExpiry(t))
    PROVE  TypeInv'
  <1> DEFINE Book == [fills : Nat, flow : Int, resets : Nat, failures : Nat, torn : BOOLEAN]
             ResetType == [open : BOOLEAN, rows : SUBSET RowIds, cash : Int]
  <1>1. ASSUME NEW p \in Switches, SwitchTo(p) PROVE TypeInv'
    BY <1>1 DEF SwitchTo, TypeInv, TypeOK, Aimed
  <1>2. CASE StartBot \/ PauseBot \/ UpdateAutonomy
    <2>1. PatchSwitches \subseteq Switches
      BY DeskAssumption DEF DeskAssumption
    <2> QED BY <1>1, <1>2, <2>1 DEF StartBot, PauseBot, UpdateAutonomy, Switches
  <1>3. CASE BeginReset
    <2>1. {p.id : p \in positions} \subseteq RowIds
      BY DEF TypeInv, TypeOK, Position
    <2>2. reset' \in ResetType
      BY <1>3, <2>1 DEF BeginReset, TypeInv, TypeOK
    <2> QED BY <1>3, <2>2 DEF BeginReset, TypeInv, TypeOK, Aimed
  <1>4. CASE CommitReset
    <2>1. cash' \in Int
      BY <1>4, CashAfterReset_Type DEF CommitReset, TypeInv, TypeOK
    <2>2. theses' \in [ThesisIds -> Thesis]
      BY <1>4, CancelledType DEF CommitReset, TypeInv, TypeOK
    <2>3. reset' \in ResetType
      BY <1>4 DEF CommitReset, IdleReset, TypeInv, TypeOK
    <2>4. book' \in Book
      <3>1. Overlapped \in BOOLEAN /\ book.resets + 1 \in Nat
        BY DEF Overlapped, TypeInv, TypeOK
      <3> DEFINE r == [book EXCEPT !.flow = 0, !.resets = book.resets + 1]
      <3>2. r \in Book
        <4>1. ASSUME NEW c \in Int, NEW n \in Nat, book \in Book
              PROVE  [book EXCEPT !.flow = c, !.resets = n] \in Book
          BY <4>1
        <4>2. book \in Book /\ 0 \in Int
          BY DEF TypeInv, TypeOK
        <4> QED BY <4>1, <4>2, <3>1, Zenon
      <3>3. book' = [book EXCEPT !.flow = 0, !.resets = book.resets + 1, !.torn = Overlapped]
        BY <1>4 DEF CommitReset
      <3>4. book' = [r EXCEPT !.torn = Overlapped]
        BY <3>3, Zenon DEF TypeInv, TypeOK
      <3> HIDE DEF r
      <3> QED BY <3>1, <3>2, <3>4, Zenon
    <2> QED BY <1>4, <2>1, <2>2, <2>3, <2>4 DEF CommitReset, TypeInv, TypeOK, Aimed
  <1>5. ASSUME NEW t \in ThesisIds, UpdateThesis(t) PROVE TypeInv'
    <2>1. PatchStatuses \cup {theses[t].status} \subseteq Statuses
      BY DeskAssumption DEF DeskAssumption, TypeInv, TypeOK, Thesis
    <2>2. PICK st \in PatchStatuses \cup {theses[t].status} :
             theses' = [theses EXCEPT ![t].status = st]
      BY <1>5 DEF UpdateThesis
    <2>3. [theses[t] EXCEPT !.status = st] \in Thesis
      BY <2>1, <2>2 DEF TypeInv, TypeOK, Thesis
    <2>4. theses' \in [ThesisIds -> Thesis]
      BY <2>2, <2>3 DEF TypeInv, TypeOK
    <2>5. lapsed' \subseteq ThesisIds
      BY <1>5 DEF UpdateThesis, TypeInv, TypeOK
    <2> QED BY <1>5, <2>4, <2>5 DEF UpdateThesis, TypeInv, TypeOK, Aimed
  <1>6. ASSUME NEW t \in ThesisIds, PassExpiry(t) PROVE TypeInv'
    BY <1>6 DEF PassExpiry, TypeInv, TypeOK, Aimed
  <1> QED BY <1>2, <1>3, <1>4, <1>5, <1>6 DEF Api

LEMMA StepTypes == TypeInv /\ [Next]_vars => TypeInv'
  <1> SUFFICES ASSUME TypeInv, [Next]_vars PROVE TypeInv'
    OBVIOUS
  <1>1. ASSUME NEW w \in Workers, Task(w) PROVE TypeInv'
    BY <1>1, TickTypes, FillTypes, EndTypes, ResearchTypes DEF Task, TaskStep
  <1>2. CASE UNCHANGED vars
    BY <1>2 DEF vars, TypeInv, TypeOK, Aimed
  <1> QED BY <1>1, <1>2, ApiTypes DEF Next

LEMMA DeskTypes == Spec => []TypeInv
  BY InitTypes, StepTypes, PTL DEF Spec

(* Every variable keeps its type, whatever the number of workers, symbols  *)
(* and theses.                                                             *)
THEOREM TypesHold == Spec => []TypeOK
  <1>1. TypeInv => TypeOK
    BY DEF TypeInv
  <1> QED BY <1>1, DeskTypes, PTL

-----------------------------------------------------------------------------
(* The account never owes money.                                           *)
(*                                                                         *)
(* cash >= 0 is not inductive: a tick commits the balance it computed from *)
(* the one it read, however old.  So the balance every open transaction    *)
(* believes in is part of the invariant.                                   *)
Solvent == cash >= 0 /\ \A w \in Workers : session[w].cash >= 0

(* A step of one worker that leaves the balance it believes in alone, or   *)
(* starts from one that is not negative.                                   *)
LEMMA OwnStepSolvent ==
    ASSUME TypeInv, Solvent, NEW w \in Workers, NEW s \in Session, s.cash >= 0,
           Become(w, s), UNCHANGED cash
    PROVE  Solvent'
  BY DEF Solvent, Become, TypeInv, TypeOK

(* What the helpers do to the balance a session believes in. *)
LEMMA SessionCash ==
    ASSUME NEW s \in Session
    PROVE  /\ Advance(s).cash = s.cash
           /\ \A t \in ThesisIds : Lock(s, t).cash = s.cash
           /\ \A t \in ThesisIds, th \in Thesis : Write(s, t, th).cash = s.cash
  BY DEF Session, Advance, Lock, Write

LEMMA FillCash ==
    ASSUME NEW s \in Session, s.todo # {}, NEW amount \in Int, NEW status \in Statuses
    PROVE  Fill(s, amount, status).cash = s.cash + amount
  <1> DEFINE t == Head(s)
             r == Write(s, t, [s.view[t] EXCEPT !.status = status])
  <1>1. t \in ThesisIds
    BY HeadIsDue
  <1>2. [s.view[t] EXCEPT !.status = status] \in Thesis
    BY <1>1 DEF Session, Thesis
  <1>3. r \in Session /\ r.cash = s.cash
    BY <1>1, <1>2, WriteType, SessionCash
  <1>4. Fill(s, amount, status) = [r EXCEPT !.cash = @ + amount, !.flow = @ + amount, !.fills = @ + 1]
    BY DEF Fill
  <1> HIDE DEF r
  <1> QED BY <1>3, <1>4 DEF Session

LEMMA ObservedCash ==
    ASSUME NEW w \in Workers, session[w] \in Session, NEW t \in ThesisIds, NEW s \in Observed(w, t)
    PROVE  s.cash = session[w].cash
  BY SessionCash DEF Observed

(* The steps of a tick between its start and its fills. *)
LEMMA TickSolvent ==
    ASSUME TypeInv, Solvent, NEW w \in Workers,
           \/ StartTick(w) \/ ExpireThesis(w) \/ SkipThesis(w) \/ RequestReview(w)
           \/ DeclineTrade(w) \/ ApproveTrade(w) \/ RejectFill(w)
    PROVE  Solvent'
  <1> DEFINE s == session[w]
             t == Head(s)
  <1>s. s \in Session /\ s.cash >= 0
    BY DEF TypeInv, TypeOK, Solvent
  <1>t. s.todo # {} => t \in ThesisIds
    BY <1>s, HeadIsDue
  <1>1. CASE StartTick(w)
    <2>1. cash >= 0 /\ UNCHANGED cash
      BY <1>1 DEF StartTick, Solvent
    <2>2. session'[w].cash = cash /\ \A v \in Workers \ {w} : session'[v] = session[v]
      BY <1>1 DEF StartTick, Become, IdleSession, TypeInv, TypeOK
    <2> QED BY <2>1, <2>2 DEF Solvent
  <1>2. CASE ExpireThesis(w)
    <2> DEFINE r == Write(s, t, [s.view[t] EXCEPT !.status = "expired"])
    <2>1. t \in ThesisIds
      BY <1>2, <1>t DEF ExpireThesis, AtThesis
    <2>2. [s.view[t] EXCEPT !.status = "expired"] \in Thesis
      BY <2>1, <1>s DEF Session, Thesis, Statuses
    <2>3. r \in Session /\ r.cash = s.cash
      BY <1>s, <2>1, <2>2, WriteType, SessionCash
    <2>4. Become(w, Advance(r)) /\ UNCHANGED cash
      BY <1>2 DEF ExpireThesis
    <2> HIDE DEF r
    <2> QED BY <1>s, <2>3, <2>4, AdvanceType, SessionCash, OwnStepSolvent
  <1>3. CASE SkipThesis(w)
    <2>1. t \in ThesisIds
      BY <1>3, <1>t DEF SkipThesis, AtThesis
    <2>2. PICK r \in Observed(w, t) : Become(w, Advance(r)) /\ UNCHANGED cash
      BY <1>3 DEF SkipThesis
    <2>3. r \in Session /\ r.cash = s.cash
      BY <1>s, <2>1, ObservedType, ObservedCash
    <2> QED BY <1>s, <2>2, <2>3, AdvanceType, SessionCash, OwnStepSolvent
  <1>4. CASE RequestReview(w)
    <2> DEFINE side == SideFor(s, t)
    <2>1. t \in ThesisIds
      BY <1>4, <1>t DEF RequestReview, AtThesis
    <2>2. PICK r \in Observed(w, t) : Become(w, [r EXCEPT !.step = "review", !.side = side])
      BY <1>4 DEF RequestReview
    <2>3. r \in Session /\ r.cash = s.cash /\ side \in {"buy", "sell"}
      BY <1>s, <2>1, ObservedType, ObservedCash DEF SideFor
    <2>4. [r EXCEPT !.step = "review", !.side = side] \in Session
      BY <2>3 DEF Session
    <2>5. [r EXCEPT !.step = "review", !.side = side].cash >= 0
      BY <1>s, <2>3 DEF Session
    <2>6. UNCHANGED cash
      BY <1>4 DEF RequestReview
    <2> QED BY <2>2, <2>4, <2>5, <2>6, OwnStepSolvent
  <1>5. CASE DeclineTrade(w)
    BY <1>5, <1>s, AdvanceType, SessionCash, OwnStepSolvent DEF DeclineTrade
  <1>6. CASE ApproveTrade(w)
    <2>1. PICK lot \in IF RowsOf(s, s.view[t].symbol) = {} THEN {{}}
                       ELSE {{p.id} : p \in RowsOf(s, s.view[t].symbol)} :
             Become(w, [s EXCEPT !.step = "fill", !.lot = lot])
      BY <1>6 DEF ApproveTrade
    <2>2. session'[w].cash = s.cash /\ \A v \in Workers \ {w} : session'[v] = session[v]
      BY <1>s, <2>1 DEF Become, Session, TypeInv, TypeOK
    <2>3. UNCHANGED cash
      BY <1>6 DEF ApproveTrade
    <2> QED BY <1>s, <2>2, <2>3 DEF Solvent
  <1>7. CASE RejectFill(w)
    BY <1>7, <1>s, AdvanceType, SessionCash, OwnStepSolvent DEF RejectFill
  <1> QED BY <1>1, <1>2, <1>3, <1>4, <1>5, <1>6, <1>7

LEMMA FillSolvent ==
    ASSUME TypeInv, Solvent, NEW w \in Workers,
           FillBuy(w) \/ FillSell(w) \/ StaleFill(w) \/ AbortDeadlock(w) \/ LoseTask(w)
    PROVE  Solvent'
  <1> DEFINE s == session[w]
  <1>s. s \in Session /\ s.cash >= 0 /\ s.cash \in Int
    BY DEF TypeInv, TypeOK, Solvent, Session
  <1>t. s.step # "scan" => s.todo # {}
    BY DEF TypeInv, Aimed
  <1>i. IdleSession \in Session /\ IdleSession.cash >= 0
    BY IdleType DEF IdleSession
  <1>1. CASE FillBuy(w)
    <2> DEFINE sym == s.view[Head(s)].symbol
               Bought(c, new) == [Fill(s, -c, "entry_triggered") EXCEPT !.bought = @ \cup new]
    <2>1. s.todo # {} /\ Head(s) \in ThesisIds
      BY <1>1, <1>s, <1>t, HeadIsDue DEF FillBuy, FillReady
    <2>2. PICK c \in Affordable(s),
               new \in IF s.lot # {} THEN {{}} ELSE {{[id |-> r, symbol |-> sym]} : r \in RowIds \ UsedRows} :
                  Become(w, Advance(Bought(c, new)))
      BY <1>1 DEF FillBuy
    <2>3. c \in Nat /\ c <= s.cash
      BY <2>2, DeskAssumption DEF Affordable, DeskAssumption
    <2>4. -c \in Int /\ s.cash + (-c) >= 0
      BY <1>s, <2>3
    <2>5. Fill(s, -c, "entry_triggered") \in Session /\ Fill(s, -c, "entry_triggered").cash >= 0
      BY <1>s, <2>1, <2>4, FillType, FillCash DEF Statuses, Live
    <2>6. sym \in Symbols
      BY <1>s, <2>1 DEF Session, Thesis
    <2>7. new \subseteq Position
      BY <2>2, <2>6 DEF Position
    <2>8. Bought(c, new) \in Session /\ Bought(c, new).cash >= 0
      BY <2>5, <2>7 DEF Session
    <2>9. UNCHANGED cash
      BY <1>1 DEF FillBuy
    <2> HIDE DEF Bought
    <2> QED BY <2>2, <2>8, <2>9, AdvanceType, SessionCash, OwnStepSolvent
  <1>2. CASE FillSell(w)
    <2> DEFINE Sold(p) == [Fill(s, p, "closed") EXCEPT !.sold = @ \cup s.lot]
    <2>1. s.todo # {}
      BY <1>2, <1>t DEF FillSell, FillReady
    <2>2. PICK p \in Proceeds : Become(w, Advance(Sold(p)))
      BY <1>2 DEF FillSell
    <2>3. p \in Nat
      BY DeskAssumption DEF DeskAssumption
    <2>4. p \in Int /\ s.cash + p >= 0
      BY <1>s, <2>3
    <2>5. Fill(s, p, "closed") \in Session /\ Fill(s, p, "closed").cash >= 0
      BY <1>s, <2>1, <2>4, FillType, FillCash DEF Statuses
    <2>6. Sold(p) \in Session /\ Sold(p).cash >= 0
      BY <1>s, <2>5 DEF Session
    <2>7. UNCHANGED cash
      BY <1>2 DEF FillSell
    <2> HIDE DEF Sold
    <2> QED BY <2>2, <2>6, <2>7, AdvanceType, SessionCash, OwnStepSolvent
  <1>3. CASE StaleFill(w)
    BY <1>3, <1>i, OwnStepSolvent DEF StaleFill
  <1>4. CASE AbortDeadlock(w)
    BY <1>4, <1>i, OwnStepSolvent DEF AbortDeadlock
  <1>5. CASE LoseTask(w)
    BY <1>5, <1>i, OwnStepSolvent DEF LoseTask
  <1> QED BY <1>1, <1>2, <1>3, <1>4, <1>5

(* A commit writes a balance some session believed in, or none. *)
LEMMA CommitSolvent ==
    ASSUME TypeInv, Solvent, NEW w \in Workers, CommitSession(w)
    PROVE  Solvent'
  <1>1. cash' >= 0
    BY DEF CommitSession, Solvent
  <1>2. session' = [session EXCEPT ![w] = IdleSession] /\ IdleSession.cash >= 0
    BY DEF CommitSession, Become, IdleSession
  <1> QED BY <1>1, <1>2 DEF Solvent, TypeInv, TypeOK

LEMMA EndSolvent ==
    ASSUME TypeInv, Solvent, NEW w \in Workers,
           FinishTick(w) \/ FinishTickWithReset(w) \/ AbandonTask(w) \/ FinishResearch(w)
    PROVE  Solvent'
  <1>1. CASE FinishTickWithReset(w)
    <2>1. cash' >= 0
      BY <1>1, DeskAssumption DEF FinishTickWithReset, CashAfterReset, Solvent, DeskAssumption
    <2>2. session' = [session EXCEPT ![w] = IdleSession] /\ IdleSession.cash >= 0
      BY <1>1 DEF FinishTickWithReset, Become, IdleSession
    <2> QED BY <2>1, <2>2 DEF Solvent, TypeInv, TypeOK
  <1> QED BY <1>1, CommitSolvent DEF FinishTick, AbandonTask, FinishResearch

LEMMA ResearchSolvent ==
    ASSUME TypeInv, Solvent, NEW w \in Workers, StartResearch(w) \/ RejectIdea(w) \/ StoreThesis(w)
    PROVE  Solvent'
  <1> DEFINE s == session[w]
  <1>s. s \in Session /\ s.cash >= 0
    BY DEF TypeInv, TypeOK, Solvent
  <1>1. session'[w].cash = s.cash \/ session'[w].cash = 0
    <2>1. CASE StartResearch(w)
      <3>1. PICK plan \in SUBSET Symbols :
               Become(w, [IdleSession EXCEPT !.task = "research", !.plan = plan])
        BY <2>1 DEF StartResearch
      <3>2. [IdleSession EXCEPT !.task = "research", !.plan = plan].cash = 0
        BY DEF IdleSession
      <3> QED BY <3>1, <3>2 DEF Become, TypeInv, TypeOK
    <2>2. CASE RejectIdea(w)
      BY <2>2, <1>s DEF RejectIdea, Become, TypeInv, TypeOK, Session
    <2>3. CASE StoreThesis(w)
      <3>1. PICK sym \in s.plan, new \in ThesisIds :
               LET changed == Rivals(s, sym) \cup {new} IN
               Become(w, [s EXCEPT
                 !.plan = @ \ {sym},
                 !.held = @ \cup changed, !.dirty = @ \cup changed,
                 !.view = [t \in ThesisIds |->
                             IF t = new THEN [status |-> "active", symbol |-> sym]
                             ELSE IF t \in changed
                                  THEN [VisibleTheses(s)[t] EXCEPT !.status = "superseded"]
                                  ELSE @[t]]])
        BY <2>3 DEF StoreThesis
      <3>2. ASSUME NEW a, NEW h, NEW d, NEW v
            PROVE  [s EXCEPT !.plan = a, !.held = h, !.dirty = d, !.view = v].cash = s.cash
        BY <1>s DEF Session
      <3>3. session'[w].cash = s.cash
        BY <3>1, <3>2 DEF Become, TypeInv, TypeOK
      <3> QED BY <3>3
    <2> QED BY <2>1, <2>2, <2>3
  <1>2. UNCHANGED cash /\ \A v \in Workers \ {w} : session'[v] = session[v]
    BY DEF StartResearch, RejectIdea, StoreThesis, Become, TypeInv, TypeOK
  <1> QED BY <1>s, <1>1, <1>2 DEF Solvent

LEMMA ApiSolvent ==
    ASSUME TypeInv, Solvent, Api \/ (\E t \in ThesisIds : PassExpiry(t))
    PROVE  Solvent'
  <1>1. UNCHANGED session
    BY DEF Api, StartBot, PauseBot, UpdateAutonomy, SwitchTo, BeginReset, CommitReset,
           UpdateThesis, PassExpiry
  <1>2. cash' = cash \/ cash' = Bankroll
    BY DEF Api, StartBot, PauseBot, UpdateAutonomy, SwitchTo, BeginReset, CommitReset,
           CashAfterReset, UpdateThesis, PassExpiry
  <1> QED BY <1>1, <1>2, DeskAssumption DEF Solvent, DeskAssumption

LEMMA StepSolvent == TypeInv /\ Solvent /\ [Next]_vars => Solvent'
  <1> SUFFICES ASSUME TypeInv, Solvent, [Next]_vars PROVE Solvent'
    OBVIOUS
  <1>1. ASSUME NEW w \in Workers, Task(w) PROVE Solvent'
    BY <1>1, TickSolvent, FillSolvent, EndSolvent, ResearchSolvent DEF Task, TaskStep
  <1>2. CASE UNCHANGED vars
    BY <1>2 DEF vars, Solvent
  <1> QED BY <1>1, <1>2, ApiSolvent DEF Next

(* Whatever ticks, resets and patches overlap on however many workers, and *)
(* whatever stale balance is written back, the balance is never negative.  *)
THEOREM NeverOwing == Spec => []CashNeverNegative
  <1>1. Init => Solvent
    BY DeskAssumption DEF Init, Solvent, IdleSession, DeskAssumption
  <1>2. Solvent => CashNeverNegative
    BY DEF Solvent, CashNeverNegative
  <1>3. Spec => []Solvent
    BY <1>1, DeskTypes, StepSolvent, PTL DEF Spec
  <1> QED BY <1>2, <1>3, PTL

-----------------------------------------------------------------------------
(* A limit that is checked first and used up later.                        *)
(*                                                                         *)
(* `count` is what is committed, seen[w] what worker w counts, `past` the  *)
(* workers that passed the check and have not added theirs yet.  A holder  *)
(* has uncommitted fills and holds the account, so there is one at most.   *)
(* Who passes the check has counted less than the limit; whoever passed    *)
(* before may still add one, and that is all.                              *)

Room(limit, count, seen, past, holders) ==
    /\ \A v \in Workers \ holders : seen[v] = count
    /\ count + Cardinality(past \ holders) < limit + Cardinality(Workers)
    /\ \A v \in holders :
          /\ seen[v] + Cardinality(past \ holders) < limit + Cardinality(Workers)
          /\ v \in past => seen[v] < limit
          /\ count < limit => seen[v] <= limit

LEMMA WorkersCount ==
    ASSUME NEW S \in SUBSET Workers
    PROVE  /\ IsFiniteSet(S) /\ Cardinality(S) \in Nat
           /\ Cardinality(Workers) \in Nat \ {0} /\ Cardinality(S) <= Cardinality(Workers)
           /\ \A w \in Workers \ S : Cardinality(S) < Cardinality(Workers)
           /\ \A T \in SUBSET S : Cardinality(T) \in Nat /\ Cardinality(T) <= Cardinality(S)
           /\ \A w \in S : \A T \in SUBSET (S \ {w}) : Cardinality(T) < Cardinality(S)
  <1>1. IsFiniteSet(Workers) /\ Workers # {}
    BY DeskAssumption DEF DeskAssumption
  <1>2. /\ Cardinality(Workers) \in Nat \ {0}
        /\ IsFiniteSet(S) /\ Cardinality(S) \in Nat /\ Cardinality(S) <= Cardinality(Workers)
    BY <1>1, FS_Subset, FS_CardinalityType, FS_EmptySet
  <1>3. ASSUME NEW A, IsFiniteSet(A), NEW w \in A, NEW T \in SUBSET (A \ {w})
        PROVE  Cardinality(T) < Cardinality(A)
    <2>1. IsFiniteSet(A \ {w}) /\ Cardinality(A \ {w}) = Cardinality(A) - 1
      BY <1>3, FS_RemoveElement
    <2>2. Cardinality(T) <= Cardinality(A \ {w})
      BY <2>1, FS_Subset
    <2>3. IsFiniteSet(T) /\ Cardinality(T) \in Nat /\ Cardinality(A) \in Nat
      BY <1>3, <2>1, FS_Subset, FS_CardinalityType
    <2> QED BY <2>1, <2>2, <2>3
  <1>4. ASSUME NEW w \in Workers \ S PROVE Cardinality(S) < Cardinality(Workers)
    BY <1>1, <1>3, <1>4
  <1>5. ASSUME NEW T \in SUBSET S PROVE Cardinality(T) \in Nat /\ Cardinality(T) <= Cardinality(S)
    BY <1>2, FS_Subset, FS_CardinalityType
  <1>6. ASSUME NEW w \in S, NEW T \in SUBSET (S \ {w}) PROVE Cardinality(T) < Cardinality(S)
    BY <1>2, <1>3
  <1> QED BY <1>2, <1>4, <1>5, <1>6

(* Nobody is past any check and nothing is committed. *)
LEMMA RoomEmpty ==
    ASSUME NEW limit \in Nat \ {0}, NEW seen, \A v \in Workers : seen[v] = 0
    PROVE  Room(limit, 0, seen, {}, {})
  <1>1. Cardinality({} \ {}) = 0 /\ Cardinality(Workers) \in Nat
    BY WorkersCount, FS_EmptySet
  <1> QED BY <1>1 DEF Room

(* A worker passes the check. *)
LEMMA RoomPass ==
    ASSUME NEW limit \in Nat, NEW count \in Nat, NEW seen \in [Workers -> Nat],
           NEW past \in SUBSET Workers, NEW holders \in SUBSET Workers,
           NEW w \in Workers, seen[w] < limit, Room(limit, count, seen, past, holders)
    PROVE  Room(limit, count, seen, past \cup {w}, holders)
  <1> DEFINE late == (past \cup {w}) \ holders
  <1>1. late \in SUBSET Workers /\ Cardinality(late) \in Nat /\ Cardinality(late) <= Cardinality(Workers)
        /\ Cardinality(Workers) \in Nat
    BY WorkersCount
  <1>2. CASE w \in holders
    <2>1. late = past \ holders
      BY <1>2
    <2> HIDE DEF late
    <2> QED BY <1>2, <2>1 DEF Room, late
  <1>3. CASE w \notin holders
    <2>1. count < limit
      BY <1>3 DEF Room
    <2>2. ASSUME NEW v \in holders
          PROVE  seen[v] + Cardinality(late) < limit + Cardinality(Workers)
      <3>1. Cardinality(late) < Cardinality(Workers)
        BY <1>1, WorkersCount
      <3>2. seen[v] <= limit /\ seen[v] \in Nat
        BY <2>1 DEF Room
      <3> HIDE DEF late
      <3> QED BY <1>1, <3>1, <3>2
    <2>3. count + Cardinality(late) < limit + Cardinality(Workers)
      <3> HIDE DEF late
      <3> QED BY <1>1, <2>1
    <2>4. \A v \in holders : v \in past \cup {w} => v \in past
      BY <1>3
    <2> HIDE DEF late
    <2> QED BY <2>1, <2>2, <2>3, <2>4 DEF Room, late
  <1> QED BY <1>2, <1>3

(* Workers give up, or add nothing. *)
LEMMA RoomDrop ==
    ASSUME NEW limit \in Nat, NEW count \in Nat, NEW seen \in [Workers -> Nat],
           NEW past \in SUBSET Workers, NEW holders \in SUBSET Workers,
           NEW past2 \in SUBSET past, Room(limit, count, seen, past, holders)
    PROVE  Room(limit, count, seen, past2, holders)
  <1> DEFINE late  == past \ holders
             late2 == past2 \ holders
  <1>1. late \in SUBSET Workers /\ late2 \in SUBSET late
    OBVIOUS
  <1> HIDE DEF late, late2
  <1>2. /\ Cardinality(late) \in Nat /\ Cardinality(late2) \in Nat /\ Cardinality(Workers) \in Nat
        /\ Cardinality(late2) <= Cardinality(late)
    BY <1>1, WorkersCount
  <1>3. /\ \A v \in Workers \ holders : seen[v] = count
        /\ count + Cardinality(late) < limit + Cardinality(Workers)
        /\ \A v \in holders : /\ seen[v] + Cardinality(late) < limit + Cardinality(Workers)
                              /\ v \in past => seen[v] < limit
                              /\ count < limit => seen[v] <= limit
    BY DEF Room, late
  <1>4. \A v \in holders : seen[v] \in Nat
    OBVIOUS
  <1> QED BY <1>2, <1>3, <1>4 DEF Room, late2

(* A worker that alone may hold the account fills: it counts one more if   *)
(* it was past the check, and no more otherwise.                           *)
LEMMA RoomFill ==
    ASSUME NEW limit \in Nat, NEW count \in Nat, NEW seen \in [Workers -> Nat],
           NEW past \in SUBSET Workers, NEW w \in Workers, NEW holders \in SUBSET {w},
           NEW seen2 \in [Workers -> Nat], NEW past2 \in SUBSET (past \ {w}),
           \A v \in Workers \ {w} : seen2[v] = seen[v],
           seen2[w] <= seen[w] \/ (w \in past /\ seen2[w] <= seen[w] + 1),
           Room(limit, count, seen, past, holders)
    PROVE  Room(limit, count, seen2, past2, {w})
  <1> DEFINE late  == past \ holders
             late2 == past2 \ {w}
  <1>1. late \in SUBSET Workers /\ late2 \in SUBSET (late \ {w})
    OBVIOUS
  <1>2. /\ w \in holders => late \in SUBSET (Workers \ {w})
        /\ w \in past /\ w \notin holders => w \in late
    OBVIOUS
  <1>3. /\ w \in holders => seen[w] + Cardinality(late) < limit + Cardinality(Workers)
                          /\ (w \in past => seen[w] < limit)
                          /\ (count < limit => seen[w] <= limit)
        /\ w \notin holders => seen[w] = count
        /\ count + Cardinality(late) < limit + Cardinality(Workers)
    BY DEF Room
  <1>4. \A v \in Workers \ {w} : seen2[v] = count
    BY DEF Room
  <1>5. seen[w] \in Nat /\ seen2[w] \in Nat
    OBVIOUS
  <1>6. /\ Cardinality(late) \in Nat /\ Cardinality(late2) \in Nat /\ Cardinality(Workers) \in Nat
        /\ Cardinality(late2) <= Cardinality(late)
        /\ w \in late => Cardinality(late2) < Cardinality(late)
        /\ Cardinality(late2) < Cardinality(Workers)
    <2>1. late2 \in SUBSET late /\ late2 \in SUBSET Workers /\ w \in Workers \ late2
      BY <1>1
    <2> HIDE DEF late, late2
    <2> QED BY <1>1, <2>1, WorkersCount
  <1> HIDE DEF late, late2
  <1>7. seen2[w] + Cardinality(late2) < limit + Cardinality(Workers)
    <2>1. CASE seen2[w] <= seen[w]
      BY <1>3, <1>5, <1>6, <2>1
    <2>2. CASE w \in past /\ seen2[w] <= seen[w] + 1 /\ w \in holders
      BY <1>3, <1>5, <1>6, <2>2
    <2>3. CASE w \in past /\ seen2[w] <= seen[w] + 1 /\ w \notin holders
      BY <1>2, <1>3, <1>5, <1>6, <2>3
    <2> QED BY <2>1, <2>2, <2>3
  <1>8. count < limit => seen2[w] <= limit
    <2>1. CASE w \in holders
      BY <1>3, <1>5, <2>1
    <2>2. CASE w \notin holders
      BY <1>3, <1>5, <2>2
    <2> QED BY <2>1, <2>2
  <1>9. count + Cardinality(late2) < limit + Cardinality(Workers)
    BY <1>3, <1>6
  <1> QED BY <1>4, <1>7, <1>8, <1>9 DEF Room, late2

(* The last holder is done: what it counted, or less, is committed; or     *)
(* nothing is, and what was committed stays or shrinks.                    *)
LEMMA RoomClose ==
    ASSUME NEW limit \in Nat, NEW count \in Nat, NEW seen \in [Workers -> Nat],
           NEW past \in SUBSET Workers, NEW w \in Workers, NEW holders \in SUBSET {w},
           NEW count2 \in Nat, count2 <= seen[w] \/ count2 <= count,
           NEW seen2, \A v \in Workers : seen2[v] = count2,
           NEW past2 \in SUBSET past, w \in holders => w \notin past2,
           Room(limit, count, seen, past, holders)
    PROVE  Room(limit, count2, seen2, past2, {})
  <1> DEFINE late  == past \ holders
             late2 == past2 \ {}
  <1>1. late \in SUBSET Workers /\ late2 \in SUBSET late
    OBVIOUS
  <1>2. /\ w \in holders => seen[w] + Cardinality(late) < limit + Cardinality(Workers)
        /\ w \notin holders => seen[w] = count
        /\ count + Cardinality(late) < limit + Cardinality(Workers)
        /\ seen[w] \in Nat
    BY DEF Room
  <1> HIDE DEF late, late2
  <1>3. /\ Cardinality(late) \in Nat /\ Cardinality(late2) \in Nat /\ Cardinality(Workers) \in Nat
        /\ Cardinality(late2) <= Cardinality(late)
    BY <1>1, WorkersCount
  <1>4. count2 + Cardinality(late2) < limit + Cardinality(Workers)
    BY <1>2, <1>3
  <1> QED BY <1>4 DEF Room, late2

LEMMA RoomBound ==
    ASSUME NEW limit \in Nat, NEW count \in Nat, NEW seen,
           NEW past \in SUBSET Workers, NEW holders,
           Room(limit, count, seen, past, holders)
    PROVE  count < limit + Cardinality(Workers)
  <1>1. Cardinality(past \ holders) \in Nat /\ Cardinality(Workers) \in Nat
    BY WorkersCount
  <1>2. count + Cardinality(past \ holders) < limit + Cardinality(Workers)
    BY DEF Room
  <1> QED BY <1>1, <1>2

-----------------------------------------------------------------------------
(* The kinds of steps.  What is proved below distinguishes steps by what   *)
(* they do to one session and to the tables, not by their actions.         *)

(* The symbol a review or a fill is about. *)
Target(s) == s.view[Head(s)].symbol

(* How tasks differ, and what they have not done yet. *)
SaneTask(s) ==
    /\ s.step # "scan" => s.task = "monitor"
    /\ s.task # "monitor" => s.fills = 0 /\ s.todo = {}
    /\ s.task # "research" => s.plan = {}
    /\ s.task = "idle" => s.dirty = {} /\ s.held = {} /\ s.view = Unread
    /\ s.fills = 0 => /\ s.bought = {} /\ s.sold = {} /\ s.flow = 0
                     /\ \A t \in s.dirty : s.view[t].status # "entry_triggered"
    /\ s.dirty \subseteq s.held
    /\ \A t \in s.todo \cup s.dirty : s.view[t].status # "none"

Sane == \A w \in Workers : SaneTask(session[w])

Alone(w, y) == Become(w, y) /\ UNCHANGED <<profile, cash, positions, theses, lapsed, reset, book>>

SameTask(x, y)    == y.task = x.task /\ y.plan = x.plan
SameBooks(x, y)   == /\ y.cash = x.cash /\ y.flow = x.flow /\ y.fills = x.fills
                     /\ y.bought = x.bought /\ y.sold = x.sold
SamePicture(x, y) == y.view = x.view /\ y.dirty = x.dirty /\ x.held \subseteq y.held

Relabelled(s, t, status) == [s.view EXCEPT ![t] = [s.view[t] EXCEPT !.status = status]]

Relabels(x, y, t, status) ==
    /\ t \in x.todo /\ y.todo = x.todo \ {t} /\ y.step = "scan"
    /\ y.view = Relabelled(x, t, status)
    /\ y.dirty = x.dirty \cup {t} /\ y.held = x.held \cup {t}

Opens(w, y) ==
    /\ session[w].task = "idle" /\ Alone(w, y)
    /\ y.step = "scan" /\ y.fills = 0 /\ y.flow = 0 /\ y.bought = {} /\ y.sold = {}
    /\ y.dirty = {} /\ y.held = {}
    /\ \/ /\ y.task = "monitor" /\ y.cash = cash /\ y.plan = {} /\ y.todo = LiveIn(theses)
          /\ y.view = [t \in ThesisIds |-> IF t \in LiveIn(theses) THEN theses[t] ELSE Blank]
       \/ y.task = "research" /\ y.todo = {} /\ y.view = Unread

Looks(w, y) ==
    LET x == session[w] IN
    /\ x.task = "monitor" /\ Alone(w, y)
    /\ SameTask(x, y) /\ SameBooks(x, y) /\ SamePicture(x, y) /\ y.todo \subseteq x.todo
    /\ \/ y.step = "scan"
       \/ x.step = "scan" /\ y.step = "review" /\ GuardrailsPass(x, y.side)
       \/ /\ x.step = "review" /\ y.step = "fill" /\ y.side = x.side /\ y.todo = x.todo
          /\ \/ y.lot = {} /\ RowsOf(x, Target(x)) = {}
             \/ \E p \in RowsOf(x, Target(x)) : y.lot = {p.id}

Expires(w, y, t) ==
    /\ session[w].task = "monitor" /\ Alone(w, y)
    /\ SameTask(session[w], y) /\ SameBooks(session[w], y)
    /\ Relabels(session[w], y, t, "expired")

Pays(w, y, amount) ==
    LET x == session[w] IN
    /\ Alone(w, y) /\ x.step = "fill" /\ AccountFree(w) /\ LotStored(x) /\ SameTask(x, y)
    /\ y.cash = x.cash + amount /\ y.flow = x.flow + amount /\ y.fills = x.fills + 1

Buys(w, y, amount, new) ==
    LET x == session[w] IN
    /\ x.side = "buy" /\ Pays(w, y, amount)
    /\ Relabels(x, y, Head(x), "entry_triggered")
    /\ y.sold = x.sold /\ y.bought = x.bought \cup new
    /\ \/ x.lot # {} /\ new = {}
       \/ x.lot = {} /\ \E r \in RowIds \ UsedRows : new = {[id |-> r, symbol |-> Target(x)]}

Sells(w, y, amount) ==
    LET x == session[w] IN
    /\ x.side = "sell" /\ Pays(w, y, amount)
    /\ Relabels(x, y, Head(x), "closed")
    /\ y.bought = x.bought /\ y.sold = x.sold \cup x.lot

Plans(w, y) ==
    /\ session[w].task = "research" /\ Alone(w, y)
    /\ y.task = "research" /\ y.step = session[w].step /\ y.todo = session[w].todo
    /\ SameBooks(session[w], y) /\ SamePicture(session[w], y)

Drafts(w, y, sym, new) ==
    LET x == session[w]  changed == Rivals(x, sym) \cup {new} IN
    /\ x.task = "research" /\ Alone(w, y)
    /\ y.task = "research" /\ y.step = x.step /\ y.todo = x.todo /\ SameBooks(x, y)
    /\ UnusedThesis(new) /\ \A t \in Rivals(x, sym) : ThesisFree(w, t)
    /\ y.dirty = x.dirty \cup changed /\ y.held = x.held \cup changed
    /\ y.view = [t \in ThesisIds |->
                   IF t = new THEN [status |-> "active", symbol |-> sym]
                   ELSE IF t \in changed THEN [VisibleTheses(x)[t] EXCEPT !.status = "superseded"]
                   ELSE x.view[t]]

Clears(w) ==
    /\ Become(w, IdleSession) /\ UNCHANGED <<profile, cash, positions, theses, lapsed, reset>>
    /\ book'.fills = book.fills /\ book'.flow = book.flow /\ book'.torn = book.torn

Commits(w) ==
    /\ session[w].task # "idle" /\ session[w].step = "scan" /\ CommitSession(w)
    /\ book'.fills = book.fills + session[w].fills /\ book'.flow = book.flow + session[w].flow
    /\ book'.torn = book.torn

Tables == <<cash, positions, theses, session, book>>

TaskKind(w) ==
    \/ \E y \in Session :
          \/ Opens(w, y) \/ Looks(w, y) \/ Plans(w, y)
          \/ \E t \in ThesisIds : Expires(w, y, t)
          \/ \E c \in Costs : \E new \in SUBSET Position : Buys(w, y, -c, new)
          \/ \E p \in Proceeds : Sells(w, y, p)
          \/ \E sym \in Symbols, new \in ThesisIds : Drafts(w, y, sym, new)
    \/ Clears(w) \/ Commits(w) \/ FinishTickWithReset(w)

LEMMA AdvanceFields ==
    ASSUME NEW s \in Session
    PROVE  /\ Advance(s).step = "scan" /\ Advance(s).todo = s.todo \ {Head(s)}
           /\ SameTask(s, Advance(s)) /\ SameBooks(s, Advance(s)) /\ SamePicture(s, Advance(s))
           /\ Advance(s).held = s.held
  BY DEF Advance, Session, SameTask, SameBooks, SamePicture

LEMMA ObservedFields ==
    ASSUME NEW w \in Workers, session[w] \in Session, NEW t \in ThesisIds, NEW s \in Observed(w, t)
    PROVE  /\ SameTask(session[w], s) /\ SameBooks(session[w], s) /\ SamePicture(session[w], s)
           /\ s.todo = session[w].todo
  <1>1. /\ SameTask(session[w], Lock(session[w], t)) /\ SameBooks(session[w], Lock(session[w], t))
        /\ SamePicture(session[w], Lock(session[w], t))
        /\ Lock(session[w], t).todo = session[w].todo
    BY DEF Lock, Session, SameTask, SameBooks, SamePicture
  <1>2. /\ SameTask(session[w], session[w]) /\ SameBooks(session[w], session[w])
        /\ SamePicture(session[w], session[w])
    BY DEF SameTask, SameBooks, SamePicture
  <1> QED BY <1>1, <1>2 DEF Observed

LEMMA WriteFields ==
    ASSUME NEW s \in Session, NEW t \in ThesisIds, NEW status \in Statuses
    PROVE  LET r == Write(s, t, [s.view[t] EXCEPT !.status = status]) IN
           /\ r \in Session /\ SameTask(s, r) /\ SameBooks(s, r) /\ r.todo = s.todo
           /\ r.view = Relabelled(s, t, status)
           /\ r.dirty = s.dirty \cup {t} /\ r.held = s.held \cup {t}
           /\ r.lot = s.lot
  <1>1. [s.view[t] EXCEPT !.status = status] \in Thesis
    BY DEF Session, Thesis
  <1>2. Write(s, t, [s.view[t] EXCEPT !.status = status]) \in Session
    BY <1>1, WriteType
  <1>3. ASSUME NEW th
        PROVE  LET r == Write(s, t, th) IN
               /\ SameTask(s, r) /\ SameBooks(s, r) /\ r.todo = s.todo
               /\ r.view = [s.view EXCEPT ![t] = th]
               /\ r.dirty = s.dirty \cup {t} /\ r.held = s.held \cup {t} /\ r.lot = s.lot
    BY DEF Write, Session, SameTask, SameBooks
  <1> QED BY <1>2, <1>3 DEF Relabelled

LEMMA FillFields ==
    ASSUME NEW s \in Session, s.todo # {}, NEW amount \in Int, NEW status \in Statuses
    PROVE  LET r == Fill(s, amount, status) IN
           /\ r \in Session /\ SameTask(s, r) /\ r.todo = s.todo
           /\ r.view = Relabelled(s, Head(s), status)
           /\ r.dirty = s.dirty \cup {Head(s)} /\ r.held = s.held \cup {Head(s)}
           /\ r.cash = s.cash + amount /\ r.flow = s.flow + amount /\ r.fills = s.fills + 1
           /\ r.bought = s.bought /\ r.sold = s.sold
  <1> DEFINE t == Head(s)
             q == Write(s, t, [s.view[t] EXCEPT !.status = status])
             r == Fill(s, amount, status)
  <1>1. t \in ThesisIds
    BY HeadIsDue
  <1>2. /\ q \in Session /\ SameTask(s, q) /\ SameBooks(s, q) /\ q.todo = s.todo
        /\ q.view = Relabelled(s, t, status)
        /\ q.dirty = s.dirty \cup {t} /\ q.held = s.held \cup {t}
    BY <1>1, WriteFields
  <1>3. r = [q EXCEPT !.cash = @ + amount, !.flow = @ + amount, !.fills = @ + 1]
    BY DEF Fill
  <1>4. r \in Session
    BY FillType
  <1> HIDE DEF q
  <1>5. /\ r.task = q.task /\ r.plan = q.plan /\ r.todo = q.todo /\ r.view = q.view
        /\ r.dirty = q.dirty /\ r.held = q.held /\ r.bought = q.bought /\ r.sold = q.sold
        /\ r.cash = q.cash + amount /\ r.flow = q.flow + amount /\ r.fills = q.fills + 1
    BY <1>2, <1>3 DEF Session
  <1> HIDE DEF r
  <1>6. SameTask(s, r)
    BY <1>2, <1>5 DEF SameTask
  <1> QED BY <1>2, <1>4, <1>5, <1>6 DEF SameBooks, r

LEMMA Became ==
    ASSUME TypeInv, TypeInv', NEW w \in Workers, NEW y, Become(w, y)
    PROVE  /\ session'[w] = y /\ y \in Session /\ session[w] \in Session
           /\ \A v \in Workers \ {w} : session'[v] = session[v]
  BY DEF Become, TypeInv, TypeOK

LEMMA OpenKinds ==
    ASSUME TypeInv, TypeInv', Sane, NEW w \in Workers, StartTick(w) \/ StartResearch(w)
    PROVE  TaskKind(w)
  <1>1. CASE StartTick(w)
    <2> DEFINE v == [t \in ThesisIds |-> IF t \in LiveIn(theses) THEN theses[t] ELSE Blank]
               y == [IdleSession EXCEPT !.task = "monitor", !.todo = LiveIn(theses), !.cash = cash,
                       !.lapsed = LiveIn(theses) \cap lapsed, !.view = v]
    <2>1. session[w].task = "idle" /\ Alone(w, y)
      BY <1>1 DEF StartTick, Alone
    <2>2. /\ y.task = "monitor" /\ y.step = "scan" /\ y.fills = 0 /\ y.flow = 0 /\ y.bought = {}
          /\ y.sold = {} /\ y.dirty = {} /\ y.held = {} /\ y.cash = cash /\ y.plan = {}
          /\ y.todo = LiveIn(theses) /\ y.view = v
      BY DEF IdleSession
    <2>3. y \in Session
      BY <2>1, Became DEF Alone
    <2> HIDE DEF y
    <2>4. Opens(w, y)
      BY <2>1, <2>2 DEF Opens
    <2> QED BY <2>3, <2>4 DEF TaskKind
  <1>2. CASE StartResearch(w)
    <2>1. PICK plan \in SUBSET Symbols :
             Alone(w, [IdleSession EXCEPT !.task = "research", !.plan = plan])
      BY <1>2 DEF StartResearch, Alone
    <2> DEFINE y == [IdleSession EXCEPT !.task = "research", !.plan = plan]
    <2>2. /\ y.task = "research" /\ y.step = "scan" /\ y.fills = 0 /\ y.flow = 0 /\ y.bought = {}
          /\ y.sold = {} /\ y.dirty = {} /\ y.held = {} /\ y.todo = {} /\ y.view = Unread
      BY DEF IdleSession
    <2>3. y \in Session
      BY <2>1, Became DEF Alone
    <2>4. session[w].task = "idle" /\ Alone(w, y)
      BY <1>2, <2>1 DEF StartResearch
    <2> HIDE DEF y
    <2>5. Opens(w, y)
      BY <2>2, <2>4 DEF Opens
    <2> QED BY <2>3, <2>5 DEF TaskKind
  <1> QED BY <1>1, <1>2

(* A step of a tick that keeps the picture and the books. *)
LEMMA LookKinds ==
    ASSUME TypeInv, TypeInv', Sane, NEW w \in Workers,
           SkipThesis(w) \/ RequestReview(w) \/ DeclineTrade(w) \/ ApproveTrade(w) \/ RejectFill(w)
    PROVE  TaskKind(w)
  <1> DEFINE x == session[w]
             t == Head(x)
  <1>s. x \in Session /\ (x.todo # {} => t \in ThesisIds /\ t \in x.todo)
    BY HeadIsDue DEF TypeInv, TypeOK
  <1>m. x.task = "monitor"
    BY DEF Sane, SaneTask, SkipThesis, RequestReview, AtThesis, DeclineTrade, ApproveTrade, RejectFill
  <1>k. ASSUME NEW y, Alone(w, y), SameTask(x, y), SameBooks(x, y), SamePicture(x, y),
               y.todo \subseteq x.todo,
               \/ y.step = "scan"
               \/ x.step = "scan" /\ y.step = "review" /\ GuardrailsPass(x, y.side)
               \/ /\ x.step = "review" /\ y.step = "fill" /\ y.side = x.side /\ y.todo = x.todo
                  /\ \/ y.lot = {} /\ RowsOf(x, Target(x)) = {}
                     \/ \E p \in RowsOf(x, Target(x)) : y.lot = {p.id}
        PROVE  TaskKind(w)
    <2>1. y \in Session
      BY <1>k, Became DEF Alone
    <2>2. Looks(w, y)
      BY <1>k, <1>m DEF Looks
    <2> QED BY <2>1, <2>2 DEF TaskKind
  <1>1. CASE SkipThesis(w)
    <2>1. t \in ThesisIds
      BY <1>1, <1>s DEF SkipThesis, AtThesis
    <2>2. PICK r \in Observed(w, t) : Alone(w, Advance(r))
      BY <1>1 DEF SkipThesis, Alone
    <2>3. /\ r \in Session /\ SameTask(x, r) /\ SameBooks(x, r) /\ SamePicture(x, r)
          /\ r.todo = x.todo
      BY <1>s, <2>1, ObservedType, ObservedFields
    <2>4. /\ SameTask(x, Advance(r)) /\ SameBooks(x, Advance(r)) /\ SamePicture(x, Advance(r))
          /\ Advance(r).todo \subseteq x.todo /\ Advance(r).step = "scan"
      BY <2>3, AdvanceFields DEF SameTask, SameBooks, SamePicture
    <2> QED BY <2>2, <2>4, <1>k
  <1>2. CASE RequestReview(w)
    <2> DEFINE side == SideFor(x, t)
    <2>1. t \in ThesisIds
      BY <1>2, <1>s DEF RequestReview, AtThesis
    <2>2. PICK r \in Observed(w, t) : Alone(w, [r EXCEPT !.step = "review", !.side = side])
      BY <1>2 DEF RequestReview, Alone
    <2> DEFINE y == [r EXCEPT !.step = "review", !.side = side]
    <2>3. /\ r \in Session /\ SameTask(x, r) /\ SameBooks(x, r) /\ SamePicture(x, r)
          /\ r.todo = x.todo
      BY <1>s, <2>1, ObservedType, ObservedFields
    <2>4. /\ SameTask(x, y) /\ SameBooks(x, y) /\ SamePicture(x, y)
          /\ y.todo = x.todo /\ y.step = "review" /\ y.side = side
      BY <2>3 DEF Session, SameTask, SameBooks, SamePicture
    <2>5. x.step = "scan" /\ GuardrailsPass(x, side)
      BY <1>2 DEF RequestReview, AtThesis
    <2> HIDE DEF y, side
    <2> QED BY <2>2, <2>4, <2>5, <1>k DEF y
  <1>3. CASE DeclineTrade(w)
    <2>1. Alone(w, Advance(x))
      BY <1>3 DEF DeclineTrade, Alone
    <2> QED BY <1>s, <2>1, AdvanceFields, <1>k
  <1>4. CASE ApproveTrade(w)
    <2> DEFINE rows == RowsOf(x, Target(x))
    <2>1. PICK lot \in IF rows = {} THEN {{}} ELSE {{p.id} : p \in rows} :
             Alone(w, [x EXCEPT !.step = "fill", !.lot = lot])
      BY <1>4 DEF ApproveTrade, Alone, Target
    <2> DEFINE y == [x EXCEPT !.step = "fill", !.lot = lot]
    <2>2. /\ SameTask(x, y) /\ SameBooks(x, y) /\ SamePicture(x, y)
          /\ y.todo = x.todo /\ y.step = "fill" /\ y.side = x.side /\ y.lot = lot
      BY <1>s DEF Session, SameTask, SameBooks, SamePicture
    <2>3. (lot = {} /\ rows = {}) \/ \E p \in rows : lot = {p.id}
      BY <2>1
    <2>4. x.step = "review"
      BY <1>4 DEF ApproveTrade
    <2> HIDE DEF y, rows
    <2> QED BY <2>1, <2>2, <2>3, <2>4, <1>k DEF y, rows
  <1>5. CASE RejectFill(w)
    <2>1. Alone(w, Advance(x))
      BY <1>5 DEF RejectFill, Alone
    <2> QED BY <1>s, <2>1, AdvanceFields, <1>k
  <1> QED BY <1>1, <1>2, <1>3, <1>4, <1>5

(* A step of a tick that gives a thesis a new status. *)
LEMMA LabelKinds ==
    ASSUME TypeInv, TypeInv', Sane, NEW w \in Workers,
           ExpireThesis(w) \/ FillBuy(w) \/ FillSell(w)
    PROVE  TaskKind(w)
  <1> DEFINE x == session[w]
             t == Head(x)
  <1>s. x \in Session /\ x.todo # {} /\ t \in ThesisIds /\ t \in x.todo
    BY HeadIsDue DEF TypeInv, TypeOK, Aimed, ExpireThesis, AtThesis, FillBuy, FillSell, FillReady
  <1>1. CASE ExpireThesis(w)
    <2> DEFINE r == Write(x, t, [x.view[t] EXCEPT !.status = "expired"])
               y == Advance(r)
    <2>1. /\ r \in Session /\ SameTask(x, r) /\ SameBooks(x, r) /\ r.todo = x.todo
          /\ r.view = Relabelled(x, t, "expired")
          /\ r.dirty = x.dirty \cup {t} /\ r.held = x.held \cup {t}
      BY <1>s, WriteFields DEF Statuses
    <2>2. Alone(w, y) /\ x.task = "monitor"
      BY <1>1 DEF ExpireThesis, AtThesis, Alone
    <2>3. Head(r) = t
      BY <2>1 DEF Head
    <2> HIDE DEF r
    <2>4. SameTask(x, y) /\ SameBooks(x, y) /\ Relabels(x, y, t, "expired")
      BY <1>s, <2>1, <2>3, AdvanceFields DEF SameTask, SameBooks, SamePicture, Relabels
    <2>5. y \in Session
      BY <2>1, AdvanceType
    <2>6. Expires(w, y, t)
      BY <2>2, <2>4 DEF Expires
    <2> QED BY <1>s, <2>5, <2>6 DEF TaskKind
  <1>2. CASE FillBuy(w)
    <2> DEFINE sym == Target(x)
               Bought(c, new) == [Fill(x, -c, "entry_triggered") EXCEPT !.bought = @ \cup new]
    <2>1. PICK c \in Affordable(x),
               new \in IF x.lot # {} THEN {{}} ELSE {{[id |-> r, symbol |-> sym]} : r \in RowIds \ UsedRows} :
                  Alone(w, Advance(Bought(c, new)))
      BY <1>2 DEF FillBuy, Target, Alone
    <2>2. c \in Costs /\ -c \in Int
      <3>1. c \in Costs /\ Costs \subseteq Nat
        BY <2>1, DeskAssumption DEF Affordable, DeskAssumption
      <3> QED BY <3>1
    <2> DEFINE r == Fill(x, -c, "entry_triggered")
               y == Advance(Bought(c, new))
    <2>3. /\ r \in Session /\ SameTask(x, r) /\ r.todo = x.todo
          /\ r.view = Relabelled(x, t, "entry_triggered")
          /\ r.dirty = x.dirty \cup {t} /\ r.held = x.held \cup {t}
          /\ r.cash = x.cash + (-c) /\ r.flow = x.flow + (-c) /\ r.fills = x.fills + 1
          /\ r.bought = x.bought /\ r.sold = x.sold
      BY <1>s, <2>2, FillFields DEF Statuses, Live
    <2>4. sym \in Symbols
      BY <1>s DEF Session, Thesis, Target
    <2>5. /\ new \subseteq Position
          /\ \/ x.lot # {} /\ new = {}
             \/ x.lot = {} /\ \E q \in RowIds \ UsedRows : new = {[id |-> q, symbol |-> sym]}
      BY <2>1, <2>4 DEF Position
    <2> HIDE DEF r, sym
    <2>6. /\ Bought(c, new) \in Session /\ SameTask(r, Bought(c, new)) /\ SamePicture(r, Bought(c, new))
          /\ Bought(c, new).held = r.held /\ Bought(c, new).todo = r.todo
          /\ Bought(c, new).cash = r.cash /\ Bought(c, new).flow = r.flow
          /\ Bought(c, new).fills = r.fills /\ Bought(c, new).sold = r.sold
          /\ Bought(c, new).bought = r.bought \cup new
      BY <2>3, <2>5 DEF Session, SameTask, SamePicture, r
    <2>7. Head(Bought(c, new)) = t
      BY <2>3, <2>6 DEF Head
    <2> DEFINE b == Bought(c, new)
    <2> HIDE DEF Bought, b
    <2>8. b \in Session /\ y = Advance(b)
      BY <2>6 DEF b
    <2>9. /\ y \in Session /\ SameTask(x, y) /\ Relabels(x, y, t, "entry_triggered")
          /\ y.cash = x.cash + (-c) /\ y.flow = x.flow + (-c) /\ y.fills = x.fills + 1
          /\ y.sold = x.sold /\ y.bought = x.bought \cup new
      <3>1. /\ Advance(b).step = "scan" /\ Advance(b).todo = b.todo \ {Head(b)}
            /\ SameTask(b, Advance(b)) /\ SameBooks(b, Advance(b)) /\ SamePicture(b, Advance(b))
            /\ Advance(b).held = b.held
        BY <2>8, AdvanceFields
      <3>2. Advance(b) \in Session
        BY <2>8, AdvanceType
      <3> QED BY <1>s, <2>3, <2>6, <2>7, <2>8, <3>1, <3>2
              DEF SameTask, SameBooks, SamePicture, Relabels, b
    <2> HIDE DEF y
    <2>10. Alone(w, y) /\ x.step = "fill" /\ AccountFree(w) /\ LotStored(x) /\ x.side = "buy"
      BY <1>2, <2>1 DEF FillBuy, FillReady, y
    <2>11. Pays(w, y, -c)
      BY <2>9, <2>10 DEF Pays
    <2>12. Buys(w, y, -c, new)
      BY <2>5, <2>9, <2>10, <2>11 DEF Buys, sym
    <2> QED BY <2>2, <2>5, <2>9, <2>12 DEF TaskKind
  <1>3. CASE FillSell(w)
    <2> DEFINE Sold(p) == [Fill(x, p, "closed") EXCEPT !.sold = @ \cup x.lot]
    <2>1. PICK p \in Proceeds : Alone(w, Advance(Sold(p)))
      BY <1>3 DEF FillSell, Alone
    <2>2. p \in Int
      BY DeskAssumption DEF DeskAssumption
    <2> DEFINE r == Fill(x, p, "closed")
               y == Advance(Sold(p))
    <2>3. /\ r \in Session /\ SameTask(x, r) /\ r.todo = x.todo
          /\ r.view = Relabelled(x, t, "closed")
          /\ r.dirty = x.dirty \cup {t} /\ r.held = x.held \cup {t}
          /\ r.cash = x.cash + p /\ r.flow = x.flow + p /\ r.fills = x.fills + 1
          /\ r.bought = x.bought /\ r.sold = x.sold
      BY <1>s, <2>2, FillFields DEF Statuses
    <2> HIDE DEF r
    <2>6. /\ Sold(p) \in Session /\ SameTask(r, Sold(p)) /\ SamePicture(r, Sold(p))
          /\ Sold(p).held = r.held /\ Sold(p).todo = r.todo
          /\ Sold(p).cash = r.cash /\ Sold(p).flow = r.flow
          /\ Sold(p).fills = r.fills /\ Sold(p).bought = r.bought
          /\ Sold(p).sold = r.sold \cup x.lot
      BY <1>s, <2>3 DEF Session, SameTask, SamePicture, r
    <2>7. Head(Sold(p)) = t
      BY <2>3, <2>6 DEF Head
    <2> DEFINE b == Sold(p)
    <2> HIDE DEF Sold, b
    <2>8. b \in Session /\ y = Advance(b)
      BY <2>6 DEF b
    <2>9. /\ y \in Session /\ SameTask(x, y) /\ Relabels(x, y, t, "closed")
          /\ y.cash = x.cash + p /\ y.flow = x.flow + p /\ y.fills = x.fills + 1
          /\ y.bought = x.bought /\ y.sold = x.sold \cup x.lot
      <3>1. /\ Advance(b).step = "scan" /\ Advance(b).todo = b.todo \ {Head(b)}
            /\ SameTask(b, Advance(b)) /\ SameBooks(b, Advance(b)) /\ SamePicture(b, Advance(b))
            /\ Advance(b).held = b.held
        BY <2>8, AdvanceFields
      <3>2. Advance(b) \in Session
        BY <2>8, AdvanceType
      <3> QED BY <1>s, <2>3, <2>6, <2>7, <2>8, <3>1, <3>2
              DEF SameTask, SameBooks, SamePicture, Relabels, b
    <2> HIDE DEF y
    <2>10. Alone(w, y) /\ x.step = "fill" /\ AccountFree(w) /\ LotStored(x) /\ x.side = "sell"
      BY <1>3, <2>1 DEF FillSell, FillReady, y
    <2>11. Pays(w, y, p)
      BY <2>9, <2>10 DEF Pays
    <2>12. Sells(w, y, p)
      BY <2>9, <2>10, <2>11 DEF Sells
    <2> QED BY <2>9, <2>12 DEF TaskKind
  <1> QED BY <1>1, <1>2, <1>3

LEMMA ResearchKinds ==
    ASSUME TypeInv, TypeInv', Sane, NEW w \in Workers, RejectIdea(w) \/ StoreThesis(w)
    PROVE  TaskKind(w)
  <1> DEFINE x == session[w]
  <1>s. x \in Session /\ SaneTask(x)
    BY DEF TypeInv, TypeOK, Sane
  <1>1. CASE RejectIdea(w)
    <2>1. PICK sym \in x.plan : Alone(w, [x EXCEPT !.plan = @ \ {sym}])
      BY <1>1 DEF RejectIdea, Alone
    <2> DEFINE y == [x EXCEPT !.plan = @ \ {sym}]
    <2>2. x.task = "research"
      BY <1>s, <2>1 DEF SaneTask
    <2>3. /\ y.task = "research" /\ y.step = x.step /\ y.todo = x.todo
          /\ SameBooks(x, y) /\ SamePicture(x, y)
      BY <1>s, <2>2 DEF Session, SameBooks, SamePicture
    <2>4. y \in Session
      BY <2>1, Became DEF Alone
    <2> HIDE DEF y
    <2>5. Plans(w, y)
      BY <2>1, <2>2, <2>3 DEF Plans, y
    <2> QED BY <2>4, <2>5 DEF TaskKind
  <1>2. CASE StoreThesis(w)
    <2> DEFINE Stored(sym, new) ==
                 [t \in ThesisIds |->
                    IF t = new THEN [status |-> "active", symbol |-> sym]
                    ELSE IF t \in Rivals(x, sym) \cup {new}
                         THEN [VisibleTheses(x)[t] EXCEPT !.status = "superseded"]
                         ELSE x.view[t]]
               After(sym, new) ==
                 [x EXCEPT !.plan = @ \ {sym},
                           !.held = @ \cup (Rivals(x, sym) \cup {new}),
                           !.dirty = @ \cup (Rivals(x, sym) \cup {new}),
                           !.view = Stored(sym, new)]
    <2>1. PICK sym \in x.plan, new \in ThesisIds :
             /\ UnusedThesis(new) /\ \A t \in Rivals(x, sym) : ThesisFree(w, t)
             /\ Alone(w, After(sym, new))
      BY <1>2 DEF StoreThesis, Alone
    <2> DEFINE y == After(sym, new)
    <2>2. x.task = "research" /\ sym \in Symbols
      BY <1>s, <2>1 DEF SaneTask, Session
    <2>3. /\ y.task = "research" /\ y.step = x.step /\ y.todo = x.todo /\ SameBooks(x, y)
          /\ y.dirty = x.dirty \cup (Rivals(x, sym) \cup {new})
          /\ y.held = x.held \cup (Rivals(x, sym) \cup {new})
          /\ y.view = Stored(sym, new)
      <3> HIDE DEF Stored
      <3> QED BY <1>s, <2>2 DEF Session, SameBooks
    <2>4. y \in Session
      BY <2>1, Became DEF Alone
    <2> HIDE DEF After
    <2>5. Drafts(w, y, sym, new)
      BY <2>1, <2>2, <2>3 DEF Drafts
    <2> HIDE DEF y
    <2> QED BY <2>2, <2>4, <2>5 DEF TaskKind
  <1> QED BY <1>1, <1>2

LEMMA EndKinds ==
    ASSUME TypeInv, TypeInv', Sane, NEW w \in Workers,
           \/ StaleFill(w) \/ AbortDeadlock(w) \/ LoseTask(w)
           \/ FinishTick(w) \/ AbandonTask(w) \/ FinishResearch(w)
    PROVE  TaskKind(w)
  <1> DEFINE x == session[w]
  <1>s. x \in Session /\ SaneTask(x) /\ book.fills \in Nat /\ book.flow \in Int /\ book \in [fills : Nat, flow : Int, resets : Nat, failures : Nat, torn : BOOLEAN]
    BY DEF TypeInv, TypeOK, Sane
  <1>1. CASE StaleFill(w) \/ AbortDeadlock(w)
    <2>1. Clears(w)
      BY <1>1 DEF StaleFill, AbortDeadlock, Clears
    <2> QED BY <2>1 DEF TaskKind
  <1>2. CASE LoseTask(w)
    <2>1. Clears(w)
      BY <1>2, <1>s DEF LoseTask, Clears
    <2> QED BY <2>1 DEF TaskKind
  <1>3. CASE FinishTick(w)
    <2>1. Commits(w)
      BY <1>3, <1>s DEF FinishTick, Commits
    <2> QED BY <2>1 DEF TaskKind
  <1>4. CASE AbandonTask(w)
    <2>1. Commits(w)
      BY <1>4, <1>s DEF AbandonTask, Commits
    <2> QED BY <2>1 DEF TaskKind
  <1>5. CASE FinishResearch(w)
    <2>1. x.task # "idle" /\ x.step = "scan" /\ x.fills = 0 /\ x.flow = 0
      BY <1>5, <1>s DEF FinishResearch, SaneTask
    <2>2. Commits(w)
      BY <1>5, <1>s, <2>1 DEF FinishResearch, Commits
    <2> QED BY <2>2 DEF TaskKind
  <1> QED BY <1>1, <1>2, <1>3, <1>4, <1>5

(* Every step is of one of the kinds. *)
LEMMA Kinds ==
    ASSUME TypeInv, TypeInv', Sane, [Next]_vars
    PROVE  \/ \E w \in Workers : TaskKind(w)
           \/ CommitReset
           \/ \E t \in ThesisIds : UpdateThesis(t)
           \/ UNCHANGED Tables
  <1>1. ASSUME NEW w \in Workers, Task(w) PROVE TaskKind(w)
    <2>1. CASE FinishTickWithReset(w)
      BY <2>1 DEF TaskKind
    <2> QED BY <1>1, <2>1, OpenKinds, LookKinds, LabelKinds, ResearchKinds, EndKinds DEF Task, TaskStep
  <1>2. CASE UNCHANGED vars
    BY <1>2 DEF vars, Tables
  <1>3. CASE Api \/ (\E t \in ThesisIds : PassExpiry(t))
    BY <1>3 DEF Api, StartBot, PauseBot, UpdateAutonomy, SwitchTo, BeginReset, PassExpiry, Tables
  <1> QED BY <1>1, <1>2, <1>3 DEF Next

LEMMA SaneIdle == SaneTask(IdleSession)
  BY DEF SaneTask, IdleSession

(* What a task becomes is as sane as it was. *)
LEMMA SaneNext ==
    ASSUME TypeInv, TypeInv', Sane, NEW w \in Workers, TaskKind(w)
    PROVE  SaneTask(session'[w]) /\ \A v \in Workers \ {w} : session'[v] = session[v]
  <1> DEFINE x == session[w]
  <1>s. x \in Session /\ SaneTask(x) /\ theses \in [ThesisIds -> Thesis]
    BY DEF TypeInv, TypeOK, Sane
  <1>b. ASSUME NEW y, Become(w, y), SaneTask(y)
        PROVE  SaneTask(session'[w]) /\ \A v \in Workers \ {w} : session'[v] = session[v]
    BY <1>b, Became
  <1>1. CASE Clears(w) \/ Commits(w) \/ FinishTickWithReset(w)
    BY <1>1, <1>b, SaneIdle DEF Clears, Commits, CommitSession, FinishTickWithReset
  <1>2. ASSUME NEW y \in Session, Opens(w, y) PROVE SaneTask(y) /\ Become(w, y)
    BY <1>2, <1>s DEF Opens, SaneTask, LiveIn, Live, Alone
  <1>3. ASSUME NEW y \in Session, Looks(w, y) PROVE SaneTask(y) /\ Become(w, y)
    BY <1>3, <1>s DEF Looks, SaneTask, SameTask, SameBooks, SamePicture, Alone
  <1>4. ASSUME NEW y \in Session, Plans(w, y) PROVE SaneTask(y) /\ Become(w, y)
    BY <1>4, <1>s DEF Plans, SaneTask, SameBooks, SamePicture, Alone
  <1>r. ASSUME NEW y \in Session, NEW t \in ThesisIds, NEW st \in Statuses \ {"none"},
               x.task = "monitor", SameTask(x, y), Relabels(x, y, t, st),
               y.fills = 0 => x.fills = 0 /\ SameBooks(x, y) /\ st # "entry_triggered"
        PROVE  SaneTask(y)
    <2>1. \A u \in ThesisIds : y.view[u].status = IF u = t THEN st ELSE x.view[u].status
      BY <1>r, <1>s DEF Relabels, Relabelled, Session, Thesis
    <2>2. y.dirty = x.dirty \cup {t} /\ y.held = x.held \cup {t} /\ y.todo \subseteq x.todo
          /\ y.step = "scan" /\ y.task = "monitor" /\ y.plan = x.plan
      BY <1>r DEF Relabels, SameTask
    <2>3. x.dirty \subseteq ThesisIds /\ x.todo \subseteq ThesisIds
      BY <1>s DEF Session
    <2> QED BY <1>r, <1>s, <2>1, <2>2, <2>3 DEF SaneTask, SameBooks
  <1>5. ASSUME NEW y \in Session, NEW t \in ThesisIds, Expires(w, y, t)
        PROVE  SaneTask(y) /\ Become(w, y)
    BY <1>5, <1>s, <1>r DEF Expires, Alone, Statuses, SameBooks
  <1>p. ASSUME NEW y \in Session, NEW a, Pays(w, y, a)
        PROVE  /\ x.task = "monitor" /\ SameTask(x, y) /\ y.fills # 0 /\ Become(w, y)
               /\ Head(x) \in ThesisIds
    <2>1. x.step # "scan" /\ y.fills = x.fills + 1 /\ x.fills \in Nat
      BY <1>p, <1>s DEF Pays, Session
    <2>2. x.todo # {}
      BY <2>1 DEF TypeInv, Aimed
    <2> QED BY <1>p, <1>s, <2>1, <2>2, HeadIsDue DEF Pays, Alone, SaneTask
  <1>6. ASSUME NEW y \in Session, NEW a, NEW new, Buys(w, y, a, new)
        PROVE  SaneTask(y) /\ Become(w, y)
    BY <1>6, <1>p, <1>r DEF Buys, Statuses, Live
  <1>7. ASSUME NEW y \in Session, NEW a, Sells(w, y, a)
        PROVE  SaneTask(y) /\ Become(w, y)
    BY <1>7, <1>p, <1>r DEF Sells, Statuses
  <1>8. ASSUME NEW y \in Session, NEW sym \in Symbols, NEW new \in ThesisIds, Drafts(w, y, sym, new)
        PROVE  SaneTask(y) /\ Become(w, y)
    <2> DEFINE changed == Rivals(x, sym) \cup {new}
    <2>1. changed \subseteq ThesisIds /\ x.dirty \subseteq ThesisIds
      BY <1>s DEF Rivals, LiveIn, Session
    <2>2. VisibleTheses(x) \in [ThesisIds -> Thesis]
      BY <1>s, VisibleTheses_Type
    <2>3. \A u \in ThesisIds : y.view[u].status = IF u = new THEN "active"
                                                  ELSE IF u \in changed THEN "superseded"
                                                  ELSE x.view[u].status
      BY <1>8, <2>1, <2>2 DEF Drafts, Thesis
    <2>4. y.dirty = x.dirty \cup changed /\ y.held = x.held \cup changed
      BY <1>8 DEF Drafts
    <2>5. /\ y.task = "research" /\ y.step = x.step /\ y.todo = x.todo /\ SameBooks(x, y)
          /\ x.task = "research" /\ Become(w, y)
      BY <1>8 DEF Drafts, Alone
    <2> HIDE DEF changed
    <2> QED BY <1>s, <2>1, <2>3, <2>4, <2>5 DEF SaneTask, SameBooks
  <1> QED BY <1>1, <1>2, <1>3, <1>4, <1>5, <1>6, <1>7, <1>8, <1>b DEF TaskKind

LEMMA DeskSane == Spec => []Sane
  <1>1. Init => Sane
    BY SaneIdle DEF Init, Sane
  <1>2. TypeInv /\ TypeInv' /\ Sane /\ [Next]_vars => Sane'
    <2> SUFFICES ASSUME TypeInv, TypeInv', Sane, [Next]_vars PROVE Sane'
      OBVIOUS
    <2>1. ASSUME NEW w \in Workers, TaskKind(w) PROVE Sane'
      BY <2>1, SaneNext DEF Sane
    <2>2. ASSUME UNCHANGED session PROVE Sane'
      BY <2>2 DEF Sane
    <2> QED BY <2>1, <2>2, Kinds DEF CommitReset, UpdateThesis, Tables
  <1> QED BY <1>1, <1>2, DeskTypes, PTL DEF Spec

-----------------------------------------------------------------------------
(* The guardrails.  Each is a Room: what is committed, what each worker    *)
(* counts, and who is past the check that counted it.                      *)
Holders  == {w \in Workers : session[w].fills # 0}
Asking   == {w \in Workers : session[w].step # "scan"}
Buying   == {w \in Asking : session[w].side = "buy"}
Adding(sym) == {w \in Buying : /\ session[w].step = "fill" /\ session[w].lot = {}
                               /\ Target(session[w]) = sym}

TradesSeen    == [w \in Workers |-> book.fills + session[w].fills]
OpenSeen      == [w \in Workers |-> Cardinality(VisibleRows(session[w]))]
StoredOf(sym) == {p \in positions : p.symbol = sym}
SeenOf(sym)   == [w \in Workers |-> Cardinality(RowsOf(session[w], sym))]

TradeRoom    == Room(MaxTradesPerDay, book.fills, TradesSeen, Asking, Holders)
OpenRoom     == Room(MaxOpenPositions, Cardinality(positions), OpenSeen, Buying, Holders)
SymRoom(sym) == Room(1, Cardinality(StoredOf(sym)), SeenOf(sym), Adding(sym), Holders)

(* The account row is locked by a flushed fill, so two workers never have  *)
(* uncommitted ones.                                                       *)
OneHolder == \A v, w \in Holders : v = w
FewRows   == IsFiniteSet(positions) /\ \A w \in Workers : IsFiniteSet(session[w].bought)

Allowances == OneHolder /\ FewRows /\ TradeRoom /\ OpenRoom /\ \A sym \in Symbols : SymRoom(sym)

(* Worker w passes the check, or did before, or is not past it. *)
LEMMA RoomLook ==
    ASSUME NEW limit \in Nat, NEW count \in Nat, NEW seen \in [Workers -> Nat],
           NEW past \in SUBSET Workers, NEW holders \in SUBSET Workers,
           NEW w \in Workers, NEW past2 \in SUBSET (past \cup {w}),
           w \in past2 => w \in past \/ seen[w] < limit,
           Room(limit, count, seen, past, holders)
    PROVE  Room(limit, count, seen, past2, holders)
  <1>1. CASE past2 \subseteq past
    BY <1>1, RoomDrop
  <1>2. CASE seen[w] < limit
    <2>1. Room(limit, count, seen, past \cup {w}, holders)
      BY <1>2, RoomPass
    <2>2. past \cup {w} \in SUBSET Workers
      OBVIOUS
    <2> QED BY <2>1, <2>2, RoomDrop
  <1> QED BY <1>1, <1>2

(* The counts are numbers, and a worker without fills of its own counts    *)
(* what is committed.                                                      *)
Counted ==
    /\ TradesSeen \in [Workers -> Nat] /\ OpenSeen \in [Workers -> Nat]
    /\ \A sym : SeenOf(sym) \in [Workers -> Nat]
    /\ book.fills \in Nat /\ Cardinality(positions) \in Nat
    /\ \A sym : Cardinality(StoredOf(sym)) \in Nat
    /\ \A w \in Workers : /\ IsFiniteSet(VisibleRows(session[w]))
                          /\ \A sym : IsFiniteSet(RowsOf(session[w], sym))

LEMMA Counts == TypeInv /\ FewRows => Counted
  <1> SUFFICES ASSUME TypeInv, FewRows PROVE Counted
    OBVIOUS
  <1>1. book.fills \in Nat /\ \A w \in Workers : session[w].fills \in Nat
    BY DEF TypeInv, TypeOK, Session
  <1>2. ASSUME NEW w \in Workers
        PROVE  /\ IsFiniteSet(VisibleRows(session[w]))
               /\ \A sym : IsFiniteSet(RowsOf(session[w], sym))
    <2>1. IsFiniteSet(positions \cup session[w].bought)
      BY FS_Union DEF FewRows
    <2>2. VisibleRows(session[w]) \subseteq positions \cup session[w].bought
      BY DEF VisibleRows
    <2>3. \A sym : RowsOf(session[w], sym) \subseteq VisibleRows(session[w])
      BY DEF RowsOf
    <2> QED BY <2>1, <2>2, <2>3, FS_Subset
  <1>3. ASSUME NEW sym PROVE IsFiniteSet(StoredOf(sym))
    <2>1. StoredOf(sym) \subseteq positions
      BY DEF StoredOf
    <2> QED BY <2>1, FS_Subset DEF FewRows
  <1>4. Cardinality(positions) \in Nat /\ \A sym : Cardinality(StoredOf(sym)) \in Nat
    BY <1>3, FS_CardinalityType DEF FewRows
  <1>5. \A w \in Workers : /\ Cardinality(VisibleRows(session[w])) \in Nat
                           /\ \A sym : Cardinality(RowsOf(session[w], sym)) \in Nat
    BY <1>2, FS_CardinalityType
  <1> QED BY <1>1, <1>2, <1>4, <1>5 DEF TradesSeen, OpenSeen, SeenOf, Counted

LEMMA CountsNext == TypeInv' /\ FewRows' => Counted'
  BY Counts, PTL

LEMMA GuardConstants ==
    /\ MaxTradesPerDay \in Nat \ {0} /\ MaxOpenPositions \in Nat \ {0} /\ 1 \in Nat \ {0}
    /\ MaxTradesPerDay \in Nat /\ MaxOpenPositions \in Nat /\ 1 \in Nat
  BY DeskAssumption DEF DeskAssumption

SameRows(x, y) == y.fills = x.fills /\ y.bought = x.bought /\ y.sold = x.sold

(* A step that fills nothing and commits nothing. *)
LEMMA QuietRooms ==
    ASSUME TypeInv, Allowances, NEW w \in Workers,
           SameRows(session[w], session'[w]), \A v \in Workers \ {w} : session'[v] = session[v],
           positions' = positions, book'.fills = book.fills,
           NEW y, y = session'[w], y.step = "scan" \/ Looks(w, y)
    PROVE  Allowances'
  <1> DEFINE x == session[w]
  <1>1. /\ Holders' = Holders /\ TradesSeen' = TradesSeen /\ OpenSeen' = OpenSeen
        /\ \A sym : SeenOf(sym)' = SeenOf(sym) /\ StoredOf(sym)' = StoredOf(sym)
        /\ FewRows'
    <2>1. \A v \in Workers : /\ session'[v].fills = session[v].fills
                             /\ session'[v].bought = session[v].bought
                             /\ session'[v].sold = session[v].sold
      BY DEF SameRows
    <2>2. \A v \in Workers : VisibleRows(session[v])' = VisibleRows(session[v])
      BY <2>1 DEF VisibleRows
    <2>3. \A v \in Workers : \A sym : RowsOf(session[v], sym)' = RowsOf(session[v], sym)
      BY <2>2 DEF RowsOf
    <2> QED BY <2>1, <2>2, <2>3 DEF Holders, TradesSeen, OpenSeen, SeenOf, StoredOf, FewRows, Allowances
  <1>2. OneHolder'
    BY <1>1 DEF Allowances, OneHolder
  <1>3. /\ Asking \in SUBSET Workers /\ Buying \in SUBSET Workers /\ Holders \in SUBSET Workers
        /\ \A sym : Adding(sym) \in SUBSET Workers
    BY DEF Asking, Buying, Adding, Holders
  <1>4. Asking' \in SUBSET (Asking \cup {w}) /\ (w \in Asking' => w \in Asking \/ TradesSeen[w] < MaxTradesPerDay)
    BY DEF Asking, Looks, GuardrailsPass, TradesSeen
  <1>5. Buying' \in SUBSET (Buying \cup {w}) /\ (w \in Buying' => w \in Buying \/ OpenSeen[w] < MaxOpenPositions)
    BY DEF Asking, Buying, Looks, GuardrailsPass, OpenSeen
  <1>6. ASSUME NEW sym
        PROVE  /\ Adding(sym)' \in SUBSET (Adding(sym) \cup {w})
               /\ w \in Adding(sym)' => w \in Adding(sym) \/ SeenOf(sym)[w] < 1
    <2>1. Adding(sym)' \in SUBSET (Adding(sym) \cup {w})
      BY DEF Asking, Buying, Adding
    <2>2. ASSUME w \in Adding(sym)' PROVE SeenOf(sym)[w] < 1
      <3>1. y.step = "fill" /\ y.lot = {} /\ Target(y) = sym /\ Looks(w, y)
        BY <2>2 DEF Adding, Buying, Asking
      <3>2. RowsOf(x, Target(x)) = {} /\ y.todo = x.todo /\ y.view = x.view
        BY <3>1 DEF Looks, SamePicture
      <3>3. Target(y) = Target(x)
        BY <3>2 DEF Target, Head
      <3>4. Cardinality(RowsOf(x, sym)) = 0
        BY <3>1, <3>2, <3>3, FS_EmptySet
      <3> QED BY <3>4 DEF SeenOf
    <2> QED BY <2>1, <2>2
  <1>7. TradeRoom'
    <2>1. Room(MaxTradesPerDay, book.fills, TradesSeen, Asking', Holders)
      BY <1>3, <1>4, Counts, GuardConstants, RoomLook DEF Allowances, TradeRoom, Counted
    <2> QED BY <1>1, <2>1 DEF TradeRoom
  <1>8. OpenRoom'
    <2>1. Room(MaxOpenPositions, Cardinality(positions), OpenSeen, Buying', Holders)
      BY <1>3, <1>5, Counts, GuardConstants, RoomLook DEF Allowances, OpenRoom, Counted
    <2> QED BY <1>1, <2>1 DEF OpenRoom
  <1>9. ASSUME NEW sym \in Symbols PROVE SymRoom(sym)'
    <2>1. Room(1, Cardinality(StoredOf(sym)), SeenOf(sym), Adding(sym)', Holders)
      BY <1>3, <1>6, Counts, GuardConstants, RoomLook DEF Allowances, SymRoom, Counted
    <2> QED BY <1>1, <2>1 DEF SymRoom
  <1> QED BY <1>1, <1>2, <1>7, <1>8, <1>9 DEF Allowances

LEMMA OneMore ==
    ASSUME NEW A, IsFiniteSet(A), NEW r, NEW B
    PROVE  /\ B \subseteq A => Cardinality(B) <= Cardinality(A)
           /\ B \subseteq A \cup {r} => Cardinality(B) <= Cardinality(A) + 1
           /\ Cardinality(A) \in Nat /\ (B \subseteq A \cup {r} => Cardinality(B) \in Nat)
  <1>1. Cardinality(A) \in Nat
    BY FS_CardinalityType
  <1>2. ASSUME B \subseteq A PROVE Cardinality(B) <= Cardinality(A)
    BY <1>2, FS_Subset
  <1>3. ASSUME B \subseteq A \cup {r}
        PROVE  Cardinality(B) <= Cardinality(A) + 1 /\ Cardinality(B) \in Nat
    <2>1. IsFiniteSet(A \cup {r}) /\ Cardinality(A \cup {r}) <= Cardinality(A) + 1
      BY <1>1, FS_AddElement
    <2>2. Cardinality(B) <= Cardinality(A \cup {r}) /\ Cardinality(B) \in Nat
      BY <1>3, <2>1, FS_Subset, FS_CardinalityType
    <2>3. Cardinality(A \cup {r}) \in Nat
      BY <2>1, FS_CardinalityType
    <2> QED BY <1>1, <2>1, <2>2, <2>3
  <1> QED BY <1>1, <1>2, <1>3

(* A step that flushes one fill. *)
LEMMA FillRooms ==
    ASSUME TypeInv, TypeInv', Sane, Allowances, NEW w \in Workers, NEW y \in Session,
           \/ \E a : \E new : Buys(w, y, a, new)
           \/ \E a : Sells(w, y, a)
    PROVE  Allowances'
  <1> DEFINE x == session[w]
  <1>1. /\ Become(w, y) /\ positions' = positions /\ book' = book /\ AccountFree(w)
        /\ y.fills = x.fills + 1 /\ x.step = "fill" /\ y.step = "scan" /\ x.sold \subseteq y.sold
    BY DEF Buys, Sells, Pays, Alone, Relabels
  <1>2. \/ y.bought = x.bought
        \/ /\ x.side = "buy" /\ x.lot = {}
           /\ \E r : y.bought = x.bought \cup {[id |-> r, symbol |-> Target(x)]}
    BY DEF Buys, Sells
  <1>3. \/ y.bought = x.bought
        \/ x.side = "buy"
    BY <1>2
  <1>4. /\ session'[w] = y /\ \A v \in Workers \ {w} : session'[v] = session[v]
        /\ x.fills \in Nat
    BY <1>1, Became DEF Session
  <1>5. Holders \in SUBSET {w} /\ Holders' = {w}
    BY <1>1, <1>4 DEF Holders, AccountFree
  <1>6. OneHolder'
    BY <1>5 DEF OneHolder
  <1>7. /\ Asking \in SUBSET Workers /\ Buying \in SUBSET Workers
        /\ \A sym : Adding(sym) \in SUBSET Workers
        /\ Asking' \in SUBSET (Asking \ {w}) /\ Buying' \in SUBSET (Buying \ {w})
        /\ \A sym : Adding(sym)' \in SUBSET (Adding(sym) \ {w})
    BY <1>1, <1>4 DEF Asking, Buying, Adding
  <1>8. FewRows'
    <2>1. IsFiniteSet(x.bought) /\ IsFiniteSet(positions)
      BY DEF Allowances, FewRows
    <2>2. IsFiniteSet(y.bought)
      BY <1>2, <2>1, FS_AddElement
    <2> QED BY <1>1, <1>4, <2>1, <2>2 DEF Allowances, FewRows
  <1>9. \A v \in Workers \ {w} : /\ VisibleRows(session[v])' = VisibleRows(session[v])
                                 /\ \A sym : RowsOf(session[v], sym)' = RowsOf(session[v], sym)
    BY <1>1, <1>4 DEF VisibleRows, RowsOf
  <1>10. PICK r : /\ VisibleRows(session[w])' \subseteq VisibleRows(x) \cup {r}
                  /\ y.bought = x.bought => VisibleRows(session[w])' \subseteq VisibleRows(x)
                  /\ y.bought # x.bought => r.symbol = Target(x)
    <2>1. VisibleRows(session[w])' = {p \in positions \cup y.bought : p.id \notin y.sold}
      BY <1>1, <1>4 DEF VisibleRows
    <2>2. CASE y.bought = x.bought
      BY <1>1, <2>1, <2>2 DEF VisibleRows
    <2>3. CASE y.bought # x.bought
      <3>1. PICK q : y.bought = x.bought \cup {[id |-> q, symbol |-> Target(x)]}
        BY <1>2, <2>3
      <3>2. [id |-> q, symbol |-> Target(x)].symbol = Target(x)
        OBVIOUS
      <3>3. VisibleRows(session[w])' \subseteq VisibleRows(x) \cup {[id |-> q, symbol |-> Target(x)]}
        BY <1>1, <2>1, <3>1 DEF VisibleRows
      <3> QED BY <2>3, <3>2, <3>3
    <2> QED BY <2>2, <2>3
  <1>11. IsFiniteSet(VisibleRows(x)) /\ \A sym : IsFiniteSet(RowsOf(x, sym))
    BY Counts DEF Allowances, Counted
  <1>12. TradeRoom'
    <2>1. TradesSeen' \in [Workers -> Nat] /\ TradesSeen \in [Workers -> Nat] /\ book.fills \in Nat
      BY <1>8, Counts, CountsNext DEF Allowances, Counted
    <2>2. w \in Asking /\ TradesSeen'[w] <= TradesSeen[w] + 1
      BY <1>1, <1>4, <2>1 DEF Asking, TradesSeen
    <2>3. \A v \in Workers \ {w} : TradesSeen'[v] = TradesSeen[v]
      BY <1>1, <1>4 DEF TradesSeen
    <2>4. Room(MaxTradesPerDay, book.fills, TradesSeen', Asking', {w})
      BY <1>5, <1>7, <2>1, <2>2, <2>3, GuardConstants, RoomFill DEF Allowances, TradeRoom
    <2> QED BY <1>1, <1>5, <2>4 DEF TradeRoom
  <1>13. OpenRoom'
    <2>1. OpenSeen' \in [Workers -> Nat] /\ OpenSeen \in [Workers -> Nat] /\ Cardinality(positions) \in Nat
      BY <1>8, Counts, CountsNext DEF Allowances, Counted
    <2>2. \/ OpenSeen'[w] <= OpenSeen[w]
          \/ w \in Buying /\ OpenSeen'[w] <= OpenSeen[w] + 1
      <3>1. CASE y.bought = x.bought
        <4>1. Cardinality(VisibleRows(session[w])') <= Cardinality(VisibleRows(x))
          BY <1>10, <1>11, <3>1, OneMore
        <4> QED BY <4>1 DEF OpenSeen
      <3>2. CASE y.bought # x.bought
        <4>1. Cardinality(VisibleRows(session[w])') <= Cardinality(VisibleRows(x)) + 1
          BY <1>10, <1>11, OneMore
        <4>2. w \in Buying
          BY <1>1, <1>3, <3>2 DEF Buying, Asking
        <4> QED BY <4>1, <4>2 DEF OpenSeen
      <3> QED BY <3>1, <3>2
    <2>3. \A v \in Workers \ {w} : OpenSeen'[v] = OpenSeen[v]
      BY <1>9 DEF OpenSeen
    <2>a. /\ Buying \in SUBSET Workers /\ Buying' \in SUBSET (Buying \ {w})
          /\ Room(MaxOpenPositions, Cardinality(positions), OpenSeen, Buying, Holders)
      BY <1>7 DEF Allowances, OpenRoom
    <2>4. Room(MaxOpenPositions, Cardinality(positions), OpenSeen', Buying', {w})
      BY <1>5, <2>1, <2>2, <2>3, <2>a, GuardConstants, RoomFill
    <2> QED BY <1>1, <1>5, <2>4 DEF OpenRoom
  <1>14. ASSUME NEW sym \in Symbols PROVE SymRoom(sym)'
    <2>1. /\ SeenOf(sym)' \in [Workers -> Nat] /\ SeenOf(sym) \in [Workers -> Nat]
          /\ Cardinality(StoredOf(sym)) \in Nat
      BY <1>8, Counts, CountsNext DEF Allowances, Counted
    <2>2. \/ SeenOf(sym)'[w] <= SeenOf(sym)[w]
          \/ w \in Adding(sym) /\ SeenOf(sym)'[w] <= SeenOf(sym)[w] + 1
      <3>1. CASE y.bought = x.bought \/ Target(x) # sym
        <4>1. RowsOf(session[w], sym)' \subseteq RowsOf(x, sym)
          BY <1>10, <3>1 DEF RowsOf
        <4>2. Cardinality(RowsOf(session[w], sym)') <= Cardinality(RowsOf(x, sym))
          BY <1>11, <4>1, OneMore
        <4> QED BY <4>2 DEF SeenOf
      <3>2. CASE y.bought # x.bought /\ Target(x) = sym
        <4>1. RowsOf(session[w], sym)' \subseteq RowsOf(x, sym) \cup {r}
          BY <1>10 DEF RowsOf
        <4>2. Cardinality(RowsOf(session[w], sym)') <= Cardinality(RowsOf(x, sym)) + 1
          BY <1>11, <4>1, OneMore
        <4>3. w \in Adding(sym)
          BY <1>1, <1>2, <3>2 DEF Adding, Buying, Asking
        <4> QED BY <4>2, <4>3 DEF SeenOf
      <3> QED BY <3>1, <3>2
    <2>3. \A v \in Workers \ {w} : SeenOf(sym)'[v] = SeenOf(sym)[v]
      BY <1>9 DEF SeenOf
    <2>4. Room(1, Cardinality(StoredOf(sym)), SeenOf(sym)', Adding(sym)', {w})
      BY <1>5, <1>7, <2>1, <2>2, <2>3, GuardConstants, RoomFill DEF Allowances, SymRoom
    <2>5. StoredOf(sym)' = StoredOf(sym)
      BY <1>1 DEF StoredOf
    <2> QED BY <1>5, <2>4, <2>5 DEF SymRoom
  <1> QED BY <1>6, <1>8, <1>12, <1>13, <1>14 DEF Allowances

(* The last uncommitted fills are committed or dropped, or rows deleted.   *)
LEMMA CloseRooms ==
    ASSUME TypeInv, TypeInv', Sane, Sane', Allowances, NEW w \in Workers,
           Holders \in SUBSET {w}, Holders' = {},
           \A v \in Workers \ {w} : session'[v] = session[v],
           session'[w] = session[w] \/ session'[w] = IdleSession,
           \/ book'.fills = book.fills
           \/ book'.fills = book.fills + session[w].fills,
           positions' \subseteq positions \/ positions' \subseteq VisibleRows(session[w])
    PROVE  Allowances'
  <1> DEFINE x == session[w]
  <1>1. IsFiniteSet(VisibleRows(x)) /\ IsFiniteSet(positions)
        /\ \A sym : IsFiniteSet(RowsOf(x, sym)) /\ IsFiniteSet(StoredOf(sym))
    <2>1. \A sym : StoredOf(sym) \subseteq positions
      BY DEF StoredOf
    <2> QED BY <2>1, Counts, FS_Subset DEF Allowances, FewRows, Counted
  <1>2. \A v \in Workers : session'[v].fills = 0 /\ session'[v].bought = {} /\ session'[v].sold = {}
    BY DEF Holders, Sane, SaneTask
  <1>3. FewRows'
    <2>1. IsFiniteSet(positions')
      BY <1>1, FS_Subset
    <2> QED BY <1>2, <2>1, FS_EmptySet DEF FewRows
  <1>4. \A v \in Workers : VisibleRows(session[v])' = positions' /\ \A sym : RowsOf(session[v], sym)' = StoredOf(sym)'
    BY <1>2 DEF VisibleRows, RowsOf, StoredOf
  <1>5. /\ Asking \in SUBSET Workers /\ Buying \in SUBSET Workers
        /\ \A sym : Adding(sym) \in SUBSET Workers
        /\ Asking' \in SUBSET Asking /\ Buying' \in SUBSET Buying
        /\ \A sym : Adding(sym)' \in SUBSET Adding(sym)
    BY DEF Asking, Buying, Adding, IdleSession
  <1>6. w \in Holders => session'[w].step = "scan"
    BY <1>2 DEF Holders, IdleSession
  <1>7. w \in Holders => w \notin Asking' /\ w \notin Buying' /\ \A sym : w \notin Adding(sym)'
    BY <1>6 DEF Asking, Buying, Adding
  <1>8. TradeRoom'
    <2>1. book.fills \in Nat /\ book'.fills \in Nat /\ TradesSeen \in [Workers -> Nat]
      BY <1>3, Counts, CountsNext DEF Allowances, Counted
    <2>2. book'.fills <= TradesSeen[w] \/ book'.fills <= book.fills
      BY <2>1 DEF TradesSeen
    <2>3. \A v \in Workers : TradesSeen'[v] = book'.fills
      BY <1>2, <2>1 DEF TradesSeen
    <2>a. /\ Asking \in SUBSET Workers /\ Asking' \in SUBSET Asking
          /\ w \in Holders => w \notin Asking'
          /\ Room(MaxTradesPerDay, book.fills, TradesSeen, Asking, Holders)
      BY <1>5, <1>7 DEF Allowances, TradeRoom
    <2> DEFINE count  == book.fills
               count2 == book'.fills
    <2>b. /\ count \in Nat /\ count2 \in Nat /\ \A v \in Workers : TradesSeen'[v] = count2
          /\ count2 <= TradesSeen[w] \/ count2 <= count
          /\ Room(MaxTradesPerDay, count, TradesSeen, Asking, Holders)
      BY <2>1, <2>2, <2>3, <2>a
    <2> HIDE DEF count, count2
    <2>4. Room(MaxTradesPerDay, count2, TradesSeen', Asking', {})
      BY <2>1, <2>a, <2>b, GuardConstants, RoomClose
    <2> QED BY <2>4 DEF TradeRoom, count2
  <1>9. OpenRoom'
    <2>1. Cardinality(positions) \in Nat /\ Cardinality(positions') \in Nat /\ OpenSeen \in [Workers -> Nat]
      BY <1>3, Counts, CountsNext DEF Allowances, Counted
    <2>2. Cardinality(positions') <= OpenSeen[w] \/ Cardinality(positions') <= Cardinality(positions)
      BY <1>1, OneMore DEF OpenSeen
    <2>3. \A v \in Workers : OpenSeen'[v] = Cardinality(positions')
      BY <1>4 DEF OpenSeen
    <2>a. /\ Buying \in SUBSET Workers /\ Buying' \in SUBSET Buying
          /\ w \in Holders => w \notin Buying'
          /\ Room(MaxOpenPositions, Cardinality(positions), OpenSeen, Buying, Holders)
      BY <1>5, <1>7 DEF Allowances, OpenRoom
    <2>4. Room(MaxOpenPositions, Cardinality(positions'), OpenSeen', Buying', {})
      BY <2>1, <2>2, <2>3, <2>a, GuardConstants, RoomClose
    <2> QED BY <2>4 DEF OpenRoom
  <1>10. ASSUME NEW sym \in Symbols PROVE SymRoom(sym)'
    <2>1. /\ Cardinality(StoredOf(sym)) \in Nat /\ Cardinality(StoredOf(sym)') \in Nat
          /\ SeenOf(sym) \in [Workers -> Nat]
      BY <1>3, Counts, CountsNext DEF Allowances, Counted
    <2>2. StoredOf(sym)' \subseteq StoredOf(sym) \/ StoredOf(sym)' \subseteq RowsOf(x, sym)
      BY DEF StoredOf, RowsOf
    <2>3. Cardinality(StoredOf(sym)') <= SeenOf(sym)[w] \/ Cardinality(StoredOf(sym)') <= Cardinality(StoredOf(sym))
      BY <1>1, <2>2, OneMore DEF SeenOf
    <2>4. \A v \in Workers : SeenOf(sym)'[v] = Cardinality(StoredOf(sym)')
      BY <1>4 DEF SeenOf
    <2> DEFINE count  == Cardinality(StoredOf(sym))
               count2 == Cardinality(StoredOf(sym)')
               seen   == SeenOf(sym)
               past   == Adding(sym)
    <2>a. /\ count \in Nat /\ count2 \in Nat /\ seen \in [Workers -> Nat]
          /\ past \in SUBSET Workers /\ past' \in SUBSET past /\ (w \in Holders => w \notin past')
          /\ count2 <= seen[w] \/ count2 <= count
          /\ \A v \in Workers : seen'[v] = count2
          /\ Room(1, count, seen, past, Holders)
      BY <1>5, <1>7, <2>1, <2>3, <2>4 DEF Allowances, SymRoom
    <2> HIDE DEF count, count2, seen, past
    <2>5. Room(1, count2, seen', past', {})
      BY <2>a, GuardConstants, RoomClose
    <2> QED BY <2>5 DEF SymRoom, count2, seen, past
  <1> QED BY <1>3, <1>8, <1>9, <1>10 DEF Allowances, OneHolder

LEMMA StepAllowances ==
    ASSUME TypeInv, TypeInv', Sane, Sane', Allowances, [Next]_vars
    PROVE  Allowances'
  <1>1. ASSUME NEW w \in Workers, TaskKind(w) PROVE Allowances'
    <2> DEFINE x == session[w]
    <2>s. x \in Session /\ SaneTask(x) /\ SaneTask(session'[w])
          /\ \A v \in Workers \ {w} : session'[v] = session[v]
      BY <1>1, SaneNext DEF TypeInv, TypeOK, Sane
    <2>q. ASSUME NEW y \in Session, Alone(w, y), SameRows(x, y), y.step = "scan" \/ Looks(w, y)
          PROVE  Allowances'
      <3>1. session'[w] = y /\ positions' = positions /\ book'.fills = book.fills
        BY <2>q, Became DEF Alone
      <3> QED BY <2>q, <2>s, <3>1, QuietRooms
    <2>1. ASSUME NEW y \in Session, Opens(w, y) PROVE Allowances'
      <3>1. SameRows(x, y)
        BY <2>1, <2>s DEF Opens, SameRows, SaneTask
      <3> QED BY <2>1, <2>q, <3>1 DEF Opens
    <2>2. ASSUME NEW y \in Session, Looks(w, y) PROVE Allowances'
      <3>1. SameRows(x, y) /\ Alone(w, y)
        BY <2>2 DEF Looks, SameRows, SameBooks
      <3> QED BY <2>2, <2>q, <3>1
    <2>3. ASSUME NEW y \in Session, Plans(w, y) PROVE Allowances'
      <3>1. SameRows(x, y) /\ Alone(w, y) /\ y.step = "scan"
        BY <2>3, <2>s DEF Plans, SameRows, SameBooks, SaneTask
      <3> QED BY <2>q, <3>1
    <2>4. ASSUME NEW y \in Session, NEW t \in ThesisIds, Expires(w, y, t) PROVE Allowances'
      <3>1. SameRows(x, y) /\ Alone(w, y) /\ y.step = "scan"
        BY <2>4 DEF Expires, SameRows, SameBooks, Relabels
      <3> QED BY <2>q, <3>1
    <2>5. ASSUME NEW y \in Session, NEW sym \in Symbols, NEW new \in ThesisIds, Drafts(w, y, sym, new)
          PROVE  Allowances'
      <3>1. SameRows(x, y) /\ Alone(w, y) /\ y.step = "scan"
        BY <2>5, <2>s DEF Drafts, SameRows, SameBooks, SaneTask
      <3> QED BY <2>q, <3>1
    <2>6. ASSUME NEW y \in Session,
                 (\E a : \E new : Buys(w, y, a, new)) \/ (\E a : Sells(w, y, a))
          PROVE  Allowances'
      BY <2>6, FillRooms
    <2>c. ASSUME Become(w, IdleSession), book'.fills = book.fills \/ book'.fills = book.fills + x.fills,
                 positions' \subseteq positions \/ positions' \subseteq VisibleRows(x),
                 Holders \in SUBSET {w}
          PROVE  Allowances'
      <3>1. session'[w] = IdleSession
        BY <2>c, Became
      <3>2. Holders' = {}
        BY <2>c, <2>s, <3>1 DEF Holders, IdleSession
      <3> QED BY <2>c, <2>s, <3>1, <3>2, CloseRooms
    <2>i. ASSUME Become(w, IdleSession), book'.fills = book.fills \/ book'.fills = book.fills + x.fills,
                 positions' = positions \/ positions' = VisibleRows(x),
                 Holders \notin SUBSET {w}
          PROVE  Allowances'
      <3>1. session'[w] = IdleSession
        BY <2>i, Became
      <3>2. PICK v \in Holders : v # w
        BY <2>i
      <3>3. w \notin Holders
        BY <3>2 DEF Allowances, OneHolder
      <3>4. x.fills = 0 /\ x.bought = {} /\ x.sold = {} /\ book.fills \in Nat
        BY <2>s, <3>3 DEF Holders, SaneTask, TypeInv, TypeOK
      <3>5. SameRows(x, session'[w]) /\ session'[w].step = "scan"
        BY <3>1, <3>4 DEF SameRows, IdleSession
      <3>6. VisibleRows(x) = positions /\ book.fills + x.fills = book.fills
        BY <3>4 DEF VisibleRows
      <3>7. positions' = positions /\ book'.fills = book.fills
        BY <2>i, <3>6
      <3> QED BY <2>s, <3>5, <3>7, QuietRooms
    <2>7. CASE Clears(w)
      <3>1. /\ Become(w, IdleSession) /\ book'.fills = book.fills /\ positions' = positions
        BY <2>7 DEF Clears
      <3> QED BY <3>1, <2>c, <2>i
    <2>8. CASE Commits(w)
      <3>1. /\ Become(w, IdleSession) /\ book'.fills = book.fills + x.fills /\ positions' = VisibleRows(x)
        BY <2>8 DEF Commits, CommitSession
      <3> QED BY <3>1, <2>c, <2>i
    <2>9. CASE FinishTickWithReset(w)
      <3>1. /\ Become(w, IdleSession) /\ positions' = {} /\ AccountFree(w)
            /\ book'.fills = book.fills + x.fills
        BY <2>9 DEF FinishTickWithReset, TypeInv, TypeOK
      <3>2. Holders \in SUBSET {w}
        BY <3>1 DEF AccountFree, Holders
      <3> QED BY <3>1, <3>2, <2>c
    <2> QED BY <1>1, <2>1, <2>2, <2>3, <2>4, <2>5, <2>6, <2>7, <2>8, <2>9 DEF TaskKind
  <1>2. CASE CommitReset
    <2>1. PICK w \in Workers : TRUE
      BY DeskAssumption DEF DeskAssumption
    <2>2. /\ Holders = {} /\ session' = session /\ positions' \subseteq positions
          /\ book'.fills = book.fills
      BY <1>2 DEF CommitReset, Holders, TypeInv, TypeOK
    <2>3. Holders' = {}
      BY <2>2 DEF Holders
    <2> QED BY <2>2, <2>3, CloseRooms
  <1>3. ASSUME UNCHANGED <<positions, session, book>> PROVE Allowances'
    BY <1>3 DEF Allowances, OneHolder, FewRows, TradeRoom, OpenRoom, SymRoom, Holders, Asking, Buying,
                Adding, TradesSeen, OpenSeen, SeenOf, StoredOf, VisibleRows, RowsOf
  <1> QED BY <1>1, <1>2, <1>3, Kinds DEF UpdateThesis, Tables

LEMMA InitAllowances == Init => Allowances
  <1> SUFFICES ASSUME Init PROVE Allowances
    OBVIOUS
  <1>1. session = [w \in Workers |-> IdleSession] /\ positions = {} /\ book.fills = 0
    BY DEF Init
  <1>2. Holders = {} /\ Asking = {} /\ Buying = {} /\ \A sym : Adding(sym) = {}
    BY <1>1 DEF Holders, Asking, Buying, Adding, IdleSession
  <1>3. \A w \in Workers : VisibleRows(session[w]) = {} /\ \A sym : RowsOf(session[w], sym) = {}
    BY <1>1 DEF VisibleRows, RowsOf, IdleSession
  <1>4. Cardinality({}) = 0 /\ IsFiniteSet({})
    BY FS_EmptySet
  <1>5. \A sym : StoredOf(sym) = {}
    BY <1>1 DEF StoredOf
  <1>6. /\ \A w \in Workers : TradesSeen[w] = 0 /\ OpenSeen[w] = 0
        /\ \A sym : \A w \in Workers : SeenOf(sym)[w] = 0
    <2>1. \A w \in Workers : session[w].fills = 0
      BY <1>1 DEF IdleSession
    <2>2. \A w \in Workers : TradesSeen[w] = 0
      BY <1>1, <2>1 DEF TradesSeen
    <2>3. \A w \in Workers : OpenSeen[w] = 0
      BY <1>3, <1>4 DEF OpenSeen
    <2>4. ASSUME NEW sym, NEW w \in Workers PROVE SeenOf(sym)[w] = 0
      BY <1>3, <1>4 DEF SeenOf
    <2> QED BY <2>2, <2>3, <2>4
  <1>7. TradeRoom /\ OpenRoom /\ \A sym : SymRoom(sym)
    BY <1>1, <1>2, <1>4, <1>5, <1>6, GuardConstants, RoomEmpty DEF TradeRoom, OpenRoom, SymRoom
  <1>8. OneHolder /\ FewRows
    BY <1>1, <1>2, <1>4 DEF OneHolder, FewRows, IdleSession
  <1> QED BY <1>7, <1>8 DEF Allowances

LEMMA DeskAllowances == Spec => []Allowances
  BY InitAllowances, DeskTypes, DeskSane, StepAllowances, PTL DEF Spec

(* max_trades_per_day is exceeded by at most one trade per further worker, *)
(* however many reviews are under way when the last permitted trade is     *)
(* committed.  (check_guardrails, execute_price_trigger_order)             *)
THEOREM TradesStayWithin == Spec => []TradesWithinAllowance
  <1>1. TypeInv /\ Allowances => TradesWithinAllowance
    <2> SUFFICES ASSUME TypeInv, Allowances PROVE TradesWithinAllowance
      OBVIOUS
    <2>1. book.fills \in Nat /\ Asking \in SUBSET Workers
      BY DEF TypeInv, TypeOK, Asking
    <2> QED BY <2>1, GuardConstants, RoomBound DEF Allowances, TradeRoom, TradesWithinAllowance
  <1> QED BY <1>1, DeskTypes, DeskAllowances, PTL

(* max_open_positions, likewise: one position more per further worker.     *)
THEOREM OpenStayWithin == Spec => []OpenWithinAllowance
  <1>1. TypeInv /\ Allowances => OpenWithinAllowance
    <2> SUFFICES ASSUME TypeInv, Allowances PROVE OpenWithinAllowance
      OBVIOUS
    <2>1. Cardinality(positions) \in Nat /\ Buying \in SUBSET Workers
      BY Counts DEF Allowances, Counted, Buying, Asking
    <2> QED BY <2>1, GuardConstants, RoomBound DEF Allowances, OpenRoom, OpenWithinAllowance
  <1> QED BY <1>1, DeskTypes, DeskAllowances, PTL

(* However buys of one symbol race each other, it has one open row per     *)
(* worker at most; a single worker never opens a second.                   *)
THEOREM RowsStayPerSymbol == Spec => []RowsPerSymbol
  <1>1. TypeInv /\ Allowances => RowsPerSymbol
    <2> SUFFICES ASSUME TypeInv, Allowances, NEW sym \in Symbols
                 PROVE  Cardinality({p \in positions : p.symbol = sym}) <= Cardinality(Workers)
      BY DEF RowsPerSymbol
    <2>1. Cardinality(StoredOf(sym)) \in Nat /\ Adding(sym) \in SUBSET Workers
      BY Counts DEF Allowances, Counted, Adding, Buying, Asking
    <2>2. Cardinality(StoredOf(sym)) < 1 + Cardinality(Workers)
      BY <2>1, GuardConstants, RoomBound DEF Allowances, SymRoom
    <2>3. Cardinality(Workers) \in Nat
      BY WorkersCount
    <2> QED BY <2>1, <2>2, <2>3 DEF StoredOf
  <1> QED BY <1>1, DeskTypes, DeskAllowances, PTL

-----------------------------------------------------------------------------
(* A desk with one worker process, as the README starts it: `celery worker *)
(* --pool=solo`.  The API and its resets still run beside it.              *)
OneWorker == \A v, w \in Workers : v = w

(* The balance a tick believes in is the stored one and its own flow.      *)
Books ==
    /\ BookBalances
    /\ \A w \in Workers : session[w].task = "monitor" /\ ~book.torn
                             => session[w].cash = cash + session[w].flow

LEMMA StepBooks ==
    ASSUME OneWorker, TypeInv, TypeInv', Sane, Books, [Next]_vars
    PROVE  Books'
  <1>b. /\ book.flow \in Int /\ book'.flow \in Int /\ cash \in Int /\ cash' \in Int /\ Bankroll \in Int
        /\ \A w \in Workers : session[w].flow \in Int /\ session[w].cash \in Int /\ session[w].fills \in Nat
    BY DeskAssumption DEF TypeInv, TypeOK, Session, DeskAssumption
  <1>1. ASSUME NEW w \in Workers, TaskKind(w) PROVE Books'
    <2> DEFINE x == session[w]
    <2>s. /\ SaneTask(x) /\ \A v \in Workers : v = w
          /\ ~book.torn => cash = Bankroll + book.flow
          /\ x.task = "monitor" /\ ~book.torn => x.cash = cash + x.flow
      BY DEF OneWorker, Sane, Books, BookBalances
    <2>a. ASSUME NEW y \in Session, Alone(w, y),
                 y.task = "monitor" /\ ~book.torn => y.cash = cash + y.flow
          PROVE  Books'
      <3>1. session'[w] = y /\ cash' = cash /\ book' = book
        BY <2>a, Became DEF Alone
      <3> QED BY <2>a, <2>s, <3>1 DEF Books, BookBalances
    <2>1. ASSUME NEW y \in Session, Opens(w, y) PROVE Books'
      BY <2>1, <2>a, <1>b DEF Opens
    <2>2. ASSUME NEW y \in Session, Looks(w, y) PROVE Books'
      BY <2>2, <2>a, <2>s DEF Looks, SameTask, SameBooks
    <2>3. ASSUME NEW y \in Session, Plans(w, y) PROVE Books'
      BY <2>3, <2>a DEF Plans
    <2>4. ASSUME NEW y \in Session, NEW t \in ThesisIds, Expires(w, y, t) PROVE Books'
      BY <2>4, <2>a, <2>s DEF Expires, SameTask, SameBooks
    <2>5. ASSUME NEW y \in Session, NEW sym \in Symbols, NEW new \in ThesisIds, Drafts(w, y, sym, new)
          PROVE  Books'
      BY <2>5, <2>a DEF Drafts
    <2>6. ASSUME NEW y \in Session, NEW amount \in Int, Pays(w, y, amount) PROVE Books'
      <3>1. /\ Alone(w, y) /\ x.task = "monitor"
            /\ y.cash = x.cash + amount /\ y.flow = x.flow + amount
        BY <2>6, <2>s DEF Pays, SaneTask
      <3>2. ~book.torn => y.cash = cash + y.flow
        BY <1>b, <2>s, <3>1
      <3> QED BY <2>a, <3>1, <3>2
    <2>i. ASSUME Become(w, IdleSession), BookBalances' PROVE Books'
      <3>1. session'[w] = IdleSession /\ IdleSession.task # "monitor"
        BY <2>i, Became DEF IdleSession
      <3> QED BY <2>i, <2>s, <3>1 DEF Books
    <2>7. CASE Clears(w)
      BY <2>7, <2>i, <2>s DEF Clears, BookBalances
    <2>8. CASE Commits(w)
      <3>1. /\ Become(w, IdleSession) /\ book'.flow = book.flow + x.flow /\ book'.torn = book.torn
            /\ cash' = IF x.fills > 0 THEN x.cash ELSE cash
        BY <2>8 DEF Commits, CommitSession
      <3>2. CASE x.fills > 0
        <4>1. x.task = "monitor"
          BY <1>b, <2>s, <3>2 DEF SaneTask
        <4> QED BY <1>b, <2>i, <2>s, <3>1, <3>2, <4>1 DEF BookBalances
      <3>3. CASE ~(x.fills > 0)
        <4>1. x.flow = 0
          BY <1>b, <2>s, <3>3 DEF SaneTask
        <4> QED BY <1>b, <2>i, <2>s, <3>1, <3>3, <4>1 DEF BookBalances
      <3> QED BY <3>2, <3>3
    <2>9. CASE FinishTickWithReset(w)
      <3>1. /\ Become(w, IdleSession) /\ book'.flow = 0 /\ book'.torn = book.torn
            /\ cash' = IF x.fills > 0 THEN Bankroll ELSE CashAfterReset(x.cash)
            /\ x.task = "monitor"
        BY <2>9 DEF FinishTickWithReset, TypeInv, TypeOK
      <3>2. ~(x.fills > 0) => x.flow = 0
        BY <1>b, <2>s DEF SaneTask
      <3>3. ~book.torn => cash' = Bankroll
        BY <1>b, <2>s, <3>1, <3>2 DEF CashAfterReset
      <3> QED BY <1>b, <2>i, <3>1, <3>3 DEF BookBalances
    <2>p. \A c \in Costs : -c \in Int
      <3>1. Costs \subseteq Int
        BY DeskAssumption DEF DeskAssumption
      <3> QED BY <3>1
    <2>q. Proceeds \subseteq Int
      BY DeskAssumption DEF DeskAssumption
    <2> QED BY <1>1, <2>1, <2>2, <2>3, <2>4, <2>5, <2>6, <2>7, <2>8, <2>9, <2>p, <2>q
            DEF TaskKind, Buys, Sells
  <1>2. CASE CommitReset
    <2>1. /\ cash' = CashAfterReset(reset.cash) /\ session' = session
          /\ book' = [book EXCEPT !.flow = 0, !.resets = @ + 1, !.torn = Overlapped]
      BY <1>2 DEF CommitReset
    <2>2. book'.flow = 0 /\ book'.torn = Overlapped
      BY <2>1 DEF TypeInv, TypeOK
    <2>3. ~Overlapped => /\ \A w \in Workers : session[w].task # "monitor"
                         /\ (reset.cash = Bankroll) = (cash = Bankroll)
      BY DEF Overlapped
    <2>4. ~Overlapped => cash' = Bankroll
      BY <2>1, <2>3 DEF CashAfterReset
    <2> QED BY <1>b, <2>1, <2>2, <2>3, <2>4 DEF Books, BookBalances
  <1>3. ASSUME UNCHANGED <<cash, session, book>> PROVE Books'
    BY <1>3 DEF Books, BookBalances
  <1> QED BY <1>1, <1>2, <1>3, Kinds DEF UpdateThesis, Tables

(* With one worker the balance is the bankroll and what the committed      *)
(* fills took and brought: no tick, lost or abandoned task, deadlock or    *)
(* reset creates or destroys money, but a manual reset that overlaps a     *)
(* tick.  (run_price_trigger_cycle, reset_bankroll)                        *)
THEOREM BooksBalance == ASSUME OneWorker PROVE Spec => []BookBalances
  <1>1. Init => Books
    BY DeskAssumption DEF Init, Books, BookBalances, IdleSession, DeskAssumption
  <1>2. TypeInv /\ TypeInv' /\ Sane /\ Books /\ [Next]_vars => Books'
    BY StepBooks
  <1>3. Books => BookBalances
    BY DEF Books
  <1> QED BY <1>1, <1>2, <1>3, DeskTypes, DeskSane, PTL DEF Spec

-----------------------------------------------------------------------------
(* What has ended stays ended.                                             *)
Ended == {"superseded", "closed", "expired"}

(* No open transaction has a thesis in view that has ended since: a tick   *)
(* reads live theses only, a cycle supersedes those it finds live.         *)
Known(s, t) == s.view[t].status # "none"
Fresh == \A w \in Workers, t \in ThesisIds : Known(session[w], t) => theses[t].status \notin Ended

(* What one step of a task leaves in view was in view, was live, or is new. *)
LEMMA KnownNext ==
    ASSUME TypeInv, TypeInv', Sane, NEW w \in Workers, TaskKind(w),
           NEW t \in ThesisIds, Known(session'[w], t)
    PROVE  /\ Known(session[w], t) \/ theses[t].status \in Live \cup {"none"}
           /\ theses' = theses
  <1> DEFINE x == session[w]
  <1>s. x \in Session /\ SaneTask(x) /\ theses \in [ThesisIds -> Thesis]
    BY DEF TypeInv, TypeOK, Sane
  <1>n. ~Known(IdleSession, t) /\ Unread[t].status = "none" /\ Blank.status = "none"
    BY DEF Known, IdleSession, Unread, Blank
  <1>i. ~Become(w, IdleSession)
    BY <1>n, Became
  <1>a. ASSUME NEW y \in Session, Alone(w, y) PROVE session'[w] = y /\ theses' = theses /\ Known(y, t)
    BY <1>a, Became DEF Alone
  <1>1. ASSUME NEW y \in Session, Opens(w, y) PROVE theses[t].status \in Live
    <2>1. Known(y, t)
      BY <1>1, <1>a DEF Opens
    <2> QED BY <1>1, <1>n, <2>1 DEF Opens, LiveIn, Known
  <1>r. ASSUME NEW y \in Session, NEW u \in ThesisIds, NEW st \in Statuses, Relabels(x, y, u, st), Known(y, t)
        PROVE  Known(x, t)
    <2>1. u \in x.todo
      BY <1>r DEF Relabels
    <2>2. CASE t = u
      BY <1>s, <2>1, <2>2 DEF SaneTask, Known
    <2>3. CASE t # u
      BY <1>r, <1>s, <2>3 DEF Relabels, Relabelled, Known, Session
    <2> QED BY <2>2, <2>3
  <1>2. ASSUME NEW y \in Session, NEW sym \in Symbols, NEW new \in ThesisIds, Drafts(w, y, sym, new)
        PROVE  Known(x, t) \/ theses[t].status \in Live \cup {"none"}
    <2>1. Known(y, t) /\ theses[new].status = "none"
      BY <1>2, <1>a DEF Drafts, UnusedThesis
    <2>2. CASE t = new
      BY <2>1, <2>2
    <2>3. CASE t # new /\ t \in Rivals(x, sym)
      <3>1. VisibleTheses(x)[t].status \in Live
        BY <2>3 DEF Rivals, LiveIn
      <3> QED BY <1>s, <3>1 DEF VisibleTheses, SaneTask, Known
    <2>4. CASE t # new /\ t \notin Rivals(x, sym)
      BY <1>2, <2>1, <2>4 DEF Drafts, Known
    <2> QED BY <2>2, <2>3, <2>4
  <1>3. ASSUME NEW y \in Session, Looks(w, y) \/ Plans(w, y) PROVE Known(x, t) /\ Alone(w, y)
    BY <1>3, <1>a DEF Looks, Plans, SamePicture, Known
  <1>4. ASSUME NEW y \in Session, NEW u \in ThesisIds, Expires(w, y, u) PROVE Known(x, t) /\ Alone(w, y)
    BY <1>4, <1>a, <1>r DEF Expires, Statuses
  <1>h. x.step # "scan" => Head(x) \in ThesisIds
    BY <1>s, HeadIsDue DEF TypeInv, Aimed
  <1>5. ASSUME NEW y \in Session, NEW a, NEW new, Buys(w, y, a, new) PROVE Known(x, t) /\ Alone(w, y)
    BY <1>5, <1>a, <1>r, <1>h DEF Buys, Pays, Statuses, Live
  <1>6. ASSUME NEW y \in Session, NEW a, Sells(w, y, a) PROVE Known(x, t) /\ Alone(w, y)
    BY <1>6, <1>a, <1>r, <1>h DEF Sells, Pays, Statuses
  <1>7. ~Clears(w) /\ ~Commits(w) /\ ~FinishTickWithReset(w)
    BY <1>i DEF Clears, Commits, CommitSession, FinishTickWithReset
  <1>8. ASSUME NEW y \in Session, Opens(w, y) \/ \E sym \in Symbols, new \in ThesisIds : Drafts(w, y, sym, new)
        PROVE  Alone(w, y)
    BY <1>8 DEF Opens, Drafts
  <1> QED BY <1>1, <1>2, <1>3, <1>4, <1>5, <1>6, <1>7, <1>8, <1>a DEF TaskKind

(* Only a live thesis is cancelled. *)
LEMMA CancelledStatus ==
    ASSUME NEW store \in [ThesisIds -> Thesis], NEW t \in ThesisIds
    PROVE  /\ Cancelled(store)[t].status \notin Live
           /\ Cancelled(store)[t].symbol = store[t].symbol
           /\ store[t].status \notin Live => Cancelled(store)[t] = store[t]
           /\ store[t].status \in Live => Cancelled(store)[t].status = "cancelled"
  BY DEF Cancelled, Live, Thesis

(* PATCH changes one status, to one of PatchStatuses or to what it was. *)
LEMMA PatchEffect ==
    ASSUME TypeInv, NEW u \in ThesisIds, UpdateThesis(u), NEW t \in ThesisIds
    PROVE  /\ theses'[t].symbol = theses[t].symbol
           /\ theses'[t] = theses[t] \/ (t = u /\ theses'[t].status \in PatchStatuses)
           /\ UNCHANGED <<cash, positions, session, reset, book>>
  <1>1. PICK st \in PatchStatuses \cup {theses[u].status} : theses' = [theses EXCEPT ![u].status = st]
    BY DEF UpdateThesis
  <1>2. theses \in [ThesisIds -> Thesis]
    BY DEF TypeInv, TypeOK
  <1>3. theses'[t] = IF t = u THEN [theses[u] EXCEPT !.status = st] ELSE theses[t]
    BY <1>1, <1>2
  <1>4. theses[u] \in [status : Statuses, symbol : Symbols]
    BY <1>2 DEF Thesis
  <1>5. /\ [theses[u] EXCEPT !.status = st].symbol = theses[u].symbol
        /\ [theses[u] EXCEPT !.status = st].status = st
        /\ st = theses[u].status => [theses[u] EXCEPT !.status = st] = theses[u]
    BY <1>4
  <1>6. UNCHANGED <<cash, positions, session, reset, book>>
    BY DEF UpdateThesis
  <1> QED BY <1>1, <1>3, <1>5, <1>6

LEMMA StepFresh ==
    ASSUME OneWorker, PatchStatuses \cap Ended = {}, TypeInv, TypeInv', Sane, Fresh, [Next]_vars
    PROVE  Fresh'
  <1>1. ASSUME NEW w \in Workers, TaskKind(w) PROVE Fresh'
    <2>1. ASSUME NEW t \in ThesisIds, Known(session'[w], t) PROVE theses'[t].status \notin Ended
      <3>1. /\ Known(session[w], t) \/ theses[t].status \in Live \cup {"none"}
            /\ theses' = theses
        BY <1>1, <2>1, KnownNext
      <3> QED BY <3>1 DEF Fresh, Ended, Live
    <2>2. \A v \in Workers : v = w
      BY DEF OneWorker
    <2> QED BY <2>1, <2>2 DEF Fresh
  <1>2. CASE CommitReset
    <2>1. theses' = Cancelled(theses) /\ session' = session
      BY <1>2 DEF CommitReset
    <2>2. ASSUME NEW t \in ThesisIds
          PROVE  theses'[t].status = theses[t].status \/ theses'[t].status = "cancelled"
      BY <2>1, CancelledStatus DEF TypeInv, TypeOK
    <2> QED BY <2>1, <2>2 DEF Fresh, Ended
  <1>3. ASSUME NEW u \in ThesisIds, UpdateThesis(u) PROVE Fresh'
    <2>1. ASSUME NEW t \in ThesisIds PROVE theses'[t] = theses[t] \/ theses'[t].status \in PatchStatuses
      BY <1>3, PatchEffect
    <2>2. session' = session
      BY <1>3 DEF UpdateThesis
    <2> QED BY <2>1, <2>2 DEF Fresh
  <1>4. ASSUME UNCHANGED <<theses, session>> PROVE Fresh'
    BY <1>4 DEF Fresh
  <1> QED BY <1>1, <1>2, <1>3, <1>4, Kinds DEF Tables

LEMMA StepEnded ==
    ASSUME TypeInv, TypeInv', Sane, Fresh, [Next]_vars,
           NEW t \in ThesisIds, theses[t].status \in {"superseded", "closed", "expired"}
    PROVE  theses'[t] = theses[t] \/ theses'[t].status \in PatchStatuses
  <1>e. theses[t].status \in Ended /\ theses[t].status \notin Live
    BY DEF Ended, Live
  <1>1. ASSUME NEW w \in Workers, TaskKind(w) PROVE theses'[t] = theses[t]
    <2> DEFINE x == session[w]
    <2>1. x \in Session /\ SaneTask(x) /\ ~Known(x, t)
      BY <1>e DEF TypeInv, TypeOK, Sane, Fresh
    <2>2. t \notin x.dirty
      BY <2>1 DEF SaneTask, Known
    <2>3. VisibleTheses(x)[t] = theses[t] /\ VisibleTheses(x) \in [ThesisIds -> Thesis]
      BY <2>1, <2>2, VisibleTheses_Type DEF VisibleTheses, TypeInv, TypeOK
    <2>4. CASE Commits(w)
      BY <2>3, <2>4 DEF Commits, CommitSession
    <2>5. CASE FinishTickWithReset(w)
      <3>1. theses' = Cancelled(VisibleTheses(x))
        BY <2>5 DEF FinishTickWithReset
      <3> QED BY <1>e, <2>3, <3>1, CancelledStatus
    <2>6. CASE Clears(w) \/ \E y \in Session : Alone(w, y)
      BY <2>6 DEF Clears, Alone
    <2> QED BY <1>1, <2>4, <2>5, <2>6
            DEF TaskKind, Opens, Looks, Plans, Expires, Buys, Sells, Pays, Drafts
  <1>2. CASE CommitReset
    BY <1>2, <1>e, CancelledStatus DEF CommitReset, TypeInv, TypeOK
  <1>3. ASSUME NEW u \in ThesisIds, UpdateThesis(u)
        PROVE  theses'[t] = theses[t] \/ theses'[t].status \in PatchStatuses
    BY <1>3, PatchEffect
  <1> QED BY <1>1, <1>2, <1>3, Kinds DEF Tables

(* With one worker, and while nobody writes an ended status through PATCH, *)
(* a superseded, closed or expired thesis is never revived or relabelled   *)
(* by a tick, a research cycle or a reset.                                 *)
THEOREM EndedStay ==
    ASSUME OneWorker, PatchStatuses \cap Ended = {} PROVE Spec => EndedStaysEnded
  <1>1. Init => Fresh
    <2>1. ASSUME Init, NEW w \in Workers, NEW t \in ThesisIds PROVE ~Known(session[w], t)
      BY <2>1 DEF Init, Known, IdleSession, Unread, Blank
    <2> QED BY <2>1 DEF Fresh
  <1>2. TypeInv /\ TypeInv' /\ Sane /\ Fresh /\ [Next]_vars => Fresh'
    BY StepFresh
  <1> DEFINE Kept == \A t \in ThesisIds :
                        theses[t].status \in {"superseded", "closed", "expired"}
                        => \/ theses'[t] = theses[t]
                           \/ theses'[t].status \in PatchStatuses
  <1>3. TypeInv /\ TypeInv' /\ Sane /\ Fresh /\ [Next]_vars => Kept
    BY StepEnded
  <1>4. Spec => [][Kept]_vars
    <2> HIDE DEF Kept
    <2> QED BY <1>1, <1>2, <1>3, DeskTypes, DeskSane, PTL DEF Spec
  <1> QED BY <1>4 DEF EndedStaysEnded

-----------------------------------------------------------------------------
(* One standing thesis per symbol, and a position under every entered one. *)
(*                                                                         *)
(* Neither is inductive by itself: what a task would commit must have both *)
(* properties too, and a tick keeps them because its picture covers every  *)
(* live thesis, and because no two theses in it have the same symbol.      *)
Distinct(store)      == \A t, u \in LiveIn(store) : store[t].symbol = store[u].symbol => t = u
Covered(store, rows) == \A t \in ThesisIds :
                           store[t].status = "entry_triggered"
                           => \E p \in rows : p.symbol = store[t].symbol
UniqueIds(rows)      == \A p, q \in rows : p.id = q.id => p = q

Pictured(s) ==
    s.task = "monitor" =>
       /\ \A t \in LiveIn(theses) : Known(s, t)
       /\ \A t \in ThesisIds : Known(s, t) => s.view[t].symbol = theses[t].symbol
       /\ \A t, u \in ThesisIds : Known(s, t) /\ Known(s, u) /\ s.view[t].symbol = s.view[u].symbol => t = u

Sorted(s) ==
    /\ UniqueIds(positions \cup s.bought)
    /\ s.sold \subseteq {p.id : p \in positions \cup s.bought}
    /\ s.step = "fill" => \A p \in VisibleRows(s) : p.id \in s.lot => p.symbol = Target(s)

Fit(s) == /\ Distinct(VisibleTheses(s)) /\ Covered(VisibleTheses(s), VisibleRows(s))
          /\ Pictured(s) /\ Sorted(s)

Home == Distinct(theses) /\ Covered(theses, positions) /\ UniqueIds(positions)

Standing == Home /\ \A w \in Workers : Fit(session[w])

LEMMA CleanFits ==
    ASSUME TypeInv, Home, NEW s \in Session, s.dirty = {}, s.bought = {}, s.sold = {},
           s.step = "scan", Pictured(s)
    PROVE  Fit(s)
  <1>1. VisibleTheses(s) = theses
    BY DEF VisibleTheses, TypeInv, TypeOK
  <1>2. VisibleRows(s) = positions
    BY DEF VisibleRows
  <1>3. Sorted(s)
    BY DEF Sorted, Home, UniqueIds
  <1> QED BY <1>1, <1>2, <1>3 DEF Fit, Home

LEMMA IdleFits == TypeInv /\ Home => Fit(IdleSession)
  <1> SUFFICES ASSUME TypeInv, Home PROVE Fit(IdleSession)
    OBVIOUS
  <1>1. IdleSession \in Session
    BY IdleType
  <1>2. /\ IdleSession.dirty = {} /\ IdleSession.bought = {} /\ IdleSession.sold = {}
        /\ IdleSession.step = "scan" /\ Pictured(IdleSession)
    BY DEF IdleSession, Pictured
  <1> QED BY <1>1, <1>2, CleanFits

LEMMA IdleFitsNext == TypeInv' /\ Home' => Fit(IdleSession)'
  BY IdleFits, PTL

(* What a tick would commit as live is in its picture, so it is distinct. *)
LEMMA TickView ==
    ASSUME TypeInv, NEW s \in Session, SaneTask(s), s.task = "monitor", Pictured(s)
    PROVE  /\ \A t \in LiveIn(VisibleTheses(s)) :
                 Known(s, t) /\ VisibleTheses(s)[t].symbol = s.view[t].symbol
           /\ Distinct(VisibleTheses(s))
  <1>1. ASSUME NEW t \in LiveIn(VisibleTheses(s))
        PROVE  t \in ThesisIds /\ Known(s, t) /\ VisibleTheses(s)[t].symbol = s.view[t].symbol
    <2>1. t \in ThesisIds /\ VisibleTheses(s)[t].status \in Live
      BY DEF LiveIn
    <2>2. CASE t \in s.dirty
      BY <2>1, <2>2 DEF VisibleTheses, SaneTask, Known
    <2>3. CASE t \notin s.dirty
      <3>1. VisibleTheses(s)[t] = theses[t] /\ t \in LiveIn(theses)
        BY <2>1, <2>3 DEF VisibleTheses, LiveIn
      <3> QED BY <2>1, <3>1 DEF Pictured
    <2> QED BY <2>1, <2>2, <2>3
  <1>2. Distinct(VisibleTheses(s))
    BY <1>1 DEF Distinct, Pictured
  <1> QED BY <1>1, <1>2

(* A tick gives a thesis of its picture another status. *)
LEMMA RelabelFits ==
    ASSUME TypeInv, NEW x \in Session, SaneTask(x), x.task = "monitor", Pictured(x),
           NEW y \in Session, y.task = "monitor", SaneTask(y),
           NEW t \in ThesisIds, NEW st \in Statuses \ {"none"}, Relabels(x, y, t, st)
    PROVE  /\ Pictured(y) /\ Distinct(VisibleTheses(y))
           /\ \A u \in ThesisIds \ {t} : VisibleTheses(y)[u] = VisibleTheses(x)[u]
           /\ VisibleTheses(y)[t].status = st /\ VisibleTheses(y)[t].symbol = x.view[t].symbol
           /\ Known(x, t) /\ \A u \in ThesisIds \ {t} : y.view[u] = x.view[u]
  <1>1. /\ y.view = [x.view EXCEPT ![t] = [x.view[t] EXCEPT !.status = st]]
        /\ y.dirty = x.dirty \cup {t} /\ t \in x.todo
    BY DEF Relabels, Relabelled
  <1>2. /\ \A u \in ThesisIds \ {t} : y.view[u] = x.view[u]
        /\ y.view[t].status = st /\ y.view[t].symbol = x.view[t].symbol
    BY <1>1 DEF Session, Thesis
  <1>3. Known(x, t) /\ \A u \in ThesisIds : Known(y, u) <=> Known(x, u)
    BY <1>1, <1>2 DEF SaneTask, Known
  <1>4. \A u \in ThesisIds : y.view[u].symbol = x.view[u].symbol
    BY <1>2
  <1>5. Pictured(y)
    BY <1>3, <1>4 DEF Pictured, LiveIn
  <1>6. /\ \A u \in ThesisIds \ {t} : VisibleTheses(y)[u] = VisibleTheses(x)[u]
        /\ VisibleTheses(y)[t].status = st /\ VisibleTheses(y)[t].symbol = x.view[t].symbol
    BY <1>1, <1>2 DEF VisibleTheses
  <1> QED BY <1>2, <1>3, <1>5, <1>6, TickView

(* What a task becomes fits as well, as long as it commits nothing. *)
LEMMA TaskFits ==
    ASSUME TypeInv, TypeInv', Sane, NEW w \in Workers, Home, Fit(session[w]),
           NEW y \in Session, SaneTask(y),
           \/ Opens(w, y) \/ Looks(w, y) \/ Plans(w, y)
           \/ \E t \in ThesisIds : Expires(w, y, t)
    PROVE  Fit(y)
  <1> DEFINE x == session[w]
  <1>s. x \in Session /\ SaneTask(x) /\ Pictured(x) /\ Sorted(x) /\ theses \in [ThesisIds -> Thesis]
    BY DEF TypeInv, TypeOK, Sane, Fit
  <1>1. CASE Opens(w, y)
    <2>1. Pictured(y)
      <3>1. CASE y.task # "monitor"
        BY <3>1 DEF Pictured
      <3>2. CASE y.task = "monitor"
        <4>1. y.view = [t \in ThesisIds |-> IF t \in LiveIn(theses) THEN theses[t] ELSE Blank]
          BY <1>1, <3>2 DEF Opens
        <4>2. Blank.status = "none" /\ \A t \in LiveIn(theses) : theses[t].status # "none"
          BY DEF Blank, LiveIn, Live
        <4>3. \A t \in ThesisIds : /\ Known(y, t) <=> t \in LiveIn(theses)
                                   /\ Known(y, t) => y.view[t] = theses[t]
          BY <4>1, <4>2 DEF Known
        <4>4. LiveIn(theses) \subseteq ThesisIds
          BY DEF LiveIn
        <4> QED BY <4>3, <4>4 DEF Pictured, Home, Distinct
      <3> QED BY <3>1, <3>2
    <2> QED BY <1>1, <2>1, CleanFits DEF Opens
  <1>k. ASSUME SameBooks(x, y), SamePicture(x, y), y.task = x.task,
               y.step = "fill" => \A p \in VisibleRows(x) : p.id \in y.lot => p.symbol = Target(y)
        PROVE  Fit(y)
    <2>1. VisibleTheses(y) = VisibleTheses(x) /\ VisibleRows(y) = VisibleRows(x)
      BY <1>k DEF SameBooks, SamePicture, VisibleTheses, VisibleRows
    <2>2. Pictured(y)
      BY <1>k, <1>s DEF SamePicture, Pictured, Known
    <2>3. Sorted(y)
      BY <1>k, <1>s, <2>1 DEF SameBooks, Sorted
    <2> QED BY <2>1, <2>2, <2>3 DEF Fit
  <1>2. CASE Looks(w, y)
    <2>1. SameBooks(x, y) /\ SamePicture(x, y) /\ y.task = x.task
      BY <1>2 DEF Looks, SameTask
    <2>2. ASSUME y.step = "fill", NEW p \in VisibleRows(x), p.id \in y.lot PROVE p.symbol = Target(y)
      <3>1. y.todo = x.todo /\ y.lot # {} /\ (y.lot = {} \/ \E q \in RowsOf(x, Target(x)) : y.lot = {q.id})
        BY <1>2, <2>2 DEF Looks
      <3>2. PICK q \in RowsOf(x, Target(x)) : y.lot = {q.id}
        BY <3>1
      <3>3. q \in VisibleRows(x) /\ q.symbol = Target(x) /\ p.id = q.id
        BY <2>2, <3>2 DEF RowsOf
      <3>4. p = q
        BY <1>s, <3>3 DEF VisibleRows, Sorted, UniqueIds
      <3>5. Target(y) = Target(x)
        BY <2>1, <3>1 DEF Target, Head, SamePicture
      <3> QED BY <3>3, <3>4, <3>5
    <2> QED BY <1>k, <2>1, <2>2
  <1>3. CASE Plans(w, y)
    <2>1. y.step = "scan"
      BY <1>3, <1>s DEF Plans, SaneTask
    <2> QED BY <1>k, <1>3, <2>1 DEF Plans
  <1>4. ASSUME NEW t \in ThesisIds, Expires(w, y, t) PROVE Fit(y)
    <2>1. /\ x.task = "monitor" /\ y.task = "monitor" /\ SameBooks(x, y)
          /\ Relabels(x, y, t, "expired") /\ y.step = "scan"
      BY <1>4 DEF Expires, SameTask, Relabels
    <2>2. /\ Pictured(y) /\ Distinct(VisibleTheses(y))
          /\ \A u \in ThesisIds \ {t} : VisibleTheses(y)[u] = VisibleTheses(x)[u]
          /\ VisibleTheses(y)[t].status = "expired"
      BY <1>s, <2>1, RelabelFits DEF Statuses
    <2>3. VisibleRows(y) = VisibleRows(x)
      BY <2>1 DEF SameBooks, VisibleRows
    <2>4. Covered(VisibleTheses(y), VisibleRows(y))
      BY <2>2, <2>3 DEF Fit, Covered
    <2>5. Sorted(y)
      BY <1>s, <2>1 DEF SameBooks, Sorted
    <2> QED BY <2>2, <2>4, <2>5 DEF Fit
  <1> QED BY <1>1, <1>2, <1>3, <1>4

LEMMA FillFits ==
    ASSUME TypeInv, TypeInv', Sane, NEW w \in Workers, Fit(session[w]),
           NEW y \in Session, SaneTask(y),
           \/ \E a, new : Buys(w, y, a, new)
           \/ \E a : Sells(w, y, a)
    PROVE  Fit(y)
  <1> DEFINE x == session[w]
             t == Head(x)
  <1>s. x \in Session /\ SaneTask(x) /\ Pictured(x) /\ Sorted(x) /\ theses \in [ThesisIds -> Thesis]
    BY DEF TypeInv, TypeOK, Sane, Fit
  <1>p. /\ x.step = "fill" /\ x.task = "monitor" /\ y.task = "monitor" /\ LotStored(x) /\ y.step = "scan"
    BY <1>s DEF Buys, Sells, Pays, SaneTask, SameTask, Relabels
  <1>t. t \in ThesisIds
    BY <1>s, <1>p, HeadIsDue DEF TypeInv, Aimed
  <1>l. \A p \in VisibleRows(x) : p.id \in x.lot => p.symbol = x.view[t].symbol
    BY <1>s, <1>p DEF Sorted, Target
  <1>1. ASSUME NEW a, NEW new, Buys(w, y, a, new) PROVE Fit(y)
    <2>1. /\ Relabels(x, y, t, "entry_triggered") /\ y.sold = x.sold /\ y.bought = x.bought \cup new
          /\ \/ x.lot # {} /\ new = {}
             \/ x.lot = {} /\ \E r \in RowIds \ UsedRows : new = {[id |-> r, symbol |-> x.view[t].symbol]}
      BY <1>1 DEF Buys, Target
    <2>2. /\ Pictured(y) /\ Distinct(VisibleTheses(y))
          /\ \A u \in ThesisIds \ {t} : VisibleTheses(y)[u] = VisibleTheses(x)[u]
          /\ VisibleTheses(y)[t].symbol = x.view[t].symbol
      BY <1>s, <1>p, <1>t, <2>1, RelabelFits DEF Statuses, Live
    <2>u. /\ \A p \in positions \cup x.bought : p.id \in UsedRows
          /\ x.sold \subseteq UsedRows
      <3>1. \A p \in positions \cup x.bought : p.id \in UsedRows
        BY DEF UsedRows
      <3> QED BY <1>s, <3>1 DEF Sorted
    <2>3. VisibleRows(x) \subseteq VisibleRows(y)
      BY <2>1 DEF VisibleRows
    <2>4. \E p \in VisibleRows(y) : p.symbol = x.view[t].symbol
      <3>1. CASE x.lot # {}
        <4>1. PICK r \in x.lot : \E p \in VisibleRows(x) : p.id = r
          BY <1>p, <3>1 DEF LotStored
        <4> QED BY <1>l, <2>3, <4>1
      <3>2. CASE x.lot = {}
        <4>1. PICK r \in RowIds \ UsedRows : new = {[id |-> r, symbol |-> x.view[t].symbol]}
          BY <2>1, <3>2
        <4>2. [id |-> r, symbol |-> x.view[t].symbol] \in VisibleRows(y)
          BY <2>1, <2>u, <4>1 DEF VisibleRows
        <4> QED BY <4>2
      <3> QED BY <3>1, <3>2
    <2>5. Covered(VisibleTheses(y), VisibleRows(y))
      BY <2>2, <2>3, <2>4 DEF Fit, Covered
    <2>6. Sorted(y)
      <3>1. UniqueIds(positions \cup y.bought)
        <4>1. CASE new = {}
          BY <1>s, <2>1, <4>1 DEF Sorted, UniqueIds
        <4>2. CASE new # {}
          <5>1. PICK r \in RowIds \ UsedRows : new = {[id |-> r, symbol |-> x.view[t].symbol]}
            BY <2>1, <4>2
          <5>2. \A p \in new : p.id \notin UsedRows
            BY <5>1
          <5>3. \A p, q \in new : p = q
            BY <5>1
          <5> QED BY <1>s, <2>1, <2>u, <5>2, <5>3 DEF Sorted, UniqueIds
        <4> QED BY <4>1, <4>2
      <3>2. y.sold \subseteq {p.id : p \in positions \cup y.bought}
        BY <1>s, <2>1 DEF Sorted
      <3> QED BY <1>p, <3>1, <3>2 DEF Sorted
    <2> QED BY <2>2, <2>5, <2>6 DEF Fit
  <1>2. ASSUME NEW a, Sells(w, y, a) PROVE Fit(y)
    <2>1. Relabels(x, y, t, "closed") /\ y.bought = x.bought /\ y.sold = x.sold \cup x.lot
      BY <1>2 DEF Sells
    <2>2. /\ Pictured(y) /\ Distinct(VisibleTheses(y))
          /\ \A u \in ThesisIds \ {t} : VisibleTheses(y)[u] = VisibleTheses(x)[u]
          /\ VisibleTheses(y)[t].status = "closed"
          /\ Known(x, t) /\ \A u \in ThesisIds \ {t} : y.view[u] = x.view[u]
      BY <1>s, <1>p, <1>t, <2>1, RelabelFits DEF Statuses
    <2>3. ASSUME NEW u \in ThesisIds, VisibleTheses(y)[u].status = "entry_triggered"
          PROVE  \E p \in VisibleRows(y) : p.symbol = VisibleTheses(y)[u].symbol
      <3>1. u # t /\ VisibleTheses(y)[u] = VisibleTheses(x)[u]
        BY <2>2, <2>3
      <3>2. PICK p \in VisibleRows(x) : p.symbol = VisibleTheses(x)[u].symbol
        BY <2>3, <3>1 DEF Fit, Covered
      <3>3. u \in LiveIn(VisibleTheses(x))
        BY <2>3, <3>1 DEF LiveIn, Live
      <3>4. Known(x, u) /\ VisibleTheses(x)[u].symbol = x.view[u].symbol
        BY <1>s, <1>p, <3>3, TickView
      <3>5. x.view[u].symbol # x.view[t].symbol
        BY <1>s, <1>p, <1>t, <2>2, <3>1, <3>4 DEF Pictured
      <3>6. p.id \notin x.lot
        BY <1>l, <3>2, <3>4, <3>5
      <3>7. p \in VisibleRows(y)
        BY <2>1, <3>2, <3>6 DEF VisibleRows
      <3> QED BY <3>1, <3>2, <3>7
    <2>4. Sorted(y)
      <3>1. x.lot \subseteq {p.id : p \in positions \cup x.bought}
        BY <1>p DEF LotStored, VisibleRows
      <3> QED BY <1>s, <1>p, <2>1, <3>1 DEF Sorted
    <2> QED BY <2>2, <2>3, <2>4 DEF Fit, Covered
  <1> QED BY <1>1, <1>2

LEMMA DraftFits ==
    ASSUME TypeInv, Sane, NEW w \in Workers, Fit(session[w]), NEW y \in Session, SaneTask(y),
           NEW sym \in Symbols, NEW new \in ThesisIds, Drafts(w, y, sym, new)
    PROVE  Fit(y)
  <1> DEFINE x == session[w]
  <1>s. x \in Session /\ SaneTask(x) /\ Sorted(x) /\ VisibleTheses(x) \in [ThesisIds -> Thesis]
    BY VisibleTheses_Type DEF TypeInv, TypeOK, Sane, Fit
  <1>1. /\ y.task = "research" /\ y.step = "scan" /\ SameBooks(x, y)
        /\ y.dirty = x.dirty \cup (Rivals(x, sym) \cup {new})
        /\ y.view = [t \in ThesisIds |->
                       IF t = new THEN [status |-> "active", symbol |-> sym]
                       ELSE IF t \in Rivals(x, sym) \cup {new}
                            THEN [VisibleTheses(x)[t] EXCEPT !.status = "superseded"]
                            ELSE x.view[t]]
    BY <1>s DEF Drafts, SaneTask
  <1>2. ASSUME NEW t \in ThesisIds \ {new}
        PROVE  VisibleTheses(y)[t] = IF t \in Rivals(x, sym)
                                     THEN [VisibleTheses(x)[t] EXCEPT !.status = "superseded"]
                                     ELSE VisibleTheses(x)[t]
    BY <1>1 DEF VisibleTheses
  <1>3. VisibleTheses(y)[new] = [status |-> "active", symbol |-> sym]
    BY <1>1 DEF VisibleTheses
  <1>4. ASSUME NEW t \in ThesisIds \ {new}, VisibleTheses(y)[t].status \in Live
        PROVE  /\ VisibleTheses(y)[t] = VisibleTheses(x)[t] /\ t \in LiveIn(VisibleTheses(x))
               /\ VisibleTheses(x)[t].symbol # sym
    <2>1. t \notin Rivals(x, sym)
      <3>1. [VisibleTheses(x)[t] EXCEPT !.status = "superseded"].status = "superseded"
        BY <1>s DEF Thesis
      <3> QED BY <1>2, <1>4, <3>1 DEF Live
    <2>2. VisibleTheses(y)[t] = VisibleTheses(x)[t]
      BY <1>2, <2>1
    <2> QED BY <1>4, <2>1, <2>2 DEF LiveIn, Rivals
  <1>5. Distinct(VisibleTheses(y))
    <2>1. SUFFICES ASSUME NEW t \in ThesisIds, NEW u \in ThesisIds,
                          VisibleTheses(y)[t].status \in Live, VisibleTheses(y)[u].status \in Live,
                          VisibleTheses(y)[t].symbol = VisibleTheses(y)[u].symbol
                   PROVE  t = u
      BY DEF Distinct, LiveIn
    <2>2. CASE t = new \/ u = new
      BY <1>3, <1>4, <2>1, <2>2
    <2>3. CASE t # new /\ u # new
      BY <1>4, <2>1, <2>3 DEF Fit, Distinct
    <2> QED BY <2>2, <2>3
  <1>6. Covered(VisibleTheses(y), VisibleRows(y))
    <2>1. VisibleRows(y) = VisibleRows(x)
      BY <1>1 DEF SameBooks, VisibleRows
    <2>2. ASSUME NEW t \in ThesisIds, VisibleTheses(y)[t].status = "entry_triggered"
          PROVE  VisibleTheses(y)[t] = VisibleTheses(x)[t]
      <3>1. t # new
        BY <1>3, <2>2
      <3> QED BY <1>4, <2>2, <3>1 DEF Live
    <2> QED BY <2>1, <2>2 DEF Fit, Covered
  <1>7. Pictured(y) /\ Sorted(y)
    BY <1>s, <1>1 DEF Pictured, Sorted, SameBooks
  <1> QED BY <1>5, <1>6, <1>7 DEF Fit

(* A store without live theses needs no position. *)
LEMMA NothingLive ==
    ASSUME NEW store, NEW rows, \A t \in ThesisIds : store[t].status \notin Live
    PROVE  LiveIn(store) = {} /\ Distinct(store) /\ Covered(store, rows)
  BY DEF LiveIn, Distinct, Covered, Live

(* What a task commits is at home, and so is what is left when it fails. *)
LEMMA EndsHome ==
    ASSUME TypeInv, TypeInv', Sane, NEW w \in Workers, Home, Fit(session[w]),
           Clears(w) \/ Commits(w) \/ FinishTickWithReset(w)
    PROVE  Home' /\ session'[w] = IdleSession
  <1> DEFINE x == session[w]
  <1>1. session'[w] = IdleSession
    BY Became DEF Clears, Commits, CommitSession, FinishTickWithReset
  <1>2. CASE Clears(w)
    BY <1>1, <1>2 DEF Clears, Home, Distinct, LiveIn, Covered, UniqueIds
  <1>3. CASE Commits(w)
    <2>1. theses' = VisibleTheses(x) /\ positions' = VisibleRows(x)
      BY <1>3 DEF Commits, CommitSession
    <2>2. UniqueIds(VisibleRows(x))
      BY DEF Fit, Sorted, UniqueIds, VisibleRows
    <2> QED BY <1>1, <2>1, <2>2 DEF Fit, Home
  <1>4. CASE FinishTickWithReset(w)
    <2>1. theses' = Cancelled(VisibleTheses(x)) /\ positions' = {}
      BY <1>4 DEF FinishTickWithReset
    <2>2. VisibleTheses(x) \in [ThesisIds -> Thesis]
      BY VisibleTheses_Type DEF TypeInv, TypeOK
    <2>3. \A t \in ThesisIds : theses'[t].status \notin Live
      BY <2>1, <2>2, CancelledStatus
    <2>4. Distinct(theses') /\ Covered(theses', positions')
      BY <2>3, NothingLive
    <2> QED BY <1>1, <2>1, <2>4 DEF Home, UniqueIds
  <1> QED BY <1>1, <1>2, <1>3, <1>4

(* Outside the tasks, a reset and a PATCH only take theses out of those    *)
(* that are live, and a reset deletes no row under an uncommitted fill.    *)
LEMMA OutsideFits ==
    ASSUME TypeInv, TypeInv', Sane, Standing, session' = session,
           \/ positions' = positions
           \/ positions' \subseteq positions /\ \A w \in Workers : session[w].fills = 0,
           \A t \in ThesisIds : theses'[t].symbol = theses[t].symbol,
           \A t \in ThesisIds : theses'[t].status \in Live => theses'[t] = theses[t],
           positions' = positions \/ \A t \in ThesisIds : theses'[t].status \notin Live
    PROVE  Standing'
  <1>h. Home'
    <2>1. LiveIn(theses') \subseteq LiveIn(theses) /\ \A t \in LiveIn(theses') : theses'[t] = theses[t]
      BY DEF LiveIn
    <2>2. Distinct(theses')
      BY <2>1 DEF Standing, Home, Distinct
    <2>3. Covered(theses', positions')
      BY DEF Standing, Home, Covered, Live
    <2>4. UniqueIds(positions')
      BY DEF Standing, Home, UniqueIds
    <2> QED BY <2>2, <2>3, <2>4 DEF Home
  <1>1. ASSUME NEW w \in Workers PROVE Fit(session[w])'
    <2> DEFINE x   == session[w]
               now == VisibleTheses(x)
               aft == VisibleTheses(x)'
    <2>s. /\ x \in Session /\ SaneTask(x) /\ Fit(x) /\ session'[w] = x
          /\ theses \in [ThesisIds -> Thesis] /\ theses' \in [ThesisIds -> Thesis]
      BY DEF TypeInv, TypeOK, Sane, Standing
    <2>1. \A t \in ThesisIds : /\ t \in x.dirty => aft[t] = x.view[t] /\ now[t] = x.view[t]
                               /\ t \notin x.dirty => aft[t] = theses'[t] /\ now[t] = theses[t]
      BY <2>s DEF VisibleTheses
    <2>2. \A t \in ThesisIds : aft[t].status \in Live => aft[t] = now[t]
      BY <2>1
    <2>3. LiveIn(aft) \subseteq LiveIn(now) /\ \A t \in LiveIn(aft) : aft[t] = now[t]
      BY <2>2 DEF LiveIn
    <2> HIDE DEF aft
    <2>4. Distinct(aft)
      BY <2>s, <2>3 DEF Distinct, Fit
    <2>5. Covered(aft, VisibleRows(x)')
      <3>1. CASE positions' = positions
        <4>1. VisibleRows(x)' = VisibleRows(x)
          BY <2>s, <3>1 DEF VisibleRows
        <4> QED BY <2>s, <2>2, <4>1 DEF Covered, Fit, Live
      <3>2. CASE positions' # positions
        <4>1. x.fills = 0 /\ \A t \in ThesisIds : theses'[t].status \notin Live
          BY <3>2
        <4>2. \A t \in ThesisIds : aft[t].status # "entry_triggered"
          BY <2>s, <2>1, <4>1 DEF SaneTask, Live
        <4> QED BY <4>2 DEF Covered
      <3> QED BY <3>1, <3>2
    <2>6. Pictured(x)'
      <3>1. LiveIn(theses') \subseteq LiveIn(theses)
        BY DEF LiveIn
      <3> QED BY <2>s, <3>1 DEF Pictured, Fit, Known
    <2>7. Sorted(x)'
      <3>1. VisibleRows(x)' \subseteq VisibleRows(x)
        BY <2>s DEF VisibleRows
      <3>2. UniqueIds(positions' \cup x.bought)
        BY <2>s DEF Sorted, UniqueIds, Fit
      <3>3. x.sold \subseteq {p.id : p \in positions' \cup x.bought}
        BY <2>s DEF Sorted, Fit, SaneTask
      <3>4. Target(x)' = Target(x)
        BY <2>s DEF Target, Head
      <3> QED BY <2>s, <3>1, <3>2, <3>3, <3>4 DEF Sorted, Fit
    <2> QED BY <2>s, <2>4, <2>5, <2>6, <2>7 DEF Fit, aft
  <1> QED BY <1>h, <1>1 DEF Standing

LEMMA StepStanding ==
    ASSUME OneWorker, PatchStatuses \cap Live = {}, TypeInv, TypeInv', Sane, Standing, [Next]_vars
    PROVE  Standing'
  <1>s. theses \in [ThesisIds -> Thesis] /\ theses' \in [ThesisIds -> Thesis]
    BY DEF TypeInv, TypeOK
  <1>1. ASSUME NEW w \in Workers, TaskKind(w) PROVE Standing'
    <2>1. /\ \A v \in Workers : v = w
          /\ Home /\ Fit(session[w]) /\ SaneTask(session'[w])
      BY <1>1, SaneNext DEF OneWorker, Standing
    <2>2. ASSUME Home', Fit(session[w])' PROVE Standing'
      <3>1. ASSUME NEW v \in Workers PROVE Fit(session[v])'
        <4>1. v = w
          BY <2>1
        <4> QED BY <2>2, <4>1
      <3> QED BY <2>2, <3>1 DEF Standing
    <2>3. ASSUME NEW y \in Session, Alone(w, y), SaneTask(y) => Fit(y) PROVE Standing'
      <3>1. session'[w] = y /\ UNCHANGED <<theses, positions>>
        BY <2>3, Became DEF Alone
      <3>2. Home'
        BY <2>1, <3>1 DEF Home, Distinct, LiveIn, Covered, UniqueIds
      <3>3. Fit(y)
        BY <2>1, <2>3, <3>1
      <3>4. Fit(session[w])'
        BY <3>1, <3>3 DEF Fit, Distinct, LiveIn, Covered, VisibleTheses, VisibleRows, Pictured, Sorted,
                          UniqueIds, Known, Target, Head
      <3> QED BY <2>2, <3>2, <3>4
    <2>4. ASSUME NEW y \in Session,
                 \/ Opens(w, y) \/ Looks(w, y) \/ Plans(w, y)
                 \/ \E t \in ThesisIds : Expires(w, y, t)
          PROVE  Standing'
      <3>1. Alone(w, y)
        BY <2>4 DEF Opens, Looks, Plans, Expires
      <3> QED BY <2>1, <2>3, <2>4, <3>1, TaskFits
    <2>5. ASSUME NEW y \in Session, (\E a, new : Buys(w, y, a, new)) \/ (\E a : Sells(w, y, a))
          PROVE  Standing'
      <3>1. Alone(w, y)
        BY <2>5 DEF Buys, Sells, Pays
      <3> QED BY <2>1, <2>3, <2>5, <3>1, FillFits
    <2>6. ASSUME NEW y \in Session, NEW sym \in Symbols, NEW new \in ThesisIds, Drafts(w, y, sym, new)
          PROVE  Standing'
      <3>1. Alone(w, y)
        BY <2>6 DEF Drafts
      <3> QED BY <2>1, <2>3, <2>6, <3>1, DraftFits
    <2>7. CASE Clears(w) \/ Commits(w) \/ FinishTickWithReset(w)
      <3>1. Home' /\ session'[w] = IdleSession
        BY <2>1, <2>7, EndsHome
      <3>2. Fit(IdleSession)'
        BY <3>1, IdleFitsNext
      <3>3. Fit(session[w])'
        BY <3>1, <3>2 DEF Fit, VisibleTheses, VisibleRows, Pictured, Sorted, Known, Target, Head
      <3> QED BY <2>2, <3>1, <3>3
    <2> QED BY <1>1, <2>4, <2>5, <2>6, <2>7 DEF TaskKind
  <1>2. CASE CommitReset
    <2>1. /\ theses' = Cancelled(theses) /\ session' = session /\ positions' \subseteq positions
          /\ \A w \in Workers : session[w].fills = 0
      BY <1>2 DEF CommitReset
    <2>2. \A t \in ThesisIds : theses'[t].status \notin Live /\ theses'[t].symbol = theses[t].symbol
      BY <1>s, <2>1, CancelledStatus
    <2> QED BY <2>1, <2>2, OutsideFits
  <1>3. ASSUME NEW u \in ThesisIds, UpdateThesis(u) PROVE Standing'
    <2>1. \A t \in ThesisIds : /\ theses'[t].symbol = theses[t].symbol
                               /\ theses'[t].status \in Live => theses'[t] = theses[t]
      BY <1>3, PatchEffect
    <2>2. session' = session /\ positions' = positions
      BY <1>3 DEF UpdateThesis
    <2> QED BY <2>1, <2>2, OutsideFits
  <1>4. ASSUME UNCHANGED <<theses, positions, session>> PROVE Standing'
    BY <1>4, OutsideFits
  <1> QED BY <1>1, <1>2, <1>3, <1>4, Kinds DEF Tables

LEMMA InitStanding == Init => Standing
  <1> SUFFICES ASSUME Init PROVE Standing
    OBVIOUS
  <1>1. theses = Unread /\ positions = {} /\ session = [w \in Workers |-> IdleSession]
    BY DEF Init
  <1>2. \A t \in ThesisIds : theses[t].status \notin Live
    BY <1>1 DEF Unread, Blank, Live
  <1>3. Home
    BY <1>1, <1>2, NothingLive DEF Home, UniqueIds
  <1>4. Fit(IdleSession)
    BY <1>3, InitTypes, IdleFits
  <1> QED BY <1>1, <1>3, <1>4 DEF Standing

LEMMA DeskStanding == ASSUME OneWorker, PatchStatuses \cap Live = {} PROVE Spec => []Standing
  <1>1. TypeInv /\ TypeInv' /\ Sane /\ Standing /\ [Next]_vars => Standing'
    BY StepStanding
  <1> QED BY <1>1, InitStanding, DeskTypes, DeskSane, PTL DEF Spec

(* With one worker, and unless a PATCH makes a thesis live again, a symbol *)
(* has one standing thesis at most, whatever ticks, research cycles,       *)
(* resets and lost tasks do.  (_store_thesis, monitor_price_triggers)      *)
THEOREM OneThesisPerSymbol ==
    ASSUME OneWorker, PatchStatuses \cap Live = {} PROVE Spec => []OneLiveThesis
  <1>1. Standing => OneLiveThesis
    BY DEF Standing, Home, Distinct, OneLiveThesis
  <1> QED BY <1>1, DeskStanding, PTL

(* Likewise, a thesis that counts as entered has its position: no crash,   *)
(* stale fill, sale for another thesis or reset leaves it without.         *)
THEOREM EnteredIsHeld ==
    ASSUME OneWorker, PatchStatuses \cap Live = {} PROVE Spec => []EnteredHasPosition
  <1>1. Standing => EnteredHasPosition
    BY DEF Standing, Home, Covered, EnteredHasPosition
  <1> QED BY <1>1, DeskStanding, PTL
=============================================================================
