--------------------------- MODULE CrewRuns_proofs ---------------------------
(* Proofs about CrewRuns for any runs, requests, assets, symbols and       *)
(* limits: what others see of a run is whole.                              *)
EXTENDS CrewRuns, FiniteSetTheorems, WellFoundedInduction, TLAPS

-----------------------------------------------------------------------------
(* Sets of assets: they are finite and have a first and a last member. *)

LEMMA AssetsFinite ==
    ASSUME NEW S \in SUBSET Assets
    PROVE  IsFiniteSet(S) /\ Cardinality(S) \in Nat /\ S \subseteq Nat
  <1>1. IsFiniteSet(Assets)
    BY CrewRunsAssumption, FS_Interval DEF CrewRunsAssumption, Assets
  <1>2. IsFiniteSet(S)
    BY <1>1, FS_Subset
  <1> QED BY <1>2, FS_CardinalityType DEF Assets

(* Of the parts of a finite set that belong to its members, one has no     *)
(* smaller one among them.                                                 *)
LEMMA SmallestPart ==
    ASSUME NEW S \in SUBSET Assets, S # {}, NEW part \in [S -> SUBSET S]
    PROVE  \E m \in S : \A a \in S : part[a] \subseteq part[m] => part[a] = part[m]
  <1> DEFINE Family == {part[k] : k \in S}
  <1>1. IsFiniteSet(S)
    BY AssetsFinite
  <1>2. IsWellFoundedOn(StrictSubsetOrdering(S), FiniteSubsetsOf(S))
    BY FS_StrictSubsetOrderingWellFounded
  <1>3. FiniteSubsetsOf(S) = SUBSET S
    BY <1>1, FS_FiniteSubsetsOfFinite
  <1>4. Family \subseteq FiniteSubsetsOf(S) /\ Family # {}
    BY <1>3
  <1>5. PICK T \in Family : \A U \in Family : <<U, T>> \notin StrictSubsetOrdering(S)
    <2> HIDE DEF Family
    <2> QED BY <1>2, <1>4, WFMin
  <1>6. PICK m \in S : T = part[m]
    BY <1>5
  <1>7. ASSUME NEW a \in S, part[a] \subseteq part[m] PROVE part[a] = part[m]
    <2>1. <<part[a], part[m]>> \notin StrictSubsetOrdering(S)
      BY <1>5, <1>6
    <2> QED BY <1>7, <2>1 DEF StrictSubsetOrdering
  <1> QED BY <1>7

(* What remains above the last member is smallest. *)
LEMMA LastExists ==
    ASSUME NEW S \in SUBSET Assets, S # {}
    PROVE  \E m \in S : \A a \in S : a <= m
  <1> DEFINE above == [k \in S |-> {a \in S : k <= a}]
  <1>1. S \subseteq Int
    BY AssetsFinite
  <1>2. above \in [S -> SUBSET S]
    OBVIOUS
  <1>3. PICK m \in S : \A a \in S : above[a] \subseteq above[m] => above[a] = above[m]
    <2> HIDE DEF above
    <2> QED BY <1>2, SmallestPart
  <1>4. ASSUME NEW a \in S, a > m PROVE FALSE
    <2>1. a \in Int /\ m \in Int /\ \A c \in S : c \in Int
      BY <1>1
    <2>2. above[a] \subseteq above[m]
      <3>1. \A c \in S : a <= c => m <= c
        BY <1>4, <2>1
      <3>2. above[a] = {c \in S : a <= c} /\ above[m] = {c \in S : m <= c}
        OBVIOUS
      <3> HIDE DEF above
      <3> QED BY <3>1, <3>2
    <2>3. above[a] = above[m]
      BY <1>3, <2>2
    <2>4. m \in above[m] /\ m \notin above[a]
      BY <1>4, <2>1
    <2> QED BY <2>3, <2>4
  <1> QED BY <1>1, <1>4

LEMMA FirstExists ==
    ASSUME NEW S \in SUBSET Assets, S # {}
    PROVE  \E m \in S : \A a \in S : m <= a
  <1> DEFINE below == [k \in S |-> {a \in S : a <= k}]
  <1>1. S \subseteq Int
    BY AssetsFinite
  <1>2. below \in [S -> SUBSET S]
    OBVIOUS
  <1>3. PICK m \in S : \A a \in S : below[a] \subseteq below[m] => below[a] = below[m]
    <2> HIDE DEF below
    <2> QED BY <1>2, SmallestPart
  <1>4. ASSUME NEW a \in S, a < m PROVE FALSE
    <2>1. a \in Int /\ m \in Int /\ \A c \in S : c \in Int
      BY <1>1
    <2>2. below[a] \subseteq below[m]
      <3>1. \A c \in S : c <= a => c <= m
        BY <1>4, <2>1
      <3>2. below[a] = {c \in S : c <= a} /\ below[m] = {c \in S : c <= m}
        OBVIOUS
      <3> HIDE DEF below
      <3> QED BY <3>1, <3>2
    <2>3. below[a] = below[m]
      BY <1>3, <2>2
    <2>4. m \in below[m] /\ m \notin below[a]
      BY <1>4, <2>1
    <2> QED BY <2>3, <2>4
  <1> QED BY <1>1, <1>4

LEMMA MinIsMember == ASSUME NEW S \in SUBSET Assets, S # {} PROVE Min(S) \in S
  BY FirstExists DEF Min

(* A symbol is taken once, and no more symbols than allowed. *)
Sound(S) ==
    /\ \A a, b \in S : SymbolOf[a] = SymbolOf[b] => a = b
    /\ Cardinality(S) <= MaxSymbols

LEMMA SelectionIsSound ==
    ASSUME NEW ready \in SUBSET Assets
    PROVE  Selection(ready) \in SUBSET Assets /\ Sound(Selection(ready))
  <1> DEFINE P == Preferred(ready)
             S == Selection(ready)
             Upto(m) == {b \in P : b <= m}
  <1>1. P \in SUBSET Assets /\ S \in SUBSET P
    BY DEF Preferred, Selection
  <1>2. \A a, b \in P : SymbolOf[a] = SymbolOf[b] => a = b
    <2> SUFFICES ASSUME NEW a \in P, NEW b \in P, SymbolOf[a] = SymbolOf[b] PROVE a = b
      OBVIOUS
    <2>1. a <= b /\ b <= a /\ a \in Int /\ b \in Int
      BY AssetsFinite DEF Preferred
    <2> QED BY <2>1
  <1>3. Cardinality(S) <= MaxSymbols
    <2>1. CASE S = {}
      <3>1. Cardinality(S) = 0
        BY <2>1, FS_EmptySet
      <3> QED BY <3>1, CrewRunsAssumption DEF CrewRunsAssumption
    <2>2. CASE S # {}
      <3>1. PICK m \in S : \A a \in S : a <= m
        <4> HIDE DEF S, P
        <4> QED BY <1>1, <2>2, LastExists
      <3>2. Cardinality(Upto(m)) <= MaxSymbols
        BY <3>1 DEF Selection
      <3>3. S \subseteq Upto(m) /\ Upto(m) \in SUBSET Assets
        BY <1>1, <3>1
      <3>4. Cardinality(S) <= Cardinality(Upto(m)) /\ Cardinality(S) \in Nat /\ Cardinality(Upto(m)) \in Nat
        <4> HIDE DEF S, Upto
        <4> QED BY <3>3, AssetsFinite, FS_Subset
      <3> QED BY <3>2, <3>4, CrewRunsAssumption DEF CrewRunsAssumption
    <2> QED BY <2>1, <2>2
  <1> QED BY <1>1, <1>2, <1>3 DEF Sound

(* A part of a sound selection is sound. *)
LEMMA PartIsSound ==
    ASSUME NEW S \in SUBSET Assets, Sound(S), NEW T \in SUBSET S
    PROVE  Sound(T)
  <1>1. Cardinality(T) <= Cardinality(S) /\ Cardinality(T) \in Nat /\ Cardinality(S) \in Nat
    BY AssetsFinite, FS_Subset
  <1> QED BY <1>1, CrewRunsAssumption DEF Sound, CrewRunsAssumption
-----------------------------------------------------------------------------
(* The invariant. *)

WorkSet == [at : {"ready", "deciding", "stepping", "over"}, auto : BOOLEAN, holds : BOOLEAN,
            todo : SUBSET Assets, selected : SUBSET Assets, failed : SUBSET Assets,
            made : SUBSET Assets, executed : SUBSET Assets,
            rejected : SUBSET Assets, filled : SUBSET Assets]

Busy(w) == w.at \in {"deciding", "stepping"}

(* What a run has done so far: each asset is still to do, or it failed, or *)
(* it has its recommendation, of which some were executed, some rejected.  *)
Consistent(w) ==
    /\ w.at = "ready" => w = Ready
    /\ w.at = "stepping" => w.todo # {}
    /\ Busy(w) => /\ w.selected = w.made \cup w.failed /\ w.made \cap w.failed = {}
                  /\ w.todo \cap w.selected = {}
                  /\ w.executed \subseteq w.made /\ w.rejected \subseteq w.made
                  /\ w.executed \cap w.rejected = {} /\ w.filled \subseteq w.executed
                  /\ Sound(w.selected \cup w.todo)

Nothing(r) == \A a \in Assets : recs[<<r, a>>] = NoRec /\ orders[<<r, a>>] = 0

Present(r) == {a \in Assets : recs[<<r, a>>].status # "absent"}

Whole(r) ==
    /\ Present(r) = runs[r].selected \ work[r].failed /\ runs[r].made = Cardinality(Present(r))
    /\ Sound(runs[r].selected)
    /\ runs[r].executed = Cardinality(Left(r, "executed"))
    /\ runs[r].rejected = Cardinality(Left(r, "rejected"))

RunInv(r) ==
    /\ Consistent(work[r])
    /\ runs[r].status \in {"absent", "failed", "completed"}
    /\ runs[r].status # "completed" => Nothing(r)
    /\ runs[r].status = "completed" => work[r].at = "over" /\ Whole(r)

(* A request that works on a recommendation found it, or will add it. *)
ClickInv(c) ==
    click[c].at # "idle" =>
        /\ click[c].rec \in RecIds
        /\ click[c].new => click[c].rec[2] = 0
        /\ ~click[c].new => recs[click[c].rec].status # "absent"

Inv == TypeOK /\ (\A r \in Runs : RunInv(r)) /\ (\A c \in Clicks : ClickInv(c))

LEMMA WorkTypes ==
    ASSUME TypeOK, NEW r \in Runs
    PROVE  work[r] \in WorkSet /\ work \in [Runs -> WorkSet]
  BY DEF TypeOK, WorkSet

LEMMA InvIsWhole == Inv => RunsAreWhole
  <1> SUFFICES ASSUME Inv PROVE RunsAreWhole
    OBVIOUS
  <1> SUFFICES ASSUME NEW r \in Runs
               PROVE  LET left == Present(r)
                      IN  /\ runs[r].status \in {"absent", "failed", "completed"}
                          /\ runs[r].status # "completed" => left = {} /\ \A a \in Assets : orders[<<r, a>>] = 0
                          /\ runs[r].status = "completed" => Whole(r)
    BY DEF RunsAreWhole, Present, Whole, Sound
  <1>1. RunInv(r)
    BY DEF Inv
  <1> QED BY <1>1 DEF RunInv, Nothing, NoRec, Present

LEMMA InitInv == Init => Inv
  <1> SUFFICES ASSUME Init PROVE Inv
    OBVIOUS
  <1>1. \A r \in Runs, a \in Assets : <<r, a>> \in RecIds
    BY DEF RecIds
  <1>2. TypeOK
    <2>1. NoRun \in [status : {"absent", "failed", "completed", "running", "cancelled"},
                     selected : SUBSET Assets, made : Nat, executed : Nat, rejected : Nat]
      BY DEF NoRun
    <2>2. Ready \in WorkSet
      BY DEF Ready, WorkSet
    <2>3. NoClick \in [at : {"idle", "checking", "stepping"}, rec : RecIds \cup {<<>>}, new : BOOLEAN]
      BY DEF NoClick
    <2>4. NoRec \in [status : Statuses, stored : Statuses]
      BY DEF NoRec, Statuses
    <2> QED BY <2>1, <2>2, <2>3, <2>4 DEF Init, TypeOK, WorkSet
  <1>3. ASSUME NEW r \in Runs PROVE RunInv(r)
    BY <1>1 DEF Init, RunInv, NoRun, Ready, Consistent, Busy, Nothing
  <1>4. ASSUME NEW c \in Clicks PROVE ClickInv(c)
    BY DEF Init, ClickInv, NoClick
  <1> QED BY <1>2, <1>3, <1>4 DEF Inv

-----------------------------------------------------------------------------
(* The steps of a run. *)

(* A run goes on in its own transaction, and nobody sees it. *)
LEMMA WorkKeeps ==
    ASSUME Inv, NEW r \in Runs, NEW w \in WorkSet, Consistent(w),
           runs[r].status # "completed",
           work' = [work EXCEPT ![r] = w], UNCHANGED <<runs, click, recs, orders>>
    PROVE  Inv'
  <1>1. TypeOK'
    <2>1. work' \in [Runs -> WorkSet]
      BY WorkTypes DEF Inv
    <2> QED BY <2>1 DEF Inv, TypeOK, WorkSet
  <1>2. ASSUME NEW q \in Runs PROVE RunInv(q)'
    <2>1. RunInv(q)
      BY DEF Inv
    <2>2. work'[q] = IF q = r THEN w ELSE work[q]
      BY WorkTypes DEF Inv
    <2>3. Consistent(work'[q])
      BY <2>1, <2>2 DEF RunInv
    <2>4. runs'[q].status = "completed" => q # r
      OBVIOUS
    <2>5. Present(q)' = Present(q) /\ Left(q, "executed")' = Left(q, "executed")
          /\ Left(q, "rejected")' = Left(q, "rejected")
      BY DEF Present, Left
    <2> QED BY <2>1, <2>2, <2>3, <2>4, <2>5 DEF RunInv, Nothing, Whole
  <1>3. ASSUME NEW c \in Clicks PROVE ClickInv(c)'
    BY DEF Inv, ClickInv
  <1> QED BY <1>1, <1>2, <1>3 DEF Inv

LEMMA BusyIsUnseen ==
    ASSUME Inv, NEW r \in Runs, work[r].at # "over"
    PROVE  runs[r].status # "completed" /\ Nothing(r) /\ Consistent(work[r])
  BY DEF Inv, RunInv

LEMMA MakeFields ==
    ASSUME NEW w \in WorkSet, NEW a \in Assets
    PROVE  /\ Select(w, a) \in WorkSet /\ Select(w, a).selected = w.selected \cup {a}
           /\ Select(w, a).todo = w.todo /\ Select(w, a).failed = w.failed /\ Select(w, a).made = w.made
           /\ Select(w, a).executed = w.executed /\ Select(w, a).rejected = w.rejected
           /\ Select(w, a).filled = w.filled
           /\ Make(w, a) \in WorkSet /\ Make(w, a).selected = w.selected \cup {a}
           /\ Make(w, a).todo = w.todo /\ Make(w, a).failed = w.failed /\ Make(w, a).made = w.made \cup {a}
           /\ Make(w, a).executed = w.executed /\ Make(w, a).rejected = w.rejected
           /\ Make(w, a).filled = w.filled
  <1>1. /\ Select(w, a) \in WorkSet /\ Select(w, a).selected = w.selected \cup {a}
        /\ Select(w, a).todo = w.todo /\ Select(w, a).failed = w.failed /\ Select(w, a).made = w.made
        /\ Select(w, a).executed = w.executed /\ Select(w, a).rejected = w.rejected
        /\ Select(w, a).filled = w.filled
    BY DEF WorkSet, Select
  <1>2. Make(w, a) = [Select(w, a) EXCEPT !.made = @ \cup {a}]
    BY DEF Make
  <1> QED BY <1>1, <1>2 DEF WorkSet

(* Row is w with its asset a passed over (P is empty) or done: failed (Q), *)
(* or recommended, and then executed (X), rejected (Y), filled (Z).        *)
DoneAs(w, a, row, P, Q, X, Y, Z) ==
    /\ P \subseteq {a} /\ Q \subseteq P /\ X \subseteq P \ Q /\ Y \subseteq P \ Q /\ X \cap Y = {} /\ Z \subseteq X
    /\ row \in WorkSet /\ row.todo = w.todo
    /\ row.selected = w.selected \cup P /\ row.failed = w.failed \cup Q
    /\ row.made = w.made \cup (P \ Q) /\ row.executed = w.executed \cup X
    /\ row.rejected = w.rejected \cup Y /\ row.filled = w.filled \cup Z

(* The current asset is done. *)
LEMMA AssetDone ==
    ASSUME Inv, NEW r \in Runs, Busy(work[r]), work[r].todo # {}, NEW row, Proceed(r, row),
           NEW P, NEW Q, NEW X, NEW Y, NEW Z, DoneAs(work[r], Current(r), row, P, Q, X, Y, Z)
    PROVE  Inv'
  <1> DEFINE w == work[r]
             a == Current(r)
             new == [row EXCEPT !.at = "deciding", !.todo = @ \ {a}]
  <1>1. w \in WorkSet /\ Consistent(w) /\ runs[r].status # "completed"
    BY WorkTypes, BusyIsUnseen DEF Inv, Busy
  <1>2. a \in w.todo
    BY <1>1, MinIsMember DEF Current, WorkSet
  <1>3. /\ new \in WorkSet /\ new.at = "deciding" /\ new.todo = w.todo \ {a}
        /\ new.selected = row.selected /\ new.failed = row.failed /\ new.made = row.made
        /\ new.executed = row.executed /\ new.rejected = row.rejected /\ new.filled = row.filled
    <2>1. row \in WorkSet /\ row.todo = w.todo
      BY DEF DoneAs
    <2> QED BY <2>1 DEF WorkSet
  <1>4. Sound(new.selected \cup new.todo)
    <2>1. new.selected \cup new.todo \subseteq w.selected \cup w.todo
      BY <1>2, <1>3 DEF DoneAs
    <2>2. w.selected \cup w.todo \in SUBSET Assets /\ Sound(w.selected \cup w.todo)
      BY <1>1 DEF Consistent, WorkSet
    <2> QED BY <2>1, <2>2, PartIsSound
  <1>5. Consistent(new)
    <2>0. DoneAs(w, a, row, P, Q, X, Y, Z)
      OBVIOUS
    <2> HIDE DEF new, w, a
    <2>1. /\ w.selected = w.made \cup w.failed /\ w.made \cap w.failed = {}
          /\ w.todo \cap w.selected = {}
          /\ w.executed \subseteq w.made /\ w.rejected \subseteq w.made
          /\ w.executed \cap w.rejected = {} /\ w.filled \subseteq w.executed
      BY <1>1 DEF Consistent, w
    <2>2. /\ P \subseteq {a} /\ new.selected = w.selected \cup P /\ new.failed = w.failed \cup Q
          /\ new.made = w.made \cup (P \ Q) /\ new.executed = w.executed \cup X
          /\ new.rejected = w.rejected \cup Y /\ new.filled = w.filled \cup Z
          /\ new.todo = w.todo \ {a}
          /\ Q \subseteq P /\ X \subseteq P \ Q /\ Y \subseteq P \ Q /\ X \cap Y = {} /\ Z \subseteq X
      BY <1>3, <2>0 DEF DoneAs
    <2>3. a \notin w.made /\ a \notin w.failed
      BY <1>2, <2>1
    <2>4. new.selected = new.made \cup new.failed /\ new.made \cap new.failed = {}
      BY <2>1, <2>2, <2>3
    <2>5. new.todo \cap new.selected = {}
      BY <2>1, <2>2
    <2>6. new.executed \subseteq new.made /\ new.rejected \subseteq new.made /\ new.filled \subseteq new.executed
      BY <2>1, <2>2
    <2>7. new.executed \cap new.rejected = {}
      BY <2>1, <2>2, <2>3
    <2> QED BY <1>3, <1>4, <2>4, <2>5, <2>6, <2>7 DEF Consistent
  <1>6. work' = [work EXCEPT ![r] = new] /\ UNCHANGED <<runs, click, recs, orders>>
    BY DEF Proceed
  <1> HIDE DEF new
  <1> QED BY <1>1, <1>3, <1>5, <1>6, WorkKeeps

LEMMA CurrentIsAsset ==
    ASSUME TypeOK, NEW r \in Runs, work[r].todo # {}
    PROVE  Current(r) \in Assets
  BY WorkTypes, MinIsMember DEF Current, WorkSet

LEMMA PassedOver == ASSUME Inv, NEW r \in Runs, Skip(r) PROVE Inv'
  <1>1. Busy(work[r]) /\ work[r].todo # {} /\ Proceed(r, work[r])
    BY DEF Skip, Deciding, Busy
  <1>2. work[r] \in WorkSet
    BY WorkTypes DEF Inv
  <1>3. DoneAs(work[r], Current(r), work[r], {}, {}, {}, {}, {})
    BY <1>2 DEF DoneAs
  <1> QED BY <1>1, <1>3, AssetDone

LEMMA Failed == ASSUME Inv, NEW r \in Runs, Reject(r) PROVE Inv'
  <1> DEFINE w == work[r]
             a == Current(r)
             row == [Select(w, a) EXCEPT !.failed = @ \cup {a}]
  <1>1. Busy(w) /\ w.todo # {} /\ Proceed(r, row)
    BY DEF Reject, Deciding, Busy
  <1>2. w \in WorkSet /\ a \in Assets
    BY <1>1, WorkTypes, CurrentIsAsset DEF Inv
  <1>3. /\ row \in WorkSet /\ row.todo = w.todo
        /\ row.selected = w.selected \cup {a} /\ row.failed = w.failed \cup {a}
        /\ row.made = w.made /\ row.executed = w.executed /\ row.rejected = w.rejected /\ row.filled = w.filled
    BY <1>2, MakeFields DEF WorkSet
  <1> HIDE DEF row
  <1>4. DoneAs(w, a, row, {a}, {a}, {}, {}, {})
    BY <1>3 DEF DoneAs
  <1> QED BY <1>1, <1>4, AssetDone

LEMMA Declined == ASSUME Inv, NEW r \in Runs, Decline(r) \/ Propose(r) \/ StepNoData(r) PROVE Inv'
  <1> DEFINE w == work[r]
             a == Current(r)
             made == Make(w, a)
             row == [made EXCEPT !.rejected = @ \cup {a}]
  <1>1. Busy(w) /\ w.todo # {} /\ (Proceed(r, row) \/ Proceed(r, made))
    <2>1. w.at = "stepping" => w.todo # {}
      BY DEF Inv, RunInv, Consistent
    <2> QED BY <2>1 DEF Decline, Propose, StepNoData, Deciding, Busy
  <1>2. w \in WorkSet /\ a \in Assets
    BY <1>1, WorkTypes, CurrentIsAsset DEF Inv
  <1>3. /\ made \in WorkSet /\ made.todo = w.todo
        /\ made.selected = w.selected \cup {a} /\ made.failed = w.failed
        /\ made.made = w.made \cup {a} /\ made.executed = w.executed /\ made.rejected = w.rejected
        /\ made.filled = w.filled
    BY <1>2, MakeFields
  <1>4. /\ row \in WorkSet /\ row.todo = made.todo
        /\ row.selected = made.selected /\ row.failed = made.failed
        /\ row.made = made.made /\ row.executed = made.executed /\ row.rejected = made.rejected \cup {a}
        /\ row.filled = made.filled
    <2> HIDE DEF made
    <2> QED BY <1>2, <1>3 DEF WorkSet
  <1> HIDE DEF row, made
  <1>5. DoneAs(w, a, made, {a}, {}, {}, {}, {}) /\ DoneAs(w, a, row, {a}, {}, {}, {a}, {})
    BY <1>3, <1>4 DEF DoneAs
  <1> QED BY <1>1, <1>5, AssetDone

LEMMA Stepped == ASSUME Inv, NEW r \in Runs, Step(r) PROVE Inv'
  <1> DEFINE w == work[r]
             a == Current(r)
             made == Make(w, a)
             X(answer) == IF answer # "none" THEN {a} ELSE {}
             Y(answer) == IF answer = "none" THEN {a} ELSE {}
             Z(answer) == IF answer = "filled" THEN {a} ELSE {}
             row(answer) == [made EXCEPT !.holds = TRUE,
                                !.filled = IF answer = "filled" THEN @ \cup {a} ELSE @,
                                !.executed = IF answer # "none" THEN @ \cup {a} ELSE @,
                                !.rejected = IF answer = "none" THEN @ \cup {a} ELSE @]
  <1>1. PICK answer \in Answers : Proceed(r, row(answer))
    BY DEF Step
  <1>2. Busy(w) /\ w.todo # {}
    BY DEF Step, Busy, Inv, RunInv, Consistent
  <1>3. w \in WorkSet /\ a \in Assets
    BY <1>2, WorkTypes, CurrentIsAsset DEF Inv
  <1>4. /\ made \in WorkSet /\ made.todo = w.todo
        /\ made.selected = w.selected \cup {a} /\ made.failed = w.failed
        /\ made.made = w.made \cup {a} /\ made.executed = w.executed /\ made.rejected = w.rejected
        /\ made.filled = w.filled
    BY <1>3, MakeFields
  <1>5. X(answer) \in SUBSET {a} /\ Y(answer) \in SUBSET {a} /\ X(answer) \cap Y(answer) = {}
        /\ Z(answer) \in SUBSET X(answer)
    OBVIOUS
  <1>6. /\ row(answer) \in WorkSet /\ row(answer).todo = w.todo
        /\ row(answer).selected = w.selected \cup {a} /\ row(answer).failed = w.failed
        /\ row(answer).made = w.made \cup {a}
        /\ row(answer).executed = w.executed \cup X(answer)
        /\ row(answer).rejected = w.rejected \cup Y(answer)
        /\ row(answer).filled = w.filled \cup Z(answer)
    <2> HIDE DEF made
    <2> QED BY <1>3, <1>4 DEF WorkSet
  <1> HIDE DEF row, X, Y, Z
  <1>7. DoneAs(w, a, row(answer), {a}, {}, X(answer), Y(answer), Z(answer))
    BY <1>5, <1>6 DEF DoneAs
  <1> QED BY <1>1, <1>2, <1>7, AssetDone

(* A run that begins, steps on or dies. *)
LEMMA Moved == ASSUME Inv, NEW r \in Runs, Begin(r) \/ Attempt(r) \/ Die(r) PROVE Inv'
  <1>1. work[r] \in WorkSet
    BY WorkTypes DEF Inv
  <1>2. CASE Begin(r)
    <2>1. PICK ready \in SUBSET Assets \ {{}}, auto \in BOOLEAN :
             work' = [work EXCEPT ![r] = [@ EXCEPT !.at = "deciding", !.auto = auto, !.todo = Selection(ready)]]
      BY <1>2 DEF Begin
    <2> DEFINE new == [Ready EXCEPT !.at = "deciding", !.auto = auto, !.todo = Selection(ready)]
    <2>2. work[r] = Ready /\ runs[r].status # "completed"
      BY <1>2, BusyIsUnseen DEF Begin, Consistent
    <2>3. Selection(ready) \in SUBSET Assets /\ Sound(Selection(ready))
      BY SelectionIsSound
    <2>4. new \in WorkSet
      BY <2>3 DEF Ready, WorkSet
    <2>5. Consistent(new)
      <3>1. {} \cup Selection(ready) = Selection(ready)
        OBVIOUS
      <3> QED BY <2>3, <3>1 DEF Consistent, Busy, Ready
    <2>6. work' = [work EXCEPT ![r] = new] /\ UNCHANGED <<runs, click, recs, orders>>
      BY <1>2, <2>1, <2>2, WorkTypes DEF Begin, Shown, Inv
    <2> HIDE DEF new
    <2> QED BY <2>2, <2>4, <2>5, <2>6, WorkKeeps
  <1>3. CASE Attempt(r)
    <2> DEFINE w == work[r]
               new == [w EXCEPT !.at = "stepping"]
    <2>1. Consistent(w) /\ w.at = "deciding" /\ w.todo # {} /\ runs[r].status # "completed"
      BY <1>3, BusyIsUnseen DEF Attempt, Deciding
    <2>2. new \in WorkSet /\ Consistent(new)
      <3> HIDE DEF w
      <3>1. w \in WorkSet
        BY <1>1 DEF w
      <3> QED BY <2>1, <3>1 DEF WorkSet, Consistent, Busy
    <2>3. work' = [work EXCEPT ![r] = new] /\ UNCHANGED <<runs, click, recs, orders>>
      BY <1>3 DEF Attempt
    <2> HIDE DEF new
    <2> QED BY <2>1, <2>2, <2>3, WorkKeeps
  <1>4. CASE Die(r)
    <2>1. Over \in WorkSet /\ Consistent(Over)
      BY DEF Over, Ready, WorkSet, Consistent, Busy
    <2>2. runs[r].status # "completed"
      BY <1>4, BusyIsUnseen DEF Die
    <2>3. work' = [work EXCEPT ![r] = Over] /\ UNCHANGED <<runs, click, recs, orders>>
      BY <1>4 DEF Die, Dropped
    <2> QED BY <2>1, <2>2, <2>3, WorkKeeps
  <1> QED BY <1>2, <1>3, <1>4

-----------------------------------------------------------------------------
(* The ends of a run, and requests to cancel it. *)

RunSet == [status : {"absent", "failed", "completed", "running", "cancelled"},
           selected : SUBSET Assets, made : Nat, executed : Nat, rejected : Nat]

LEMMA RefuseKeeps == ASSUME Inv, NEW r \in Runs, Refuse(r) PROVE Inv'
  <1> DEFINE row == [NoRun EXCEPT !.status = "failed"]
  <1>1. row \in RunSet /\ row.status = "failed" /\ Over \in WorkSet /\ Over.at = "over"
    BY DEF NoRun, RunSet, Over, Ready, WorkSet
  <1>2. /\ work' = [work EXCEPT ![r] = Over] /\ runs' = [runs EXCEPT ![r] = row]
        /\ UNCHANGED <<click, recs, orders>>
    BY DEF Refuse
  <1> HIDE DEF row
  <1>3. TypeOK'
    <2>1. runs \in [Runs -> RunSet] /\ work \in [Runs -> WorkSet]
      BY WorkTypes DEF Inv, TypeOK, RunSet
    <2>2. runs' \in [Runs -> RunSet] /\ work' \in [Runs -> WorkSet]
      BY <1>1, <1>2, <2>1
    <2> QED BY <1>2, <2>2 DEF Inv, TypeOK, RunSet, WorkSet
  <1>4. ASSUME NEW q \in Runs PROVE RunInv(q)'
    <2>1. RunInv(q)
      BY DEF Inv
    <2>2. CASE q = r
      <3>1. work'[q] = Over /\ runs'[q] = row
        BY <1>2, <2>2, WorkTypes DEF Inv, TypeOK
      <3>2. Nothing(q)'
        BY <1>2, <2>2, BusyIsUnseen DEF Refuse, Nothing
      <3>3. Consistent(work'[q])
        BY <1>1, <3>1 DEF Consistent, Busy
      <3> QED BY <1>1, <3>1, <3>2, <3>3 DEF RunInv
    <2>3. CASE q # r
      <3>1. work'[q] = work[q] /\ runs'[q] = runs[q]
        BY <1>2, <2>3, WorkTypes DEF Inv, TypeOK
      <3>2. Present(q)' = Present(q) /\ Left(q, "executed")' = Left(q, "executed")
            /\ Left(q, "rejected")' = Left(q, "rejected")
        BY <1>2 DEF Present, Left
      <3> QED BY <1>2, <2>1, <3>1, <3>2 DEF RunInv, Nothing, Whole
    <2> QED BY <2>2, <2>3
  <1>5. ASSUME NEW c \in Clicks PROVE ClickInv(c)'
    BY <1>2 DEF Inv, ClickInv
  <1> QED BY <1>3, <1>4, <1>5 DEF Inv

(* Nobody ever finds a running run to cancel. *)
LEMMA CancelKeeps == ASSUME Inv, NEW r \in Runs, Cancel(r) PROVE UNCHANGED vars
  <1>1. runs[r].status # "running"
    BY DEF Inv, RunInv
  <1> QED BY <1>1 DEF Cancel, vars

(* What a run commits: its rows, its orders and a summary that counts them. *)
LEMMA CompleteKeeps == ASSUME Inv, NEW r \in Runs, Complete(r) PROVE Inv'
  <1> DEFINE w == work[r]
             Mine(id) == id[1] = r /\ id[2] \in w.made
             row == [status |-> "completed", selected |-> w.selected, made |-> Cardinality(w.made),
                     executed |-> Cardinality(w.executed), rejected |-> Cardinality(w.rejected)]
             over == [Over EXCEPT !.failed = w.failed]
  <1>1. /\ w \in WorkSet /\ w.at = "deciding" /\ w.todo = {}
        /\ Consistent(w) /\ Nothing(r) /\ runs[r].status # "completed"
    BY WorkTypes, BusyIsUnseen DEF Inv, Complete
  <1>2. /\ w.made \in SUBSET Assets /\ w.executed \in SUBSET w.made /\ w.rejected \in SUBSET w.made
        /\ w.executed \cap w.rejected = {} /\ w.filled \in SUBSET w.made
        /\ w.selected \in SUBSET Assets /\ w.failed \in SUBSET Assets
        /\ w.made = w.selected \ w.failed /\ Sound(w.selected)
    <2>1. w.selected \cup {} = w.selected
      OBVIOUS
    <2> QED BY <1>1, <2>1 DEF Consistent, Busy, WorkSet
  <1>3. row \in RunSet /\ over \in WorkSet /\ over.at = "over" /\ over.failed = w.failed
    BY <1>2, AssetsFinite DEF RunSet, WorkSet, Over, Ready
  <1>4. /\ runs' = [runs EXCEPT ![r] = row] /\ work' = [work EXCEPT ![r] = over]
        /\ recs' = [id \in RecIds |-> IF Mine(id) THEN Row(StatusIn(w, id[2])) ELSE recs[id]]
        /\ orders' = [id \in RecIds |-> IF Mine(id) /\ id[2] \in w.filled THEN 1 ELSE orders[id]]
        /\ UNCHANGED click
    BY DEF Complete
  <1>5. \A q \in Runs, a \in Assets : <<q, a>> \in RecIds
    BY DEF RecIds
  <1>6. \A a : Row(StatusIn(w, a)).status \in Statuses \ {"absent"}
               /\ Row(StatusIn(w, a)) \in [status : Statuses, stored : Statuses]
               /\ Row(StatusIn(w, a)).stored = StatusIn(w, a)
    BY DEF Row, StatusIn, Statuses
  <1>7. TypeOK'
    <2>1. /\ runs \in [Runs -> RunSet] /\ work \in [Runs -> WorkSet]
          /\ recs \in [RecIds -> [status : Statuses, stored : Statuses]] /\ orders \in [RecIds -> Nat]
      BY WorkTypes DEF Inv, TypeOK, RunSet
    <2> HIDE DEF row, over, w, Mine
    <2>2. runs' \in [Runs -> RunSet] /\ work' \in [Runs -> WorkSet]
      BY <1>3, <1>4, <2>1
    <2>3. recs' \in [RecIds -> [status : Statuses, stored : Statuses]]
      BY <1>4, <1>6, <2>1
    <2>4. orders' \in [RecIds -> Nat]
      BY <1>4, <2>1
    <2> QED BY <1>4, <2>2, <2>3, <2>4 DEF Inv, TypeOK, RunSet, WorkSet
  <1>8. RunInv(r)'
    <2>1. work'[r] = over /\ runs'[r] = row
      BY <1>4, WorkTypes DEF Inv, TypeOK
    <2>2. \A a \in Assets : recs'[<<r, a>>] = IF a \in w.made THEN Row(StatusIn(w, a)) ELSE NoRec
      BY <1>1, <1>4, <1>5 DEF Nothing
    <2>3. Present(r)' = w.made
      <3>1. \A a \in Assets : recs'[<<r, a>>].status # "absent" <=> a \in w.made
        BY <1>6, <2>2 DEF NoRec
      <3> QED BY <1>2, <3>1 DEF Present
    <2>4. Left(r, "executed")' = w.executed
      <3>1. \A a \in Assets : recs'[<<r, a>>].stored = "executed" <=> a \in w.executed
        BY <1>2, <1>6, <2>2 DEF NoRec, StatusIn
      <3> QED BY <1>2, <3>1 DEF Left
    <2>5. Left(r, "rejected")' = w.rejected
      <3>1. \A a \in Assets : recs'[<<r, a>>].stored = "rejected" <=> a \in w.rejected
        BY <1>2, <1>6, <2>2 DEF NoRec, StatusIn
      <3> QED BY <1>2, <3>1 DEF Left
    <2>6. Whole(r)'
      BY <1>2, <1>3, <2>1, <2>3, <2>4, <2>5 DEF Whole, Sound
    <2>7. Consistent(work'[r])
      BY <1>3, <2>1 DEF Consistent, Busy
    <2> QED BY <1>3, <2>1, <2>6, <2>7 DEF RunInv
  <1>9. ASSUME NEW q \in Runs, q # r PROVE RunInv(q)'
    <2>1. RunInv(q)
      BY DEF Inv
    <2>2. work'[q] = work[q] /\ runs'[q] = runs[q]
      BY <1>4, <1>9, WorkTypes DEF Inv, TypeOK
    <2>3. \A a \in Assets : recs'[<<q, a>>] = recs[<<q, a>>] /\ orders'[<<q, a>>] = orders[<<q, a>>]
      BY <1>4, <1>5, <1>9
    <2>4. Present(q)' = Present(q) /\ Left(q, "executed")' = Left(q, "executed")
          /\ Left(q, "rejected")' = Left(q, "rejected")
      BY <2>3 DEF Present, Left
    <2> QED BY <2>1, <2>2, <2>3, <2>4 DEF RunInv, Nothing, Whole
  <1>10. ASSUME NEW c \in Clicks PROVE ClickInv(c)'
    <2>1. \A id \in RecIds : recs[id].status # "absent" => recs'[id].status # "absent"
      BY <1>4, <1>6
    <2> QED BY <1>4, <2>1 DEF Inv, ClickInv
  <1> QED BY <1>7, <1>8, <1>9, <1>10 DEF Inv

-----------------------------------------------------------------------------
(* Other requests. *)

(* They write rows that are there, or rows of no run; what a row was first *)
(* committed with stays.                                                   *)
LEMMA RowsOfRunsKept ==
    ASSUME Inv, TypeOK', UNCHANGED <<runs, work>>,
           \A q \in Runs, a \in Assets :
               \/ recs'[<<q, a>>] = recs[<<q, a>>] /\ orders'[<<q, a>>] = orders[<<q, a>>]
               \/ /\ recs[<<q, a>>].status # "absent" /\ recs'[<<q, a>>].status # "absent"
                  /\ recs'[<<q, a>>].stored = recs[<<q, a>>].stored
    PROVE  \A q \in Runs : RunInv(q)'
  <1> SUFFICES ASSUME NEW q \in Runs PROVE RunInv(q)'
    OBVIOUS
  <1>1. RunInv(q)
    BY DEF Inv
  <1>2. Present(q)' = Present(q) /\ Left(q, "executed")' = Left(q, "executed")
        /\ Left(q, "rejected")' = Left(q, "rejected")
    BY DEF Present, Left
  <1>3. Nothing(q) => Nothing(q)'
    BY DEF Nothing, NoRec
  <1> QED BY <1>1, <1>2, <1>3 DEF RunInv, Whole

ClickSet == [at : {"idle", "checking", "stepping"}, rec : RecIds \cup {<<>>}, new : BOOLEAN]

(* What a request notes of its recommendation changes no row. *)
LEMMA NotedKeeps ==
    ASSUME Inv, NEW c \in Clicks, NEW row \in ClickSet, click' = [click EXCEPT ![c] = row],
           UNCHANGED <<runs, work, recs, orders>>,
           row.rec \in RecIds, row.new => row.rec[2] = 0, ~row.new => recs[row.rec].status # "absent"
    PROVE  Inv'
  <1>1. click \in [Clicks -> ClickSet]
    BY DEF Inv, TypeOK, ClickSet
  <1>2. TypeOK'
    <2>1. click' \in [Clicks -> ClickSet]
      BY <1>1
    <2> QED BY <2>1 DEF Inv, TypeOK, ClickSet
  <1>3. \A q \in Runs : RunInv(q)'
    BY <1>2, RowsOfRunsKept
  <1>4. ASSUME NEW d \in Clicks PROVE ClickInv(d)'
    <2>1. click'[d] = IF d = c THEN row ELSE click[d]
      BY <1>1
    <2> QED BY <2>1 DEF Inv, ClickInv
  <1> QED BY <1>2, <1>3, <1>4 DEF Inv

LEMMA NoteTakes == ASSUME Inv, NEW c \in Clicks, Execute(c) \/ ClickAttempt(c) PROVE Inv'
  <1>1. CASE Execute(c)
    <2>1. PICK id \in RecIds :
             /\ recs[id].status # "absent"
             /\ click' = [click EXCEPT ![c] = [at |-> "checking", rec |-> id, new |-> FALSE]]
      BY <1>1 DEF Execute
    <2> DEFINE row == [at |-> "checking", rec |-> id, new |-> FALSE]
    <2>2. row \in ClickSet /\ row.rec = id /\ row.new = FALSE
      BY DEF ClickSet
    <2> HIDE DEF row
    <2>3. click' = [click EXCEPT ![c] = row] /\ UNCHANGED <<runs, work, recs, orders>>
      BY <1>1, <2>1 DEF Execute, row
    <2> QED BY <2>1, <2>2, <2>3, NotedKeeps
  <1>2. CASE ClickAttempt(c)
    <2> DEFINE row == [click[c] EXCEPT !.at = "stepping"]
    <2>1. click[c] \in ClickSet /\ ClickInv(c) /\ click[c].at = "checking"
      BY <1>2 DEF Inv, TypeOK, ClickSet, ClickAttempt
    <2>2. row \in ClickSet /\ row.rec = click[c].rec /\ row.new = click[c].new
      BY <2>1 DEF ClickSet
    <2>3. click' = [click EXCEPT ![c] = row] /\ UNCHANGED <<runs, work, recs, orders>>
      BY <1>2 DEF ClickAttempt
    <2>4. row.rec \in RecIds /\ (row.new => row.rec[2] = 0) /\ (~row.new => recs[row.rec].status # "absent")
      <3> HIDE DEF row
      <3> QED BY <2>1, <2>2 DEF ClickInv
    <2> HIDE DEF row
    <2> QED BY <2>2, <2>3, <2>4, NotedKeeps
  <1> QED BY <1>1, <1>2

(* A recommendation that is added is of no run. *)
LEMMA AddKeeps == ASSUME Inv, NEW c \in Clicks, Add(c) PROVE Inv'
  <1>1. PICK m \in Manual :
           /\ recs[<<m, 0>>].status = "absent"
           /\ \/ recs' = [recs EXCEPT ![<<m, 0>>] = Row("proposed")] /\ UNCHANGED click
              \/ /\ click' = [click EXCEPT ![c] = [at |-> "checking", rec |-> <<m, 0>>, new |-> TRUE]]
                 /\ UNCHANGED recs
    BY DEF Add
  <1>2. <<m, 0>> \in RecIds /\ UNCHANGED <<runs, work, orders>>
    BY DEF RecIds, Add
  <1>3. CASE recs' = [recs EXCEPT ![<<m, 0>>] = Row("proposed")] /\ UNCHANGED click
    <2>1. Row("proposed") \in [status : Statuses, stored : Statuses] /\ Row("proposed").status # "absent"
      BY DEF Row, Statuses
    <2>2. recs \in [RecIds -> [status : Statuses, stored : Statuses]]
      BY DEF Inv, TypeOK
    <2>3. recs' \in [RecIds -> [status : Statuses, stored : Statuses]]
      BY <1>3, <2>1, <2>2
    <2>4. TypeOK'
      BY <1>2, <1>3, <2>3 DEF Inv, TypeOK
    <2>5. \A q \in Runs, a \in Assets : recs'[<<q, a>>] = recs[<<q, a>>]
      <3>1. \A q \in Runs, a \in Assets : <<q, a>> # <<m, 0>> /\ <<q, a>> \in RecIds
        BY DEF Assets, RecIds
      <3> QED BY <1>3, <2>2, <3>1
    <2>6. \A q \in Runs : RunInv(q)'
      BY <1>2, <2>4, <2>5, RowsOfRunsKept
    <2>7. \A id \in RecIds : recs[id].status # "absent" => recs'[id].status # "absent"
      BY <1>3, <2>1, <2>2
    <2>8. ASSUME NEW d \in Clicks PROVE ClickInv(d)'
      BY <1>3, <2>7 DEF Inv, ClickInv
    <2> QED BY <2>4, <2>6, <2>8 DEF Inv
  <1>4. CASE /\ click' = [click EXCEPT ![c] = [at |-> "checking", rec |-> <<m, 0>>, new |-> TRUE]]
             /\ UNCHANGED recs
    <2> DEFINE row == [at |-> "checking", rec |-> <<m, 0>>, new |-> TRUE]
    <2>1. row \in ClickSet /\ row.rec \in RecIds /\ row.rec[2] = 0 /\ row.new = TRUE
      BY <1>2 DEF ClickSet
    <2>2. click' = [click EXCEPT ![c] = row] /\ UNCHANGED <<runs, work, recs, orders>>
      BY <1>2, <1>4
    <2> HIDE DEF row
    <2> QED BY <2>1, <2>2, NotedKeeps
  <1> QED BY <1>1, <1>3, <1>4

(* A request answers: the row it worked on keeps what it was first, or is *)
(* its own new one, of no run. *)
LEMMA AnswerKeeps ==
    ASSUME Inv, NEW c \in Clicks, click[c].at # "idle", NEW status \in {"executed", "rejected"},
           Answer(c, status), orders' \in [RecIds -> Nat],
           \A id \in RecIds : id # click[c].rec => orders'[id] = orders[id]
    PROVE  Inv'
  <1> DEFINE id == click[c].rec
             new == WithStatus(c, status)
  <1>1. /\ id \in RecIds /\ (click[c].new => id[2] = 0)
        /\ (~click[c].new => recs[id].status # "absent")
    BY DEF Inv, ClickInv
  <1>2. /\ recs \in [RecIds -> [status : Statuses, stored : Statuses]] /\ click \in [Clicks -> ClickSet]
        /\ NoClick \in ClickSet
    BY DEF Inv, TypeOK, ClickSet, NoClick
  <1>3. /\ new \in [status : Statuses, stored : Statuses] /\ new.status # "absent"
        /\ (~click[c].new => new.stored = recs[id].stored)
    <2>1. recs[id] \in [status : Statuses, stored : Statuses] /\ status \in Statuses /\ status # "absent"
      BY <1>1, <1>2 DEF Statuses
    <2> HIDE DEF id
    <2>2. [recs[id] EXCEPT !.status = status] \in [status : Statuses, stored : Statuses]
      BY <2>1
    <2> QED BY <2>1, <2>2 DEF WithStatus, Row, id
  <1>4. recs' = [recs EXCEPT ![id] = new] /\ click' = [click EXCEPT ![c] = NoClick] /\ UNCHANGED <<runs, work>>
    BY DEF Answer
  <1> HIDE DEF id, new
  <1>5. TypeOK'
    <2>1. recs' \in [RecIds -> [status : Statuses, stored : Statuses]] /\ click' \in [Clicks -> ClickSet]
      BY <1>2, <1>3, <1>4
    <2> QED BY <1>4, <2>1 DEF Inv, TypeOK, ClickSet
  <1>6. \A q \in Runs : RunInv(q)'
    <2>1. \A q \in Runs, a \in Assets : <<q, a>> \in RecIds /\ (<<q, a>> = id => ~click[c].new)
      BY <1>1 DEF RecIds, Assets
    <2>2. ASSUME NEW q \in Runs, NEW a \in Assets
          PROVE  \/ recs'[<<q, a>>] = recs[<<q, a>>] /\ orders'[<<q, a>>] = orders[<<q, a>>]
                 \/ /\ recs[<<q, a>>].status # "absent" /\ recs'[<<q, a>>].status # "absent"
                    /\ recs'[<<q, a>>].stored = recs[<<q, a>>].stored
      <3>1. CASE <<q, a>> = id
        BY <1>1, <1>2, <1>3, <1>4, <2>1, <3>1
      <3>2. CASE <<q, a>> # id
        BY <1>2, <1>4, <2>1, <3>2 DEF id
      <3> QED BY <3>1, <3>2
    <2> QED BY <1>4, <1>5, <2>2, RowsOfRunsKept
  <1>7. ASSUME NEW d \in Clicks PROVE ClickInv(d)'
    <2>1. \A k \in RecIds : recs[k].status # "absent" => recs'[k].status # "absent"
      BY <1>2, <1>3, <1>4
    <2>2. click'[d] = IF d = c THEN NoClick ELSE click[d]
      BY <1>2, <1>4
    <2> QED BY <2>1, <2>2 DEF Inv, ClickInv, NoClick
  <1> QED BY <1>5, <1>6, <1>7 DEF Inv

LEMMA AnswersKeep == ASSUME Inv, NEW c \in Clicks, ClickBlock(c) \/ ClickStep(c) PROVE Inv'
  <1>1. orders \in [RecIds -> Nat]
    BY DEF Inv, TypeOK
  <1>2. CASE ClickBlock(c)
    <2>1. click[c].at # "idle" /\ Answer(c, "rejected") /\ orders' = orders
      BY <1>2 DEF ClickBlock
    <2> QED BY <1>1, <2>1, AnswerKeeps
  <1>3. CASE ClickStep(c)
    <2>1. PICK answer \in Answers :
             /\ Answer(c, IF answer = "none" THEN "rejected" ELSE "executed")
             /\ orders' = [orders EXCEPT ![click[c].rec] = IF answer = "filled" THEN @ + 1 ELSE @]
      BY <1>3 DEF ClickStep
    <2> DEFINE status == IF answer = "none" THEN "rejected" ELSE "executed"
    <2>2. status \in {"executed", "rejected"} /\ Answer(c, status) /\ click[c].at # "idle"
      BY <1>3, <2>1 DEF ClickStep
    <2>3. orders' \in [RecIds -> Nat] /\ \A id \in RecIds : id # click[c].rec => orders'[id] = orders[id]
      <3>1. click[c].rec \in RecIds => orders[click[c].rec] \in Nat /\ orders[click[c].rec] + 1 \in Nat
        BY <1>1
      <3>2. click[c].rec \in RecIds
        BY <2>2 DEF Inv, ClickInv
      <3>3. PICK n \in Nat : orders' = [orders EXCEPT ![click[c].rec] = n]
        BY <2>1, <3>1, <3>2
      <3> QED BY <1>1, <3>2, <3>3
    <2> HIDE DEF status
    <2> QED BY <2>2, <2>3, AnswerKeeps
  <1> QED BY <1>2, <1>3

-----------------------------------------------------------------------------
LEMMA InvStep == Inv /\ [Next]_vars => Inv'
  <1> SUFFICES ASSUME Inv, [Next]_vars PROVE Inv'
    OBVIOUS
  <1>1. CASE UNCHANGED vars
    <2>1. UNCHANGED <<runs, work, click, recs, orders>>
      BY <1>1 DEF vars
    <2>2. TypeOK'
      BY <2>1 DEF Inv, TypeOK
    <2>3. \A q \in Runs : RunInv(q)'
      BY <2>1, <2>2, RowsOfRunsKept
    <2>4. ASSUME NEW c \in Clicks PROVE ClickInv(c)'
      BY <2>1 DEF Inv, ClickInv
    <2> QED BY <2>2, <2>3, <2>4 DEF Inv
  <1>2. ASSUME NEW r \in Runs, Begin(r) \/ Refuse(r) \/ RunStep(r) \/ Die(r) \/ Cancel(r) PROVE Inv'
    <2>1. CASE Begin(r) \/ Attempt(r) \/ Die(r)
      BY <2>1, Moved
    <2>2. CASE Refuse(r)
      BY <2>2, RefuseKeeps
    <2>3. CASE Skip(r)
      BY <2>3, PassedOver
    <2>4. CASE Reject(r)
      BY <2>4, Failed
    <2>5. CASE Decline(r) \/ Propose(r) \/ StepNoData(r)
      BY <2>5, Declined
    <2>6. CASE Step(r)
      BY <2>6, Stepped
    <2>7. CASE Complete(r)
      BY <2>7, CompleteKeeps
    <2>8. CASE Cancel(r)
      BY <1>1, <2>8, CancelKeeps
    <2> QED BY <1>2, <2>1, <2>2, <2>3, <2>4, <2>5, <2>6, <2>7, <2>8 DEF RunStep
  <1>3. ASSUME NEW c \in Clicks, Execute(c) \/ Add(c) \/ ClickGoesOn(c) PROVE Inv'
    BY <1>3, NoteTakes, AddKeeps, AnswersKeep DEF ClickGoesOn
  <1> QED BY <1>1, <1>2, <1>3 DEF Next

(* Every variable has its type, for any runs, requests and assets.         *)
(* (run_crew_cycle, execute_recommendation)                                *)
THEOREM TypesHold == Spec => []TypeOK
  <1>1. Inv => TypeOK
    BY DEF Inv
  <1> QED BY <1>1, InitInv, InvStep, PTL DEF Spec

(* What others see of a run is whole: all of it or nothing, each selected  *)
(* asset with its recommendation or its failure, no symbol twice and no    *)
(* more than allowed, and a summary that counts what was committed.        *)
(* (run_crew_cycle in its one transaction, execute and cancel beside it)   *)
THEOREM WholeRunsOnly == Spec => []RunsAreWhole
  BY InitInv, InvStep, InvIsWhole, PTL DEF Spec

-----------------------------------------------------------------------------
(* The limit of trades a day.                                              *)
(*                                                                         *)
(* Late are the requests that passed the guardrails and have neither       *)
(* traded nor the account's row.  The one run that may hold the row counts *)
(* its own fills too.  Who passes has counted less than the limit; each    *)
(* that passed before may still add one trade, and that is all.            *)

Requests == Runs \cup Clicks
Seen(r)  == Trades + Cardinality(work[r].filled)
Late     == {r \in Runs : work[r].at = "stepping" /\ ~work[r].holds} \cup {c \in Clicks : click[c].at = "stepping"}

FillsHold == /\ \A r \in Runs : ~work[r].holds => work[r].filled = {}
             /\ \A p, q \in Holders : p = q

LimitInv ==
    /\ IsFiniteSet(FilledOrders) /\ FillsHold
    /\ Trades + Cardinality(Late) < MaxTrades + Cardinality(Requests)
    /\ \A r \in Holders :
          /\ Seen(r) + Cardinality(Late) < MaxTrades + Cardinality(Requests)
          /\ work[r].at = "stepping" => Seen(r) < MaxTrades
          /\ Trades < MaxTrades => Seen(r) <= MaxTrades

LEMMA RequestsCount ==
    ASSUME NEW S \in SUBSET Requests
    PROVE  /\ Cardinality(S) \in Nat /\ Cardinality(Requests) \in Nat /\ Cardinality(S) <= Cardinality(Requests)
           /\ \A T \in SUBSET S : Cardinality(T) \in Nat /\ Cardinality(T) <= Cardinality(S)
           /\ \A q \in Requests \ S : Cardinality(S) < Cardinality(Requests)
           /\ \A q \in S : \A T \in SUBSET (S \ {q}) : Cardinality(T) < Cardinality(S)
  <1>1. ASSUME NEW A, IsFiniteSet(A), NEW T \in SUBSET A
        PROVE  IsFiniteSet(T) /\ Cardinality(T) \in Nat /\ Cardinality(A) \in Nat /\ Cardinality(T) <= Cardinality(A)
    BY <1>1, FS_Subset, FS_CardinalityType
  <1>2. IsFiniteSet(Requests)
    BY CrewRunsAssumption, FS_Union DEF CrewRunsAssumption, Requests
  <1>3. IsFiniteSet(S)
    BY <1>1, <1>2
  <1>4. ASSUME NEW A, IsFiniteSet(A), NEW q \in A, NEW T \in SUBSET (A \ {q})
        PROVE  Cardinality(T) < Cardinality(A)
    <2>1. IsFiniteSet(A \ {q}) /\ Cardinality(A \ {q}) = Cardinality(A) - 1 /\ Cardinality(A) \in Nat
      BY <1>4, FS_RemoveElement, FS_CardinalityType
    <2>2. Cardinality(T) \in Nat /\ Cardinality(T) <= Cardinality(A \ {q})
      BY <1>1, <2>1
    <2> QED BY <2>1, <2>2
  <1>5. ASSUME NEW q \in Requests \ S PROVE Cardinality(S) < Cardinality(Requests)
    BY <1>2, <1>4, <1>5
  <1> QED BY <1>1, <1>2, <1>3, <1>4, <1>5

LEMMA LateRequests == Late \in SUBSET Requests /\ Late' \in SUBSET Requests
  BY DEF Late, Requests

LEMMA HoldersAreNotLate == \A r \in Holders : r \in Requests \ Late
  BY CrewRunsAssumption DEF CrewRunsAssumption, Holders, Late, Requests

(* What the filled orders are, one by one. *)
LEMMA FilledOrder ==
    ASSUME NEW x
    PROVE  x \in FilledOrders <=> \E id \in RecIds : \E n \in 1..orders[id] : x = <<id, n>>
  BY DEF FilledOrders

LEMMA FilledOrderNext ==
    ASSUME NEW x
    PROVE  x \in FilledOrders' <=> \E id \in RecIds : \E n \in 1..orders'[id] : x = <<id, n>>
  BY DEF FilledOrders

LEMMA TradesType ==
    ASSUME LimitInv, Inv
    PROVE  /\ Trades \in Nat /\ MaxTrades \in Nat \ {0}
           /\ \A r \in Runs : Seen(r) \in Nat /\ (~work[r].holds => Seen(r) = Trades)
  <1>1. Trades \in Nat /\ MaxTrades \in Nat \ {0}
    BY CrewRunsAssumption, FS_CardinalityType DEF LimitInv, Trades, CrewRunsAssumption
  <1>2. ASSUME NEW r \in Runs PROVE Seen(r) \in Nat /\ (~work[r].holds => Seen(r) = Trades)
    <2>1. Cardinality(work[r].filled) \in Nat
      BY AssetsFinite DEF Inv, TypeOK
    <2>2. ~work[r].holds => Cardinality(work[r].filled) = 0
      BY FS_EmptySet DEF LimitInv, FillsHold
    <2> QED BY <1>1, <2>1, <2>2 DEF Seen
  <1> QED BY <1>1, <1>2

(* Whoever holds the row has the fills and the place it had. *)
SameHolders ==
    /\ UNCHANGED Holders
    /\ \A r \in Runs : /\ UNCHANGED work[r].filled
                       /\ work'[r].at = "stepping" => work[r].at = "stepping" \/ r \notin Holders

(* Nobody passes, nobody trades. *)
LEMMA Quiet ==
    ASSUME Inv, LimitInv, UNCHANGED orders, SameHolders, Late' \in SUBSET Late
    PROVE  LimitInv'
  <1>1. FilledOrders' = FilledOrders /\ Trades' = Trades
    BY DEF FilledOrders, Trades
  <1>2. \A r \in Runs : work'[r].filled = work[r].filled /\ Seen(r)' = Seen(r)
    BY <1>1 DEF SameHolders, Seen
  <1>3. FillsHold'
    BY <1>2 DEF FillsHold, LimitInv, SameHolders, Holders
  <1>4. /\ Cardinality(Late) \in Nat /\ Cardinality(Late') \in Nat /\ Cardinality(Requests) \in Nat
        /\ Cardinality(Late') <= Cardinality(Late)
    BY LateRequests, RequestsCount
  <1>5. ASSUME NEW r \in Holders'
        PROVE  /\ Seen(r)' + Cardinality(Late') < MaxTrades + Cardinality(Requests)
               /\ work'[r].at = "stepping" => Seen(r)' < MaxTrades
               /\ Trades' < MaxTrades => Seen(r)' <= MaxTrades
    <2>1. r \in Holders /\ r \in Runs
      BY DEF SameHolders, Holders
    <2>2. /\ Seen(r) + Cardinality(Late) < MaxTrades + Cardinality(Requests)
          /\ work[r].at = "stepping" => Seen(r) < MaxTrades
          /\ Trades < MaxTrades => Seen(r) <= MaxTrades
      BY <2>1 DEF LimitInv
    <2>3. Seen(r) \in Nat /\ MaxTrades \in Nat
      BY <2>1, TradesType
    <2> QED BY <1>1, <1>2, <1>4, <2>1, <2>2, <2>3 DEF SameHolders
  <1>6. Trades' + Cardinality(Late') < MaxTrades + Cardinality(Requests)
    BY <1>1, <1>4, TradesType DEF LimitInv
  <1> QED BY <1>1, <1>3, <1>5, <1>6 DEF LimitInv, Requests

(* A request that does not hold the row passes: it counts what is          *)
(* committed.                                                              *)
LEMMA Passes ==
    ASSUME Inv, LimitInv, UNCHANGED orders, SameHolders, Trades < MaxTrades,
           \A r \in Holders : work'[r].at = "stepping" => work[r].at = "stepping"
    PROVE  LimitInv'
  <1>1. FilledOrders' = FilledOrders /\ Trades' = Trades
    BY DEF FilledOrders, Trades
  <1>2. \A r \in Runs : work'[r].filled = work[r].filled /\ Seen(r)' = Seen(r)
    BY <1>1 DEF SameHolders, Seen
  <1>3. FillsHold'
    BY <1>2 DEF FillsHold, LimitInv, SameHolders, Holders
  <1>4. /\ Cardinality(Late') \in Nat /\ Cardinality(Requests) \in Nat
        /\ Cardinality(Late') <= Cardinality(Requests)
    BY LateRequests, RequestsCount
  <1>5. ASSUME NEW r \in Holders'
        PROVE  /\ Seen(r)' + Cardinality(Late') < MaxTrades + Cardinality(Requests)
               /\ work'[r].at = "stepping" => Seen(r)' < MaxTrades
               /\ Trades' < MaxTrades => Seen(r)' <= MaxTrades
    <2>1. r \in Holders /\ r \in Runs
      BY DEF SameHolders, Holders
    <2>2. r \in Requests \ Late'
      BY <1>5, CrewRunsAssumption DEF CrewRunsAssumption, Holders, Late, Requests
    <2>3. Cardinality(Late') < Cardinality(Requests)
      BY <2>2, LateRequests, RequestsCount
    <2>4. Seen(r) \in Nat /\ MaxTrades \in Nat /\ Seen(r) <= MaxTrades
      BY <2>1, TradesType DEF LimitInv
    <2>5. work[r].at = "stepping" => Seen(r) < MaxTrades
      BY <2>1 DEF LimitInv
    <2> QED BY <1>1, <1>2, <1>4, <2>1, <2>3, <2>4, <2>5
  <1>6. Trades' + Cardinality(Late') < MaxTrades + Cardinality(Requests)
    BY <1>1, <1>4, TradesType
  <1> QED BY <1>1, <1>3, <1>5, <1>6 DEF LimitInv, Requests

(* A run alone changes. *)
LEMMA RunChanges ==
    ASSUME Inv, NEW r \in Runs, NEW w \in WorkSet, work' = [work EXCEPT ![r] = w], UNCHANGED click
    PROVE  /\ work'[r] = w /\ \A q \in Runs : q # r => work'[q] = work[q]
           /\ Holders' = IF w.holds THEN Holders \cup {r} ELSE Holders \ {r}
           /\ Late' \ {r} = Late \ {r}
           /\ r \in Late' <=> w.at = "stepping" /\ ~w.holds
           /\ r \in Late <=> work[r].at = "stepping" /\ ~work[r].holds
  <1>1. work'[r] = w /\ \A q \in Runs : q # r => work'[q] = work[q]
    BY WorkTypes DEF Inv
  <1>2. Holders' = IF w.holds THEN Holders \cup {r} ELSE Holders \ {r}
    BY <1>1 DEF Holders
  <1>3. r \notin Clicks
    BY CrewRunsAssumption DEF CrewRunsAssumption
  <1> QED BY <1>1, <1>2, <1>3 DEF Late

LEMMA SameFills ==
    ASSUME Inv, LimitInv, NEW r \in Runs, NEW w \in WorkSet, work' = [work EXCEPT ![r] = w],
           UNCHANGED <<click, orders>>, w.holds = work[r].holds, w.filled = work[r].filled,
           \/ w.at # "stepping"
           \/ work[r].at = "deciding" /\ Seen(r) < MaxTrades
    PROVE  LimitInv'
  <1>1. /\ work'[r] = w /\ \A q \in Runs : q # r => work'[q] = work[q]
        /\ Holders' = IF w.holds THEN Holders \cup {r} ELSE Holders \ {r}
        /\ Late' \ {r} = Late \ {r}
        /\ r \in Late' <=> w.at = "stepping" /\ ~w.holds
    BY RunChanges
  <1>2. Holders' = Holders
    BY <1>1 DEF Holders
  <1>3. CASE w.at # "stepping"
    <2>1. SameHolders /\ Late' \in SUBSET Late
      BY <1>1, <1>2, <1>3 DEF SameHolders
    <2> QED BY <2>1, Quiet
  <1>4. CASE work[r].at = "deciding" /\ Seen(r) < MaxTrades /\ ~work[r].holds
    <2>1. r \notin Holders /\ Trades < MaxTrades
      BY <1>4, TradesType DEF Holders
    <2>2. SameHolders /\ \A q \in Holders : work'[q].at = "stepping" => work[q].at = "stepping"
      BY <1>1, <1>2, <2>1 DEF SameHolders, Holders
    <2> QED BY <2>1, <2>2, Passes
  <1>5. CASE work[r].at = "deciding" /\ Seen(r) < MaxTrades /\ work[r].holds
    <2>1. FilledOrders' = FilledOrders /\ Trades' = Trades
      BY DEF FilledOrders, Trades
    <2>2. \A q \in Runs : work'[q].filled = work[q].filled /\ work'[q].holds = work[q].holds /\ Seen(q)' = Seen(q)
      BY <1>1, <2>1 DEF Seen
    <2>3. FillsHold'
      BY <1>2, <2>2 DEF FillsHold, LimitInv
    <2>4. Late' = Late
      <3>1. r \notin Late' /\ r \notin Late
        BY <1>1, <1>5, HoldersAreNotLate DEF Holders
      <3> QED BY <1>1, <3>1
    <2>5. ASSUME NEW q \in Holders' PROVE work'[q].at = "stepping" => Seen(q)' < MaxTrades
      BY <1>1, <1>2, <1>5, <2>2 DEF LimitInv, Holders
    <2>6. \A q \in Holders' : q \in Holders /\ q \in Runs
      BY <1>2 DEF Holders
    <2> QED BY <2>1, <2>2, <2>3, <2>4, <2>5, <2>6 DEF LimitInv, Requests
  <1> QED BY <1>3, <1>4, <1>5 DEF WorkSet

(* The steps of a run that do not touch the account. *)
LEMMA RunsOn ==
    ASSUME Inv, LimitInv, NEW r \in Runs,
           Begin(r) \/ Skip(r) \/ Reject(r) \/ Decline(r) \/ Propose(r) \/ Attempt(r) \/ StepNoData(r)
    PROVE  LimitInv'
  <1>1. work[r] \in WorkSet
    BY WorkTypes DEF Inv
  <1>2. CASE Begin(r)
    <2>1. PICK ready \in SUBSET Assets \ {{}}, auto \in BOOLEAN :
             work' = [work EXCEPT ![r] = [@ EXCEPT !.at = "deciding", !.auto = auto, !.todo = Selection(ready)]]
      BY <1>2 DEF Begin
    <2> DEFINE new == [work[r] EXCEPT !.at = "deciding", !.auto = auto, !.todo = Selection(ready)]
    <2>2. /\ new \in WorkSet /\ new.at = "deciding"
          /\ new.holds = work[r].holds /\ new.filled = work[r].filled
      BY <1>1, SelectionIsSound DEF WorkSet
    <2>3. work' = [work EXCEPT ![r] = new] /\ UNCHANGED <<click, orders>>
      BY <1>2, <2>1, WorkTypes DEF Begin, Inv
    <2> HIDE DEF new
    <2> QED BY <2>2, <2>3, SameFills
  <1>3. CASE Attempt(r)
    <2> DEFINE new == [work[r] EXCEPT !.at = "stepping"]
    <2>1. new \in WorkSet /\ new.holds = work[r].holds /\ new.filled = work[r].filled
      BY <1>1 DEF WorkSet
    <2>2. work' = [work EXCEPT ![r] = new] /\ UNCHANGED <<click, orders>>
      BY <1>3 DEF Attempt
    <2>3. work[r].at = "deciding" /\ Seen(r) < MaxTrades
      BY <1>3 DEF Attempt, Deciding, Allowed, Seen
    <2> HIDE DEF new
    <2> QED BY <2>1, <2>2, <2>3, SameFills
  <1>4. ASSUME NEW row \in WorkSet, Proceed(r, row), row.holds = work[r].holds, row.filled = work[r].filled
        PROVE  LimitInv'
    <2> DEFINE new == [row EXCEPT !.at = "deciding", !.todo = @ \ {Current(r)}]
    <2>1. /\ new \in WorkSet /\ new.at = "deciding"
          /\ new.holds = work[r].holds /\ new.filled = work[r].filled
      BY <1>4 DEF WorkSet
    <2>2. work' = [work EXCEPT ![r] = new] /\ UNCHANGED <<click, orders>>
      BY <1>4 DEF Proceed
    <2> HIDE DEF new
    <2> QED BY <2>1, <2>2, SameFills
  <1>5. CASE Skip(r)
    BY <1>1, <1>4, <1>5 DEF Skip
  <1> DEFINE a == Current(r)
             chosen == Select(work[r], a)
             made == Make(work[r], a)
  <1>6. ASSUME Reject(r) \/ Decline(r) \/ Propose(r) \/ StepNoData(r)
        PROVE  /\ chosen \in WorkSet /\ chosen.holds = work[r].holds /\ chosen.filled = work[r].filled
               /\ made \in WorkSet /\ made.holds = work[r].holds /\ made.filled = work[r].filled /\ a \in Assets
    <2>1. work[r].todo # {}
      BY <1>6 DEF Reject, Decline, Propose, StepNoData, Deciding, Inv, RunInv, Consistent
    <2>2. a \in Assets
      BY <1>1, <2>1, CurrentIsAsset DEF Inv
    <2> HIDE DEF a
    <2>3. chosen \in WorkSet /\ chosen.holds = work[r].holds /\ chosen.filled = work[r].filled
      BY <1>1, <2>2 DEF WorkSet, Select
    <2>4. made = [chosen EXCEPT !.made = @ \cup {a}]
      BY DEF Make
    <2> HIDE DEF chosen, made
    <2> QED BY <2>2, <2>3, <2>4 DEF WorkSet
  <1>7. CASE Reject(r)
    <2> DEFINE row == [chosen EXCEPT !.failed = @ \cup {a}]
    <2>1. Proceed(r, row)
      BY <1>7 DEF Reject
    <2> HIDE DEF chosen, a
    <2>2. row \in WorkSet /\ row.holds = work[r].holds /\ row.filled = work[r].filled
      BY <1>6, <1>7 DEF WorkSet
    <2> QED BY <1>4, <2>1, <2>2
  <1>8. CASE Decline(r) \/ Propose(r) \/ StepNoData(r)
    <2> DEFINE row == [made EXCEPT !.rejected = @ \cup {a}]
    <2>1. Proceed(r, row) \/ Proceed(r, made)
      BY <1>8 DEF Decline, Propose, StepNoData
    <2> HIDE DEF made, a
    <2>2. row \in WorkSet /\ row.holds = work[r].holds /\ row.filled = work[r].filled
      BY <1>6, <1>8 DEF WorkSet
    <2> QED BY <1>4, <1>6, <1>8, <2>1, <2>2
  <1> QED BY <1>2, <1>3, <1>5, <1>7, <1>8

(* A run that alone may hold the row trades once, or not, and holds it.    *)
LEMMA RunTrades == ASSUME Inv, LimitInv, NEW r \in Runs, Step(r) PROVE LimitInv'
  <1> DEFINE a == Current(r)
             made == Make(work[r], a)
             row(answer) == [made EXCEPT !.holds = TRUE,
                                !.filled = IF answer = "filled" THEN @ \cup {a} ELSE @,
                                !.executed = IF answer # "none" THEN @ \cup {a} ELSE @,
                                !.rejected = IF answer = "none" THEN @ \cup {a} ELSE @]
             new(answer) == [row(answer) EXCEPT !.at = "deciding", !.todo = @ \ {a}]
  <1>1. PICK answer \in Answers : Proceed(r, row(answer))
    BY DEF Step
  <1>2. work[r].at = "stepping" /\ Holders \subseteq {r} /\ work[r].todo # {}
    BY DEF Step, Inv, RunInv, Consistent
  <1>3. work[r] \in WorkSet /\ a \in Assets
    BY <1>2, WorkTypes, CurrentIsAsset DEF Inv
  <1>4. made \in WorkSet /\ made.filled = work[r].filled
    BY <1>3, MakeFields
  <1>5. /\ new(answer) \in WorkSet /\ new(answer).holds = TRUE /\ new(answer).at = "deciding"
        /\ new(answer).filled \in {work[r].filled, work[r].filled \cup {a}}
    <2> HIDE DEF made
    <2>1. /\ row(answer) \in WorkSet /\ row(answer).holds = TRUE
          /\ row(answer).filled \in {work[r].filled, work[r].filled \cup {a}}
      BY <1>3, <1>4 DEF WorkSet
    <2> HIDE DEF row
    <2> QED BY <2>1 DEF WorkSet
  <1>6. work' = [work EXCEPT ![r] = new(answer)] /\ UNCHANGED <<runs, click, recs, orders>>
    BY <1>1 DEF Proceed
  <1> HIDE DEF new, row, made
  <1>7. /\ work'[r] = new(answer) /\ \A q \in Runs : q # r => work'[q] = work[q]
        /\ Holders' = Holders \cup {r}
        /\ Late' \ {r} = Late \ {r} /\ r \notin Late' /\ (r \in Late <=> ~work[r].holds)
    BY <1>2, <1>5, <1>6, RunChanges
  <1>8. FilledOrders' = FilledOrders /\ Trades' = Trades
    BY <1>6 DEF FilledOrders, Trades
  <1>9. Holders' = {r}
    BY <1>2, <1>7
  <1>10. FillsHold'
    <2>1. \A q \in Runs : q # r => work'[q].filled = work[q].filled /\ work'[q].holds = work[q].holds
      BY <1>7
    <2>2. work'[r].holds
      BY <1>5, <1>7
    <2> QED BY <1>9, <2>1, <2>2 DEF FillsHold, LimitInv
  <1>11. Seen(r)' \in Nat /\ Seen(r)' <= Seen(r) + 1
    <2>1. IsFiniteSet(work[r].filled) /\ Cardinality(work[r].filled) \in Nat
      BY <1>3, AssetsFinite DEF WorkSet
    <2>2. Cardinality(work'[r].filled) \in {Cardinality(work[r].filled), Cardinality(work[r].filled) + 1}
      <3>1. work'[r].filled = work[r].filled \/ work'[r].filled = work[r].filled \cup {a}
        BY <1>5, <1>7
      <3>2. Cardinality(work[r].filled \cup {a}) \in {Cardinality(work[r].filled), Cardinality(work[r].filled) + 1}
        BY <2>1, FS_AddElement
      <3> QED BY <3>1, <3>2
    <2> QED BY <1>8, <2>1, <2>2, TradesType DEF Seen
  <1>12. /\ Cardinality(Late) \in Nat /\ Cardinality(Late') \in Nat /\ Cardinality(Requests) \in Nat
         /\ Cardinality(Late') <= Cardinality(Late) /\ Cardinality(Late') < Cardinality(Requests)
         /\ ~work[r].holds => Cardinality(Late') < Cardinality(Late)
    <2>1. Late' \in SUBSET (Late \ {r}) /\ r \in Requests \ Late'
      BY <1>7 DEF Requests
    <2> QED BY <1>7, <2>1, LateRequests, RequestsCount
  <1>13. /\ Trades \in Nat /\ MaxTrades \in Nat /\ Seen(r) \in Nat
         /\ Trades + Cardinality(Late) < MaxTrades + Cardinality(Requests)
         /\ work[r].holds => Seen(r) < MaxTrades
         /\ ~work[r].holds => Seen(r) = Trades
    BY <1>2, TradesType DEF LimitInv, Holders
  <1>14. /\ Seen(r)' + Cardinality(Late') < MaxTrades + Cardinality(Requests)
         /\ Trades < MaxTrades => Seen(r)' <= MaxTrades
         /\ Trades + Cardinality(Late') < MaxTrades + Cardinality(Requests)
    BY <1>11, <1>12, <1>13 DEF WorkSet
  <1>15. work'[r].at = "deciding"
    BY <1>5, <1>7
  <1> QED BY <1>8, <1>9, <1>10, <1>14, <1>15 DEF LimitInv, Requests

(* A run that ends lets the row go: its fills are committed, or none.      *)
LEMMA RunEnds ==
    ASSUME Inv, LimitInv, NEW r \in Runs, NEW w \in WorkSet, w.at = "over", ~w.holds, w.filled = {},
           work' = [work EXCEPT ![r] = w], UNCHANGED click,
           IsFiniteSet(FilledOrders'), Trades' <= Seen(r),
           UNCHANGED orders \/ r \in Holders
    PROVE  LimitInv'
  <1>1. /\ work'[r] = w /\ \A q \in Runs : q # r => work'[q] = work[q]
        /\ Holders' = Holders \ {r} /\ Late' \in SUBSET Late
    BY RunChanges
  <1>2. FillsHold'
    BY <1>1 DEF FillsHold, LimitInv
  <1>3. CASE r \in Holders
    <2>1. Holders' = {}
      BY <1>1, <1>3 DEF LimitInv, FillsHold
    <2>2. /\ Cardinality(Late) \in Nat /\ Cardinality(Late') \in Nat /\ Cardinality(Requests) \in Nat
          /\ Cardinality(Late') <= Cardinality(Late)
      BY <1>1, LateRequests, RequestsCount
    <2>3. Trades' \in Nat /\ Seen(r) \in Nat /\ MaxTrades \in Nat
      BY FS_CardinalityType, TradesType DEF Trades
    <2>4. Seen(r) + Cardinality(Late) < MaxTrades + Cardinality(Requests)
      BY <1>3 DEF LimitInv
    <2> QED BY <1>2, <2>1, <2>2, <2>3, <2>4 DEF LimitInv, Requests
  <1>4. CASE r \notin Holders
    <2>1. work[r].filled = {}
      BY <1>4 DEF LimitInv, FillsHold, Holders
    <2>2. SameHolders
      BY <1>1, <1>4, <2>1 DEF SameHolders
    <2> QED BY <1>1, <1>4, <2>2, Quiet
  <1> QED BY <1>3, <1>4

LEMMA RunStops == ASSUME Inv, LimitInv, NEW r \in Runs, Refuse(r) \/ Die(r) PROVE LimitInv'
  <1>1. Over \in WorkSet /\ Over.at = "over" /\ ~Over.holds /\ Over.filled = {}
    BY DEF Over, Ready, WorkSet
  <1>2. work' = [work EXCEPT ![r] = Over] /\ UNCHANGED <<click, orders>>
    BY DEF Refuse, Die, Dropped
  <1>3. FilledOrders' = FilledOrders /\ Trades' = Trades
    BY <1>2 DEF FilledOrders, Trades
  <1>4. Trades <= Seen(r)
    <2>1. Cardinality(work[r].filled) \in Nat
      BY AssetsFinite DEF Inv, TypeOK
    <2> QED BY <2>1, TradesType DEF Seen
  <1> QED BY <1>1, <1>2, <1>3, <1>4, RunEnds DEF LimitInv

(* The orders a run commits were none before: each is the first of its     *)
(* recommendation.                                                         *)
LEMMA RunCommits == ASSUME Inv, LimitInv, NEW r \in Runs, Complete(r) PROVE LimitInv'
  <1> DEFINE w == work[r]
             over == [Over EXCEPT !.failed = w.failed]
             New == {<<<<r, a>>, 1>> : a \in w.filled}
  <1>1. w \in WorkSet /\ Consistent(w) /\ Busy(w) /\ Nothing(r)
    BY WorkTypes, BusyIsUnseen DEF Inv, Complete, Busy
  <1>2. w.filled \in SUBSET Assets /\ w.filled \in SUBSET w.made
    BY <1>1 DEF Consistent, WorkSet
  <1>3. over \in WorkSet /\ over.at = "over" /\ ~over.holds /\ over.filled = {}
    BY <1>1 DEF Over, Ready, WorkSet
  <1>4. /\ work' = [work EXCEPT ![r] = over] /\ UNCHANGED click
        /\ orders' = [id \in RecIds |-> IF id[1] = r /\ id[2] \in w.made /\ id[2] \in w.filled THEN 1 ELSE orders[id]]
    BY DEF Complete
  <1> HIDE DEF over
  <1>5. \A a \in Assets : <<r, a>> \in RecIds /\ orders[<<r, a>>] = 0
    BY <1>1 DEF RecIds, Nothing
  <1>6. orders \in [RecIds -> Nat]
    BY DEF Inv, TypeOK
  <1>7. ASSUME NEW id \in RecIds
        PROVE  orders'[id] = orders[id] \/ \E a \in w.filled : id = <<r, a>> /\ orders'[id] = 1
    <2>1. id = <<id[1], id[2]>>
      BY DEF RecIds
    <2> QED BY <1>4, <2>1
  <1>8. FilledOrders' \in SUBSET (FilledOrders \cup New)
    <2> SUFFICES ASSUME NEW x \in FilledOrders' PROVE x \in FilledOrders \cup New
      OBVIOUS
    <2>1. PICK id \in RecIds : \E n \in 1..orders'[id] : x = <<id, n>>
      BY FilledOrderNext
    <2>2. PICK n \in 1..orders'[id] : x = <<id, n>>
      BY <2>1
    <2>3. CASE orders'[id] = orders[id]
      BY <2>2, <2>3, FilledOrder
    <2>4. CASE \E a \in w.filled : id = <<r, a>> /\ orders'[id] = 1
      <3>1. n = 1
        BY <2>2, <2>4
      <3> QED BY <2>2, <2>4, <3>1
    <2> QED BY <1>7, <2>3, <2>4
  <1>9. IsFiniteSet(w.filled) /\ Cardinality(w.filled) \in Nat
    BY <1>2, AssetsFinite
  <1>10. IsFiniteSet(New) /\ Cardinality(New) \in Nat /\ Cardinality(New) <= Cardinality(w.filled)
    <2> DEFINE f == [a \in w.filled |-> <<<<r, a>>, 1>>]
    <2>1. f \in Surjection(w.filled, New)
      BY DEF Surjection
    <2> HIDE DEF f, New
    <2> QED BY <1>9, <2>1, FS_Surjection, FS_CardinalityType
  <1>11. /\ IsFiniteSet(FilledOrders') /\ Trades' <= Trades + Cardinality(New)
         /\ Trades' \in Nat /\ Trades \in Nat
    <2> HIDE DEF New
    <2>1. IsFiniteSet(FilledOrders) /\ Cardinality(FilledOrders) \in Nat
      BY FS_CardinalityType DEF LimitInv
    <2>2. /\ IsFiniteSet(FilledOrders \cup New)
          /\ Cardinality(FilledOrders \cup New)
             = Cardinality(FilledOrders) + Cardinality(New) - Cardinality(FilledOrders \cap New)
      BY <1>10, <2>1, FS_Union
    <2>3. Cardinality(FilledOrders \cap New) \in Nat /\ Cardinality(FilledOrders \cup New) \in Nat
      BY <2>1, <2>2, FS_Subset, FS_CardinalityType
    <2>4. IsFiniteSet(FilledOrders') /\ Cardinality(FilledOrders') \in Nat
          /\ Cardinality(FilledOrders') <= Cardinality(FilledOrders \cup New)
      BY <1>8, <2>2, FS_Subset, FS_CardinalityType
    <2> QED BY <1>10, <2>1, <2>2, <2>3, <2>4 DEF Trades
  <1>12. Trades' <= Seen(r)
    BY <1>9, <1>10, <1>11 DEF Seen
  <1>13. r \in Holders \/ UNCHANGED orders
    <2>1. SUFFICES ASSUME ~w.holds PROVE UNCHANGED orders
      BY DEF Holders
    <2>2. w.filled = {}
      BY <2>1 DEF LimitInv, FillsHold
    <2>3. orders' = [id \in RecIds |-> orders[id]]
      BY <1>4, <2>2
    <2> QED BY <1>6, <2>3
  <1> QED BY <1>3, <1>4, <1>11, <1>12, <1>13, RunEnds

(* The other requests. *)
LEMMA ClickChanges ==
    ASSUME Inv, NEW c \in Clicks, NEW row \in ClickSet, click' = [click EXCEPT ![c] = row], UNCHANGED work
    PROVE  /\ Holders' = Holders /\ \A r \in Runs : UNCHANGED work[r]
           /\ Late' \ {c} = Late \ {c} /\ (c \in Late' <=> row.at = "stepping")
           /\ c \in Late <=> click[c].at = "stepping"
  <1>1. click'[c] = row /\ \A d \in Clicks : d # c => click'[d] = click[d]
    BY DEF Inv, TypeOK, ClickSet
  <1>2. c \notin Runs
    BY CrewRunsAssumption DEF CrewRunsAssumption
  <1> QED BY <1>1, <1>2 DEF Late, Holders

LEMMA ClickLooks ==
    ASSUME Inv, LimitInv, NEW c \in Clicks, Execute(c) \/ Add(c) \/ ClickBlock(c)
    PROVE  LimitInv'
  <1>1. UNCHANGED <<work, orders>>
    BY DEF Execute, Add, ClickBlock, Answer
  <1>2. SameHolders
    BY <1>1 DEF SameHolders, Holders
  <1>3. CASE UNCHANGED click
    <2>1. Late' = Late
      BY <1>1, <1>3 DEF Late
    <2> QED BY <1>1, <1>2, <2>1, Quiet
  <1>4. ASSUME NEW row \in ClickSet, row.at # "stepping", click' = [click EXCEPT ![c] = row] PROVE LimitInv'
    <2>1. Late' \in SUBSET Late
      BY <1>1, <1>4, ClickChanges
    <2> QED BY <1>1, <1>2, <2>1, Quiet
  <1>5. CASE Execute(c)
    <2>1. PICK id \in RecIds : click' = [click EXCEPT ![c] = [at |-> "checking", rec |-> id, new |-> FALSE]]
      BY <1>5 DEF Execute
    <2>2. [at |-> "checking", rec |-> id, new |-> FALSE] \in ClickSet
      BY DEF ClickSet
    <2> QED BY <1>4, <2>1, <2>2
  <1>6. CASE Add(c)
    <2>1. PICK m \in Manual :
             \/ UNCHANGED click
             \/ click' = [click EXCEPT ![c] = [at |-> "checking", rec |-> <<m, 0>>, new |-> TRUE]]
      BY <1>6 DEF Add
    <2>2. [at |-> "checking", rec |-> <<m, 0>>, new |-> TRUE] \in ClickSet
      BY DEF ClickSet, RecIds
    <2> QED BY <1>3, <1>4, <2>1, <2>2
  <1>7. CASE ClickBlock(c)
    <2>1. NoClick \in ClickSet /\ NoClick.at # "stepping"
      BY DEF ClickSet, NoClick
    <2>2. click' = [click EXCEPT ![c] = NoClick]
      BY <1>7 DEF ClickBlock, Answer
    <2> QED BY <1>4, <2>1, <2>2
  <1> QED BY <1>5, <1>6, <1>7

LEMMA ClickPasses == ASSUME Inv, LimitInv, NEW c \in Clicks, ClickAttempt(c) PROVE LimitInv'
  <1>1. UNCHANGED <<work, orders>> /\ Trades < MaxTrades
    BY DEF ClickAttempt, Allowed
  <1>2. SameHolders
    BY <1>1 DEF SameHolders, Holders
  <1> QED BY <1>1, <1>2, Passes

(* No run holds the row, so all count the same. *)
LEMMA ClickTrades == ASSUME Inv, LimitInv, NEW c \in Clicks, ClickStep(c) PROVE LimitInv'
  <1>1. click[c].at = "stepping" /\ Holders = {}
    BY DEF ClickStep
  <1>2. PICK answer \in Answers :
           /\ Answer(c, IF answer = "none" THEN "rejected" ELSE "executed")
           /\ orders' = [orders EXCEPT ![click[c].rec] = IF answer = "filled" THEN @ + 1 ELSE @]
    BY DEF ClickStep
  <1> DEFINE id == click[c].rec
             more == <<id, orders[id] + 1>>
  <1>3. id \in RecIds /\ orders \in [RecIds -> Nat]
    BY <1>1 DEF Inv, ClickInv, TypeOK
  <1>4. \A k \in RecIds : orders'[k] = orders[k] \/ (k = id /\ orders'[k] = orders[k] + 1)
    BY <1>2, <1>3
  <1>5. FilledOrders' \in SUBSET (FilledOrders \cup {more})
    <2> SUFFICES ASSUME NEW x \in FilledOrders' PROVE x \in FilledOrders \cup {more}
      OBVIOUS
    <2>1. PICK k \in RecIds : \E n \in 1..orders'[k] : x = <<k, n>>
      BY FilledOrderNext
    <2>2. PICK n \in 1..orders'[k] : x = <<k, n>>
      BY <2>1
    <2>3. orders[k] \in Nat
      BY <1>3
    <2>4. CASE n \in 1..orders[k]
      BY <2>2, <2>4, FilledOrder
    <2>5. CASE n \notin 1..orders[k]
      <3>1. k = id /\ n = orders[id] + 1
        BY <1>4, <2>2, <2>3, <2>5
      <3> QED BY <2>2, <3>1
    <2> QED BY <2>4, <2>5
  <1> HIDE DEF more
  <1>6. IsFiniteSet(FilledOrders') /\ Trades' \in Nat /\ Trades' <= Trades + 1
    <2>1. IsFiniteSet(FilledOrders) /\ Cardinality(FilledOrders) \in Nat
      BY FS_CardinalityType DEF LimitInv
    <2>2. /\ IsFiniteSet(FilledOrders \cup {more})
          /\ Cardinality(FilledOrders \cup {more}) <= Cardinality(FilledOrders) + 1
      BY <2>1, FS_AddElement
    <2>3. Cardinality(FilledOrders \cup {more}) \in Nat
      BY <2>2, FS_CardinalityType
    <2>4. IsFiniteSet(FilledOrders') /\ Cardinality(FilledOrders') \in Nat
          /\ Cardinality(FilledOrders') <= Cardinality(FilledOrders \cup {more})
      BY <1>5, <2>2, FS_Subset, FS_CardinalityType
    <2> QED BY <2>1, <2>2, <2>3, <2>4 DEF Trades
  <1>7. /\ Holders' = {} /\ \A r \in Runs : UNCHANGED work[r]
        /\ c \in Late /\ Late' \in SUBSET (Late \ {c})
    <2>1. NoClick \in ClickSet /\ NoClick.at # "stepping"
      BY DEF ClickSet, NoClick
    <2>2. click' = [click EXCEPT ![c] = NoClick] /\ UNCHANGED work
      BY <1>2 DEF Answer
    <2> QED BY <1>1, <2>1, <2>2, ClickChanges
  <1>8. Cardinality(Late') < Cardinality(Late) /\ Cardinality(Late') \in Nat /\ Cardinality(Late) \in Nat
        /\ Cardinality(Requests) \in Nat
    <2>1. Late' \in SUBSET Late
      BY <1>7
    <2> QED BY <1>7, <2>1, LateRequests, RequestsCount
  <1>9. FillsHold'
    BY <1>7 DEF FillsHold, LimitInv
  <1>10. Trades' + Cardinality(Late') < MaxTrades + Cardinality(Requests)
    BY <1>6, <1>8, TradesType DEF LimitInv
  <1> QED BY <1>6, <1>7, <1>9, <1>10 DEF LimitInv, Requests

LEMMA LimitStep == Inv /\ LimitInv /\ [Next]_vars => LimitInv'
  <1> SUFFICES ASSUME Inv, LimitInv, [Next]_vars PROVE LimitInv'
    OBVIOUS
  <1>1. CASE UNCHANGED vars
    <2>1. UNCHANGED <<work, click, orders>>
      BY <1>1 DEF vars
    <2>2. SameHolders /\ Late' \in SUBSET Late
      BY <2>1 DEF SameHolders, Holders, Late
    <2> QED BY <2>1, <2>2, Quiet
  <1>2. ASSUME NEW r \in Runs, Begin(r) \/ Refuse(r) \/ RunStep(r) \/ Die(r) \/ Cancel(r) PROVE LimitInv'
    <2>1. CASE Begin(r) \/ Skip(r) \/ Reject(r) \/ Decline(r) \/ Propose(r) \/ Attempt(r) \/ StepNoData(r)
      BY <2>1, RunsOn
    <2>2. CASE Step(r)
      BY <2>2, RunTrades
    <2>3. CASE Refuse(r) \/ Die(r)
      BY <2>3, RunStops
    <2>4. CASE Complete(r)
      BY <2>4, RunCommits
    <2>5. CASE Cancel(r)
      BY <1>1, <2>5, CancelKeeps
    <2> QED BY <1>2, <2>1, <2>2, <2>3, <2>4, <2>5 DEF RunStep
  <1>3. ASSUME NEW c \in Clicks, Execute(c) \/ Add(c) \/ ClickGoesOn(c) PROVE LimitInv'
    BY <1>3, ClickLooks, ClickPasses, ClickTrades DEF ClickGoesOn
  <1> QED BY <1>1, <1>2, <1>3 DEF Next

LEMMA InitLimit == Init => LimitInv
  <1> SUFFICES ASSUME Init PROVE LimitInv
    OBVIOUS
  <1>1. FilledOrders = {}
    BY FilledOrder DEF Init
  <1>2. Holders = {} /\ Late = {} /\ \A r \in Runs : work[r].filled = {}
    BY DEF Init, Holders, Late, Ready, NoClick
  <1>3. IsFiniteSet(FilledOrders) /\ Trades = 0 /\ Cardinality(Late) = 0
    BY <1>1, <1>2, FS_EmptySet DEF Trades
  <1>4. Cardinality(Requests) \in Nat /\ MaxTrades \in Nat \ {0}
    BY RequestsCount, CrewRunsAssumption DEF CrewRunsAssumption
  <1> QED BY <1>2, <1>3, <1>4 DEF LimitInv, FillsHold

(* However many runs and requests overlap, and however often one           *)
(* recommendation is executed again, the trades of a day pass the limit by *)
(* less than there are requests.  (check_guardrails before                 *)
(* attempt_autonomous_execution, in run_crew_cycle's transaction and in    *)
(* execute_recommendation)                                                 *)
THEOREM TradesStayNear == Spec => []TradesNearAllowance
  <1>1. Inv /\ LimitInv => TradesNearAllowance
    <2> SUFFICES ASSUME Inv, LimitInv PROVE TradesNearAllowance
      OBVIOUS
    <2>1. Cardinality(Late) \in Nat /\ Cardinality(Requests) \in Nat
      BY LateRequests, RequestsCount
    <2>2. Trades + Cardinality(Late) < MaxTrades + Cardinality(Requests)
      BY DEF LimitInv
    <2> QED BY <2>1, <2>2, TradesType DEF TradesNearAllowance, Requests
  <1> QED BY <1>1, InitInv, InitLimit, InvStep, LimitStep, PTL DEF Spec
=============================================================================
