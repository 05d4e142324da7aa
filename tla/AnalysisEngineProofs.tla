------------------------ MODULE AnalysisEngineProofs ------------------------
(***************************************************************************)
(* First the structure state machine by itself, for every set of prices    *)
(* and every sequence of rows: its invariants, and that it implements the  *)
(* abstract trend cycle.  Then the analysis of a frame: every engine runs  *)
(* inside it as its own module says, so what is proved of the engines over *)
(* abstract rows holds of it, and what the engines together say of the     *)
(* candles they were given.                                                *)
(***************************************************************************)
EXTENDS AnalysisEngine, TLAPS

-----------------------------------------------------------------------------
(* Directions, sides and labels.                                           *)

LEMMA DirFacts ==
  ASSUME NEW d \in Dir
  PROVE  /\ Opp(d) \in Dir /\ Opp(d) # d /\ Opp(Opp(d)) = d
         /\ Mss(d) \in States /\ Mss(d) \notin Dir /\ Mss(d) # "neutral"
         /\ d \in States /\ d # "neutral"
         /\ ProgressSide(d) \in Side /\ PullbackSide(d) \in Side
         /\ ProgressLabel(d) \in Labels /\ PullbackLabel(d) \in Labels
         /\ ProgressLabel(d) # PullbackLabel(d)
         /\ \A e \in Dir : e = d \/ e = Opp(d)
         /\ \A e \in Dir : Mss(e) = Mss(d) => e = d
BY DEF Dir, Opp, Mss, States, Side, ProgressSide, PullbackSide, Labels,
       ProgressLabel, PullbackLabel

\* A labelled swing has a price, and was compared with a swing of its cycle.
LEMMA LabelFacts ==
  ASSUME TypeOK, NEW c \in Rows
  PROVE  /\ Label(c) \in Labels \cup {None}
         /\ \A d \in Dir : Progresses(d, c) =>
              /\ SwingPrice(c, ProgressSide(d)) \in Price
              /\ cyclePrev[ProgressSide(d)] # None
         /\ \A d \in Dir : PullsBack(d, c) =>
              /\ SwingPrice(c, PullbackSide(d)) \in Price
              /\ cyclePrev[PullbackSide(d)] # None
         /\ Label(c) # None =>
              \E d \in Dir : d = LabelDir(Label(c)) /\ (Progresses(d, c) \/ PullsBack(d, c))
<1>1. c.high \in MaybePrice /\ c.low \in MaybePrice
  BY DEF Rows, Candle
<1>2. None \notin Labels
  BY NoneAssumption DEF Labels
<1>3. /\ LowLabel(c) \in {None, "HL", "LL"}
      /\ LowLabel(c) # None => c.low # None /\ cyclePrev["low"] # None
  BY <1>2 DEF LowLabel
<1>4. /\ HighLabel(c) \in {None, "HH", "LH"}
      /\ HighLabel(c) # None => c.high # None /\ cyclePrev["high"] # None
  BY <1>2 DEF HighLabel
<1>5. /\ Label(c) \in Labels \cup {None}
      /\ Label(c) \in {"HL", "LL"} => c.low # None /\ cyclePrev["low"] # None
      /\ Label(c) \in {"HH", "LH"} => c.high # None /\ cyclePrev["high"] # None
  BY <1>2, <1>3, <1>4 DEF Label, Labels
<1>6. ASSUME NEW d \in Dir, Progresses(d, c)
      PROVE  /\ SwingPrice(c, ProgressSide(d)) \in Price
             /\ cyclePrev[ProgressSide(d)] # None
  BY <1>1, <1>5, <1>6 DEF Progresses, ProgressLabel, ProgressSide, SwingPrice, Dir, MaybePrice
<1>7. ASSUME NEW d \in Dir, PullsBack(d, c)
      PROVE  /\ SwingPrice(c, PullbackSide(d)) \in Price
             /\ cyclePrev[PullbackSide(d)] # None
  BY <1>1, <1>5, <1>7
     DEF PullsBack, PullbackLabel, PullbackSide, ProgressSide, Opp, SwingPrice, Dir, MaybePrice
<1>8. Label(c) # None =>
        \E d \in Dir : d = LabelDir(Label(c)) /\ (Progresses(d, c) \/ PullsBack(d, c))
  BY <1>5 DEF Labels, LabelDir, Progresses, PullsBack, ProgressLabel, PullbackLabel, Dir
<1> QED
  BY <1>5, <1>6, <1>7, <1>8

LEMMA LatestType ==
  ASSUME NEW f \in [Side -> MaybePrice], NEW c \in Rows
  PROVE  /\ Latest(f, c) \in [Side -> MaybePrice]
         /\ \A s \in Side : SwingPrice(c, s) \in MaybePrice
         /\ \A s \in Side : f[s] # None => Latest(f, c)[s] # None
         /\ \A s \in Side : SwingPrice(c, s) # None => Latest(f, c)[s] # None
BY DEF Latest, Rows, Candle, SwingPrice, Side

LEMMA ReseedType ==
  ASSUME TypeOK, NEW c \in Rows, NEW d \in Dir
  PROVE  Reseed(d, c) \in Guard
<1>1. Latest(detected, c)[PullbackSide(d)] \in MaybePrice
  BY LatestType, DirFacts DEF TypeOK
<1> QED
  BY <1>1 DEF Reseed, Guard, NoGuard, MaybePrice

LEMMA GuardAfterSwingType ==
  ASSUME TypeOK, NEW c \in Rows, NEW d \in Dir
  PROVE  /\ GuardAfterSwing(c, d) \in Guard
         /\ BrokenMssAfterSwing(c, d) \in [Dir -> MaybePrice]
<1>1. SwingPrice(c, PullbackSide(d)) \in MaybePrice
  BY LatestType, DirFacts DEF TypeOK
<1>2. GuardAfterSwing(c, d) \in Guard
  BY <1>1, ReseedType DEF GuardAfterSwing, PullbackGuard, Guard, TypeOK
<1>3. BrokenMssAfterSwing(c, d) \in [Dir -> MaybePrice]
  BY DirFacts DEF BrokenMssAfterSwing, TypeOK, MaybePrice
<1> QED
  BY <1>2, <1>3

LEMMA RecordSwingsType ==
  ASSUME TypeOK, NEW c \in Rows, RecordSwings(c)
  PROVE  /\ pos \in Nat /\ pos' \in Nat /\ pos' = pos + 1
         /\ detected' \in [Side -> MaybePrice]
         /\ candidate' \in [Dir -> MaybePrice]
         /\ candidateRow' \in [Dir -> Nat \cup {None}]
         /\ bosLevel' \in [Dir -> MaybePrice]
<1>1. pos \in Nat /\ pos' \in Nat /\ pos' = pos + 1
  BY RowsAssumption DEF TypeOK, RecordSwings
<1>2. detected' \in [Side -> MaybePrice]
  BY LatestType DEF TypeOK, RecordSwings
<1>3. \A s \in Side : SwingPrice(c, s) \in MaybePrice
  BY LatestType DEF TypeOK
<1>4. candidate' \in [Dir -> MaybePrice] /\ bosLevel' \in [Dir -> MaybePrice]
  BY <1>3, DirFacts DEF TypeOK, RecordSwings
<1>5. candidateRow' \in [Dir -> Nat \cup {None}]
  BY <1>1 DEF TypeOK, RecordSwings
<1> QED
  BY <1>1, <1>2, <1>4, <1>5

LEMMA ColumnsType ==
  ASSUME TypeOK, NEW c \in Rows, NEW e \in EventNames \cup {None},
         NEW d \in Dir \cup {None}, NEW b \in MaybePrice, NEW i \in Nat \cup {None}
  PROVE  Columns(c, e, d, b, i) \in
           [label : Labels \cup {None}, event : EventNames \cup {None},
            direction : Dir \cup {None}, broken : MaybePrice, invalidated : Nat \cup {None}]
BY LabelFacts DEF Columns

LEMMA QuietType ==
  ASSUME TypeOK, NEW c \in Rows
  PROVE  Quiet(c) \in
           [label : Labels \cup {None}, event : EventNames \cup {None},
            direction : Dir \cup {None}, broken : MaybePrice, invalidated : Nat \cup {None}]
BY ColumnsType DEF Quiet, MaybePrice

LEMMA TypeStep ==
  ASSUME TypeOK, [Next]_vars
  PROVE  TypeOK'
<1>1. CASE UNCHANGED vars
  BY <1>1 DEF vars, TypeOK
<1>2. ASSUME NEW c \in Rows, Step(c)
      PROVE  TypeOK'
  <2>1. CASE Collect(c)
    BY <2>1, RecordSwingsType, LatestType, QuietType DEF Collect, TypeOK, guards, mss
  <2>2. ASSUME NEW m \in Dir, Confirm(c, m)
        PROVE  TypeOK'
    <3>1. protected' \in [Dir -> Guard] /\ brokenBos' \in [Dir -> MaybePrice]
      BY <2>2 DEF Confirm, TurnGuards, PullbackGuard, NoGuard, Guard, TypeOK, MaybePrice
    <3>2. row' \in [label : Labels \cup {None}, event : EventNames \cup {None},
                    direction : Dir \cup {None}, broken : MaybePrice, invalidated : Nat \cup {None}]
      BY <2>2, ColumnsType DEF Confirm, EventNames, TypeOK
    <3> QED
      BY <2>2, <3>1, <3>2, RecordSwingsType, DirFacts DEF Confirm, EndMss, TypeOK, MaybePrice
  <2>3. ASSUME NEW m \in Dir, Invalidate(c, m)
        PROVE  TypeOK'
    <3>1. protected' \in [Dir -> Guard]
      BY <2>3, ReseedType, DirFacts DEF Invalidate, TypeOK
    <3>2. row' \in [label : Labels \cup {None}, event : EventNames \cup {None},
                    direction : Dir \cup {None}, broken : MaybePrice, invalidated : Nat \cup {None}]
      BY <2>3, ColumnsType, DirFacts DEF Invalidate, EventNames, TypeOK
    <3> QED
      BY <2>3, <3>1, <3>2, RecordSwingsType, LatestType, DirFacts
         DEF Invalidate, EndMss, TypeOK, MaybePrice
  <2>4. ASSUME NEW m \in Dir, Arm(c, m) \/ Wait(c, m)
        PROVE  TypeOK'
    <3>1. hasPullback' \in [Dir -> BOOLEAN]
      BY <2>4 DEF Arm, Wait, TypeOK, mss
    <3>2. /\ RecordSwings(c) /\ cyclePrev' = Latest(cyclePrev, c) /\ row' = Quiet(c)
          /\ UNCHANGED <<trend, state, protected, brokenMss, originLevel, originIndex, brokenBos>>
      BY <2>4 DEF Arm, Wait, guards, mss
    <3> QED
      BY <3>1, <3>2, RecordSwingsType, LatestType, QuietType DEF TypeOK
  <2>5. ASSUME NEW d \in Dir, ShiftStructure(c, d)
        PROVE  TypeOK'
    <3>1. /\ GuardAfterSwing(c, d) \in Guard /\ GuardAfterSwing(c, d).level \in MaybePrice
          /\ BrokenMssAfterSwing(c, d) \in [Dir -> MaybePrice]
      BY GuardAfterSwingType DEF Guard
    <3>2. protected' \in [Dir -> Guard]
      BY <2>5, <3>1 DEF ShiftStructure, Broken, Guard, TypeOK
    <3>3. row' \in [label : Labels \cup {None}, event : EventNames \cup {None},
                    direction : Dir \cup {None}, broken : MaybePrice, invalidated : Nat \cup {None}]
      BY <2>5, <3>1, ColumnsType, DirFacts DEF ShiftStructure, EventNames, TypeOK
    <3> QED
      BY <2>5, <3>1, <3>2, <3>3, RecordSwingsType, LatestType, DirFacts DEF ShiftStructure, TypeOK
  <2>6. ASSUME NEW d \in Dir, BreakStructure(c, d)
        PROVE  TypeOK'
    <3>1. /\ GuardAfterSwing(c, d) \in Guard
          /\ BrokenMssAfterSwing(c, d) \in [Dir -> MaybePrice]
      BY GuardAfterSwingType
    <3>2. candidate' \in [Dir -> MaybePrice] /\ bosLevel' \in [Dir -> MaybePrice]
      BY <2>6, RecordSwingsType DEF BreakStructure
    <3>3. protected' \in [Dir -> Guard]
      BY <2>6, <3>1, <3>2 DEF BreakStructure, MovedTo, Guard, TypeOK
    <3>4. row' \in [label : Labels \cup {None}, event : EventNames \cup {None},
                    direction : Dir \cup {None}, broken : MaybePrice, invalidated : Nat \cup {None}]
      BY <2>6, <3>2, ColumnsType DEF BreakStructure, EventNames, TypeOK
    <3> QED
      BY <2>6, <3>1, <3>2, <3>3, <3>4, RecordSwingsType, LatestType, DirFacts
         DEF BreakStructure, TypeOK, mss
  <2>7. ASSUME NEW d \in Dir, Continue(c, d)
        PROVE  TypeOK'
    <3>1. protected' \in [Dir -> Guard]
      BY <2>7, GuardAfterSwingType DEF Continue, TypeOK
    <3> QED
      BY <2>7, <3>1, GuardAfterSwingType, RecordSwingsType, LatestType, QuietType, DirFacts
         DEF Continue, TypeOK, mss
  <2> QED
    BY <1>2, <2>1, <2>2, <2>3, <2>4, <2>5, <2>6, <2>7 DEF Step
<1> QED
  BY <1>1, <1>2 DEF Next

\* Every variable of the loop keeps its type.
THEOREM TypeCorrect == Spec => []TypeOK
<1>1. Init => TypeOK
  BY RowsAssumption DEF Init, TypeOK, NoGuard, Guard, MaybePrice, States, Labels
<1>2. TypeOK /\ [Next]_vars => TypeOK'
  BY TypeStep
<1> QED
  BY <1>1, <1>2, PTL DEF Spec

-----------------------------------------------------------------------------
(***************************************************************************)
(* The inductive invariant.  The checked invariants are not inductive:     *)
(* they do not say that a reseed always finds a swing, nor that a BOS      *)
(* never gives a level to a trend without a guard.  SeedKnown adds that a  *)
(* level or candidate on one side means a swing of that side has been      *)
(* detected, GapHasNoCandidate that a trend has no guard only while no     *)
(* pullback of its direction has been classified.                          *)
(***************************************************************************)
SeedKnown ==
  \A d \in Dir : protected[d].level # None \/ candidate[d] # None =>
                  detected[PullbackSide(d)] # None

GapHasNoCandidate ==
  /\ trend = "neutral" => \A d \in Dir : candidate[d] = None
  /\ \A d \in Dir : trend = d /\ protected[d].level = None => candidate[d] = None

IInv == /\ TypeOK
        /\ ShiftBookkeeping
        /\ OneGuard
        /\ GuardProvenance
        /\ ConfirmationOrder
        /\ SeedKnown
        /\ GapHasNoCandidate

LEMMA PendingFacts ==
  ASSUME IInv, NEW m \in Dir, state = Mss(m)
  PROVE  /\ Pending /\ trend = Opp(m)
         /\ originIndex \in Nat /\ originIndex < pos
         /\ originLevel # None /\ protected[Opp(m)].level = originLevel
         /\ protected[Opp(m)].status = "broken"
         /\ protected[m].level = None
         /\ ~hasPullback[Opp(m)]
<1>1. Pending
  BY DEF Pending
<1>2. trend = Opp(m)
  BY DirFacts DEF IInv, ShiftBookkeeping, TypeOK
<1>3. originIndex \in Nat /\ originIndex < pos
  BY <1>1 DEF IInv, ShiftBookkeeping, TypeOK
<1>4. /\ originLevel # None /\ protected[Opp(m)].level = originLevel
      /\ protected[Opp(m)].status = "broken"
  BY <1>1, <1>2, DirFacts DEF IInv, ShiftBookkeeping
<1>5. protected[m].level = None
  BY <1>2, DirFacts DEF IInv, OneGuard
<1>6. ~hasPullback[Opp(m)]
  BY DirFacts DEF IInv, ConfirmationOrder
<1> QED
  BY <1>1, <1>2, <1>3, <1>4, <1>5, <1>6

LEMMA TrendingFacts ==
  ASSUME IInv, NEW c \in Rows, NEW d \in Dir, InTrend(c, d)
  PROVE  /\ ~Pending /\ originIndex = None /\ originLevel = None
         /\ hasPullback = [x \in Dir |-> FALSE]
         /\ trend \in {d, "neutral"} /\ (trend = d <=> state = d)
         /\ (state = "neutral" \/ state = d)
         /\ protected[Opp(d)].level = None
         /\ protected[d].status # "broken"
         /\ state = "neutral" => protected[d].level = None
<1>1. state = "neutral" \/ state = d
  BY DEF InTrend
<1>2. ~Pending
  BY <1>1, DirFacts DEF Pending
<1>3. originIndex = None /\ originLevel = None
  BY <1>2 DEF IInv, ShiftBookkeeping
<1>4. hasPullback = [x \in Dir |-> FALSE]
  <2>1. \A x \in Dir : hasPullback[x] = FALSE
    BY <1>2 DEF IInv, ConfirmationOrder, Pending, TypeOK
  <2> QED
    BY <2>1 DEF IInv, TypeOK
<1>5. trend \in {d, "neutral"} /\ (trend = d <=> state = d)
  BY <1>1, DirFacts DEF IInv, ShiftBookkeeping, TypeOK
<1>6. protected[Opp(d)].level = None
  BY <1>5, DirFacts DEF IInv, OneGuard
<1>7. protected[d].status # "broken"
  BY <1>2 DEF IInv, ShiftBookkeeping
<1>8. state = "neutral" => protected[d].level = None
  BY <1>5, DirFacts DEF IInv, OneGuard
<1> QED
  BY <1>1, <1>2, <1>3, <1>4, <1>5, <1>6, <1>7, <1>8

\* What the swing bookkeeping keeps for the rest of a row.
LEMMA RecordSwingsFacts ==
  ASSUME IInv, NEW c \in Rows, RecordSwings(c)
  PROVE  /\ pos \in Nat /\ pos' = pos + 1
         /\ \A s \in Side : detected[s] # None => detected'[s] # None
         /\ \A d \in Dir : PullsBack(d, c) =>
              /\ candidate'[d] = SwingPrice(c, PullbackSide(d)) /\ candidate'[d] # None
              /\ candidateRow'[d] = pos
              /\ detected'[PullbackSide(d)] # None
              /\ cyclePrev[PullbackSide(d)] # None
         /\ \A d \in Dir : ~PullsBack(d, c) =>
              candidate'[d] = candidate[d] /\ candidateRow'[d] = candidateRow[d]
         /\ \A d \in Dir : candidate'[d] # None => detected'[PullbackSide(d)] # None
<1>1. pos \in Nat /\ pos' = pos + 1
  BY RecordSwingsType DEF IInv
<1>2. \A s \in Side : detected[s] # None => detected'[s] # None
  BY LatestType DEF IInv, TypeOK, RecordSwings
<1>3. ASSUME NEW d \in Dir, PullsBack(d, c)
      PROVE  /\ candidate'[d] = SwingPrice(c, PullbackSide(d)) /\ candidate'[d] # None
             /\ candidateRow'[d] = pos
             /\ detected'[PullbackSide(d)] # None
             /\ cyclePrev[PullbackSide(d)] # None
  <2>1. /\ SwingPrice(c, PullbackSide(d)) \in Price /\ cyclePrev[PullbackSide(d)] # None
        /\ SwingPrice(c, PullbackSide(d)) # None
    BY <1>3, LabelFacts, PriceAssumption, NoneAssumption DEF IInv
  <2>2. detected'[PullbackSide(d)] # None
    BY <2>1, LatestType, DirFacts DEF IInv, TypeOK, RecordSwings
  <2> QED
    BY <1>3, <2>1, <2>2 DEF RecordSwings
<1>4. ASSUME NEW d \in Dir, ~PullsBack(d, c)
      PROVE  candidate'[d] = candidate[d] /\ candidateRow'[d] = candidateRow[d]
  BY <1>4 DEF RecordSwings
<1>5. \A d \in Dir : candidate'[d] # None => detected'[PullbackSide(d)] # None
  BY <1>2, <1>3, <1>4, DirFacts DEF IInv, SeedKnown
<1> QED
  BY <1>1, <1>2, <1>3, <1>4, <1>5

\* A row that ends a shift, or belongs to a trend, leaves nothing pending.
LEMMA SettledState ==
  ASSUME NEW d \in Dir, state' = d, trend' = d, originIndex' = None, originLevel' = None,
         protected' \in [Dir -> Guard],
         protected'[Opp(d)].level = None, protected'[Opp(d)].status = None,
         protected'[d].status # "broken"
  PROVE  ShiftBookkeeping'
<1>1. ~Pending'
  BY DirFacts DEF Pending
<1>2. \A x \in Dir : protected'[x].status # "broken"
  BY DirFacts, NoneAssumption DEF Marks
<1> QED
  BY <1>1, <1>2, DirFacts DEF ShiftBookkeeping

LEMMA ConfirmStep ==
  ASSUME IInv, TypeOK', NEW c \in Rows, NEW m \in Dir, Confirm(c, m)
  PROVE  IInv'
<1>1. /\ Progresses(m, c) /\ ~PullsBack(m, c) /\ hasPullback[m] /\ RecordSwings(c)
      /\ state = Mss(m)
  BY DirFacts DEF Confirm, Confirms, Progresses, PullsBack
<1>2. candidate[m] # None /\ candidate'[m] = candidate[m]
  BY <1>1, RecordSwingsFacts DEF IInv, ConfirmationOrder
<1>3. /\ protected'[m] = PullbackGuard(candidate[m]) /\ protected'[Opp(m)] = NoGuard
      /\ trend' = m /\ state' = m /\ originLevel' = None /\ originIndex' = None
      /\ hasPullback' = [d \in Dir |-> FALSE]
  BY DirFacts DEF Confirm, TurnGuards, EndMss
<1>4. ShiftBookkeeping'
  BY <1>3, SettledState, NoneAssumption DEF TypeOK, PullbackGuard, NoGuard
<1>5. OneGuard'
  BY <1>2, <1>3, DirFacts, NoneAssumption DEF OneGuard, PullbackGuard, NoGuard, Marks
<1>6. GuardProvenance'
  BY <1>2, <1>3, DirFacts, NoneAssumption DEF GuardProvenance, PullbackGuard, NoGuard, Marks
<1>7. ConfirmationOrder'
  BY <1>3 DEF ConfirmationOrder
<1>8. SeedKnown'
  <2>1. protected'[Opp(m)].level = None /\ protected'[m].level = candidate'[m]
    BY <1>2, <1>3 DEF NoGuard, PullbackGuard
  <2> QED
    BY <1>1, <2>1, RecordSwingsFacts, DirFacts DEF SeedKnown
<1>9. GapHasNoCandidate'
  BY <1>2, <1>3, DirFacts DEF GapHasNoCandidate, PullbackGuard
<1> QED
  BY <1>4, <1>5, <1>6, <1>7, <1>8, <1>9 DEF IInv

\* A reseed finds a level wherever a swing of that side has been detected.
LEMMA ReseedFacts ==
  ASSUME IInv, NEW c \in Rows, RecordSwings(c), NEW d \in Dir
  PROVE  \/ Reseed(d, c) = NoGuard /\ detected'[PullbackSide(d)] = None
         \/ /\ Reseed(d, c).level # None /\ Reseed(d, c).status = "active"
            /\ Reseed(d, c).source = "latest_swing" /\ detected'[PullbackSide(d)] # None
BY DEF Reseed, RecordSwings

LEMMA InvalidateStep ==
  ASSUME IInv, TypeOK', NEW c \in Rows, NEW m \in Dir, Invalidate(c, m)
  PROVE  IInv'
<1> DEFINE d == Opp(m)
<1>1. d \in Dir /\ Opp(d) = m /\ d # m
  BY DirFacts
<1>2. /\ state = Mss(m) /\ RecordSwings(c) /\ trend = d /\ trend' = d /\ state' = d
      /\ protected' = [protected EXCEPT ![d] = Reseed(d, c)]
      /\ originLevel' = None /\ originIndex' = None
      /\ hasPullback' = [x \in Dir |-> FALSE]
  BY PendingFacts DEF Invalidate, EndMss
<1>3. protected'[d] = Reseed(d, c) /\ protected'[m] = protected[m]
  BY <1>1, <1>2 DEF IInv, TypeOK
<1>4. /\ protected[m].level = None /\ protected[m].status = None /\ protected[m].source = None
  BY <1>1, <1>2, PendingFacts DEF IInv, OneGuard
<1>5. ShiftBookkeeping'
  <2>1. protected'[d].status # "broken"
    BY <1>1, <1>2, <1>3, ReseedFacts, NoneAssumption DEF NoGuard, Marks
  <2> QED
    BY <1>1, <1>2, <1>3, <1>4, <2>1, SettledState DEF TypeOK
<1>6. OneGuard'
  BY <1>1, <1>2, <1>3, <1>4, ReseedFacts, DirFacts, NoneAssumption DEF OneGuard, NoGuard, Marks
<1>7. GuardProvenance'
  BY <1>1, <1>2, <1>3, <1>4, ReseedFacts, DirFacts, NoneAssumption
     DEF GuardProvenance, NoGuard, Marks
<1>8. ConfirmationOrder'
  BY <1>2 DEF ConfirmationOrder
<1>9. SeedKnown'
  <2>1. protected'[d].level # None => detected'[PullbackSide(d)] # None
    BY <1>1, <1>2, <1>3, ReseedFacts DEF NoGuard
  <2>2. protected'[m].level = None
    BY <1>3, <1>4
  <2> QED
    BY <1>1, <1>2, <2>1, <2>2, RecordSwingsFacts, DirFacts DEF SeedKnown
<1>10. GapHasNoCandidate'
  <2>1. detected[PullbackSide(d)] # None
    BY <1>1, <1>2, PendingFacts DEF IInv, SeedKnown
  <2>2. protected'[d].level # None
    BY <1>1, <1>2, <1>3, <2>1, ReseedFacts, RecordSwingsFacts, DirFacts
  <2> QED
    BY <1>1, <1>2, <2>2, DirFacts DEF GapHasNoCandidate
<1> QED
  BY <1>5, <1>6, <1>7, <1>8, <1>9, <1>10 DEF IInv

LEMMA PendingStep ==
  ASSUME IInv, TypeOK', NEW c \in Rows, NEW m \in Dir, Arm(c, m) \/ Wait(c, m)
  PROVE  IInv'
<1>1. /\ state = Mss(m) /\ RecordSwings(c) /\ cyclePrev' = Latest(cyclePrev, c)
      /\ UNCHANGED <<trend, state, protected, originLevel, originIndex>>
  BY DEF Arm, Wait, guards, mss
<1>2. pos' = pos + 1 /\ pos \in Nat /\ originIndex \in Nat /\ originIndex < pos
  BY <1>1, RecordSwingsFacts, PendingFacts
<1>3. ShiftBookkeeping'
  BY <1>1, <1>2 DEF IInv, ShiftBookkeeping, Pending
<1>4. OneGuard'
  BY <1>1 DEF IInv, OneGuard
<1>5. GuardProvenance'
  <2>1. \A d \in Dir : protected[d].level # None => protected[d].status # "active"
    BY <1>1, PendingFacts, DirFacts
  <2>2. \A d \in Dir : protected[d].status # "active"
    BY <2>1, NoneAssumption DEF IInv, OneGuard, Marks
  <2> QED
    BY <1>1, <2>2 DEF GuardProvenance
<1>6. ConfirmationOrder'
  <2> SUFFICES ASSUME NEW x \in Dir, hasPullback'[x]
               PROVE  /\ state' = Mss(x) /\ candidate'[x] # None
                      /\ candidateRow'[x] \in (originIndex' + 1)..(pos' - 1)
                      /\ cyclePrev'[PullbackSide(x)] # None
    BY DEF ConfirmationOrder
  <2>1. \A y \in Side : cyclePrev[y] # None => cyclePrev'[y] # None
    BY <1>1, LatestType DEF IInv, TypeOK
  <2>2. PullbackSide(x) \in Side
    BY DirFacts
  <2>3. CASE x = m /\ PullsBack(m, c)
    BY <1>1, <1>2, <2>1, <2>2, <2>3, RecordSwingsFacts
  <2>4. CASE ~(x = m /\ PullsBack(m, c))
    <3>1. hasPullback[x]
      BY <2>4 DEF Arm, Wait, mss, IInv, TypeOK
    <3>2. /\ x = m /\ ~PullsBack(x, c)
          /\ candidate[x] # None /\ candidateRow[x] \in (originIndex + 1)..(pos - 1)
          /\ cyclePrev[PullbackSide(x)] # None
      BY <1>1, <2>4, <3>1, PendingFacts, DirFacts DEF IInv, ConfirmationOrder
    <3>3. candidate'[x] = candidate[x] /\ candidateRow'[x] = candidateRow[x]
      BY <1>1, <3>2, RecordSwingsFacts
    <3> QED
      BY <1>1, <1>2, <2>1, <2>2, <3>2, <3>3
  <2> QED
    BY <2>3, <2>4
<1>7. SeedKnown'
  BY <1>1, RecordSwingsFacts, DirFacts DEF IInv, SeedKnown
<1>8. GapHasNoCandidate'
  BY <1>1, PendingFacts, DirFacts DEF GapHasNoCandidate
<1> QED
  BY <1>3, <1>4, <1>5, <1>6, <1>7, <1>8 DEF IInv

LEMMA CollectStep ==
  ASSUME IInv, TypeOK', NEW c \in Rows, Collect(c)
  PROVE  IInv'
<1>1. /\ state = "neutral" /\ RecordSwings(c)
      /\ UNCHANGED <<trend, state, protected, hasPullback, originLevel, originIndex>>
  BY DEF Collect, guards, mss
<1>2. ~Pending /\ \A d \in Dir : ~hasPullback[d] /\ protected[d].level = None
  BY <1>1, DirFacts DEF Pending, IInv, ConfirmationOrder, OneGuard, ShiftBookkeeping
<1>3. ShiftBookkeeping'
  BY <1>1, <1>2 DEF IInv, ShiftBookkeeping, Pending
<1>4. OneGuard' /\ GuardProvenance' /\ ConfirmationOrder'
  BY <1>1, <1>2, NoneAssumption
     DEF IInv, OneGuard, GuardProvenance, ConfirmationOrder, Marks
<1>5. SeedKnown'
  BY <1>1, <1>2, RecordSwingsFacts DEF SeedKnown
<1>6. GapHasNoCandidate'
  <2>1. trend = "neutral" /\ \A d \in Dir : ~PullsBack(d, c)
    BY <1>1, DirFacts, NoneAssumption DEF IInv, ShiftBookkeeping, Collect, PullsBack
  <2> QED
    BY <1>1, <2>1, RecordSwingsFacts, DirFacts DEF IInv, GapHasNoCandidate
<1> QED
  BY <1>3, <1>4, <1>5, <1>6 DEF IInv

\* The guard a trending row's swing leaves, before its close is looked at.
LEMMA GuardAfterSwingFacts ==
  ASSUME IInv, NEW c \in Rows, RecordSwings(c), NEW d \in Dir, InTrend(c, d)
  PROVE  LET g == GuardAfterSwing(c, d) IN
         /\ g.level = None <=> g.status = None
         /\ g.level = None <=> g.source = None
         /\ g.status # "broken"
         /\ g.source = "pullback" => g.level = candidate'[d]
         /\ g.level # None => detected'[PullbackSide(d)] # None
         /\ candidate'[d] # None => g.level # None
<1> DEFINE g == GuardAfterSwing(c, d)
<1>0. None \notin Marks
  BY NoneAssumption
<1>1. CASE PullsBack(d, c)
  <2>1. /\ g = PullbackGuard(candidate'[d]) /\ candidate'[d] # None
        /\ detected'[PullbackSide(d)] # None
    BY <1>1, RecordSwingsFacts DEF GuardAfterSwing
  <2> QED
    BY <1>0, <2>1 DEF PullbackGuard, Marks
<1>2. CASE ~PullsBack(d, c) /\ state = "neutral"
  <2>1. candidate'[d] = None
    BY <1>2, RecordSwingsFacts, TrendingFacts DEF IInv, GapHasNoCandidate
  <2> QED
    BY <1>0, <1>2, <2>1, ReseedFacts DEF GuardAfterSwing, NoGuard, Marks
<1>3. CASE ~PullsBack(d, c) /\ state # "neutral"
  <2>1. g = protected[d] /\ candidate'[d] = candidate[d] /\ protected[d].status # "broken"
    BY <1>3, RecordSwingsFacts, TrendingFacts DEF GuardAfterSwing
  <2>2. /\ protected[d].level = None <=> protected[d].status = None
        /\ protected[d].level = None <=> protected[d].source = None
    BY DEF IInv, OneGuard
  <2>3. protected[d].source = "pullback" => protected[d].level = candidate[d]
    BY <1>0, <2>1, <2>2 DEF IInv, GuardProvenance, TypeOK, Guard, Marks
  <2>4. protected[d].level # None => detected'[PullbackSide(d)] # None
    BY RecordSwingsFacts, DirFacts DEF IInv, SeedKnown
  <2>5. candidate[d] # None => protected[d].level # None
    BY <1>3, TrendingFacts DEF IInv, GapHasNoCandidate
  <2> QED
    BY <2>1, <2>2, <2>3, <2>4, <2>5
<1> QED
  BY <1>1, <1>2, <1>3

\* Common to the three ways a trending row can end.
LEMMA TrendingGuards ==
  ASSUME IInv, TypeOK', NEW c \in Rows, RecordSwings(c), NEW d \in Dir, InTrend(c, d),
         NEW g, protected' = [protected EXCEPT ![d] = g], trend' = d,
         g.level = None <=> g.status = None,
         g.level = None <=> g.source = None,
         g.level # None => detected'[PullbackSide(d)] # None,
         g.source = "pullback" /\ g.status = "active" => g.level = candidate'[d],
         candidate'[d] # None => g.level # None
  PROVE  /\ protected'[d] = g /\ protected'[Opp(d)] = protected[Opp(d)]
         /\ protected'[Opp(d)].level = None /\ protected'[Opp(d)].status = None
         /\ OneGuard' /\ GuardProvenance' /\ SeedKnown' /\ GapHasNoCandidate'
<1>1. protected'[d] = g /\ protected'[Opp(d)] = protected[Opp(d)]
  BY DirFacts DEF IInv, TypeOK
<1>2. /\ protected[Opp(d)].level = None /\ protected[Opp(d)].status = None
      /\ protected[Opp(d)].source = None
  BY TrendingFacts, DirFacts DEF IInv, OneGuard
<1>3. OneGuard'
  BY <1>1, <1>2, DirFacts DEF OneGuard
<1>4. GuardProvenance'
  BY <1>1, <1>2, DirFacts, NoneAssumption DEF GuardProvenance, Marks
<1>5. SeedKnown'
  BY <1>1, <1>2, RecordSwingsFacts, DirFacts DEF SeedKnown
<1>6. GapHasNoCandidate'
  BY <1>1, DirFacts DEF GapHasNoCandidate
<1> QED
  BY <1>1, <1>2, <1>3, <1>4, <1>5, <1>6

LEMMA ShiftStep ==
  ASSUME IInv, TypeOK', NEW c \in Rows, NEW d \in Dir, ShiftStructure(c, d)
  PROVE  IInv'
<1> DEFINE g == GuardAfterSwing(c, d)
<1>1. /\ InTrend(c, d) /\ RecordSwings(c) /\ g.level # None
      /\ protected' = [protected EXCEPT ![d] = Broken(g)]
      /\ trend' = d /\ state' = Mss(Opp(d)) /\ originLevel' = g.level /\ originIndex' = pos
      /\ hasPullback' = [x \in Dir |-> FALSE]
  BY DEF ShiftStructure, ClosesBelowGuard
<1>2. /\ protected'[d] = Broken(g)
      /\ protected'[Opp(d)].level = None /\ protected'[Opp(d)].status = None
      /\ OneGuard' /\ GuardProvenance' /\ SeedKnown' /\ GapHasNoCandidate'
  <2>1. /\ Broken(g).level = g.level /\ Broken(g).status = "broken"
        /\ Broken(g).source = g.source
    BY DEF Broken
  <2>2. /\ g.level = None <=> g.source = None
        /\ g.level # None => detected'[PullbackSide(d)] # None
        /\ g.source = "pullback" => g.level = candidate'[d]
    BY <1>1, GuardAfterSwingFacts
  <2> QED
    BY <1>1, <2>1, <2>2, TrendingGuards, NoneAssumption DEF Marks
<1>3. ShiftBookkeeping'
  <2>1. Pending' /\ pos \in Nat /\ pos' = pos + 1
    BY <1>1, DirFacts, RecordSwingsFacts DEF Pending
  <2>2. protected'[d].level = g.level /\ protected'[d].status = "broken"
    BY <1>2 DEF Broken
  <2> QED
    BY <1>1, <1>2, <2>1, <2>2, DirFacts, NoneAssumption DEF ShiftBookkeeping, Marks
<1>4. ConfirmationOrder'
  BY <1>1 DEF ConfirmationOrder
<1> QED
  BY <1>2, <1>3, <1>4 DEF IInv

LEMMA BreakStep ==
  ASSUME IInv, TypeOK', NEW c \in Rows, NEW d \in Dir, BreakStructure(c, d)
  PROVE  IInv'
<1> DEFINE g == GuardAfterSwing(c, d)
           h == IF candidate'[d] # None THEN MovedTo(g, candidate'[d]) ELSE g
<1>1. /\ InTrend(c, d) /\ RecordSwings(c) /\ protected' = [protected EXCEPT ![d] = h]
      /\ trend' = d /\ state' = d
      /\ UNCHANGED <<hasPullback, originLevel, originIndex>>
  BY DEF BreakStructure, mss
<1>2. /\ g.level = None <=> g.status = None
      /\ g.level = None <=> g.source = None
      /\ g.status # "broken"
      /\ g.source = "pullback" => g.level = candidate'[d]
      /\ g.level # None => detected'[PullbackSide(d)] # None
      /\ candidate'[d] # None => g.level # None
  BY <1>1, GuardAfterSwingFacts
<1>4. /\ h.level = None <=> h.status = None
      /\ h.level = None <=> h.source = None
      /\ h.status # "broken"
      /\ h.source = "pullback" /\ h.status = "active" => h.level = candidate'[d]
      /\ h.level # None => detected'[PullbackSide(d)] # None
      /\ candidate'[d] # None => h.level # None
  BY <1>2 DEF MovedTo
<1> HIDE DEF h
<1>5. /\ protected'[d] = h
      /\ protected'[Opp(d)].level = None /\ protected'[Opp(d)].status = None
      /\ OneGuard' /\ GuardProvenance' /\ SeedKnown' /\ GapHasNoCandidate'
  BY <1>1, <1>4, TrendingGuards
<1>6. /\ originIndex' = None /\ originLevel' = None /\ hasPullback' = [x \in Dir |-> FALSE]
  BY <1>1, TrendingFacts
<1>7. ShiftBookkeeping'
  BY <1>1, <1>4, <1>5, <1>6, SettledState DEF TypeOK
<1>8. ConfirmationOrder'
  BY <1>6 DEF ConfirmationOrder
<1> QED
  BY <1>5, <1>7, <1>8 DEF IInv

LEMMA ContinueStep ==
  ASSUME IInv, TypeOK', NEW c \in Rows, NEW d \in Dir, Continue(c, d)
  PROVE  IInv'
<1> DEFINE g == GuardAfterSwing(c, d)
<1>1. /\ InTrend(c, d) /\ RecordSwings(c) /\ protected' = [protected EXCEPT ![d] = g]
      /\ trend' = d /\ state' = d
      /\ UNCHANGED <<hasPullback, originLevel, originIndex>>
  BY DEF Continue, mss
<1>2. /\ g.level = None <=> g.status = None
      /\ g.level = None <=> g.source = None
      /\ g.status # "broken"
      /\ g.source = "pullback" => g.level = candidate'[d]
      /\ g.level # None => detected'[PullbackSide(d)] # None
      /\ candidate'[d] # None => g.level # None
  BY <1>1, GuardAfterSwingFacts
<1>3. /\ protected'[d] = g
      /\ protected'[Opp(d)].level = None /\ protected'[Opp(d)].status = None
      /\ OneGuard' /\ GuardProvenance' /\ SeedKnown' /\ GapHasNoCandidate'
  BY <1>1, <1>2, TrendingGuards
<1>4. /\ originIndex' = None /\ originLevel' = None /\ hasPullback' = [x \in Dir |-> FALSE]
  BY <1>1, TrendingFacts
<1>5. ShiftBookkeeping'
  BY <1>1, <1>2, <1>3, <1>4, SettledState DEF TypeOK
<1>6. ConfirmationOrder'
  BY <1>4 DEF ConfirmationOrder
<1> QED
  BY <1>3, <1>5, <1>6 DEF IInv

LEMMA IInvStep ==
  ASSUME IInv, [Next]_vars
  PROVE  IInv'
<1>1. TypeOK'
  BY TypeStep DEF IInv
<1>2. CASE UNCHANGED vars
  BY <1>2 DEF vars, IInv, TypeOK, ShiftBookkeeping, Pending, OneGuard, GuardProvenance,
              ConfirmationOrder, SeedKnown, GapHasNoCandidate
<1>3. ASSUME NEW c \in Rows, Step(c)
      PROVE  IInv'
  BY <1>1, <1>3, CollectStep, ConfirmStep, InvalidateStep, PendingStep, ShiftStep,
     BreakStep, ContinueStep DEF Step
<1> QED
  BY <1>2, <1>3 DEF Next

\* The inductive invariant: the checked invariants, and the two facts about
\* missing levels (SeedKnown, GapHasNoCandidate) that carry them over a row.
THEOREM Invariance == Spec => []IInv
<1>1. Init => IInv
  <2> SUFFICES ASSUME Init PROVE IInv
    OBVIOUS
  <2>1. TypeOK
    BY RowsAssumption DEF Init, TypeOK, NoGuard, Guard, MaybePrice, States, Labels
  <2>2. ~Pending
    BY DirFacts DEF Init, Pending
  <2> QED
    BY <2>1, <2>2, DirFacts, NoneAssumption
       DEF Init, IInv, ShiftBookkeeping, OneGuard, GuardProvenance, ConfirmationOrder,
           SeedKnown, GapHasNoCandidate, NoGuard, Marks
<1>2. IInv /\ [Next]_vars => IInv'
  BY IInvStep
<1> QED
  BY <1>1, <1>2, PTL DEF Spec

-----------------------------------------------------------------------------
(* The checked invariants, for every instance.                             *)

\* The bookkeeping of a pending shift never contradicts itself.
THEOREM ShiftBookkeepingHolds == Spec => []ShiftBookkeeping
BY Invariance, PTL DEF IInv

\* Only the side that guards the trend holds a protected level.
THEOREM OneGuardHolds == Spec => []OneGuard
BY Invariance, PTL DEF IInv

\* An active level that claims to be a classified pullback is the last one.
THEOREM GuardProvenanceHolds == Spec => []GuardProvenance
BY Invariance, PTL DEF IInv

\* Half a confirmation always came after the break it confirms.
THEOREM ConfirmationOrderHolds == Spec => []ConfirmationOrder
BY Invariance, PTL DEF IInv

LEMMA GuardedStep ==
  ASSUME IInv, IInv', [Next]_vars
  PROVE  Guarded => Guarded'
<1> SUFFICES ASSUME NEW d \in Dir, trend = d, protected[d].level # None
             PROVE  \E x \in Dir : trend' = x /\ protected'[x].level # None
  BY DEF Guarded
<1>1. CASE UNCHANGED vars
  BY <1>1 DEF vars
<1>2. ASSUME NEW c \in Rows, Step(c)
      PROVE  \E x \in Dir : trend' = x /\ protected'[x].level # None
  <2>1. trend # "neutral" /\ state # "neutral" /\ detected[PullbackSide(d)] # None
    BY DirFacts DEF IInv, ShiftBookkeeping, SeedKnown
  <2>2. CASE Collect(c)
    BY <2>1, <2>2 DEF Collect
  <2>3. ASSUME NEW m \in Dir, Confirm(c, m)
        PROVE  trend' = m /\ protected'[m].level # None
    BY <2>3 DEF Confirm, Confirms, TurnGuards, PullbackGuard, IInv, ConfirmationOrder
  <2>4. ASSUME NEW m \in Dir, Invalidate(c, m)
        PROVE  trend' = d /\ protected'[d].level # None
    <3>1. d = Opp(m) /\ RecordSwings(c) /\ protected'[d] = Reseed(d, c) /\ trend' = d
      BY <2>4, PendingFacts, DirFacts DEF Invalidate, IInv, TypeOK
    <3> QED
      BY <2>1, <3>1, ReseedFacts, RecordSwingsFacts, DirFacts
  <2>5. ASSUME NEW m \in Dir, Arm(c, m) \/ Wait(c, m)
        PROVE  trend' = d /\ protected'[d].level # None
    BY <2>5 DEF Arm, Wait, guards
  <2>6. ASSUME NEW e \in Dir, ShiftStructure(c, e) \/ BreakStructure(c, e) \/ Continue(c, e)
        PROVE  trend' = d /\ protected'[d].level # None
    <3>1. /\ InTrend(c, e) /\ RecordSwings(c) /\ trend' = e /\ e = d
      BY <2>1, <2>6, TrendingFacts DEF ShiftStructure, BreakStructure, Continue
    <3>2. GuardAfterSwing(c, d).level # None
      <4>1. CASE PullsBack(d, c)
        BY <3>1, <4>1, RecordSwingsFacts DEF GuardAfterSwing, PullbackGuard
      <4>2. CASE ~PullsBack(d, c)
        BY <2>1, <4>2 DEF GuardAfterSwing
      <4> QED
        BY <4>1, <4>2
    <3>3. CASE ShiftStructure(c, d)
      BY <3>1, <3>2, <3>3 DEF ShiftStructure, Broken, IInv, TypeOK
    <3>4. CASE BreakStructure(c, d)
      BY <3>1, <3>2, <3>4 DEF BreakStructure, MovedTo, IInv, TypeOK
    <3>5. CASE Continue(c, d)
      BY <3>1, <3>2, <3>5 DEF Continue, IInv, TypeOK
    <3> QED
      BY <2>6, <3>1, <3>3, <3>4, <3>5
  <2> QED
    BY <1>2, <2>2, <2>3, <2>4, <2>5, <2>6 DEF Step
<1> QED
  BY <1>1, <1>2 DEF Next

\* A running trend that has a protected level has one after every later row.
THEOREM GuardNeverLostHolds == Spec => GuardNeverLost
<1>1. IInv /\ IInv' /\ [Next]_vars => [Guarded => Guarded']_vars
  BY GuardedStep
<1> QED
  BY <1>1, Invariance, PTL DEF Spec, GuardNeverLost

\* The event a row reports tells which action it was.
LEMMA ConfirmOnly ==
  ASSUME NEW c \in Rows, Step(c), row'.event = "CHoCH"
  PROVE  \E m \in Dir : Confirm(c, m)
<1>1. Quiet(c).event # "CHoCH"
  BY NoneAssumption DEF Quiet, Columns, EventNames
<1>2. ~Collect(c)
  BY <1>1 DEF Collect
<1>3. \A m \in Dir : ~Invalidate(c, m)
  BY DEF Invalidate, Columns
<1>4. \A m \in Dir : ~Arm(c, m) /\ ~Wait(c, m)
  BY <1>1 DEF Arm, Wait
<1>5. \A d \in Dir : ~ShiftStructure(c, d) /\ ~BreakStructure(c, d)
  BY DEF ShiftStructure, BreakStructure, Columns
<1>6. \A d \in Dir : ~Continue(c, d)
  BY <1>1 DEF Continue
<1> QED
  BY <1>2, <1>3, <1>4, <1>5, <1>6 DEF Step

\* The guard and the swings of a reversal all belong to it.
THEOREM ReversalIsFreshHolds == Spec => ReversalIsFresh
<1> DEFINE Fresh(m) == /\ trend' = m /\ trend = Opp(m)
                       /\ originIndex < candidateRow[m]
                       /\ protected'[m].level = candidate[m] /\ candidate[m] # None
                       /\ cyclePrev["high"] # None /\ cyclePrev["low"] # None
<1>1. ASSUME IInv, Next, row'.event = "CHoCH"
      PROVE  \E m \in Dir : Fresh(m)
  <2>1. PICK c \in Rows : Step(c)
    BY <1>1 DEF Next
  <2>2. PICK m \in Dir : Confirm(c, m)
    BY <1>1, <2>1, ConfirmOnly
  <2>3. /\ trend' = m /\ trend = Opp(m)
        /\ protected'[m].level = candidate[m] /\ hasPullback[m] /\ Progresses(m, c)
        /\ originIndex \in Nat
    BY <1>1, <2>2, PendingFacts DEF Confirm, Confirms, TurnGuards, PullbackGuard
  <2>4. candidate[m] # None /\ originIndex < candidateRow[m] /\ cyclePrev[PullbackSide(m)] # None
    BY <1>1, <2>3 DEF IInv, ConfirmationOrder
  <2>5. cyclePrev[ProgressSide(m)] # None
    BY <1>1, <2>3, LabelFacts DEF IInv
  <2>6. cyclePrev["high"] # None /\ cyclePrev["low"] # None
    BY <2>4, <2>5 DEF ProgressSide, PullbackSide, Opp, Dir
  <2> QED
    BY <2>3, <2>4, <2>6
<1>2. IInv /\ [Next]_vars => [row'.event = "CHoCH" => \E m \in Dir : Fresh(m)]_vars
  BY <1>1
<1> QED
  BY <1>2, Invariance, PTL DEF Spec, ReversalIsFresh

-----------------------------------------------------------------------------
(* The engine implements the abstract trend cycle.                         *)

PhaseAgrees ==
  /\ state = "neutral" => Phase = "undecided"
  /\ \A d \in Dir : state = d => Phase = "trending"
  /\ \A m \in Dir : state = Mss(m) => Phase = IF hasPullback[m] THEN "armed" ELSE "shifting"

LEMMA PhaseFacts == IInv => PhaseAgrees
<1> SUFFICES ASSUME IInv PROVE PhaseAgrees
  OBVIOUS
<1>1. state = "neutral" => Phase = "undecided"
  BY DEF Phase
<1>2. ASSUME NEW d \in Dir, state = d
      PROVE  Phase = "trending"
  BY <1>2, DirFacts DEF Phase, Pending
<1>3. ASSUME NEW m \in Dir, state = Mss(m)
      PROVE  Phase = IF hasPullback[m] THEN "armed" ELSE "shifting"
  <2>1. Pending /\ state # "neutral"
    BY <1>3, DirFacts DEF Pending
  <2>2. (\E x \in Dir : hasPullback[x]) <=> hasPullback[m]
    BY <1>3, PendingFacts, DirFacts
  <2> QED
    BY <2>1, <2>2 DEF Phase
<1> QED
  BY <1>1, <1>2, <1>3 DEF PhaseAgrees

LEMMA PhaseFactsNext == IInv' => PhaseAgrees'
BY PhaseFacts, PTL

LEMMA CycleStep ==
  ASSUME IInv, IInv', NEW c \in Rows, Step(c)
  PROVE  Cycle!Next
<1> USE DEF Cycle!Fires, Cycle!Silent
<1>0. /\ state' = "neutral" => Phase' = "undecided"
      /\ \A d \in Dir : state' = d => Phase' = "trending"
      /\ \A m \in Dir : state' = Mss(m) =>
           Phase' = IF hasPullback'[m] THEN "armed" ELSE "shifting"
  BY PhaseFactsNext DEF PhaseAgrees
<1>1. Quiet(c).event = None /\ Quiet(c).direction = None /\ Quiet(c).invalidated = None
  BY DEF Quiet, Columns
<1>2. row' = Quiet(c) => Cycle!Silent
  BY <1>1
<1>3. pos' = pos + 1
  BY DEF Step, Collect, Confirm, Invalidate, Arm, Wait, ShiftStructure, BreakStructure,
         Continue, RecordSwings
<1>4. CASE Collect(c)
  <2>1. /\ Phase = "undecided" /\ Phase' = "undecided" /\ Cycle!Silent
        /\ trend' = trend /\ originIndex' = originIndex
    BY <1>0, <1>2, <1>4, PhaseFacts DEF Collect, PhaseAgrees, mss
  <2>2. Cycle!Rest
    BY <2>1 DEF Cycle!Rest
  <2> QED
    BY <1>3, <2>2 DEF Cycle!Next
<1>5. ASSUME NEW m \in Dir, Confirm(c, m)
      PROVE  Cycle!Next
  <2>1. /\ Phase = "armed" /\ Phase' = "trending" /\ originIndex' = None
        /\ trend' = m /\ trend = Opp(m) /\ m = Opp(trend)
    BY <1>0, <1>5, PhaseFacts, PendingFacts, DirFacts DEF Confirm, Confirms, EndMss, PhaseAgrees
  <2>2. row'.event = "CHoCH" /\ row'.direction = m /\ row'.invalidated = None
    BY <1>5 DEF Confirm, Columns
  <2>3. Cycle!Turn
    BY <2>1, <2>2 DEF Cycle!Turn, Cycle!Opp, Opp
  <2> QED
    BY <1>3, <2>3 DEF Cycle!Next
<1>6. ASSUME NEW m \in Dir, Invalidate(c, m)
      PROVE  Cycle!Next
  <2>1. /\ Phase \in {"shifting", "armed"} /\ Phase' = "trending" /\ originIndex' = None
        /\ trend' = trend /\ trend = Opp(m)
    BY <1>0, <1>6, PhaseFacts, PendingFacts, DirFacts DEF Invalidate, EndMss, PhaseAgrees
  <2>2. /\ row'.event = "MSS_INVALIDATED" /\ row'.direction = Opp(m)
        /\ row'.invalidated = originIndex
    BY <1>6 DEF Invalidate, Columns
  <2>3. Cycle!Reassert
    BY <2>1, <2>2 DEF Cycle!Reassert
  <2> QED
    BY <1>3, <2>3 DEF Cycle!Next
<1>7. ASSUME NEW m \in Dir, Arm(c, m)
      PROVE  Cycle!Next
  <2>1. /\ state = Mss(m) /\ state' = Mss(m) /\ hasPullback'[m]
        /\ Cycle!Silent /\ trend' = trend /\ originIndex' = originIndex
    BY <1>2, <1>7 DEF Arm, IInv, TypeOK
  <2>2. Phase \in {"shifting", "armed"} /\ Phase' = "armed"
    BY <1>0, <2>1, PhaseFacts DEF PhaseAgrees
  <2>3. Cycle!Arm
    BY <2>1, <2>2 DEF Cycle!Arm
  <2> QED
    BY <1>3, <2>3 DEF Cycle!Next
<1>8. ASSUME NEW m \in Dir, Wait(c, m)
      PROVE  Cycle!Next
  <2>1. /\ state = Mss(m) /\ state' = Mss(m) /\ hasPullback'[m] = hasPullback[m]
        /\ Cycle!Silent /\ trend' = trend /\ originIndex' = originIndex
    BY <1>2, <1>8 DEF Wait, mss
  <2>2. Phase # "trending" /\ Phase' = Phase
    BY <1>0, <2>1, PhaseFacts DEF PhaseAgrees
  <2>3. Cycle!Rest
    BY <2>1, <2>2 DEF Cycle!Rest
  <2> QED
    BY <1>3, <2>3 DEF Cycle!Next
<1>9. ASSUME NEW d \in Dir, ShiftStructure(c, d)
      PROVE  Cycle!Next
  <2>1. /\ InTrend(c, d) /\ trend' = d /\ state' = Mss(Opp(d)) /\ ~hasPullback'[Opp(d)]
        /\ originIndex' = pos
    BY <1>9, DirFacts DEF ShiftStructure
  <2>2. row'.event = "MSS" /\ row'.direction = Opp(d) /\ row'.invalidated = None
    BY <1>9 DEF ShiftStructure, Columns
  <2>3. Cycle!ShiftFrom(d)
    BY <1>0, <2>1, <2>2, DirFacts DEF Cycle!ShiftFrom, Cycle!Opp, Opp
  <2>4. CASE state = d
    <3>1. trend = d /\ Phase = "trending"
      BY <2>1, <2>4, TrendingFacts, PhaseFacts DEF PhaseAgrees
    <3> QED
      BY <1>3, <2>1, <2>3, <3>1 DEF Cycle!Next, Cycle!Shift
  <2>5. CASE state = "neutral"
    <3>1. Cycle!Start(d)
      BY <2>1, <2>3, <2>5, PhaseFacts DEF Cycle!Start, PhaseAgrees
    <3> QED
      BY <1>3, <3>1 DEF Cycle!Next, Cycle!Dir, Dir
  <2> QED
    BY <2>1, <2>4, <2>5 DEF InTrend
<1>10. ASSUME NEW d \in Dir, BreakStructure(c, d) \/ Continue(c, d)
       PROVE  Cycle!Next
  <2>1. InTrend(c, d) /\ trend' = d /\ state' = d /\ originIndex' = originIndex
    BY <1>10 DEF BreakStructure, Continue, mss
  <2>2. BreakStructure(c, d) => Cycle!Fires("BOS", d, None)
    BY DEF BreakStructure, Columns
  <2>3. Continue(c, d) => Cycle!Silent
    BY <1>2 DEF Continue
  <2>4. Cycle!StayIn(d)
    BY <1>0, <1>10, <2>1, <2>2, <2>3 DEF Cycle!StayIn
  <2>5. CASE state = d
    <3>1. trend = d /\ Phase = "trending"
      BY <2>1, <2>5, TrendingFacts, PhaseFacts DEF PhaseAgrees
    <3> QED
      BY <1>3, <2>1, <2>4, <3>1 DEF Cycle!Next, Cycle!Extend
  <2>6. CASE state = "neutral"
    <3>1. Cycle!Start(d)
      BY <2>1, <2>4, <2>6, PhaseFacts DEF Cycle!Start, PhaseAgrees
    <3> QED
      BY <1>3, <3>1 DEF Cycle!Next, Cycle!Dir, Dir
  <2> QED
    BY <2>1, <2>5, <2>6 DEF InTrend
<1> QED
  BY <1>4, <1>5, <1>6, <1>7, <1>8, <1>9, <1>10 DEF Step

\* Every behaviour of the engine is, without its prices, a trend cycle.
THEOREM Refinement == Spec => ImplementsTrendCycle
<1>1. Init => Cycle!Init
  BY DEF Init, Cycle!Init, Phase
<1>2. IInv /\ IInv' /\ [Next]_vars => [Cycle!Next]_(Cycle!vars)
  <2> SUFFICES ASSUME IInv, IInv', [Next]_vars
               PROVE  [Cycle!Next]_(Cycle!vars)
    OBVIOUS
  <2>1. CASE UNCHANGED vars
    BY <2>1 DEF vars, Cycle!vars, Phase, Pending
  <2>2. CASE Next
    BY <2>2, CycleStep DEF Next
  <2> QED
    BY <2>1, <2>2
<1> QED
  BY <1>1, <1>2, Invariance, PTL DEF Spec, ImplementsTrendCycle, Cycle!Spec

-----------------------------------------------------------------------------
(* The whole analysis: each engine runs inside it as its own module says.  *)

SetupProofs == INSTANCE ReversalSetupProofs WITH
                 at <- pos, dir <- trend, phase <- Phase, origin <- originIndex,
                 event <- row.event, heading <- row.direction, cited <- row.invalidated
PoolProofs == INSTANCE LiquidityProofs WITH
                row <- pos, Prices <- Price, MaxAge <- MaxPoolAge

\* The frame of a request does not change, and the rows stay within it.
FrameOK ==
  /\ frame \in Frames /\ requireSweep \in BOOLEAN
  /\ pos \in Nat /\ pos <= Len(frame)

\* The candle of a row within the frame is valid, and the frame fits the bound.
LEMMA FrameFacts ==
  ASSUME FrameOK, NEW r \in Nat, r < Len(frame)
  PROVE  /\ BarAt(r) \in Bar /\ r + 1 \in 1..Len(frame)
         /\ BarAt(r).open \in Int /\ BarAt(r).high \in Int /\ BarAt(r).low \in Int
         /\ BarAt(r).close \in Int /\ BarAt(r).atr \in Nat
         /\ BarAt(r).low <= BarAt(r).close /\ BarAt(r).close <= BarAt(r).high
         /\ \A d \in Dir : Extreme(d, BarAt(r)) \in Price
         /\ Len(frame) \in Nat /\ Len(frame) <= MaxRows
<1>1. frame \in Seq(Bar) /\ Len(frame) \in (Left + Right + 1)..MaxRows
  BY FramesAssumption DEF FrameOK
<1>2. Len(frame) \in Nat /\ Len(frame) <= MaxRows /\ r + 1 \in 1..Len(frame)
  BY <1>1, BarsAssumption, RowsAssumption
<1>3. BarAt(r) \in Bar
  BY <1>1, <1>2 DEF BarAt
<1>4. /\ BarAt(r).open \in Price /\ BarAt(r).high \in Price /\ BarAt(r).low \in Price
      /\ BarAt(r).close \in Price /\ BarAt(r).atr \in Nat
      /\ BarAt(r).low <= BarAt(r).close /\ BarAt(r).close <= BarAt(r).high
  BY <1>3 DEF Bar
<1> QED
  BY <1>2, <1>3, <1>4, PriceAssumption DEF Extreme

\* The row a candle makes is one StructureState admits.
LEMMA StructureRowFacts ==
  ASSUME FrameOK, NEW r \in Nat, r < Len(frame)
  PROVE  StructureRow(r) \in Rows
<1> DEFINE b == BarAt(r)
           c == StructureRow(r)
<1>1. /\ b.high \in Price /\ b.low \in Price /\ b.close \in Price /\ b.atr \in Nat
      /\ b.low <= b.close /\ b.close <= b.high
      /\ BreakDistance(b) \in Distance
  BY FrameFacts DEF Bar
<1>2. b.high \in Int /\ b.low \in Int /\ b.close \in Int
  BY FrameFacts
<1>3. b.low <= b.high
  BY <1>1, <1>2
<1>4. /\ SwingAt("bullish", r) \in {b.high, None}
      /\ SwingAt("bearish", r) \in {b.low, None}
  BY DEF SwingAt, Extreme
<1>5. /\ c = [high |-> c.high, low |-> c.low, close |-> c.close, required |-> c.required]
      /\ c.high \in {b.high, None} /\ c.low \in {b.low, None}
      /\ c.close = b.close /\ c.required = BreakDistance(b)
  BY <1>4 DEF StructureRow
<1>6. /\ b.high # None /\ b.low # None /\ b.close # None
      /\ BreakDistance(b) # None
  <2>1. None \notin Int /\ None \notin Nat
    BY NoneAssumption
  <2>2. None \notin Distance
    BY <2>1, DistanceAssumption
  <2> HIDE DEF b
  <2> QED
    BY <1>1, <1>2, <2>1, <2>2
<1> HIDE DEF b, c
<1>7. c \in Candle
  BY <1>1, <1>5 DEF Candle, MaybePrice
<1>8. c.close = None <=> c.required = None
  BY <1>5, <1>6
<1>9. /\ c.high # None /\ c.low # None => c.low <= c.high
      /\ c.high # None /\ c.close # None => c.close <= c.high
      /\ c.low # None /\ c.close # None => c.low <= c.close
  BY <1>1, <1>3, <1>5
<1>10. c \in Rows
  BY <1>7, <1>8, <1>9 DEF Rows
<1> QED
  BY <1>10 DEF c

LEMMA StepAdvances ==
  ASSUME NEW c, Step(c)
  PROVE  pos' = pos + 1 /\ row'.label = Label(c)
<1>1. pos' = pos + 1
  BY DEF Step, Collect, Confirm, Invalidate, Arm, Wait, ShiftStructure, BreakStructure,
         Continue, RecordSwings
<1>2. \A e, d, l, i : Columns(c, e, d, l, i).label = Label(c)
  BY DEF Columns
<1>3. row'.label = Label(c)
  BY <1>2 DEF Step, Collect, Confirm, Invalidate, Arm, Wait, ShiftStructure, BreakStructure,
         Continue, Quiet
<1> QED
  BY <1>1, <1>3

LEMMA FrameStep == FrameOK /\ [Analyse]_engineVars => FrameOK'
<1> SUFFICES ASSUME FrameOK, [Analyse]_engineVars
             PROVE  FrameOK'
  OBVIOUS
<1>1. CASE Analyse
  <2>1. pos' = pos + 1 /\ pos < Len(frame)
    BY <1>1, StepAdvances DEF Analyse
  <2>2. Len(frame) \in Nat
    BY <2>1, FrameFacts DEF FrameOK
  <2> QED
    BY <1>1, <2>1, <2>2 DEF FrameOK, Analyse
<1>2. CASE UNCHANGED engineVars
  BY <1>2 DEF engineVars, vars, FrameOK
<1> QED
  BY <1>1, <1>2

LEMMA FrameAlways == EngineSpec => []FrameOK
<1>1. EngineInit => FrameOK
  <2> SUFFICES ASSUME EngineInit PROVE FrameOK
    OBVIOUS
  <2>1. frame \in Seq(Bar)
    BY FramesAssumption DEF EngineInit
  <2> QED
    BY <2>1 DEF EngineInit, Init, FrameOK
<1> QED
  BY <1>1, FrameStep, PTL DEF EngineSpec

\* Every analysis of a frame is a run of the structure state machine over the
\* abstract rows StructureState admits.
THEOREM StructureRefinement == EngineSpec => ImplementsStructure
<1>1. EngineInit => Init
  BY DEF EngineInit
<1>2. FrameOK /\ [Analyse]_engineVars => [Next]_vars
  <2> SUFFICES ASSUME FrameOK, [Analyse]_engineVars
               PROVE  [Next]_vars
    OBVIOUS
  <2>1. CASE Analyse
    <3>1. pos \in Nat /\ pos < Len(frame)
      BY <2>1 DEF Analyse, FrameOK
    <3>2. StructureRow(pos) \in Rows /\ pos < MaxRows
      BY <3>1, StructureRowFacts, FrameFacts, RowsAssumption
    <3> QED
      BY <2>1, <3>2 DEF Analyse, Next
  <2>2. CASE UNCHANGED engineVars
    BY <2>2 DEF engineVars
  <2> QED
    BY <2>1, <2>2
<1> QED
  BY <1>1, <1>2, FrameAlways, PTL DEF EngineSpec, ImplementsStructure, Spec

\* What is proved of the structure state machine over abstract rows therefore
\* holds of every analysis of a frame.
THEOREM StructureGuarantees ==
  EngineSpec => /\ [](ShiftBookkeeping /\ OneGuard /\ GuardProvenance /\ ConfirmationOrder)
                /\ GuardNeverLost /\ ReversalIsFresh /\ ImplementsTrendCycle
BY StructureRefinement, ShiftBookkeepingHolds, OneGuardHolds, GuardProvenanceHolds,
   ConfirmationOrderHolds, GuardNeverLostHolds, ReversalIsFreshHolds, Refinement, PTL
   DEF ImplementsStructure

\* The liquidity engine runs inside every analysis as Liquidity says.
THEOREM LiquidityRefinement == EngineSpec => ImplementsLiquidity
<1>1. EngineInit => Pools!Init
  BY DEF EngineInit
<1>2. FrameOK /\ [Analyse]_engineVars => [Pools!Next]_(Pools!vars)
  <2> SUFFICES ASSUME FrameOK, [Analyse]_engineVars
               PROVE  [Pools!Next]_(Pools!vars)
    OBVIOUS
  <2>1. CASE Analyse
    <3> DEFINE b == BarAt(pos)
               c == [high |-> b.high, low |-> b.low, close |-> b.close]
               s == IF row'.label \in {"HH", "LH"} THEN "high" ELSE "low"
    <3>1. pos \in Nat /\ pos < Len(frame) /\ pos' = pos + 1
      BY <2>1, StepAdvances DEF Analyse, FrameOK
    <3>2. pos < MaxRows
      BY <3>1, FrameFacts, RowsAssumption
    <3>3. c \in Pools!Candle
      <4>1. /\ b.high \in Price /\ b.low \in Price /\ b.close \in Price
            /\ b.low <= b.close /\ b.close <= b.high
        BY <3>1, FrameFacts DEF Bar
      <4>2. b.low <= b.high
        BY <4>1, <3>1, FrameFacts
      <4> QED
        BY <4>1, <4>2 DEF Pools!Candle
    <3>4. s \in Pools!Side
      BY DEF Pools!Side
    <3>5. Pools!PlainRow(c) \/ Pools!SwingRow(s, c)
      BY <2>1 DEF Analyse, FindLiquidity
    <3> QED
      BY <3>1, <3>2, <3>3, <3>4, <3>5 DEF Pools!Next
  <2>2. CASE UNCHANGED engineVars
    BY <2>2 DEF engineVars, vars, Pools!vars
  <2> QED
    BY <2>1, <2>2
<1> QED
  BY <1>1, <1>2, FrameAlways, PTL DEF EngineSpec, ImplementsLiquidity, Pools!Spec

\* The constants of the liquidity engine satisfy what its proofs assume.
LEMMA PoolAssumptions ==
  /\ PoolProofs!RowsAssumption /\ PoolProofs!PriceAssumption /\ PoolProofs!DistanceAssumption
  /\ PoolProofs!AgeAssumption /\ PoolProofs!NoneAssumption
BY RowsAssumption, PriceAssumption, EvenAssumption, PoolAssumption, MissingAssumption, NoneAssumption
   DEF PoolProofs!RowsAssumption, PoolProofs!PriceAssumption, PoolProofs!DistanceAssumption,
       PoolProofs!AgeAssumption, PoolProofs!NoneAssumption, PoolProofs!Side, Side

\* Pools and PoolProofs are one module under two names, the second with its
\* theorems; the prover takes their operators for different ones.
LEMMA SamePools ==
  /\ Pools!Init <=> PoolProofs!Init
  /\ Pools!Next <=> PoolProofs!Next
  /\ Pools!vars = PoolProofs!vars
<1>1. \A c : Pools!Survey(c) = PoolProofs!Survey(c)
  BY DEF Pools!Survey, PoolProofs!Survey, Pools!Aged, PoolProofs!Aged, Pools!Judged,
         PoolProofs!Judged, Pools!Ended, PoolProofs!Ended, Pools!Sweeps, PoolProofs!Sweeps,
         Pools!Breaks, PoolProofs!Breaks, Pools!Outside, PoolProofs!Outside,
         Pools!IsActive, PoolProofs!IsActive, Pools!Beyond, PoolProofs!Beyond
<1>2. \A c : Pools!PlainRow(c) <=> PoolProofs!PlainRow(c)
  BY <1>1 DEF Pools!PlainRow, PoolProofs!PlainRow
<1>3. \A s, c : Pools!SwingRow(s, c) <=> PoolProofs!SwingRow(s, c)
  BY <1>1 DEF Pools!SwingRow, PoolProofs!SwingRow, Pools!NextPrev, PoolProofs!NextPrev,
         Pools!LevelWithPrevious, PoolProofs!LevelWithPrevious, Pools!NewPool, PoolProofs!NewPool,
         Pools!Marked, PoolProofs!Marked
<1>4. Pools!Next <=> PoolProofs!Next
  BY <1>2, <1>3 DEF Pools!Next, PoolProofs!Next, Pools!Candle, PoolProofs!Candle, Pools!Side, PoolProofs!Side
<1>5. Pools!Init <=> PoolProofs!Init
  BY DEF Pools!Init, PoolProofs!Init, Pools!Rows, PoolProofs!Rows, Pools!Side, PoolProofs!Side
<1> QED
  BY <1>4, <1>5 DEF Pools!vars, PoolProofs!vars

LEMMA EngineIsPools == EngineSpec => PoolProofs!Spec
<1>1. [Pools!Next]_(Pools!vars) => [PoolProofs!Next]_(PoolProofs!vars)
  BY SamePools DEF Pools!vars, PoolProofs!vars
<1> QED
  BY <1>1, SamePools, LiquidityRefinement, PTL DEF ImplementsLiquidity, Pools!Spec, PoolProofs!Spec

\* What is proved of the liquidity engine over arbitrary swings therefore holds of
\* every analysis of a frame: pools end in time, follow the chain of swings, keep
\* their fate, and no break spares a nearer pool.
THEOREM LiquidityGuarantees ==
  EngineSpec => /\ [](Pools!BreakReachesInner /\ Pools!EndsInTime /\ Pools!PoolsFormChain)
                /\ Pools!FateIsFinal
<1>2. PoolProofs!Spec => [](PoolProofs!BreakReachesInner /\ PoolProofs!EndsInTime /\ PoolProofs!PoolsFormChain)
  BY PoolAssumptions, PoolProofs!BreakReachesInnerHolds, PoolProofs!EndsInTimeHolds, PoolProofs!PoolsFormChainHolds, PTL
<1>3. PoolProofs!Spec => PoolProofs!FateIsFinal
  BY PoolAssumptions, PoolProofs!FateIsFinalHolds, PTL
<1>4. PoolProofs!BreakReachesInner => Pools!BreakReachesInner
  BY DEF PoolProofs!BreakReachesInner, Pools!BreakReachesInner, Pools!Outside, PoolProofs!Outside,
         Pools!IsActive, PoolProofs!IsActive, Pools!Beyond, PoolProofs!Beyond
<1>5. PoolProofs!EndsInTime => Pools!EndsInTime
  BY DEF PoolProofs!EndsInTime, Pools!EndsInTime, Pools!IsActive, PoolProofs!IsActive
<1>6. PoolProofs!PoolsFormChain => Pools!PoolsFormChain
  BY DEF PoolProofs!PoolsFormChain, Pools!PoolsFormChain
<1>7. PoolProofs!FateIsFinal => Pools!FateIsFinal
  BY PTL DEF PoolProofs!FateIsFinal, Pools!FateIsFinal, Pools!IsActive, PoolProofs!IsActive,
             Pools!vars, PoolProofs!vars
<1> QED
  BY EngineIsPools, <1>2, <1>3, <1>4, <1>5, <1>6, <1>7, PTL

-----------------------------------------------------------------------------
\* The trend cycle of StructureState and that of the setup model are one.
LEMMA SameCycle ==
  /\ Cycle!Init <=> Setup!Cycle!Init
  /\ Cycle!Next <=> Setup!Cycle!Next
<1>1. Cycle!Next <=> Setup!Cycle!Next
  BY DEF Cycle!Next, Setup!Cycle!Next, Cycle!Start, Setup!Cycle!Start, Cycle!Extend,
         Setup!Cycle!Extend, Cycle!Shift, Setup!Cycle!Shift, Cycle!Arm, Setup!Cycle!Arm,
         Cycle!Turn, Setup!Cycle!Turn, Cycle!Reassert, Setup!Cycle!Reassert, Cycle!Rest,
         Setup!Cycle!Rest, Cycle!Silent, Setup!Cycle!Silent, Cycle!Fires, Setup!Cycle!Fires,
         Cycle!StayIn, Setup!Cycle!StayIn, Cycle!ShiftFrom, Setup!Cycle!ShiftFrom,
         Cycle!Opp, Setup!Cycle!Opp, Cycle!Dir, Setup!Cycle!Dir
<1> QED
  BY <1>1 DEF Cycle!Init, Setup!Cycle!Init

\* What the block engine makes of a row is one of the abstract rows of OrderBlocks.
LEMMA BlockRow ==
  ASSUME FrameOK, IInv, IInv', Analyse
  PROVE  Setup!SetupNext
<1>1. pos \in Nat /\ pos < Len(frame) /\ pos < MaxRows
  BY FrameFacts, RowsAssumption DEF Analyse, FrameOK
<1>2. Cycle!Next
  BY <1>1, StructureRowFacts, CycleStep DEF Analyse
<1>3. Setup!Cycle!Next
  BY <1>2, SameCycle
<1>4. \A p : Reached(p) \in Setup!Reach
  BY DEF Reached, Setup!Reach
<1>5. Colour(BarAt(pos)) \in Setup!Colours
  BY DEF Colour, Setup!Colours, Setup!Dir
<1> DEFINE reach == [q \in {b.anchor : b \in blocks} |-> Reached(q)]
           d == row'.direction
           p == Setup!Anchor(d)
           displaced == d # None /\ p # None /\ Displaces(d, p)
<1>6. reach \in [{b.anchor : b \in blocks} -> Setup!Reach]
  BY <1>4
<1>7. displaced \in BOOLEAN
  OBVIOUS
<1>8. Setup!Process(Colour(BarAt(pos)), reach, displaced)
  BY DEF Analyse, FindOrderBlocks
<1> HIDE DEF reach, displaced
<1>9. Setup!Row
  BY <1>1, <1>3, <1>5, <1>6, <1>7, <1>8 DEF Setup!Row
<1> QED
  BY <1>9 DEF Setup!SetupNext, Analyse

\* What the manual-signal strategy reads of an analysed frame is one of the
\* setups ReversalSetup describes: the block engine over a trend cycle.
THEOREM SetupRefinement == EngineSpec => ImplementsSetup
<1>1. EngineInit => Setup!SetupInit
  BY DEF EngineInit
<1>2. FrameOK /\ IInv /\ IInv' /\ [Analyse]_engineVars => [Setup!SetupNext]_(Setup!setupVars)
  <2> SUFFICES ASSUME FrameOK, IInv, IInv', [Analyse]_engineVars
               PROVE  [Setup!SetupNext]_(Setup!setupVars)
    OBVIOUS
  <2>1. CASE Analyse
    BY <2>1, BlockRow
  <2>2. CASE UNCHANGED engineVars
    BY <2>2 DEF engineVars, vars, Setup!setupVars, Setup!vars, Setup!blockVars, Setup!Cycle!vars,
                Phase, Pending
  <2> QED
    BY <2>1, <2>2
<1>3. EngineSpec => []IInv
  BY StructureRefinement, Invariance, PTL DEF ImplementsStructure
<1> QED
  BY <1>1, <1>2, <1>3, FrameAlways, PTL DEF EngineSpec, ImplementsSetup, Setup!SetupSpec

\* The constants of the block engine satisfy what its proofs assume.
LEMMA SetupAssumptions ==
  /\ SetupProofs!RowsAssumption /\ SetupProofs!LookbackAssumption /\ SetupProofs!AgeAssumption
  /\ SetupProofs!EnabledAssumption /\ SetupProofs!NoneAssumption
BY RowsAssumption, BlockAssumption, MissingAssumption, NoneAssumption
   DEF SetupProofs!RowsAssumption, SetupProofs!LookbackAssumption, SetupProofs!AgeAssumption,
       SetupProofs!EnabledAssumption, SetupProofs!NoneAssumption, SetupProofs!Dir,
       SetupProofs!EventNames, Dir, EventNames

\* Likewise Setup and SetupProofs: what a row does to a block is the same.
LEMMA SameLifecycle ==
  /\ \A b, reach : Setup!Aged(b, reach) = SetupProofs!Aged(b, reach)
  /\ \A b : Setup!Promotes(b) <=> SetupProofs!Promotes(b)
  /\ \A d : Setup!Anchor(d) = SetupProofs!Anchor(d)
<1>1. \A b : Setup!IsActive(b) <=> SetupProofs!IsActive(b)
  BY DEF Setup!IsActive, SetupProofs!IsActive
<1>2. \A b : Setup!Promotes(b) <=> SetupProofs!Promotes(b)
  BY DEF Setup!Promotes, SetupProofs!Promotes
<1>3. \A b, reach : Setup!Touched(b, reach) = SetupProofs!Touched(b, reach)
  BY DEF Setup!Touched, SetupProofs!Touched, Setup!IsActive, SetupProofs!IsActive
<1>4. \A b : Setup!Cascaded(b) = SetupProofs!Cascaded(b)
  BY DEF Setup!Cascaded, SetupProofs!Cascaded, Setup!IsActive, SetupProofs!IsActive
<1>5. \A b : Setup!Promoted(b) = SetupProofs!Promoted(b)
  BY <1>2 DEF Setup!Promoted, SetupProofs!Promoted
<1>6. \A b : Setup!Expired(b) = SetupProofs!Expired(b)
  BY DEF Setup!Expired, SetupProofs!Expired, Setup!IsActive, SetupProofs!IsActive
<1>7. \A d : Setup!Anchor(d) = SetupProofs!Anchor(d)
  BY DEF Setup!Anchor, SetupProofs!Anchor, Setup!Opp, SetupProofs!Opp
<1> QED
  BY <1>2, <1>3, <1>4, <1>5, <1>6, <1>7 DEF Setup!Aged, SetupProofs!Aged

\* The two instances take the same rows.
LEMMA SameSetup ==
  /\ Setup!SetupInit <=> SetupProofs!SetupInit
  /\ Setup!SetupNext <=> SetupProofs!SetupNext
<1>1. Setup!Cycle!Next <=> SetupProofs!Cycle!Next
  BY DEF SetupProofs!Cycle!Next, Setup!Cycle!Next, SetupProofs!Cycle!Start, Setup!Cycle!Start,
         SetupProofs!Cycle!Extend, Setup!Cycle!Extend, SetupProofs!Cycle!Shift,
         Setup!Cycle!Shift, SetupProofs!Cycle!Arm, Setup!Cycle!Arm, SetupProofs!Cycle!Turn,
         Setup!Cycle!Turn, SetupProofs!Cycle!Reassert, Setup!Cycle!Reassert,
         SetupProofs!Cycle!Rest, Setup!Cycle!Rest, SetupProofs!Cycle!Silent,
         Setup!Cycle!Silent, SetupProofs!Cycle!Fires, Setup!Cycle!Fires,
         SetupProofs!Cycle!StayIn, Setup!Cycle!StayIn, SetupProofs!Cycle!ShiftFrom,
         Setup!Cycle!ShiftFrom, SetupProofs!Cycle!Opp, Setup!Cycle!Opp, SetupProofs!Cycle!Dir,
         Setup!Cycle!Dir
<1>2. \A colour, displaced : Setup!Creates(colour, displaced) <=> SetupProofs!Creates(colour, displaced)
  BY SameLifecycle DEF Setup!Creates, SetupProofs!Creates, Setup!SameFootprint, SetupProofs!SameFootprint
<1>3. Setup!NewBlock = SetupProofs!NewBlock
  BY SameLifecycle DEF Setup!NewBlock, SetupProofs!NewBlock
<1>4. \A colour, reach, displaced :
        Setup!Process(colour, reach, displaced) <=> SetupProofs!Process(colour, reach, displaced)
  <2> SUFFICES ASSUME NEW colour, NEW reach, NEW displaced
               PROVE  Setup!Process(colour, reach, displaced) <=> SetupProofs!Process(colour, reach, displaced)
    OBVIOUS
  <2>1. {Setup!Aged(b, reach) : b \in blocks} = {SetupProofs!Aged(b, reach) : b \in blocks}
    BY SameLifecycle
  <2>2. Setup!Creates(colour, displaced) <=> SetupProofs!Creates(colour, displaced)
    BY <1>2
  <2> QED
    BY <1>3, <2>1, <2>2 DEF Setup!Process, SetupProofs!Process, Setup!NextPending,
       SetupProofs!NextPending, Setup!Dir, SetupProofs!Dir
<1>5. Setup!StructureEvents = SetupProofs!StructureEvents
  BY DEF Setup!StructureEvents, SetupProofs!StructureEvents
<1>6. Setup!Row <=> SetupProofs!Row
  BY <1>1, <1>4 DEF Setup!Row, SetupProofs!Row, Setup!Colours, SetupProofs!Colours, Setup!Dir,
     SetupProofs!Dir, Setup!Reach, SetupProofs!Reach
<1>7. Setup!SetupNext <=> SetupProofs!SetupNext
  BY <1>5, <1>6 DEF Setup!SetupNext, SetupProofs!SetupNext
<1>8. Setup!SetupInit <=> SetupProofs!SetupInit
  BY DEF Setup!SetupInit, SetupProofs!SetupInit, Setup!Init, SetupProofs!Init, Setup!Cycle!Init,
     SetupProofs!Cycle!Init, Setup!Dir, SetupProofs!Dir
<1> QED
  BY <1>7, <1>8

LEMMA EngineIsSetup == EngineSpec => SetupProofs!SetupSpec
<1>1. [Setup!SetupNext]_(Setup!setupVars) => [SetupProofs!SetupNext]_(SetupProofs!setupVars)
  BY SameSetup DEF Setup!setupVars, SetupProofs!setupVars, Setup!vars, SetupProofs!vars,
     Setup!blockVars, SetupProofs!blockVars, Setup!Cycle!vars, SetupProofs!Cycle!vars
<1> QED
  BY <1>1, SameSetup, SetupRefinement, PTL
     DEF ImplementsSetup, Setup!SetupSpec, SetupProofs!SetupSpec

LEMMA SetupAlways == EngineSpec => []SetupProofs!SetupOK
BY EngineIsSetup, SetupAssumptions, SetupProofs!Invariance, PTL

\* The properties of the two instances agree.
LEMMA SameGuarantees ==
  /\ SetupProofs!PendingIsCurrent => Setup!PendingIsCurrent
  /\ SetupProofs!OneFootprint => Setup!OneFootprint
  /\ SetupProofs!ChochIsCurrent => Setup!ChochIsCurrent
  /\ SetupProofs!SweepCycleHoldsOneShift => Setup!SweepCycleHoldsOneShift
  /\ SetupProofs!BlockIsOfThisShift => Setup!BlockIsOfThisShift
  /\ SetupProofs!SnapshotAgrees => Setup!SnapshotAgrees
<1> USE DEF Setup!Of, SetupProofs!Of, Setup!Opp, SetupProofs!Opp, Setup!Dir, SetupProofs!Dir,
            Setup!IsActive, SetupProofs!IsActive
<1>1. SetupProofs!PendingIsCurrent => Setup!PendingIsCurrent
  BY DEF Setup!PendingIsCurrent, SetupProofs!PendingIsCurrent
<1>2. SetupProofs!OneFootprint => Setup!OneFootprint
  BY DEF Setup!OneFootprint, SetupProofs!OneFootprint
<1>3. \A d, i : Setup!IsChoch(d, i) <=> SetupProofs!IsChoch(d, i)
  BY DEF Setup!IsChoch, SetupProofs!IsChoch
<1>4. \A i, c : Setup!InCycleOf(i, c) <=> SetupProofs!InCycleOf(i, c)
  BY DEF Setup!InCycleOf, SetupProofs!InCycleOf
<1>5. \A b, d, i : Setup!IsChosen(b, d, i) <=> SetupProofs!IsChosen(b, d, i)
  BY DEF Setup!IsChosen, SetupProofs!IsChosen, Setup!IsLinked, SetupProofs!IsLinked
<1>6. SetupProofs!ChochIsCurrent => Setup!ChochIsCurrent
  BY <1>3 DEF Setup!ChochIsCurrent, SetupProofs!ChochIsCurrent
<1>7. SetupProofs!SweepCycleHoldsOneShift => Setup!SweepCycleHoldsOneShift
  BY <1>4 DEF Setup!SweepCycleHoldsOneShift, SetupProofs!SweepCycleHoldsOneShift
<1>8. SetupProofs!BlockIsOfThisShift => Setup!BlockIsOfThisShift
  BY <1>3, <1>4, <1>5 DEF Setup!BlockIsOfThisShift, SetupProofs!BlockIsOfThisShift
<1>9. SetupProofs!SnapshotAgrees => Setup!SnapshotAgrees
  BY DEF Setup!SnapshotAgrees, SetupProofs!SnapshotAgrees, Setup!LatestEvent, SetupProofs!LatestEvent
<1> QED
  BY <1>1, <1>2, <1>6, <1>7, <1>8, <1>9

\* What is proved of the setups over abstract candles and sweeps holds of every
\* analysis of a frame.
THEOREM SetupGuarantees ==
  EngineSpec =>
    /\ [](Setup!PendingIsCurrent /\ Setup!OneFootprint /\ Setup!ChochIsCurrent)
    /\ [](Setup!SweepCycleHoldsOneShift /\ Setup!BlockIsOfThisShift /\ Setup!SnapshotAgrees)
    /\ Setup!ResolutionIsComplete /\ Setup!LifecycleIsFinal
<1>1. SetupProofs!SetupSpec =>
        /\ [](SetupProofs!PendingIsCurrent /\ SetupProofs!OneFootprint /\ SetupProofs!ChochIsCurrent)
        /\ [](SetupProofs!SweepCycleHoldsOneShift /\ SetupProofs!BlockIsOfThisShift
                /\ SetupProofs!SnapshotAgrees)
  BY SetupAssumptions, SetupProofs!PendingCurrent, SetupProofs!FootprintsDiffer,
     SetupProofs!ChochCurrent, SetupProofs!SweepCycleOneShift, SetupProofs!BlockOfThisShift,
     SetupProofs!SnapshotsAgree, PTL
<1>2. SetupProofs!SetupSpec => SetupProofs!ResolutionIsComplete /\ SetupProofs!LifecycleIsFinal
  BY SetupAssumptions, SetupProofs!ResolutionComplete, SetupProofs!LifecycleFinal, PTL
<1>3. SetupProofs!ResolutionIsComplete => Setup!ResolutionIsComplete
  BY PTL DEF SetupProofs!ResolutionIsComplete, Setup!ResolutionIsComplete, Setup!IsActive,
             SetupProofs!IsActive, Setup!vars, SetupProofs!vars, Setup!blockVars,
             SetupProofs!blockVars, Setup!Cycle!vars, SetupProofs!Cycle!vars
<1>4. SetupProofs!LifecycleIsFinal => Setup!LifecycleIsFinal
  BY PTL DEF SetupProofs!LifecycleIsFinal, Setup!LifecycleIsFinal, Setup!IsActive,
             SetupProofs!IsActive, Setup!vars, SetupProofs!vars, Setup!blockVars,
             SetupProofs!blockVars, Setup!Cycle!vars, SetupProofs!Cycle!vars
<1> QED
  BY <1>1, <1>2, <1>3, <1>4, EngineIsSetup, SameGuarantees, PTL

-----------------------------------------------------------------------------
(* The registry against the candles it was made from.                      *)

\* The last candle of each colour, as the block engine keeps it.
LastIsExact ==
  \A c \in Dir :
    /\ last[c] # None => last[c] \in 0..(pos - 1) /\ Colour(BarAt(last[c])) = c
    /\ \A r \in 0..(pos - 1) : Colour(BarAt(r)) = c => last[c] # None /\ r <= last[c]

\* The types the history needs of a registry entry.
BlockTypes ==
  \A b \in blocks :
    /\ b \in Setup!Block
    /\ b.type \in Dir /\ b.created \in Nat /\ b.anchor \in Nat /\ b.created < pos
    /\ b.status \in {"active", "mitigated", "invalidated", "expired"}

LEMMA BlockTypesOf == SetupProofs!SetupOK => BlockTypes
<1>1. SetupProofs!Block = Setup!Block
  BY DEF SetupProofs!Block, Setup!Block, SetupProofs!Dir, Setup!Dir, SetupProofs!Statuses, Setup!Statuses
<1> SUFFICES ASSUME SetupProofs!SetupOK, NEW b \in blocks
             PROVE  /\ b \in Setup!Block
                    /\ b.type \in Dir /\ b.created \in Nat /\ b.anchor \in Nat /\ b.created < pos
                    /\ b.status \in {"active", "mitigated", "invalidated", "expired"}
  BY DEF BlockTypes
<1>2. b \in Setup!Block /\ b.created < pos
  BY <1>1 DEF SetupProofs!SetupOK, SetupProofs!RegistryOK, SetupProofs!TypeOK, SetupProofs!BlocksOK
<1> QED
  BY <1>2 DEF Setup!Block, Setup!Dir, Dir, Setup!Statuses

LEMMA BlockTypesAlways == EngineSpec => []BlockTypes
BY BlockTypesOf, SetupAlways, PTL

LEMMA LastStep ==
  ASSUME FrameOK, LastIsExact, Analyse
  PROVE  LastIsExact'
<1>1. pos \in Nat /\ pos' = pos + 1 /\ frame' = frame
  BY StepAdvances DEF Analyse, FrameOK
<1>2. last' = [c \in Dir |-> IF c = Colour(BarAt(pos)) THEN pos ELSE last[c]]
  BY DEF Analyse, FindOrderBlocks, Setup!Process, Setup!Dir, Dir
<1>3. \A r : Colour(BarAt(r))' = Colour(BarAt(r))
  BY <1>1 DEF Colour, BarAt
<1>4. pos # None /\ \A r \in Nat : r # None
  BY <1>1, NoneAssumption
<1> SUFFICES ASSUME NEW c \in Dir
             PROVE  /\ last'[c] # None => last'[c] \in 0..pos /\ Colour(BarAt(last'[c])) = c
                    /\ \A r \in 0..pos : Colour(BarAt(r)) = c => last'[c] # None /\ r <= last'[c]
  <2>1. pos' - 1 = pos
    BY <1>1
  <2> QED
    BY <1>1, <2>1 DEF LastIsExact, Colour, BarAt
<1>5. /\ last[c] # None => last[c] \in 0..(pos - 1) /\ Colour(BarAt(last[c])) = c
      /\ \A r \in 0..(pos - 1) : Colour(BarAt(r)) = c => last[c] # None /\ r <= last[c]
  BY DEF LastIsExact
<1>6. CASE c = Colour(BarAt(pos))
  <2>1. last'[c] = pos
    BY <1>2, <1>6
  <2> QED
    BY <1>1, <1>4, <1>6, <2>1
<1>7. CASE c # Colour(BarAt(pos))
  <2>1. last'[c] = last[c]
    BY <1>2, <1>7
  <2>2. \A r \in 0..pos : Colour(BarAt(r)) = c => r \in 0..(pos - 1)
    BY <1>1, <1>7
  <2> QED
    BY <1>1, <1>5, <2>1, <2>2
<1> QED
  BY <1>6, <1>7

\* What a row makes of a block, section by section.
LEMMA AgedExactly ==
  ASSUME NEW b \in Setup!Block, NEW reach, pos \in Nat, b.created < pos
  PROVE  LET c == Setup!Aged(b, reach)
             falls == row'.event = "MSS_INVALIDATED" /\ b.source = "MSS" /\ b.created = row'.invalidated
             old == MaxAge # None /\ pos - b.created >= MaxAge IN
         /\ c.created = b.created /\ c.type = b.type /\ c.anchor = b.anchor /\ c.source = b.source
         /\ b.status # "active" => c.status = b.status /\ c.reason = b.reason
         /\ b.status = "active" =>
              \/ /\ reach[b.anchor] = "breach"
                 /\ c.status = "invalidated" /\ c.reason = "price_penetration"
              \/ reach[b.anchor] = "touch" /\ c.status = "mitigated"
              \/ /\ reach[b.anchor] \notin {"breach", "touch"} /\ falls
                 /\ c.status = "invalidated" /\ c.reason = "mss_invalidated"
              \/ /\ reach[b.anchor] \notin {"breach", "touch"} /\ ~falls /\ old
                 /\ c.status = "expired"
              \/ /\ reach[b.anchor] \notin {"breach", "touch"} /\ ~falls /\ ~old
                 /\ c.status = "active"
<1> DEFINE t == Setup!Touched(b, reach)
           k == Setup!Cascaded(t)
           p == Setup!Promoted(k)
           c == Setup!Expired(p)
           Same(x, y) == /\ x.created = y.created /\ x.type = y.type
                         /\ x.anchor = y.anchor /\ x.source = y.source
           falls == row'.event = "MSS_INVALIDATED" /\ b.source = "MSS" /\ b.created = row'.invalidated
           old == MaxAge # None /\ pos - b.created >= MaxAge
           r == reach[b.anchor]
<1> USE DEF Setup!Block, Setup!IsActive
<1>1. /\ t \in Setup!Block /\ Same(t, b)
      /\ b.status # "active" => t.status = b.status /\ t.reason = b.reason
      /\ b.status = "active" /\ r = "breach" => t.status = "invalidated" /\ t.reason = "price_penetration"
      /\ b.status = "active" /\ r = "touch" => t.status = "mitigated"
      /\ b.status = "active" /\ r \notin {"breach", "touch"} => t.status = "active"
  <2> DEFINE seen == [b EXCEPT !.passed = b.passed \/ r = "breach"]
  <2>1. /\ seen \in Setup!Block /\ Same(seen, b)
        /\ seen.status = b.status /\ seen.reason = b.reason
    OBVIOUS
  <2>2. t = IF b.status # "active" THEN seen
            ELSE IF r = "breach"
            THEN [seen EXCEPT !.status = "invalidated", !.reason = "price_penetration"]
            ELSE IF r = "touch" THEN [seen EXCEPT !.status = "mitigated"] ELSE seen
    BY DEF Setup!Touched
  <2> HIDE DEF seen, r, t
  <2> QED
    BY <2>1, <2>2 DEF Setup!Statuses
<1> HIDE DEF t, r
<1>2. /\ k \in Setup!Block /\ Same(k, t)
      /\ k.status = IF falls /\ t.status = "active" THEN "invalidated" ELSE t.status
      /\ k.reason = IF falls /\ t.status = "active" THEN "mss_invalidated" ELSE t.reason
  BY <1>1 DEF Setup!Cascaded, Setup!Statuses
<1> HIDE DEF k, falls
<1>3. /\ p \in Setup!Block /\ Same(p, k) /\ p.status = k.status /\ p.reason = k.reason
  BY <1>2 DEF Setup!Promoted
<1> HIDE DEF p
<1>4. /\ Same(c, p) /\ c.reason = p.reason
      /\ c.status = IF p.status = "active" /\ MaxAge # None /\ pos - p.created >= MaxAge THEN "expired"
                    ELSE p.status
  BY <1>3 DEF Setup!Expired
<1> HIDE DEF c
<1>5. c.status = IF p.status = "active" /\ old THEN "expired" ELSE p.status
  BY <1>1, <1>2, <1>3, <1>4
<1> HIDE DEF old
<1>6. Setup!Aged(b, reach) = c
  BY DEF Setup!Aged, t, k, p, c
<1>7. Same(c, b)
  BY <1>1, <1>2, <1>3, <1>4
<1> QED
  BY <1>1, <1>2, <1>3, <1>4, <1>5, <1>6, <1>7 DEF falls, old, r

\* How far a row reaches into a block is how its candle meets the block.
LEMMA ReachIsMeeting ==
  ASSUME NEW b, b.type \in Dir, Colour(BarAt(b.anchor)) = Opp(b.type)
  PROVE  /\ Reached(b.anchor) = "breach" <=> ClosesThrough(b, pos)
         /\ Reached(b.anchor) = "touch" <=> ~ClosesThrough(b, pos) /\ TradesInto(b, pos)
BY DEF Reached, ClosesThrough, TradesInto, Distal

LEMMA HistoryIsFixed ==
  ASSUME Analyse, NEW b, NEW r
  PROVE  /\ ClosesThrough(b, r)' <=> ClosesThrough(b, r)
         /\ Misses(b, r)' <=> Misses(b, r)
         /\ MissedUpTo(b, r)' <=> MissedUpTo(b, r)
<1>1. frame' = frame
  BY DEF Analyse
<1> QED
  BY <1>1 DEF MissedUpTo, Misses, ClosesThrough, TradesInto, Distal, BarAt

\* The footprint of a block outlives every row, because the candles stay, and so does a
\* pool that has been swept.
SweptStays ==
  \A i \in DOMAIN pools : pools[i].status = "swept" => i \in DOMAIN pools' /\ pools'[i] = pools[i]

\* No row forgets a sweep.
LEMMA SweptStep ==
  ASSUME Analyse, PoolProofs!TypeOK PROVE SweptStays
<1>1. PICK c : Pools!PlainRow(c) \/ \E s : Pools!SwingRow(s, c)
  BY DEF Analyse, FindLiquidity
<1> DEFINE S == Pools!Survey(c)
<1>2. pools \in Seq(PoolProofs!Pool)
  BY DEF PoolProofs!TypeOK
<1>3. DOMAIN S = DOMAIN pools /\ \A i \in DOMAIN pools : pools[i].status = "swept" => S[i] = pools[i]
  BY DEF Pools!Survey, Pools!Aged, Pools!Judged, Pools!IsActive
<1>4. pools' = S \/ \E q : pools' = Append(S, q)
  BY <1>1 DEF Pools!PlainRow, Pools!SwingRow
<1>5. \E T : S \in Seq(T)
  <2>1. DOMAIN S = 1..Len(pools) /\ Len(pools) \in Nat
    BY <1>2, <1>3
  <2>2. S \in Seq({S[i] : i \in 1..Len(pools)})
    BY <2>1 DEF Pools!Survey
  <2> QED
    BY <2>2
<1> HIDE DEF S
<1>6. ASSUME NEW q, pools' = Append(S, q) PROVE \A i \in DOMAIN S : i \in DOMAIN pools' /\ pools'[i] = S[i]
  BY <1>5, <1>6
<1> QED
  BY <1>3, <1>4, <1>6 DEF SweptStays

\* Where a block stands is settled on the row that creates it.
LEMMA FootprintStays ==
  ASSUME FrameOK, Analyse, SweptStays, NEW b, b.created \in Nat, b.created < pos, Footprint(b),
         NEW c, c.created = b.created, c.type = b.type, c.anchor = b.anchor
  PROVE  Footprint(c)'
<1>1. frame' = frame /\ requireSweep' = requireSweep
  BY DEF Analyse
<1>2. requireSweep => \E i \in DOMAIN pools' :
        /\ pools'[i].status = "swept" /\ pools'[i].side = PullbackSide(b.type)
        /\ pools'[i].ended \in b.anchor..b.created
  BY DEF Footprint, SweptStays
<1> QED
  BY <1>1, <1>2 DEF Footprint, BarAt

LEMMA FateStays ==
  ASSUME FrameOK, Analyse, BlockTypes, NEW b \in blocks, Footprint(b), Fate(b), NEW c,
         c = Setup!Aged(b, [q \in {x.anchor : x \in blocks} |-> Reached(q)])
  PROVE  Fate(c)'
<1> DEFINE reach == [q \in {x.anchor : x \in blocks} |-> Reached(q)]
           falls == row'.event = "MSS_INVALIDATED" /\ b.source = "MSS" /\ b.created = row'.invalidated
           old == MaxAge # None /\ pos - b.created >= MaxAge
<1>1. /\ b \in Setup!Block /\ b.type \in Dir /\ b.created \in Nat /\ b.anchor \in Nat
      /\ b.created < pos /\ b.status \in {"active", "mitigated", "invalidated", "expired"}
      /\ pos \in Nat /\ pos' = pos + 1 /\ pos < Len(frame) /\ pos' - 1 = pos
  BY StepAdvances DEF Analyse, FrameOK, BlockTypes
<1>2. Colour(BarAt(b.anchor)) = Opp(b.type)
  BY DEF Footprint
<1>3. /\ reach[b.anchor] = "breach" <=> ClosesThrough(b, pos)
      /\ reach[b.anchor] = "touch" <=> ~ClosesThrough(b, pos) /\ TradesInto(b, pos)
  <2>1. reach[b.anchor] = Reached(b.anchor)
    OBVIOUS
  <2> QED
    BY <1>1, <1>2, <2>1, ReachIsMeeting
<1>4. Misses(b, pos) <=> reach[b.anchor] \notin {"breach", "touch"}
  BY <1>3 DEF Misses
<1>5. /\ c.created = b.created /\ c.type = b.type /\ c.anchor = b.anchor /\ c.source = b.source
      /\ b.status # "active" => c.status = b.status /\ c.reason = b.reason
      /\ b.status = "active" =>
           \/ /\ ClosesThrough(b, pos)
              /\ c.status = "invalidated" /\ c.reason = "price_penetration"
           \/ /\ ~ClosesThrough(b, pos) /\ ~Misses(b, pos) /\ c.status = "mitigated"
           \/ /\ Misses(b, pos) /\ falls
              /\ c.status = "invalidated" /\ c.reason = "mss_invalidated"
           \/ Misses(b, pos) /\ ~falls /\ old /\ c.status = "expired"
           \/ Misses(b, pos) /\ ~falls /\ ~old /\ c.status = "active"
  BY <1>1, <1>3, <1>4, AgedExactly
<1> HIDE DEF reach, old, falls
\* Nothing of the history depends on the row, or on anything but the footprint.
<1>6. \A r : /\ ClosesThrough(c, r)' <=> ClosesThrough(b, r)
             /\ Misses(c, r)' <=> Misses(b, r)
             /\ MissedUpTo(c, r)' <=> MissedUpTo(b, r)
  <2>1. \A r : /\ ClosesThrough(c, r) <=> ClosesThrough(b, r)
               /\ Misses(c, r) <=> Misses(b, r)
               /\ MissedUpTo(c, r) <=> MissedUpTo(b, r)
    BY <1>5 DEF MissedUpTo, Misses, ClosesThrough, TradesInto, Distal
  <2> QED
    BY <2>1, HistoryIsFixed
<1>7. \A r : FirstMeets(b, r) => FirstMeets(c, r)'
  BY <1>1, <1>5, <1>6 DEF FirstMeets
<1>0. PICK n \in Nat : n = pos
  BY <1>1
<1>8. /\ MissedUpTo(b, n - 1) /\ Misses(b, n) => MissedUpTo(b, n)
      /\ MissedUpTo(b, n - 1) /\ ~Misses(b, n) => FirstMeets(c, n)'
  <2>1. \A q \in (b.created + 1)..n : q # n => q \in (b.created + 1)..(n - 1)
    BY <1>0, <1>1
  <2>2. MissedUpTo(b, n - 1) /\ Misses(b, n) => MissedUpTo(b, n)
    BY <2>1 DEF MissedUpTo
  <2>3. MissedUpTo(b, n - 1) /\ ~Misses(b, n) => FirstMeets(c, n)'
    BY <1>0, <1>1, <1>5, <1>6 DEF FirstMeets
  <2> QED
    BY <2>2, <2>3
<1>9. Fate(c)' <=>
        /\ c.status = "active" =>
             MissedUpTo(c, n)' /\ (MaxAge # None => n < c.created + MaxAge)
        /\ c.status = "mitigated" =>
             \E r \in 0..n : FirstMeets(c, r)' /\ ~ClosesThrough(c, r)'
        /\ c.status = "invalidated" =>
             \/ /\ c.reason = "price_penetration"
                /\ \E r \in 0..n : FirstMeets(c, r)' /\ ClosesThrough(c, r)'
             \/ /\ c.reason = "mss_invalidated" /\ c.source = "MSS"
                /\ \E e \in events' : /\ e.type = "MSS_INVALIDATED" /\ e.origin = c.created
                                    /\ MissedUpTo(c, e.index)'
        /\ c.status = "expired" =>
             MaxAge # None /\ c.created + MaxAge < n + 1 /\ MissedUpTo(c, c.created + MaxAge)'
  BY <1>0, <1>1 DEF Fate, MissedUpTo, FirstMeets, ClosesThrough, Misses, TradesInto, Distal, BarAt
<1>10. MaxAge # None => MaxAge \in Nat
  BY BlockAssumption
<1>11. CASE b.status # "active"
  <2>1. c.status = b.status /\ c.reason = b.reason
    BY <1>5, <1>11
  <2>2. \A r \in 0..(n - 1) : r \in 0..n
    BY <1>0, <1>1
  <2>3. events \subseteq events'
    BY DEF Analyse
  <2>4. /\ b.status = "mitigated" =>
             \E r \in 0..(n - 1) : FirstMeets(b, r) /\ ~ClosesThrough(b, r)
        /\ b.status = "invalidated" =>
             \/ /\ b.reason = "price_penetration"
                /\ \E r \in 0..(n - 1) : FirstMeets(b, r) /\ ClosesThrough(b, r)
             \/ /\ b.reason = "mss_invalidated" /\ b.source = "MSS"
                /\ \E e \in events : /\ e.type = "MSS_INVALIDATED" /\ e.origin = b.created
                                   /\ MissedUpTo(b, e.index)
        /\ b.status = "expired" =>
             MaxAge # None /\ b.created + MaxAge < n /\ MissedUpTo(b, b.created + MaxAge)
    BY <1>0 DEF Fate
  <2>5. b.status = "mitigated" =>
          \E r \in 0..n : FirstMeets(c, r)' /\ ~ClosesThrough(c, r)'
    BY <1>6, <1>7, <2>2, <2>4
  <2>6. b.status = "invalidated" =>
             \/ /\ b.reason = "price_penetration"
                /\ \E r \in 0..n : FirstMeets(c, r)' /\ ClosesThrough(c, r)'
             \/ /\ b.reason = "mss_invalidated" /\ b.source = "MSS"
                /\ \E e \in events' : /\ e.type = "MSS_INVALIDATED" /\ e.origin = c.created
                                    /\ MissedUpTo(c, e.index)'
    BY <1>5, <1>6, <1>7, <2>2, <2>3, <2>4
  <2>7. b.status = "expired" =>
          MaxAge # None /\ c.created + MaxAge < n + 1 /\ MissedUpTo(c, c.created + MaxAge)'
    BY <1>0, <1>1, <1>5, <1>6, <1>10, <2>4
  <2> QED
    BY <1>5, <1>9, <1>11, <2>1, <2>5, <2>6, <2>7
<1>12. CASE b.status = "active"
  <2>1. MissedUpTo(b, n - 1) /\ (MaxAge # None => n - 1 < b.created + MaxAge)
    BY <1>0, <1>12 DEF Fate
  <2>2. n \in 0..n
    BY <1>0, <1>1
  <2>3. CASE ClosesThrough(b, n) /\ c.status = "invalidated" /\ c.reason = "price_penetration"
    <3>1. FirstMeets(c, n)' /\ ClosesThrough(c, n)'
      BY <1>0, <1>6, <1>8, <2>1, <2>3 DEF Misses
    <3> QED
      BY <1>9, <2>2, <2>3, <3>1
  <2>4. CASE ~ClosesThrough(b, n) /\ ~Misses(b, n) /\ c.status = "mitigated"
    <3>1. FirstMeets(c, n)' /\ ~ClosesThrough(c, n)'
      BY <1>0, <1>6, <1>8, <2>1, <2>4
    <3> QED
      BY <1>9, <2>2, <2>4, <3>1
  <2>5. CASE Misses(b, n) /\ falls /\ c.status = "invalidated" /\ c.reason = "mss_invalidated"
    <3>1. b.source = "MSS" /\ row'.event = "MSS_INVALIDATED" /\ b.created = row'.invalidated
      BY <2>5 DEF falls
    <3>2. row'.event # None
      BY <3>1, NoneAssumption DEF EventNames
    <3>3. \E e \in events' : /\ e.type = "MSS_INVALIDATED" /\ e.origin = b.created /\ e.index = n
      <4> DEFINE e == [type |-> row'.event, index |-> pos, direction |-> row'.direction,
                       origin |-> row'.invalidated]
      <4>1. e \in events'
        BY <3>2 DEF Analyse, Setup!StructureEvents
      <4>2. e.type = "MSS_INVALIDATED" /\ e.origin = b.created /\ e.index = n
        BY <1>0, <3>1
      <4> QED
        BY <4>1, <4>2
    <3>4. MissedUpTo(c, n)'
      BY <1>0, <1>6, <1>8, <2>1, <2>5
    <3> QED
      BY <1>5, <1>9, <2>5, <3>1, <3>3, <3>4
  <2>6. CASE Misses(b, n) /\ ~falls /\ old /\ c.status = "expired"
    <3>1. MaxAge # None /\ MaxAge \in Nat /\ n = b.created + MaxAge
      BY <1>0, <1>1, <1>10, <2>1, <2>6 DEF old
    <3>2. MissedUpTo(c, n)'
      BY <1>0, <1>6, <1>8, <2>1, <2>6
    <3> QED
      BY <1>0, <1>1, <1>5, <1>9, <2>6, <3>1, <3>2
  <2>7. CASE Misses(b, n) /\ ~falls /\ ~old /\ c.status = "active"
    <3>1. MaxAge # None => n < b.created + MaxAge
      BY <1>0, <1>1, <1>10, <2>7 DEF old
    <3>2. MissedUpTo(c, n)'
      BY <1>0, <1>6, <1>8, <2>1, <2>7
    <3> QED
      BY <1>5, <1>9, <2>7, <3>1, <3>2
  <2> QED
    BY <1>0, <1>5, <1>12, <2>3, <2>4, <2>5, <2>6, <2>7
<1> QED
  BY <1>0, <1>11, <1>12

\* A block is born on the last candle against it, and nothing has met it yet.
LEMMA NewBlockHistory ==
  ASSUME FrameOK, LastIsExact, Analyse, NEW c, c = Setup!NewBlock, c \in Setup!Block,
         NEW displaced, Setup!Creates(Colour(BarAt(pos)), displaced),
         displaced <=> row'.direction # None /\ Setup!Anchor(row'.direction) # None
                         /\ Displaces(row'.direction, Setup!Anchor(row'.direction))
  PROVE  Footprint(c)' /\ Fate(c)'
<1> DEFINE d == row'.direction
           p == Setup!Anchor(d)
<1>1. /\ c.type = d /\ c.created = pos /\ c.anchor = p /\ c.status = "active"
  BY DEF Setup!NewBlock
<1>2. d \in Dir /\ p \in Nat /\ pos \in Nat /\ pos' = pos + 1 /\ pos' - 1 = pos
  BY <1>1, StepAdvances DEF Setup!Block, Setup!Dir, Dir, Analyse, FrameOK
<1>3. PICK n \in Nat : n = pos
  BY <1>2
<1>4. /\ Colour(BarAt(n)) = d /\ p # None /\ Displaces(d, p)
  BY <1>3 DEF Setup!Creates
<1>5. p = last[Opp(d)] /\ p >= n - Lookback /\ last[Opp(d)] # None /\ Opp(d) \in Dir
  BY <1>2, <1>3, <1>4 DEF Setup!Anchor, Setup!Opp, Opp, Dir
<1>6. /\ p \in 0..(n - 1) /\ Colour(BarAt(p)) = Opp(d)
      /\ \A r \in 0..(n - 1) : Colour(BarAt(r)) = Opp(d) => r <= p
  BY <1>3, <1>5 DEF LastIsExact
<1>7. Lookback \in Nat /\ (MaxAge # None => MaxAge \in Nat /\ MaxAge > 0)
  BY BlockAssumption
<1>8. requireSweep => \E i \in DOMAIN pools' :
        /\ pools'[i].status = "swept" /\ pools'[i].side = PullbackSide(d)
        /\ pools'[i].ended \in p..n
  BY <1>3, <1>4 DEF Displaces, SweepConfirmed, SweepsLast
<1>9. /\ p \in (n - Lookback)..(n - 1)
      /\ \A r \in (p + 1)..(n - 1) : Colour(BarAt(r)) # Opp(d)
  <2>1. \A r \in (p + 1)..(n - 1) : r \in 0..(n - 1) /\ ~(r <= p)
    BY <1>2
  <2> QED
    BY <1>2, <1>5, <1>6, <1>7, <2>1
<1> HIDE DEF d, p
<1>10. frame' = frame /\ requireSweep' = requireSweep
  BY DEF Analyse
<1>11. Footprint(c)'
  BY <1>1, <1>2, <1>3, <1>4, <1>6, <1>8, <1>9, <1>10 DEF Footprint, BarAt, Colour
<1>12. Fate(c)'
  <2>1. \A q \in (n + 1)..n : FALSE
    BY <1>3
  <2>2. MissedUpTo(c, n)'
    BY <1>1, <1>3, <2>1 DEF MissedUpTo
  <2> QED
    BY <1>1, <1>2, <1>3, <1>7, <2>2 DEF Fate
<1> QED
  BY <1>11, <1>12

\* No row breaks what the registry says of the candles.
LEMMA HistoryStep ==
  ASSUME FrameOK, BlockTypes, BlockTypes', PoolProofs!TypeOK, LastIsExact, RegistryIsHistory,
         Analyse
  PROVE  RegistryIsHistory'
<1> DEFINE d == row'.direction
           reach == [q \in {b.anchor : b \in blocks} |-> Reached(q)]
           displaced == d # None /\ Setup!Anchor(d) # None /\ Displaces(d, Setup!Anchor(d))
           born == Setup!Creates(Colour(BarAt(pos)), displaced)
<1>1. blocks' = {Setup!Aged(b, reach) : b \in blocks} \cup (IF born THEN {Setup!NewBlock} ELSE {})
  BY DEF Analyse, FindOrderBlocks, Setup!Process
<1> HIDE DEF displaced
<1> SUFFICES ASSUME NEW c \in blocks'
             PROVE  Footprint(c)' /\ Fate(c)'
  BY DEF RegistryIsHistory
<1>2. ASSUME NEW b \in blocks, c = Setup!Aged(b, reach)
      PROVE  Footprint(c)' /\ Fate(c)'
  <2>1. Footprint(b) /\ Fate(b)
    BY DEF RegistryIsHistory
  <2>2. b \in Setup!Block /\ b.created \in Nat /\ b.created < pos /\ pos \in Nat
    BY DEF BlockTypes, FrameOK
  <2>3. c.created = b.created /\ c.type = b.type /\ c.anchor = b.anchor
    BY <1>2, <2>2, AgedExactly
  <2>4. SweptStays
    BY SweptStep
  <2>5. Footprint(c)'
    BY <2>1, <2>2, <2>3, <2>4, FootprintStays
  <2>6. Fate(c)'
    BY <1>2, <2>1, FateStays
  <2> QED
    BY <2>5, <2>6
<1>3. ASSUME born, c = Setup!NewBlock
      PROVE  Footprint(c)' /\ Fate(c)'
  <2>1. c \in Setup!Block
    BY DEF BlockTypes, Setup!Block, Setup!Dir, Setup!Statuses
  <2> QED
    BY <1>3, <2>1, NewBlockHistory DEF displaced
<1> QED
  BY <1>1, <1>2, <1>3

\* The registry of every analysis says what its candles did: where each block
\* stands, how price first came back to it, and why it ended.
THEOREM RegistryIsHistoryHolds == EngineSpec => []RegistryIsHistory
<1> DEFINE Inv == LastIsExact /\ RegistryIsHistory
           Side0 == FrameOK /\ BlockTypes /\ PoolProofs!TypeOK
<1>1. EngineInit => Inv
  <2> SUFFICES ASSUME EngineInit PROVE Inv
    OBVIOUS
  <2>1. pos = 0 /\ blocks = {} /\ last = [c \in Dir |-> None]
    BY DEF EngineInit, Init, Setup!SetupInit, Setup!Init, Setup!Dir, Dir
  <2> QED
    BY <2>1 DEF LastIsExact, RegistryIsHistory
<1>2. Side0 /\ Side0' /\ Inv /\ [Analyse]_engineVars => Inv'
  <2> SUFFICES ASSUME Side0, Side0', Inv, [Analyse]_engineVars PROVE Inv'
    OBVIOUS
  <2>1. CASE Analyse
    BY <2>1, LastStep, HistoryStep
  <2>2. CASE UNCHANGED engineVars
    BY <2>2 DEF engineVars, vars, LastIsExact, RegistryIsHistory, Footprint, Fate, FirstMeets,
                MissedUpTo, Misses, ClosesThrough, TradesInto, Distal, BarAt, Colour
  <2> QED
    BY <2>1, <2>2
<1>3. EngineSpec => []PoolProofs!TypeOK
  BY EngineIsPools, PoolAssumptions, PoolProofs!TypeCorrect, PTL
<1>4. EngineSpec => []Side0
  BY <1>3, FrameAlways, BlockTypesAlways, PTL
<1> QED
  BY <1>1, <1>2, <1>4, PTL DEF EngineSpec

-----------------------------------------------------------------------------
(* The levels the structure engine holds are swings of the frame.          *)

\* Price x is a swing of direction d on one of the rows up to n.
FromSwing(x, d, n) == \E r \in 0..n : SwingAt(d, r) # None /\ SwingAt(d, r) = x

SwingDir(s) == IF s = "high" THEN "bullish" ELSE "bearish"
LevelsFromSwings(n) ==
  /\ \A s \in Side : detected[s] # None => FromSwing(detected[s], SwingDir(s), n)
  /\ \A d \in Dir : candidate[d] # None => FromSwing(candidate[d], Opp(d), n)
  /\ \A d \in Dir : bosLevel[d] # None => FromSwing(bosLevel[d], d, n)
  /\ \A d \in Dir : protected[d].level # None => FromSwing(protected[d].level, Opp(d), n)

LEMMA SideOfDir ==
  ASSUME NEW d \in Dir
  PROVE  /\ ProgressSide(d) \in Side /\ SwingDir(ProgressSide(d)) = d
         /\ PullbackSide(d) \in Side /\ SwingDir(PullbackSide(d)) = Opp(d) /\ Opp(d) \in Dir
BY DEF Dir, Side, Opp, ProgressSide, PullbackSide, SwingDir

\* A row's swing prices are swings of the frame on that row.
LEMMA RowSwings ==
  ASSUME NEW n \in Nat, NEW s \in Side, SwingPrice(StructureRow(n), s) # None
  PROVE  FromSwing(SwingPrice(StructureRow(n), s), SwingDir(s), n)
<1>1. SwingPrice(StructureRow(n), s) = SwingAt(SwingDir(s), n)
  BY DEF SwingPrice, StructureRow, SwingDir, Side
<1>2. n \in 0..n
  OBVIOUS
<1> QED
  BY <1>1, <1>2 DEF FromSwing

\* A swing of an earlier row is one of a later row.
LEMMA FromSwingGrows ==
  ASSUME NEW x, NEW d, NEW n \in Nat, FromSwing(x, d, n - 1)
  PROVE  FromSwing(x, d, n)
BY DEF FromSwing

\* After the bookkeeping of a row every tracker still holds a swing.
LEMMA TrackersStep ==
  ASSUME IInv, FrameOK, NEW n \in Nat, n = pos, n < Len(frame), LevelsFromSwings(n - 1),
         RecordSwings(StructureRow(n))
  PROVE  /\ \A s \in Side : detected'[s] # None => FromSwing(detected'[s], SwingDir(s), n)
         /\ \A d \in Dir : candidate'[d] # None => FromSwing(candidate'[d], Opp(d), n)
         /\ \A d \in Dir : bosLevel'[d] # None => FromSwing(bosLevel'[d], d, n)
<1> DEFINE c == StructureRow(n)
<1>1. c \in Rows
  BY StructureRowFacts
<1>2. \A d \in Dir : /\ Progresses(d, c) => SwingPrice(c, ProgressSide(d)) # None
                     /\ PullsBack(d, c) => SwingPrice(c, PullbackSide(d)) # None
  BY <1>1, LabelFacts, NoneAssumption, PriceAssumption DEF IInv
<1> HIDE DEF c
<1>3. \A s \in Side : SwingPrice(c, s) # None => FromSwing(SwingPrice(c, s), SwingDir(s), n)
  BY RowSwings DEF c
<1>4. \A x, d : FromSwing(x, d, n - 1) => FromSwing(x, d, n)
  BY FromSwingGrows
<1>5. ASSUME NEW s \in Side, detected'[s] # None PROVE FromSwing(detected'[s], SwingDir(s), n)
  BY <1>3, <1>4, <1>5 DEF RecordSwings, Latest, LevelsFromSwings, c
<1>6. ASSUME NEW d \in Dir, candidate'[d] # None PROVE FromSwing(candidate'[d], Opp(d), n)
  BY <1>2, <1>3, <1>4, <1>6, SideOfDir DEF RecordSwings, LevelsFromSwings, c
<1>7. ASSUME NEW d \in Dir, bosLevel'[d] # None PROVE FromSwing(bosLevel'[d], d, n)
  BY <1>2, <1>3, <1>4, <1>7, SideOfDir DEF RecordSwings, LevelsFromSwings, c
<1> QED
  BY <1>5, <1>6, <1>7

\* So does the guard a row creates, replaces or reseeds.
LEMMA GuardsFromSwings ==
  ASSUME IInv, FrameOK, NEW n \in Nat, n = pos, n < Len(frame), LevelsFromSwings(n - 1),
         RecordSwings(StructureRow(n)), NEW d \in Dir
  PROVE  /\ Reseed(d, StructureRow(n)).level # None =>
              FromSwing(Reseed(d, StructureRow(n)).level, Opp(d), n)
         /\ GuardAfterSwing(StructureRow(n), d).level # None =>
              FromSwing(GuardAfterSwing(StructureRow(n), d).level, Opp(d), n)
<1> DEFINE c == StructureRow(n)
<1> HIDE DEF c
<1>1. Reseed(d, c).level # None => FromSwing(Reseed(d, c).level, Opp(d), n)
  <2>1. Latest(detected, c) = detected'
    BY DEF RecordSwings, c
  <2>2. Reseed(d, c).level = detected'[PullbackSide(d)] \/ Reseed(d, c).level = None
    BY <2>1 DEF Reseed, NoGuard
  <2> QED
    BY <2>2, TrackersStep, SideOfDir
<1>2. protected[d].level # None => FromSwing(protected[d].level, Opp(d), n)
  BY FromSwingGrows DEF LevelsFromSwings
<1>3. GuardAfterSwing(c, d).level # None => FromSwing(GuardAfterSwing(c, d).level, Opp(d), n)
  <2>1. PullsBack(d, c) => GuardAfterSwing(c, d).level = SwingPrice(c, PullbackSide(d))
    BY DEF GuardAfterSwing, PullbackGuard
  <2>2. SwingPrice(c, PullbackSide(d)) # None => FromSwing(SwingPrice(c, PullbackSide(d)), Opp(d), n)
    BY RowSwings, SideOfDir DEF c
  <2>3. ~PullsBack(d, c) => GuardAfterSwing(c, d) \in {Reseed(d, c), protected[d]}
    BY DEF GuardAfterSwing
  <2> QED
    BY <1>1, <1>2, <2>1, <2>2, <2>3
<1> QED
  BY <1>1, <1>3 DEF c

\* No row breaks that every level in use is the price of a confirmed swing.
LEMMA LevelsStep ==
  ASSUME IInv, FrameOK, LevelsFromSwings(pos - 1), Analyse
  PROVE  LevelsFromSwings(pos - 1)'
<1>1. PICK n \in Nat : n = pos
  BY DEF FrameOK
<1> DEFINE c == StructureRow(n)
           Good(d, x) == x # None => FromSwing(x, Opp(d), n)
<1>2. /\ Step(c) /\ n < Len(frame) /\ pos' - 1 = n /\ frame' = frame /\ LevelsFromSwings(n - 1)
  BY <1>1, StepAdvances DEF Analyse
<1>3. RecordSwings(c)
  BY <1>2 DEF Step, Collect, Confirm, Invalidate, Arm, Wait, ShiftStructure, BreakStructure, Continue
<1>4. /\ \A s \in Side : detected'[s] # None => FromSwing(detected'[s], SwingDir(s), n)
      /\ \A d \in Dir : candidate'[d] # None => FromSwing(candidate'[d], Opp(d), n)
      /\ \A d \in Dir : bosLevel'[d] # None => FromSwing(bosLevel'[d], d, n)
  BY <1>1, <1>2, <1>3, TrackersStep
<1>5. \A d \in Dir : Good(d, Reseed(d, c).level) /\ Good(d, GuardAfterSwing(c, d).level)
  BY <1>1, <1>2, <1>3, GuardsFromSwings
<1>6. \A d \in Dir : Good(d, protected[d].level) /\ Good(d, candidate[d])
  BY <1>2, FromSwingGrows DEF LevelsFromSwings
<1>7. protected \in [Dir -> Guard]
  BY DEF IInv, TypeOK
<1> HIDE DEF c, Good
<1>8. ASSUME NEW x \in Dir PROVE Good(x, protected'[x].level)
  <2>1. CASE protected' = protected
    BY <1>6, <2>1
  <2>2. ASSUME NEW d \in Dir, NEW g, protected' = [protected EXCEPT ![d] = g], Good(d, g.level)
        PROVE  Good(x, protected'[x].level)
    BY <1>6, <1>7, <2>2
  <2>3. ASSUME NEW m \in Dir, Confirm(c, m) PROVE Good(x, protected'[x].level)
    <3>1. protected'[x].level = IF x = m THEN candidate[m] ELSE None
      BY <2>3 DEF Confirm, TurnGuards, PullbackGuard, NoGuard
    <3> QED
      BY <1>6, <3>1 DEF Good
  <2>4. ASSUME NEW m \in Dir, Invalidate(c, m) PROVE Good(x, protected'[x].level)
    <3>1. Opp(m) \in Dir /\ protected' = [protected EXCEPT ![Opp(m)] = Reseed(Opp(m), c)]
      BY <2>4, DirFacts DEF Invalidate
    <3> QED
      BY <1>5, <2>2, <3>1
  <2>5. ASSUME NEW m \in Dir, Arm(c, m) \/ Wait(c, m) PROVE Good(x, protected'[x].level)
    BY <2>1, <2>5 DEF Arm, Wait, guards
  <2>6. ASSUME NEW d \in Dir, ShiftStructure(c, d) PROVE Good(x, protected'[x].level)
    <3>1. /\ protected' = [protected EXCEPT ![d] = Broken(GuardAfterSwing(c, d))]
          /\ Broken(GuardAfterSwing(c, d)).level = GuardAfterSwing(c, d).level
      BY <2>6 DEF ShiftStructure, Broken
    <3> QED
      BY <1>5, <2>2, <3>1
  <2>7. ASSUME NEW d \in Dir, BreakStructure(c, d) PROVE Good(x, protected'[x].level)
    <3> DEFINE g == GuardAfterSwing(c, d)
               h == IF candidate'[d] # None THEN MovedTo(g, candidate'[d]) ELSE g
    <3>1. protected' = [protected EXCEPT ![d] = h]
      BY <2>7 DEF BreakStructure
    <3>2. h.level = IF candidate'[d] # None THEN candidate'[d] ELSE g.level
      BY DEF MovedTo
    <3> HIDE DEF h, g
    <3>3. Good(d, h.level)
      BY <1>4, <1>5, <3>2 DEF Good, g
    <3> QED
      BY <2>2, <3>1, <3>3
  <2>8. ASSUME NEW d \in Dir, Continue(c, d) PROVE Good(x, protected'[x].level)
    BY <1>5, <2>2, <2>8 DEF Continue
  <2>9. CASE Collect(c)
    BY <2>1, <2>9 DEF Collect, guards
  <2> QED
    BY <1>2, <2>3, <2>4, <2>5, <2>6, <2>7, <2>8, <2>9 DEF Step
<1>9. \A d, r : SwingAt(d, r)' = SwingAt(d, r)
  BY <1>2 DEF SwingAt, BarAt
<1> QED
  BY <1>2, <1>4, <1>8, <1>9 DEF LevelsFromSwings, FromSwing, Good

\* Only these two actions break a level.
LEMMA BreaksOnly ==
  ASSUME NEW c, Step(c), row'.event \in {"BOS", "MSS"}
  PROVE  \E d \in Dir : ShiftStructure(c, d) \/ BreakStructure(c, d)
<1>1. Quiet(c).event \notin {"BOS", "MSS"}
  BY NoneAssumption DEF Quiet, Columns, EventNames
<1>2. ~Collect(c)
  BY <1>1 DEF Collect
<1>3. \A d \in Dir : ~Confirm(c, d) /\ ~Invalidate(c, d)
  BY DEF Confirm, Invalidate, Columns
<1>4. \A d \in Dir : ~Arm(c, d) /\ ~Wait(c, d) /\ ~Continue(c, d)
  BY <1>1 DEF Arm, Wait, Continue
<1> QED
  BY <1>2, <1>3, <1>4 DEF Step

\* A swing is confirmed by the Right rows after it: none of them reaches it, so
\* a close beyond it comes later.
LEMMA BreakComesLate ==
  ASSUME FrameOK, NEW n \in Nat, n < Len(frame), NEW d \in Dir, NEW r \in 0..n,
         SwingAt(d, r) # None, Beyond(d, BarAt(n).close, SwingAt(d, r)) > 0
  PROVE  r \in 0..(n - Right - 1)
<1>1. Right \in Nat /\ Right > 0 /\ Left \in Nat
  BY BarsAssumption
<1>2. r \in Nat /\ r < Len(frame) /\ Len(frame) \in Nat
  BY FrameFacts
<1>3. IsSwing(frame, d, r + 1) /\ SwingAt(d, r) = Extreme(d, BarAt(r))
  BY DEF SwingAt
<1>4. /\ BarAt(n).close \in Int /\ BarAt(n).low <= BarAt(n).close /\ BarAt(n).close <= BarAt(n).high
      /\ Extreme(d, BarAt(n)) \in Int /\ Extreme(d, BarAt(r)) \in Int
      /\ BarAt(n).high \in Int /\ BarAt(n).low \in Int
  <2>1. Extreme(d, BarAt(n)) \in Price /\ Extreme(d, BarAt(r)) \in Price
    BY <1>2, FrameFacts
  <2> QED
    BY <2>1, FrameFacts, PriceAssumption
<1>5. ~(Beyond(d, BarAt(n).close, Extreme(d, BarAt(n))) > 0)
  BY <1>4 DEF Beyond, Extreme
<1>6. ASSUME n <= r + Right PROVE FALSE
  <2>1. r # n
    BY <1>3, <1>5
  <2>2. n + 1 \in ((r + 1) - Left)..((r + 1) + Right) /\ n + 1 # r + 1
    BY <1>1, <1>2, <1>6, <2>1
  <2>3. Beyond(d, Extreme(d, BarAt(r)), Extreme(d, BarAt(n))) > 0
    <3>1. \A j \in ((r + 1) - Left)..((r + 1) + Right) :
            j # r + 1 => Beyond(d, Extreme(d, frame[r + 1]), Extreme(d, frame[j])) > 0
      BY <1>3 DEF IsSwing
    <3>2. Beyond(d, Extreme(d, frame[r + 1]), Extreme(d, frame[n + 1])) > 0
      BY <2>2, <3>1
    <3> QED
      BY <3>2 DEF BarAt
  <2> QED
    BY <1>3, <1>4, <1>5, <2>3 DEF Beyond
<1> QED
  BY <1>1, <1>2, <1>6

\* A break is dated at a row whose close is beyond a swing of the frame, and
\* all the candles that confirmed that swing lie before that row.
THEOREM BreaksAreConfirmedHolds == EngineSpec => BreaksAreConfirmed
<1> DEFINE Confirmed(n) == row'.event \in {"BOS", "MSS"} /\ StructureRow(n).required > 0 =>
             \E r \in 0..(n - Right - 1) :
               SwingAt(row'.direction, r) # None /\ SwingAt(row'.direction, r) = row'.broken
           Levels == LevelsFromSwings(pos - 1)
<1>1. EngineSpec => []IInv
  BY StructureRefinement, Invariance, PTL DEF ImplementsStructure
<1>2. EngineInit => Levels
  BY DEF EngineInit, Init, LevelsFromSwings, NoGuard
<1>3. IInv /\ FrameOK /\ Levels /\ [Analyse]_engineVars => Levels'
  <2> SUFFICES ASSUME IInv, FrameOK, Levels, [Analyse]_engineVars PROVE Levels'
    OBVIOUS
  <2>1. CASE Analyse
    BY <2>1, LevelsStep
  <2>2. CASE UNCHANGED engineVars
    BY <2>2 DEF engineVars, vars, LevelsFromSwings, FromSwing, SwingAt, BarAt
  <2> QED
    BY <2>1, <2>2
<1>4. IInv /\ FrameOK /\ Levels /\ [Analyse]_engineVars => [Confirmed(pos)]_engineVars
  <2> SUFFICES ASSUME IInv, FrameOK, Levels, Analyse, row'.event \in {"BOS", "MSS"},
                      StructureRow(pos).required > 0
               PROVE  \E r \in 0..(pos - Right - 1) :
                        SwingAt(row'.direction, r) # None /\ SwingAt(row'.direction, r) = row'.broken
    OBVIOUS
  <2> DEFINE c == StructureRow(pos)
  <2>1. pos \in Nat /\ pos < Len(frame) /\ Step(c) /\ c \in Rows
    BY StructureRowFacts DEF Analyse, FrameOK
  <2>2. PICK d \in Dir : ShiftStructure(c, d) \/ BreakStructure(c, d)
    BY <2>1, BreaksOnly
  <2>3. RecordSwings(c)
    BY <2>2 DEF ShiftStructure, BreakStructure
  <2> DEFINE e == row'.direction
             x == row'.broken
  <2>4. e \in Dir /\ c.close # None /\ x # None /\ FromSwing(x, e, pos) /\ Beyond(e, c.close, x) >= c.required
    <3> HIDE DEF c
    <3>1. CASE ShiftStructure(c, d)
      <4>1. e = Opp(d) /\ x = GuardAfterSwing(c, d).level /\ ClosesBelowGuard(c, d)
        BY <3>1 DEF ShiftStructure, Columns
      <4>2. x # None => FromSwing(x, Opp(d), pos)
        BY <2>1, <2>3, <4>1, GuardsFromSwings DEF c
      <4> QED
        BY <4>1, <4>2, DirFacts DEF ClosesBelowGuard
    <3>2. CASE BreakStructure(c, d)
      <4>1. e = d /\ x = bosLevel'[d] /\ BreaksStructure(c, d)
        BY <3>2 DEF BreakStructure, Columns
      <4>2. x # None => FromSwing(x, d, pos)
        BY <2>1, <2>3, <4>1, TrackersStep DEF c
      <4> QED
        BY <4>1, <4>2 DEF BreaksStructure
    <3> QED
      BY <2>2, <3>1, <3>2
  <2>5. PICK r \in 0..pos : SwingAt(e, r) # None /\ SwingAt(e, r) = x
    BY <2>4 DEF FromSwing
  <2>6. c.close = BarAt(pos).close /\ c.required \in Int
    <3>1. c.close = BarAt(pos).close
      BY <2>4 DEF StructureRow
    <3> HIDE DEF c
    <3>2. c.required # None /\ c.required \in Distance \cup {None}
      BY <2>1, <2>4 DEF Rows, Candle
    <3>3. c.required \in Int
      <4>1. c.required \in Distance
        BY <3>2
      <4>2. c.required \in Nat
        BY <4>1, DistanceAssumption
      <4> QED
        BY <4>2
    <3> QED
      BY <3>1, <3>3
  <2>7. Beyond(e, BarAt(pos).close, SwingAt(e, r)) > 0
    <3>1. Beyond(e, BarAt(pos).close, x) >= c.required
      BY <2>4, <2>6
    <3>2. Beyond(e, BarAt(pos).close, x) \in Int
      <4>1. BarAt(pos).close \in Int
        BY <2>1, FrameFacts
      <4>2. r \in Nat /\ r < Len(frame) /\ Len(frame) \in Nat
        BY <2>1, FrameFacts
      <4>3. Extreme(e, BarAt(r)) \in Price
        BY <2>4, <4>2, FrameFacts
      <4>4. x \in Int
        BY <2>5, <4>3, PriceAssumption DEF SwingAt
      <4> QED
        BY <4>1, <4>4 DEF Beyond
    <3> HIDE DEF c, e, x
    <3> QED
      BY <2>5, <2>6, <3>1, <3>2 DEF c
  <2>8. r \in 0..(pos - Right - 1)
    BY <2>1, <2>4, <2>5, <2>7, BreakComesLate
  <2> QED
    BY <2>5, <2>8
<1> QED
  BY <1>1, <1>2, <1>3, <1>4, FrameAlways, PTL DEF EngineSpec, BreaksAreConfirmed
=============================================================================
