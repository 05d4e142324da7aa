------------------------ MODULE ForwardOutcomesProofs ------------------------
(***************************************************************************)
(* The measures of ForwardOutcomes are consistent, and final once made,    *)
(* for every history of candles, every horizon, stop and R multiple.       *)
(***************************************************************************)
EXTENDS OutcomeWalk, SequenceTheorems, WellFoundedInduction, TLAPS

-----------------------------------------------------------------------------
(* Arithmetic *)

LEMMA Least == ASSUME NEW S \in SUBSET Nat, S # {}
               PROVE  \E n \in S : \A m \in S : n <= m
<1> DEFINE Smaller == {ss \in Nat \X Nat : ss[1] < ss[2]}
<1>1. IsWellFoundedOn(Smaller, Nat)
  BY NatLessThanWellFounded, Zenon DEF OpToRel
<1> HIDE DEF Smaller
<1>2. \E n \in S : \A m \in S : <<m, n>> \notin Smaller
  BY <1>1, WFMin
<1>3. \A n, m \in Nat : <<m, n>> \notin Smaller => n <= m
  BY DEF Smaller
<1> QED BY <1>2, <1>3

LEMMA Farther == ASSUME NEW m \in Nat, NEW n \in Nat, m <= n, NEW risk \in Nat
                 PROVE  m * risk \in Nat /\ n * risk \in Nat /\ m * risk <= n * risk
BY Z3

-----------------------------------------------------------------------------
(* Histories *)

\* A history: its candles are one after the other.
IsHistory(h) ==
  h \in Seq(Candle) /\ \A i, j \in Rows(h) : i < j => h[i].time < h[j].time

LEMMA Levels ==
  ASSUME NEW c \in Candle, NEW d \in Dir
  PROVE  Best(d, c) \in Int /\ Worst(d, c) \in Int /\ c.close \in Int /\ c.time \in Nat
BY DEF Candle, Dir, Best, Worst, Opp

LEMMA Distances ==
  ASSUME NEW d \in Dir, NEW a \in Int, NEW b \in Int PROVE Beyond(d, a, b) \in Int
BY DEF Beyond

LEMMA OneReference ==
  ASSUME NEW h, NEW t, NEW r \in Rows(h), NEW q \in Rows(h), h \in Seq(Candle),
         IsReference(h, t, r), IsReference(h, t, q)
  PROVE  r = q
<1>1. Len(h) \in Nat
  OBVIOUS
<1> QED BY <1>1 DEF IsReference, Rows

\* The two scripts walk the same candles.
LEMMA SameWindow == \A h, t, i : InWindow(h, t, Horizon, i) <=> InHorizon(h, t, i)
BY DEF InWindow, InHorizon

LEMMA WalkedIsRow ==
  ASSUME NEW h \in Seq(Candle), NEW t, NEW i, InHorizon(h, t, i)
  PROVE  i \in Rows(h) /\ i \in Nat /\ h[i] \in Candle
<1>1. PICK r \in Rows(h) : i \in (r + 1)..Len(h)
  BY DEF InHorizon
<1>2. Len(h) \in Nat /\ r \in Nat
  BY DEF Rows
<1> QED BY <1>1, <1>2 DEF Rows

-----------------------------------------------------------------------------
\* Nearer targets come no later than farther ones.
LEMMA NearerFirst ==
  ASSUME NEW d \in Dir, NEW entry \in Int, NEW risk \in Nat, NEW m \in Multiples,
         NEW n \in Multiples, m <= n, NEW c \in Candle, TargetHit(d, entry, risk, n, c)
  PROVE  TargetHit(d, entry, risk, m, c)
<1>1. Beyond(d, Best(d, c), entry) \in Int
  BY Levels, Distances
<1>2. m * risk \in Nat /\ n * risk \in Nat /\ m * risk <= n * risk
  BY Farther, MultiplesAssumption
<1> QED BY <1>1, <1>2 DEF TargetHit

LEMMA Nested ==
  ASSUME NEW h \in Seq(Candle), NEW t, NEW d \in Dir, NEW entry \in Int, NEW risk \in Nat,
         NEW m \in Multiples, NEW n \in Multiples, m <= n
  PROVE  /\ TargetFirst(h, t, d, entry, risk, n) => TargetFirst(h, t, d, entry, risk, m)
         /\ StopFirst(h, t, d, entry, risk, m) => ~TargetFirst(h, t, d, entry, risk, n)
<1>1. ASSUME TargetFirst(h, t, d, entry, risk, n) PROVE TargetFirst(h, t, d, entry, risk, m)
  <2>1. PICK i \in Rows(h) :
             /\ InHorizon(h, t, i) /\ TargetHit(d, entry, risk, n, h[i])
             /\ \A j \in 1..i : InHorizon(h, t, j) => ~StopHit(d, entry, risk, h[j])
    BY <1>1 DEF TargetFirst
  <2>2. TargetHit(d, entry, risk, m, h[i])
    BY <2>1, WalkedIsRow, NearerFirst
  <2> QED BY <2>1, <2>2 DEF TargetFirst
<1>2. ASSUME StopFirst(h, t, d, entry, risk, m), TargetFirst(h, t, d, entry, risk, n)
      PROVE  FALSE
  <2>1. PICK i \in Rows(h) :
             /\ InHorizon(h, t, i) /\ StopHit(d, entry, risk, h[i])
             /\ \A j \in 1..(i - 1) : InHorizon(h, t, j) => ~TargetHit(d, entry, risk, m, h[j])
    BY <1>2 DEF StopFirst
  <2>2. PICK k \in Rows(h) :
             /\ InHorizon(h, t, k) /\ TargetHit(d, entry, risk, n, h[k])
             /\ \A j \in 1..k : InHorizon(h, t, j) => ~StopHit(d, entry, risk, h[j])
    BY <1>2 DEF TargetFirst
  <2>3. i \in Nat \ {0} /\ k \in Nat \ {0}
    BY <2>1, <2>2 DEF Rows
  <2>4. k < i
    BY <2>1, <2>2, <2>3
  <2>5. TargetHit(d, entry, risk, m, h[k])
    BY <2>2, WalkedIsRow, NearerFirst
  <2> QED BY <2>1, <2>2, <2>3, <2>4, <2>5
<1> QED BY <1>1, <1>2

\* As soon as a walk touches the stop or the target, it has an outcome.
LEMMA TouchDecides ==
  ASSUME NEW h \in Seq(Candle), NEW t, NEW d, NEW entry, NEW risk, NEW m,
         NEW i, InHorizon(h, t, i),
         StopHit(d, entry, risk, h[i]) \/ TargetHit(d, entry, risk, m, h[i])
  PROVE  TargetFirst(h, t, d, entry, risk, m) \/ StopFirst(h, t, d, entry, risk, m)
<1> DEFINE Touch == {k \in Rows(h) : /\ InHorizon(h, t, k)
                                     /\ \/ StopHit(d, entry, risk, h[k])
                                        \/ TargetHit(d, entry, risk, m, h[k])}
<1>1. Touch \in SUBSET Nat /\ Touch # {}
  BY WalkedIsRow DEF Rows
<1>2. PICK k \in Touch : \A j \in Touch : k <= j
  BY <1>1, Least
<1>3. k \in Rows(h) /\ k \in Nat /\ InHorizon(h, t, k)
  BY <1>2, WalkedIsRow
<1>4. \A j \in 1..(k - 1) : InHorizon(h, t, j) =>
        ~StopHit(d, entry, risk, h[j]) /\ ~TargetHit(d, entry, risk, m, h[j])
  <2> TAKE j \in 1..(k - 1)
  <2> HAVE InHorizon(h, t, j)
  <2>1. j \in Rows(h) /\ j < k
    BY <1>3, WalkedIsRow
  <2> QED BY <1>2, <1>3, <2>1
<1>5. CASE StopHit(d, entry, risk, h[k])
  BY <1>3, <1>4, <1>5 DEF StopFirst
<1>6. CASE ~StopHit(d, entry, risk, h[k])
  <2>1. TargetHit(d, entry, risk, m, h[k])
    BY <1>2, <1>6
  <2>2. \A j \in 1..k : InHorizon(h, t, j) => ~StopHit(d, entry, risk, h[j])
    <3> TAKE j \in 1..k
    <3>1. j \in 1..(k - 1) \/ j = k
      BY <1>3
    <3> QED BY <1>4, <1>6, <3>1
  <2> QED BY <1>3, <2>1, <2>2 DEF TargetFirst
<1> QED BY <1>5, <1>6

-----------------------------------------------------------------------------
(* Excursions and outcomes from one reference price *)

\* Reaching a level in the window is touching the target, or the stop, there.
LEMMA ReachIsTouch ==
  ASSUME NEW h \in Seq(Candle), NEW t, NEW d \in Dir, NEW r \in Rows(h),
         IsReference(h, t, r), NEW risk, NEW m
  PROVE  /\ MfeReaches(h, t, Horizon, d, m * risk) <=>
              \E i \in Rows(h) : InHorizon(h, t, i) /\ TargetHit(d, h[r].close, risk, m, h[i])
         /\ MaeReaches(h, t, Horizon, d, risk) <=>
              \E i \in Rows(h) : InHorizon(h, t, i) /\ StopHit(d, h[r].close, risk, h[i])
<1>1. \A q \in Rows(h) : IsReference(h, t, q) => q = r
  BY OneReference
<1>2. \A i : InWindow(h, t, Horizon, i) <=> InHorizon(h, t, i)
  BY SameWindow
<1>3. MfeReaches(h, t, Horizon, d, m * risk) <=>
        \E i \in Rows(h) : InHorizon(h, t, i) /\ TargetHit(d, h[r].close, risk, m, h[i])
  BY <1>1, <1>2, Zenon DEF MfeReaches, TargetHit
<1>4. MaeReaches(h, t, Horizon, d, risk) <=>
        \E i \in Rows(h) : InHorizon(h, t, i) /\ StopHit(d, h[r].close, risk, h[i])
  BY <1>1, <1>2, Zenon DEF MaeReaches, StopHit
<1> QED BY <1>3, <1>4

LEMMA Agreement == TypeOK => ExcursionsAgree
<1> SUFFICES ASSUME TypeOK, asked # None, NEW d \in Dir, NEW m \in Multiples, NEW stop \in Prices,
                    NEW r \in Rows(history), IsReference(history, asked, r)
             PROVE  LET entry == history[r].close
                        risk == Beyond(d, entry, stop)
                        reached == MfeReaches(history, asked, Horizon, d, m * risk)
                        lost == MaeReaches(history, asked, Horizon, d, risk)
                    IN  /\ TargetFirst(history, asked, d, entry, risk, m) => reached
                        /\ StopFirst(history, asked, d, entry, risk, m) => lost
                        /\ reached \/ lost => \/ TargetFirst(history, asked, d, entry, risk, m)
                                              \/ StopFirst(history, asked, d, entry, risk, m)
  BY DEF ExcursionsAgree
<1> DEFINE entry == history[r].close
           risk == Beyond(d, entry, stop)
<1>1. history \in Seq(Candle)
  BY DEF TypeOK
<1> HIDE DEF entry, risk
<1>2. /\ MfeReaches(history, asked, Horizon, d, m * risk) <=>
           \E i \in Rows(history) :
             InHorizon(history, asked, i) /\ TargetHit(d, entry, risk, m, history[i])
      /\ MaeReaches(history, asked, Horizon, d, risk) <=>
           \E i \in Rows(history) :
             InHorizon(history, asked, i) /\ StopHit(d, entry, risk, history[i])
  BY <1>1, ReachIsTouch DEF entry
<1>3. TargetFirst(history, asked, d, entry, risk, m) =>
        MfeReaches(history, asked, Horizon, d, m * risk)
  BY <1>2 DEF TargetFirst
<1>4. StopFirst(history, asked, d, entry, risk, m) => MaeReaches(history, asked, Horizon, d, risk)
  BY <1>2 DEF StopFirst
<1>5. MfeReaches(history, asked, Horizon, d, m * risk) \/ MaeReaches(history, asked, Horizon, d, risk)
        => \/ TargetFirst(history, asked, d, entry, risk, m)
           \/ StopFirst(history, asked, d, entry, risk, m)
  BY <1>1, <1>2, TouchDecides
<1> QED BY <1>3, <1>4, <1>5 DEF entry, risk

LEMMA Nesting == TypeOK => TargetsNested
<1> SUFFICES ASSUME TypeOK, NEW d \in Dir, NEW m \in Multiples, NEW n \in Multiples,
                    NEW stop \in Prices, NEW r \in Rows(history),
                    Beyond(d, history[r].close, stop) > 0, m <= n
             PROVE  LET entry == history[r].close
                        risk == Beyond(d, entry, stop)
                    IN  /\ TargetFirst(history, asked, d, entry, risk, n) =>
                             TargetFirst(history, asked, d, entry, risk, m)
                        /\ StopFirst(history, asked, d, entry, risk, m) =>
                             ~TargetFirst(history, asked, d, entry, risk, n)
  BY DEF TargetsNested
<1>1. history \in Seq(Candle) /\ history[r] \in Candle
  BY DEF TypeOK, Rows
<1>2. history[r].close \in Int /\ Beyond(d, history[r].close, stop) \in Nat
  BY <1>1, Levels, Distances, ShapesAssumption
<1> QED BY <1>1, <1>2, Nested, Zenon

-----------------------------------------------------------------------------
(* The candles of the terminal *)

LEMMA Times == ASSUME TypeOK PROVE \A i \in Rows(history) : history[i].time \in Nat
<1>1. \A i \in Rows(history) : history[i] \in Candle
  BY DEF TypeOK, Rows
<1> QED BY <1>1 DEF Candle

LEMMA InitType == Init => TypeOK
BY ClockAssumption DEF Init, TypeOK, Rows

\* A closed candle is appended to what was there.
LEMMA Closed ==
  ASSUME TypeOK, Close
  PROVE  /\ history' \in Seq(Candle) /\ Len(history') = Len(history) + 1
         /\ Len(history) \in Nat
         /\ \A i \in Rows(history) : history'[i] = history[i]
         /\ history'[Len(history) + 1].time = clock /\ clock \in Nat
         /\ clock < MaxClock /\ clock' = clock + 1
<1>1. PICK c \in Shapes :
        history' = Append(history, [time |-> clock, low |-> c.low, close |-> c.close, high |-> c.high])
  BY DEF Close
<1>2. clock \in Nat /\ history \in Seq(Candle)
  BY ClockAssumption DEF TypeOK
<1>3. c.low \in Int /\ c.close \in Int /\ c.high \in Int
  BY ShapesAssumption DEF Shape
<1>4. [time |-> clock, low |-> c.low, close |-> c.close, high |-> c.high] \in Candle
  BY <1>2, <1>3 DEF Candle
<1> QED BY <1>1, <1>2, <1>4, AppendProperties DEF Rows, Close

LEMMA CloseType == ASSUME TypeOK, Close PROVE TypeOK'
<1>1. /\ history' \in Seq(Candle) /\ Len(history') = Len(history) + 1
      /\ Len(history) \in Nat
      /\ \A i \in 1..Len(history) : history'[i] = history[i]
      /\ history'[Len(history) + 1].time = clock /\ clock \in Nat
      /\ clock < MaxClock /\ clock' = clock + 1
  BY Closed DEF Rows
<1>2. UNCHANGED <<asked, seen>>
  BY DEF Close
<1>3. /\ \A i \in 1..Len(history) : history[i].time < clock /\ history[i].time \in Nat
      /\ \A i, j \in 1..Len(history) : i < j => history[i].time < history[j].time
  BY Times DEF TypeOK, Rows
<1>4. \A i \in 1..(Len(history) + 1) : history'[i].time < clock'
  <2> TAKE i \in 1..(Len(history) + 1)
  <2>1. i \in 1..Len(history) \/ i = Len(history) + 1
    BY <1>1
  <2> QED BY <1>1, <1>3, <2>1
<1>5. \A i, j \in 1..(Len(history) + 1) : i < j => history'[i].time < history'[j].time
  BY <1>1, <1>3
<1>6. clock' \in 0..MaxClock
  BY <1>1, ClockAssumption
<1>7. /\ asked' \in 0..clock' \cup {None} /\ seen' \in Rows(history') \cup {None}
      /\ asked' = None <=> seen' = None
  BY <1>1, <1>2 DEF TypeOK, Rows
<1>8. asked' # None => history'[seen'].time < asked'
  BY <1>1, <1>2 DEF TypeOK, Rows
<1> QED BY <1>1, <1>4, <1>5, <1>6, <1>7, <1>8 DEF TypeOK, Rows

LEMMA PauseType == ASSUME TypeOK, Pause PROVE TypeOK'
<1>1. /\ clock \in Nat /\ clock' = clock + 1 /\ clock' \in 0..MaxClock
      /\ \A i \in Rows(history) : history[i].time \in Nat
  BY Times, ClockAssumption DEF TypeOK, Pause
<1> QED BY <1>1 DEF TypeOK, Pause

LEMMA EvaluateType == ASSUME TypeOK, Evaluate PROVE TypeOK'
<1>1. Len(history) \in Rows(history) /\ clock \in Nat
  BY ClockAssumption DEF TypeOK, Evaluate, Rows
<1>2. asked' # None /\ seen' # None
  BY <1>1, ClockAssumption DEF Evaluate, Rows
<1>3. history[seen'].time < asked' /\ asked' \in 0..clock' /\ seen' \in Rows(history')
  BY <1>1 DEF TypeOK, Evaluate
<1> QED BY <1>2, <1>3 DEF TypeOK, Evaluate

LEMMA TypeStep == TypeOK /\ [Next]_vars => TypeOK'
<1>1. ASSUME TypeOK, UNCHANGED vars PROVE TypeOK'
  BY <1>1 DEF TypeOK, vars
<1> QED BY <1>1, CloseType, PauseType, EvaluateType DEF Next

-----------------------------------------------------------------------------
(* Later reports *)

\* When a candle closes after the evaluation, the walk goes on where it was.
LEMMA WalkExtends ==
  ASSUME TypeOK, Close, asked # None, clock > asked, NEW i \in Rows(history)
  PROVE  InHorizon(history', asked, i) <=> InHorizon(history, asked, i)
<1>1. /\ Len(history') = Len(history) + 1 /\ Len(history) \in Nat
      /\ \A k \in 1..Len(history) : history'[k] = history[k]
      /\ history'[Len(history) + 1].time = clock /\ clock \in Nat
  BY Closed DEF Rows
<1>2. asked \in Nat
  BY <1>1 DEF TypeOK
<1>3. \A r \in 1..Len(history) :
        IsReference(history', asked, r) <=> IsReference(history, asked, r)
  BY <1>1, <1>2 DEF IsReference, Rows
<1>4. ~IsReference(history', asked, Len(history) + 1)
  BY <1>1, <1>2 DEF IsReference
<1>5. i \in 1..Len(history)
  BY DEF Rows
<1>6. ASSUME InHorizon(history', asked, i) PROVE InHorizon(history, asked, i)
  <2>1. PICK r \in 1..(Len(history) + 1) :
             /\ IsReference(history', asked, r) /\ i \in (r + 1)..(Len(history) + 1)
             /\ history'[i].time <= asked + Horizon
    BY <1>1, <1>6 DEF InHorizon, Rows
  <2>2. r \in 1..Len(history) /\ i \in (r + 1)..Len(history)
    BY <1>1, <1>5, <2>1
  <2> QED BY <1>1, <1>3, <1>5, <2>1, <2>2 DEF InHorizon, Rows
<1>7. ASSUME InHorizon(history, asked, i) PROVE InHorizon(history', asked, i)
  <2>1. PICK r \in 1..Len(history) :
             /\ IsReference(history, asked, r) /\ i \in (r + 1)..Len(history)
             /\ history[i].time <= asked + Horizon
    BY <1>7 DEF InHorizon, Rows
  <2>2. r \in 1..(Len(history) + 1) /\ i \in (r + 1)..(Len(history) + 1)
    BY <1>1, <2>1
  <2> QED BY <1>1, <1>3, <1>5, <2>1, <2>2 DEF InHorizon, Rows
<1> QED BY <1>6, <1>7

\* Before the candle of the evaluation has closed there is nothing to walk.
LEMMA NothingYet ==
  ASSUME TypeOK, asked # None, clock <= asked, NEW i PROVE ~InHorizon(history, asked, i)
<1> SUFFICES ASSUME NEW r \in Rows(history), IsReference(history, asked, r),
                    i \in (r + 1)..Len(history)
             PROVE  FALSE
  BY DEF InHorizon
<1>1. Len(history) \in Nat /\ r \in 1..Len(history) /\ i \in 1..Len(history) /\ i > r
  BY DEF TypeOK, Rows
<1>2. history[i].time \in Nat /\ history[i].time < clock /\ asked \in Nat /\ clock \in Nat
  BY <1>1, Times, ClockAssumption DEF TypeOK, Rows
<1>3. history[i].time <= asked
  BY <1>2
<1> QED BY <1>1, <1>3 DEF IsReference, Rows

LEMMA ReportStays ==
  ASSUME TypeOK, [Next]_vars, asked # None, NEW d, NEW entry, NEW risk, NEW m
  PROVE  /\ StopFirst(history, asked, d, entry, risk, m) =>
              StopFirst(history', asked, d, entry, risk, m)
         /\ TargetFirst(history, asked, d, entry, risk, m) =>
              TargetFirst(history', asked, d, entry, risk, m)
<1>1. CASE UNCHANGED history
  BY <1>1 DEF StopFirst, TargetFirst, InHorizon, IsReference, Rows
<1>2. CASE Close /\ clock <= asked
  BY <1>2, NothingYet DEF StopFirst, TargetFirst
<1>3. CASE Close /\ clock > asked
  <2>1. /\ \A k \in Rows(history) : history'[k] = history[k] /\ k \in Rows(history')
        /\ \A k \in Rows(history) : InHorizon(history', asked, k) <=> InHorizon(history, asked, k)
    BY <1>3, Closed, WalkExtends DEF Rows
  <2>2. \A i \in Rows(history) : 1..i \subseteq Rows(history) /\ 1..(i - 1) \subseteq Rows(history)
    BY <1>3, Closed DEF Rows
  <2>3. ASSUME StopFirst(history, asked, d, entry, risk, m)
        PROVE  StopFirst(history', asked, d, entry, risk, m)
    <3>1. PICK i \in Rows(history) :
               /\ InHorizon(history, asked, i) /\ StopHit(d, entry, risk, history[i])
               /\ \A j \in 1..(i - 1) :
                    InHorizon(history, asked, j) => ~TargetHit(d, entry, risk, m, history[j])
      BY <2>3 DEF StopFirst
    <3>2. \A j \in 1..(i - 1) :
            InHorizon(history', asked, j) => ~TargetHit(d, entry, risk, m, history'[j])
      BY <2>1, <2>2, <3>1
    <3> QED BY <2>1, <3>1, <3>2 DEF StopFirst
  <2>4. ASSUME TargetFirst(history, asked, d, entry, risk, m)
        PROVE  TargetFirst(history', asked, d, entry, risk, m)
    <3>1. PICK i \in Rows(history) :
               /\ InHorizon(history, asked, i) /\ TargetHit(d, entry, risk, m, history[i])
               /\ \A j \in 1..i :
                    InHorizon(history, asked, j) => ~StopHit(d, entry, risk, history[j])
      BY <2>4 DEF TargetFirst
    <3>2. \A j \in 1..i : InHorizon(history', asked, j) => ~StopHit(d, entry, risk, history'[j])
      BY <2>1, <2>2, <3>1
    <3> QED BY <2>1, <3>1, <3>2 DEF TargetFirst
  <2> QED BY <2>3, <2>4
<1>4. Close => clock <= asked \/ clock > asked
  BY ClockAssumption DEF TypeOK
<1> QED BY <1>1, <1>2, <1>3, <1>4 DEF Next, Pause, Evaluate, vars

-----------------------------------------------------------------------------
\* The terminal's candles are in the order of time, and the candle the strategy
\* saw had closed before the evaluation's timestamp.
THEOREM TypeCorrect == Spec => []TypeOK
BY InitType, TypeStep, PTL DEF Spec

\* No rejection or setup ends both ways, and its nearer targets come first.
THEOREM TargetsAreNested == Spec => []TargetsNested
<1>1. TypeOK => TargetsNested
  BY Nesting
<1> QED BY <1>1, TypeCorrect, PTL

\* The excursions and the R outcomes of one rejection agree.
THEOREM MeasuresAgree == Spec => []ExcursionsAgree
<1>1. TypeOK => ExcursionsAgree
  BY Agreement
<1> QED BY <1>1, TypeCorrect, PTL

\* A report that has decided an outcome is confirmed by every later report.
THEOREM ReportsAreFinal == Spec => DecidedIsFinal
<1> DEFINE Keeps ==
      asked # None =>
        \A d \in Dir, m \in Multiples, stop \in Prices, r \in Rows(history) :
          LET entry == history[r].close
              risk == Beyond(d, entry, stop)
          IN  risk > 0 /\ IsEntry(history, entry) =>
                /\ StopFirst(history, asked, d, entry, risk, m) =>
                     StopFirst(history', asked, d, entry, risk, m)
                /\ TargetFirst(history, asked, d, entry, risk, m) =>
                     TargetFirst(history', asked, d, entry, risk, m)
<1>1. TypeOK /\ [Next]_vars => Keeps
  BY ReportStays
<1> HIDE DEF Keeps
<1>2. TypeOK /\ [Next]_vars => [Keeps]_vars
  BY <1>1
<1>3. Spec => [][Keeps]_vars
  BY <1>2, TypeCorrect, PTL DEF Spec
<1> QED BY <1>3 DEF Keeps, DecidedIsFinal

-----------------------------------------------------------------------------
(* The walk of a report *)

\* The reports of WalkSpec read the histories of Spec.
THEOREM WalkRefines == WalkSpec => Spec
<1>1. WalkInit => Init
  BY DEF WalkInit
<1>2. [WalkNext]_walkVars => [Next]_vars
  BY DEF WalkNext, Begin, Walk, Finish, Move, walkVars
<1> QED BY <1>1, <1>2, PTL DEF WalkSpec, Spec

Found(m) ==
  LET stop == StopFirst(history, asked, report.direction, report.entry, report.risk, m)
      target == TargetFirst(history, asked, report.direction, report.entry, report.risk, m)
  IN  /\ outcome[m] = "stop_first" <=> stop
      /\ outcome[m] = "target_first" <=> target
      /\ outcome[m] = "undetermined_within_horizon" <=> ~stop /\ ~target

\* No candle walked so far touches the stop or the m-th target.
Untouched(m, n) ==
  \A j \in Rows(history) : InHorizon(history, asked, j) /\ j <= n =>
    /\ ~StopHit(report.direction, report.entry, report.risk, history[j])
    /\ ~TargetHit(report.direction, report.entry, report.risk, m, history[j])

\* A multiple that is still in the loop has met nothing; one that has left it
\* has its outcome for good.
Walked ==
  at # None =>
    /\ asked # None
    /\ \E r \in Rows(history) : IsReference(history, asked, r) /\ r <= at
    /\ \A m \in remaining : Untouched(m, at)
    /\ \A m \in Multiples \ remaining : Found(m)

WalkInv == TypeOK /\ WalkTypeOK /\ Walked

LEMMA BeginKeeps == ASSUME WalkInv, Begin PROVE WalkInv'
<1>1. /\ UNCHANGED vars /\ remaining' = Multiples /\ outcome' = Undecided /\ asked # None
      /\ Len(history) \in Nat
  BY DEF Begin, WalkInv, TypeOK
<1>2. PICK r \in Rows(history) : IsReference(history, asked, r) /\ at' = r
  BY DEF Begin
<1>3. r \in Nat /\ at' # None
  BY <1>2, ClockAssumption DEF Rows
<1>4. PICK d \in Dir, stop \in Prices, k \in Rows(history) :
           /\ stop # history[k].close
           /\ report' = [direction |-> d, entry |-> history[k].close,
                         risk |-> Abs(history[k].close - stop)]
  BY DEF Begin
<1>5. history[k].close \in Int /\ stop \in Int
  <2>1. history[k] \in Candle
    BY DEF WalkInv, TypeOK, Rows
  <2> QED BY <2>1, ShapesAssumption DEF Candle
<1>6. Abs(history[k].close - stop) \in Nat \ {0}
  BY <1>4, <1>5 DEF Abs
<1>7. WalkTypeOK'
  BY <1>1, <1>2, <1>3, <1>4, <1>5, <1>6 DEF WalkTypeOK, Undecided, vars, Rows
<1>8. \A j \in Rows(history) : InHorizon(history, asked, j) => ~(j <= r)
  <2> SUFFICES ASSUME NEW j \in Rows(history), NEW q \in Rows(history), IsReference(history, asked, q),
                      j \in (q + 1)..Len(history)
               PROVE  ~(j <= r)
    BY DEF InHorizon
  <2>1. q = r
    BY <1>2, OneReference DEF WalkInv, TypeOK
  <2> QED BY <1>1, <1>3, <2>1
<1>9. Walked'
  BY <1>1, <1>2, <1>3, <1>8 DEF Walked, Untouched, vars, Rows, IsReference, InHorizon
<1> QED BY <1>1, <1>7, <1>9 DEF WalkInv, TypeOK, vars

\* Under way, the walk is at a row and its report has been begun.
LEMMA UnderWay ==
  ASSUME WalkInv, remaining # {}
  PROVE  /\ at # None /\ at \in Rows(history) /\ at \in Nat /\ Len(history) \in Nat
         /\ asked # None /\ asked \in Nat
         /\ report.direction \in Dir /\ report.entry \in Int /\ report.risk \in Nat
         /\ \A m \in remaining : Untouched(m, at)
         /\ \A m \in Multiples \ remaining : Found(m)
         /\ \E r \in Rows(history) : IsReference(history, asked, r) /\ r <= at
<1>1. at # None /\ at \in Rows(history)
  BY DEF WalkInv, WalkTypeOK
<1>2. Len(history) \in Nat
  BY DEF WalkInv, TypeOK
<1>3. asked # None
  BY <1>1 DEF WalkInv, Walked
<1>4. asked \in Nat
  BY <1>3, ClockAssumption DEF WalkInv, TypeOK
<1> QED BY <1>1, <1>2, <1>3, <1>4 DEF WalkInv, WalkTypeOK, Walked, Rows

\* The next candle decides a multiple rightly.
LEMMA VerdictFound ==
  ASSUME WalkInv, Walk, NEW m \in Decided
  PROVE  /\ Stopped => /\ StopFirst(history, asked, report.direction, report.entry, report.risk, m)
                       /\ Verdict(m) = "stop_first"
         /\ ~Stopped => /\ TargetFirst(history, asked, report.direction, report.entry, report.risk, m)
                        /\ Verdict(m) = "target_first"
<1>1. /\ m \in remaining /\ at \in Nat /\ history \in Seq(Candle) /\ Untouched(m, at)
      /\ InHorizon(history, asked, at + 1)
  BY UnderWay DEF Walk, Decided, WalkInv, TypeOK
<1>2. at + 1 \in Rows(history)
  BY <1>1, WalkedIsRow
<1>3. \A j \in 1..at : InHorizon(history, asked, j) =>
        /\ ~StopHit(report.direction, report.entry, report.risk, history[j])
        /\ ~TargetHit(report.direction, report.entry, report.risk, m, history[j])
  BY <1>1, WalkedIsRow DEF Untouched
<1>4. (at + 1) - 1 = at /\ 1..(at + 1) = (1..at) \cup {at + 1}
  BY <1>1
<1>5. ASSUME Stopped
      PROVE  StopFirst(history, asked, report.direction, report.entry, report.risk, m)
  BY <1>1, <1>2, <1>3, <1>4, <1>5 DEF StopFirst, Stopped
<1>6. ASSUME ~Stopped
      PROVE  TargetFirst(history, asked, report.direction, report.entry, report.risk, m)
  <2>1. TargetHit(report.direction, report.entry, report.risk, m, history[at + 1])
    BY <1>6 DEF Decided
  <2> QED BY <1>1, <1>2, <1>3, <1>4, <1>6, <2>1 DEF TargetFirst, Stopped
<1> QED BY <1>5, <1>6 DEF Verdict

LEMMA WalkKeeps == ASSUME WalkInv, Walk PROVE WalkInv'
<1>1. /\ remaining # {} /\ UNCHANGED vars /\ report' = report /\ at' = at + 1
      /\ outcome' = [m \in Multiples |-> IF m \in Decided THEN Verdict(m) ELSE outcome[m]]
      /\ remaining' = remaining \ Decided /\ InHorizon(history, asked, at + 1)
      /\ history \in Seq(Candle) /\ Decided \subseteq remaining /\ remaining \subseteq Multiples
  BY DEF Walk, Decided, WalkInv, TypeOK, WalkTypeOK
<1>2. /\ at \in Nat /\ at' \in Rows(history) /\ at' # None
      /\ report.direction \in Dir /\ report.entry \in Int /\ report.risk \in Nat
      /\ asked # None
  BY <1>1, UnderWay, WalkedIsRow, ClockAssumption
<1>3. WalkTypeOK'
  <2>1. \A m : Verdict(m) \in Outcomes
    BY DEF Verdict, Outcomes
  <2>2. outcome' \in [Multiples -> Outcomes \cup {None}]
    BY <1>1, <2>1 DEF WalkInv, WalkTypeOK
  <2> QED BY <1>1, <1>2, <2>2, UnderWay DEF WalkInv, WalkTypeOK, vars, Rows
<1>4. ASSUME NEW m \in Decided PROVE Found(m)'
  <2>1. outcome'[m] = Verdict(m) /\ m \in Multiples
    BY <1>1
  <2>2. StopFirst(history, asked, report.direction, report.entry, report.risk, m) =>
          ~TargetFirst(history, asked, report.direction, report.entry, report.risk, m)
    BY <1>1, <1>2, <2>1, Nested, MultiplesAssumption
  <2>3. /\ Stopped => /\ StopFirst(history, asked, report.direction, report.entry, report.risk, m)
                      /\ Verdict(m) = "stop_first"
        /\ ~Stopped => /\ TargetFirst(history, asked, report.direction, report.entry, report.risk, m)
                       /\ Verdict(m) = "target_first"
    BY VerdictFound
  <2>4. history' = history /\ asked' = asked /\ report' = report
    BY <1>1 DEF vars
  <2> QED BY <2>1, <2>2, <2>3, <2>4 DEF Found, StopFirst, TargetFirst, Rows, InHorizon, IsReference
<1>5. ASSUME NEW m \in Multiples \ remaining PROVE Found(m)'
  <2>1. outcome'[m] = outcome[m] /\ history' = history /\ asked' = asked /\ report' = report
    BY <1>1 DEF vars
  <2>2. Found(m)
    BY <1>1, UnderWay
  <2> QED BY <2>1, <2>2 DEF Found, StopFirst, TargetFirst, Rows, InHorizon, IsReference
<1>6. ASSUME NEW m \in remaining \ Decided PROVE Untouched(m, at)'
  <2>1. /\ ~StopHit(report.direction, report.entry, report.risk, history[at + 1])
        /\ ~TargetHit(report.direction, report.entry, report.risk, m, history[at + 1])
    BY DEF Decided, Stopped
  <2>2. Untouched(m, at)
    BY <1>1, UnderWay
  <2>3. \A j \in Rows(history) : j <= at + 1 => j <= at \/ j = at + 1
    BY <1>2 DEF Rows
  <2>4. Untouched(m, at + 1)
    BY <2>1, <2>2, <2>3 DEF Untouched
  <2>5. history' = history /\ asked' = asked /\ report' = report /\ at' = at + 1
    BY <1>1 DEF vars
  <2> QED BY <2>4, <2>5 DEF Untouched, Rows, InHorizon, IsReference
<1>7. \E r \in Rows(history) : IsReference(history, asked, r) /\ r <= at + 1
  BY <1>1, <1>2, UnderWay DEF Rows
<1>8. Walked'
  BY <1>1, <1>2, <1>4, <1>5, <1>6, <1>7 DEF Walked, vars, Rows, IsReference
<1> QED BY <1>1, <1>3, <1>8 DEF WalkInv, TypeOK, vars

\* A candle later than one beyond the horizon is beyond it too.
LEMMA NoneLeft ==
  ASSUME WalkInv, Finish, NEW j, InHorizon(history, asked, j) PROVE j <= at
<1>1. PICK q \in Rows(history) : /\ IsReference(history, asked, q) /\ j \in (q + 1)..Len(history)
                                 /\ history[j].time <= asked + Horizon
  BY DEF InHorizon
<1>2. PICK r \in Rows(history) : IsReference(history, asked, r) /\ r <= at
  BY UnderWay DEF Finish
<1>3. q = r
  BY <1>1, <1>2, OneReference DEF WalkInv, TypeOK
<1>4. /\ at \in Nat /\ r \in Nat /\ Len(history) \in Nat /\ asked \in Nat /\ Horizon \in Nat
      /\ ~InHorizon(history, asked, at + 1)
  BY UnderWay, HorizonAssumption DEF Finish, Rows
<1>5. ASSUME at < j PROVE FALSE
  <2>1. at + 1 \in (r + 1)..Len(history) /\ at + 1 \in Rows(history) /\ j \in Rows(history) /\ at + 1 <= j
    BY <1>1, <1>2, <1>3, <1>4, <1>5 DEF Rows
  <2>2. history[at + 1].time \in Nat /\ history[j].time \in Nat
    BY <2>1, Times DEF WalkInv
  <2>3. history[at + 1].time <= history[j].time
    BY <1>4, <2>1, <2>2 DEF WalkInv, TypeOK
  <2>4. history[at + 1].time <= asked + Horizon
    BY <1>1, <1>4, <2>2, <2>3
  <2> QED BY <1>2, <1>4, <2>1, <2>4 DEF InHorizon
<1> QED BY <1>1, <1>3, <1>4, <1>5

LEMMA FinishKeeps == ASSUME WalkInv, Finish PROVE WalkInv'
<1>1. /\ remaining # {} /\ UNCHANGED vars /\ report' = report /\ at' = at
      /\ outcome' = [m \in Multiples |-> IF m \in remaining THEN "undetermined_within_horizon"
                                                            ELSE outcome[m]]
      /\ remaining' = {} /\ history \in Seq(Candle) /\ remaining \subseteq Multiples
  BY DEF Finish, WalkInv, TypeOK, WalkTypeOK
<1>2. WalkTypeOK'
  <2>1. outcome' \in [Multiples -> Outcomes \cup {None}]
    BY <1>1 DEF WalkInv, WalkTypeOK, Outcomes
  <2> QED BY <1>1, <2>1, UnderWay DEF WalkInv, WalkTypeOK, vars, Rows
<1>3. history' = history /\ asked' = asked /\ report' = report /\ at' = at
  BY <1>1 DEF vars
<1>4. ASSUME NEW m \in remaining PROVE Found(m)'
  <2>1. Untouched(m, at)
    BY <1>1, UnderWay
  <2>2. \A j \in Rows(history) : InHorizon(history, asked, j) =>
          /\ ~StopHit(report.direction, report.entry, report.risk, history[j])
          /\ ~TargetHit(report.direction, report.entry, report.risk, m, history[j])
    BY <2>1, NoneLeft DEF Untouched
  <2>3. /\ ~StopFirst(history, asked, report.direction, report.entry, report.risk, m)
        /\ ~TargetFirst(history, asked, report.direction, report.entry, report.risk, m)
    BY <2>2 DEF StopFirst, TargetFirst
  <2>4. outcome'[m] = "undetermined_within_horizon"
    BY <1>1
  <2> QED BY <1>3, <2>3, <2>4 DEF Found, StopFirst, TargetFirst, Rows, InHorizon, IsReference
<1>5. ASSUME NEW m \in Multiples \ remaining PROVE Found(m)'
  <2>1. outcome'[m] = outcome[m] /\ Found(m)
    BY <1>1, UnderWay
  <2> QED BY <1>3, <2>1 DEF Found, StopFirst, TargetFirst, Rows, InHorizon, IsReference
<1>6. Walked'
  BY <1>1, <1>3, <1>4, <1>5, UnderWay DEF Walked, Rows, IsReference
<1> QED BY <1>1, <1>2, <1>6 DEF WalkInv, TypeOK, vars

\* The loop over the candles: what is still in it has met nothing, and what has
\* left it has the outcome ForwardOutcomes gives it.
THEOREM WalkInvariance == WalkSpec => []WalkInv
<1>1. WalkInit => WalkInv
  BY InitType DEF WalkInit, WalkInv, WalkTypeOK, Walked, Undecided
<1>2. WalkInv /\ [WalkNext]_walkVars => WalkInv'
  <2> SUFFICES ASSUME WalkInv, [WalkNext]_walkVars PROVE WalkInv'
    OBVIOUS
  <2>1. CASE UNCHANGED walkVars
    BY <2>1 DEF walkVars, vars, WalkInv, TypeOK, WalkTypeOK, Walked, Untouched, Found
  <2>2. CASE Move
    <3>1. TypeOK'
      BY <2>2, TypeStep DEF Move, WalkInv
    <3>2. WalkTypeOK' /\ Walked'
      BY <2>2 DEF Move, WalkInv, WalkTypeOK, Walked, Undecided
    <3> QED BY <3>1, <3>2 DEF WalkInv
  <2> QED BY <2>1, <2>2, BeginKeeps, WalkKeeps, FinishKeeps DEF WalkNext
<1> QED BY <1>1, <1>2, PTL DEF WalkSpec

\* One walk for all multiples gives each the outcome of its own stop and target.
THEOREM OutcomesFound == WalkSpec => []WalkFindsOutcomes
<1>1. WalkInv => WalkFindsOutcomes
  BY DEF WalkInv, Walked, WalkTypeOK, Found, WalkFindsOutcomes
<1> QED BY <1>1, WalkInvariance, PTL
=============================================================================
