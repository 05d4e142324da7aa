--------------------------- MODULE ForwardOutcomes ---------------------------
(***************************************************************************)
(* What the reporting scripts measure about a logged evaluation: the       *)
(* reference candle, the window outcomes and the R-multiple outcomes of    *)
(* scripts/analyze_rejection_outcomes.py, and their counterpart for real   *)
(* setups in scripts/generate_forward_test_research_report.py.             *)
(*                                                                         *)
(* Time is counted in M5 candles.  The candle of time k is open from k to  *)
(* k + 1 and carries k as its time; get_candles only returns closed ones.  *)
(* The terminal's history grows by one closed candle at a time, or by none *)
(* while the market is closed.  At some time the strategy evaluates and    *)
(* the recorder logs it; reports may be made at any moment after that, so  *)
(* the measures are operators of the history, and the properties hold of,  *)
(* and relate, reports made at different moments.                          *)
(***************************************************************************)
EXTENDS Directions, Sequences

CONSTANTS Shapes,    \* the candles that can close
          Prices,    \* levels a stop can have
          Horizon,   \* the largest of OUTCOME_WINDOWS_MINUTES
          Multiples, \* R_MULTIPLES
          MaxClock,  \* bound on time
          None       \* nothing yet

Shape == {c \in [low: Int, close: Int, high: Int] : c.low <= c.close /\ c.close <= c.high}

ASSUME ShapesAssumption == Shapes \subseteq Shape /\ Prices \subseteq Int
ASSUME HorizonAssumption == Horizon \in Nat
ASSUME MultiplesAssumption == Multiples \subseteq Nat \ {0}
ASSUME ClockAssumption == MaxClock \in Nat /\ None \notin Nat

VARIABLES history,  \* the closed candles the terminal has, oldest first
          clock,    \* the time of the candle that is forming now
          asked,    \* timestamp of the logged evaluation, None before it
          seen      \* history: the row of the last candle the strategy saw

vars == <<history, clock, asked, seen>>

Rows(h) == 1..Len(h)
Best(d, c) == IF d = "bullish" THEN c.high ELSE c.low
Worst(d, c) == Best(Opp(d), c)

-----------------------------------------------------------------------------
(* find_reference_index *)

\* The last candle whose time is not after the evaluation's.
IsReference(h, t, i) ==
  i \in Rows(h) /\ h[i].time <= t /\ \A j \in Rows(h) : h[j].time <= t => j <= i

-----------------------------------------------------------------------------
(* compute_window_outcome *)

\* Mutant of InWindow: the window is anchored on the reference candle.
InWindowOfCandle(h, t, w, i) ==
  \E r \in Rows(h) : IsReference(h, t, r) /\ i \in (r + 1)..Len(h) /\ h[i].time <= h[r].time + w

InWindow(h, t, w, i) ==
  \E r \in Rows(h) : IsReference(h, t, r) /\ i \in (r + 1)..Len(h) /\ h[i].time <= t + w

\* mfe and mae reach x: the window moved that far for, or against, d.
MfeReaches(h, t, w, d, x) ==
  \E r, i \in Rows(h) : /\ IsReference(h, t, r) /\ InWindow(h, t, w, i)
                        /\ Beyond(d, Best(d, h[i]), h[r].close) >= x
MaeReaches(h, t, w, d, x) ==
  \E r, i \in Rows(h) : /\ IsReference(h, t, r) /\ InWindow(h, t, w, i)
                        /\ Beyond(d, h[r].close, Worst(d, h[i])) >= x

-----------------------------------------------------------------------------
(* compute_r_analysis and _walk_actual_setup_r_outcome: one candle after the  *)
(* other until the stop or the m-th target is touched, the stop first when    *)
(* one candle touches both.  risk is abs(entry - stop), at least 1.           *)

\* Mutant of InHorizon: the walk starts on the reference candle.
InHorizonFromReference(h, t, i) ==
  \E r \in Rows(h) : IsReference(h, t, r) /\ i \in r..Len(h) /\ h[i].time <= t + Horizon

InHorizon(h, t, i) ==
  \E r \in Rows(h) : IsReference(h, t, r) /\ i \in (r + 1)..Len(h) /\ h[i].time <= t + Horizon

StopHit(d, entry, risk, c) == Beyond(d, entry, Worst(d, c)) >= risk

\* Mutant of TargetHit: the multiple divides the distance.
TargetHitDivided(d, entry, risk, m, c) == Beyond(d, Best(d, c), entry) * m >= risk

TargetHit(d, entry, risk, m, c) == Beyond(d, Best(d, c), entry) >= m * risk

StopFirst(h, t, d, entry, risk, m) ==
  \E i \in Rows(h) :
    /\ InHorizon(h, t, i) /\ StopHit(d, entry, risk, h[i])
    /\ \A j \in 1..(i - 1) : InHorizon(h, t, j) => ~TargetHit(d, entry, risk, m, h[j])

TargetFirst(h, t, d, entry, risk, m) ==
  \E i \in Rows(h) :
    /\ InHorizon(h, t, i) /\ TargetHit(d, entry, risk, m, h[i])
    /\ \A j \in 1..i : InHorizon(h, t, j) => ~StopHit(d, entry, risk, h[j])

-----------------------------------------------------------------------------
\* The forming candle closes; or no price came while it would have formed.
Close ==
  /\ clock < MaxClock /\ clock' = clock + 1
  /\ \E c \in Shapes :
       history' = Append(history, [time |-> clock, low |-> c.low, close |-> c.close, high |-> c.high])
  /\ UNCHANGED <<asked, seen>>
Pause == clock < MaxClock /\ clock' = clock + 1 /\ UNCHANGED <<history, asked, seen>>

\* The recorder logs an evaluation of the strategy.
Evaluate ==
  /\ asked = None /\ history # <<>>
  /\ asked' = clock /\ seen' = Len(history) /\ UNCHANGED <<history, clock>>

Init == history = <<>> /\ clock = 0 /\ asked = None /\ seen = None
Next == Close \/ Pause \/ Evaluate
Spec == Init /\ [][Next]_vars

-----------------------------------------------------------------------------
Candle == [time: Nat, low: Int, close: Int, high: Int]
TypeOK ==
  /\ history \in Seq(Candle) /\ clock \in 0..MaxClock
  /\ \A i \in Rows(history) : history[i].time < clock
  /\ \A i, j \in Rows(history) : i < j => history[i].time < history[j].time
  /\ asked \in 0..clock \cup {None} /\ seen \in Rows(history) \cup {None}
  /\ asked = None <=> seen = None
  /\ asked # None => history[seen].time < asked

\* The entries that are measured: the close the strategy saw, of a setup, and
\* the close of the reference candle, of a rejection.
IsEntry(h, entry) ==
  \E r \in Rows(h) : (r = seen \/ IsReference(h, asked, r)) /\ entry = h[r].close

\* What a report says about stop and targets, every later report says too,
\* although a report made before the candle of the evaluation has closed has
\* another reference candle than the later ones.
DecidedIsFinal ==
  [][asked # None =>
       \A d \in Dir, m \in Multiples, stop \in Prices, r \in Rows(history) :
         LET entry == history[r].close
             risk == Beyond(d, entry, stop)
         IN  risk > 0 /\ IsEntry(history, entry) =>
               /\ StopFirst(history, asked, d, entry, risk, m) =>
                    StopFirst(history', asked, d, entry, risk, m)
               /\ TargetFirst(history, asked, d, entry, risk, m) =>
                    TargetFirst(history', asked, d, entry, risk, m) ]_vars

\* The outcomes of one evaluation are consistent: no multiple ends both ways, a
\* nearer target is reached when a farther one is, and a stop that came before
\* a target came before every farther target.
TargetsNested ==
  asked # None =>
    \A d \in Dir, m, n \in Multiples, stop \in Prices, r \in Rows(history) :
      LET entry == history[r].close
          risk == Beyond(d, entry, stop)
      IN  risk > 0 /\ m <= n /\ IsEntry(history, entry) =>
            /\ TargetFirst(history, asked, d, entry, risk, n) =>
                 TargetFirst(history, asked, d, entry, risk, m)
            /\ StopFirst(history, asked, d, entry, risk, m) =>
                 ~TargetFirst(history, asked, d, entry, risk, n)

\* The two measures of one rejection, taken from the same reference price over
\* the same horizon, agree: a target or a stop that was reached shows in the
\* excursions, and an outcome is undetermined only if no excursion got there.
ExcursionsAgree ==
  asked # None =>
    \A d \in Dir, m \in Multiples, stop \in Prices, r \in Rows(history) :
      LET entry == history[r].close
          risk == Beyond(d, entry, stop)
          reached == MfeReaches(history, asked, Horizon, d, m * risk)
          lost == MaeReaches(history, asked, Horizon, d, risk)
      IN  IsReference(history, asked, r) /\ risk > 0 =>
            /\ TargetFirst(history, asked, d, entry, risk, m) => reached
            /\ StopFirst(history, asked, d, entry, risk, m) => lost
            /\ reached \/ lost => \/ TargetFirst(history, asked, d, entry, risk, m)
                                  \/ StopFirst(history, asked, d, entry, risk, m)

\* find_reference_index: the reference candle is the most recent closed one at
\* the evaluation, the price the strategy would have been looking at.
ReferenceIsClosed ==
  asked # None => \A r \in Rows(history) : IsReference(history, asked, r) => r = seen
=============================================================================
