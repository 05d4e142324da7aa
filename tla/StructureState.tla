--------------------------- MODULE StructureState ---------------------------
(***************************************************************************)
(* The market structure state machine: detect_structure_state of           *)
(* app/analysis/state_machine.py.  One step is one iteration of its loop   *)
(* over the rows; the action taken is the control path of the iteration.   *)
(*                                                                         *)
(* A variable the code keeps twice, per direction or per side, is a        *)
(* function here; protected[d] is the level that guards a trend d, that is *)
(* protected_low for bullish and protected_high for bearish.               *)
(***************************************************************************)
EXTENDS Directions

CONSTANTS Price,     \* prices of swings and closes
          Distance,  \* values of atr * minimum_break_atr
          MaxRows,   \* bound on the number of rows of the frame
          None       \* a missing value

ASSUME PriceAssumption == Price \subseteq Int
ASSUME DistanceAssumption == Distance \subseteq Nat
ASSUME RowsAssumption == MaxRows \in Nat
ASSUME NoneAssumption == None \notin Int /\ None \notin (Labels \cup Dir \cup EventNames \cup Marks)

VARIABLES
  pos,          \* position of the next row
  trend,        \* current_trend
  state,        \* current_state
  protected,    \* protected_low / protected_high: level, status and source
  candidate,    \* candidate_low / candidate_high
  candidateRow, \* history only: the row that last set candidate[d]
  bosLevel,     \* active_<d>_bos_level
  brokenBos,    \* broken_<d>_bos_level
  brokenMss,    \* broken_<d>_mss_level
  hasPullback,  \* bullish_mss_has_hl / bearish_mss_has_lh
  originLevel,  \* mss_origin_level
  originIndex,  \* mss_origin_index
  detected,     \* latest_detected_swing_high / _low
  cyclePrev,    \* cycle_previous_high / _low
  row           \* the columns written for the row just processed

guards == <<protected, brokenMss>>
mss == <<hasPullback, originLevel, originIndex>>
vars == <<pos, trend, state, protected, candidate, candidateRow, bosLevel,
          brokenBos, brokenMss, hasPullback, originLevel, originIndex,
          detected, cyclePrev, row>>

MaybePrice == Price \cup {None}
Guard == [level: MaybePrice, status: {None, "active", "broken"},
          source: {None, "pullback", "latest_swing"}]
NoGuard == [level |-> None, status |-> None, source |-> None]
Broken(g) == [level |-> g.level, status |-> "broken", source |-> g.source]
MovedTo(g, p) == [level |-> p, status |-> g.status, source |-> g.source]
PullbackGuard(p) == [level |-> p, status |-> "active", source |-> "pullback"]

(***************************************************************************)
(* What the loop reads of a row: the price of a swing confirmed at the row *)
(* (None when it is not a swing), its close and the required distance.     *)
(* Both are None on a row whose close or ATR is missing.  A swing price is *)
(* the row's own high or low, so the close lies between them.              *)
(***************************************************************************)
Candle == [high: MaybePrice, low: MaybePrice, close: MaybePrice,
           required: Distance \cup {None}]
Rows == {c \in Candle :
           /\ c.high # None /\ c.low # None => c.low <= c.high
           /\ c.high # None /\ c.close # None => c.close <= c.high
           /\ c.low # None /\ c.close # None => c.low <= c.close
           /\ c.close = None <=> c.required = None}

-----------------------------------------------------------------------------
\* Classification against the baseline of the current trend cycle.
HighLabel(c) == IF c.high = None \/ cyclePrev["high"] = None THEN None
                ELSE IF c.high > cyclePrev["high"] THEN "HH" ELSE "LH"
LowLabel(c) == IF c.low = None \/ cyclePrev["low"] = None THEN None
               ELSE IF c.low > cyclePrev["low"] THEN "HL" ELSE "LL"

\* On a row that is both kinds of swing the low overwrites the label.
Label(c) == LET low == LowLabel(c) IN IF low # None THEN low ELSE HighLabel(c)
SwingPrice(c, s) == IF s = "high" THEN c.high ELSE c.low

Latest(f, c) == [s \in Side |-> IF SwingPrice(c, s) = None THEN f[s]
                                ELSE SwingPrice(c, s)]
Progresses(d, c) == Label(c) = ProgressLabel(d)
PullsBack(d, c) == Label(c) = PullbackLabel(d)

\* Mutants of Reseed: a source outside the documented values; a reseed said to
\* be a classified pullback; a reseed from the per-cycle baseline.
ReseedUnknownSource(d, c) ==
  LET v == Latest(detected, c)[PullbackSide(d)]
  IN  IF v = None THEN NoGuard ELSE [level |-> v, status |-> "active", source |-> "swing"]
ReseedAsPullback(d, c) ==
  LET v == Latest(detected, c)[PullbackSide(d)]
  IN  IF v = None THEN NoGuard ELSE PullbackGuard(v)
ReseedFromCycle(d, c) ==
  LET v == Latest(cyclePrev, c)[PullbackSide(d)]
  IN  IF v = None THEN NoGuard
      ELSE [level |-> v, status |-> "active", source |-> "latest_swing"]

\* reseed_from_latest_swing, reading the trackers after this row's swings.
Reseed(d, c) ==
  LET v == Latest(detected, c)[PullbackSide(d)]
  IN  IF v = None THEN NoGuard
      ELSE [level |-> v, status |-> "active", source |-> "latest_swing"]

\* The bookkeeping every row does for its swings, whatever its path.
RecordSwings(c) ==
  /\ pos' = pos + 1
  /\ detected' = Latest(detected, c)
  /\ candidate' = [d \in Dir |-> IF PullsBack(d, c) THEN SwingPrice(c, PullbackSide(d))
                                 ELSE candidate[d]]
  /\ candidateRow' = [d \in Dir |-> IF PullsBack(d, c) THEN pos ELSE candidateRow[d]]
  /\ bosLevel' = [d \in Dir |-> IF Progresses(d, c) THEN SwingPrice(c, ProgressSide(d))
                                ELSE bosLevel[d]]

Columns(c, event, direction, broken, invalidated) ==
  [label |-> Label(c), event |-> event, direction |-> direction,
   broken |-> broken, invalidated |-> invalidated]
Quiet(c) == Columns(c, None, None, None, None)

\* Mutants of EndMss: the origin index, or the confirmation flags, survive.
EndMssKeepsIndex ==
  /\ hasPullback' = [d \in Dir |-> FALSE]
  /\ brokenMss' = [d \in Dir |-> None]
  /\ originLevel' = None
  /\ UNCHANGED originIndex
EndMssKeepsFlags ==
  /\ brokenMss' = [d \in Dir |-> None]
  /\ originLevel' = None
  /\ originIndex' = None
  /\ UNCHANGED hasPullback

\* What both ways out of a pending shift clear.
EndMss ==
  /\ hasPullback' = [d \in Dir |-> FALSE]
  /\ brokenMss' = [d \in Dir |-> None]
  /\ originLevel' = None
  /\ originIndex' = None

-----------------------------------------------------------------------------
(* Rows while a shift towards m is pending.  No close is checked here.     *)

\* Mutant of Confirms: the progress swing alone confirms.
ConfirmsAtOnce(c, m) == Progresses(m, c)

Confirms(c, m) == Progresses(m, c) /\ hasPullback[m]

\* Mutant of TurnGuards: the new guard is the latest swing instead of the
\* confirming pullback.
TurnGuardsFromDetected(m) ==
  [d \in Dir |-> IF d = m THEN PullbackGuard(detected[PullbackSide(m)]) ELSE NoGuard]

\* The last pullback of m guards the new trend; the old guard is cleared.
TurnGuards(m) == [d \in Dir |-> IF d = m THEN PullbackGuard(candidate[m]) ELSE NoGuard]

\* CHoCH: the progress swing of m after its pullback; the trend cycle ends.
Confirm(c, m) ==
  /\ state = Mss(m) /\ Confirms(c, m)
  /\ RecordSwings(c)
  /\ trend' = m
  /\ state' = m
  /\ protected' = TurnGuards(m)
  /\ EndMss
  /\ cyclePrev' = [s \in Side |-> None]
  /\ brokenBos' = [brokenBos EXCEPT ![m] = None]
  /\ row' = Columns(c, "CHoCH", m, originLevel, None)

\* MSS_INVALIDATED: the old trend makes progress again and survives.
Invalidate(c, m) ==
  LET d == Opp(m) IN
  /\ state = Mss(m) /\ Progresses(d, c)
  /\ RecordSwings(c)
  /\ state' = d
  /\ protected' = [protected EXCEPT ![d] = Reseed(d, c)]
  /\ EndMss
  /\ cyclePrev' = Latest(cyclePrev, c)
  /\ row' = Columns(c, "MSS_INVALIDATED", d, originLevel, originIndex)
  /\ UNCHANGED <<trend, brokenBos>>

\* The pullback swing of m is the first half of the confirmation.
Arm(c, m) ==
  /\ state = Mss(m) /\ PullsBack(m, c)
  /\ RecordSwings(c)
  /\ hasPullback' = [hasPullback EXCEPT ![m] = TRUE]
  /\ cyclePrev' = Latest(cyclePrev, c)
  /\ row' = Quiet(c)
  /\ UNCHANGED <<trend, state, guards, originLevel, originIndex, brokenBos>>

\* Any other row leaves the pending shift as it is.
Wait(c, m) ==
  /\ state = Mss(m)
  /\ ~PullsBack(m, c) /\ ~Progresses(Opp(m), c) /\ ~Confirms(c, m)
  /\ RecordSwings(c)
  /\ cyclePrev' = Latest(cyclePrev, c)
  /\ row' = Quiet(c)
  /\ UNCHANGED <<trend, state, guards, mss, brokenBos>>

-----------------------------------------------------------------------------
(* Rows in a trend d, or the row that starts it.                           *)

\* The first label of the series decides the trend; any other keeps it.
InTrend(c, d) == \/ state = d
                 \/ state = "neutral" /\ Label(c) # None /\ d = LabelDir(Label(c))

\* The guard of d once the row's swing has created, replaced or reseeded it.
GuardAfterSwing(c, d) ==
  IF PullsBack(d, c) THEN PullbackGuard(SwingPrice(c, PullbackSide(d)))
  ELSE IF state = "neutral" THEN Reseed(d, c)
  ELSE protected[d]

\* The Replacement branch forgets the level broken by the last shift.
BrokenMssAfterSwing(c, d) ==
  IF state = d /\ PullsBack(d, c) THEN [brokenMss EXCEPT ![Opp(d)] = None]
  ELSE brokenMss

ClosesBelowGuard(c, d) ==
  LET g == GuardAfterSwing(c, d).level IN
  /\ c.close # None /\ g # None
  /\ Beyond(Opp(d), c.close, g) >= c.required
  /\ BrokenMssAfterSwing(c, d)[Opp(d)] # g

BreaksStructure(c, d) ==
  /\ ~ClosesBelowGuard(c, d)
  /\ c.close # None /\ bosLevel'[d] # None /\ brokenBos[d] # bosLevel'[d]
  /\ Beyond(d, c.close, bosLevel'[d]) >= c.required

\* MSS: the close breaks the guard; the trend stands until a CHoCH.
ShiftStructure(c, d) ==
  LET g == GuardAfterSwing(c, d) IN
  /\ InTrend(c, d) /\ ClosesBelowGuard(c, d)
  /\ RecordSwings(c)
  /\ trend' = d
  /\ state' = Mss(Opp(d))
  /\ protected' = [protected EXCEPT ![d] = Broken(g)]
  /\ brokenMss' = [BrokenMssAfterSwing(c, d) EXCEPT ![Opp(d)] = g.level]
  /\ originLevel' = g.level
  /\ originIndex' = pos
  /\ hasPullback' = [x \in Dir |-> FALSE]
  /\ cyclePrev' = Latest(cyclePrev, c)
  /\ row' = Columns(c, "MSS", Opp(d), g.level, None)
  /\ UNCHANGED brokenBos

\* BOS: the close breaks the last progress swing; the guard's level moves to
\* the last pullback while its status and source stay.
BreakStructure(c, d) ==
  LET g == GuardAfterSwing(c, d) IN
  /\ InTrend(c, d)
  /\ RecordSwings(c)
  /\ BreaksStructure(c, d)
  /\ trend' = d
  /\ state' = d
  /\ protected' = [protected EXCEPT ![d] =
                     IF candidate'[d] # None THEN MovedTo(g, candidate'[d]) ELSE g]
  /\ brokenMss' = BrokenMssAfterSwing(c, d)
  /\ brokenBos' = [brokenBos EXCEPT ![d] = bosLevel'[d]]
  /\ cyclePrev' = Latest(cyclePrev, c)
  /\ row' = Columns(c, "BOS", d, bosLevel'[d], None)
  /\ UNCHANGED mss

\* The close breaks nothing: only the swing counts.
Continue(c, d) ==
  /\ InTrend(c, d) /\ ~ClosesBelowGuard(c, d)
  /\ RecordSwings(c)
  /\ ~BreaksStructure(c, d)
  /\ trend' = d
  /\ state' = d
  /\ protected' = [protected EXCEPT ![d] = GuardAfterSwing(c, d)]
  /\ brokenMss' = BrokenMssAfterSwing(c, d)
  /\ cyclePrev' = Latest(cyclePrev, c)
  /\ row' = Quiet(c)
  /\ UNCHANGED <<brokenBos, mss>>

\* Before the first label only the trackers move.
Collect(c) ==
  /\ state = "neutral" /\ Label(c) = None
  /\ RecordSwings(c)
  /\ cyclePrev' = Latest(cyclePrev, c)
  /\ row' = Quiet(c)
  /\ UNCHANGED <<trend, state, guards, mss, brokenBos>>

-----------------------------------------------------------------------------
Init ==
  /\ pos = 0
  /\ trend = "neutral" /\ state = "neutral"
  /\ protected = [d \in Dir |-> NoGuard]
  /\ candidate = [d \in Dir |-> None]
  /\ candidateRow = [d \in Dir |-> None]
  /\ bosLevel = [d \in Dir |-> None]
  /\ brokenBos = [d \in Dir |-> None]
  /\ brokenMss = [d \in Dir |-> None]
  /\ hasPullback = [d \in Dir |-> FALSE]
  /\ originLevel = None /\ originIndex = None
  /\ detected = [s \in Side |-> None]
  /\ cyclePrev = [s \in Side |-> None]
  /\ row = [label |-> None, event |-> None, direction |-> None,
            broken |-> None, invalidated |-> None]

\* One row of the frame.
Step(c) ==
  \/ Collect(c)
  \/ \E d \in Dir : \/ Confirm(c, d) \/ Invalidate(c, d)
                    \/ Arm(c, d) \/ Wait(c, d)
                    \/ ShiftStructure(c, d) \/ BreakStructure(c, d)
                    \/ Continue(c, d)

Next == pos < MaxRows /\ \E c \in Rows : Step(c)

Spec == Init /\ [][Next]_vars

-----------------------------------------------------------------------------
TypeOK ==
  /\ pos \in Nat
  /\ trend \in Dir \cup {"neutral"}
  /\ state \in States
  /\ protected \in [Dir -> Guard]
  /\ candidate \in [Dir -> MaybePrice]
  /\ candidateRow \in [Dir -> Nat \cup {None}]
  /\ bosLevel \in [Dir -> MaybePrice]
  /\ brokenBos \in [Dir -> MaybePrice]
  /\ brokenMss \in [Dir -> MaybePrice]
  /\ hasPullback \in [Dir -> BOOLEAN]
  /\ originLevel \in MaybePrice
  /\ originIndex \in Nat \cup {None}
  /\ detected \in [Side -> MaybePrice]
  /\ cyclePrev \in [Side -> MaybePrice]
  /\ row \in [label : Labels \cup {None},
              event : EventNames \cup {None},
              direction : Dir \cup {None}, broken : MaybePrice,
              invalidated : Nat \cup {None}]

Pending == \E m \in Dir : state = Mss(m)

\* The pending-shift bookkeeping agrees with itself: a shift is pending
\* exactly when its origin is recorded, it runs against the confirmed trend,
\* its origin is the trend's guard, marked broken, and no other guard is.
ShiftBookkeeping ==
  /\ trend = "neutral" <=> state = "neutral"
  /\ \A d \in Dir : trend = d => state \in {d, Mss(Opp(d))}
  /\ Pending <=> originIndex # None
  /\ Pending => originIndex < pos
  /\ \A d \in Dir : protected[d].status = "broken" <=> Pending /\ trend = d
  /\ \A d \in Dir : Pending /\ trend = d => protected[d].level = originLevel /\ originLevel # None
  /\ ~Pending => originLevel = None

\* Only the side that guards the confirmed trend holds a protected level, and
\* its three columns are set or missing together.
OneGuard ==
  \A d \in Dir :
    /\ protected[d].level # None => d = trend
    /\ protected[d].level = None <=> protected[d].status = None
    /\ protected[d].level = None <=> protected[d].source = None

\* An unbroken protected level said to come from a classified pullback is the
\* last such pullback of its direction, whatever shifts and breaks came between
\* (while a shift is pending a new pullback leaves the broken level behind).
GuardProvenance ==
  \A d \in Dir :
    protected[d].source = "pullback" /\ protected[d].status = "active" =>
      protected[d].level = candidate[d]

\* A shift counts as half confirmed only by a pullback classified after the
\* break that began it, against a baseline of the same trend cycle.
ConfirmationOrder ==
  \A m \in Dir : hasPullback[m] =>
    /\ state = Mss(m)
    /\ candidate[m] # None
    /\ candidateRow[m] \in (originIndex + 1)..(pos - 1)
    /\ cyclePrev[PullbackSide(m)] # None

\* Once a trend has a protected level, no later row leaves the running trend
\* without one: reversals, invalidations and breaks all hand a level over.
Guarded == \E d \in Dir : trend = d /\ protected[d].level # None
GuardNeverLost == [][Guarded => Guarded']_vars

\* The guard a reversal installs was formed after the reversal began, and the
\* swing that completes the reversal was compared within the ended cycle.
ReversalIsFresh ==
  [][row'.event = "CHoCH" =>
       \E m \in Dir : /\ trend' = m /\ trend = Opp(m)
                      /\ originIndex < candidateRow[m]
                      /\ protected'[m].level = candidate[m] /\ candidate[m] # None
                      /\ cyclePrev["high"] # None /\ cyclePrev["low"] # None]_vars

\* docs/STATE_MACHINE.md section 8: a row whose BOS fires without a swing to
\* create, replace, reseed or clear a guard leaves the protected levels alone.
BosLeavesGuard ==
  [][row'.event = "BOS" /\ row'.label = None => UNCHANGED protected]_vars

\* Every row is a step of the abstract trend cycle.
Phase == IF state = "neutral" THEN "undecided"
         ELSE IF ~Pending THEN "trending"
         ELSE IF \E m \in Dir : hasPullback[m] THEN "armed" ELSE "shifting"
Cycle == INSTANCE TrendCycle WITH
           NoEvent <- None, at <- pos, dir <- trend, phase <- Phase, origin <- originIndex,
           event <- row.event, heading <- row.direction, cited <- row.invalidated
ImplementsTrendCycle == Cycle!Spec
=============================================================================
