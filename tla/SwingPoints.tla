----------------------------- MODULE SwingPoints -----------------------------
(***************************************************************************)
(* The legacy classifier: app/analysis/market_structure.py, as main.py's   *)
(* /analysis/market-structure chains it, after swing detection (Swings),   *)
(* over the validated candles of candle_validation.py.                     *)
(*                                                                         *)
(* The program keeps nothing between two requests: it recomputes every     *)
(* column over the window of candles it is given.  The state is therefore  *)
(* that window, a step is one more closed candle, and the columns are      *)
(* operators of the window; the properties relate what two consecutive     *)
(* requests are told about the same row.                                   *)
(*                                                                         *)
(* Breaks above swing highs are written with direction bullish, breaks     *)
(* below swing lows with bearish.                                          *)
(***************************************************************************)
EXTENDS Swings

CONSTANTS Window,  \* count: the candles of a request
          Shapes,  \* the candles that can close
          None     \* a missing value (pandas.NA)

\* A candle that passes validation; the open is not read by these functions.
\* distance is ATR times minimum_break_atr.  The ATR is smoothed from the first
\* candle on, so it changes when the window moves: no property relates breaks
\* across such a step.
Candle == {c \in [high: Int, low: Int, close: Int, distance: Nat] :
             c.low <= c.close /\ c.close <= c.high}

ASSUME WindowAssumption == Window \in Nat /\ Window >= Left + Right + 1
ASSUME ShapesAssumption == Shapes \subseteq Candle
ASSUME NoneAssumption == None \notin (Labels \cup Dir)

VARIABLE frame  \* the candles of the window, oldest first

Rows(f) == 1..Len(f)

\* Mutant of IsLatestSwing: the latest swing of the frame stands for every row.
IsLatestSwingOfFrame(f, d, p, i) ==
  IsSwing(f, d, p) /\ i # p /\ \A q \in (p + 1)..Len(f) : ~IsSwing(f, d, q)

\* p is the latest swing before row i: latest_swing_high or previous_high there.
IsLatestSwing(f, d, p, i) ==
  /\ p < i /\ IsSwing(f, d, p)
  /\ \A q \in (p + 1)..(i - 1) : ~IsSwing(f, d, q)

-----------------------------------------------------------------------------
(* classify_market_structure: one baseline per side over the whole window. *)

\* Mutant of IsRated: a swing is labelled without a swing to compare it with.
IsRatedAlways(f, d, i) == IsSwing(f, d, i)

\* Row i is a swing of d that has a swing to be compared with.
IsRated(f, d, i) == IsSwing(f, d, i) /\ \E p \in Rows(f) : IsLatestSwing(f, d, p, i)

IsHigher(f, d, i) ==
  \E p \in Rows(f) : IsLatestSwing(f, d, p, i) /\ Extreme(d, f[i]) > Extreme(d, f[p])

SideLabel(f, d, i) ==
  IF IsHigher(f, d, i)
  THEN IF d = "bullish" THEN "HH" ELSE "HL"
  ELSE IF d = "bullish" THEN "LH" ELSE "LL"

\* The structure column: the label of a swing low overwrites that of a high.
Label(f, i) ==
  IF IsRated(f, "bearish", i) THEN SideLabel(f, "bearish", i)
  ELSE IF IsRated(f, "bullish", i) THEN SideLabel(f, "bullish", i)
  ELSE None

-----------------------------------------------------------------------------
(* detect_breaks_of_structure, detect_change_of_character *)

Reaches(f, d, p, i) == Beyond(d, f[i].close, Extreme(d, f[p])) >= f[i].distance

\* Row i is the first whose close passes the latest swing of d.
Breaks(f, d, i) ==
  \E p \in Rows(f) :
    /\ IsLatestSwing(f, d, p, i) /\ Reaches(f, d, p, i)
    /\ \A j \in (p + 1)..(i - 1) : ~Reaches(f, d, p, j)

\* The bos column: a break down overwrites a break up of the same row.
Bos(f, i) ==
  IF Breaks(f, "bearish", i) THEN "bearish"
  ELSE IF Breaks(f, "bullish", i) THEN "bullish" ELSE None

\* The choch column: the previous BOS went the other way.
Choch(f, i) ==
  IF \E p \in Rows(f) : /\ p < i /\ Bos(f, p) # None /\ Bos(f, i) = Opp(Bos(f, p))
                        /\ \A q \in (p + 1)..(i - 1) : Bos(f, q) = None
  THEN Bos(f, i) ELSE None

-----------------------------------------------------------------------------
\* A candle closes; a request for Window candles then sees the last of them.
Grow(c) == Len(frame) < Window /\ frame' = Append(frame, c)
Slide(c) == Len(frame) = Window /\ frame' = Append(Tail(frame), c)

Init == frame = <<>>
Next == \E c \in Shapes : Grow(c) \/ Slide(c)
Spec == Init /\ [][Next]_frame

-----------------------------------------------------------------------------
TypeOK == frame \in Seq(Shapes) /\ Len(frame) <= Window

\* No look-ahead: although the swing's row is only known to be one Right rows
\* later, no break is ever dated before the swing could have been seen.
BreaksAreKnowable ==
  \A d \in Dir : \A i, p \in Rows(frame) :
    Breaks(frame, d, i) /\ IsLatestSwing(frame, d, p, i) => i > p + Right

\* A further candle changes nothing that is Right - 1 rows old: its label, BOS
\* and CHoCH are the same in every later report that still starts at the same
\* candle.  (The tail, younger than that, is provisional.)
ConfirmedIsFinal ==
  [][Len(frame) < Window =>
       \A i \in Rows(frame) : i <= Len(frame) + 1 - Right =>
         /\ Bos(frame', i) = Bos(frame, i) /\ Choch(frame', i) = Choch(frame, i)
         /\ i <= Len(frame) - Right => Label(frame', i) = Label(frame, i)]_frame

\* In the provisional tail a further candle only withdraws: no break appears on
\* a row that has been reported without it.
TailOnlyLoses ==
  [][Len(frame) < Window =>
       \A d \in Dir : \A i \in Rows(frame) : Breaks(frame', d, i) => Breaks(frame, d, i)]_frame

\* When the window moves on, a settled label is forgotten with its baseline but
\* never replaced by another one, except on a candle that is both a swing high
\* and a swing low, where the label of the low may uncover that of the high.
LabelsOnlyForget ==
  [][Len(frame) = Window =>
       \A i \in 2..(Window - Right) :
         \/ Label(frame', i - 1) \in {Label(frame, i), None}
         \/ IsSwing(frame, "bullish", i) /\ IsSwing(frame, "bearish", i)]_frame
=============================================================================
