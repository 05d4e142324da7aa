------------------------------- MODULE Swings -------------------------------
(***************************************************************************)
(* Swing detection: detect_swing_points of app/analysis/                   *)
(* market_structure.py, which both pipelines run first.  A frame is the    *)
(* sequence of candles of one request, oldest first; only their highs and  *)
(* lows are read.                                                          *)
(*                                                                         *)
(* Swing highs are written with direction bullish, swing lows with         *)
(* bearish.                                                                *)
(***************************************************************************)
EXTENDS Directions, Sequences

CONSTANTS Left, Right  \* left_bars, right_bars

ASSUME BarsAssumption == Left \in Nat \ {0} /\ Right \in Nat \ {0}

Extreme(d, c) == IF d = "bullish" THEN c.high ELSE c.low

\* Mutant of IsSwing: the right-hand slice stops one candle short.
IsSwingOneShort(f, d, i) ==
  /\ i \in (Left + 1)..(Len(f) - Right)
  /\ \A j \in (i - Left)..(i + Right - 1) :
       j # i => Beyond(d, Extreme(d, f[i]), Extreme(d, f[j])) > 0

\* Row i is strictly more extreme than Left rows before and Right rows after.
IsSwing(f, d, i) ==
  /\ i \in (Left + 1)..(Len(f) - Right)
  /\ \A j \in (i - Left)..(i + Right) :
       j # i => Beyond(d, Extreme(d, f[i]), Extreme(d, f[j])) > 0
=============================================================================
