----------------------------- MODULE Directions -----------------------------
(***************************************************************************)
(* The vocabulary shared by the structure modules: market directions, the  *)
(* swing labels of app/analysis/state_machine.py and the structure states. *)
(*                                                                         *)
(* The Python code writes every branch twice, once per direction (HH and   *)
(* LL, HL and LH, protected_low and protected_high, ...).  Here a branch   *)
(* is written once for a direction d:                                      *)
(*   progress swing of d:  HH for bullish, LL for bearish;                 *)
(*   pullback swing of d:  HL for bullish, LH for bearish.                 *)
(***************************************************************************)
EXTENDS Integers

Dir == {"bullish", "bearish"}
Side == {"high", "low"}

Opp(d) == IF d = "bullish" THEN "bearish" ELSE "bullish"

\* The side of the market a trend advances on, and the one it pulls back to.
ProgressSide(d) == IF d = "bullish" THEN "high" ELSE "low"
PullbackSide(d) == ProgressSide(Opp(d))

\* A trend extends with its progress swing, and rests at its pullback swing.
ProgressLabel(d) == IF d = "bullish" THEN "HH" ELSE "LL"
PullbackLabel(d) == IF d = "bullish" THEN "HL" ELSE "LH"
Labels == {"HH", "HL", "LL", "LH"}
LabelDir(l) == IF l \in {"HH", "HL"} THEN "bullish" ELSE "bearish"

\* A pending market structure shift towards d ("mss_" + d).
Mss(d) == IF d = "bullish" THEN "mss_bullish" ELSE "mss_bearish"
States == {"neutral", "bullish", "bearish", "mss_bullish", "mss_bearish"}

\* The structure events, and the status and source of a protected level.
EventNames == {"MSS", "BOS", "CHoCH", "MSS_INVALIDATED"}
Marks == {"active", "broken", "pullback", "latest_swing"}

\* How far price a lies beyond price b in direction d.
Beyond(d, a, b) == IF d = "bullish" THEN a - b ELSE b - a
=============================================================================
