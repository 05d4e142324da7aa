-------------------------- MODULE MCAnalysisEngine --------------------------
(* Nine candles: an opening that leaves both baselines set, continued by any *)
(* five of six candles, and the mirror image of all these frames. *)
EXTENDS AnalysisEngine

B(open, low, high, close) == [open |-> 2 * open, low |-> 2 * low, high |-> 2 * high,
                              close |-> 2 * close, atr |-> 1]
Mirror(b) == [open |-> 10 - b.open, low |-> 10 - b.high, high |-> 10 - b.low,
              close |-> 10 - b.close, atr |-> b.atr]
Opening == <<B(3, 2, 3, 3), B(3, 1, 3, 1), B(3, 2, 4, 3),
             B(1, 0, 1, 0)>>
Shapes == {B(5, 4, 5, 4), B(3, 3, 5, 5), B(4, 1, 4, 4), B(3, 0, 3, 0), B(2, 0, 2, 1), B(2, 2, 3, 3)}
MCFrames == LET up == {Opening \o tail : tail \in [1..5 -> Shapes]}
            IN  up \cup {[i \in DOMAIN f |-> Mirror(f[i])] : f \in up}
MCPrice == {2 * k : k \in 0..5}
AllEvents == {"BOS", "MSS", "CHoCH"}
=============================================================================
