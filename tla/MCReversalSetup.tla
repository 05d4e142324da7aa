-------------------------- MODULE MCReversalSetup --------------------------
(* A short frame with a short lookback and an age limit: six rows hold two    *)
(* reversals, or an invalidated shift, a reversal and a retracement. *)
EXTENDS ReversalSetup

AllEvents == {"BOS", "MSS", "CHoCH"}
=============================================================================
