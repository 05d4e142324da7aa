------------------------- MODULE MCForwardOutcomes -------------------------
(* A quiet candle, one that reaches up, and one that reaches both ways, as  *)
(* far as a stop and a target around a price of 3. *)
EXTENDS OutcomeWalk

C(low, close, high) == [low |-> low, close |-> close, high |-> high]
Candles == {C(2, 3, 4), C(3, 4, 6), C(0, 3, 5)}
Levels == {1, 4}
TwoMultiples == {1, 2}
=============================================================================
