--------------------------- MODULE MCSwingPoints ---------------------------
(* A plain candle and two that are swings on both sides between plain ones: *)
(* each closes through the swings of the other, and level with its own. *)
EXTENDS LegacyScan

C(low, close, high, distance) == [low |-> low, close |-> close, high |-> high, distance |-> distance]
Candles == {C(1, 2, 3, 1), C(0, 5, 5, 0), C(-1, -1, 4, 0)}
=============================================================================
