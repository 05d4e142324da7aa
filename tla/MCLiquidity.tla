---------------------------- MODULE MCLiquidity ----------------------------
(* Four prices a tick apart, distances of half a tick or a tick. *)
EXTENDS Liquidity

MCPrices == {0, 2, 4, 6}
=============================================================================
