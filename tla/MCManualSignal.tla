--------------------------- MODULE MCManualSignal ---------------------------
(* One block per direction with prices on both sides of it; balances of which  *)
(* none, one or all allow a tradable volume. *)
EXTENDS ManualSignal

SmallBalances == {0, 3, 12, 40}
SomePrices == 1..7
SomeBlocks == {[distal |-> 2, proximal |-> 4, tolerance |-> 1],
               [distal |-> 5, proximal |-> 4, tolerance |-> 1]}
=============================================================================
