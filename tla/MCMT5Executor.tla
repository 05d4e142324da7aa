--------------------------- MODULE MCMT5Executor ---------------------------
(* Two requests of any kind against one terminal, from start to stop. *)
EXTENDS MT5Executor
=============================================================================
