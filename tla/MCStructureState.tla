-------------------------- MODULE MCStructureState --------------------------
(* A small market for the structure state machine. *)
EXTENDS StructureState

MCPrice == 1..3
MCDistance == {0, 1}
=============================================================================
