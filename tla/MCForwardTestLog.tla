-------------------------- MODULE MCForwardTestLog --------------------------
(* A log of a few evaluations, made by runs of none, one, two or unlimited ones. *)
EXTENDS ForwardTestLog

MCIterations == {0, 1, 2}
=============================================================================
