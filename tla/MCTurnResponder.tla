-------------------------- MODULE MCTurnResponder --------------------------
(* Instances of TurnResponder for TLC: a child with two descendants. *)
EXTENDS TurnResponder

BothPlatforms == {"posix", "nt"}
=============================================================================
