---- MODULE MCTurnServer ----
(* Instances of TurnServer: requests of every kind, for two candidates of which the *)
(* registry holds one.                                                              *)
EXTENDS TurnServer, TLC

CONSTANTS r1, r2, c1, c2

AnyAsk == Ask
====
