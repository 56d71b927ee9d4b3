---- MODULE MCGestureGate ----
(* Instances of GestureGate: frames over four ticks, in any order, and edges that come *)
(* with or without a turn id of their publisher.                                        *)
EXTENDS GestureGate

Ticks == 0..3
====
