---- MODULE MCGestureThreads ----
(* Two threads of the HTTP receiver over frames of two ticks. *)
EXTENDS GestureThreads, TLC

CONSTANTS h1, h2

ASSUME GraceAssumption == WithoutGrace

Ticks == 0..1
Symmetry == Permutations(Threads)
====
