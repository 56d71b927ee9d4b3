----------------------------- MODULE MCConsole -----------------------------
(* An instance of Console: one client that streams and clears while two processes log, and *)
(* two that set the volume while the windows of the limiter pass.                          *)
EXTENDS Console

CONSTANTS w1, w2, t1, t2, loud, soft

Streaming == [threads |-> {t1}, kinds |-> {"stream"}, events |-> 4, ticks |-> 0]
Clearing == [threads |-> {t1}, kinds |-> {"stream", "clear"}, events |-> 3, ticks |-> 1]
Setting == [threads |-> {t1, t2}, kinds |-> {"volume"}, events |-> 0, ticks |-> 1]

All == {Streaming, Clearing, Setting}
=============================================================================
