------------------------ MODULE MCSpeechForwarder ------------------------
(* Two turns in a row.  The speech of the first overflows a queue of two:  *)
(* two deltas and the final chunk, or the poison behind them.              *)
EXTENDS SpeechForwarder

Deltas == <<2, 1>>
=============================================================================
