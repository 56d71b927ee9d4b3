------------------------- MODULE MCHandoffWatcher -------------------------
(* Handoffs saved while others are sent, plain ones or candidates, by a    *)
(* watcher that skips what exists or does not, with one review thread.     *)
EXTENDS HandoffWatcher

CONSTANT r1
=============================================================================
