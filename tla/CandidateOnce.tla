--------------------------- MODULE CandidateOnce ---------------------------
(***************************************************************************)
(* What the replay registry of the turn server promises: while the server  *)
(* lives, an accepted speech candidate is reserved once and becomes one    *)
(* turn of the thought loop at most, and the memory this takes is bounded. *)
(***************************************************************************)
EXTENDS Integers, FiniteSets

CONSTANTS
    Candidates,      \* refs of accepted speech candidates
    MaxReservations  \* MAX_ACCEPTED_CANDIDATE_RESERVATIONS

VARIABLES
    reserved, \* candidates the server will not accept again
    turned    \* candidates that became a turn

Init == reserved = {} /\ turned = {}

Reserve(c) ==
    /\ c \notin reserved
    /\ Cardinality(reserved) < MaxReservations
    /\ reserved' = reserved \cup {c}
    /\ UNCHANGED turned

Turn(c) ==
    /\ c \in reserved \ turned
    /\ turned' = turned \cup {c}
    /\ UNCHANGED reserved

Next == \E c \in Candidates : Reserve(c) \/ Turn(c)

Spec == Init /\ [][Next]_<<reserved, turned>>
=============================================================================
