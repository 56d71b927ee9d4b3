--------------------------- MODULE GestureRules ---------------------------
(***************************************************************************)
(* The two pure rules of the gesture path, as functions of a state and an  *)
(* input: GestureInputGate.update and VoiceTurnController.update.          *)
(* GestureGate applies them in one step, GestureThreads shows what the     *)
(* statements they stand for do when two threads execute them.             *)
(*                                                                         *)
(* A definition named ...Bug is the one after it with a plausible mistake  *)
(* in it; no specification uses it.                                        *)
(***************************************************************************)
EXTENDS Integers

CONSTANTS
    ActivationDelay, \* activation_delay_s, in ticks
    ReleaseDelay,    \* release_delay_s
    GapGrace,        \* activation_gap_grace_s
    MinFrames,       \* min_activation_active_frames
    Times,           \* timestamps a frame may carry
    None             \* no value yet

ASSUME RulesAssumption ==
    /\ ActivationDelay \in Nat /\ ReleaseDelay \in Nat /\ GapGrace \in Nat
    /\ MinFrames \in Nat \ {0}
    /\ Times \subseteq Int
    /\ None \notin Int

\* A gesture state that passed validation: its time, and whether the sign is shown with
\* enough confidence (raw_active).
Frame == [at : Times, active : BOOLEAN]

-----------------------------------------------------------------------------
(* GestureInputGate *)

Gate == [mic : BOOLEAN, activeSince : Times \cup {None}, lastActiveAt : Times \cup {None},
         count : Nat, inactiveSince : Times \cup {None}]

Closed == [mic |-> FALSE, activeSince |-> None, lastActiveAt |-> None,
           count |-> 0, inactiveSince |-> None]

AfterActiveKeptBug(g, f) ==
    LET since == IF g.activeSince = None THEN f.at ELSE g.activeSince
        count == IF g.activeSince = None THEN 1 ELSE g.count + 1
    IN  [mic |-> g.mic \/ (f.at - since >= ActivationDelay /\ count >= MinFrames),
         activeSince |-> since, lastActiveAt |-> f.at, count |-> count,
         inactiveSince |-> g.inactiveSince]

AfterActiveOneMoreBug(g, f) ==
    LET since == IF g.activeSince = None THEN f.at ELSE g.activeSince
        count == IF g.activeSince = None THEN 1 ELSE g.count + 1
    IN  [mic |-> g.mic \/ (f.at - since >= ActivationDelay /\ count > MinFrames),
         activeSince |-> since, lastActiveAt |-> f.at, count |-> count,
         inactiveSince |-> None]

AfterActive(g, f) ==
    LET since == IF g.activeSince = None THEN f.at ELSE g.activeSince
        count == IF g.activeSince = None THEN 1 ELSE g.count + 1
    IN  [mic |-> g.mic \/ (f.at - since >= ActivationDelay /\ count >= MinFrames),
         activeSince |-> since, lastActiveAt |-> f.at, count |-> count,
         inactiveSince |-> None]

\* A short drop before the microphone is on does not end the activation ...
WithinGrace(g, f) ==
    /\ ~g.mic
    /\ g.activeSince # None /\ g.lastActiveAt # None
    /\ GapGrace > 0
    /\ f.at - g.lastActiveAt <= GapGrace
    /\ g.count >= MinFrames

\* ... and may even complete it, on a frame without the sign.
OpensInGap(g, f) == WithinGrace(g, f) /\ f.at - g.activeSince >= ActivationDelay

AfterInactiveKeptBug(g, f) ==
    LET since == IF g.inactiveSince = None THEN f.at ELSE g.inactiveSince
    IN  [mic |-> OpensInGap(g, f) \/ (g.mic /\ f.at - since < ReleaseDelay),
         activeSince |-> g.activeSince,
         lastActiveAt |-> g.lastActiveAt,
         count |-> g.count,
         inactiveSince |-> since]

AfterInactive(g, f) ==
    LET since == IF g.inactiveSince = None THEN f.at ELSE g.inactiveSince
    IN  [mic |-> OpensInGap(g, f) \/ (g.mic /\ f.at - since < ReleaseDelay),
         activeSince |-> IF WithinGrace(g, f) THEN g.activeSince ELSE None,
         lastActiveAt |-> IF WithinGrace(g, f) THEN g.lastActiveAt ELSE None,
         count |-> IF WithinGrace(g, f) THEN g.count ELSE 0,
         inactiveSince |-> since]

After(g, f) == IF f.active THEN AfterActive(g, f) ELSE AfterInactive(g, f)

-----------------------------------------------------------------------------
(* VoiceTurnController: a start makes an id, its stop carries it and forgets it.       *)
(* The n-th id is the number n.                                                        *)

Controller == [recording : BOOLEAN, turn : Nat \cup {None}, issued : Nat]

Idle == [recording |-> FALSE, turn |-> None, issued |-> 0]

Action(c, mic) ==
    IF mic /\ ~c.recording THEN "start" ELSE IF ~mic /\ c.recording THEN "stop" ELSE "none"

ControlledForgetfulBug(c, mic) ==
    [recording |-> mic,
     turn |-> IF Action(c, mic) = "start" THEN c.issued + 1 ELSE c.turn,
     issued |-> IF Action(c, mic) = "start" THEN c.issued + 1 ELSE c.issued]

Controlled(c, mic) ==
    [recording |-> mic,
     turn |-> IF Action(c, mic) = "start" THEN c.issued + 1
              ELSE IF Action(c, mic) = "stop" THEN None ELSE c.turn,
     issued |-> IF Action(c, mic) = "start" THEN c.issued + 1 ELSE c.issued]

\* The turn id of its command.
Carried(c, mic) == IF Action(c, mic) = "start" THEN c.issued + 1 ELSE c.turn

-----------------------------------------------------------------------------
(* What each of the two receivers keeps *)

VARIABLES
    gate,       \* the attributes of GestureInputGate
    controller  \* the attributes of VoiceTurnController, and how many ids it made
=============================================================================
