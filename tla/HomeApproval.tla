---------------------------- MODULE HomeApproval ----------------------------
(***************************************************************************)
(* What the confirmation of home actions promises a session whose turns    *)
(* come one after another: the user is asked about one action at a time,   *)
(* a text that says yes approves what was asked last, once, and with the   *)
(* approval the question is spent.                                         *)
(***************************************************************************)
EXTENDS Integers

CONSTANTS
    Turns,   \* turn ids, one text of the user each
    Actions, \* home actions
    None

VARIABLES
    asked,    \* the action the user may still approve, or None
    yes,      \* turns whose text says yes
    prompts,  \* how often the user was asked about each action
    approved  \* what was done with approval: [turn, action]

vars == <<asked, yes, prompts, approved>>

Init ==
    /\ asked = None
    /\ yes = {}
    /\ prompts = [a \in Actions |-> 0]
    /\ approved = {}

\* The user is shown a prompt, which replaces the one before.
Ask(a) ==
    /\ prompts' = [prompts EXCEPT ![a] = @ + 1]
    /\ asked' = a
    /\ UNCHANGED <<yes, approved>>

Say(t) ==
    /\ t \notin yes
    /\ yes' = yes \cup {t}
    /\ UNCHANGED <<asked, prompts, approved>>

\* A no, a final failure or a restart.
Withdraw ==
    /\ asked # None
    /\ asked' = None
    /\ UNCHANGED <<yes, prompts, approved>>

\* A yes that has approved nothing yet spends the question.
Approve(t) ==
    /\ asked # None
    /\ t \in yes /\ \A p \in approved : p.turn # t
    /\ approved' = approved \cup {[turn |-> t, action |-> asked]}
    /\ asked' = None
    /\ UNCHANGED <<yes, prompts>>

Next ==
    \/ \E a \in Actions : Ask(a)
    \/ \E t \in Turns : Say(t) \/ Approve(t)
    \/ Withdraw

Spec == Init /\ [][Next]_vars
=============================================================================
