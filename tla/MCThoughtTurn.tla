---- MODULE MCThoughtTurn ----
(* Instances of ThoughtTurn: a light, a door that needs confirmation, a fan nobody can  *)
(* observe, a lock of both kinds, and the texts a user of the session may say.          *)
EXTENDS ThoughtTurn, TLC

CONSTANTS t1, t2, t3, t4, light, door, fan, lock

Text(kind, action, label, reply, cancel) ==
    [kind |-> kind, action |-> action, label |-> label, reply |-> reply, cancel |-> cancel]

Command(a) == Text("command", a, None, FALSE, FALSE)
SaysYes == Text("talk", None, None, TRUE, FALSE)
No == Text("talk", None, None, FALSE, TRUE)
Recheck == Text("recheck", None, None, FALSE, FALSE)
Feedback(l) == Text("feedback", None, l, FALSE, FALSE)
Query == Text("query", None, None, FALSE, FALSE)

\* "open the door, please": a command that holds a confirmation marker.
CommandPlease(a) == Text("command", a, None, TRUE, FALSE)
\* "it is not on. turn it on": a command that holds a label.
CommandLabelled(a, l) == Text("command", a, l, FALSE, FALSE)
Ambiguous == Command(None)

ReviewTexts == {Command(light), Recheck, Feedback("off")}
SerialTexts == {Command(door), CommandPlease(fan), SaysYes, No, Recheck}
TurnsTexts == {Command(light), Command(door), Command(fan), Command(lock),
               CommandLabelled(light, "off"), SaysYes, No, Recheck, Feedback("off"), Query,
               Ambiguous}
LightOn == [a \in {light} |-> "on"]
NoLights == [a \in {} |-> "on"]
TwoEach == [a \in Actions |-> 2]
ThreeEach == [a \in Actions |-> 3]

Symmetry == Permutations(Turns)
====
