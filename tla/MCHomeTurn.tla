----------------------------- MODULE MCHomeTurn -----------------------------
(* Instances of HomeTurn: texts of up to three cues. *)
EXTENDS HomeTurn

Act(t, v) == [target |-> t, verb |-> v]
LightOn == Act("light", "on")
LightOff == Act("light", "off")
DoorOpen == Act("door", "open")
AirconOn == Act("aircon", "on")

\* Every text of one or two cues, and those of three that speak of the light or the door.
Words == {"light", "door", "on", "off", "open", "is_on", "ask", "state", "negate", "please", "no", "and"}

Sayings ==
    {{a, b} : a, b \in Cue} \cup {{a, b, c} : a \in {"light", "door"}, b, c \in Words} \cup {{}}

Offered == {LightOff, DoorOpen}
OnlyDoor == {DoorOpen}
OnlyAircon == {AirconOn}
OnlyLightOff == {LightOff}

See(state, fresh, sure) == [state |-> state, fresh |-> fresh, sure |-> sure]
Owns == {None, See("expected", TRUE, TRUE), See("expected", FALSE, TRUE), See("other", TRUE, TRUE)}
Rooms == {None, See("expected", TRUE, TRUE), See("expected", FALSE, TRUE),
          See("expected", TRUE, FALSE), See("other", TRUE, TRUE), See("unknown", TRUE, TRUE)}

\* A snapshot with and without the device, the camera, and another device that is as expected.
Snapshots ==
    [own : Owns, other : {None}, otherFirst : {FALSE}, room : Rooms]
    \cup [own : Owns, other : {See("expected", TRUE, TRUE)}, otherFirst : BOOLEAN, room : {None}]
=============================================================================
