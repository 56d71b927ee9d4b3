---------------------------- MODULE GestureGate ----------------------------
(***************************************************************************)
(* The gesture receiver: noisy detections of a sword sign become a stable  *)
(* microphone state, its edges become recording commands with a turn id,   *)
(* and the state is sent to ai-talk-core's input gate.  The UDP receiver   *)
(* handles one datagram after the other, so here a datagram is one step.   *)
(*                                                                         *)
(* The time of a frame is what its datagram says: datagrams may be lost,   *)
(* repeated and reordered.  The gap grace is an option of the gate: the    *)
(* receiver leaves it at 0, the simulator of apps/gate_simulator.py sets   *)
(* it.                                                                     *)
(***************************************************************************)
EXTENDS GestureRules, Sequences, FiniteSets

CONSTANTS
    PublisherTurns, \* turn ids the publisher of edges may choose
    MaxFrames,      \* bound: gesture states handled
    MaxEdges        \* bound: edge datagrams handled

ASSUME GateAssumption ==
    /\ PublisherTurns \cap (Nat \cup {None}) = {}
    /\ MaxFrames \in Nat /\ MaxEdges \in Nat

VARIABLES
    history,    \* the frames it has seen, in the order it saw them
    command,    \* the last voice_control_command: its action and turn id
    started,    \* the turn id the last start_recording carried
    edges,      \* edge datagrams handled
    receiver    \* "up", or "down": its loop has ended

vars == <<gate, history, controller, command, started, edges, receiver>>

Init ==
    /\ gate = Closed
    /\ history = <<>>
    /\ controller = Idle
    /\ command = [action |-> "none", turn |-> None]
    /\ started = None
    /\ edges = 0
    /\ receiver = "up"

\* The command of the controller, with the turn id of an edge in place of its own.
Control(mic, id) ==
    LET action == Action(controller, mic)
        carried == IF id = None THEN Carried(controller, mic) ELSE id
    IN  /\ controller' = Controlled(controller, mic)
        /\ command' = [action |-> action, turn |-> carried]
        /\ started' = IF action = "start" THEN carried ELSE started

\* send_voice_state comes last, when gate and controller have moved.  A refusal of
\* ai-talk-core is a RuntimeError, which the loop does not catch; a slow answer is a
\* socket timeout, which the loop takes for its own and goes on.
Send == receiver' \in {"up", "down"}

\* A gesture state goes through the gate.
HandleFrame(f) ==
    /\ receiver = "up"
    /\ Len(history) < MaxFrames
    /\ gate' = After(gate, f)
    /\ history' = Append(history, f)
    /\ Control(gate'.mic, None)
    /\ Send
    /\ UNCHANGED edges

\* A gesture edge does not: the controller takes its word for the microphone.
HandleEdge(active, id) ==
    /\ receiver = "up"
    /\ edges < MaxEdges
    /\ Control(active, id)
    /\ edges' = edges + 1
    /\ Send
    /\ UNCHANGED <<gate, history>>

Next ==
    \/ \E f \in Frame : HandleFrame(f)
    \/ \E active \in BOOLEAN, id \in PublisherTurns \cup {None} : HandleEdge(active, id)

Spec == Init /\ [][Next]_vars

-----------------------------------------------------------------------------
(* What the gate and the controller promise *)

TypeOK ==
    /\ gate \in Gate
    /\ history \in Seq(Frame)
    /\ controller \in Controller
    /\ command \in [action : {"start", "stop", "none"}, turn : Nat \cup PublisherTurns \cup {None}]
    /\ started \in Nat \cup PublisherTurns \cup {None}
    /\ edges \in Nat
    /\ receiver \in {"up", "down"}

\* From frame j on the sign was shown, but for drops within the grace.
Bridged(h, j) == \A i \in j..Len(h) :
    \/ h[i].active
    \/ /\ GapGrace > 0
       /\ \E l \in j..i : /\ h[l].active
                         /\ \A q \in (l + 1)..i : ~h[q].active
                         /\ h[i].at - h[l].at <= GapGrace

ActiveFrames(h, j) == {i \in j..Len(h) : h[i].active}

\* The last frames of h show the sign for the activation delay, and often enough.
Shown(h) == \E j \in 1..Len(h) :
    /\ h[j].active
    /\ Bridged(h, j)
    /\ h[Len(h)].at - h[j].at >= ActivationDelay
    /\ Cardinality(ActiveFrames(h, j)) >= MinFrames

\* The last frames of h lack it for the release delay.
Dropped(h) == \E j \in 1..Len(h) :
    /\ \A i \in j..Len(h) : ~h[i].active
    /\ h[Len(h)].at - h[j].at >= ReleaseDelay

\* The last frames of h show it for the activation delay without a drop.
Steady(h) == \E j \in 1..Len(h) :
    /\ \A i \in j..Len(h) : h[i].active
    /\ h[Len(h)].at - h[j].at >= ActivationDelay
    /\ Len(h) - j + 1 >= MinFrames

InOrder(h) == \A i, k \in 1..Len(h) : i <= k => h[i].at <= h[k].at

\* The microphone is never opened by noise: whatever the frames, their order and their
\* timestamps, it opens on a gesture that was shown for the activation delay, on at least
\* min_activation_active_frames frames, with no drop longer than the grace.
OpenedByGesture == [][~gate.mic /\ gate'.mic => Shown(history')]_vars

\* It never closes on a flicker: only frames without the sign, for the release delay.
ClosedByRelease == [][gate.mic /\ ~gate'.mic => Dropped(history')]_vars

\* A gesture that is held opens the microphone, if its frames come in order.
HeldOpens == InOrder(history) /\ Steady(history) => gate.mic

\* A hand that is gone for the release delay closes it, if its frames come in order; the
\* one frame that opened it within the grace is excepted.
GoneCloses == [][gate.mic /\ gate'.mic /\ history' # history
                   => ~(InOrder(history') /\ Dropped(history'))]_vars

\* docs/state_authority.md, Turn Lifecycle: while the microphone is on every command
\* carries the turn id its start carried, the stop too, and while it is off none does.
TurnLifecycle ==
    /\ command.action = "stop" \/ controller.recording => command.turn = started
    /\ command.action = "none" /\ ~controller.recording => command.turn = None
=============================================================================
