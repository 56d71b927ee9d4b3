-------------------------- MODULE GestureThreads --------------------------
(***************************************************************************)
(* The HTTP gesture receiver: ThreadingHTTPServer gives every POST a       *)
(* thread, and all of them share one gate and one turn controller, which   *)
(* have no lock.  A step here is one access to a shared attribute, in the  *)
(* order of the source: a thread may lose the interpreter between any two. *)
(* GestureRules has the functions these statements make up.                *)
(*                                                                         *)
(* The receiver builds its gate without a gap grace (WithoutGrace), so     *)
(* that a frame without the sign always clears the activation.             *)
(*                                                                         *)
(* Initial states, steps and specification have names of their own, beside *)
(* those of GestureGate: GestureGateProofs extends both modules.           *)
(*                                                                         *)
(* A definition named ...Bug is the one after it with a plausible mistake  *)
(* in it; no specification uses it.                                        *)
(***************************************************************************)
EXTENDS GestureRules, Sequences

CONSTANTS
    Threads, \* handlers that may run at once
    MaxPosts \* bound: requests that reach the gate

ASSUME PostsAssumption == MaxPosts \in Nat

VARIABLES
    armed,      \* what ai-talk-core was told last
    pc,         \* the statement each thread is at
    frame,      \* the frame it handles
    read,       \* the count it has read
    told,       \* mic_enabled of its decision
    own,        \* command_turn_id
    action,     \* its command
    alone,      \* no other thread was in the gate or the controller with it
    before,     \* what it found there when it came
    posts,      \* requests so far
    starts      \* turn ids of the start commands, in the order they were answered

shared == <<gate, controller>>
local == <<read, told, own, action>>
request == <<frame, alone, before, posts>>
outside == <<armed, starts>>
threadsVars == <<shared, outside, pc, local, request>>

\* What the statements below are for: the gate of the HTTP receiver has no gap grace.
WithoutGrace == GapGrace = 0

NoFrame == CHOOSE f \in Frame : TRUE
Fresh == [gate |-> Closed, controller |-> Idle]

ThreadsInit ==
    /\ gate = Closed
    /\ controller = Idle
    /\ armed = FALSE
    /\ pc = [h \in Threads |-> "idle"]
    /\ frame = [h \in Threads |-> NoFrame]
    /\ read = [h \in Threads |-> 0]
    /\ told = [h \in Threads |-> FALSE]
    /\ own = [h \in Threads |-> None]
    /\ action = [h \in Threads |-> "none"]
    /\ alone = [h \in Threads |-> FALSE]
    /\ before = [h \in Threads |-> Fresh]
    /\ posts = 0
    /\ starts = <<>>

Step(h, from, to) == pc[h] = from /\ pc' = [pc EXCEPT ![h] = to]

\* One access of thread h: a branch on a shared value, or an assignment.
Branch(h, from, to) ==
    Step(h, from, to) /\ UNCHANGED <<shared, outside, local, request>>
Gate_(h, from, to, g) ==
    Step(h, from, to) /\ gate' = g /\ UNCHANGED <<controller, outside, local, request>>
Local(h, from, to) ==
    Step(h, from, to) /\ UNCHANGED <<shared, outside, request>>

\* A POST with a frame that passed validation.
Receive(h, f) ==
    /\ posts < MaxPosts
    /\ posts' = posts + 1
    /\ Step(h, "idle", IF f.active THEN "forget" ELSE "clear")
    /\ frame' = [frame EXCEPT ![h] = f]
    /\ alone' = [g \in Threads |-> g = h /\ \A k \in Threads : pc[k] = "idle"]
    /\ before' = [g \in Threads |->
                    IF alone'[g] THEN [gate |-> gate, controller |-> controller] ELSE Fresh]
    /\ UNCHANGED <<shared, outside, local>>

-----------------------------------------------------------------------------
(* GestureInputGate.update: a frame that shows the sign *)

ForgetInactive(h) == Gate_(h, "forget", "stamp", [gate EXCEPT !.inactiveSince = None])
StampActive(h) == Gate_(h, "stamp", "first", [gate EXCEPT !.lastActiveAt = frame[h].at])
LookActive(h) == Branch(h, "first", IF gate.activeSince = None THEN "begin" ELSE "read")
BeginActivation(h) == Gate_(h, "begin", "zero", [gate EXCEPT !.activeSince = frame[h].at])
ZeroCount(h) == Gate_(h, "zero", "read", [gate EXCEPT !.count = 0])

\* count += 1 is a read and a write.
ReadCount(h) ==
    /\ Local(h, "read", "add")
    /\ read' = [read EXCEPT ![h] = gate.count]
    /\ UNCHANGED <<told, own, action>>

AddCount(h) == Gate_(h, "add", "is_off", [gate EXCEPT !.count = read[h] + 1])
LookOff(h) == Branch(h, "is_off", IF gate.mic THEN "decide" ELSE "elapsed")

Elapsed(h) ==
    /\ gate.activeSince # None
    /\ Branch(h, "elapsed",
              IF frame[h].at - gate.activeSince >= ActivationDelay THEN "enough" ELSE "decide")

\* Another thread has cleared it since: a number minus None is a TypeError, which the
\* handler answers 400 like a malformed frame.
ElapsedOfNone(h) == gate.activeSince = None /\ Branch(h, "elapsed", "rejected")

Enough(h) == Branch(h, "enough", IF gate.count >= MinFrames THEN "open" ELSE "decide")
Open(h) == Gate_(h, "open", "decide", [gate EXCEPT !.mic = TRUE])

-----------------------------------------------------------------------------
(* GestureInputGate.update: a frame without the sign *)

ClearActive(h) == Gate_(h, "clear", "unstamp", [gate EXCEPT !.activeSince = None])
Unstamp(h) == Gate_(h, "unstamp", "uncount", [gate EXCEPT !.lastActiveAt = None])

Uncount(h) == Gate_(h, "uncount", "absent", [gate EXCEPT !.count = 0])
LookInactive(h) == Branch(h, "absent", IF gate.inactiveSince = None THEN "lost" ELSE "is_on")
BeginRelease(h) == Gate_(h, "lost", "is_on", [gate EXCEPT !.inactiveSince = frame[h].at])
LookOn(h) == Branch(h, "is_on", IF gate.mic THEN "gone" ELSE "decide")

Gone(h) ==
    /\ gate.inactiveSince # None
    /\ Branch(h, "gone",
              IF frame[h].at - gate.inactiveSince >= ReleaseDelay THEN "close" ELSE "decide")

GoneOfNone(h) == gate.inactiveSince = None /\ Branch(h, "gone", "rejected")

Close(h) == Gate_(h, "close", "decide", [gate EXCEPT !.mic = FALSE])

-----------------------------------------------------------------------------
(* The decision, and VoiceTurnController.update *)

\* The decision holds what the microphone is by now, and so does the voice state.
Decide(h) ==
    /\ Local(h, "decide", "carry")
    /\ told' = [told EXCEPT ![h] = gate.mic]
    /\ UNCHANGED <<read, own, action>>

Carry(h) ==
    /\ Local(h, "carry", "compare")
    /\ own' = [own EXCEPT ![h] = controller.turn]
    /\ action' = [action EXCEPT ![h] = "none"]
    /\ UNCHANGED <<read, told>>

Compare(h) == Branch(h, "compare", CASE Action(controller, told[h]) = "start" -> "record"
                                     [] Action(controller, told[h]) = "stop" -> "stop"
                                     [] Action(controller, told[h]) = "none" -> "send")

Record(h) ==
    /\ Step(h, "record", "fresh")
    /\ controller' = [controller EXCEPT !.recording = TRUE]
    /\ action' = [action EXCEPT ![h] = "start"]
    /\ UNCHANGED <<gate, outside, read, told, own, request>>

FreshTurn(h) ==
    /\ Step(h, "fresh", "take")
    /\ controller' = [controller EXCEPT !.turn = controller.issued + 1, !.issued = @ + 1]
    /\ UNCHANGED <<gate, outside, local, request>>

TakeTurn(h) ==
    /\ Local(h, "take", "send")
    /\ own' = [own EXCEPT ![h] = controller.turn]
    /\ UNCHANGED <<read, told, action>>

StopRecording(h) ==
    /\ Step(h, "stop", "give")
    /\ controller' = [controller EXCEPT !.recording = FALSE]
    /\ action' = [action EXCEPT ![h] = "stop"]
    /\ UNCHANGED <<gate, outside, read, told, own, request>>

GiveTurn(h) ==
    /\ Local(h, "give", "release")
    /\ own' = [own EXCEPT ![h] = controller.turn]
    /\ UNCHANGED <<read, told, action>>

ForgetTurnKeptBug(h) == Branch(h, "release", "send")

ForgetTurn(h) ==
    /\ Step(h, "release", "send")
    /\ controller' = [controller EXCEPT !.turn = None]
    /\ UNCHANGED <<gate, outside, local, request>>

-----------------------------------------------------------------------------
(* The answer *)

\* The thread ends and takes its variables with it.
Done(h, from) ==
    /\ Step(h, from, "idle")
    /\ frame' = [frame EXCEPT ![h] = NoFrame]
    /\ read' = [read EXCEPT ![h] = 0]
    /\ told' = [told EXCEPT ![h] = FALSE]
    /\ own' = [own EXCEPT ![h] = None]
    /\ action' = [action EXCEPT ![h] = "none"]
    /\ alone' = [alone EXCEPT ![h] = FALSE]
    /\ before' = [before EXCEPT ![h] = Fresh]
    /\ UNCHANGED <<shared, posts>>

\* The voice state goes to ai-talk-core, if it answers, and the command to the client.
Answer(h) ==
    /\ Done(h, "send")
    /\ \/ /\ armed' = told[h]
          /\ starts' = IF action[h] = "start" THEN Append(starts, own[h]) ELSE starts
       \/ UNCHANGED outside

Reject(h) == Done(h, "rejected") /\ UNCHANGED outside

Statement(h) ==
    \/ ForgetInactive(h) \/ StampActive(h) \/ LookActive(h) \/ BeginActivation(h) \/ ZeroCount(h)
    \/ ReadCount(h) \/ AddCount(h) \/ LookOff(h) \/ Elapsed(h) \/ ElapsedOfNone(h) \/ Enough(h)
    \/ Open(h) \/ ClearActive(h) \/ Unstamp(h) \/ Uncount(h) \/ LookInactive(h) \/ BeginRelease(h)
    \/ LookOn(h) \/ Gone(h) \/ GoneOfNone(h) \/ Close(h) \/ Decide(h) \/ Carry(h) \/ Compare(h)
    \/ Record(h) \/ FreshTurn(h) \/ TakeTurn(h) \/ StopRecording(h) \/ GiveTurn(h) \/ ForgetTurn(h)
    \/ Answer(h) \/ Reject(h)

ThreadsNext == \E h \in Threads : Statement(h) \/ \E f \in Frame : Receive(h, f)

ThreadsSpec == ThreadsInit /\ [][ThreadsNext]_threadsVars

-----------------------------------------------------------------------------
(* What holds, and what does not *)

\* Whatever races went before, a request that runs alone is not refused, and leaves gate,
\* controller and command as the two rules say: a race spoils no later request.
AloneIsAtomic == \A h \in Threads : alone[h] =>
    /\ pc[h] # "rejected"
    /\ pc[h] = "send" =>
          LET g == After(before[h].gate, frame[h])
              c == before[h].controller
          IN  /\ gate = g
              /\ told[h] = g.mic
              /\ controller = Controlled(c, g.mic)
              /\ action[h] = Action(c, g.mic)
              /\ own[h] = Carried(c, g.mic)

\* docs/state_authority.md, Turn Lifecycle: every start_recording carries a new turn id.
NewTurnPerStart ==
    /\ \A i \in 1..Len(starts) : starts[i] # None
    /\ \A i, j \in 1..Len(starts) : starts[i] = starts[j] => i = j
=============================================================================
