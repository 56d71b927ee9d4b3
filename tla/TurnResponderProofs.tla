------------------------ MODULE TurnResponderProofs ------------------------
(***************************************************************************)
(* Theorems about TurnResponder and the processes it owns, for a child     *)
(* with any number of descendants: a run that is reported left no process  *)
(* and no handle behind, no signal goes to a stranger, and after a run     *)
(* whose end could not be proven no other one begins.                      *)
(***************************************************************************)
EXTENDS TurnResponder, TLAPS

-----------------------------------------------------------------------------
(* The invariant of a run *)

\* Before the child is there its tree is empty, and once the tree was waited for it is
\* empty again, for good, unless the cleanup failed.
Emptied ==
    /\ at \in {"idle", "popen", "job", "pipes", "attributes", "create"} => alive = {}
    /\ at \in {"finish", "close", "over"} /\ error # "cleanup" => alive = {}

\* On posix the child is reaped after the last signal, and its group id is given away only
\* after that.
Grouped ==
    /\ ~struck
    /\ recycled => reaped
    /\ reaped => platform = "posix" /\ at \in {"empty", "finish", "close", "over"}

\* What the caller holds at each place: with no failure of the cleanup, nothing that the
\* steps still to come do not give back, but for the pipes nobody lists.
Held ==
    /\ at \in {"idle", "popen", "job"} => open = {}
    /\ at \in {"idle", "popen", "job", "pipes"} => ~made
    /\ at = "pipes" => open \subseteq {"job"}
    /\ at \in {"attributes", "create"} => open \subseteq {"job", "pipes", "ends"}
    /\ at \in {"thread", "undo", "undo_wait", "undo_close", "undo_retry"} =>
         open \subseteq {"job", "pipes", "ends", "thread", "process"}
    /\ at = "ends" => open \subseteq {"job", "pipes", "ends", "process"}
    /\ at = "convert" => open \subseteq {"job", "pipes", "process"}
    /\ at \in {"start", "poll", "term"} => open \subseteq {"job", "process", "streams"}
    /\ at \in {"kill", "wait", "empty", "finish", "close"} /\ error # "cleanup" =>
         open \subseteq {"job", "process", "streams"} \cup (IF made THEN {} ELSE {"pipes"})
    /\ HandlesReturned

PInv == ProcessTypeOK /\ Emptied /\ Grouped /\ Held

LEMMA InitPInv == ProcessInit => PInv
<1> SUFFICES ASSUME ProcessInit PROVE PInv
  OBVIOUS
<1>1. ProcessTypeOK
  BY ProcessAssumption DEF ProcessInit, ProcessTypeOK, Place, Error
<1>2. Emptied /\ Grouped /\ Held
  BY DEF ProcessInit, Emptied, Grouped, Held, HandlesReturned
<1> QED
  BY <1>1, <1>2 DEF PInv

\* A run begins where the one before left nothing.
LEMMA BeginPInv == PInv /\ alive = {} /\ Begin => PInv'
<1> SUFFICES ASSUME PInv, alive = {}, Begin PROVE PInv'
  OBVIOUS
<1>1. ProcessTypeOK'
  BY DEF PInv, ProcessTypeOK, Begin, Place, Creating, Error
<1>2. Emptied' /\ Grouped' /\ Held'
  BY DEF PInv, Emptied, Grouped, Held, HandlesReturned, Begin
<1> QED
  BY <1>1, <1>2 DEF PInv

LEMMA CallerPInv == PInv /\ Caller => PInv'
<1> SUFFICES ASSUME PInv, Caller PROVE PInv'
  OBVIOUS
<1> USE DEF PInv, Emptied, Grouped, Held, HandlesReturned, tree, group
<1>1. CASE Popen
  <2>1. ProcessTypeOK'
    BY <1>1 DEF ProcessTypeOK, Place, Creating, Cleaning, Error, Handles, Popen, Leave
  <2>2. Emptied'
    BY <1>1 DEF Popen, Leave
  <2>3. Grouped'
    BY <1>1 DEF Popen, Leave
  <2>4. Held'
    BY <1>1 DEF Popen, Leave
  <2> QED
    BY <2>1, <2>2, <2>3, <2>4
<1>2. CASE CreateJob
  <2>1. ProcessTypeOK'
    BY <1>2 DEF ProcessTypeOK, Place, Creating, Cleaning, Error, Handles, CreateJob, Goto, Leave
  <2>2. Emptied'
    BY <1>2 DEF CreateJob, Goto, Leave
  <2>3. Grouped'
    BY <1>2 DEF CreateJob, Goto, Leave
  <2>4. Held'
    BY <1>2 DEF CreateJob, Goto, Leave
  <2> QED
    BY <2>1, <2>2, <2>3, <2>4
<1>3. CASE CreatePipes
  <2>1. ProcessTypeOK'
    BY <1>3 DEF ProcessTypeOK, Place, Creating, Cleaning, Error, Handles, CreatePipes, Goto
  <2>2. Emptied'
    BY <1>3 DEF CreatePipes, Goto
  <2>3. Grouped'
    BY <1>3 DEF CreatePipes, Goto
  <2>4. Held'
    BY <1>3 DEF CreatePipes, Goto
  <2> QED
    BY <2>1, <2>2, <2>3, <2>4
<1>4. CASE SetAttributes
  <2>1. ProcessTypeOK'
    BY <1>4 DEF ProcessTypeOK, Place, Creating, Cleaning, Error, Handles, SetAttributes, GiveBack,
      Goto
  <2>2. Emptied'
    BY <1>4 DEF SetAttributes, GiveBack, Goto
  <2>3. Grouped'
    BY <1>4 DEF SetAttributes, GiveBack, Goto
  <2>4. Held'
    BY <1>4 DEF SetAttributes, GiveBack, Goto
  <2> QED
    BY <2>1, <2>2, <2>3, <2>4
<1>5. CASE CreateProcess
  <2>1. ProcessTypeOK'
    BY <1>5 DEF ProcessTypeOK, Place, Creating, Cleaning, Error, Handles, CreateProcess, GiveBack,
      Goto
  <2>2. Emptied'
    BY <1>5 DEF CreateProcess, GiveBack, Goto
  <2>3. Grouped'
    BY <1>5 DEF CreateProcess, GiveBack, Goto
  <2>4. Held'
    BY <1>5 DEF CreateProcess, GiveBack, Goto
  <2> QED
    BY <2>1, <2>2, <2>3, <2>4
<1>6. CASE CloseThread
  <2>1. ProcessTypeOK'
    BY <1>6 DEF ProcessTypeOK, Place, Creating, Cleaning, Error, Handles, CloseThread, Goto, Leave
  <2>2. Emptied'
    BY <1>6 DEF CloseThread, Goto, Leave
  <2>3. Grouped'
    BY <1>6 DEF CloseThread, Goto, Leave
  <2>4. Held'
    BY <1>6 DEF CloseThread, Goto, Leave
  <2> QED
    BY <2>1, <2>2, <2>3, <2>4
<1>7. CASE CloseChildEnds
  <2>1. ProcessTypeOK'
    BY <1>7 DEF ProcessTypeOK, Place, Creating, Cleaning, Error, Handles, CloseChildEnds, Goto,
      Leave
  <2>2. Emptied'
    BY <1>7 DEF CloseChildEnds, Goto, Leave
  <2>3. Grouped'
    BY <1>7 DEF CloseChildEnds, Goto, Leave
  <2>4. Held'
    BY <1>7 DEF CloseChildEnds, Goto, Leave
  <2> QED
    BY <2>1, <2>2, <2>3, <2>4
<1>8. CASE Convert
  <2>1. ProcessTypeOK'
    BY <1>8 DEF ProcessTypeOK, Place, Creating, Cleaning, Error, Handles, Convert, Leave
  <2>2. Emptied'
    BY <1>8 DEF Convert, Leave
  <2>3. Grouped'
    BY <1>8 DEF Convert, Leave
  <2>4. Held'
    BY <1>8 DEF Convert, Leave
  <2> QED
    BY <2>1, <2>2, <2>3, <2>4
<1>9. CASE UndoTerminate
  <2>1. ProcessTypeOK'
    BY <1>9 DEF ProcessTypeOK, Place, Creating, Cleaning, Error, Handles, UndoTerminate, Goto
  <2>2. Emptied'
    BY <1>9 DEF UndoTerminate, Goto
  <2>3. Grouped'
    BY <1>9 DEF UndoTerminate, Goto
  <2>4. Held'
    BY <1>9 DEF UndoTerminate, Goto
  <2> QED
    BY <2>1, <2>2, <2>3, <2>4
<1>10. CASE UndoWait
  <2>1. ProcessTypeOK'
    BY <1>10 DEF ProcessTypeOK, Place, Creating, Cleaning, Error, Handles, UndoWait, Goto
  <2>2. Emptied'
    BY <1>10 DEF UndoWait, Goto
  <2>3. Grouped'
    BY <1>10 DEF UndoWait, Goto
  <2>4. Held'
    BY <1>10 DEF UndoWait, Goto
  <2> QED
    BY <2>1, <2>2, <2>3, <2>4
<1>11. CASE UndoClose
  <2>1. ProcessTypeOK'
    BY <1>11 DEF ProcessTypeOK, Place, Creating, Cleaning, Error, Handles, UndoClose, GiveBack
  <2>2. Emptied'
    BY <1>11 DEF UndoClose, GiveBack
  <2>3. Grouped'
    BY <1>11 DEF UndoClose, GiveBack
  <2>4. Held'
    BY <1>11 DEF UndoClose, GiveBack
  <2> QED
    BY <2>1, <2>2, <2>3, <2>4
<1>12. CASE UndoRetry
  <2>1. ProcessTypeOK'
    BY <1>12 DEF ProcessTypeOK, Place, Creating, Cleaning, Error, Handles, UndoRetry, GiveBack
  <2>2. Emptied'
    BY <1>12 DEF UndoRetry, GiveBack
  <2>3. Grouped'
    BY <1>12 DEF UndoRetry, GiveBack
  <2>4. Held'
    BY <1>12 DEF UndoRetry, GiveBack
  <2> QED
    BY <2>1, <2>2, <2>3, <2>4
<1>13. CASE StartStreams
  <2>1. ProcessTypeOK'
    BY <1>13 DEF ProcessTypeOK, Place, Creating, Cleaning, Error, Handles, StartStreams, Goto
  <2>2. Emptied'
    BY <1>13 DEF StartStreams, Goto
  <2>3. Grouped'
    BY <1>13 DEF StartStreams, Goto
  <2>4. Held'
    BY <1>13 DEF StartStreams, Goto
  <2> QED
    BY <2>1, <2>2, <2>3, <2>4
<1>14. CASE PollExited
  <2>1. ProcessTypeOK'
    BY <1>14 DEF ProcessTypeOK, Place, Creating, Cleaning, Error, Handles, PollExited, Goto
  <2>2. Emptied'
    BY <1>14 DEF PollExited, Goto
  <2>3. Grouped'
    BY <1>14 DEF PollExited, Goto
  <2>4. Held'
    BY <1>14 DEF PollExited, Goto
  <2> QED
    BY <2>1, <2>2, <2>3, <2>4
<1>15. CASE PollGivesUp
  <2>1. ProcessTypeOK'
    BY <1>15 DEF ProcessTypeOK, Place, Creating, Cleaning, Error, Handles, PollGivesUp
  <2>2. Emptied'
    BY <1>15 DEF PollGivesUp
  <2>3. Grouped'
    BY <1>15 DEF PollGivesUp
  <2>4. Held'
    BY <1>15 DEF PollGivesUp
  <2> QED
    BY <2>1, <2>2, <2>3, <2>4
<1>16. CASE Terminate
  <2>1. ProcessTypeOK'
    BY <1>16 DEF ProcessTypeOK, Place, Creating, Cleaning, Error, Handles, Terminate, Goto, Signal
  <2>2. Emptied'
    BY <1>16 DEF Terminate, Goto, Signal
  <2>3. Grouped'
    BY <1>16 DEF Terminate, Goto, Signal
  <2>4. Held'
    BY <1>16 DEF Terminate, Goto, Signal
  <2> QED
    BY <2>1, <2>2, <2>3, <2>4
<1>17. CASE Kill
  <2>1. ProcessTypeOK'
    BY <1>17 DEF ProcessTypeOK, Place, Creating, Cleaning, Error, Handles, Kill, Failed, Goto,
      Signal
  <2>2. Emptied'
    BY <1>17 DEF Kill, Failed, Goto, Signal
  <2>3. Grouped'
    <3>1. ~reaped /\ ~recycled /\ ~struck
      BY <1>17 DEF Kill
    <3>2. struck' = struck \/ struck' = (struck \/ recycled)
      BY <1>17, Zenon DEF Kill, Signal
    <3>3. UNCHANGED <<reaped, recycled>>
      BY <1>17 DEF Kill
    <3>4. ~struck'
      BY <3>1, <3>2, Zenon
    <3> QED
      BY <3>1, <3>3, <3>4
  <2>4. Held'
    BY <1>17 DEF Kill, Failed, Goto, Signal
  <2> QED
    BY <2>1, <2>2, <2>3, <2>4
<1>18. CASE Wait
  <2>1. ProcessTypeOK'
    BY <1>18 DEF ProcessTypeOK, Place, Creating, Cleaning, Error, Handles, Wait, Failed, Goto
  <2>2. Emptied'
    BY <1>18 DEF Wait, Failed, Goto
  <2>3. Grouped'
    <3>1. ~reaped /\ ~recycled /\ ~struck /\ UNCHANGED <<platform, recycled, struck>>
      BY <1>18 DEF Wait
    <3>2. UNCHANGED reaped \/ (at' = "empty" /\ reaped' = (platform = "posix"))
      BY <1>18, Zenon DEF Wait, Goto
    <3>3. reaped' => platform = "posix" /\ at' = "empty"
      BY <3>1, <3>2, Zenon
    <3> QED
      BY <3>1, <3>3
  <2>4. Held'
    BY <1>18 DEF Wait, Failed, Goto
  <2> QED
    BY <2>1, <2>2, <2>3, <2>4
<1>19. CASE WaitEmpty
  <2>1. ProcessTypeOK'
    BY <1>19 DEF ProcessTypeOK, Place, Creating, Cleaning, Error, Handles, WaitEmpty, Failed, Goto
  <2>2. Emptied'
    BY <1>19 DEF WaitEmpty, Failed, Goto
  <2>3. Grouped'
    BY <1>19 DEF WaitEmpty, Failed, Goto
  <2>4. Held'
    BY <1>19 DEF WaitEmpty, Failed, Goto
  <2> QED
    BY <2>1, <2>2, <2>3, <2>4
<1>20. CASE Finish
  <2>1. ProcessTypeOK'
    BY <1>20 DEF ProcessTypeOK, Place, Creating, Cleaning, Error, Handles, Finish, Failed, Goto
  <2>2. Emptied'
    BY <1>20 DEF Finish, Failed, Goto
  <2>3. Grouped'
    BY <1>20 DEF Finish, Failed, Goto
  <2>4. Held'
    BY <1>20 DEF Finish, Failed, Goto
  <2> QED
    BY <2>1, <2>2, <2>3, <2>4
<1>21. CASE CloseAll
  <2>1. ProcessTypeOK'
    BY <1>21 DEF ProcessTypeOK, Place, Creating, Cleaning, Error, Handles, CloseAll
  <2>2. Emptied'
    BY <1>21 DEF CloseAll
  <2>3. Grouped'
    BY <1>21 DEF CloseAll
  <2>4. Held'
    BY <1>21 DEF CloseAll
  <2> QED
    BY <2>1, <2>2, <2>3, <2>4
<1> QED
  BY <1>1, <1>2, <1>3, <1>4, <1>5, <1>6, <1>7, <1>8, <1>9, <1>10, <1>11, <1>12, <1>13, <1>14,
    <1>15, <1>16, <1>17, <1>18, <1>19, <1>20, <1>21 DEF Caller

LEMMA AroundPInv == PInv /\ Around => PInv'
<1> SUFFICES ASSUME PInv, Around PROVE PInv'
  OBVIOUS
<1> USE DEF PInv, Emptied, Grouped, Held, HandlesReturned
<1>1. ASSUME NEW k \in Kids, Fork(k) PROVE PInv'
  <2>1. ProcessTypeOK'
    BY <1>1 DEF ProcessTypeOK, Fork, caller, tree, group
  <2>2. Emptied' /\ Grouped' /\ Held'
    BY <1>1 DEF ProcessTypeOK, Fork, caller, tree, group
  <2> QED
    BY <2>1, <2>2
<1>2. ASSUME NEW p \in Kids \cup {Leader}, Exit(p) PROVE PInv'
  <2>1. ProcessTypeOK'
    BY <1>2 DEF ProcessTypeOK, Exit, caller, tree, group
  <2>2. Emptied' /\ Grouped' /\ Held'
    BY <1>2 DEF ProcessTypeOK, Exit, caller, tree, group
  <2> QED
    BY <2>1, <2>2
<1>3. ASSUME NEW t \in Threads, CaptureEnds(t) PROVE PInv'
  <2>1. ProcessTypeOK'
    BY <1>3 DEF ProcessTypeOK, CaptureEnds, caller, tree, group
  <2>2. Emptied' /\ Grouped' /\ Held'
    BY <1>3 DEF ProcessTypeOK, CaptureEnds, caller, tree, group
  <2> QED
    BY <2>1, <2>2
<1>4. CASE Recycle
  <2>1. ProcessTypeOK'
    BY <1>4 DEF ProcessTypeOK, Recycle, caller, tree, group
  <2>2. Emptied' /\ Grouped' /\ Held'
    BY <1>4 DEF ProcessTypeOK, Recycle, caller, tree, group
  <2> QED
    BY <2>1, <2>2
<1>5. CASE DeadlinePasses
  <2>1. ProcessTypeOK'
    BY <1>5 DEF ProcessTypeOK, DeadlinePasses, caller, tree, group
  <2>2. Emptied' /\ Grouped' /\ Held'
    BY <1>5 DEF ProcessTypeOK, DeadlinePasses, caller, tree, group
  <2> QED
    BY <2>1, <2>2
<1> QED
  BY <1>1, <1>2, <1>3, <1>4, <1>5 DEF Around

-----------------------------------------------------------------------------
(* The invariant of a turn *)

\* A turn that is not answered has proven of every run it made that it stopped its tree.
Proven ==
    /\ unproven => stage = "answered"
    /\ stage = "respond" => at = "idle" /\ started = 0
    /\ stage = "version" => started = 1

IInv == PInv /\ TypeOK /\ Proven

LEMMA InitIInv == Init => IInv
<1> SUFFICES ASSUME Init PROVE IInv
  OBVIOUS
<1>1. PInv
  BY InitPInv DEF Init
<1>2. TypeOK
  <2>1. ProcessTypeOK
    BY <1>1 DEF PInv
  <2>2. /\ primary \in {"none", "codex", "http"} /\ strict \in BOOLEAN /\ unproven \in BOOLEAN
        /\ stage = "respond" /\ answer = "none" /\ started = 0
    BY DEF Init
  <2> QED
    BY <2>1, <2>2 DEF TypeOK
<1>3. Proven
  BY DEF Init, Proven, ProcessInit
<1> QED
  BY <1>1, <1>2, <1>3 DEF IInv

\* _run leaves the invariant of the run alone, or begins a new one on an empty tree.
LEMMA RunIInv ==
  ASSUME IInv, NEW s \in {"version", "exec"}, Run(s), alive = {},
         s = "version" => started = 0, started \in {0, 1},
         UNCHANGED <<primary, strict>>, unproven' = unproven, ~unproven
  PROVE  IInv'
<1>1. CASE late
  <2>1. UNCHANGED <<pvars, started>> /\ stage' = "answered" /\ answer' = "deadline"
    BY <1>1 DEF Run, Answer
  <2>2. PInv'
    BY <2>1 DEF IInv, PInv, ProcessTypeOK, Emptied, Grouped, Held, HandlesReturned, pvars, caller,
                tree, group
  <2> QED
    BY <2>1, <2>2 DEF IInv, PInv, TypeOK, Proven
<1>2. CASE ~late
  <2>1. Begin /\ stage' = s /\ started' = started + 1 /\ UNCHANGED answer
    BY <1>2 DEF Run
  <2>2. PInv'
    BY <2>1, BeginPInv DEF IInv
  <2> QED
    BY <2>1, <2>2 DEF IInv, PInv, TypeOK, Proven
<1> QED
  BY <1>1, <1>2

LEMMA StepIInv == IInv /\ [Next]_vars => IInv'
<1> SUFFICES ASSUME IInv, [Next]_vars PROVE IInv'
  OBVIOUS
<1>1. ASSUME UNCHANGED pvars PROVE PInv' /\ ProcessTypeOK'
  BY <1>1 DEF IInv, PInv, ProcessTypeOK, Emptied, Grouped, Held, HandlesReturned, pvars, caller,
              tree, group
<1>2. CASE UNCHANGED vars
  BY <1>1, <1>2 DEF IInv, TypeOK, Proven, vars, rvars, pvars, caller
<1>3. CASE (Caller \/ Around) /\ UNCHANGED rvars
  <2>1. PInv'
    BY <1>3, CallerPInv, AroundPInv DEF IInv
  <2>2. at = "idle" => at' = "idle"
    BY <1>3 DEF Caller, Around, Popen, CreateJob, CreatePipes, SetAttributes, CreateProcess,
          CloseThread, CloseChildEnds, Convert, UndoTerminate, UndoWait, UndoClose, UndoRetry,
          StartStreams, PollExited, PollGivesUp, Terminate, Kill, Wait, WaitEmpty, Finish,
          CloseAll, Fork, Exit, CaptureEnds, Recycle, DeadlinePasses, caller
  <2> QED
    BY <1>3, <2>1, <2>2 DEF IInv, PInv, TypeOK, Proven, rvars
<1>4. CASE NoPrimary
  BY <1>1, <1>4 DEF IInv, TypeOK, Proven, NoPrimary, Answer
<1>5. CASE AskVersion
  BY <1>5, RunIInv DEF AskVersion, IInv, PInv, Emptied, Proven
<1>6. CASE AskEndpoint
  BY <1>1, <1>6 DEF IInv, TypeOK, Proven, AskEndpoint, Answer
<1>7. CASE EndpointAnswers
  BY <1>1, <1>7 DEF IInv, TypeOK, Proven, EndpointAnswers, Answer, FallBack
<1>8. CASE VersionEnds
  <2>1. ~unproven /\ started = 1 /\ UNCHANGED <<primary, strict>>
    BY <1>8 DEF IInv, Proven, VersionEnds
  <2>2. unproven' \in BOOLEAN /\ (error # "cleanup" => ~unproven')
    BY <1>8, <2>1 DEF VersionEnds
  <2>3. CASE Run("exec") /\ error \in {"none", "oserror", "timeout"}
    <3>1. alive = {}
      BY <1>8, <2>3 DEF IInv, PInv, Emptied, VersionEnds
    <3>2. unproven' = unproven
      BY <2>1, <2>2, <2>3 DEF IInv, TypeOK
    <3> QED
      BY <2>1, <2>3, <3>1, <3>2, RunIInv
  <2>4. CASE ~(Run("exec") /\ error \in {"none", "oserror", "timeout"})
    <3>1. UNCHANGED <<pvars, started>> /\ stage' = "answered"
          /\ answer' \in {"deadline", "raised", "cleanup", "fallback"}
      BY <1>8, <2>4 DEF VersionEnds, Raised, FallBack, Answer
    <3> QED
      BY <1>1, <2>1, <2>2, <3>1 DEF IInv, TypeOK, Proven
  <2> QED
    BY <2>3, <2>4
<1>9. CASE ExecEnds
  <2>1. /\ UNCHANGED <<pvars, primary, strict, started>> /\ stage' = "answered"
        /\ answer' \in {"deadline", "raised", "cleanup", "fallback", "llm"}
    BY <1>9 DEF ExecEnds, Raised, FallBack, Answer
  <2>2. unproven' \in BOOLEAN
    BY <1>9 DEF ExecEnds
  <2> QED
    BY <1>1, <2>1, <2>2 DEF IInv, TypeOK, Proven
<1> QED
  BY <1>2, <1>3, <1>4, <1>5, <1>6, <1>7, <1>8, <1>9 DEF Next

LEMMA Invariance == Spec => []IInv
BY InitIInv, StepIInv, PTL DEF Spec

-----------------------------------------------------------------------------
(* What every behaviour keeps *)

\* The places, handles, streams and processes of run_owned_process, and the answers of
\* respond, are of their kinds; a killed process is one of the tree.
THEOREM TypeCorrect == Spec => []TypeOK
BY Invariance, PTL DEF IInv

\* A run that is reported, but for one whose cleanup failed, has left no process of its tree
\* behind, however many were forked, and whatever hung or failed on the way.
THEOREM NoneLeftBehind == Spec => []ReportsEmptyTree
<1>1. IInv => ReportsEmptyTree
  BY DEF IInv, PInv, Emptied, ReportsEmptyTree
<1> QED
  BY <1>1, Invariance, PTL

\* A signal only ever goes to the group of the child, never to one that was given its id.
THEOREM NoStrangerSignalled == Spec => []OnlyOwnSignalled
<1>1. IInv => OnlyOwnSignalled
  BY DEF IInv, PInv, Grouped, OnlyOwnSignalled
<1> QED
  BY <1>1, Invariance, PTL

\* A run reported without an error of the cleanup has given back every handle and stream,
\* but for the pipes made before one that could not be made.
THEOREM NothingHeld == Spec => []HandlesReturned
<1>1. IInv => HandlesReturned
  BY DEF IInv, PInv, Held
<1> QED
  BY <1>1, Invariance, PTL

\* Once a run could not be proven to have stopped its tree, the turn starts no other process.
THEOREM StopsAfterUnproven == Spec => NoRunAfterUnproven
<1>1. IInv /\ [Next]_vars => [unproven' => started' = started]_vars
  <2> SUFFICES ASSUME IInv, Next, unproven' PROVE UNCHANGED started
    BY DEF vars, rvars
  <2>1. CASE AskVersion
    BY <2>1 DEF IInv, Proven, AskVersion
  <2>2. CASE VersionEnds
    <3>1. ~unproven
      BY <2>2 DEF IInv, Proven, VersionEnds
    <3>2. error = "cleanup"
      BY <2>2, <3>1 DEF VersionEnds
    <3> QED
      BY <2>2, <3>2 DEF VersionEnds
  <2> QED
    BY <2>1, <2>2 DEF Next, rvars, NoPrimary, AskEndpoint, EndpointAnswers, ExecEnds
<1> QED
  BY <1>1, Invariance, PTL DEF Spec, NoRunAfterUnproven
=============================================================================
