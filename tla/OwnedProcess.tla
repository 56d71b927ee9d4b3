--------------------------- MODULE OwnedProcess ---------------------------
(***************************************************************************)
(* run_owned_process of the thought-core service: one child, the tree it   *)
(* grows, and the calling thread that must have the tree empty before it   *)
(* reports.  On "posix" the child leads a process group and is reaped only *)
(* after the last signal; on "nt" it is born inside a private job object.  *)
(*                                                                         *)
(* The processes of the tree, the operating system and the clock interleave*)
(* with the calling thread.  A wait may time out at any moment, and a call *)
(* of the Windows API may fail; what a call does when tried twice is one   *)
(* step.  A descendant that leaves the group for a session of its own is   *)
(* outside the guarantee of the code and outside this module.              *)
(*                                                                         *)
(* A definition named ...Bug is the one after it with a plausible mistake  *)
(* in it; no specification uses it.                                        *)
(***************************************************************************)
EXTENDS FiniteSets

CONSTANTS
    Leader,    \* the child that is started
    Kids,      \* bound: descendants it may fork
    Platforms  \* os.name of the instances

ASSUME ProcessAssumption ==
    /\ Leader \notin Kids
    /\ Platforms \subseteq {"posix", "nt"}

Threads == {"stdin", "stdout", "stderr"}
Handles == {"job", "pipes", "ends", "thread", "process", "streams"}
Creating == {"job", "pipes", "attributes", "create", "thread", "ends", "convert",
             "undo", "undo_wait", "undo_close", "undo_retry"}
Cleaning == {"term", "kill", "wait", "empty", "finish", "close"}
Place == {"idle", "popen", "start", "poll", "over"} \cup Creating \cup Cleaning
Error == {"none", "oserror", "thread", "timeout", "deadline", "cleanup"}

VARIABLES
    platform,  \* os.name
    at,        \* where the calling thread is
    error,     \* the exception it will leave with
    made,      \* it was handed a process and its streams
    again,     \* nt: in the second cleanup, the one of the except branch
    alive,     \* processes of the tree
    doomed,    \* those a kill has reached
    spent,     \* descendants there have been
    reaped,    \* posix: the exit status of the child was collected
    recycled,  \* posix: its process group id names somebody else's group
    struck,    \* posix: a signal went to that group
    open,      \* handles and streams the caller has not given back
    capturing, \* threads that feed or drain the pipes
    late       \* the deadline of the turn has passed

tree == <<alive, doomed, spent>>
group == <<reaped, recycled, struck>>
caller == <<at, error, made, again>>
pvars == <<platform, caller, tree, group, open, capturing, late>>

ProcessInit ==
    /\ platform \in Platforms
    /\ at = "idle"
    /\ error = "none"
    /\ made = FALSE /\ again = FALSE
    /\ alive = {} /\ doomed = {} /\ spent = {}
    /\ reaped = FALSE /\ recycled = FALSE /\ struck = FALSE
    /\ open = {}
    /\ capturing = {}
    /\ late = FALSE

Goto(place) == at' = place /\ UNCHANGED <<error, made, again>>
Leave(place, err) == at' = place /\ error' = err /\ UNCHANGED <<made, again>>

-----------------------------------------------------------------------------
(* The tree, the operating system and the clock *)

Fork(k) ==
    /\ alive \ doomed # {} /\ k \notin spent
    /\ alive' = alive \cup {k}
    /\ spent' = spent \cup {k}
    /\ UNCHANGED <<platform, caller, doomed, group, open, capturing, late>>

Exit(p) ==
    /\ p \in alive
    /\ alive' = alive \ {p}
    /\ doomed' = doomed \ {p}
    /\ UNCHANGED <<platform, caller, spent, group, open, capturing, late>>

\* The id of a group nobody is in, and whose leader was reaped, may be given away.
Recycle ==
    /\ platform = "posix"
    /\ reaped /\ alive = {} /\ ~recycled
    /\ recycled' = TRUE
    /\ UNCHANGED <<platform, caller, tree, reaped, struck, open, capturing, late>>

\* _write and _read: the pipe was closed at the other end, or all was written.
CaptureEnds(t) ==
    /\ t \in capturing /\ "ends" \notin open
    /\ capturing' = capturing \ {t}
    /\ UNCHANGED <<platform, caller, tree, group, open, late>>

DeadlinePasses ==
    /\ ~late
    /\ late' = TRUE
    /\ UNCHANGED <<platform, caller, tree, group, open, capturing>>

-----------------------------------------------------------------------------
(* Starting the child *)

\* A run of its own: nothing is left of the tree before it, or the caller would not be here.
Begin ==
    /\ at' = IF platform = "nt" THEN "job" ELSE "popen"
    /\ error' = "none" /\ made' = FALSE /\ again' = FALSE
    /\ reaped' = FALSE /\ recycled' = FALSE
    /\ spent' = {} /\ open' = {}
    /\ UNCHANGED <<platform, alive, doomed, struck, capturing, late>>

Popen ==
    /\ at = "popen"
    /\ \/ /\ alive' = {Leader} /\ open' = {"streams"}
          /\ at' = "start" /\ made' = TRUE
          /\ UNCHANGED <<error, again>>
       \/ Leave("over", "oserror") /\ UNCHANGED <<alive, open, made, again>>
    /\ UNCHANGED <<platform, doomed, spent, group, capturing, late>>

\* _WindowsJobObject: a job that cannot be set up is closed before the error is raised.
CreateJob ==
    /\ at = "job"
    /\ \/ open' = {"job"} /\ Goto("pipes")
       \/ UNCHANGED open /\ Leave("over", "oserror")
       \/ open' = {"job"} /\ Leave("over", "cleanup")
    /\ UNCHANGED <<platform, tree, group, capturing, late>>

\* The list of handles to close is filled after the third pipe, so the pipes before the
\* one that fails are nobody's.
CreatePipes ==
    /\ at = "pipes"
    /\ \/ open' = open \cup {"pipes", "ends"} /\ Goto("attributes")
       \/ /\ open' \in {open, open \cup {"pipes"}}
          /\ error' \in {"oserror", "cleanup"}
          /\ at' = "kill" /\ again' = TRUE /\ UNCHANGED made
    /\ UNCHANGED <<platform, tree, group, capturing, late>>

\* The finally of _create_windows_process: handles that will not close are an error of their own.
GiveBack(lent, e) ==
    \E kept \in SUBSET (open \cap lent) :
        /\ open' = (open \ lent) \cup kept
        /\ error' = IF kept = {} THEN e ELSE "cleanup"
        /\ at' = "kill" /\ again' = TRUE
        /\ UNCHANGED made

SetAttributes ==
    /\ at = "attributes"
    /\ \/ Goto("create") /\ UNCHANGED open
       \/ GiveBack({"pipes", "ends"}, "oserror")
    /\ UNCHANGED <<platform, tree, group, capturing, late>>

\* CreateProcessW: the child is in the job from its first instruction on.
CreateProcess ==
    /\ at = "create"
    /\ \/ /\ alive' = {Leader}
          /\ open' = open \cup {"thread", "process"}
          /\ Goto("thread")
       \/ GiveBack({"pipes", "ends"}, "oserror") /\ UNCHANGED alive
    /\ UNCHANGED <<platform, doomed, spent, group, capturing, late>>

CloseThread ==
    /\ at = "thread"
    /\ \/ open' = open \ {"thread"} /\ Goto("ends")
       \/ UNCHANGED open /\ Leave("undo", "cleanup")
    /\ UNCHANGED <<platform, tree, group, capturing, late>>

CloseChildEnds ==
    /\ at = "ends"
    /\ \/ open' = open \ {"ends"} /\ Goto("convert")
       \/ UNCHANGED open /\ Leave("undo", "cleanup")
    /\ UNCHANGED <<platform, tree, group, capturing, late>>

\* _windows_handle_stream for each of the three ends the caller keeps.
Convert ==
    /\ at = "convert"
    /\ \/ open' = (open \ {"pipes"}) \cup {"streams"} /\ at' = "start" /\ made' = TRUE
          /\ UNCHANGED <<error, again>>
       \/ UNCHANGED open /\ Leave("undo", "oserror")
    /\ UNCHANGED <<platform, tree, group, capturing, late>>

\* stop_created_process: the job is terminated, and the child waited for.
UndoTerminate ==
    /\ at = "undo"
    /\ \/ doomed' = alive /\ Goto("undo_wait")
       \/ UNCHANGED doomed /\ Goto("undo_retry")
    /\ UNCHANGED <<platform, alive, spent, group, open, capturing, late>>

UndoWait ==
    /\ at = "undo_wait"
    /\ \/ Leader \notin alive /\ Goto("undo_close")
       \/ Goto("undo_retry")
    /\ UNCHANGED <<platform, tree, group, open, capturing, late>>

UndoClose ==
    /\ at = "undo_close"
    /\ GiveBack({"pipes", "ends", "thread", "process"}, error)
    /\ UNCHANGED <<platform, tree, group, capturing, late>>

\* The second round of _run_cleanup_actions.  The first one closed the handle of the child
\* after it failed to stop it, so there is nothing left to wait on, unless that failed too.
UndoRetry ==
    /\ at = "undo_retry"
    /\ \/ GiveBack({"pipes", "ends", "thread", "process"}, "cleanup") /\ UNCHANGED doomed
       \/ /\ Leader \notin alive
          /\ GiveBack({"pipes", "ends", "thread", "process"}, error)
          /\ doomed' = alive
    /\ UNCHANGED <<platform, alive, spent, group, capturing, late>>

-----------------------------------------------------------------------------
(* Watching it *)

StartStreams ==
    /\ at = "start"
    /\ \/ capturing' = Threads /\ Goto("poll")
       \/ \E begun \in SUBSET Threads :
            /\ begun # Threads
            /\ capturing' = begun
            /\ error' = "thread"
            /\ IF platform = "nt" THEN at' = "kill" /\ again' = TRUE
               ELSE at' = "term" /\ UNCHANGED again
            /\ UNCHANGED made
    /\ UNCHANGED <<platform, tree, group, open, late>>

\* The child has exited: nobody reaps it here (WNOWAIT).
PollExitedReapsBug ==
    /\ at = "poll" /\ Leader \notin alive
    /\ Goto("kill")
    /\ reaped' = TRUE
    /\ UNCHANGED <<platform, tree, recycled, struck, open, capturing, late>>

PollExited ==
    /\ at = "poll" /\ Leader \notin alive
    /\ Goto("kill")
    /\ UNCHANGED <<platform, tree, group, open, capturing, late>>

\* active_check raises, the time is up, or the state of the child cannot be read.
PollGivesUp ==
    /\ at = "poll"
    /\ \/ late /\ error' = "deadline"
       \/ error' = "timeout"
       \/ platform = "nt" /\ error' = "cleanup"
       \/ platform = "posix" /\ error' = "oserror"
    /\ at' = IF platform = "posix" THEN "term" ELSE "kill"
    /\ UNCHANGED <<platform, made, again, tree, group, open, capturing, late>>

-----------------------------------------------------------------------------
(* Having the tree empty *)

Signal == struck' = (struck \/ recycled)

Terminate ==
    /\ at = "term"
    /\ Signal
    /\ Goto("kill")
    /\ UNCHANGED <<platform, tree, reaped, recycled, open, capturing, late>>

\* A step of the cleanup failed: on nt it is all tried once more before the caller gives up.
Failed ==
    /\ error' = "cleanup"
    /\ UNCHANGED made
    /\ IF platform = "nt" /\ ~again
       THEN at' = "kill" /\ again' = TRUE
       ELSE at' = "close" /\ UNCHANGED again

\* killpg(SIGKILL), or TerminateJobObject.
Kill ==
    /\ at = "kill"
    /\ \/ /\ doomed' = alive
          /\ Goto("wait")
          /\ IF platform = "posix" THEN Signal ELSE UNCHANGED struck
       \/ platform = "nt" /\ Failed /\ UNCHANGED <<doomed, struck>>
    /\ UNCHANGED <<platform, alive, spent, reaped, recycled, open, capturing, late>>

\* process.wait: on posix it collects the exit status.
WaitForeverBug ==
    /\ at = "wait"
    /\ Leader \notin alive /\ Goto("empty") /\ reaped' = (made /\ platform = "posix")
    /\ UNCHANGED <<platform, tree, recycled, struck, open, capturing, late>>

Wait ==
    /\ at = "wait"
    /\ \/ /\ Leader \notin alive \/ ~made
          /\ Goto("empty")
          /\ reaped' = (platform = "posix")
       \/ made /\ Failed /\ UNCHANGED reaped
    /\ UNCHANGED <<platform, tree, recycled, struck, open, capturing, late>>

\* wait_empty: on posix no process answers to the group; on nt the job counts none.
WaitEmptyBug ==
    /\ at = "empty"
    /\ Leader \notin alive
    /\ Goto("finish")
    /\ UNCHANGED <<platform, tree, group, open, capturing, late>>

WaitEmpty ==
    /\ at = "empty"
    /\ \/ alive = {} /\ ~recycled /\ Goto("finish")
       \/ Failed
    /\ UNCHANGED <<platform, tree, group, open, capturing, late>>

\* streams.finish joins the threads that were started; returncode reads the exit code (nt).
Finish ==
    /\ at = "finish"
    /\ \/ capturing = {} /\ Goto("close") /\ UNCHANGED open
       \/ capturing # {} /\ Failed /\ open' = open \ {"streams"}
       \/ platform = "nt" /\ ~again /\ Failed /\ UNCHANGED open
    /\ UNCHANGED <<platform, tree, group, capturing, late>>

\* The finally: streams, process and job are closed whatever happened, and closing the
\* job kills what is left in it.
CloseJobOnlyBug ==
    /\ at = "close"
    /\ open' = IF error = "none" THEN open \ {"streams", "process", "job"}
               ELSE open \ {"streams", "job"}
    /\ doomed' = IF platform = "nt" THEN alive ELSE doomed
    /\ at' = "over" /\ UNCHANGED <<error, made, again>>
    /\ UNCHANGED <<platform, alive, spent, group, capturing, late>>

CloseAll ==
    /\ at = "close"
    /\ \E kept \in SUBSET (open \cap {"process", "job"}) :
        /\ open' = (open \ {"streams", "process", "job"}) \cup kept
        /\ error' = IF kept = {} THEN error ELSE "cleanup"
        /\ doomed' = IF platform = "nt" /\ "job" \notin kept THEN alive ELSE doomed
    /\ at' = "over" /\ UNCHANGED <<made, again>>
    /\ UNCHANGED <<platform, alive, spent, group, capturing, late>>

Caller ==
    \/ Popen \/ CreateJob \/ CreatePipes \/ SetAttributes \/ CreateProcess
    \/ CloseThread \/ CloseChildEnds \/ Convert
    \/ UndoTerminate \/ UndoWait \/ UndoClose \/ UndoRetry
    \/ StartStreams \/ PollExited \/ PollGivesUp
    \/ Terminate \/ Kill \/ Wait \/ WaitEmpty \/ Finish \/ CloseAll

Around ==
    \/ \E k \in Kids : Fork(k)
    \/ \E p \in Kids \cup {Leader} : Exit(p)
    \/ \E t \in Threads : CaptureEnds(t)
    \/ Recycle
    \/ DeadlinePasses

-----------------------------------------------------------------------------

ProcessTypeOK ==
    /\ platform \in {"posix", "nt"}
    /\ at \in Place
    /\ error \in Error
    /\ {made, again, reaped, recycled, struck, late} \subseteq BOOLEAN
    /\ alive \subseteq Kids \cup {Leader} /\ doomed \subseteq alive
    /\ spent \subseteq Kids
    /\ open \subseteq Handles /\ capturing \subseteq Threads

\* A run that is reported, with a result or with an error that is not the error of the
\* cleanup, has left no process of its tree behind ("report success only after its owned
\* tree is empty"), whatever forked, hung or failed on the way.
ReportsEmptyTree == at = "over" /\ error # "cleanup" => alive = {}

\* A signal is only ever sent to the group of the child: never to a group that was given
\* its id after the child was reaped (waitid with WNOWAIT until the last signal is out).
OnlyOwnSignalled == ~struck

\* A run reported without an error of the cleanup has given back every handle and stream,
\* but for the pipes made before one that could not be made, which nobody lists.
HandlesReturned ==
    at = "over" /\ error # "cleanup" => open \subseteq (IF made THEN {} ELSE {"pipes"})
=============================================================================
