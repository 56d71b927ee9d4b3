--------------------------- MODULE TurnResponder ---------------------------
(***************************************************************************)
(* EnvironmentTurnResponder.respond of one turn, on top of OwnedProcess.   *)
(* With the Codex CLI it owns two processes in turn: "codex --version",    *)
(* whose failures are only noted, and "codex exec", which writes into a    *)
(* directory made for the call and removed after it.  With a chat endpoint *)
(* it makes one request.  What goes wrong becomes the local fallback, but  *)
(* for the deadline of the turn and a cleanup that could not be proven.    *)
(***************************************************************************)
EXTENDS Integers, OwnedProcess

VARIABLES
    primary,  \* the responder the environment selects
    strict,   \* version_policy = "strict"
    stage,    \* which call the primary makes
    answer,   \* what respond returned or raised
    unproven, \* a run ended with the error of the cleanup
    started   \* runs begun

rvars == <<primary, strict, stage, answer, unproven, started>>
vars == <<pvars, rvars>>

\* EnvironmentTurnResponder.from_env, with the provider and the policy it reads.
Init ==
    /\ ProcessInit
    /\ primary \in {"none", "codex", "http"}
    /\ strict \in BOOLEAN
    /\ stage = "respond"
    /\ answer = "none"
    /\ unproven = FALSE
    /\ started = 0

Answer(a) == answer' = a /\ stage' = "answered"

\* ensure_execution_active in the except branch, before the fallback speaks.
FallBack == Answer(IF late THEN "deadline" ELSE "fallback")

\* _run: the timeout is clamped and the deadline looked at, and then the child is started.
Run(s) ==
    IF late THEN Answer("deadline") /\ UNCHANGED <<pvars, started>>
    ELSE stage' = s /\ started' = started + 1 /\ Begin /\ UNCHANGED answer

NoPrimary ==
    /\ stage = "respond" /\ primary = "none"
    /\ Answer("fallback")
    /\ UNCHANGED <<pvars, primary, strict, unproven, started>>

AskVersion ==
    /\ stage = "respond" /\ primary = "codex"
    /\ Run("version")
    /\ UNCHANGED <<primary, strict, unproven>>

\* urlopen of the chat endpoint, with a look at the deadline before and after.
AskEndpoint ==
    /\ stage = "respond" /\ primary = "http"
    /\ IF late THEN Answer("deadline") ELSE stage' = "asking" /\ UNCHANGED answer
    /\ UNCHANGED <<pvars, primary, strict, unproven, started>>

EndpointAnswers ==
    /\ stage = "asking"
    /\ \/ Answer(IF late THEN "deadline" ELSE "llm")
       \/ FallBack
    /\ UNCHANGED <<pvars, primary, strict, unproven, started>>

\* What leaves _run whatever stage it is in: neither is an error respond falls back on.
Raised ==
    \/ error = "deadline" /\ Answer("deadline")
    \/ error = "thread" /\ Answer("raised")

\* _codex_version_metadata notes a version, a version that is not the expected one, or
\* none; under the strict policy only the expected one goes on to exec.
VersionSwallowsBug ==
    /\ stage = "version" /\ at = "over"
    /\ unproven' = (unproven \/ error = "cleanup")
    /\ \/ Raised /\ UNCHANGED <<pvars, started>>
       \/ error = "none" /\ late /\ Answer("deadline") /\ UNCHANGED <<pvars, started>>
       \/ /\ error \in {"none", "oserror", "timeout", "cleanup"} /\ ~(error = "none" /\ late)
          /\ \/ strict /\ FallBack /\ UNCHANGED <<pvars, started>>
             \/ (strict => error = "none") /\ Run("exec")
    /\ UNCHANGED <<primary, strict>>

VersionEnds ==
    /\ stage = "version" /\ at = "over"
    /\ unproven' = (unproven \/ error = "cleanup")
    /\ \/ Raised /\ UNCHANGED <<pvars, started>>
       \/ error = "cleanup" /\ Answer("cleanup") /\ UNCHANGED <<pvars, started>>
       \/ error = "none" /\ late /\ Answer("deadline") /\ UNCHANGED <<pvars, started>>
       \/ /\ error \in {"none", "oserror", "timeout"} /\ ~(error = "none" /\ late)
          /\ \/ strict /\ FallBack /\ UNCHANGED <<pvars, started>>
             \/ (strict => error = "none") /\ Run("exec")
    /\ UNCHANGED <<primary, strict>>

\* The exit of TemporaryDirectory: a process that still uses the directory may keep it from
\* being removed, and the OSError of the removal takes the place of the exception on its way.
ExecEnds ==
    /\ stage = "exec" /\ at = "over"
    /\ unproven' = (unproven \/ error = "cleanup")
    /\ \/ Raised
       \/ error = "cleanup" /\ Answer("cleanup")
       \/ error = "cleanup" /\ alive # {} /\ FallBack
       \/ error \in {"oserror", "timeout"} /\ FallBack
       \/ error = "none" /\ (IF late THEN Answer("deadline") ELSE Answer("llm") \/ FallBack)
    /\ UNCHANGED <<pvars, primary, strict, started>>

Next ==
    \/ (Caller \/ Around) /\ UNCHANGED rvars
    \/ NoPrimary \/ AskVersion \/ AskEndpoint \/ EndpointAnswers
    \/ VersionEnds \/ ExecEnds

\* The thread of the turn goes on: every wait it makes has a timeout.
Responder ==
    \/ Caller /\ UNCHANGED rvars
    \/ NoPrimary \/ AskVersion \/ AskEndpoint \/ EndpointAnswers
    \/ VersionEnds \/ ExecEnds
Spec == Init /\ [][Next]_vars /\ WF_vars(Responder)

-----------------------------------------------------------------------------

TypeOK ==
    /\ ProcessTypeOK
    /\ primary \in {"none", "codex", "http"}
    /\ strict \in BOOLEAN /\ unproven \in BOOLEAN
    /\ stage \in {"respond", "version", "exec", "asking", "answered"}
    /\ answer \in {"none", "llm", "fallback", "deadline", "raised", "cleanup"}
    /\ started \in 0..2

\* Once a run could not be proven to have stopped its tree, the turn starts no other
\* process: the error of a cleanup is not one of those the version check only notes.
NoRunAfterUnproven == [][unproven' => started' = started]_vars

\* respond comes to an end even if a process of the tree never does.
Answered == <>(answer # "none")
=============================================================================
