----------------------------- MODULE HomeTurn -----------------------------
(***************************************************************************)
(* The turns of one conversation, one after the other: what a text is      *)
(* taken for, given the confirmation and the room-light question that are  *)
(* still open, and what then happens to the home action it asks for.       *)
(* ThoughtTurn takes a text as the predicates the loop asks of it and      *)
(* interleaves the turns; this module derives those predicates from the    *)
(* words and the verdicts from what is observed.  The review that stays    *)
(* open after a turn, and the learning after a light action, are there.    *)
(***************************************************************************)
EXTENDS ActionVerdict

CONSTANTS
    Texts,           \* bound: the texts users say, sets of cues
    Observations,    \* bound: the snapshots the environment answers
    Registry,        \* the actions the environment offers
    ConfirmRequired, \* the actions the bridge wants confirmed
    Untracked,       \* the actions nobody can observe
    Checkpointed,    \* the actions reviewed later, after a delay
    Model,           \* is a language model configured for actions?
    MaxAttempts      \* max_execute_attempts

ASSUME HomeTurnAssumption ==
    /\ \A t \in Texts : t \subseteq Cue
    /\ Observations \subseteq Observation
    /\ Registry \subseteq Builtin
    /\ ConfirmRequired \subseteq Builtin
    /\ Untracked \subseteq Builtin
    /\ Checkpointed \subseteq Builtin
    /\ Model \in BOOLEAN
    /\ MaxAttempts \in Nat \ {0}
    /\ None \notin Builtin \cup Binding \cup Sight
    /\ None \notin {"on", "off", "daylight", "unknown", "succeeded", "mismatch", "pending",
                    "satisfied"}

VARIABLES
    question,     \* the open room-light question: what the camera said, and is it too old?
    confirmation, \* the action that waits for the user's OK, with its target state
    stage,        \* where the turn is
    text,         \* what was said; the pipeline of an action does not read it again
    frame,        \* input.understood
    saved,        \* the label the turn handed on as the user's word (to the bridge, and to
                  \* the short memory when that fails)
    action,       \* the action the turn works on, and is it a confirmed one?
    target,       \* its target state
    seen,         \* the last snapshot
    preview,      \* what home.preview answered
    attempt,      \* home.execute requests of the turn
    result,       \* what the last of them answered
    review,       \* action.reviewed
    outcome       \* status of turn.completed

session == <<question, confirmation>>
pipeline == <<target, seen, preview, attempt, result, review>>
vars == <<session, stage, text, frame, saved, action, pipeline, outcome>>

NoAction == [act |-> None, confirmed |-> FALSE]

Init ==
    /\ question = None
    /\ confirmation = None
    /\ stage = "idle"
    /\ text = {}
    /\ frame = None
    /\ saved = None
    /\ action = NoAction
    /\ target = None
    /\ seen = Blind
    /\ preview = None
    /\ attempt = 0
    /\ result = None
    /\ review = None
    /\ outcome = None

\* turn.completed
Complete(status) == stage' = "done" /\ outcome' = status

Predicted == IF question = None THEN None ELSE question.predicted

\* A text arrives and is understood, with the question that is open.
Hear(t) ==
    /\ stage = "idle"
    /\ text' = t
    /\ frame' = Understand(t, Predicted)
    /\ stage' = "heard"
    /\ UNCHANGED <<session, saved, action, pipeline, outcome>>

\* The next turn of the session starts from what this one left in it.
Rest ==
    /\ stage = "done"
    /\ stage' = "idle"
    /\ text' = {} /\ frame' = None /\ saved' = None
    /\ action' = NoAction /\ target' = None /\ seen' = Blind /\ preview' = None
    /\ attempt' = 0 /\ result' = None /\ review' = None /\ outcome' = None
    /\ UNCHANGED session

\* Two minutes pass: _state_query_pending_is_expired.
QuestionAges ==
    /\ stage = "idle" /\ question # None
    /\ question' = [question EXCEPT !.expired = TRUE]
    /\ UNCHANGED <<confirmation, stage, text, frame, saved, action, pipeline, outcome>>

-----------------------------------------------------------------------------
(* Which handler takes the text: the early returns of _run_active. *)

Route ==
    FirstOf(<<
        When(confirmation # None /\ IsConfirmationCancel(text), "cancel"),
        When(confirmation # None /\ IsConfirmationReply(text), "confirmed"),
        When(frame.kind \in {"state_query", "environment_status_query", "audio_check",
                             "motion_request"}, frame.kind),
        "feedback">>)

Takes(handler) == stage = "heard" /\ Route = handler

\* _handle_pending_confirmation_if_needed
CancelConfirmation ==
    /\ Takes("cancel")
    /\ confirmation' = None
    /\ Complete("cancelled")
    /\ UNCHANGED <<question, text, frame, saved, action, pipeline>>

ConfirmAction ==
    /\ Takes("confirmed")
    /\ action' = [act |-> confirmation.act, confirmed |-> TRUE]
    /\ target' = confirmation.target
    /\ text' = {} /\ frame' = None
    /\ stage' = "execute"
    /\ UNCHANGED <<session, saved, seen, preview, attempt, result, review, outcome>>

\* _build_state_query_pending: the camera said so, just now.
Asked(state) == [predicted |-> state, expired |-> FALSE]

\* _handle_room_light_state_query: answers, and leaves a question open.
AnswerLightQuery ==
    /\ \/ Takes("state_query")
       \/ stage = "decide" /\ IsLightStateQuery(text)
    /\ \E state \in {"on", "off", "daylight", "unknown"} : question' = Asked(state)
    /\ Complete("state_answer")
    /\ UNCHANGED <<confirmation, text, frame, saved, action, pipeline>>

\* _handle_environment_status_query_turn, _handle_audio_check_turn, _handle_motion_request_turn
AnswerStatus ==
    /\ Takes("environment_status_query")
    /\ Complete("environment_status_answer")
    /\ UNCHANGED <<session, text, frame, saved, action, pipeline>>

AnswerAudioCheck ==
    /\ Takes("audio_check")
    /\ Complete("audio_status_check")
    /\ UNCHANGED <<session, text, frame, saved, action, pipeline>>

Move ==
    /\ Takes("motion_request")
    /\ Complete("general")
    /\ UNCHANGED <<session, text, frame, saved, action, pipeline>>

\* After the label of a text was dealt with: on with the command in it, or done.
OrContinue(status) ==
    IF RequestsAction(text, frame) THEN stage' = "decide" /\ UNCHANGED outcome
    ELSE Complete(status)

AnswerToQuestion ==
    IF question = None THEN None
    ELSE FirstOf(<<When(frame.kind = "state_feedback", frame.label),
                   PendingLabel(text, Predicted)>>)

DirectReport ==
    FirstOf(<<When(frame.kind = "state_feedback" /\ frame.direct, frame.label),
              DirectLabel(text)>>)

\* The payload of state_query.feedback, which is also what is remembered without the bridge.
Save(label) == saved' = label

\* _handle_state_query_feedback_if_needed: the answer comes too late to be learnt from.
ExpiredKeepsBug ==
    /\ Takes("feedback") /\ AnswerToQuestion # None /\ question.expired
    /\ Save(AnswerToQuestion)
    /\ question' = None
    /\ OrContinue("state_feedback_expired")
    /\ UNCHANGED <<confirmation, text, frame, action, pipeline>>

FeedbackExpired ==
    /\ Takes("feedback") /\ AnswerToQuestion # None /\ question.expired
    /\ question' = None
    /\ OrContinue("state_feedback_expired")
    /\ UNCHANGED <<confirmation, text, frame, saved, action, pipeline>>

FeedbackSaved ==
    /\ Takes("feedback") /\ AnswerToQuestion # None /\ ~question.expired
    /\ Save(AnswerToQuestion)
    /\ question' = None
    /\ OrContinue("state_feedback")
    /\ UNCHANGED <<confirmation, text, frame, action, pipeline>>

\* No answer: a new command closes the question, and a report of the light is saved anyway.
NoFeedbackKeepsBug ==
    /\ Takes("feedback") /\ AnswerToQuestion = None
    /\ IF DirectReport # None
       THEN Save(DirectReport) /\ OrContinue("state_feedback")
       ELSE stage' = "decide" /\ UNCHANGED <<saved, outcome>>
    /\ UNCHANGED <<session, text, frame, action, pipeline>>

NoFeedback ==
    /\ Takes("feedback") /\ AnswerToQuestion = None
    /\ question' = IF RequestsAction(text, frame) THEN None ELSE question
    /\ IF DirectReport # None
       THEN Save(DirectReport) /\ OrContinue("state_feedback")
       ELSE stage' = "decide" /\ UNCHANGED <<saved, outcome>>
    /\ UNCHANGED <<confirmation, text, frame, action, pipeline>>

Decides == stage = "decide" /\ ~IsLightStateQuery(text)

\* _handle_home_action_negative_request, _handle_home_action_ambiguity, _handle_general_turn
LeaveAlone ==
    /\ Decides /\ NamesNegatedAction(text)
    /\ Complete("noop")
    /\ UNCHANGED <<session, text, frame, saved, action, pipeline>>

AskWhich ==
    /\ Decides /\ IsAmbiguous(text)
    /\ Complete("needs_clarification")
    /\ UNCHANGED <<session, text, frame, saved, action, pipeline>>

Intends == Decides /\ ~NamesNegatedAction(text) /\ ~IsAmbiguous(text)

Talk ==
    /\ Intends /\ ActionIntent(text, {}) = None
    /\ Complete("general")
    /\ UNCHANGED <<session, text, frame, saved, action, pipeline>>

-----------------------------------------------------------------------------
(* The pipeline of an action. *)

\* environment_observe: a snapshot, which need not list the actions; nothing when the
\* environment is not configured or cannot be reached.
ObserveAnswers ==
    [shown : Observations, known : {Registry, {}}] \cup [shown : {Blind}, known : {{}}]

\* home_preview: an action the environment lists may be unavailable or need no doing.
PreviewAnswers(act, known) ==
    {"ok", "failed"} \cup (IF act \in known THEN {"noop"} ELSE {})

\* environment.observe, home.preview and target_state.imagined: with a model the binding
\* may be its own, or missing when asking it raised.
Imagine ==
    /\ Intends /\ ActionIntent(text, {}) # None
    /\ \E o \in ObserveAnswers :
         /\ seen' = o.shown
         /\ action' = [act |-> ActionIntent(text, o.known), confirmed |-> FALSE]
         /\ preview' \in PreviewAnswers(action'.act, o.known)
    /\ \/ target' = LocalBinding
       \/ /\ Model
          /\ \E offered \in Binding \cup {None} : target' = MergeBindings(LocalBinding, offered)
       \/ Model /\ target' = None
    /\ text' = {} /\ frame' = None
    /\ stage' = "plan"
    /\ UNCHANGED <<session, saved, attempt, result, review, outcome>>

\* command.planned; "error" when asking the model raised.
Plan ==
    /\ stage = "plan"
    /\ \E offered \in {"ready", "already_satisfied", "unavailable"}, failed \in BOOLEAN :
         LET local == LocalPlan(action.act, target, seen, preview)
             plan == IF ~Model THEN local
                     ELSE IF failed THEN "error" ELSE MergePlan(local, offered)
         IN  \/ plan = "already_satisfied" /\ Complete("satisfied") /\ UNCHANGED confirmation
             \/ /\ plan # "already_satisfied" /\ preview = "noop"
                /\ Complete("satisfied") /\ UNCHANGED confirmation
             \/ /\ plan # "already_satisfied" /\ preview = "failed"
                /\ Complete("needs_feedback") /\ UNCHANGED confirmation
             \/ /\ plan # "already_satisfied" /\ preview = "ok"
                /\ action.act \in ConfirmRequired
                /\ confirmation' = [act |-> action.act, target |-> target] /\ Complete("confirmation_required")
             \/ /\ plan # "already_satisfied" /\ preview = "ok"
                /\ action.act \notin ConfirmRequired
                /\ stage' = "execute" /\ UNCHANGED <<confirmation, outcome>>
    /\ UNCHANGED <<question, text, frame, saved, action, pipeline>>

\* A confirmed action that was sent leaves no confirmation behind.
Release == confirmation' = IF action.confirmed THEN None ELSE confirmation

\* home.execute, and whether its review is not possible, comes later, or comes now.
Execute ==
    /\ stage = "execute"
    /\ attempt' = attempt + 1
    /\ seen' = Blind
    /\ result' \in {"accepted", "failed_retryable", "failed_final", "confirmation_required"}
    /\ \/ /\ action.confirmed /\ result' = "confirmation_required"
          /\ Complete("confirmation_required") /\ UNCHANGED confirmation
       \/ /\ Accepted(result') /\ action.act \in Untracked
          /\ Complete("submitted") /\ Release
       \/ /\ Accepted(result') /\ action.act \in Checkpointed \ (Untracked \cup ConfirmRequired)
          /\ ~action.confirmed
          /\ Complete("verification_pending") /\ UNCHANGED confirmation
       \/ /\ ~(action.confirmed /\ result' = "confirmation_required")
          /\ Accepted(result') =>
               /\ action.act \notin Untracked
               /\ action.act \in Checkpointed => action.confirmed \/ action.act \in ConfirmRequired
          /\ stage' = "observe" /\ UNCHANGED <<confirmation, outcome>>
    /\ UNCHANGED <<question, text, frame, saved, action, target, preview, review>>

ObserveAfter ==
    /\ stage = "observe"
    /\ \E o \in ObserveAnswers : seen' = o.shown
    /\ stage' = "review"
    /\ UNCHANGED <<session, text, frame, saved, action, target, preview, attempt, result,
                   review, outcome>>

\* action.reviewed, and what it leads to: success, a review that stays open, another
\* attempt, or the question whether it worked.
Review ==
    /\ stage = "review"
    /\ \E offered \in {None} \cup
            (IF Model THEN {"succeeded", "mismatch", "pending", "execute_failed", "error"} ELSE {}) :
         review' = ReviewAction(action.act, target, seen, result, offered)
    /\ \/ review' = "succeeded" /\ Complete("success") /\ Release
       \/ /\ review' # "succeeded" /\ Accepted(result) /\ review' # "execute_failed"
          /\ Complete("verification_pending") /\ Release
       \/ /\ review' # "succeeded" /\ ~(Accepted(result) /\ review' # "execute_failed")
          /\ IF result = "failed_retryable" /\ ~action.confirmed /\ attempt < MaxAttempts
             THEN stage' = "execute" /\ UNCHANGED <<confirmation, outcome>>
             ELSE /\ Complete("needs_feedback")
                  /\ IF result = "failed_retryable" THEN UNCHANGED confirmation ELSE Release
    /\ UNCHANGED <<question, text, frame, saved, action, target, seen, preview, attempt, result>>

Next ==
    \/ \E t \in Texts : Hear(t)
    \/ Rest \/ QuestionAges
    \/ CancelConfirmation \/ ConfirmAction
    \/ AnswerLightQuery \/ AnswerStatus \/ AnswerAudioCheck \/ Move
    \/ FeedbackExpired \/ FeedbackSaved \/ NoFeedback
    \/ LeaveAlone \/ AskWhich \/ Talk
    \/ Imagine \/ Plan \/ Execute \/ ObserveAfter \/ Review

Spec == Init /\ [][Next]_vars
-----------------------------------------------------------------------------
(* Properties *)

TypeOK ==
    /\ question \in [predicted : {"on", "off", "daylight", "unknown"}, expired : BOOLEAN]
                   \cup {None}
    /\ confirmation \in [act : Builtin, target : Binding \cup {None}] \cup {None}
    /\ stage \in {"idle", "heard", "decide", "plan", "execute", "observe", "review", "done"}
    /\ text \in Texts \cup {{}}
    /\ saved \in {"on", "off", "daylight", "unknown", None}
    /\ action \in [act : Builtin \cup {None}, confirmed : BOOLEAN]
    /\ target \in Binding \cup {None}
    /\ seen \in Observations \cup {Blind}
    /\ attempt \in 0..MaxAttempts

\* What is saved as the user's word was said: the label itself, or a yes or a no to a
\* question that was asked at most two minutes ago, a no never meaning what the camera said.
\* Without such a question the text must have named the light, and a text that asks how the
\* light is and commands nothing is no answer at all, whatever else it holds.
FeedbackIsAnAnswer ==
    [][saved' \notin {None, saved} =>
         /\ ~({"light", "ask"} \subseteq text
               /\ ~Has(text, {"on", "off", "open", "check", "please"}))
         /\ IF question = None THEN "light" \in text ELSE ~question.expired
         /\ \/ saved' = ExplicitLabel(text)
            \/ "yes" \in text
            \/ "no" \in text /\ (saved' = "unknown" \/ saved' # question.predicted)]_vars

\* An action is worked on only for a text without a negation that names it and no other
\* action, by the words alone as well as by the names the environment gives its actions.
ActsOnlyWhenTold ==
    [][stage' = "plan" /\ stage # "plan" =>
         ~IsNegative(text) /\ BuiltinActions(text) = {action'.act}]_vars

\* Once a new command is worked on, no older room-light question is left open that a later
\* yes or no could be taken to answer.
NewActionClosesQuestion ==
    stage \in {"plan", "execute", "observe", "review"} /\ ~action.confirmed => question = None

\* What the last snapshot says of the device acted on, or of a light no device reports.
Shown ==
    IF seen.own # None THEN seen.own
    ELSE IF action.act.target = "light" THEN seen.room ELSE None

ShownAsExpected == Shown # None /\ Shown.fresh /\ Shown.sure /\ Shown.state = "expected"

\* The binding a model answered leaves out its scope, or names other devices.
Lax == target # None /\ target # LocalBinding

\* Success is told only of an action the bridge accepted and whose device was then seen, in a
\* fresh and confident state, as it was to be; what a language model says cannot add to that.
SuccessIsObserved == review = "succeeded" /\ ~Lax => Accepted(result) /\ ShownAsExpected

\* A command is skipped as already satisfied only if the environment or a fresh and confident
\* state of the device says so; what a language model plans cannot add to that.
SkipIsSatisfied == outcome = "satisfied" /\ ~Lax => preview = "noop" \/ ShownAsExpected
=============================================================================
