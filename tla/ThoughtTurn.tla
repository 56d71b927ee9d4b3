----------------------------- MODULE ThoughtTurn -----------------------------
(***************************************************************************)
(* Turns of the thought-core ThoughtLoop that share one conversation       *)
(* session: the home-action confirmation, the review of an action after it *)
(* was sent, the room-light question left open for the user, and the short *)
(* memory that carries an open review over a restart of the service.       *)
(*                                                                         *)
(* ThoughtLoop is one object shared by the threads of a ThreadingHTTPServer *)
(* and it holds no lock per session, so turns interleave.  A step of the   *)
(* model runs from one tool call or event to the next; the deadline of a   *)
(* turn is looked at exactly there (ensure_execution_active), so Abort may *)
(* strike between any two steps.                                           *)
(*                                                                         *)
(* A definition named ...Bug is the one after it with a plausible mistake  *)
(* in it.  No specification uses it: it shows which property notices.      *)
(***************************************************************************)
EXTENDS Integers, Sequences, FiniteSets

CONSTANTS
    Turns,               \* turn ids, one POST /turn each
    Actions,             \* home actions, named by action_id:target:expected_state
    ConfirmRequired,     \* actions the preview marks confirm_required
    Untracked,           \* actions whose state nobody can observe (ack_only, open_loop, ...)
    Checkpointed,        \* actions whose review policy has checkpoint_ms
    LightState,          \* [light action -> "on" or "off"], its expected_state
    ObservationAttempts, \* [action -> observations its review policy allows]
    Utterances,          \* what users say: records, see Utterance
    MemoryWindow,        \* memory_retrieve_limit
    MaxInFlight,         \* turns of the session that run at once
    MaxRestarts,         \* bound: restarts of the service
    MayAbort,            \* may deadlines pass and tools raise?
    MayLoseMemory,       \* may short_memory_write fail?
    None

Lights == DOMAIN LightState

Label == {"on", "off"}

(* A text, as far as the predicates of the loop tell texts apart.  They    *)
(* are independent substring tests: one text can be a command and hold a   *)
(* confirmation marker or a light label as well.                           *)
Utterance ==
    [kind   : {"command", "feedback", "recheck", "query", "talk"},
     action : Actions \cup {None},   \* None in a command: ambiguous
     label  : Label \cup {None},     \* room-light label found in the text
     reply  : BOOLEAN,               \* _is_confirmation_reply
     cancel : BOOLEAN]               \* _is_confirmation_cancel

Result == {"accepted", "failed_retryable", "failed_final", "confirmation_required"}

Base == {"first", "again", "direct", "confirm"}

Resting == {"idle", "done", "aborted"}

Place == Resting \cup
    {"recall", "hydrate", "confirmation", "confirmed_execute", "confirmed_result",
     "confirmed_observe", "confirm_failed", "query", "review", "observe", "progress",
     "feedback", "supersede", "closing", "rest", "plan", "execute", "result",
     "direct_observe", "opening", "opened", "exhausted", "finish", "unconfirm"}

Review == [action : Actions, done : Nat, by : Turns, hydrated : BOOLEAN]
Record == [action : Actions, done : Nat, status : {"open", "closed", "exhausted"}]
Submission == [turn : Turns, action : Actions, confirmed : BOOLEAN, result : Result]

ASSUME TurnAssumption ==
    /\ ConfirmRequired \subseteq Actions
    /\ Untracked \subseteq Actions
    /\ Checkpointed \subseteq Actions
    /\ Lights \subseteq Actions
    /\ \A a \in Lights : LightState[a] \in Label
    /\ ObservationAttempts \in [Actions -> 1..4]
    /\ Utterances \subseteq Utterance
    /\ \A u \in Utterances : u.kind # "command" => u.action = None
    /\ MemoryWindow \in Nat \ {0}
    /\ MaxInFlight \in Nat \ {0}
    /\ MaxRestarts \in Nat
    /\ MayAbort \in BOOLEAN
    /\ MayLoseMemory \in BOOLEAN
    /\ None \notin Actions /\ None \notin Review /\ None \notin Record
    /\ None \notin Utterance /\ None \notin [action : Actions \cup {None}]
    /\ None \notin Label

VARIABLES
    pendingConfirmation, \* the action waiting for the user's OK, or None
    pendingReview,       \* the review of a sent action, or None
    pendingQuery,        \* the open room-light question, with the action it is about
    shortMemory,         \* short_memory.jsonl: the session's retry_budget records
    at,                  \* where each turn is
    said,                \* its text
    recalled,            \* the open review it retrieved from memory
    act,                 \* the action it works on
    done,                \* observations_done, as it counted them
    obj,                 \* which pending review object it read: <<by, hydrated>>
    base,                \* the caller its review handler returns to
    result,              \* status of its home.execute
    sent,                \* home.execute requests the bridge received
    attempts,            \* how many of them each turn made
    prompts,             \* confirmation prompts shown for each action
    observed,            \* observations each turn made for a pending review
    completed,           \* turn.completed and turn.error events of each turn
    restarts

session == <<pendingConfirmation, pendingReview, pendingQuery, shortMemory>>
locals == <<said, recalled, act, done, obj, base, result>>
history == <<sent, attempts, prompts, observed, completed, restarts>>
vars == <<session, at, locals, history>>

Init ==
    /\ pendingConfirmation = None
    /\ pendingReview = None
    /\ pendingQuery = None
    /\ shortMemory = <<>>
    /\ at = [t \in Turns |-> "idle"]
    /\ said = [t \in Turns |-> None]
    /\ recalled = [t \in Turns |-> None]
    /\ act = [t \in Turns |-> None]
    /\ done = [t \in Turns |-> 0]
    /\ obj = [t \in Turns |-> None]
    /\ base = [t \in Turns |-> "first"]
    /\ result = [t \in Turns |-> None]
    /\ sent = {}
    /\ attempts = [t \in Turns |-> 0]
    /\ prompts = [a \in Actions |-> 0]
    /\ observed = [t \in Turns |-> 0]
    /\ completed = [t \in Turns |-> 0]
    /\ restarts = 0

Goto(t, place) == at' = [at EXCEPT ![t] = place]

InFlight == {t \in Turns : at[t] \notin Resting}

-----------------------------------------------------------------------------
(* Arrival, memory and hydration *)

\* ThoughtLoop.run: the understanding of the text needs nothing from the session.
Arrive(t, u) ==
    /\ at[t] = "idle"
    /\ Cardinality(InFlight) < MaxInFlight
    /\ said' = [said EXCEPT ![t] = u]
    /\ Goto(t, "recall")
    /\ UNCHANGED <<session, recalled, act, done, obj, base, result, history>>

\* The newest MemoryWindow records, and among them the open reviews of actions that no
\* record of the window closes, whichever of the two is newer.
Window == {i \in DOMAIN shortMemory : i > Len(shortMemory) - MemoryWindow}
ClosedActions == {shortMemory[i].action : i \in {j \in Window : shortMemory[j].status = "closed"}}
OpenReviews ==
    {i \in Window : shortMemory[i].status = "open" /\ shortMemory[i].action \notin ClosedActions}

Recall(t) ==
    /\ at[t] = "recall"
    /\ \/ /\ OpenReviews = {}
          /\ UNCHANGED recalled
       \/ \E i \in OpenReviews :
             /\ \A j \in OpenReviews : j <= i
             /\ recalled' = [recalled EXCEPT ![t] = shortMemory[i]]
    /\ Goto(t, "hydrate")
    /\ UNCHANGED <<session, said, act, done, obj, base, result, history>>

MayHydrate(t) ==
    /\ pendingReview = None
    /\ said[t].kind \notin {"feedback", "query", "command"}
    /\ recalled[t] # None

Hydrate(t) ==
    /\ at[t] = "hydrate"
    /\ pendingReview' = IF MayHydrate(t)
                        THEN [action |-> recalled[t].action, done |-> recalled[t].done,
                              by |-> t, hydrated |-> TRUE]
                        ELSE pendingReview
    /\ Goto(t, "confirmation")
    /\ UNCHANGED <<pendingConfirmation, pendingQuery, shortMemory, locals, history>>

-----------------------------------------------------------------------------
(* The pending confirmation *)

CancelConfirmation(t) ==
    /\ at[t] = "confirmation"
    /\ pendingConfirmation # None
    /\ said[t].cancel
    /\ pendingConfirmation' = None
    /\ Goto(t, "finish")
    /\ UNCHANGED <<pendingReview, pendingQuery, shortMemory, locals, history>>

AcceptAnyTextBug(t) ==
    /\ at[t] = "confirmation"
    /\ pendingConfirmation # None
    /\ ~said[t].cancel
    /\ act' = [act EXCEPT ![t] = pendingConfirmation]
    /\ Goto(t, "confirmed_execute")
    /\ UNCHANGED <<session, said, recalled, done, obj, base, result, history>>

AcceptConfirmation(t) ==
    /\ at[t] = "confirmation"
    /\ pendingConfirmation # None
    /\ ~said[t].cancel /\ said[t].reply
    /\ act' = [act EXCEPT ![t] = pendingConfirmation]
    /\ Goto(t, "confirmed_execute")
    /\ UNCHANGED <<session, said, recalled, done, obj, base, result, history>>

PassConfirmation(t) ==
    /\ at[t] = "confirmation"
    /\ pendingConfirmation = None \/ (~said[t].cancel /\ ~said[t].reply)
    /\ Goto(t, IF said[t].kind = "query" THEN "query" ELSE "review")
    /\ UNCHANGED <<session, locals, history>>

\* home.execute: one request, id <turn>-attempt-<n>.  The bridge acts on it before the
\* answer is processed, so an abort right after this step loses the answer only.
Submit(t, confirmed, r) ==
    /\ sent' = sent \cup {[turn |-> t, action |-> act[t], confirmed |-> confirmed, result |-> r]}
    /\ attempts' = [attempts EXCEPT ![t] = @ + 1]
    /\ result' = [result EXCEPT ![t] = r]
    /\ UNCHANGED <<session, said, recalled, act, done, obj, base,
                   prompts, observed, completed, restarts>>

ConfirmedExecute(t) ==
    /\ at[t] = "confirmed_execute"
    /\ \E r \in Result : Submit(t, TRUE, r)
    /\ Goto(t, "confirmed_result")

Prompt(t) == prompts' = [prompts EXCEPT ![act[t]] = @ + 1]

\* The bridge asks again: with a fresh token the confirmation is remembered anew.
ConfirmationExpired(t) ==
    /\ at[t] = "confirmed_result"
    /\ result[t] = "confirmation_required"
    /\ Prompt(t)
    /\ pendingConfirmation' \in {pendingConfirmation, act[t]}
    /\ Goto(t, "finish")
    /\ UNCHANGED <<pendingReview, pendingQuery, shortMemory, locals,
                   sent, attempts, observed, completed, restarts>>

ConfirmedUntracked(t) ==
    /\ at[t] = "confirmed_result"
    /\ result[t] = "accepted" /\ act[t] \in Untracked
    /\ pendingConfirmation' = None
    /\ Goto(t, "finish")
    /\ UNCHANGED <<pendingReview, pendingQuery, shortMemory, locals, history>>

ConfirmedTracked(t) ==
    /\ at[t] = "confirmed_result"
    /\ result[t] # "confirmation_required"
    /\ result[t] = "accepted" => act[t] \notin Untracked
    /\ Goto(t, "confirmed_observe")
    /\ UNCHANGED <<session, locals, history>>

\* After a success on a light the loop may ask the user what the room really looks like.
MayAskAboutLight(t) ==
    pendingQuery' \in {pendingQuery} \cup
        (IF act[t] \in Lights THEN {[action |-> act[t]]} ELSE {})

ConfirmationKeptBug(t) ==
    /\ at[t] = "confirmed_observe"
    /\ result[t] = "accepted"
    /\ MayAskAboutLight(t)
    /\ Goto(t, "finish")
    /\ UNCHANGED <<pendingConfirmation, pendingReview, shortMemory, locals, history>>

ConfirmedSucceeded(t) ==
    /\ at[t] = "confirmed_observe"
    /\ result[t] = "accepted"
    /\ pendingConfirmation' = None
    /\ MayAskAboutLight(t)
    /\ Goto(t, "finish")
    /\ UNCHANGED <<pendingReview, shortMemory, locals, history>>

ConfirmedUnverified(t) ==
    /\ at[t] = "confirmed_observe"
    /\ result[t] = "accepted"
    /\ done' = [done EXCEPT ![t] = 1]
    /\ base' = [base EXCEPT ![t] = "confirm"]
    /\ Goto(t, "opening")
    /\ UNCHANGED <<session, said, recalled, act, obj, result, history>>

ConfirmedRefused(t) ==
    /\ at[t] = "confirmed_observe"
    /\ result[t] # "accepted"
    /\ Goto(t, "confirm_failed")
    /\ UNCHANGED <<session, locals, history>>

\* A retryable failure keeps the confirmation, so that the next OK tries again.
ConfirmedFailed(t) ==
    /\ at[t] = "confirm_failed"
    /\ pendingConfirmation' = IF result[t] = "failed_retryable" THEN act[t] ELSE None
    /\ base' = [base EXCEPT ![t] = "again"]
    /\ Goto(t, "finish")
    /\ UNCHANGED <<pendingReview, pendingQuery, shortMemory,
                   said, recalled, act, done, obj, result, history>>

-----------------------------------------------------------------------------
(* The pending action review: called by the turn itself ("first", with its InputFrame) *)
(* and again, without it, by every review that was just opened or that still has budget *)

Own(t) == pendingReview.by = t /\ ~pendingReview.hydrated

ReturnFalse(t) ==
    CASE base[t] \in {"first", "again"} -> "rest"
      [] base[t] = "direct" -> "exhausted"
      [] base[t] = "confirm" -> "confirm_failed"

IsFeedback(t) == pendingReview.action \in Lights /\ said[t].label # None

RequestsReview(t) ==
    \/ Own(t)
    \/ base[t] = "first" /\ said[t].kind = "feedback"
    \/ said[t].kind = "recheck"

NoReview(t) ==
    /\ at[t] = "review"
    /\ pendingReview = None
    /\ Goto(t, ReturnFalse(t))
    /\ UNCHANGED <<session, locals, history>>

CancelReview(t) ==
    /\ at[t] = "review"
    /\ pendingReview # None
    /\ said[t].cancel
    /\ pendingReview' = None
    /\ Goto(t, "finish")
    /\ UNCHANGED <<pendingConfirmation, pendingQuery, shortMemory, locals, history>>

SupersedeReview(t) ==
    /\ at[t] = "review"
    /\ pendingReview # None
    /\ ~said[t].cancel
    /\ said[t].kind = "command" /\ ~Own(t)
    /\ act' = [act EXCEPT ![t] = pendingReview.action]
    /\ done' = [done EXCEPT ![t] = pendingReview.done]
    /\ pendingReview' = None
    /\ Goto(t, "supersede")
    /\ UNCHANGED <<pendingConfirmation, pendingQuery, shortMemory,
                   said, recalled, obj, base, result, history>>

HearFeedback(t) ==
    /\ at[t] = "review"
    /\ pendingReview # None
    /\ ~said[t].cancel
    /\ ~(said[t].kind = "command" /\ ~Own(t))
    /\ IsFeedback(t)
    /\ act' = [act EXCEPT ![t] = pendingReview.action]
    /\ Goto(t, "feedback")
    /\ UNCHANGED <<session, said, recalled, done, obj, base, result, history>>

IgnoreReview(t) ==
    /\ at[t] = "review"
    /\ pendingReview # None
    /\ ~said[t].cancel
    /\ said[t].kind # "command"
    /\ ~IsFeedback(t) /\ ~RequestsReview(t)
    /\ Goto(t, ReturnFalse(t))
    /\ UNCHANGED <<session, locals, history>>

ContinueReview(t) ==
    /\ at[t] = "review"
    /\ pendingReview # None
    /\ ~said[t].cancel
    /\ ~(said[t].kind = "command" /\ ~Own(t))
    /\ ~IsFeedback(t) /\ RequestsReview(t)
    /\ act' = [act EXCEPT ![t] = pendingReview.action]
    /\ done' = [done EXCEPT ![t] = pendingReview.done + 1]
    /\ obj' = [obj EXCEPT ![t] = <<pendingReview.by, pendingReview.hydrated>>]
    /\ observed' = [observed EXCEPT ![t] = @ + 1]
    /\ Goto(t, "observe")
    /\ UNCHANGED <<session, said, recalled, base, result,
                   sent, attempts, prompts, completed, restarts>>

\* review_budget_exhausted: observations_done has reached max_observation_attempts.
ExhaustedLateBug(t) == done[t] > ObservationAttempts[act[t]]
NeverExhaustedBug(t) == done[t] > 4
Exhausted(t) == done[t] >= ObservationAttempts[act[t]]

ReviewSucceeded(t) ==
    /\ at[t] = "observe"
    /\ pendingReview' = None
    /\ Goto(t, "finish")
    /\ UNCHANGED <<pendingConfirmation, pendingQuery, shortMemory, locals, history>>

\* The count is written into the object that was read before the observation: it shows
\* only while that object is still the session's pending review.
ReviewStillPending(t) ==
    /\ at[t] = "observe"
    /\ ~Exhausted(t)
    /\ pendingReview' = IF /\ pendingReview # None
                           /\ obj[t] = <<pendingReview.by, pendingReview.hydrated>>
                        THEN [pendingReview EXCEPT !.done = done[t]]
                        ELSE pendingReview
    /\ Goto(t, "progress")
    /\ UNCHANGED <<pendingConfirmation, pendingQuery, shortMemory, locals, history>>

ReviewExhausted(t) ==
    /\ at[t] = "observe"
    /\ Exhausted(t)
    /\ pendingReview' = None
    /\ Goto(t, "closing")
    /\ UNCHANGED <<pendingConfirmation, pendingQuery, shortMemory, locals, history>>

\* short_memory.write appends one line, or fails and says so in its result.
Note(t, status) ==
    /\ \/ shortMemory' = Append(shortMemory,
                                [action |-> act[t], done |-> done[t], status |-> status])
       \/ MayLoseMemory /\ UNCHANGED shortMemory
    /\ UNCHANGED <<pendingConfirmation, pendingReview, pendingQuery,
                   said, recalled, act, done, obj, result, history>>

NoteProgress(t) ==
    /\ at[t] = "progress"
    /\ Note(t, "open")
    /\ base' = [base EXCEPT ![t] = IF @ = "first" THEN "again" ELSE @]
    /\ Goto(t, "review")

NoteSuperseded(t) ==
    /\ at[t] = "supersede"
    /\ Note(t, "closed")
    /\ Goto(t, ReturnFalse(t))
    /\ UNCHANGED base

NoteClosed(t) ==
    /\ at[t] = "closing"
    /\ Note(t, "closed")
    /\ Goto(t, "finish")
    /\ UNCHANGED base

\* _resolve_action_feedback: the user's word settles the review and the open question,
\* for or against; a mismatch is never retried (auto_retries is 0).
ReviewKeptBug(t) ==
    /\ at[t] = "feedback"
    /\ pendingQuery' = None
    /\ Goto(t, "review")
    /\ UNCHANGED <<pendingConfirmation, pendingReview, shortMemory, locals, history>>

ResolveFeedback(t) ==
    /\ at[t] = "feedback"
    /\ pendingQuery' = None
    /\ pendingReview' = None
    /\ Goto(t, "closing")
    /\ UNCHANGED <<pendingConfirmation, shortMemory, locals, history>>

-----------------------------------------------------------------------------
(* State queries, and their feedback *)

AnswerQuery(t) ==
    /\ at[t] = "query"
    /\ pendingQuery' \in {pendingQuery, [action |-> None]}
    /\ Goto(t, "finish")
    /\ UNCHANGED <<pendingConfirmation, pendingReview, shortMemory, locals, history>>

Continue(t) ==
    IF said[t].kind = "command" /\ said[t].action # None THEN "plan" ELSE "finish"

\* An expired question (120 s) and one that is about no action leave nothing behind.
QueryFeedback(t) ==
    /\ at[t] = "rest"
    /\ pendingQuery # None /\ said[t].label # None
    /\ pendingQuery' = None
    /\ \/ Goto(t, Continue(t)) /\ UNCHANGED act
       \/ /\ pendingQuery.action # None
          /\ act' = [act EXCEPT ![t] = pendingQuery.action]
          /\ Goto(t, "feedback")
    /\ UNCHANGED <<pendingConfirmation, pendingReview, shortMemory,
                   said, recalled, done, obj, base, result, history>>

NoQueryFeedback(t) ==
    /\ at[t] = "rest"
    /\ pendingQuery = None \/ said[t].label = None
    /\ pendingQuery' = IF said[t].kind = "command" THEN None ELSE pendingQuery
    /\ Goto(t, Continue(t))
    /\ UNCHANGED <<pendingConfirmation, pendingReview, shortMemory, locals, history>>

-----------------------------------------------------------------------------
(* A new home action *)

SkipAction(t) ==
    /\ at[t] = "plan"
    /\ Goto(t, "finish")
    /\ UNCHANGED <<session, locals, history>>

AskConfirmation(t) ==
    /\ at[t] = "plan"
    /\ said[t].action \in ConfirmRequired
    /\ act' = [act EXCEPT ![t] = said[t].action]
    /\ pendingConfirmation' = said[t].action
    /\ prompts' = [prompts EXCEPT ![said[t].action] = @ + 1]
    /\ Goto(t, "finish")
    /\ UNCHANGED <<pendingReview, pendingQuery, shortMemory,
                   said, recalled, done, obj, base, result,
                   sent, attempts, observed, completed, restarts>>

StartAction(t) ==
    /\ at[t] = "plan"
    /\ said[t].action \notin ConfirmRequired
    /\ act' = [act EXCEPT ![t] = said[t].action]
    /\ Goto(t, "execute")
    /\ UNCHANGED <<session, said, recalled, done, obj, base, result, history>>

Execute(t) ==
    /\ at[t] = "execute"
    /\ \E r \in Result : Submit(t, FALSE, r)
    /\ Goto(t, "result")

TrackAnyResultBug(t) == act[t] \notin Untracked
Tracked(t) == result[t] = "accepted" /\ act[t] \notin Untracked

\* Deferral also needs an issued_at that parses: the bridge may not have sent one.
DeferReview(t) ==
    /\ at[t] = "result"
    /\ Tracked(t) /\ act[t] \in Checkpointed
    /\ done' = [done EXCEPT ![t] = 0]
    /\ Goto(t, "opening")
    /\ UNCHANGED <<session, said, recalled, act, obj, base, result, history>>

\* The tracking of the action decides, whatever became of the request.
SubmittedUntracked(t) ==
    /\ at[t] = "result"
    /\ act[t] \in Untracked
    /\ Goto(t, "finish")
    /\ UNCHANGED <<session, locals, history>>

ObserveAction(t) ==
    /\ at[t] = "result"
    /\ act[t] \notin Untracked
    /\ Goto(t, "direct_observe")
    /\ UNCHANGED <<session, locals, history>>

ActionSucceeded(t) ==
    /\ at[t] = "direct_observe"
    /\ result[t] = "accepted"
    /\ MayAskAboutLight(t)
    /\ Goto(t, "finish")
    /\ UNCHANGED <<pendingConfirmation, pendingReview, shortMemory, locals, history>>

UnrecordedBug(t) ==
    /\ at[t] = "direct_observe"
    /\ result[t] = "accepted"
    /\ done' = [done EXCEPT ![t] = 1]
    /\ base' = [base EXCEPT ![t] = "direct"]
    /\ Goto(t, "opened")
    /\ UNCHANGED <<session, said, recalled, act, obj, result, history>>

ActionUnverified(t) ==
    /\ at[t] = "direct_observe"
    /\ result[t] = "accepted"
    /\ done' = [done EXCEPT ![t] = 1]
    /\ base' = [base EXCEPT ![t] = "direct"]
    /\ Goto(t, "opening")
    /\ UNCHANGED <<session, said, recalled, act, obj, result, history>>

ActionFailed(t) ==
    /\ at[t] = "direct_observe"
    /\ result[t] # "accepted"
    /\ Goto(t, "exhausted")
    /\ UNCHANGED <<session, locals, history>>

\* max_execute_attempts is 1: whatever the failure, the turn asks the user.
NoteExhausted(t) ==
    /\ at[t] = "exhausted"
    /\ Note(t, "exhausted")
    /\ Goto(t, "finish")
    /\ UNCHANGED base

\* review_budget_opened is on record before the review is pending.
NoteOpened(t) ==
    /\ at[t] = "opening"
    /\ Note(t, "open")
    /\ Goto(t, "opened")
    /\ UNCHANGED base

OpenReview(t) ==
    /\ at[t] = "opened"
    /\ pendingReview' = [action |-> act[t], done |-> done[t], by |-> t, hydrated |-> FALSE]
    /\ Goto(t, IF done[t] = 0 THEN "finish" ELSE "review")
    /\ UNCHANGED <<pendingConfirmation, pendingQuery, shortMemory, locals, history>>

-----------------------------------------------------------------------------
(* The end of a turn, aborts and restarts *)

\* A review opened by a confirmed action pops the confirmation only after the review
\* handler has returned, which is after turn.completed.
FinishAndGoOnBug(t) ==
    /\ at[t] = "finish"
    /\ completed' = [completed EXCEPT ![t] = @ + 1]
    /\ Goto(t, IF base[t] = "direct" THEN "exhausted" ELSE "done")
    /\ UNCHANGED <<session, locals, sent, attempts, prompts, observed, restarts>>

Finish(t) ==
    /\ at[t] = "finish"
    /\ completed' = [completed EXCEPT ![t] = @ + 1]
    /\ Goto(t, IF base[t] = "confirm" THEN "unconfirm" ELSE "done")
    /\ UNCHANGED <<session, locals, sent, attempts, prompts, observed, restarts>>

ConsumeConfirmation(t) ==
    /\ at[t] = "unconfirm"
    /\ pendingConfirmation' = None
    /\ Goto(t, "done")
    /\ UNCHANGED <<pendingReview, pendingQuery, shortMemory, locals, history>>

\* The deadline has passed, or the client went away: TurnDeadlineExceeded.
Abort(t) ==
    /\ MayAbort
    /\ at[t] \notin Resting
    /\ Goto(t, "aborted")
    /\ UNCHANGED <<session, locals, history>>

\* Any other exception of a tool ends the turn with turn.error.
Fail(t) ==
    /\ MayAbort
    /\ at[t] \notin Resting \cup {"unconfirm"}
    /\ completed' = [completed EXCEPT ![t] = @ + 1]
    /\ Goto(t, "done")
    /\ UNCHANGED <<session, locals, sent, attempts, prompts, observed, restarts>>

\* The dictionaries of the loop are gone; short_memory.jsonl is not.
Restart ==
    /\ restarts < MaxRestarts
    /\ restarts' = restarts + 1
    /\ pendingConfirmation' = None
    /\ pendingReview' = None
    /\ pendingQuery' = None
    /\ at' = [t \in Turns |-> IF at[t] \in Resting THEN at[t] ELSE "aborted"]
    /\ UNCHANGED <<shortMemory, locals, sent, attempts, prompts, observed, completed>>

Step(t) ==
    \/ Recall(t) \/ Hydrate(t)
    \/ CancelConfirmation(t) \/ AcceptConfirmation(t) \/ PassConfirmation(t)
    \/ ConfirmedExecute(t) \/ ConfirmationExpired(t) \/ ConfirmedUntracked(t)
    \/ ConfirmedTracked(t) \/ ConfirmedSucceeded(t) \/ ConfirmedUnverified(t)
    \/ ConfirmedRefused(t) \/ ConfirmedFailed(t)
    \/ NoReview(t) \/ CancelReview(t) \/ SupersedeReview(t) \/ HearFeedback(t)
    \/ IgnoreReview(t) \/ ContinueReview(t)
    \/ ReviewSucceeded(t) \/ ReviewStillPending(t) \/ ReviewExhausted(t)
    \/ NoteProgress(t) \/ NoteSuperseded(t) \/ NoteClosed(t) \/ ResolveFeedback(t)
    \/ AnswerQuery(t) \/ QueryFeedback(t) \/ NoQueryFeedback(t)
    \/ SkipAction(t) \/ AskConfirmation(t) \/ StartAction(t) \/ Execute(t)
    \/ DeferReview(t) \/ SubmittedUntracked(t) \/ ObserveAction(t)
    \/ ActionSucceeded(t) \/ ActionUnverified(t) \/ ActionFailed(t)
    \/ NoteExhausted(t) \/ NoteOpened(t) \/ OpenReview(t)
    \/ Finish(t) \/ ConsumeConfirmation(t)

Next ==
    \/ \E t \in Turns : Step(t) \/ Abort(t) \/ Fail(t)
    \/ \E t \in Turns, u \in Utterances : Arrive(t, u)
    \/ Restart

Spec == Init /\ [][Next]_vars

\* A turn runs on a thread of its own that the interpreter keeps scheduling, and every
\* tool call returns: each has a timeout.  Neither deadlines nor restarts are relied on.
FairSpec == Spec /\ \A t \in Turns : WF_vars(Step(t))

-----------------------------------------------------------------------------
(* What the turns of a session promise *)

TypeOK ==
    /\ pendingConfirmation \in Actions \cup {None}
    /\ pendingReview \in Review \cup {None}
    /\ pendingQuery \in [action : Actions \cup {None}] \cup {None}
    /\ shortMemory \in Seq(Record)
    /\ at \in [Turns -> Place]
    /\ said \in [Turns -> Utterances \cup {None}]
    /\ recalled \in [Turns -> Record \cup {None}]
    /\ act \in [Turns -> Actions \cup {None}]
    /\ done \in [Turns -> Nat]
    /\ obj \in [Turns -> (Turns \X BOOLEAN) \cup {None}]
    /\ base \in [Turns -> Base]
    /\ result \in [Turns -> Result \cup {None}]
    /\ sent \subseteq Submission
    /\ attempts \in [Turns -> Nat]
    /\ prompts \in [Actions -> Nat]
    /\ observed \in [Turns -> Nat]
    /\ completed \in [Turns -> Nat]
    /\ restarts \in Nat

\* However a turn winds through the confirmation, its own action and the reviews it
\* falls into, it sends the bridge one home.execute at most: the service was started
\* with one execute attempt and no automatic retry, and a failed review never re-sends.
OneCommandPerTurn == \A t \in Turns : attempts[t] <= 1

\* An action that needs confirmation reaches the bridge only as a confirmed request of
\* a turn whose text said yes and did not say no, after a prompt for that very action.
\* Nothing else the session remembers (a review, an open question) can send it.
ConfirmedByUser ==
    \A s \in sent : s.action \in ConfirmRequired =>
        /\ s.confirmed
        /\ said[s.turn] # None /\ said[s.turn].reply /\ ~said[s.turn].cancel
        /\ prompts[s.action] > 0

\* A review is only ever about a request the bridge accepted: also one that was carried
\* over a restart by the short memory, or opened while other turns were running.
ReviewedWasAccepted ==
    pendingReview # None =>
        \E s \in sent : s.action = pendingReview.action /\ s.result = "accepted"

\* A pending review is on record: an open record of its action is in the short memory
\* before the dictionary has it, so a restart at any point can bring it back.
ReviewOnRecord ==
    pendingReview # None =>
        \E i \in DOMAIN shortMemory :
            /\ shortMemory[i].action = pendingReview.action
            /\ shortMemory[i].status = "open"

\* A turn reports its end once: no path through the nested review handlers falls back
\* into the caller after turn.completed, and none comes back without one.
OneAnswerPerTurn ==
    \A t \in Turns : /\ completed[t] <= 1
                     /\ at[t] = "done" => completed[t] = 1

\* The observations counted for a pending review stay within its policy, although two
\* turns may write counts they computed from the same earlier one.
BudgetKept ==
    pendingReview # None => pendingReview.done <= ObservationAttempts[pendingReview.action]

\* One turn at a time spends no more observations on pending reviews than one policy
\* allows, the chain of automatic continuations included.
TurnWithinBudget ==
    \A t \in Turns : \A n \in 1..4 :
        (\A a \in Actions : ObservationAttempts[a] <= n) => observed[t] <= n

\* One turn at a time, inside its deadline, spends a confirmation: every accepted
\* confirmed request answers a prompt of its own.
OneSubmissionPerPrompt ==
    \A a \in Actions :
        Cardinality({s \in sent : s.action = a /\ s.confirmed /\ s.result = "accepted"})
            <= prompts[a]

\* The confirmation keeps the promise of HomeApproval where turns run one at a time and each
\* comes to its end. An accepted request is the approval, and the loop forgets what it asked
\* some steps later only (Forgets): until then the question is spent though still pending.
Forgets(t) ==
    \/ at[t] \in {"confirmed_result", "confirmed_observe"} /\ result[t] = "accepted"
    \/ at[t] \notin Resting /\ base[t] = "confirm"
Asked == IF \E t \in Turns : Forgets(t) THEN None ELSE pendingConfirmation
Yes == {t \in Turns : said[t] # None /\ said[t].reply /\ ~said[t].cancel}
Approved == {[turn |-> s.turn, action |-> s.action] :
                s \in {r \in sent : r.confirmed /\ r.result = "accepted"}}
Approval == INSTANCE HomeApproval WITH asked <- Asked, yes <- Yes, approved <- Approved
ApprovalSpec == Approval!Spec

\* How far a place is from the end of a turn, on the way that spends nothing.
Distance(place) ==
    CASE place \in {"done", "aborted"} -> 0
      [] place = "unconfirm" -> 1
      [] place = "finish" -> 2
      [] place \in {"closing", "exhausted", "confirm_failed", "query"} -> 3
      [] place \in {"feedback", "execute"} -> 4
      [] place = "plan" -> 5
      [] place = "rest" -> 6
      [] place = "supersede" -> 7
      [] place = "review" -> 8
      [] place \in {"progress", "opened", "confirmed_execute"} -> 9
      [] place \in {"observe", "opening", "confirmation"} -> 10
      [] place \in {"direct_observe", "confirmed_observe", "hydrate"} -> 11
      [] place \in {"result", "confirmed_result", "recall"} -> 12
      [] place = "idle" -> 13

\* What a turn may still do: a command and the observations of four attempts.
Allowance(t) == 10 * (5 - attempts[t] - observed[t]) + Distance(at[t])

\* Whatever other turns do to the session, a turn that moves comes closer to its end or
\* spends its command or an observation: no nested handler takes it back for nothing, so
\* that a turn that stays within its budget ends after a known number of steps.
TurnsAdvance ==
    [][\A t \in Turns : at'[t] # at[t] => Allowance(t)' < Allowance(t)]_vars

\* Every turn ends, however the reviews it continues are changed under it: the chain of
\* automatic continuations cannot go on forever.
EveryTurnEnds == \A t \in Turns : at[t] = "recall" ~> at[t] \in Resting
=============================================================================
