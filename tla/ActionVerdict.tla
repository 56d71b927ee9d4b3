--------------------------- MODULE ActionVerdict ---------------------------
(***************************************************************************)
(* How an action is judged: the target state imagined for it, the diff of  *)
(* that target with an observation, the plan before the action and the     *)
(* review after it, and what the answer of a language model may change.    *)
(* A state is seen relative to the one the action is to bring about.       *)
(***************************************************************************)
EXTENDS UtteranceReading

Builtin == [target : {"light", "aircon"}, verb : {"on", "off"}]
           \cup {[target |-> "door", verb |-> "open"]}

\* One source of state: a device of the snapshot, or the camera's estimate of the room.
Sight ==
    [state : {"expected", "other", "unknown"}, fresh : BOOLEAN, sure : BOOLEAN]

\* A snapshot: the device acted on, some other device, which of the two is listed first,
\* and the estimate of the room light.  None: not in it, or not available.
Observation ==
    [own : {s \in Sight : s.sure /\ s.state # "unknown"} \cup {None},
     other : {s \in Sight : s.sure /\ s.state # "unknown"} \cup {None},
     otherFirst : BOOLEAN,
     room : Sight \cup {None}]

Blind == [own |-> None, other |-> None, otherFirst |-> FALSE, room |-> None]

\* The one binding of a target state: is its scope "required", and does it name a device
\* of its own accord beside the one acted on?  None stands for a target state without one.
Binding == [required : BOOLEAN, strays : BOOLEAN]

\* LocalActionReasoner.imagine_target_state.
LocalBinding == [required |-> TRUE, strays |-> FALSE]

\* _merge_llm_target_state: the model's binding takes the place of the local one when kind,
\* target and value agree; its aliases are not looked at, and a missing scope agrees.
MergeBindings(local, offered) == IF offered = None THEN local ELSE offered

\* _observed_state_for_binding: the first device listed that the binding names, and the
\* camera for a light that no device reports.
ObservedState(a, b, o) ==
    IF b.strays /\ o.other # None /\ (o.otherFirst \/ o.own = None) THEN o.other
    ELSE IF o.own # None THEN o.own
    ELSE When(a.target = "light", o.room)

StaleIsFineBug(a, b, o) ==
    IF b = None THEN "unsupported"
    ELSE IF ~b.required THEN "matched"
    ELSE LET seen == ObservedState(a, b, o)
         IN  IF seen = None THEN "pending"
             ELSE IF seen.state = "expected" THEN "matched"
             ELSE IF ~seen.fresh \/ ~seen.sure THEN "pending" ELSE "mismatch"

\* evaluate_target_state: bindings that are not required are skipped, and a target state
\* none of whose bindings differs is matched.
EvaluateTarget(a, b, o) ==
    IF b = None THEN "unsupported"
    ELSE IF ~b.required THEN "matched"
    ELSE LET seen == ObservedState(a, b, o)
         IN  IF seen = None THEN "pending"
             ELSE IF ~seen.fresh \/ ~seen.sure THEN "pending"
             ELSE IF seen.state = "expected" THEN "matched" ELSE "mismatch"

\* LocalActionReasoner.plan_command.
LocalPlan(a, b, o, preview) ==
    IF preview = "noop" \/ EvaluateTarget(a, b, o) = "matched" THEN "already_satisfied"
    ELSE IF preview = "failed" THEN "unavailable" ELSE "ready"

\* _merge_llm_command_plan: another status than the local one is only noted.
MergePlanBug(local, offered) == offered

MergePlan(local, offered) == IF offered = local THEN offered ELSE local

Accepted(result) == result = "accepted"

\* LocalActionReasoner.review_target_state.
LocalReview(a, b, o, result) ==
    IF ~Accepted(result) THEN "execute_failed"
    ELSE LET diff == EvaluateTarget(a, b, o)
         IN  IF diff = "matched" THEN "succeeded"
             ELSE IF diff = "mismatch" THEN "mismatch" ELSE "pending"

\* _merge_llm_review: the model may doubt a verdict one way or the other, and no more.
ReviewTakenBug(local, offered) == offered

MergeReview(local, offered) ==
    LET allowed == CASE local \in {"mismatch", "pending"} -> {"mismatch", "pending"}
                     [] OTHER -> {local}
    IN  IF offered \in allowed THEN offered ELSE local

\* _review_device_state and _review_room_light_state, for a target state without bindings.
ReviewDevice(o) ==
    IF o.own = None THEN None
    ELSE IF ~o.own.fresh THEN "pending"
    ELSE IF o.own.state = "expected" THEN "succeeded" ELSE "mismatch"

ReviewRoomLight(a, o) ==
    IF a.target # "light" \/ o.room = None THEN None
    ELSE IF ~o.room.fresh \/ ~o.room.sure \/ o.room.state = "unknown" THEN "pending"
    ELSE IF o.room.state = "expected" THEN "succeeded" ELSE "mismatch"

\* ThoughtLoop._review_action_result; offered is what the model answers, None when it is
\* not asked, and "error" when asking it raised.
ReviewAction(a, b, o, result, offered) ==
    IF b # None THEN
        IF offered = "error" THEN "pending"
        ELSE IF offered = None THEN LocalReview(a, b, o, result)
        ELSE MergeReview(LocalReview(a, b, o, result), offered)
    ELSE IF ~Accepted(result) THEN "execute_failed"
    ELSE FirstOf(<<ReviewDevice(o), ReviewRoomLight(a, o), "pending">>)
=============================================================================
