------------------------- MODULE UtteranceReading -------------------------
(***************************************************************************)
(* How a text is read: LocalInputUnderstanding and the detectors of home   *)
(* actions.  Both look for marker words anywhere in the text, so a text is *)
(* the set of the cues it holds; a cue stands for the markers that are in  *)
(* the same lists (the table in the README names one text for each).       *)
(* Nothing here has state: HomeTurn composes these readings into a turn.   *)
(*                                                                         *)
(* A definition named ...Bug is the one after it with a plausible mistake  *)
(* in it; no specification uses it.                                        *)
(***************************************************************************)
EXTENDS Naturals, FiniteSetsExt

CONSTANT None

Cue ==
    {"light", "aircon", "door", "home",             \* what is spoken of
     "on", "off", "open",                           \* turn it on, turn it off, open it
     "is_on", "is_off", "daylight", "unsure",       \* how it is, or nobody can tell
     "state", "now", "memory",                      \* the state, right now, as before
     "ask", "check", "able",                        \* "?", have a look, can it be used
     "negate", "cancel", "stop",                    \* don't, cancel, leave it
     "please", "yes", "no",
     "hear", "dance", "and"}

Has(t, cues) == t \cap cues # {}

\* A list of readings, and the first of them that fits.
When(fits, reading) == IF fits THEN reading ELSE None

FirstOf(readings) ==
    LET fits == {i \in DOMAIN readings : readings[i] # None}
    IN  IF fits = {} THEN None ELSE readings[Min(fits)]

-----------------------------------------------------------------------------
(* input_understanding.py *)

\* "have a look" is a marker of a command too: it ends like one.
LooksLikeCommand(t) == Has(t, {"on", "off", "open", "check", "please"})

ExplicitLabel(t) ==
    FirstOf(<<When("daylight" \in t, "daylight"), When("unsure" \in t, "unknown"),
              When("is_off" \in t, "off"), When("is_on" \in t, "on")>>)

IsLightQuestion(t) ==
    "light" \in t /\ ~LooksLikeCommand(t) /\ Has(t, {"ask", "check"})

IsAudioCheck(t) == "hear" \in t /\ Has(t, {"ask", "check"})

\* A report of the light nobody asked for: not a question, and not a command unless the
\* text also speaks of how things are (the door's name holds one of those markers).
DirectLabel(t) ==
    IF /\ "light" \in t /\ ~IsLightQuestion(t) /\ ~Has(t, {"ask", "check"})
       /\ Has(t, {"on", "off"}) => Has(t, {"now", "state", "door"})
    THEN ExplicitLabel(t) ELSE None

\* An answer to the open question, whose predicted state is given (None: no question).
PendingLabel(t, predicted) ==
    IF IsLightQuestion(t) THEN None
    ELSE FirstOf(<<
        ExplicitLabel(t),
        When(predicted # None /\ "yes" \in t, IF predicted = "unknown" THEN "on" ELSE predicted),
        When(predicted = "on" /\ "no" \in t, "off"),
        When(predicted = "off" /\ "no" \in t, "on"),
        When(predicted \notin {"on", "off", None} /\ "no" \in t, "unknown")>>)

\* What a status question is about; an appliance comes before its surroundings.
StatusTarget(t) ==
    FirstOf(<<When(Has(t, {"aircon", "door"}), "appliance"),
              When("home" \in t, "home_control"),
              When({"memory", "state"} \subseteq t, "memory"),
              When("state" \in t, "environment")>>)

StatusScore(t) == Cardinality(t \cap {"ask", "check", "state", "is_on", "is_off"})

IsActionOnly(t) ==
    Has(t, {"on", "off", "open"}) /\ ~Has(t, {"ask", "check", "state", "is_on", "is_off"})

\* The two classes a question about the home control falls in.
HomeControlQuery(t) ==
    IF Has(t, {"state", "is_on", "is_off"}) THEN "appliance_state" ELSE "availability"

\* _structured_status_query_metadata: a target, and a marker that asks or tells.
StructuredQuery(t) ==
    IF StatusScore(t) = 0 \/ (StatusTarget(t) = "appliance" /\ IsActionOnly(t)) THEN None
    ELSE FirstOf(<<When(StatusTarget(t) = "appliance", "appliance_state"),
                   When(StatusTarget(t) = "home_control", HomeControlQuery(t)),
                   StatusTarget(t)>>)

\* _environment_status_query_metadata: what is left for texts the score says nothing of.
EnvironmentQuery(t) ==
    LET asks == ~LooksLikeCommand(t) /\ Has(t, {"ask", "check", "able"})
    IN  FirstOf(<<StructuredQuery(t),
                  When(asks /\ {"memory", "state"} \subseteq t, "memory"),
                  When(asks /\ "home" \in t, HomeControlQuery(t)),
                  When(asks /\ "state" \in t, "environment")>>)

IsMotionRequest(t) == "dance" \in t

-----------------------------------------------------------------------------
(* tools.py *)

IsNegative(t) == Has(t, {"negate", "cancel"})

TargetGroups(t) == t \cap {"light", "aircon", "door"}

\* The built-in actions a text names: each is a target and a verb.
BuiltinActions(t) ==
    {a \in [target : TargetGroups(t), verb : t \cap {"on", "off", "open"}] :
        (a.verb = "open") <=> (a.target = "door")}

\* An action of the environment's registry is named by its label and its verb.
RegistryActions(t, registry) ==
    {a \in registry : {a.target, a.verb} \subseteq t}

TheOnly(S) == IF Cardinality(S) = 1 THEN CHOOSE a \in S : TRUE ELSE None

TakesAnyBug(t, registry) ==
    IF IsNegative(t) \/ BuiltinActions(t) = {} THEN None
    ELSE CHOOSE a \in BuiltinActions(t) : TRUE

\* detect_home_action_intent before and after the environment was observed.
ActionIntent(t, registry) ==
    IF IsNegative(t) THEN None
    ELSE IF TheOnly(RegistryActions(t, registry)) # None
    THEN TheOnly(RegistryActions(t, registry)) ELSE TheOnly(BuiltinActions(t))

\* "leave it" holds one of the markers that join two targets.
IsAmbiguous(t) ==
    ~IsNegative(t) /\ Cardinality(TargetGroups(t)) > 1 /\ Has(t, {"and", "stop"})

NamesNegatedAction(t) == IsNegative(t) /\ TargetGroups(t) # {}

\* detect_room_light_state_query, the older reading the loop still asks last.
IsLightStateQuery(t) ==
    "light" \in t /\ ~Has(t, {"on", "off"}) /\ Has(t, {"is_on", "is_off", "state"})

-----------------------------------------------------------------------------
(* LocalInputUnderstanding.understand: the first reading that fits. *)

Frame(kind, label, direct, command) ==
    [kind |-> kind, label |-> label, direct |-> direct, command |-> command]

Understand(t, predicted) ==
    LET intends == ActionIntent(t, {}) # None
        acts == intends /\ LooksLikeCommand(t)
    IN  FirstOf(<<
            When(IsLightQuestion(t), Frame("state_query", None, FALSE, FALSE)),
            When(IsAudioCheck(t), Frame("audio_check", None, FALSE, FALSE)),
            When(DirectLabel(t) # None, Frame("state_feedback", DirectLabel(t), TRUE, acts)),
            When(EnvironmentQuery(t) # None,
                 Frame("environment_status_query", None, FALSE, FALSE)),
            When(PendingLabel(t, predicted) # None,
                 Frame("state_feedback", PendingLabel(t, predicted), FALSE, acts)),
            When(intends, Frame("home_command", None, FALSE, TRUE)),
            When(IsMotionRequest(t), Frame("motion_request", None, FALSE, TRUE)),
            Frame("general", None, FALSE, FALSE)>>)

\* _is_confirmation_reply and _is_confirmation_cancel; "don't" alone cancels nothing.
IsConfirmationReply(t) == Has(t, {"please", "yes"})

IsConfirmationCancel(t) == Has(t, {"cancel", "stop", "no"})

\* _input_requests_home_action: does the text also ask for something to be done?
RequestsAction(t, frame) ==
    frame.command \/ (LooksLikeCommand(t) /\ (ActionIntent(t, {}) # None \/ IsAmbiguous(t)))
=============================================================================
