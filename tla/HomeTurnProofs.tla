-------------------------- MODULE HomeTurnProofs --------------------------
(***************************************************************************)
(* Theorems about HomeTurn, for any texts, observations, registry,         *)
(* policies and number of attempts, and whatever a language model answers: *)
(* what is learnt was said, what is done was asked for, and what is told   *)
(* was observed.                                                           *)
(***************************************************************************)
EXTENDS HomeTurn, WellFoundedInduction, FiniteSetTheorems, TLAPS

-----------------------------------------------------------------------------
(* The first reading that fits *)

\* The first reading is one of the list, and there is none only if no reading fits.
LEMMA FirstOfIsOne ==
  ASSUME NEW readings, DOMAIN readings \subseteq Nat
  PROVE  \/ FirstOf(readings) = None /\ \A i \in DOMAIN readings : readings[i] = None
         \/ \E i \in DOMAIN readings :
               /\ readings[i] # None /\ FirstOf(readings) = readings[i]
               /\ \A j \in DOMAIN readings : readings[j] # None => i <= j
<1> DEFINE fits == {i \in DOMAIN readings : readings[i] # None}
           Before == OpToRel(<, Nat)
<1>1. IsWellFoundedOn(Before, Nat)
  BY NatLessThanWellFounded
<1>2. \A k, m \in Nat : k < m => <<k, m>> \in Before
  BY DEF OpToRel
<1>3. CASE fits = {}
  BY <1>3 DEF FirstOf
<1>4. CASE fits # {}
  <2> HIDE DEF Before
  <2>1. PICK m \in fits : \A k \in fits : ~ (<<k, m>> \in Before)
    <3> HIDE DEF fits
    <3>1. fits \subseteq Nat
      BY DEF fits
    <3> QED
      BY <1>1, <1>4, <3>1, WFMin
  <2>2. ASSUME NEW k \in fits PROVE m <= k
    <3>1. k \in Nat /\ m \in Nat
      OBVIOUS
    <3>2. ~ (<<k, m>> \in Before)
      BY <2>1
    <3>3. ~ (k < m)
      BY <1>2, <3>1, <3>2, Zenon
    <3> QED
      BY <3>1, <3>3
  <2>3. Min(fits) \in fits /\ \A k \in fits : Min(fits) <= k
    BY <2>2 DEF Min
  <2>4. FirstOf(readings) = readings[Min(fits)]
    BY <1>4 DEF FirstOf
  <2> QED
    BY <2>3, <2>4
<1> QED
  BY <1>3, <1>4

-----------------------------------------------------------------------------
(* What the words say *)

Label == {"on", "off", "daylight", "unknown"}

LEMMA NoneIsNoWord ==
  /\ None \notin Label /\ None \notin {"succeeded", "mismatch", "pending"}
  /\ None \notin Sight \cup Builtin \cup Binding /\ LocalBinding # None
<1>1. LocalBinding \in Binding
  BY DEF LocalBinding, Binding
<1> QED
  BY <1>1, HomeTurnAssumption DEF Label

\* The label a text names is a label.
LEMMA ExplicitLabelType == ASSUME NEW t PROVE ExplicitLabel(t) \in Label \cup {None}
<1> DEFINE readings == <<When("daylight" \in t, "daylight"), When("unsure" \in t, "unknown"),
              When("is_off" \in t, "off"), When("is_on" \in t, "on")>>
<1>1. \A i \in 1..4 : readings[i] \in Label \cup {None}
  BY DEF When, Label
<1>2. DOMAIN readings = 1..4
  OBVIOUS
<1>3. ExplicitLabel(t) = FirstOf(readings)
  BY DEF ExplicitLabel
<1> HIDE DEF readings
<1> QED
  BY <1>1, <1>2, <1>3, FirstOfIsOne

\* An answer is a label: the one the text names, what the camera said with a yes, or
\* something else with a no.
LEMMA PendingLabelSaid ==
  ASSUME NEW t, NEW p \in Label \cup {None}, PendingLabel(t, p) # None
  PROVE  /\ PendingLabel(t, p) \in Label
         /\ ~IsLightQuestion(t)
         /\ \/ PendingLabel(t, p) = ExplicitLabel(t)
            \/ "yes" \in t
            \/ "no" \in t /\ (PendingLabel(t, p) = "unknown" \/ PendingLabel(t, p) # p)
<1> DEFINE readings == <<
        ExplicitLabel(t),
        When(p # None /\ "yes" \in t, IF p = "unknown" THEN "on" ELSE p),
        When(p = "on" /\ "no" \in t, "off"),
        When(p = "off" /\ "no" \in t, "on"),
        When(p \notin {"on", "off", None} /\ "no" \in t, "unknown")>>
<1>1. ~IsLightQuestion(t) /\ PendingLabel(t, p) = FirstOf(readings)
  BY DEF PendingLabel
<1>2. DOMAIN readings = 1..5
  OBVIOUS
<1>3. PICK i \in 1..5 : readings[i] # None /\ PendingLabel(t, p) = readings[i]
  <2> HIDE DEF readings
  <2> QED
    BY <1>1, <1>2, FirstOfIsOne
<1>4. CASE i = 1
  BY <1>1, <1>3, <1>4, ExplicitLabelType
<1>5. CASE i = 2
  BY <1>1, <1>3, <1>5 DEF When, Label
<1>6. CASE i = 3
  BY <1>1, <1>3, <1>6 DEF When, Label
<1>7. CASE i = 4
  BY <1>1, <1>3, <1>7 DEF When, Label
<1>8. CASE i = 5
  BY <1>1, <1>3, <1>8 DEF When, Label
<1> QED
  BY <1>4, <1>5, <1>6, <1>7, <1>8

\* A text that names a label and is no question is an answer, whatever the camera said.
LEMMA LabelAnswers ==
  ASSUME NEW t, NEW p, ExplicitLabel(t) # None, ~IsLightQuestion(t)
  PROVE  PendingLabel(t, p) # None
<1> DEFINE readings == <<
        ExplicitLabel(t),
        When(p # None /\ "yes" \in t, IF p = "unknown" THEN "on" ELSE p),
        When(p = "on" /\ "no" \in t, "off"),
        When(p = "off" /\ "no" \in t, "on"),
        When(p \notin {"on", "off", None} /\ "no" \in t, "unknown")>>
<1>1. PendingLabel(t, p) = FirstOf(readings)
  BY DEF PendingLabel
<1>2. DOMAIN readings = 1..5 /\ readings[1] # None
  OBVIOUS
<1> HIDE DEF readings
<1> QED
  BY <1>1, <1>2, FirstOfIsOne

\* A report nobody asked for names its label, speaks of the light and is no question.
LEMMA DirectLabelSaid ==
  ASSUME NEW t, DirectLabel(t) # None
  PROVE  /\ DirectLabel(t) = ExplicitLabel(t)
         /\ DirectLabel(t) \in Label
         /\ "light" \in t
         /\ ~IsLightQuestion(t)
BY ExplicitLabelType DEF DirectLabel

\* A text taken for feedback is a report nobody asked for, or an answer.
LEMMA FeedbackFrame ==
  ASSUME NEW t, NEW p, Understand(t, p).kind = "state_feedback"
  PROVE  \/ Understand(t, p).label = DirectLabel(t) /\ DirectLabel(t) # None
         \/ /\ ~Understand(t, p).direct
            /\ Understand(t, p).label = PendingLabel(t, p) /\ PendingLabel(t, p) # None
<1> DEFINE intends == ActionIntent(t, {}) # None
           acts == intends /\ LooksLikeCommand(t)
           readings == <<
            When(IsLightQuestion(t), Frame("state_query", None, FALSE, FALSE)),
            When(IsAudioCheck(t), Frame("audio_check", None, FALSE, FALSE)),
            When(DirectLabel(t) # None, Frame("state_feedback", DirectLabel(t), TRUE, acts)),
            When(EnvironmentQuery(t) # None,
                 Frame("environment_status_query", None, FALSE, FALSE)),
            When(PendingLabel(t, p) # None,
                 Frame("state_feedback", PendingLabel(t, p), FALSE, acts)),
            When(intends, Frame("home_command", None, FALSE, TRUE)),
            When(IsMotionRequest(t), Frame("motion_request", None, FALSE, TRUE)),
            Frame("general", None, FALSE, FALSE)>>
<1>1. Understand(t, p) = FirstOf(readings)
  BY DEF Understand
<1>2. DOMAIN readings = 1..8 /\ readings[8] = Frame("general", None, FALSE, FALSE)
  OBVIOUS
<1>3. \E i \in 1..8 : Understand(t, p) = readings[i] /\ (readings[i] # None \/ i = 8)
  <2> HIDE DEF readings
  <2> QED
    BY <1>1, <1>2, FirstOfIsOne
<1>4. PICK i \in 1..8 : Understand(t, p) = readings[i] /\ (readings[i] # None \/ i = 8)
  BY <1>3
<1>5. CASE i = 3
  BY <1>4, <1>5 DEF When, Frame
<1>6. CASE i = 5
  BY <1>4, <1>6 DEF When, Frame
<1>7. CASE i \in {1, 2, 4, 6, 7, 8}
  BY <1>4, <1>7 DEF When, Frame
<1> QED
  BY <1>5, <1>6, <1>7

LEMMA BuiltinFinite == \A S : S \subseteq Builtin => IsFiniteSet(S)
<1> DEFINE a(t, v) == [target |-> t, verb |-> v]
<1>1. Builtin \subseteq {a("light", "on")} \cup {a("light", "off")} \cup {a("aircon", "on")}
        \cup {a("aircon", "off")} \cup {a("door", "open")}
  BY DEF Builtin
<1>2. IsFiniteSet({a("light", "on")} \cup {a("light", "off")})
  BY FS_Singleton, FS_Union
<1>3. IsFiniteSet({a("light", "on")} \cup {a("light", "off")} \cup {a("aircon", "on")})
  BY <1>2, FS_Singleton, FS_Union
<1>4. IsFiniteSet({a("light", "on")} \cup {a("light", "off")} \cup {a("aircon", "on")}
        \cup {a("aircon", "off")})
  BY <1>3, FS_Singleton, FS_Union
<1>5. IsFiniteSet({a("light", "on")} \cup {a("light", "off")} \cup {a("aircon", "on")}
        \cup {a("aircon", "off")} \cup {a("door", "open")})
  BY <1>4, FS_Singleton, FS_Union
<1> HIDE DEF a
<1>6. IsFiniteSet(Builtin)
  BY <1>1, <1>5, FS_Subset
<1> QED
  BY <1>6, FS_Subset

\* The only action of a set is its one element.
LEMMA TheOnlyIsAlone ==
  ASSUME NEW S, S \subseteq Builtin, TheOnly(S) # None
  PROVE  S = {TheOnly(S)}
<1>1. IsFiniteSet(S) /\ Cardinality(S) = 1
  BY BuiltinFinite DEF TheOnly
<1>2. PICK x : S = {x}
  BY <1>1, FS_Singleton
<1>3. (CHOOSE a \in S : TRUE) = x
  BY <1>2
<1> QED
  BY <1>1, <1>2, <1>3 DEF TheOnly

\* A text with an intent is not negated, names one built-in action and is a command, and
\* no name of the environment's registry makes another action of it.
LEMMA IntentNamed ==
  ASSUME NEW t, NEW known, known \subseteq Builtin, ActionIntent(t, {}) # None
  PROVE  /\ ~IsNegative(t)
         /\ BuiltinActions(t) = {ActionIntent(t, known)}
         /\ ActionIntent(t, known) \in Builtin
         /\ LooksLikeCommand(t)
<1>1. BuiltinActions(t) \subseteq Builtin
  BY DEF BuiltinActions, Builtin, TargetGroups
<1>2. RegistryActions(t, known) \subseteq BuiltinActions(t)
  BY DEF RegistryActions, BuiltinActions, Builtin, TargetGroups
<1>3. TheOnly(RegistryActions(t, {})) = None
  BY FS_EmptySet DEF RegistryActions, TheOnly
<1>4. ~IsNegative(t) /\ TheOnly(BuiltinActions(t)) # None
  BY <1>3 DEF ActionIntent
<1>5. BuiltinActions(t) = {TheOnly(BuiltinActions(t))}
  BY <1>1, <1>4, TheOnlyIsAlone
<1>6. CASE TheOnly(RegistryActions(t, known)) # None
  <2>1. RegistryActions(t, known) = {TheOnly(RegistryActions(t, known))}
    BY <1>1, <1>2, <1>6, TheOnlyIsAlone
  <2>2. ActionIntent(t, known) = TheOnly(BuiltinActions(t))
    BY <1>2, <1>4, <1>5, <1>6, <2>1 DEF ActionIntent
  <2> QED
    BY <1>1, <1>4, <1>5, <2>2 DEF BuiltinActions, LooksLikeCommand, Has
<1>7. CASE TheOnly(RegistryActions(t, known)) = None
  <2>1. ActionIntent(t, known) = TheOnly(BuiltinActions(t))
    BY <1>4, <1>7 DEF ActionIntent
  <2> QED
    BY <1>1, <1>4, <1>5, <2>1 DEF BuiltinActions, LooksLikeCommand, Has
<1> QED
  BY <1>6, <1>7

-----------------------------------------------------------------------------
(* What the snapshot shows *)

ShownOf(a, o) ==
    IF o.own # None THEN o.own ELSE IF a.target = "light" THEN o.room ELSE None

IsShown(a, o) ==
    /\ ShownOf(a, o) # None
    /\ ShownOf(a, o).fresh /\ ShownOf(a, o).sure /\ ShownOf(a, o).state = "expected"

\* The local target state is matched only by a state of the device acted on, or of a light
\* no device reports, that can be relied on.
LEMMA MatchedIsShown ==
  ASSUME NEW a, NEW o, EvaluateTarget(a, LocalBinding, o) = "matched"
  PROVE  IsShown(a, o)
<1>1. LocalBinding # None
  BY NoneIsNoWord
<1> QED
  BY <1>1 DEF EvaluateTarget, LocalBinding, ObservedState, When, ShownOf, IsShown

\* A review succeeds only of an accepted request whose effect is shown: whatever a model
\* offers, and also without a target state.
LEMMA SucceededIsShown ==
  ASSUME NEW a, NEW b \in {None, LocalBinding}, NEW o \in Observation \cup {Blind},
         NEW r, NEW offered,
         ReviewAction(a, b, o, r, offered) = "succeeded"
  PROVE  Accepted(r) /\ IsShown(a, o)
<1>1. LocalBinding # None
  BY NoneIsNoWord
<1>2. CASE b = LocalBinding
  <2>1. LocalReview(a, b, o, r) = "succeeded"
    BY <1>1, <1>2 DEF ReviewAction, MergeReview
  <2>2. Accepted(r) /\ EvaluateTarget(a, LocalBinding, o) = "matched"
    BY <1>2, <2>1 DEF LocalReview
  <2> QED
    BY <2>2, MatchedIsShown
<1>3. CASE b = None
  <2> DEFINE readings == <<ReviewDevice(o), ReviewRoomLight(a, o), "pending">>
  <2>1. Accepted(r) /\ FirstOf(readings) = "succeeded"
    BY <1>3 DEF ReviewAction
  <2>2. DOMAIN readings = 1..3
    OBVIOUS
  <2>3. PICK i \in 1..3 : /\ readings[i] = "succeeded"
                          /\ \A j \in 1..3 : readings[j] # None => i <= j
    <3>1. "succeeded" # None
      BY NoneIsNoWord
    <3> HIDE DEF readings
    <3> QED
      BY <2>1, <2>2, <3>1, FirstOfIsOne
  <2>4. CASE i = 1
    <3>1. o.own # None /\ o.own.fresh /\ o.own.state = "expected"
      BY <2>3, <2>4, NoneIsNoWord DEF ReviewDevice
    <3>2. o.own.sure
      BY <3>1 DEF Observation, Blind
    <3> QED
      BY <2>1, <3>1, <3>2 DEF IsShown, ShownOf
  <2>5. CASE i = 2
    <3>1. ReviewDevice(o) = None
      BY <2>3, <2>5
    <3>2. o.own = None
      BY <3>1, NoneIsNoWord DEF ReviewDevice
    <3>3. a.target = "light" /\ o.room # None /\ o.room.fresh /\ o.room.sure
            /\ o.room.state = "expected"
      BY <2>3, <2>5, NoneIsNoWord DEF ReviewRoomLight
    <3> QED
      BY <2>1, <3>2, <3>3 DEF IsShown, ShownOf
  <2>6. CASE i = 3
    BY <2>3, <2>6
  <2> QED
    BY <2>4, <2>5, <2>6
<1> QED
  BY <1>2, <1>3

-----------------------------------------------------------------------------
(* The invariant *)

\* Where the turn is says what it still carries: the reading of the text it has just heard,
\* a question only if the text asks for nothing, the action it works on, attempts it may
\* still make, and no verdict before it is done.
Flow ==
    /\ stage = "heard" => frame = Understand(text, Predicted)
    /\ stage = "decide" => question = None \/ ~RequestsAction(text, frame)
    /\ stage \in {"plan", "execute", "observe", "review"} => action.act \in Builtin
    /\ stage \in {"idle", "heard", "decide", "plan"} => attempt = 0
    /\ stage = "execute" => attempt < MaxAttempts
    /\ review = "succeeded" => stage = "done"
    /\ outcome = "satisfied" => stage = "done"

IInv == TypeOK /\ Flow /\ NewActionClosesQuestion

LEMMA InitIInv == Init => IInv
<1> SUFFICES ASSUME Init PROVE IInv
  OBVIOUS
<1>1. TypeOK
  BY HomeTurnAssumption DEF Init, TypeOK, NoAction
<1>2. Flow /\ NewActionClosesQuestion
  BY HomeTurnAssumption DEF Init, Flow, NewActionClosesQuestion
<1> QED
  BY <1>1, <1>2 DEF IInv

\* What an answer to the question, or a report nobody asked for, may hold.
LEMMA AnswerSaid ==
  ASSUME IInv, stage = "heard", AnswerToQuestion # None
  PROVE  /\ question # None
         /\ AnswerToQuestion \in Label
         /\ ~IsLightQuestion(text)
         /\ \/ AnswerToQuestion = ExplicitLabel(text)
            \/ "yes" \in text
            \/ /\ "no" \in text
               /\ AnswerToQuestion = "unknown" \/ AnswerToQuestion # question.predicted
<1>1. question # None /\ Predicted = question.predicted
  BY DEF AnswerToQuestion, Predicted
<1>2. Predicted \in Label \cup {None}
  BY <1>1 DEF IInv, TypeOK, Label
<1>3. frame = Understand(text, Predicted)
  BY DEF IInv, Flow
<1> DEFINE readings == <<When(frame.kind = "state_feedback", frame.label),
                         PendingLabel(text, Predicted)>>
<1>4. PICK i \in 1..2 : readings[i] # None /\ AnswerToQuestion = readings[i]
  <2>1. DOMAIN readings = 1..2 /\ AnswerToQuestion = FirstOf(readings)
    BY <1>1 DEF AnswerToQuestion
  <2> HIDE DEF readings
  <2> QED
    BY <2>1, FirstOfIsOne
<1>5. \/ AnswerToQuestion = DirectLabel(text) /\ DirectLabel(text) # None
      \/ AnswerToQuestion = PendingLabel(text, Predicted) /\ PendingLabel(text, Predicted) # None
  <2>1. CASE i = 1
    <3>1. frame.kind = "state_feedback" /\ AnswerToQuestion = frame.label
      BY <1>4, <2>1 DEF When
    <3> QED
      BY <1>3, <3>1, FeedbackFrame
  <2>2. CASE i = 2
    BY <1>4, <2>2
  <2> QED
    BY <2>1, <2>2
<1>6. CASE AnswerToQuestion = DirectLabel(text) /\ DirectLabel(text) # None
  BY <1>1, <1>6, DirectLabelSaid
<1>7. CASE AnswerToQuestion = PendingLabel(text, Predicted) /\ PendingLabel(text, Predicted) # None
  BY <1>1, <1>2, <1>7, PendingLabelSaid
<1> QED
  BY <1>5, <1>6, <1>7

LEMMA ReportSaid ==
  ASSUME IInv, stage = "heard", AnswerToQuestion = None, DirectReport # None
  PROVE  /\ question = None
         /\ DirectReport = ExplicitLabel(text) /\ DirectReport \in Label
         /\ "light" \in text /\ ~IsLightQuestion(text)
<1>1. frame = Understand(text, Predicted)
  BY DEF IInv, Flow
<1>2. DirectReport = DirectLabel(text) /\ DirectLabel(text) # None
  <2> DEFINE readings == <<When(frame.kind = "state_feedback" /\ frame.direct, frame.label),
                           DirectLabel(text)>>
  <2>1. PICK i \in 1..2 : readings[i] # None /\ DirectReport = readings[i]
    <3>1. DOMAIN readings = 1..2 /\ DirectReport = FirstOf(readings)
      BY DEF DirectReport
    <3> HIDE DEF readings
    <3> QED
      BY <3>1, FirstOfIsOne
  <2>2. CASE i = 1
    BY <1>1, <2>1, <2>2, FeedbackFrame DEF When
  <2>3. CASE i = 2
    BY <2>1, <2>3
  <2> QED
    BY <2>2, <2>3
<1>3. /\ DirectLabel(text) = ExplicitLabel(text) /\ DirectLabel(text) \in Label
      /\ "light" \in text /\ ~IsLightQuestion(text)
  BY <1>2, DirectLabelSaid
<1>4. PendingLabel(text, Predicted) # None
  BY <1>2, <1>3, LabelAnswers
<1>5. question = None
  <2> DEFINE readings == <<When(frame.kind = "state_feedback", frame.label),
                           PendingLabel(text, Predicted)>>
  <2> SUFFICES ASSUME question # None PROVE FALSE
    OBVIOUS
  <2>1. DOMAIN readings = 1..2 /\ FirstOf(readings) = None /\ readings[2] # None
    BY <1>4 DEF AnswerToQuestion
  <2> HIDE DEF readings
  <2> QED
    BY <2>1, FirstOfIsOne
<1> QED
  BY <1>2, <1>3, <1>5

\* The state a step of the turn is about, when nothing but the stage and the outcome changes.
LEMMA Leaving ==
  ASSUME IInv, NEW status, status # "satisfied", stage \in {"heard", "decide"}, Complete(status),
         UNCHANGED <<question, confirmation, text, frame, saved, action, pipeline>>
  PROVE  IInv'
<1> USE DEF IInv, Complete, pipeline
<1>1. TypeOK'
  BY DEF TypeOK
<1>2. Flow'
  BY DEF Flow, Predicted
<1>3. NewActionClosesQuestion'
  BY DEF NewActionClosesQuestion
<1> QED
  BY <1>1, <1>2, <1>3

LEMMA StepIInv == IInv /\ [Next]_vars => IInv'
<1> SUFFICES ASSUME IInv, [Next]_vars PROVE IInv'
  OBVIOUS
<1> USE HomeTurnAssumption
<1>1. CASE UNCHANGED vars
  BY <1>1 DEF IInv, TypeOK, Flow, NewActionClosesQuestion, Predicted, vars, session, pipeline
<1>2. ASSUME NEW t \in Texts, Hear(t) PROVE IInv'
  <2>1. TypeOK'
    BY <1>2 DEF IInv, TypeOK, Hear, session, pipeline
  <2>2. Flow'
    BY <1>2 DEF IInv, Flow, Predicted, Hear, session, pipeline
  <2>3. NewActionClosesQuestion'
    BY <1>2 DEF NewActionClosesQuestion, Hear, session, pipeline
  <2> QED
    BY <2>1, <2>2, <2>3 DEF IInv
<1>3. CASE Rest
  <2>1. TypeOK'
    BY <1>3 DEF IInv, TypeOK, Rest, session, NoAction
  <2>2. Flow' /\ NewActionClosesQuestion'
    BY <1>3 DEF Flow, NewActionClosesQuestion, Rest
  <2> QED
    BY <2>1, <2>2 DEF IInv
<1>4. CASE QuestionAges
  <2>1. TypeOK'
    BY <1>4 DEF IInv, TypeOK, QuestionAges, pipeline
  <2>2. Flow' /\ NewActionClosesQuestion'
    BY <1>4 DEF IInv, Flow, NewActionClosesQuestion, QuestionAges, pipeline
  <2> QED
    BY <2>1, <2>2 DEF IInv
<1>5. CASE CancelConfirmation
  <2>1. TypeOK'
    BY <1>5 DEF IInv, TypeOK, CancelConfirmation, Takes, Complete, pipeline
  <2>2. Flow' /\ NewActionClosesQuestion'
    BY <1>5 DEF IInv, Flow, NewActionClosesQuestion, CancelConfirmation, Takes, Complete, pipeline
  <2> QED
    BY <2>1, <2>2 DEF IInv
<1>6. CASE ConfirmAction
  <2>1. confirmation # None /\ stage = "heard"
    <3>1. DOMAIN <<
        When(confirmation # None /\ IsConfirmationCancel(text), "cancel"),
        When(confirmation # None /\ IsConfirmationReply(text), "confirmed"),
        When(frame.kind \in {"state_query", "environment_status_query", "audio_check",
                             "motion_request"}, frame.kind),
        "feedback">> = 1..4
      OBVIOUS
    <3> QED
      BY <1>6, <3>1, FirstOfIsOne DEF ConfirmAction, Takes, Route, When
  <2>2. TypeOK'
    BY <1>6, <2>1 DEF IInv, TypeOK, ConfirmAction, session
  <2>3. Flow' /\ NewActionClosesQuestion'
    BY <1>6, <2>1 DEF IInv, TypeOK, Flow, NewActionClosesQuestion, ConfirmAction, session
  <2> QED
    BY <2>2, <2>3 DEF IInv
<1>7. CASE AnswerLightQuery
  <2>1. PICK state \in {"on", "off", "daylight", "unknown"} : question' = Asked(state)
    BY <1>7 DEF AnswerLightQuery
  <2>2. TypeOK'
    BY <1>7, <2>1 DEF IInv, TypeOK, AnswerLightQuery, Takes, Complete, Asked, pipeline
  <2>3. Flow' /\ NewActionClosesQuestion'
    BY <1>7 DEF IInv, Flow, NewActionClosesQuestion, AnswerLightQuery, Takes, Complete, pipeline
  <2> QED
    BY <2>2, <2>3 DEF IInv
<1>8. CASE AnswerStatus
  BY <1>8, Leaving DEF AnswerStatus, Takes, session
<1>9. CASE AnswerAudioCheck
  BY <1>9, Leaving DEF AnswerAudioCheck, Takes, session
<1>10. CASE Move
  BY <1>10, Leaving DEF Move, Takes, session
<1>11. CASE FeedbackExpired
  <2>1. TypeOK'
    BY <1>11 DEF IInv, TypeOK, FeedbackExpired, Takes, OrContinue, Complete, pipeline
  <2>2. Flow' /\ NewActionClosesQuestion'
    BY <1>11 DEF IInv, Flow, NewActionClosesQuestion, FeedbackExpired, Takes, OrContinue,
                 Complete, pipeline
  <2> QED
    BY <2>1, <2>2 DEF IInv
<1>12. CASE FeedbackSaved
  <2>1. AnswerToQuestion \in Label
    BY <1>12, AnswerSaid DEF FeedbackSaved, Takes
  <2>2. TypeOK'
    BY <1>12, <2>1 DEF IInv, TypeOK, FeedbackSaved, Takes, Save, OrContinue, Complete, Label,
                       pipeline
  <2>3. Flow' /\ NewActionClosesQuestion'
    BY <1>12 DEF IInv, Flow, NewActionClosesQuestion, FeedbackSaved, Takes, OrContinue,
                 Complete, pipeline
  <2> QED
    BY <2>2, <2>3 DEF IInv
<1>13. CASE NoFeedback
  <2>1. DirectReport # None => DirectReport \in Label
    BY <1>13, ReportSaid DEF NoFeedback, Takes
  <2>2. saved' = saved \/ saved' \in Label
    BY <1>13, <2>1 DEF NoFeedback, Save
  <2>3. TypeOK'
    <3>1. stage' \in {"decide", "done"} /\ question' \in {None, question}
      BY <1>13 DEF NoFeedback, OrContinue, Complete
    <3> QED
      BY <1>13, <2>2, <3>1 DEF IInv, TypeOK, NoFeedback, Label, pipeline
  <2>4. Flow' /\ NewActionClosesQuestion'
    <3>1. stage' = "decide" => question' = None \/ ~RequestsAction(text, frame)
      BY <1>13 DEF NoFeedback
    <3>2. /\ stage = "heard" /\ stage' \in {"decide", "done"}
          /\ stage' = "decide" => outcome' = outcome
          /\ UNCHANGED <<text, frame, action, attempt, review>>
      BY <1>13 DEF NoFeedback, Takes, OrContinue, Complete, pipeline
    <3>3. outcome' = "satisfied" => stage' = "done"
      BY <3>2 DEF IInv, Flow
    <3> QED
      BY <3>1, <3>2, <3>3 DEF IInv, Flow, NewActionClosesQuestion
  <2> QED
    BY <2>3, <2>4 DEF IInv
<1>14. CASE LeaveAlone
  BY <1>14, Leaving DEF LeaveAlone, Decides, session
<1>15. CASE AskWhich
  BY <1>15, Leaving DEF AskWhich, Decides, session
<1>16. CASE Talk
  BY <1>16, Leaving DEF Talk, Intends, Decides, session
<1>17. CASE Imagine
  <2>1. PICK o \in ObserveAnswers :
           seen' = o.shown /\ action' = [act |-> ActionIntent(text, o.known), confirmed |-> FALSE]
    BY <1>17 DEF Imagine
  <2>2. o.shown \in Observations \cup {Blind} /\ o.known \subseteq Builtin
    BY DEF ObserveAnswers
  <2>3. action'.act \in Builtin /\ LooksLikeCommand(text)
    BY <1>17, <2>1, <2>2, IntentNamed DEF Imagine
  <2>4. target' \in Binding \cup {None}
    <3>1. LocalBinding \in Binding
      BY DEF LocalBinding, Binding
    <3> QED
      BY <1>17, <3>1 DEF Imagine, MergeBindings
  <2>5. TypeOK'
    BY <1>17, <2>1, <2>2, <2>3, <2>4 DEF IInv, TypeOK, Imagine, session
  <2>6. question = None
    <3>1. RequestsAction(text, frame)
      BY <1>17, <2>3 DEF Imagine, RequestsAction
    <3> QED
      BY <1>17, <3>1 DEF IInv, Flow, Imagine, Intends, Decides
  <2>7. Flow' /\ NewActionClosesQuestion'
    BY <1>17, <2>3, <2>6 DEF IInv, Flow, NewActionClosesQuestion, Imagine, Intends, Decides, session
  <2> QED
    BY <2>5, <2>7 DEF IInv
<1>18. CASE Plan
  <2>1. /\ stage = "plan" /\ UNCHANGED <<question, text, frame, saved, action, pipeline>>
        /\ \/ stage' = "done" /\ UNCHANGED confirmation
           \/ stage' = "done" /\ confirmation' = [act |-> action.act, target |-> target]
           \/ stage' = "execute" /\ UNCHANGED <<confirmation, outcome>>
    <3> DEFINE P(offered, failed) ==
                 LET local == LocalPlan(action.act, target, seen, preview)
                 IN  IF ~Model THEN local ELSE IF failed THEN "error" ELSE MergePlan(local, offered)
    <3>1. PICK offered \in {"ready", "already_satisfied", "unavailable"}, failed \in BOOLEAN :
             \/ P(offered, failed) = "already_satisfied" /\ Complete("satisfied") /\ UNCHANGED confirmation
             \/ /\ P(offered, failed) # "already_satisfied" /\ preview = "noop"
                /\ Complete("satisfied") /\ UNCHANGED confirmation
             \/ /\ P(offered, failed) # "already_satisfied" /\ preview = "failed"
                /\ Complete("needs_feedback") /\ UNCHANGED confirmation
             \/ /\ P(offered, failed) # "already_satisfied" /\ preview = "ok"
                /\ action.act \in ConfirmRequired
                /\ confirmation' = [act |-> action.act, target |-> target]
                /\ Complete("confirmation_required")
             \/ /\ P(offered, failed) # "already_satisfied" /\ preview = "ok"
                /\ action.act \notin ConfirmRequired
                /\ stage' = "execute" /\ UNCHANGED <<confirmation, outcome>>
      BY <1>18 DEF Plan
    <3> HIDE DEF P
    <3> QED
      BY <1>18, <3>1 DEF Plan, Complete
  <2>2. TypeOK'
    BY <2>1 DEF IInv, TypeOK, Flow, pipeline
  <2>3. Flow' /\ NewActionClosesQuestion'
    BY <2>1 DEF IInv, Flow, NewActionClosesQuestion, pipeline
  <2> QED
    BY <2>2, <2>3 DEF IInv
<1>19. CASE Execute
  <2>1. /\ stage = "execute" /\ attempt' = attempt + 1 /\ seen' = Blind
        /\ UNCHANGED <<question, text, frame, saved, action, target, preview, review>>
        /\ confirmation' \in {None, confirmation}
        /\ \/ stage' = "done" /\ outcome' # "satisfied"
           \/ stage' = "observe" /\ UNCHANGED outcome
    BY <1>19 DEF Execute, Complete, Release
  <2>2. attempt \in 0..MaxAttempts /\ attempt < MaxAttempts
    BY <2>1 DEF IInv, TypeOK, Flow
  <2>3. TypeOK'
    BY <2>1, <2>2 DEF IInv, TypeOK
  <2>4. Flow' /\ NewActionClosesQuestion'
    BY <2>1 DEF IInv, Flow, NewActionClosesQuestion
  <2> QED
    BY <2>3, <2>4 DEF IInv
<1>20. CASE ObserveAfter
  <2>1. seen' \in Observations \cup {Blind}
    BY <1>20 DEF ObserveAfter, ObserveAnswers
  <2>2. TypeOK'
    BY <1>20, <2>1 DEF IInv, TypeOK, ObserveAfter, session
  <2>3. Flow' /\ NewActionClosesQuestion'
    BY <1>20 DEF IInv, Flow, NewActionClosesQuestion, ObserveAfter, session
  <2> QED
    BY <2>2, <2>3 DEF IInv
<1>21. CASE Review
  <2>1. /\ stage = "review"
        /\ UNCHANGED <<question, text, frame, saved, action, target, seen, preview, attempt, result>>
        /\ confirmation' \in {None, confirmation}
        /\ \/ stage' = "done" /\ outcome' # "satisfied"
           \/ stage' = "execute" /\ attempt < MaxAttempts /\ UNCHANGED outcome
        /\ review' = "succeeded" => stage' = "done"
    BY <1>21 DEF Review, Complete, Release
  <2>2. TypeOK'
    BY <2>1 DEF IInv, TypeOK
  <2>3. Flow' /\ NewActionClosesQuestion'
    BY <2>1 DEF IInv, Flow, NewActionClosesQuestion
  <2> QED
    BY <2>2, <2>3 DEF IInv
<1> QED
  BY <1>1, <1>2, <1>3, <1>4, <1>5, <1>6, <1>7, <1>8, <1>9, <1>10, <1>11, <1>12, <1>13, <1>14,
     <1>15, <1>16, <1>17, <1>18, <1>19, <1>20, <1>21 DEF Next

-----------------------------------------------------------------------------
(* What every behaviour keeps *)

LEMMA Invariance == Spec => []IInv
BY InitIInv, StepIInv, PTL DEF Spec

\* The state of a turn is what the loop keeps in its records: a question, a confirmation, an
\* action, a target state and a count of attempts of their kinds, at any step of any turn.
THEOREM TypeCorrect == Spec => []TypeOK
BY Invariance, PTL DEF IInv

\* Once a new command is worked on, no older room-light question is left open that a later
\* yes or no could be taken to answer.
THEOREM CommandCloses == Spec => []NewActionClosesQuestion
BY Invariance, PTL DEF IInv

\* What is saved as the user's word was said, and answers a question that was asked at most
\* two minutes ago, or reports the light unasked.
THEOREM LearnsWhatWasSaid == Spec => FeedbackIsAnAnswer
<1> DEFINE A == saved' \notin {None, saved} =>
                  /\ ~({"light", "ask"} \subseteq text
                        /\ ~Has(text, {"on", "off", "open", "check", "please"}))
                  /\ IF question = None THEN "light" \in text ELSE ~question.expired
                  /\ \/ saved' = ExplicitLabel(text)
                     \/ "yes" \in text
                     \/ "no" \in text /\ (saved' = "unknown" \/ saved' # question.predicted)
<1>1. ASSUME IInv, [Next]_vars PROVE [A]_vars
  <2> SUFFICES ASSUME saved' \notin {None, saved} PROVE A
    OBVIOUS
  <2>1. FeedbackSaved \/ NoFeedback
    BY <1>1 DEF Next, vars, Hear, Rest, QuestionAges, CancelConfirmation, ConfirmAction,
          AnswerLightQuery, AnswerStatus, AnswerAudioCheck, Move, FeedbackExpired, LeaveAlone,
          AskWhich, Talk, Imagine, Plan, Execute, ObserveAfter, Review
  <2>2. ASSUME ~IsLightQuestion(text)
        PROVE  ~({"light", "ask"} \subseteq text
                  /\ ~Has(text, {"on", "off", "open", "check", "please"}))
    BY <2>2 DEF IsLightQuestion, LooksLikeCommand, Has
  <2>3. CASE FeedbackSaved
    <3>1. saved' = AnswerToQuestion /\ ~question.expired
      BY <2>3 DEF FeedbackSaved, Save
    <3>2. /\ question # None /\ ~IsLightQuestion(text)
          /\ \/ AnswerToQuestion = ExplicitLabel(text)
             \/ "yes" \in text
             \/ /\ "no" \in text
                /\ AnswerToQuestion = "unknown" \/ AnswerToQuestion # question.predicted
      BY <1>1, <2>3, AnswerSaid DEF FeedbackSaved, Takes
    <3> QED
      BY <2>2, <3>1, <3>2
  <2>4. CASE NoFeedback
    <3>1. saved' = DirectReport /\ DirectReport # None
      BY <2>4 DEF NoFeedback, Save
    <3>2. /\ question = None /\ DirectReport = ExplicitLabel(text)
          /\ "light" \in text /\ ~IsLightQuestion(text)
      BY <1>1, <2>4, <3>1, ReportSaid DEF NoFeedback, Takes
    <3> QED
      BY <2>2, <3>1, <3>2
  <2> QED
    BY <2>1, <2>3, <2>4
<1>2. IInv /\ [Next]_vars => [A]_vars
  BY <1>1
<1> HIDE DEF A
<1>3. Spec => [][A]_vars
  BY <1>2, Invariance, PTL DEF Spec
<1> QED
  BY <1>3 DEF FeedbackIsAnAnswer, A

\* An action is worked on only for a text without a negation that names it and no other
\* action, whatever names the environment gives its actions.
THEOREM ActsWhenTold == Spec => ActsOnlyWhenTold
<1> DEFINE A == stage' = "plan" /\ stage # "plan" =>
                  ~IsNegative(text) /\ BuiltinActions(text) = {action'.act}
<1>1. ASSUME IInv, [Next]_vars PROVE [A]_vars
  <2> SUFFICES ASSUME stage' = "plan", stage # "plan" PROVE A
    OBVIOUS
  <2>1. Imagine
    BY <1>1 DEF Next, vars, Hear, Rest, QuestionAges, CancelConfirmation, ConfirmAction,
          AnswerLightQuery, AnswerStatus, AnswerAudioCheck, Move, FeedbackExpired, FeedbackSaved,
          NoFeedback, OrContinue, LeaveAlone, AskWhich, Talk, Plan, Execute, ObserveAfter, Review,
          Complete
  <2>2. PICK o \in ObserveAnswers : action' = [act |-> ActionIntent(text, o.known), confirmed |-> FALSE]
    BY <2>1 DEF Imagine
  <2>3. o.known \subseteq Builtin /\ ActionIntent(text, {}) # None
    BY <2>1, HomeTurnAssumption DEF ObserveAnswers, Imagine
  <2> QED
    BY <2>2, <2>3, IntentNamed
<1>2. IInv /\ [Next]_vars => [A]_vars
  BY <1>1
<1> HIDE DEF A
<1>3. Spec => [][A]_vars
  BY <1>2, Invariance, PTL DEF Spec
<1> QED
  BY <1>3 DEF ActsOnlyWhenTold, A

-----------------------------------------------------------------------------
(* What is told was observed *)

LEMMA ShownIsShown == IsShown(action.act, seen) => ShownAsExpected
BY DEF IsShown, ShownOf, ShownAsExpected, Shown

\* Success is told only of an action the bridge accepted and whose device was then seen, in a
\* fresh and confident state, as it was to be; what a language model says cannot add to that.
THEOREM SuccessObserved == Spec => []SuccessIsObserved
<1>1. Init => SuccessIsObserved
  BY HomeTurnAssumption DEF Init, SuccessIsObserved
<1>2. ASSUME IInv, SuccessIsObserved, [Next]_vars PROVE SuccessIsObserved'
  <2> SUFFICES ASSUME review' = "succeeded", ~Lax' PROVE (Accepted(result) /\ ShownAsExpected)'
    BY DEF SuccessIsObserved
  <2>1. CASE Review
    <3>1. UNCHANGED <<action, target, seen, result>>
      BY <2>1 DEF Review
    <3>2. PICK offered : ReviewAction(action.act, target, seen, result, offered) = "succeeded"
      BY <2>1 DEF Review
    <3>3. target \in {None, LocalBinding} /\ seen \in Observation \cup {Blind}
      BY <1>2, <3>1, HomeTurnAssumption DEF Lax, IInv, TypeOK
    <3>4. Accepted(result) /\ ShownAsExpected
      BY <3>2, <3>3, SucceededIsShown, ShownIsShown
    <3> QED
      BY <3>1, <3>4 DEF ShownAsExpected, Shown, Accepted
  <2>2. CASE ~Review
    <3>1. UNCHANGED review \/ review' = None
      BY <1>2, <2>2 DEF Next, vars, pipeline, Hear, Rest, QuestionAges, CancelConfirmation,
            ConfirmAction, AnswerLightQuery, AnswerStatus, AnswerAudioCheck, Move, FeedbackExpired,
            FeedbackSaved, NoFeedback, LeaveAlone, AskWhich, Talk, Imagine, Plan, Execute,
            ObserveAfter
    <3>2. review = "succeeded" /\ stage = "done"
      BY <1>2, <3>1, HomeTurnAssumption DEF IInv, Flow
    <3>3. UNCHANGED vars
      BY <1>2, <2>2, <3>2, HomeTurnAssumption DEF Next, Hear, Rest, QuestionAges,
        CancelConfirmation,
            ConfirmAction, AnswerLightQuery, AnswerStatus, AnswerAudioCheck, Move, FeedbackExpired,
            FeedbackSaved, NoFeedback, LeaveAlone, AskWhich, Talk, Imagine, Plan, Execute,
            ObserveAfter, Takes, Decides, Intends
    <3> QED
      BY <1>2, <3>2, <3>3 DEF vars, pipeline, SuccessIsObserved, Accepted, ShownAsExpected, Shown,
        Lax
  <2> QED
    BY <2>1, <2>2
<1> QED
  BY <1>1, <1>2, Invariance, PTL DEF Spec

\* A command is skipped as already satisfied only if the environment or a fresh and confident
\* state of the device says so; what a language model plans cannot add to that.
THEOREM SkipObserved == Spec => []SkipIsSatisfied
<1>1. Init => SkipIsSatisfied
  BY HomeTurnAssumption DEF Init, SkipIsSatisfied
<1>2. ASSUME IInv, SkipIsSatisfied, [Next]_vars PROVE SkipIsSatisfied'
  <2> SUFFICES ASSUME outcome' = "satisfied", ~Lax' PROVE (preview = "noop" \/ ShownAsExpected)'
    BY DEF SkipIsSatisfied
  <2>1. CASE Plan
    <3>1. UNCHANGED <<action, target, seen, preview>>
      BY <2>1 DEF Plan, pipeline
    <3>2. \/ LocalPlan(action.act, target, seen, preview) = "already_satisfied"
          \/ preview = "noop"
      BY <1>2, <2>1 DEF Plan, Complete, MergePlan, IInv, Flow
    <3>3. target \in {None, LocalBinding}
      BY <1>2, <3>1 DEF Lax
    <3>4. preview = "noop" \/ ShownAsExpected
      <4>1. CASE target = None
        BY <3>2, <4>1 DEF LocalPlan, EvaluateTarget
      <4>2. CASE target = LocalBinding
        BY <3>2, <4>2, MatchedIsShown, ShownIsShown DEF LocalPlan
      <4> QED
        BY <3>3, <4>1, <4>2
    <3> QED
      BY <3>1, <3>4 DEF ShownAsExpected, Shown
  <2>2. CASE ~Plan
    <3>1. outcome = "satisfied" /\ stage = "done" /\ UNCHANGED vars
      BY <1>2, <2>2, HomeTurnAssumption DEF IInv, Flow, Next, vars, Hear, Rest, QuestionAges,
        CancelConfirmation,
            ConfirmAction, AnswerLightQuery, AnswerStatus, AnswerAudioCheck, Move, FeedbackExpired,
            FeedbackSaved, NoFeedback, OrContinue, LeaveAlone, AskWhich, Talk, Imagine, Execute,
            ObserveAfter, Review, Complete, Takes, Decides, Intends
    <3> QED
      BY <1>2, <3>1 DEF vars, pipeline, SkipIsSatisfied, ShownAsExpected, Shown, Lax
  <2> QED
    BY <2>1, <2>2
<1> QED
  BY <1>1, <1>2, Invariance, PTL DEF Spec
=============================================================================
