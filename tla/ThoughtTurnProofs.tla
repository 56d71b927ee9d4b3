------------------------- MODULE ThoughtTurnProofs -------------------------
(***************************************************************************)
(* Proofs about ThoughtTurn, for any turns, actions, texts and budgets.    *)
(* Each safety property has an inductive invariant made of what one turn   *)
(* must keep (...At) and what the session must keep.  A step is a step of  *)
(* one turn: OtherTurns says the others keep their part, one lemma per     *)
(* invariant goes through the actions for the turn that moves.  What holds *)
(* only of turns that run one at a time rests on Serial: a turn that is    *)
(* under way is the only one.                                              *)
(***************************************************************************)
EXTENDS ThoughtTurn, SequenceTheorems, FiniteSetTheorems, TLAPS

\* Places at which a turn works on an action.
Acting ==
    {"confirmed_execute", "confirmed_result", "confirmed_observe", "confirm_failed",
     "observe", "progress", "feedback", "supersede", "closing", "execute", "result",
     "direct_observe", "opening", "opened", "exhausted"}

\* A turn past its arrival has a text, one that plans has a command, one that works on an
\* action has it.
Placed ==
    \A t \in Turns :
        /\ at[t] # "idle" => said[t] \in Utterances
        /\ at[t] = "plan" => said[t].action \in Actions
        /\ at[t] \in Acting \/ base[t] \in {"direct", "confirm"} => act[t] \in Actions

\* Places before the one home.execute of a turn.
BeforeSubmit ==
    {"idle", "recall", "hydrate", "confirmation", "confirmed_execute", "query", "rest",
     "plan", "execute"}

\* A turn has spent its one request only past execute: no path leads back before it. A
\* review that continues is the first caller's until its own turn opened one.
UnsentAt(t) ==
    /\ attempts[t] <= 1
    /\ at[t] \in BeforeSubmit => attempts[t] = 0
    /\ at[t] \in {"review", "observe", "progress", "supersede"}
          /\ base[t] \in {"first", "again"} => attempts[t] = 0
    /\ at[t] \in {"opening", "opened"} /\ done[t] # 0 => base[t] \in {"direct", "confirm"}

Unsent == \A t \in Turns : UnsentAt(t)

\* A turn works on a confirmed request only after a yes to a prompt for its action; what it
\* may remember again (confirm_failed) was prompted for; a direct request needs no prompt.
PromptedAt(t) ==
    /\ at[t] \in {"confirmed_execute", "confirmed_result", "confirmed_observe"} =>
          said[t].reply /\ ~said[t].cancel /\ prompts[act[t]] > 0
    /\ at[t] = "confirm_failed" /\ result[t] = "failed_retryable" => prompts[act[t]] > 0
    /\ at[t] \in BeforeSubmit => base[t] # "confirm"
    /\ base[t] = "confirm" => result[t] = "accepted"
    /\ at[t] = "execute" => act[t] \notin ConfirmRequired

Prompted ==
    /\ pendingConfirmation # None => prompts[pendingConfirmation] > 0
    /\ \A t \in Turns : PromptedAt(t)

\* The actions of accepted requests.
Accepted == {a \in Actions : \E s \in sent : s.action = a /\ s.result = "accepted"}

\* What a turn carries of a review is about an accepted request.
BackedAt(t) ==
    /\ recalled[t] # None => recalled[t].action \in Accepted
    /\ at[t] \in {"opening", "opened", "observe", "progress"} => act[t] \in Accepted
    /\ at[t] \in {"result", "direct_observe", "confirmed_result", "confirmed_observe"}
          /\ result[t] = "accepted" => act[t] \in Accepted

\* So is everything a review can be opened from: the short memory, the locals of turns and
\* the pending review itself.
Backed ==
    /\ \A i \in DOMAIN shortMemory :
          shortMemory[i].status = "open" => shortMemory[i].action \in Accepted
    /\ pendingReview # None => pendingReview.action \in Accepted
    /\ \A t \in Turns : BackedAt(t)

\* The actions with an open record in the short memory.
Noted ==
    {a \in Actions : \E i \in DOMAIN shortMemory :
        shortMemory[i].action = a /\ shortMemory[i].status = "open"}

\* A turn opens a review only after its record was written, and recalls only what it read.
RecordedAt(t) ==
    /\ recalled[t] # None => recalled[t].action \in Noted
    /\ at[t] = "opened" => act[t] \in Noted

Recorded ==
    /\ pendingReview # None => pendingReview.action \in Noted
    /\ \A t \in Turns : RecordedAt(t)

\* A turn that runs has not reported its end; one that is done has, once.
AnsweredAt(t) ==
    /\ at[t] \notin {"done", "unconfirm", "aborted"} => completed[t] = 0
    /\ at[t] \in {"done", "unconfirm"} => completed[t] = 1
    /\ completed[t] <= 1

Answered == \A t \in Turns : AnsweredAt(t)

\* The locals of a turn, unchanged.
Same(t) ==
    /\ at'[t] = at[t] /\ said'[t] = said[t] /\ recalled'[t] = recalled[t]
    /\ act'[t] = act[t] /\ done'[t] = done[t] /\ obj'[t] = obj[t]
    /\ base'[t] = base[t] /\ result'[t] = result[t]
    /\ attempts'[t] = attempts[t] /\ observed'[t] = observed[t]
    /\ completed'[t] = completed[t]

\* A record noted about an action keeps the short memory a sequence of records.
LEMMA NoteType ==
    ASSUME TypeOK, NEW t \in Turns, act[t] \in Actions,
           NEW status \in {"open", "closed", "exhausted"}, Note(t, status)
    PROVE  shortMemory' \in Seq(Record)
<1>1. [action |-> act[t], done |-> done[t], status |-> status] \in Record
  BY DEF TypeOK, Record
<1>2. shortMemory \in Seq(Record)
  BY DEF TypeOK
<1>3. Append(shortMemory, [action |-> act[t], done |-> done[t], status |-> status]) \in Seq(Record)
  BY <1>1, <1>2, AppendProperties
<1> QED
  BY <1>2, <1>3 DEF Note

\* A home.execute adds a well-formed submission to those the bridge received.
LEMMA SubmitType ==
    ASSUME TypeOK, NEW t \in Turns, act[t] \in Actions, NEW confirmed \in BOOLEAN,
           NEW r \in Result, Submit(t, confirmed, r)
    PROVE  sent' \subseteq Submission
<1>1. [turn |-> t, action |-> act[t], confirmed |-> confirmed, result |-> r] \in Submission
  BY DEF Submission
<1> QED
  BY <1>1 DEF Submit, TypeOK

\* Every step keeps the types, and keeps a turn that works on an action supplied with
\* one.
LEMMA TypeStep == TypeOK /\ Placed /\ [Next]_vars => TypeOK' /\ Placed'
<1> SUFFICES ASSUME TypeOK, Placed, [Next]_vars PROVE TypeOK' /\ Placed'
  OBVIOUS
<1> USE TurnAssumption DEF Resting, Place, Acting, Base, Result, Label, Lights
<1>0. CASE UNCHANGED vars
  BY <1>0 DEF TypeOK, Placed, vars, session, locals, history
<1>1. ASSUME NEW t \in Turns, NEW u \in Utterances, Arrive(t, u) PROVE TypeOK' /\ Placed'
  BY <1>1 DEF TypeOK, Placed, Arrive, Goto, session, locals, history
<1>2. CASE Restart
  BY <1>2 DEF TypeOK, Placed, Restart, session, locals, history
<1>3. ASSUME NEW t \in Turns, Step(t) \/ Abort(t) \/ Fail(t) PROVE TypeOK' /\ Placed'
  <2>1. CASE Recall(t)
    <3>1. \A i \in OpenReviews : shortMemory[i] \in Record
      BY DEF TypeOK, OpenReviews, Window
    <3>2. recalled' \in [Turns -> Record \cup {None}]
      BY <2>1, <3>1 DEF Recall, TypeOK
    <3> QED
      BY <2>1, <3>2 DEF Recall, Goto, TypeOK, Placed, session, history
  <2>2. CASE Hydrate(t)
    <3>1. pendingReview' \in Review \cup {None}
      BY <2>2 DEF Hydrate, MayHydrate, TypeOK, Review, Record
    <3> QED
      BY <2>2, <3>1 DEF Hydrate, Goto, TypeOK, Placed, locals, history
  <2>3. CASE CancelConfirmation(t)
    BY <2>3 DEF CancelConfirmation, Goto, TypeOK, Placed, session, locals, history
  <2>4. CASE AcceptConfirmation(t)
    BY <2>4 DEF AcceptConfirmation, Goto, TypeOK, Placed, session, locals, history
  <2>5. CASE PassConfirmation(t)
    BY <2>5 DEF PassConfirmation, Goto, TypeOK, Placed, session, locals, history
  <2>6. CASE ConfirmedExecute(t)
    <3>1. sent' \subseteq Submission
      BY <2>6, SubmitType DEF ConfirmedExecute, Placed
    <3> QED
      BY <2>6, <3>1 DEF ConfirmedExecute, Submit, Goto, TypeOK, Placed, session
  <2>7. CASE ConfirmationExpired(t)
    BY <2>7 DEF ConfirmationExpired, Prompt, Goto, TypeOK, Placed, session, locals, history
  <2>8. CASE ConfirmedUntracked(t)
    BY <2>8 DEF ConfirmedUntracked, Goto, TypeOK, Placed, session, locals, history
  <2>9. CASE ConfirmedTracked(t)
    BY <2>9 DEF ConfirmedTracked, Goto, TypeOK, Placed, session, locals, history
  <2>10. CASE ConfirmedSucceeded(t)
    BY <2>10 DEF ConfirmedSucceeded, MayAskAboutLight, Goto, TypeOK, Placed, session, locals,
      history
  <2>11. CASE ConfirmedUnverified(t)
    BY <2>11 DEF ConfirmedUnverified, Goto, TypeOK, Placed, session, locals, history
  <2>12. CASE ConfirmedRefused(t)
    BY <2>12 DEF ConfirmedRefused, Goto, TypeOK, Placed, session, locals, history
  <2>13. CASE ConfirmedFailed(t)
    BY <2>13 DEF ConfirmedFailed, Goto, TypeOK, Placed, session, locals, history
  <2>14. CASE NoReview(t)
    BY <2>14 DEF NoReview, ReturnFalse, Goto, TypeOK, Placed, session, locals, history
  <2>15. CASE CancelReview(t)
    BY <2>15 DEF CancelReview, Goto, TypeOK, Placed, session, locals, history
  <2>16. CASE SupersedeReview(t)
    <3>1. pendingReview \in Review
      BY <2>16 DEF SupersedeReview, TypeOK
    <3>2. /\ pendingReview.action \in Actions /\ pendingReview.done \in Nat
          /\ pendingReview.by \in Turns /\ pendingReview.hydrated \in BOOLEAN
      BY <3>1 DEF Review
    <3> QED
      BY <2>16, <3>2 DEF SupersedeReview, Goto, TypeOK, Placed, session, history
  <2>17. CASE HearFeedback(t)
    <3>1. pendingReview \in Review
      BY <2>17 DEF HearFeedback, TypeOK
    <3>2. /\ pendingReview.action \in Actions /\ pendingReview.done \in Nat
          /\ pendingReview.by \in Turns /\ pendingReview.hydrated \in BOOLEAN
      BY <3>1 DEF Review
    <3> QED
      BY <2>17, <3>2 DEF HearFeedback, Goto, TypeOK, Placed, session, history
  <2>18. CASE IgnoreReview(t)
    BY <2>18 DEF IgnoreReview, ReturnFalse, Goto, TypeOK, Placed, session, locals, history
  <2>19. CASE ContinueReview(t)
    <3>1. pendingReview \in Review
      BY <2>19 DEF ContinueReview, TypeOK
    <3>2. /\ pendingReview.action \in Actions /\ pendingReview.done \in Nat
          /\ <<pendingReview.by, pendingReview.hydrated>> \in Turns \X BOOLEAN
      BY <3>1 DEF Review
    <3>3. obj' \in [Turns -> (Turns \X BOOLEAN) \cup {None}]
      BY <2>19, <3>2 DEF ContinueReview, TypeOK
    <3>4. act' \in [Turns -> Actions \cup {None}] /\ done' \in [Turns -> Nat]
      <4>1. /\ act' = [act EXCEPT ![t] = pendingReview.action]
            /\ done' = [done EXCEPT ![t] = pendingReview.done + 1]
        BY <2>19 DEF ContinueReview
      <4>2. act' \in [Turns -> Actions \cup {None}]
        BY <3>2, <4>1 DEF TypeOK
      <4>3. done' \in [Turns -> Nat]
        BY <3>2, <4>1 DEF TypeOK
      <4> QED
        BY <4>2, <4>3
    <3>5. at' \in [Turns -> Place] /\ observed' \in [Turns -> Nat]
      BY <2>19 DEF ContinueReview, Goto, TypeOK
    <3>6. TypeOK'
      BY <2>19, <3>3, <3>4, <3>5 DEF ContinueReview, TypeOK, session
    <3>7. at' = [at EXCEPT ![t] = "observe"] /\ act' = [act EXCEPT ![t] = pendingReview.action]
          /\ UNCHANGED <<said, base>>
      BY <2>19 DEF ContinueReview, Goto
    <3>8. Placed'
      BY <2>19, <3>2, <3>7 DEF ContinueReview, TypeOK, Placed
    <3> QED
      BY <3>6, <3>8
  <2>20. CASE ReviewSucceeded(t)
    BY <2>20 DEF ReviewSucceeded, Goto, TypeOK, Placed, session, locals, history
  <2>21. CASE ReviewStillPending(t)
    <3>1. pendingReview' \in Review \cup {None}
      BY <2>21 DEF ReviewStillPending, TypeOK, Review
    <3> QED
      BY <2>21, <3>1 DEF ReviewStillPending, Goto, TypeOK, Placed, locals, history
  <2>22. CASE ReviewExhausted(t)
    BY <2>22 DEF ReviewExhausted, Goto, TypeOK, Placed, session, locals, history
  <2>23. CASE NoteProgress(t)
    <3>1. shortMemory' \in Seq(Record)
      BY <2>23, NoteType DEF NoteProgress, Placed
    <3> QED
      BY <2>23, <3>1 DEF NoteProgress, Note, Goto, TypeOK, Placed, history
  <2>24. CASE NoteSuperseded(t)
    <3>1. shortMemory' \in Seq(Record)
      BY <2>24, NoteType DEF NoteSuperseded, Placed
    <3> QED
      BY <2>24, <3>1 DEF NoteSuperseded, Note, ReturnFalse, Goto, TypeOK, Placed, history
  <2>25. CASE NoteClosed(t)
    <3>1. shortMemory' \in Seq(Record)
      BY <2>25, NoteType DEF NoteClosed, Placed
    <3> QED
      BY <2>25, <3>1 DEF NoteClosed, Note, Goto, TypeOK, Placed, history
  <2>26. CASE ResolveFeedback(t)
    BY <2>26 DEF ResolveFeedback, Goto, TypeOK, Placed, session, locals, history
  <2>27. CASE AnswerQuery(t)
    BY <2>27 DEF AnswerQuery, Goto, TypeOK, Placed, session, locals, history
  <2>28. CASE QueryFeedback(t)
    <3>1. pendingQuery.action \in Actions \cup {None}
      BY <2>28 DEF QueryFeedback, TypeOK
    <3>2. said[t] \in Utterance
      BY <2>28 DEF QueryFeedback, Placed
    <3>3. said[t].action \in Actions \cup {None}
      BY <3>2 DEF Utterance
    <3>4. CASE Goto(t, Continue(t)) /\ UNCHANGED act
      BY <2>28, <3>3, <3>4 DEF QueryFeedback, Continue, Goto, TypeOK, Placed, history
    <3>5. CASE /\ pendingQuery.action # None
               /\ act' = [act EXCEPT ![t] = pendingQuery.action]
               /\ Goto(t, "feedback")
      BY <2>28, <3>1, <3>5 DEF QueryFeedback, Goto, TypeOK, Placed, history
    <3> QED
      BY <2>28, <3>4, <3>5 DEF QueryFeedback
  <2>29. CASE NoQueryFeedback(t)
    <3>1. said[t] \in Utterance
      BY <2>29 DEF NoQueryFeedback, Placed
    <3>2. said[t].action \in Actions \cup {None}
      BY <3>1 DEF Utterance
    <3> QED
      BY <2>29, <3>2 DEF NoQueryFeedback, Continue, Goto, TypeOK, Placed, locals, history
  <2>30. CASE SkipAction(t)
    BY <2>30 DEF SkipAction, Goto, TypeOK, Placed, session, locals, history
  <2>31. CASE AskConfirmation(t)
    BY <2>31 DEF AskConfirmation, Goto, TypeOK, Placed, session, locals, history
  <2>32. CASE StartAction(t)
    BY <2>32 DEF StartAction, Goto, TypeOK, Placed, session, locals, history
  <2>33. CASE Execute(t)
    <3>1. sent' \subseteq Submission
      BY <2>33, SubmitType DEF Execute, Placed
    <3> QED
      BY <2>33, <3>1 DEF Execute, Submit, Goto, TypeOK, Placed, session
  <2>34. CASE DeferReview(t)
    BY <2>34 DEF DeferReview, Tracked, Goto, TypeOK, Placed, session, locals, history
  <2>35. CASE SubmittedUntracked(t)
    BY <2>35 DEF SubmittedUntracked, Goto, TypeOK, Placed, session, locals, history
  <2>36. CASE ObserveAction(t)
    BY <2>36 DEF ObserveAction, Goto, TypeOK, Placed, session, locals, history
  <2>37. CASE ActionSucceeded(t)
    BY <2>37 DEF ActionSucceeded, MayAskAboutLight, Goto, TypeOK, Placed, session, locals, history
  <2>38. CASE ActionUnverified(t)
    BY <2>38 DEF ActionUnverified, Goto, TypeOK, Placed, session, locals, history
  <2>39. CASE ActionFailed(t)
    BY <2>39 DEF ActionFailed, Goto, TypeOK, Placed, session, locals, history
  <2>40. CASE NoteExhausted(t)
    <3>1. shortMemory' \in Seq(Record)
      BY <2>40, NoteType DEF NoteExhausted, Placed
    <3> QED
      BY <2>40, <3>1 DEF NoteExhausted, Note, Goto, TypeOK, Placed, history
  <2>41. CASE NoteOpened(t)
    <3>1. shortMemory' \in Seq(Record)
      BY <2>41, NoteType DEF NoteOpened, Placed
    <3> QED
      BY <2>41, <3>1 DEF NoteOpened, Note, Goto, TypeOK, Placed, history
  <2>42. CASE OpenReview(t)
    <3>1. pendingReview' \in Review \cup {None}
      BY <2>42 DEF OpenReview, TypeOK, Placed, Review
    <3> QED
      BY <2>42, <3>1 DEF OpenReview, Goto, TypeOK, Placed, locals, history
  <2>43. CASE Finish(t)
    BY <2>43 DEF Finish, Goto, TypeOK, Placed, session, locals, history
  <2>44. CASE ConsumeConfirmation(t)
    BY <2>44 DEF ConsumeConfirmation, Goto, TypeOK, Placed, session, locals, history
  <2>45. CASE Abort(t)
    BY <2>45 DEF Abort, Goto, TypeOK, Placed, session, locals, history
  <2>46. CASE Fail(t)
    BY <2>46 DEF Fail, Goto, TypeOK, Placed, session, locals, history
  <2> QED
    BY <1>3, <2>1, <2>2, <2>3, <2>4, <2>5, <2>6, <2>7, <2>8, <2>9, <2>10, <2>11, <2>12, <2>13,
      <2>14, <2>15, <2>16, <2>17, <2>18, <2>19, <2>20, <2>21, <2>22, <2>23, <2>24, <2>25, <2>26,
      <2>27, <2>28, <2>29, <2>30, <2>31, <2>32, <2>33, <2>34, <2>35, <2>36, <2>37, <2>38, <2>39,
      <2>40, <2>41, <2>42, <2>43, <2>44, <2>45, <2>46 DEF Step
<1> QED
  BY <1>0, <1>1, <1>2, <1>3 DEF Next

\* Before the first turn the types hold.
LEMMA TypeInit == Init => TypeOK /\ Placed
<1> SUFFICES ASSUME Init PROVE TypeOK /\ Placed
  OBVIOUS
<1>1. TypeOK
  BY DEF Init, TypeOK, Place, Resting, Base
<1>2. Placed
  BY DEF Init, Placed, Acting
<1> QED
  BY <1>1, <1>2

\* The types and the places hold throughout.
LEMMA Typed == Spec => [](TypeOK /\ Placed)
  BY TypeInit, TypeStep, PTL DEF Spec

\* The state of a session, and the locals of its turns, keep their types in every
\* behaviour: a review is always about an action, a turn that executes always has one.
THEOREM TypeCorrect == Spec => []TypeOK
  BY Typed, PTL

\* Where the review handler returns to is decided by its caller.
LEMMA Returning ==
    ASSUME TypeOK, NEW t \in Turns
    PROVE  \/ base[t] \in {"first", "again"} /\ ReturnFalse(t) = "rest"
           \/ base[t] = "direct" /\ ReturnFalse(t) = "exhausted"
           \/ base[t] = "confirm" /\ ReturnFalse(t) = "confirm_failed"
  BY DEF TypeOK, Base, ReturnFalse

\* A step of one turn touches the locals of no other turn: only the session is shared.
LEMMA OtherTurns ==
    ASSUME TypeOK, NEW t \in Turns, Step(t) \/ Abort(t) \/ Fail(t), NEW u \in Turns \ {t}
    PROVE  Same(u)
<1>1. CASE Recall(t) \/ Hydrate(t)
  BY <1>1 DEF Same, TypeOK, Recall, Hydrate, OpenReviews, Window, MayHydrate, Goto, session,
    locals, history
<1>2. CASE CancelConfirmation(t) \/ AcceptConfirmation(t) \/ PassConfirmation(t)
  BY <1>2 DEF Same, TypeOK, CancelConfirmation, AcceptConfirmation, PassConfirmation, Goto,
    session, locals, history
<1>3. CASE ConfirmedExecute(t)
  BY <1>3 DEF Same, TypeOK, ConfirmedExecute, Submit, Goto, session, locals, history
<1>4. CASE ConfirmationExpired(t) \/ ConfirmedUntracked(t) \/ ConfirmedTracked(t) \/
          ConfirmedSucceeded(t)
  BY <1>4 DEF Same, TypeOK, ConfirmationExpired, ConfirmedUntracked, ConfirmedTracked,
    ConfirmedSucceeded, Prompt, MayAskAboutLight, Goto, session, locals, history
<1>5. CASE ConfirmedUnverified(t) \/ ConfirmedRefused(t) \/ ConfirmedFailed(t)
  BY <1>5 DEF Same, TypeOK, ConfirmedUnverified, ConfirmedRefused, ConfirmedFailed, Goto,
    session, locals, history
<1>6. CASE NoReview(t) \/ CancelReview(t) \/ IgnoreReview(t)
  BY <1>6, Returning DEF Same, TypeOK, NoReview, CancelReview, IgnoreReview, Goto, session,
    locals, history
<1>7. CASE SupersedeReview(t) \/ HearFeedback(t) \/ ContinueReview(t)
  BY <1>7 DEF Same, TypeOK, SupersedeReview, HearFeedback, ContinueReview, Goto, session,
    locals, history
<1>8. CASE ReviewSucceeded(t) \/ ReviewStillPending(t) \/ ReviewExhausted(t)
  BY <1>8 DEF Same, TypeOK, ReviewSucceeded, ReviewStillPending, ReviewExhausted, Goto,
    session, locals, history
<1>9. CASE NoteProgress(t) \/ NoteSuperseded(t) \/ NoteClosed(t) \/ NoteExhausted(t) \/
          NoteOpened(t)
  BY <1>9, Returning DEF Same, TypeOK, NoteProgress, NoteSuperseded, NoteClosed,
    NoteExhausted, NoteOpened, Note, Goto, session, locals, history
<1>10. CASE ResolveFeedback(t) \/ AnswerQuery(t)
  BY <1>10 DEF Same, TypeOK, ResolveFeedback, AnswerQuery, Goto, session, locals, history
<1>11. CASE QueryFeedback(t) \/ NoQueryFeedback(t)
  BY <1>11 DEF Same, TypeOK, QueryFeedback, NoQueryFeedback, Continue, Goto, session,
    locals, history
<1>12. CASE SkipAction(t) \/ AskConfirmation(t) \/ StartAction(t)
  BY <1>12 DEF Same, TypeOK, SkipAction, AskConfirmation, StartAction, Goto, session,
    locals, history
<1>13. CASE Execute(t)
  BY <1>13 DEF Same, TypeOK, Execute, Submit, Goto, session, locals, history
<1>14. CASE DeferReview(t) \/ SubmittedUntracked(t) \/ ObserveAction(t)
  BY <1>14 DEF Same, TypeOK, DeferReview, SubmittedUntracked, ObserveAction, Tracked, Goto,
    session, locals, history
<1>15. CASE ActionSucceeded(t) \/ ActionUnverified(t) \/ ActionFailed(t)
  BY <1>15 DEF Same, TypeOK, ActionSucceeded, ActionUnverified, ActionFailed,
    MayAskAboutLight, Goto, session, locals, history
<1>16. CASE OpenReview(t)
  BY <1>16 DEF Same, TypeOK, OpenReview, Goto, session, locals, history
<1>17. CASE Finish(t) \/ ConsumeConfirmation(t)
  BY <1>17 DEF Same, TypeOK, Finish, ConsumeConfirmation, Goto, session, locals, history
<1>18. CASE Abort(t) \/ Fail(t)
  BY <1>18 DEF Same, TypeOK, Abort, Fail, Goto, session, locals, history
<1> QED
  BY <1>1, <1>2, <1>3, <1>4, <1>5, <1>6, <1>7, <1>8, <1>9, <1>10, <1>11, <1>12, <1>13,
    <1>14, <1>15, <1>16, <1>17, <1>18 DEF Step

\* What a step of a turn does to the history: prompts are only added, and the bridge
\* receives a request only where home.execute is called.
LEMMA Frame ==
    ASSUME TypeOK,
           NEW t \in Turns, Step(t) \/ Abort(t) \/ Fail(t)
    PROVE  /\ at[t] # "idle" /\ at'[t] # "idle" /\ said' = said
           /\ \A a \in Actions : prompts'[a] >= prompts[a]
           /\ \/ sent' = sent
              \/ /\ at[t] = "confirmed_execute"
                 /\ \E r \in Result : sent' = sent \cup {[turn |-> t, action |-> act[t],
                                                     confirmed |-> TRUE, result |-> r]}
              \/ /\ at[t] = "execute"
                 /\ \E r \in Result : sent' = sent \cup {[turn |-> t, action |-> act[t],
                                                     confirmed |-> FALSE, result |-> r]}
<1> USE DEF Resting
<1>1. CASE Recall(t) \/ Hydrate(t)
  BY <1>1 DEF TypeOK, Recall, Hydrate, OpenReviews, Window, MayHydrate, Goto, session,
    locals, history
<1>2. CASE CancelConfirmation(t) \/ AcceptConfirmation(t) \/ PassConfirmation(t)
  BY <1>2 DEF TypeOK, CancelConfirmation, AcceptConfirmation, PassConfirmation, Goto,
    session, locals, history
<1>3. CASE ConfirmedExecute(t)
  BY <1>3 DEF TypeOK, ConfirmedExecute, Submit, Goto, session, locals, history
<1>4. CASE ConfirmationExpired(t) \/ ConfirmedUntracked(t) \/ ConfirmedTracked(t) \/
          ConfirmedSucceeded(t)
  <2>1. CASE ConfirmationExpired(t)
    BY <2>1 DEF TypeOK, ConfirmationExpired, Prompt, Goto, session, locals, history
  <2>2. CASE ConfirmedUntracked(t)
    BY <2>2 DEF TypeOK, ConfirmedUntracked, Goto, session, locals, history
  <2>3. CASE ConfirmedTracked(t)
    BY <2>3 DEF TypeOK, ConfirmedTracked, Goto, session, locals, history
  <2>4. CASE ConfirmedSucceeded(t)
    BY <2>4 DEF TypeOK, ConfirmedSucceeded, MayAskAboutLight, Goto, session, locals, history
  <2> QED
    BY <1>4, <2>1, <2>2, <2>3, <2>4
<1>5. CASE ConfirmedUnverified(t) \/ ConfirmedRefused(t) \/ ConfirmedFailed(t)
  BY <1>5 DEF TypeOK, ConfirmedUnverified, ConfirmedRefused, ConfirmedFailed, Goto, session,
    locals, history
<1>6. CASE NoReview(t) \/ CancelReview(t) \/ IgnoreReview(t)
  <2>1. CASE NoReview(t) \/ IgnoreReview(t)
    <3>1. ReturnFalse(t) \in {"rest", "exhausted", "confirm_failed"}
      BY Returning
    <3>2. at'[t] # "idle" /\ at[t] = "review"
      BY <2>1, <3>1 DEF NoReview, IgnoreReview, Goto, TypeOK
    <3> QED
      BY <2>1, <3>2 DEF NoReview, IgnoreReview, TypeOK, session, locals, history
  <2>2. CASE CancelReview(t)
    BY <2>2 DEF CancelReview, Goto, TypeOK, locals, history
  <2> QED
    BY <1>6, <2>1, <2>2
<1>7. CASE SupersedeReview(t) \/ HearFeedback(t) \/ ContinueReview(t)
  BY <1>7 DEF TypeOK, SupersedeReview, HearFeedback, ContinueReview, Goto, session, locals,
    history
<1>8. CASE ReviewSucceeded(t) \/ ReviewStillPending(t) \/ ReviewExhausted(t)
  BY <1>8 DEF TypeOK, ReviewSucceeded, ReviewStillPending, ReviewExhausted, Goto, session,
    locals, history
<1>9. CASE NoteProgress(t) \/ NoteSuperseded(t) \/ NoteClosed(t) \/ NoteExhausted(t) \/
          NoteOpened(t)
  <2>1. CASE NoteSuperseded(t)
    <3>1. ReturnFalse(t) \in {"rest", "exhausted", "confirm_failed"}
      BY Returning
    <3>2. at'[t] # "idle" /\ at[t] = "supersede"
      BY <2>1, <3>1 DEF NoteSuperseded, Goto, TypeOK
    <3> QED
      BY <2>1, <3>2 DEF NoteSuperseded, Note, TypeOK, history
  <2>2. CASE NoteProgress(t) \/ NoteClosed(t) \/ NoteExhausted(t) \/ NoteOpened(t)
    BY <2>2 DEF TypeOK, NoteProgress, NoteClosed, NoteExhausted, NoteOpened, Note, Goto,
      session, history
  <2> QED
    BY <1>9, <2>1, <2>2
<1>10. CASE ResolveFeedback(t) \/ AnswerQuery(t)
  BY <1>10 DEF TypeOK, ResolveFeedback, AnswerQuery, Goto, session, locals, history
<1>11. CASE QueryFeedback(t) \/ NoQueryFeedback(t)
  BY <1>11 DEF TypeOK, QueryFeedback, NoQueryFeedback, Continue, Goto, session, locals,
    history
<1>12. CASE SkipAction(t) \/ AskConfirmation(t) \/ StartAction(t)
  <2>1. CASE SkipAction(t)
    BY <2>1 DEF TypeOK, SkipAction, Goto, session, locals, history
  <2>2. CASE AskConfirmation(t)
    BY <2>2 DEF TypeOK, AskConfirmation, Goto, session, locals, history
  <2>3. CASE StartAction(t)
    BY <2>3 DEF TypeOK, StartAction, Goto, session, locals, history
  <2> QED
    BY <1>12, <2>1, <2>2, <2>3
<1>13. CASE Execute(t)
  BY <1>13 DEF TypeOK, Execute, Submit, Goto, session, locals, history
<1>14. CASE DeferReview(t) \/ SubmittedUntracked(t) \/ ObserveAction(t)
  BY <1>14 DEF TypeOK, DeferReview, SubmittedUntracked, ObserveAction, Tracked, Goto,
    session, locals, history
<1>15. CASE ActionSucceeded(t) \/ ActionUnverified(t) \/ ActionFailed(t)
  BY <1>15 DEF TypeOK, ActionSucceeded, ActionUnverified, ActionFailed, MayAskAboutLight,
    Goto, session, locals, history
<1>16. CASE OpenReview(t)
  BY <1>16 DEF TypeOK, OpenReview, Goto, session, locals, history
<1>17. CASE Finish(t) \/ ConsumeConfirmation(t)
  BY <1>17 DEF TypeOK, Finish, ConsumeConfirmation, Goto, session, locals, history
<1>18. CASE Abort(t) \/ Fail(t)
  BY <1>18 DEF TypeOK, Abort, Fail, Goto, session, locals, history
<1> QED
  BY <1>1, <1>2, <1>3, <1>4, <1>5, <1>6, <1>7, <1>8, <1>9, <1>10, <1>11, <1>12, <1>13,
    <1>14, <1>15, <1>16, <1>17, <1>18 DEF Step

\* The short memory only grows, by one record about the action of the turn that writes;
\* an open one is written only by a review that starts or goes on.
LEMMA MemoryFrame ==
    ASSUME TypeOK,
           NEW t \in Turns, Step(t) \/ Abort(t) \/ Fail(t)
    PROVE  \/ shortMemory' = shortMemory
           \/ \E status \in {"open", "closed", "exhausted"} :
                 /\ shortMemory' = Append(shortMemory,
                        [action |-> act[t], done |-> done[t], status |-> status])
                 /\ status = "open" => at[t] \in {"progress", "opening"}
<1> USE DEF Resting
<1>1. CASE Recall(t) \/ Hydrate(t)
  BY <1>1 DEF TypeOK, Recall, Hydrate, OpenReviews, Window, MayHydrate, Goto, session,
    locals, history
<1>2. CASE CancelConfirmation(t) \/ AcceptConfirmation(t) \/ PassConfirmation(t)
  BY <1>2 DEF TypeOK, CancelConfirmation, AcceptConfirmation, PassConfirmation, Goto,
    session, locals, history
<1>3. CASE ConfirmedExecute(t)
  BY <1>3 DEF TypeOK, ConfirmedExecute, Submit, Goto, session, locals, history
<1>4. CASE ConfirmationExpired(t) \/ ConfirmedUntracked(t) \/ ConfirmedTracked(t) \/
          ConfirmedSucceeded(t)
  BY <1>4 DEF TypeOK, ConfirmationExpired, ConfirmedUntracked, ConfirmedTracked,
    ConfirmedSucceeded, Prompt, MayAskAboutLight, Goto, session, locals, history
<1>5. CASE ConfirmedUnverified(t) \/ ConfirmedRefused(t) \/ ConfirmedFailed(t)
  BY <1>5 DEF TypeOK, ConfirmedUnverified, ConfirmedRefused, ConfirmedFailed, Goto, session,
    locals, history
<1>6. CASE NoReview(t) \/ CancelReview(t) \/ IgnoreReview(t)
  BY <1>6, Returning DEF TypeOK, NoReview, CancelReview, IgnoreReview, Goto, session,
    locals, history
<1>7. CASE SupersedeReview(t) \/ HearFeedback(t) \/ ContinueReview(t)
  BY <1>7 DEF TypeOK, SupersedeReview, HearFeedback, ContinueReview, Goto, session, locals,
    history
<1>8. CASE ReviewSucceeded(t) \/ ReviewStillPending(t) \/ ReviewExhausted(t)
  BY <1>8 DEF TypeOK, ReviewSucceeded, ReviewStillPending, ReviewExhausted, Goto, session,
    locals, history
<1>9. CASE NoteProgress(t) \/ NoteSuperseded(t) \/ NoteClosed(t) \/ NoteExhausted(t) \/
          NoteOpened(t)
  BY <1>9, Returning DEF TypeOK, NoteProgress, NoteSuperseded, NoteClosed, NoteExhausted,
    NoteOpened, Note, Goto, session, locals, history
<1>10. CASE ResolveFeedback(t) \/ AnswerQuery(t)
  BY <1>10 DEF TypeOK, ResolveFeedback, AnswerQuery, Goto, session, locals, history
<1>11. CASE QueryFeedback(t) \/ NoQueryFeedback(t)
  BY <1>11 DEF TypeOK, QueryFeedback, NoQueryFeedback, Continue, Goto, session, locals,
    history
<1>12. CASE SkipAction(t) \/ AskConfirmation(t) \/ StartAction(t)
  BY <1>12 DEF TypeOK, SkipAction, AskConfirmation, StartAction, Goto, session, locals,
    history
<1>13. CASE Execute(t)
  BY <1>13 DEF TypeOK, Execute, Submit, Goto, session, locals, history
<1>14. CASE DeferReview(t) \/ SubmittedUntracked(t) \/ ObserveAction(t)
  BY <1>14 DEF TypeOK, DeferReview, SubmittedUntracked, ObserveAction, Tracked, Goto,
    session, locals, history
<1>15. CASE ActionSucceeded(t) \/ ActionUnverified(t) \/ ActionFailed(t)
  BY <1>15 DEF TypeOK, ActionSucceeded, ActionUnverified, ActionFailed, MayAskAboutLight,
    Goto, session, locals, history
<1>16. CASE OpenReview(t)
  BY <1>16 DEF TypeOK, OpenReview, Goto, session, locals, history
<1>17. CASE Finish(t) \/ ConsumeConfirmation(t)
  BY <1>17 DEF TypeOK, Finish, ConsumeConfirmation, Goto, session, locals, history
<1>18. CASE Abort(t) \/ Fail(t)
  BY <1>18 DEF TypeOK, Abort, Fail, Goto, session, locals, history
<1> QED
  BY <1>1, <1>2, <1>3, <1>4, <1>5, <1>6, <1>7, <1>8, <1>9, <1>10, <1>11, <1>12, <1>13,
    <1>14, <1>15, <1>16, <1>17, <1>18 DEF Step

\* The turn that takes the step keeps its part of Unsent.
LEMMA UnsentOwn ==
    ASSUME TypeOK, Placed, Unsent,
           NEW t \in Turns, Step(t) \/ Abort(t) \/ Fail(t)
    PROVE  UnsentAt(t)'
<1> USE DEF Resting, BeforeSubmit
<1>1. CASE Recall(t) \/ Hydrate(t)
  BY <1>1 DEF Unsent, UnsentAt, TypeOK, Recall, Hydrate, OpenReviews, Window, MayHydrate,
    Goto, session, locals, history
<1>2. CASE CancelConfirmation(t) \/ AcceptConfirmation(t) \/ PassConfirmation(t)
  BY <1>2 DEF Unsent, UnsentAt, TypeOK, CancelConfirmation, AcceptConfirmation,
    PassConfirmation, Goto, session, locals, history
<1>3. CASE ConfirmedExecute(t)
  BY <1>3 DEF Unsent, UnsentAt, TypeOK, ConfirmedExecute, Submit, Goto, session, locals,
    history
<1>4. CASE ConfirmationExpired(t) \/ ConfirmedUntracked(t) \/ ConfirmedTracked(t) \/
          ConfirmedSucceeded(t)
  BY <1>4 DEF Unsent, UnsentAt, TypeOK, ConfirmationExpired, ConfirmedUntracked,
    ConfirmedTracked, ConfirmedSucceeded, Prompt, MayAskAboutLight, Goto, session, locals,
    history
<1>5. CASE ConfirmedUnverified(t) \/ ConfirmedRefused(t) \/ ConfirmedFailed(t)
  BY <1>5 DEF Unsent, UnsentAt, TypeOK, ConfirmedUnverified, ConfirmedRefused,
    ConfirmedFailed, Goto, session, locals, history
<1>6. CASE NoReview(t) \/ CancelReview(t) \/ IgnoreReview(t)
  BY <1>6, Returning DEF Unsent, UnsentAt, TypeOK, NoReview, CancelReview, IgnoreReview,
    Goto, session, locals, history
<1>7. CASE SupersedeReview(t) \/ HearFeedback(t) \/ ContinueReview(t)
  BY <1>7 DEF Unsent, UnsentAt, TypeOK, SupersedeReview, HearFeedback, ContinueReview, Goto,
    session, locals, history
<1>8. CASE ReviewSucceeded(t) \/ ReviewStillPending(t) \/ ReviewExhausted(t)
  BY <1>8 DEF Unsent, UnsentAt, TypeOK, ReviewSucceeded, ReviewStillPending,
    ReviewExhausted, Goto, session, locals, history
<1>9. CASE NoteProgress(t) \/ NoteSuperseded(t) \/ NoteClosed(t) \/ NoteExhausted(t) \/
          NoteOpened(t)
  BY <1>9, Returning DEF Unsent, UnsentAt, TypeOK, NoteProgress, NoteSuperseded, NoteClosed,
    NoteExhausted, NoteOpened, Note, Goto, session, locals, history
<1>10. CASE ResolveFeedback(t) \/ AnswerQuery(t)
  BY <1>10 DEF Unsent, UnsentAt, TypeOK, ResolveFeedback, AnswerQuery, Goto, session,
    locals, history
<1>11. CASE QueryFeedback(t) \/ NoQueryFeedback(t)
  BY <1>11 DEF Unsent, UnsentAt, TypeOK, QueryFeedback, NoQueryFeedback, Continue, Goto,
    session, locals, history
<1>12. CASE SkipAction(t) \/ AskConfirmation(t) \/ StartAction(t)
  BY <1>12 DEF Unsent, UnsentAt, TypeOK, SkipAction, AskConfirmation, StartAction, Goto,
    session, locals, history
<1>13. CASE Execute(t)
  BY <1>13 DEF Unsent, UnsentAt, TypeOK, Execute, Submit, Goto, session, locals, history
<1>14. CASE DeferReview(t) \/ SubmittedUntracked(t) \/ ObserveAction(t)
  BY <1>14 DEF Unsent, UnsentAt, TypeOK, DeferReview, SubmittedUntracked, ObserveAction,
    Tracked, Goto, session, locals, history
<1>15. CASE ActionSucceeded(t) \/ ActionUnverified(t) \/ ActionFailed(t)
  BY <1>15 DEF Unsent, UnsentAt, TypeOK, ActionSucceeded, ActionUnverified, ActionFailed,
    MayAskAboutLight, Goto, session, locals, history
<1>16. CASE OpenReview(t)
  BY <1>16 DEF Unsent, UnsentAt, TypeOK, OpenReview, Goto, session, locals, history
<1>17. CASE Finish(t) \/ ConsumeConfirmation(t)
  BY <1>17 DEF Unsent, UnsentAt, TypeOK, Finish, ConsumeConfirmation, Goto, session, locals,
    history
<1>18. CASE Abort(t) \/ Fail(t)
  BY <1>18 DEF Unsent, UnsentAt, TypeOK, Abort, Fail, Goto, session, locals, history
<1> QED
  BY <1>1, <1>2, <1>3, <1>4, <1>5, <1>6, <1>7, <1>8, <1>9, <1>10, <1>11, <1>12, <1>13,
    <1>14, <1>15, <1>16, <1>17, <1>18 DEF Step

\* The turn that takes the step keeps its part of Answered.
LEMMA AnsweredOwn ==
    ASSUME TypeOK, Placed, Answered,
           NEW t \in Turns, Step(t) \/ Abort(t) \/ Fail(t)
    PROVE  AnsweredAt(t)'
<1> USE DEF Resting
<1>1. CASE Recall(t) \/ Hydrate(t)
  BY <1>1 DEF Answered, AnsweredAt, TypeOK, Recall, Hydrate, OpenReviews, Window,
    MayHydrate, Goto, session, locals, history
<1>2. CASE CancelConfirmation(t) \/ AcceptConfirmation(t) \/ PassConfirmation(t)
  BY <1>2 DEF Answered, AnsweredAt, TypeOK, CancelConfirmation, AcceptConfirmation,
    PassConfirmation, Goto, session, locals, history
<1>3. CASE ConfirmedExecute(t)
  BY <1>3 DEF Answered, AnsweredAt, TypeOK, ConfirmedExecute, Submit, Goto, session, locals,
    history
<1>4. CASE ConfirmationExpired(t) \/ ConfirmedUntracked(t) \/ ConfirmedTracked(t) \/
          ConfirmedSucceeded(t)
  BY <1>4 DEF Answered, AnsweredAt, TypeOK, ConfirmationExpired, ConfirmedUntracked,
    ConfirmedTracked, ConfirmedSucceeded, Prompt, MayAskAboutLight, Goto, session, locals,
    history
<1>5. CASE ConfirmedUnverified(t) \/ ConfirmedRefused(t) \/ ConfirmedFailed(t)
  BY <1>5 DEF Answered, AnsweredAt, TypeOK, ConfirmedUnverified, ConfirmedRefused,
    ConfirmedFailed, Goto, session, locals, history
<1>6. CASE NoReview(t) \/ CancelReview(t) \/ IgnoreReview(t)
  BY <1>6, Returning DEF Answered, AnsweredAt, TypeOK, NoReview, CancelReview, IgnoreReview,
    Goto, session, locals, history
<1>7. CASE SupersedeReview(t) \/ HearFeedback(t) \/ ContinueReview(t)
  BY <1>7 DEF Answered, AnsweredAt, TypeOK, SupersedeReview, HearFeedback, ContinueReview,
    Goto, session, locals, history
<1>8. CASE ReviewSucceeded(t) \/ ReviewStillPending(t) \/ ReviewExhausted(t)
  BY <1>8 DEF Answered, AnsweredAt, TypeOK, ReviewSucceeded, ReviewStillPending,
    ReviewExhausted, Goto, session, locals, history
<1>9. CASE NoteProgress(t) \/ NoteSuperseded(t) \/ NoteClosed(t) \/ NoteExhausted(t) \/
          NoteOpened(t)
  BY <1>9, Returning DEF Answered, AnsweredAt, TypeOK, NoteProgress, NoteSuperseded,
    NoteClosed, NoteExhausted, NoteOpened, Note, Goto, session, locals, history
<1>10. CASE ResolveFeedback(t) \/ AnswerQuery(t)
  BY <1>10 DEF Answered, AnsweredAt, TypeOK, ResolveFeedback, AnswerQuery, Goto, session,
    locals, history
<1>11. CASE QueryFeedback(t) \/ NoQueryFeedback(t)
  BY <1>11 DEF Answered, AnsweredAt, TypeOK, QueryFeedback, NoQueryFeedback, Continue, Goto,
    session, locals, history
<1>12. CASE SkipAction(t) \/ AskConfirmation(t) \/ StartAction(t)
  BY <1>12 DEF Answered, AnsweredAt, TypeOK, SkipAction, AskConfirmation, StartAction, Goto,
    session, locals, history
<1>13. CASE Execute(t)
  BY <1>13 DEF Answered, AnsweredAt, TypeOK, Execute, Submit, Goto, session, locals, history
<1>14. CASE DeferReview(t) \/ SubmittedUntracked(t) \/ ObserveAction(t)
  BY <1>14 DEF Answered, AnsweredAt, TypeOK, DeferReview, SubmittedUntracked, ObserveAction,
    Tracked, Goto, session, locals, history
<1>15. CASE ActionSucceeded(t) \/ ActionUnverified(t) \/ ActionFailed(t)
  BY <1>15 DEF Answered, AnsweredAt, TypeOK, ActionSucceeded, ActionUnverified,
    ActionFailed, MayAskAboutLight, Goto, session, locals, history
<1>16. CASE OpenReview(t)
  BY <1>16 DEF Answered, AnsweredAt, TypeOK, OpenReview, Goto, session, locals, history
<1>17. CASE Finish(t) \/ ConsumeConfirmation(t)
  <2>1. CASE Finish(t)
    <3>1. completed[t] = 0
      BY <2>1 DEF Finish, Answered, AnsweredAt
    <3>2. completed' = [completed EXCEPT ![t] = completed[t] + 1]
      BY <2>1 DEF Finish
    <3>3. completed'[t] = 1
      BY <3>1, <3>2 DEF TypeOK
    <3>4. at'[t] \in {"unconfirm", "done"}
      BY <2>1 DEF Finish, Goto, TypeOK
    <3> QED
      BY <3>3, <3>4 DEF AnsweredAt
  <2>2. CASE ConsumeConfirmation(t)
    BY <2>2 DEF Answered, AnsweredAt, TypeOK, ConsumeConfirmation, Goto, history
  <2> QED
    BY <1>17, <2>1, <2>2
<1>18. CASE Abort(t) \/ Fail(t)
  BY <1>18 DEF Answered, AnsweredAt, TypeOK, Abort, Fail, Goto, session, locals, history
<1> QED
  BY <1>1, <1>2, <1>3, <1>4, <1>5, <1>6, <1>7, <1>8, <1>9, <1>10, <1>11, <1>12, <1>13,
    <1>14, <1>15, <1>16, <1>17, <1>18 DEF Step

\* The turn that takes the step keeps its part of Prompted.
LEMMA PromptedOwn ==
    ASSUME TypeOK, Placed, Prompted,
           NEW t \in Turns, Step(t) \/ Abort(t) \/ Fail(t)
    PROVE  PromptedAt(t)'
<1> USE DEF Resting, BeforeSubmit, Acting
<1>1. CASE Recall(t) \/ Hydrate(t)
  BY <1>1 DEF Prompted, PromptedAt, TypeOK, Placed, Recall, Hydrate, OpenReviews, Window,
    MayHydrate, Goto, session, locals, history
<1>2. CASE CancelConfirmation(t) \/ AcceptConfirmation(t) \/ PassConfirmation(t)
  BY <1>2 DEF Prompted, PromptedAt, TypeOK, Placed, CancelConfirmation, AcceptConfirmation,
    PassConfirmation, Goto, session, locals, history
<1>3. CASE ConfirmedExecute(t)
  BY <1>3 DEF Prompted, PromptedAt, TypeOK, Placed, ConfirmedExecute, Submit, Goto, session,
    locals, history
<1>4. CASE ConfirmationExpired(t) \/ ConfirmedUntracked(t) \/ ConfirmedTracked(t) \/
          ConfirmedSucceeded(t)
  BY <1>4 DEF Prompted, PromptedAt, TypeOK, Placed, ConfirmationExpired, ConfirmedUntracked,
    ConfirmedTracked, ConfirmedSucceeded, Prompt, MayAskAboutLight, Goto, session, locals,
    history
<1>5. CASE ConfirmedUnverified(t) \/ ConfirmedRefused(t) \/ ConfirmedFailed(t)
  BY <1>5 DEF Prompted, PromptedAt, TypeOK, Placed, ConfirmedUnverified, ConfirmedRefused,
    ConfirmedFailed, Goto, session, locals, history
<1>6. CASE NoReview(t) \/ CancelReview(t) \/ IgnoreReview(t)
  BY <1>6, Returning DEF Prompted, PromptedAt, TypeOK, Placed, NoReview, CancelReview,
    IgnoreReview, Goto, session, locals, history
<1>7. CASE SupersedeReview(t) \/ HearFeedback(t) \/ ContinueReview(t)
  BY <1>7 DEF Prompted, PromptedAt, TypeOK, Placed, SupersedeReview, HearFeedback,
    ContinueReview, Goto, session, locals, history
<1>8. CASE ReviewSucceeded(t) \/ ReviewStillPending(t) \/ ReviewExhausted(t)
  BY <1>8 DEF Prompted, PromptedAt, TypeOK, Placed, ReviewSucceeded, ReviewStillPending,
    ReviewExhausted, Goto, session, locals, history
<1>9. CASE NoteProgress(t) \/ NoteSuperseded(t) \/ NoteClosed(t) \/ NoteExhausted(t) \/
          NoteOpened(t)
  BY <1>9, Returning DEF Prompted, PromptedAt, TypeOK, Placed, NoteProgress, NoteSuperseded,
    NoteClosed, NoteExhausted, NoteOpened, Note, Goto, session, locals, history
<1>10. CASE ResolveFeedback(t) \/ AnswerQuery(t)
  BY <1>10 DEF Prompted, PromptedAt, TypeOK, Placed, ResolveFeedback, AnswerQuery, Goto,
    session, locals, history
<1>11. CASE QueryFeedback(t) \/ NoQueryFeedback(t)
  BY <1>11 DEF Prompted, PromptedAt, TypeOK, Placed, QueryFeedback, NoQueryFeedback,
    Continue, Goto, session, locals, history
<1>12. CASE SkipAction(t) \/ AskConfirmation(t) \/ StartAction(t)
  BY <1>12 DEF Prompted, PromptedAt, TypeOK, Placed, SkipAction, AskConfirmation,
    StartAction, Goto, session, locals, history
<1>13. CASE Execute(t)
  BY <1>13 DEF Prompted, PromptedAt, TypeOK, Placed, Execute, Submit, Goto, session, locals,
    history
<1>14. CASE DeferReview(t) \/ SubmittedUntracked(t) \/ ObserveAction(t)
  BY <1>14 DEF Prompted, PromptedAt, TypeOK, Placed, DeferReview, SubmittedUntracked,
    ObserveAction, Tracked, Goto, session, locals, history
<1>15. CASE ActionSucceeded(t) \/ ActionUnverified(t) \/ ActionFailed(t)
  BY <1>15 DEF Prompted, PromptedAt, TypeOK, Placed, ActionSucceeded, ActionUnverified,
    ActionFailed, MayAskAboutLight, Goto, session, locals, history
<1>16. CASE OpenReview(t)
  BY <1>16 DEF Prompted, PromptedAt, TypeOK, Placed, OpenReview, Goto, session, locals,
    history
<1>17. CASE Finish(t) \/ ConsumeConfirmation(t)
  BY <1>17 DEF Prompted, PromptedAt, TypeOK, Placed, Finish, ConsumeConfirmation, Goto,
    session, locals, history
<1>18. CASE Abort(t) \/ Fail(t)
  BY <1>18 DEF Prompted, PromptedAt, TypeOK, Placed, Abort, Fail, Goto, session, locals,
    history
<1> QED
  BY <1>1, <1>2, <1>3, <1>4, <1>5, <1>6, <1>7, <1>8, <1>9, <1>10, <1>11, <1>12, <1>13,
    <1>14, <1>15, <1>16, <1>17, <1>18 DEF Step

\* Unsent is inductive.
LEMMA UnsentStep == TypeOK /\ Placed /\ Unsent /\ [Next]_vars => Unsent'
<1> SUFFICES ASSUME TypeOK, Placed, Unsent, [Next]_vars PROVE Unsent'
  OBVIOUS
<1> USE DEF Unsent, UnsentAt, BeforeSubmit
<1>1. CASE UNCHANGED vars
  BY <1>1 DEF vars, locals, history
<1>2. ASSUME NEW t \in Turns, NEW u \in Utterances, Arrive(t, u) PROVE Unsent'
  BY <1>2 DEF TypeOK, Arrive, Goto, history
<1>3. CASE Restart
  BY <1>3 DEF TypeOK, Restart, Resting, locals
<1>4. ASSUME NEW t \in Turns, Step(t) \/ Abort(t) \/ Fail(t) PROVE Unsent'
  <2>1. \A u \in Turns \ {t} : Same(u)
    BY <1>4, OtherTurns
  <2>2. UnsentAt(t)'
    BY <1>4, UnsentOwn
  <2> QED
    BY <2>1, <2>2 DEF Same
<1> QED
  BY <1>1, <1>2, <1>3, <1>4 DEF Next

\* No turn sends the bridge a second home.execute, through whatever chain of
\* confirmation, review and feedback handlers _run_active takes it.
THEOREM OneCommand == Spec => []OneCommandPerTurn
<1>1. Init => Unsent
  BY DEF Init, Unsent, UnsentAt
<1>2. Unsent => OneCommandPerTurn
  BY DEF Unsent, UnsentAt, OneCommandPerTurn
<1> QED
  BY <1>1, <1>2, Typed, UnsentStep, PTL DEF Spec

\* Answered is inductive.
LEMMA AnsweredStep == TypeOK /\ Placed /\ Answered /\ [Next]_vars => Answered'
<1> SUFFICES ASSUME TypeOK, Placed, Answered, [Next]_vars PROVE Answered'
  OBVIOUS
<1> USE DEF Answered, AnsweredAt
<1>1. CASE UNCHANGED vars
  BY <1>1 DEF vars, history
<1>2. ASSUME NEW t \in Turns, NEW u \in Utterances, Arrive(t, u) PROVE Answered'
  BY <1>2 DEF TypeOK, Arrive, Goto, history
<1>3. CASE Restart
  BY <1>3 DEF TypeOK, Restart, Resting
<1>4. ASSUME NEW t \in Turns, Step(t) \/ Abort(t) \/ Fail(t) PROVE Answered'
  <2>1. \A u \in Turns \ {t} : Same(u)
    BY <1>4, OtherTurns
  <2>2. AnsweredAt(t)'
    BY <1>4, AnsweredOwn
  <2> QED
    BY <2>1, <2>2 DEF Same
<1> QED
  BY <1>1, <1>2, <1>3, <1>4 DEF Next

\* No turn reports its end twice, and none is done without having reported it.
THEOREM OneAnswer == Spec => []OneAnswerPerTurn
<1>1. Init => Answered
  BY DEF Init, Answered, AnsweredAt
<1>2. Answered => OneAnswerPerTurn
  BY DEF Answered, AnsweredAt, OneAnswerPerTurn
<1> QED
  BY <1>1, <1>2, Typed, AnsweredStep, PTL DEF Spec

\* A confirmation is remembered only for an action the user was asked about.
LEMMA PendingPrompted ==
    ASSUME TypeOK, Placed, Prompted,
           NEW t \in Turns, Step(t) \/ Abort(t) \/ Fail(t)
    PROVE  pendingConfirmation' # None => prompts'[pendingConfirmation'] > 0
<1> USE DEF Resting, Acting
<1>1. CASE Recall(t) \/ Hydrate(t)
  BY <1>1 DEF Prompted, PromptedAt, TypeOK, Placed, Recall, Hydrate, OpenReviews, Window,
    MayHydrate, Goto, session, locals, history
<1>2. CASE CancelConfirmation(t) \/ AcceptConfirmation(t) \/ PassConfirmation(t)
  BY <1>2 DEF Prompted, PromptedAt, TypeOK, Placed, CancelConfirmation, AcceptConfirmation,
    PassConfirmation, Goto, session, locals, history
<1>3. CASE ConfirmedExecute(t)
  BY <1>3 DEF Prompted, PromptedAt, TypeOK, Placed, ConfirmedExecute, Submit, Goto, session,
    locals, history
<1>4. CASE ConfirmationExpired(t) \/ ConfirmedUntracked(t) \/ ConfirmedTracked(t) \/
          ConfirmedSucceeded(t)
  BY <1>4 DEF Prompted, PromptedAt, TypeOK, Placed, ConfirmationExpired, ConfirmedUntracked,
    ConfirmedTracked, ConfirmedSucceeded, Prompt, MayAskAboutLight, Goto, session, locals,
    history
<1>5. CASE ConfirmedUnverified(t) \/ ConfirmedRefused(t) \/ ConfirmedFailed(t)
  BY <1>5 DEF Prompted, PromptedAt, TypeOK, Placed, ConfirmedUnverified, ConfirmedRefused,
    ConfirmedFailed, Goto, session, locals, history
<1>6. CASE NoReview(t) \/ CancelReview(t) \/ IgnoreReview(t)
  BY <1>6, Returning DEF Prompted, PromptedAt, TypeOK, Placed, NoReview, CancelReview,
    IgnoreReview, Goto, session, locals, history
<1>7. CASE SupersedeReview(t) \/ HearFeedback(t) \/ ContinueReview(t)
  BY <1>7 DEF Prompted, PromptedAt, TypeOK, Placed, SupersedeReview, HearFeedback,
    ContinueReview, Goto, session, locals, history
<1>8. CASE ReviewSucceeded(t) \/ ReviewStillPending(t) \/ ReviewExhausted(t)
  BY <1>8 DEF Prompted, PromptedAt, TypeOK, Placed, ReviewSucceeded, ReviewStillPending,
    ReviewExhausted, Goto, session, locals, history
<1>9. CASE NoteProgress(t) \/ NoteSuperseded(t) \/ NoteClosed(t) \/ NoteExhausted(t) \/
          NoteOpened(t)
  BY <1>9, Returning DEF Prompted, PromptedAt, TypeOK, Placed, NoteProgress, NoteSuperseded,
    NoteClosed, NoteExhausted, NoteOpened, Note, Goto, session, locals, history
<1>10. CASE ResolveFeedback(t) \/ AnswerQuery(t)
  BY <1>10 DEF Prompted, PromptedAt, TypeOK, Placed, ResolveFeedback, AnswerQuery, Goto,
    session, locals, history
<1>11. CASE QueryFeedback(t) \/ NoQueryFeedback(t)
  BY <1>11 DEF Prompted, PromptedAt, TypeOK, Placed, QueryFeedback, NoQueryFeedback,
    Continue, Goto, session, locals, history
<1>12. CASE SkipAction(t) \/ AskConfirmation(t) \/ StartAction(t)
  BY <1>12 DEF Prompted, PromptedAt, TypeOK, Placed, SkipAction, AskConfirmation,
    StartAction, Goto, session, locals, history
<1>13. CASE Execute(t)
  BY <1>13 DEF Prompted, PromptedAt, TypeOK, Placed, Execute, Submit, Goto, session, locals,
    history
<1>14. CASE DeferReview(t) \/ SubmittedUntracked(t) \/ ObserveAction(t)
  BY <1>14 DEF Prompted, PromptedAt, TypeOK, Placed, DeferReview, SubmittedUntracked,
    ObserveAction, Tracked, Goto, session, locals, history
<1>15. CASE ActionSucceeded(t) \/ ActionUnverified(t) \/ ActionFailed(t)
  BY <1>15 DEF Prompted, PromptedAt, TypeOK, Placed, ActionSucceeded, ActionUnverified,
    ActionFailed, MayAskAboutLight, Goto, session, locals, history
<1>16. CASE OpenReview(t)
  BY <1>16 DEF Prompted, PromptedAt, TypeOK, Placed, OpenReview, Goto, session, locals,
    history
<1>17. CASE Finish(t) \/ ConsumeConfirmation(t)
  BY <1>17 DEF Prompted, PromptedAt, TypeOK, Placed, Finish, ConsumeConfirmation, Goto,
    session, locals, history
<1>18. CASE Abort(t) \/ Fail(t)
  BY <1>18 DEF Prompted, PromptedAt, TypeOK, Placed, Abort, Fail, Goto, session, locals,
    history
<1> QED
  BY <1>1, <1>2, <1>3, <1>4, <1>5, <1>6, <1>7, <1>8, <1>9, <1>10, <1>11, <1>12, <1>13,
    <1>14, <1>15, <1>16, <1>17, <1>18 DEF Step

\* Prompted is inductive.
LEMMA PromptedStep == TypeOK /\ Placed /\ Prompted /\ [Next]_vars => Prompted'
<1> SUFFICES ASSUME TypeOK, Placed, Prompted, [Next]_vars PROVE Prompted'
  OBVIOUS
<1>1. CASE UNCHANGED vars
  BY <1>1 DEF Prompted, PromptedAt, vars, session, locals, history
<1>2. ASSUME NEW t \in Turns, NEW u \in Utterances, Arrive(t, u) PROVE Prompted'
  <2>1. \A v \in Turns : v # t => at'[v] = at[v] /\ said'[v] = said[v]
    BY <1>2 DEF Arrive, Goto, TypeOK
  <2>2. at'[t] = "recall" /\ at[t] = "idle"
    BY <1>2 DEF Arrive, Goto, TypeOK
  <2> QED
    BY <1>2, <2>1, <2>2 DEF Prompted, PromptedAt, BeforeSubmit, Arrive, session, history
<1>3. CASE Restart
  BY <1>3 DEF Prompted, PromptedAt, BeforeSubmit, Restart, Resting, TypeOK, locals
<1>4. ASSUME NEW t \in Turns, Step(t) \/ Abort(t) \/ Fail(t) PROVE Prompted'
  <2>1. \A u \in Turns \ {t} : Same(u)
    BY <1>4, OtherTurns
  <2>2. PromptedAt(t)'
    BY <1>4, PromptedOwn
  <2>3. pendingConfirmation' # None => prompts'[pendingConfirmation'] > 0
    BY <1>4, PendingPrompted
  <2>4. \A a \in Actions : prompts'[a] >= prompts[a] /\ prompts[a] \in Nat /\ prompts'[a] \in Nat
    BY <1>4, Frame, TypeStep DEF Next, TypeOK
  <2>5. ASSUME NEW u \in Turns \ {t} PROVE PromptedAt(u)'
    <3>1. Same(u) /\ PromptedAt(u)
      BY <2>1 DEF Prompted
    <3>2. at[u] \in Acting => prompts'[act[u]] >= prompts[act[u]] /\ prompts[act[u]] \in Nat
                              /\ prompts'[act[u]] \in Nat
      BY <2>4 DEF Placed
    <3> QED
      BY <3>1, <3>2 DEF PromptedAt, Same, Acting
  <2> QED
    BY <2>2, <2>3, <2>5 DEF Prompted
<1> QED
  BY <1>1, <1>2, <1>3, <1>4 DEF Next

\* With Prompted, the property itself; a sender has arrived, so its text is fixed.
ConfirmedInv == Prompted /\ ConfirmedByUser /\ \A s \in sent : at[s.turn] # "idle"

\* ConfirmedInv is inductive.
LEMMA ConfirmedStep == TypeOK /\ Placed /\ ConfirmedInv /\ [Next]_vars => ConfirmedInv'
<1> SUFFICES ASSUME TypeOK, Placed, ConfirmedInv, [Next]_vars PROVE ConfirmedInv'
  OBVIOUS
<1>0. Prompted'
  BY PromptedStep DEF ConfirmedInv
<1>1. CASE UNCHANGED vars
  BY <1>0, <1>1 DEF ConfirmedInv, ConfirmedByUser, vars, locals, history
<1>2. ASSUME NEW t \in Turns, NEW u \in Utterances, Arrive(t, u) PROVE ConfirmedInv'
  <2>1. \A s \in sent : s.turn \in Turns /\ s.turn # t
    BY <1>2 DEF ConfirmedInv, Arrive, TypeOK, Submission
  <2>2. \A v \in Turns \ {t} : at'[v] = at[v] /\ said'[v] = said[v]
    BY <1>2 DEF Arrive, Goto, TypeOK
  <2> QED
    BY <1>0, <1>2, <2>1, <2>2 DEF ConfirmedInv, ConfirmedByUser, Arrive, history
<1>3. CASE Restart
  BY <1>0, <1>3 DEF ConfirmedInv, ConfirmedByUser, Restart, Resting, TypeOK, Submission, locals
<1>4. ASSUME NEW t \in Turns, Step(t) \/ Abort(t) \/ Fail(t) PROVE ConfirmedInv'
  <2>1. said' = said /\ at[t] # "idle" /\ at'[t] # "idle"
    BY <1>4, Frame
  <2>2. \A v \in Turns : at[v] # "idle" => at'[v] # "idle"
    BY <1>4, <2>1, OtherTurns DEF Same
  <2>3. \A a \in Actions : prompts[a] > 0 => prompts'[a] > 0
    <3>1. TypeOK'
      BY TypeStep
    <3>2. \A a \in Actions : prompts'[a] >= prompts[a]
      BY <1>4, Frame
    <3> QED
      BY <3>1, <3>2 DEF TypeOK
  <2>4. \A s \in sent : at'[s.turn] # "idle" /\ s.action \in Actions /\ s.turn \in Turns
    BY <2>2 DEF ConfirmedInv, TypeOK, Submission
  <2>5. \A s \in sent : s.action \in ConfirmRequired =>
           /\ s.confirmed /\ said'[s.turn] # None
           /\ said'[s.turn].reply /\ ~said'[s.turn].cancel /\ prompts'[s.action] > 0
    BY <2>1, <2>3, <2>4 DEF ConfirmedInv, ConfirmedByUser
  <2>6. CASE sent' = sent
    BY <1>0, <2>4, <2>5, <2>6 DEF ConfirmedInv, ConfirmedByUser
  <2>7. ASSUME at[t] = "confirmed_execute", NEW r \in Result,
               sent' = sent \cup {[turn |-> t, action |-> act[t], confirmed |-> TRUE, result |-> r]}
        PROVE  ConfirmedInv'
    <3>1. said[t].reply /\ ~said[t].cancel /\ prompts[act[t]] > 0
      BY <2>7 DEF ConfirmedInv, Prompted, PromptedAt
    <3>2. said[t] # None /\ act[t] \in Actions
      BY <2>7, TurnAssumption DEF Placed, Acting
    <3>3. said'[t] # None /\ said'[t].reply /\ ~said'[t].cancel /\ prompts'[act[t]] > 0
      BY <2>1, <2>3, <3>1, <3>2
    <3> QED
      BY <1>0, <2>1, <2>4, <2>5, <2>7, <3>3 DEF ConfirmedInv, ConfirmedByUser
  <2>8. ASSUME at[t] = "execute", NEW r \in Result,
               sent' = sent \cup {[turn |-> t, action |-> act[t], confirmed |-> FALSE, result
                 |-> r]}
        PROVE  ConfirmedInv'
    <3>1. act[t] \notin ConfirmRequired
      BY <2>8 DEF ConfirmedInv, Prompted, PromptedAt
    <3> QED
      BY <1>0, <2>1, <2>4, <2>5, <2>8, <3>1 DEF ConfirmedInv, ConfirmedByUser
  <2> QED
    BY <1>4, <2>6, <2>7, <2>8, Frame
<1> QED
  BY <1>1, <1>2, <1>3, <1>4 DEF Next

\* An action that needs confirmation reaches the bridge only by the word of a user who
\* was asked about it.
THEOREM Confirmed == Spec => []ConfirmedByUser
<1>1. Init => ConfirmedInv
  BY DEF Init, ConfirmedInv, Prompted, PromptedAt, ConfirmedByUser
<1>2. ConfirmedInv => ConfirmedByUser
  BY DEF ConfirmedInv
<1> QED
  BY <1>1, <1>2, Typed, ConfirmedStep, PTL DEF Spec

\* An accepted request stays accepted.
LEMMA AcceptedStays ==
    ASSUME TypeOK, NEW t \in Turns, Step(t) \/ Abort(t) \/ Fail(t)
    PROVE  Accepted \subseteq Accepted'
<1>1. sent \subseteq sent'
  BY Frame
<1> QED
  BY <1>1 DEF Accepted

\* The turn that takes the step keeps its part of Backed.
LEMMA BackedOwn ==
    ASSUME TypeOK, Placed, Backed,
           NEW t \in Turns, Step(t) \/ Abort(t) \/ Fail(t)
    PROVE  BackedAt(t)'
<1> USE DEF Resting
<1>1. CASE Recall(t) \/ Hydrate(t)
  <2>1. CASE Recall(t)
    <3>1. \A i \in OpenReviews : shortMemory[i].action \in Accepted
      BY DEF Backed, OpenReviews, Window
    <3>2. recalled'[t] # None => recalled'[t].action \in Accepted
      BY <2>1, <3>1 DEF Recall, TypeOK, Backed, BackedAt
    <3> QED
      BY <2>1, <3>2, AcceptedStays DEF Recall, Goto, TypeOK, BackedAt
  <2>2. CASE Hydrate(t)
    BY <2>2, AcceptedStays DEF Hydrate, Goto, TypeOK, Backed, BackedAt, locals
  <2> QED
    BY <1>1, <2>1, <2>2
<1>2. CASE CancelConfirmation(t) \/ AcceptConfirmation(t) \/ PassConfirmation(t)
  BY <1>2, AcceptedStays DEF Backed, BackedAt, TypeOK, CancelConfirmation, AcceptConfirmation,
    PassConfirmation, Goto, session, locals, history
<1>3. CASE ConfirmedExecute(t)
  <2>1. PICK r \in Result : Submit(t, TRUE, r)
    BY <1>3, AcceptedStays DEF ConfirmedExecute
  <2>2. [turn |-> t, action |-> act[t], confirmed |-> TRUE, result |-> r] \in sent'
    BY <2>1 DEF Submit
  <2>3. act[t] \in Actions
    BY <1>3, AcceptedStays DEF ConfirmedExecute, Placed, Acting
  <2>4. r = "accepted" => act[t] \in Accepted'
    BY <2>2, <2>3 DEF Accepted
  <2>5. at'[t] = "confirmed_result" /\ result'[t] = r /\ act' = act /\ recalled' = recalled
    BY <1>3, <2>1 DEF ConfirmedExecute, Submit, Goto, TypeOK
  <2> QED
    BY <2>4, <2>5, AcceptedStays DEF Backed, BackedAt
<1>4. CASE ConfirmationExpired(t) \/ ConfirmedUntracked(t) \/ ConfirmedTracked(t) \/
          ConfirmedSucceeded(t)
  BY <1>4, AcceptedStays DEF Backed, BackedAt, TypeOK, ConfirmationExpired, ConfirmedUntracked,
    ConfirmedTracked, ConfirmedSucceeded, Prompt, MayAskAboutLight, Goto, session, locals,
    history
<1>5. CASE ConfirmedUnverified(t) \/ ConfirmedRefused(t) \/ ConfirmedFailed(t)
  BY <1>5, AcceptedStays DEF Backed, BackedAt, TypeOK, ConfirmedUnverified, ConfirmedRefused,
    ConfirmedFailed, Goto, session, locals, history
<1>6. CASE NoReview(t) \/ CancelReview(t) \/ IgnoreReview(t)
  BY <1>6, Returning, AcceptedStays DEF Backed, BackedAt, TypeOK, NoReview, CancelReview,
    IgnoreReview,
    Goto, session, locals, history
<1>7. CASE SupersedeReview(t) \/ HearFeedback(t) \/ ContinueReview(t)
  BY <1>7, AcceptedStays DEF Backed, BackedAt, TypeOK, SupersedeReview, HearFeedback,
    ContinueReview, Goto,
    session, locals, history
<1>8. CASE ReviewSucceeded(t) \/ ReviewStillPending(t) \/ ReviewExhausted(t)
  BY <1>8, AcceptedStays DEF Backed, BackedAt, TypeOK, ReviewSucceeded, ReviewStillPending,
    ReviewExhausted, Goto, session, locals, history
<1>9. CASE NoteProgress(t) \/ NoteSuperseded(t) \/ NoteClosed(t) \/ NoteExhausted(t) \/
          NoteOpened(t)
  BY <1>9, Returning, AcceptedStays DEF Backed, BackedAt, TypeOK, NoteProgress, NoteSuperseded,
    NoteClosed,
    NoteExhausted, NoteOpened, Note, Goto, session, locals, history
<1>10. CASE ResolveFeedback(t) \/ AnswerQuery(t)
  BY <1>10, AcceptedStays DEF Backed, BackedAt, TypeOK, ResolveFeedback, AnswerQuery, Goto, session,
    locals, history
<1>11. CASE QueryFeedback(t) \/ NoQueryFeedback(t)
  BY <1>11, AcceptedStays DEF Backed, BackedAt, TypeOK, QueryFeedback, NoQueryFeedback,
    Continue, Goto,
    session, locals, history
<1>12. CASE SkipAction(t) \/ AskConfirmation(t) \/ StartAction(t)
  BY <1>12, AcceptedStays DEF Backed, BackedAt, TypeOK, SkipAction, AskConfirmation,
    StartAction, Goto,
    session, locals, history
<1>13. CASE Execute(t)
  <2>1. PICK r \in Result : Submit(t, FALSE, r)
    BY <1>13, AcceptedStays DEF Execute
  <2>2. [turn |-> t, action |-> act[t], confirmed |-> FALSE, result |-> r] \in sent'
    BY <2>1 DEF Submit
  <2>3. act[t] \in Actions
    BY <1>13, AcceptedStays DEF Execute, Placed, Acting
  <2>4. r = "accepted" => act[t] \in Accepted'
    BY <2>2, <2>3 DEF Accepted
  <2>5. at'[t] = "result" /\ result'[t] = r /\ act' = act /\ recalled' = recalled
    BY <1>13, <2>1 DEF Execute, Submit, Goto, TypeOK
  <2> QED
    BY <2>4, <2>5, AcceptedStays DEF Backed, BackedAt
<1>14. CASE DeferReview(t) \/ SubmittedUntracked(t) \/ ObserveAction(t)
  BY <1>14, AcceptedStays DEF Backed, BackedAt, TypeOK, DeferReview, SubmittedUntracked,
    ObserveAction,
    Tracked, Goto, session, locals, history
<1>15. CASE ActionSucceeded(t) \/ ActionUnverified(t) \/ ActionFailed(t)
  BY <1>15, AcceptedStays DEF Backed, BackedAt, TypeOK, ActionSucceeded, ActionUnverified,
    ActionFailed,
    MayAskAboutLight, Goto, session, locals, history
<1>16. CASE OpenReview(t)
  BY <1>16, AcceptedStays DEF Backed, BackedAt, TypeOK, OpenReview, Goto, session, locals, history
<1>17. CASE Finish(t) \/ ConsumeConfirmation(t)
  BY <1>17, AcceptedStays DEF Backed, BackedAt, TypeOK, Finish, ConsumeConfirmation, Goto,
    session, locals,
    history
<1>18. CASE Abort(t) \/ Fail(t)
  BY <1>18, AcceptedStays DEF Backed, BackedAt, TypeOK, Abort, Fail, Goto, session, locals, history
<1> QED
  BY <1>1, <1>2, <1>3, <1>4, <1>5, <1>6, <1>7, <1>8, <1>9, <1>10, <1>11, <1>12, <1>13,
    <1>14, <1>15, <1>16, <1>17, <1>18 DEF Step

\* A review becomes pending only about an accepted request.
LEMMA PendingBacked ==
    ASSUME TypeOK, Placed, Backed,
           NEW t \in Turns, Step(t) \/ Abort(t) \/ Fail(t)
    PROVE  pendingReview' # None => pendingReview'.action \in Accepted'
<1> USE DEF Resting
<1>1. CASE Recall(t) \/ Hydrate(t)
  <2>1. CASE Recall(t)
    BY <2>1, AcceptedStays DEF Recall, Backed, session
  <2>2. CASE Hydrate(t) /\ MayHydrate(t)
    BY <2>2, AcceptedStays DEF Hydrate, MayHydrate, Backed, BackedAt
  <2>3. CASE Hydrate(t) /\ ~MayHydrate(t)
    BY <2>3, AcceptedStays DEF Hydrate, Backed
  <2> QED
    BY <1>1, <2>1, <2>2, <2>3
<1>2. CASE CancelConfirmation(t) \/ AcceptConfirmation(t) \/ PassConfirmation(t)
  BY <1>2, AcceptedStays DEF Backed, BackedAt, TypeOK, CancelConfirmation, AcceptConfirmation,
    PassConfirmation, Goto, session, locals, history
<1>3. CASE ConfirmedExecute(t)
  BY <1>3, AcceptedStays DEF Backed, BackedAt, TypeOK, ConfirmedExecute, Submit, Goto, session,
    locals,
    history
<1>4. CASE ConfirmationExpired(t) \/ ConfirmedUntracked(t) \/ ConfirmedTracked(t) \/
          ConfirmedSucceeded(t)
  BY <1>4, AcceptedStays DEF Backed, BackedAt, TypeOK, ConfirmationExpired, ConfirmedUntracked,
    ConfirmedTracked, ConfirmedSucceeded, Prompt, MayAskAboutLight, Goto, session, locals,
    history
<1>5. CASE ConfirmedUnverified(t) \/ ConfirmedRefused(t) \/ ConfirmedFailed(t)
  BY <1>5, AcceptedStays DEF Backed, BackedAt, TypeOK, ConfirmedUnverified, ConfirmedRefused,
    ConfirmedFailed, Goto, session, locals, history
<1>6. CASE NoReview(t) \/ CancelReview(t) \/ IgnoreReview(t)
  BY <1>6, Returning, AcceptedStays DEF Backed, BackedAt, TypeOK, NoReview, CancelReview,
    IgnoreReview,
    Goto, session, locals, history
<1>7. CASE SupersedeReview(t) \/ HearFeedback(t) \/ ContinueReview(t)
  BY <1>7, AcceptedStays DEF Backed, BackedAt, TypeOK, SupersedeReview, HearFeedback,
    ContinueReview, Goto,
    session, locals, history
<1>8. CASE ReviewSucceeded(t) \/ ReviewStillPending(t) \/ ReviewExhausted(t)
  <2>1. CASE ReviewStillPending(t)
    <3>1. pendingReview' # None => pendingReview # None /\ pendingReview'.action =
      pendingReview.action
      BY <2>1 DEF ReviewStillPending, TypeOK, Review
    <3> QED
      BY <3>1, AcceptedStays DEF Backed
  <2>2. CASE ReviewSucceeded(t) \/ ReviewExhausted(t)
    BY <2>2 DEF ReviewSucceeded, ReviewExhausted
  <2> QED
    BY <1>8, <2>1, <2>2
<1>9. CASE NoteProgress(t) \/ NoteSuperseded(t) \/ NoteClosed(t) \/ NoteExhausted(t) \/
          NoteOpened(t)
  BY <1>9, Returning, AcceptedStays DEF Backed, BackedAt, TypeOK, NoteProgress, NoteSuperseded,
    NoteClosed,
    NoteExhausted, NoteOpened, Note, Goto, session, locals, history
<1>10. CASE ResolveFeedback(t) \/ AnswerQuery(t)
  BY <1>10, AcceptedStays DEF Backed, BackedAt, TypeOK, ResolveFeedback, AnswerQuery, Goto, session,
    locals, history
<1>11. CASE QueryFeedback(t) \/ NoQueryFeedback(t)
  BY <1>11, AcceptedStays DEF Backed, BackedAt, TypeOK, QueryFeedback, NoQueryFeedback,
    Continue, Goto,
    session, locals, history
<1>12. CASE SkipAction(t) \/ AskConfirmation(t) \/ StartAction(t)
  BY <1>12, AcceptedStays DEF Backed, BackedAt, TypeOK, SkipAction, AskConfirmation,
    StartAction, Goto,
    session, locals, history
<1>13. CASE Execute(t)
  BY <1>13, AcceptedStays DEF Backed, BackedAt, TypeOK, Execute, Submit, Goto, session, locals,
    history
<1>14. CASE DeferReview(t) \/ SubmittedUntracked(t) \/ ObserveAction(t)
  BY <1>14, AcceptedStays DEF Backed, BackedAt, TypeOK, DeferReview, SubmittedUntracked,
    ObserveAction,
    Tracked, Goto, session, locals, history
<1>15. CASE ActionSucceeded(t) \/ ActionUnverified(t) \/ ActionFailed(t)
  BY <1>15, AcceptedStays DEF Backed, BackedAt, TypeOK, ActionSucceeded, ActionUnverified,
    ActionFailed,
    MayAskAboutLight, Goto, session, locals, history
<1>16. CASE OpenReview(t)
  BY <1>16, AcceptedStays DEF Backed, BackedAt, TypeOK, OpenReview, Goto, session, locals, history
<1>17. CASE Finish(t) \/ ConsumeConfirmation(t)
  BY <1>17, AcceptedStays DEF Backed, BackedAt, TypeOK, Finish, ConsumeConfirmation, Goto,
    session, locals,
    history
<1>18. CASE Abort(t) \/ Fail(t)
  BY <1>18, AcceptedStays DEF Backed, BackedAt, TypeOK, Abort, Fail, Goto, session, locals, history
<1> QED
  BY <1>1, <1>2, <1>3, <1>4, <1>5, <1>6, <1>7, <1>8, <1>9, <1>10, <1>11, <1>12, <1>13,
    <1>14, <1>15, <1>16, <1>17, <1>18 DEF Step

\* An open record is only written about an accepted request.
LEMMA MemoryBacked ==
    ASSUME TypeOK, Placed, Backed, NEW t \in Turns, Step(t) \/ Abort(t) \/ Fail(t)
    PROVE  \A i \in DOMAIN shortMemory' :
               shortMemory'[i].status = "open" => shortMemory'[i].action \in Accepted'
<1>1. CASE shortMemory' = shortMemory
  BY <1>1, AcceptedStays DEF Backed
<1>2. ASSUME NEW status \in {"open", "closed", "exhausted"},
             shortMemory' = Append(shortMemory,
                 [action |-> act[t], done |-> done[t], status |-> status]),
             status = "open" => at[t] \in {"progress", "opening"}
      PROVE  \A i \in DOMAIN shortMemory' :
                 shortMemory'[i].status = "open" => shortMemory'[i].action \in Accepted'
  <2>1. status = "open" => act[t] \in Accepted'
    BY <1>2, AcceptedStays DEF Backed, BackedAt
  <2>2. \A i \in DOMAIN shortMemory' :
           \/ i \in DOMAIN shortMemory /\ shortMemory'[i] = shortMemory[i]
           \/ shortMemory'[i] = [action |-> act[t], done |-> done[t], status |-> status]
    BY <1>2 DEF TypeOK
  <2> QED
    BY <2>1, <2>2, AcceptedStays DEF Backed
<1> QED
  BY <1>1, <1>2, MemoryFrame

\* Backed is inductive.
LEMMA BackedStep == TypeOK /\ Placed /\ Backed /\ [Next]_vars => Backed'
<1> SUFFICES ASSUME TypeOK, Placed, Backed, [Next]_vars PROVE Backed'
  OBVIOUS
<1>1. CASE UNCHANGED vars
  BY <1>1 DEF Backed, BackedAt, Accepted, vars, session, locals, history
<1>2. ASSUME NEW t \in Turns, NEW u \in Utterances, Arrive(t, u) PROVE Backed'
  <2>1. Accepted' = Accepted
    BY <1>2 DEF Arrive, Accepted, history
  <2> QED
    BY <1>2, <2>1 DEF Backed, BackedAt, Arrive, Goto, TypeOK, session, history
<1>3. CASE Restart
  <2>1. Accepted' = Accepted
    BY <1>3 DEF Restart, Accepted
  <2> QED
    BY <1>3, <2>1 DEF Backed, BackedAt, Restart, Resting, TypeOK, locals
<1>4. ASSUME NEW t \in Turns, Step(t) \/ Abort(t) \/ Fail(t) PROVE Backed'
  <2>1. \A u \in Turns \ {t} : Same(u)
    BY <1>4, OtherTurns
  <2>2. \A u \in Turns \ {t} : BackedAt(u)'
    BY <1>4, <2>1, AcceptedStays DEF Same, Backed, BackedAt
  <2>3. BackedAt(t)'
    BY <1>4, BackedOwn
  <2>4. pendingReview' # None => pendingReview'.action \in Accepted'
    BY <1>4, PendingBacked
  <2>5. \A i \in DOMAIN shortMemory' :
           shortMemory'[i].status = "open" => shortMemory'[i].action \in Accepted'
    BY <1>4, MemoryBacked
  <2> QED
    BY <2>2, <2>3, <2>4, <2>5 DEF Backed
<1> QED
  BY <1>1, <1>2, <1>3, <1>4 DEF Next

\* Whatever the interleaving of turns and restarts, a pending review is about a request
\* the bridge accepted.
THEOREM Reviewed == Spec => []ReviewedWasAccepted
<1>1. Init => Backed
  BY DEF Init, Backed, BackedAt
<1>2. Backed => ReviewedWasAccepted
  BY DEF Backed, Accepted, ReviewedWasAccepted
<1> QED
  BY <1>1, <1>2, Typed, BackedStep, PTL DEF Spec

\* An open record stays in the short memory.
LEMMA NotedStays ==
    ASSUME TypeOK, NEW t \in Turns, Step(t) \/ Abort(t) \/ Fail(t)
    PROVE  Noted \subseteq Noted'
<1>1. \A i \in DOMAIN shortMemory : i \in DOMAIN shortMemory' /\ shortMemory'[i] = shortMemory[i]
  <2>1. CASE shortMemory' = shortMemory
    BY <2>1
  <2>2. CASE shortMemory' # shortMemory
    <3>1. PICK status \in {"open", "closed", "exhausted"} :
             shortMemory' = Append(shortMemory,
                 [action |-> act[t], done |-> done[t], status |-> status])
      BY <2>2, MemoryFrame
    <3> QED
      BY <3>1 DEF TypeOK
  <2> QED
    BY <2>1, <2>2
<1> QED
  BY <1>1 DEF Noted

\* The turn that takes the step keeps its part of Recorded.
LEMMA RecordedOwn ==
    ASSUME ~MayLoseMemory, TypeOK, Placed, Recorded,
           NEW t \in Turns, Step(t) \/ Abort(t) \/ Fail(t)
    PROVE  RecordedAt(t)'
<1> USE DEF Resting
<1>1. CASE Recall(t) \/ Hydrate(t)
  <2>1. CASE Recall(t)
    <3>1. \A i \in OpenReviews : shortMemory[i].action \in Noted
      <4>1. \A i \in DOMAIN shortMemory : shortMemory[i] \in Record
        BY DEF TypeOK
      <4>2. \A i \in DOMAIN shortMemory : shortMemory[i].action \in Actions
        BY <4>1 DEF Record
      <4> QED
        BY <4>2 DEF Noted, OpenReviews, Window
    <3>2. recalled'[t] # None => recalled'[t].action \in Noted
      BY <2>1, <3>1 DEF Recall, TypeOK, Recorded, RecordedAt
    <3> QED
      BY <2>1, <3>2, NotedStays DEF Recall, Goto, TypeOK, RecordedAt
  <2>2. CASE Hydrate(t)
    BY <2>2, NotedStays DEF Hydrate, Goto, TypeOK, Recorded, RecordedAt, locals
  <2> QED
    BY <1>1, <2>1, <2>2
<1>2. CASE CancelConfirmation(t) \/ AcceptConfirmation(t) \/ PassConfirmation(t)
  BY <1>2, NotedStays DEF Recorded, RecordedAt, TypeOK, CancelConfirmation, AcceptConfirmation,
    PassConfirmation, Goto, session, locals, history
<1>3. CASE ConfirmedExecute(t)
  BY <1>3, NotedStays DEF Recorded, RecordedAt, TypeOK, ConfirmedExecute, Submit, Goto,
    session, locals,
    history
<1>4. CASE ConfirmationExpired(t) \/ ConfirmedUntracked(t) \/ ConfirmedTracked(t) \/
          ConfirmedSucceeded(t)
  BY <1>4, NotedStays DEF Recorded, RecordedAt, TypeOK, ConfirmationExpired, ConfirmedUntracked,
    ConfirmedTracked, ConfirmedSucceeded, Prompt, MayAskAboutLight, Goto, session, locals,
    history
<1>5. CASE ConfirmedUnverified(t) \/ ConfirmedRefused(t) \/ ConfirmedFailed(t)
  BY <1>5, NotedStays DEF Recorded, RecordedAt, TypeOK, ConfirmedUnverified, ConfirmedRefused,
    ConfirmedFailed, Goto, session, locals, history
<1>6. CASE NoReview(t) \/ CancelReview(t) \/ IgnoreReview(t)
  BY <1>6, Returning, NotedStays DEF Recorded, RecordedAt, TypeOK, NoReview, CancelReview,
    IgnoreReview,
    Goto, session, locals, history
<1>7. CASE SupersedeReview(t) \/ HearFeedback(t) \/ ContinueReview(t)
  BY <1>7, NotedStays DEF Recorded, RecordedAt, TypeOK, SupersedeReview, HearFeedback,
    ContinueReview,
    Goto, session, locals, history
<1>8. CASE ReviewSucceeded(t) \/ ReviewStillPending(t) \/ ReviewExhausted(t)
  BY <1>8, NotedStays DEF Recorded, RecordedAt, TypeOK, ReviewSucceeded, ReviewStillPending,
    ReviewExhausted, Goto, session, locals, history
<1>9. CASE NoteProgress(t) \/ NoteSuperseded(t) \/ NoteClosed(t) \/ NoteExhausted(t) \/
          NoteOpened(t)
  <2>1. CASE NoteOpened(t)
    <3>1. shortMemory' = Append(shortMemory, [action |-> act[t], done |-> done[t], status |->
      "open"])
      BY <2>1 DEF NoteOpened, Note
    <3>2. act[t] \in Actions
      BY <2>1 DEF NoteOpened, Placed, Acting
    <3>3. Len(shortMemory) + 1 \in DOMAIN shortMemory'
      BY <3>1 DEF TypeOK
    <3>4. shortMemory'[Len(shortMemory) + 1] =
             [action |-> act[t], done |-> done[t], status |-> "open"]
      BY <3>1 DEF TypeOK
    <3>5. act[t] \in Noted'
      BY <3>2, <3>3, <3>4 DEF Noted
    <3> QED
      BY <2>1, <3>5, NotedStays DEF NoteOpened, Note, Goto, TypeOK, Recorded, RecordedAt
  <2>2. CASE NoteProgress(t) \/ NoteSuperseded(t) \/ NoteClosed(t) \/ NoteExhausted(t)
    BY <2>2, NotedStays, Returning DEF NoteProgress, NoteSuperseded, NoteClosed, NoteExhausted,
      Note, Goto, TypeOK, Recorded, RecordedAt
  <2> QED
    BY <1>9, <2>1, <2>2
<1>10. CASE ResolveFeedback(t) \/ AnswerQuery(t)
  BY <1>10, NotedStays DEF Recorded, RecordedAt, TypeOK, ResolveFeedback, AnswerQuery, Goto,
    session,
    locals, history
<1>11. CASE QueryFeedback(t) \/ NoQueryFeedback(t)
  BY <1>11, NotedStays DEF Recorded, RecordedAt, TypeOK, QueryFeedback, NoQueryFeedback,
    Continue, Goto,
    session, locals, history
<1>12. CASE SkipAction(t) \/ AskConfirmation(t) \/ StartAction(t)
  BY <1>12, NotedStays DEF Recorded, RecordedAt, TypeOK, SkipAction, AskConfirmation,
    StartAction, Goto,
    session, locals, history
<1>13. CASE Execute(t)
  BY <1>13, NotedStays DEF Recorded, RecordedAt, TypeOK, Execute, Submit, Goto, session,
    locals, history
<1>14. CASE DeferReview(t) \/ SubmittedUntracked(t) \/ ObserveAction(t)
  BY <1>14, NotedStays DEF Recorded, RecordedAt, TypeOK, DeferReview, SubmittedUntracked,
    ObserveAction,
    Tracked, Goto, session, locals, history
<1>15. CASE ActionSucceeded(t) \/ ActionUnverified(t) \/ ActionFailed(t)
  BY <1>15, NotedStays DEF Recorded, RecordedAt, TypeOK, ActionSucceeded, ActionUnverified,
    ActionFailed, MayAskAboutLight, Goto, session, locals, history
<1>16. CASE OpenReview(t)
  BY <1>16, NotedStays DEF Recorded, RecordedAt, TypeOK, OpenReview, Goto, session, locals, history
<1>17. CASE Finish(t) \/ ConsumeConfirmation(t)
  BY <1>17, NotedStays DEF Recorded, RecordedAt, TypeOK, Finish, ConsumeConfirmation, Goto, session,
    locals, history
<1>18. CASE Abort(t) \/ Fail(t)
  BY <1>18, NotedStays DEF Recorded, RecordedAt, TypeOK, Abort, Fail, Goto, session, locals, history
<1> QED
  BY <1>1, <1>2, <1>3, <1>4, <1>5, <1>6, <1>7, <1>8, <1>9, <1>10, <1>11, <1>12, <1>13,
    <1>14, <1>15, <1>16, <1>17, <1>18 DEF Step

\* A review becomes pending only with an open record of its action.
LEMMA PendingRecorded ==
    ASSUME TypeOK, Placed, Recorded,
           NEW t \in Turns, Step(t) \/ Abort(t) \/ Fail(t)
    PROVE  pendingReview' # None => pendingReview'.action \in Noted'
<1> USE DEF Resting
<1>1. CASE Recall(t) \/ Hydrate(t)
  <2>1. CASE Recall(t)
    BY <2>1, NotedStays DEF Recall, Recorded, session
  <2>2. CASE Hydrate(t) /\ MayHydrate(t)
    BY <2>2, NotedStays DEF Hydrate, MayHydrate, Recorded, RecordedAt
  <2>3. CASE Hydrate(t) /\ ~MayHydrate(t)
    BY <2>3, NotedStays DEF Hydrate, Recorded
  <2> QED
    BY <1>1, <2>1, <2>2, <2>3
<1>2. CASE CancelConfirmation(t) \/ AcceptConfirmation(t) \/ PassConfirmation(t)
  BY <1>2, NotedStays DEF Recorded, RecordedAt, TypeOK, CancelConfirmation, AcceptConfirmation,
    PassConfirmation, Goto, session, locals, history
<1>3. CASE ConfirmedExecute(t)
  BY <1>3, NotedStays DEF Recorded, RecordedAt, TypeOK, ConfirmedExecute, Submit, Goto,
    session, locals,
    history
<1>4. CASE ConfirmationExpired(t) \/ ConfirmedUntracked(t) \/ ConfirmedTracked(t) \/
          ConfirmedSucceeded(t)
  BY <1>4, NotedStays DEF Recorded, RecordedAt, TypeOK, ConfirmationExpired, ConfirmedUntracked,
    ConfirmedTracked, ConfirmedSucceeded, Prompt, MayAskAboutLight, Goto, session, locals,
    history
<1>5. CASE ConfirmedUnverified(t) \/ ConfirmedRefused(t) \/ ConfirmedFailed(t)
  BY <1>5, NotedStays DEF Recorded, RecordedAt, TypeOK, ConfirmedUnverified, ConfirmedRefused,
    ConfirmedFailed, Goto, session, locals, history
<1>6. CASE NoReview(t) \/ CancelReview(t) \/ IgnoreReview(t)
  BY <1>6, Returning, NotedStays DEF Recorded, RecordedAt, TypeOK, NoReview, CancelReview,
    IgnoreReview,
    Goto, session, locals, history
<1>7. CASE SupersedeReview(t) \/ HearFeedback(t) \/ ContinueReview(t)
  BY <1>7, NotedStays DEF Recorded, RecordedAt, TypeOK, SupersedeReview, HearFeedback,
    ContinueReview,
    Goto, session, locals, history
<1>8. CASE ReviewSucceeded(t) \/ ReviewStillPending(t) \/ ReviewExhausted(t)
  <2>1. CASE ReviewStillPending(t)
    <3>1. pendingReview' # None => pendingReview # None /\ pendingReview'.action =
      pendingReview.action
      BY <2>1 DEF ReviewStillPending, TypeOK, Review
    <3> QED
      BY <3>1, NotedStays DEF Recorded
  <2>2. CASE ReviewSucceeded(t) \/ ReviewExhausted(t)
    BY <2>2 DEF ReviewSucceeded, ReviewExhausted
  <2> QED
    BY <1>8, <2>1, <2>2
<1>9. CASE NoteProgress(t) \/ NoteSuperseded(t) \/ NoteClosed(t) \/ NoteExhausted(t) \/
          NoteOpened(t)
  BY <1>9, Returning, NotedStays DEF Recorded, RecordedAt, TypeOK, NoteProgress, NoteSuperseded,
    NoteClosed, NoteExhausted, NoteOpened, Note, Goto, session, locals, history
<1>10. CASE ResolveFeedback(t) \/ AnswerQuery(t)
  BY <1>10, NotedStays DEF Recorded, RecordedAt, TypeOK, ResolveFeedback, AnswerQuery, Goto,
    session,
    locals, history
<1>11. CASE QueryFeedback(t) \/ NoQueryFeedback(t)
  BY <1>11, NotedStays DEF Recorded, RecordedAt, TypeOK, QueryFeedback, NoQueryFeedback,
    Continue, Goto,
    session, locals, history
<1>12. CASE SkipAction(t) \/ AskConfirmation(t) \/ StartAction(t)
  BY <1>12, NotedStays DEF Recorded, RecordedAt, TypeOK, SkipAction, AskConfirmation,
    StartAction, Goto,
    session, locals, history
<1>13. CASE Execute(t)
  BY <1>13, NotedStays DEF Recorded, RecordedAt, TypeOK, Execute, Submit, Goto, session,
    locals, history
<1>14. CASE DeferReview(t) \/ SubmittedUntracked(t) \/ ObserveAction(t)
  BY <1>14, NotedStays DEF Recorded, RecordedAt, TypeOK, DeferReview, SubmittedUntracked,
    ObserveAction,
    Tracked, Goto, session, locals, history
<1>15. CASE ActionSucceeded(t) \/ ActionUnverified(t) \/ ActionFailed(t)
  BY <1>15, NotedStays DEF Recorded, RecordedAt, TypeOK, ActionSucceeded, ActionUnverified,
    ActionFailed, MayAskAboutLight, Goto, session, locals, history
<1>16. CASE OpenReview(t)
  BY <1>16, NotedStays DEF Recorded, RecordedAt, TypeOK, OpenReview, Goto, session, locals, history
<1>17. CASE Finish(t) \/ ConsumeConfirmation(t)
  BY <1>17, NotedStays DEF Recorded, RecordedAt, TypeOK, Finish, ConsumeConfirmation, Goto, session,
    locals, history
<1>18. CASE Abort(t) \/ Fail(t)
  BY <1>18, NotedStays DEF Recorded, RecordedAt, TypeOK, Abort, Fail, Goto, session, locals, history
<1> QED
  BY <1>1, <1>2, <1>3, <1>4, <1>5, <1>6, <1>7, <1>8, <1>9, <1>10, <1>11, <1>12, <1>13,
    <1>14, <1>15, <1>16, <1>17, <1>18 DEF Step

\* Recorded is inductive, if no write to the short memory fails.
LEMMA RecordedStep ==
    ASSUME ~MayLoseMemory
    PROVE  TypeOK /\ Placed /\ Recorded /\ [Next]_vars => Recorded'
<1> SUFFICES ASSUME TypeOK, Placed, Recorded, [Next]_vars PROVE Recorded'
  OBVIOUS
<1>1. CASE UNCHANGED vars
  BY <1>1 DEF Recorded, RecordedAt, Noted, vars, session, locals
<1>2. ASSUME NEW t \in Turns, NEW u \in Utterances, Arrive(t, u) PROVE Recorded'
  <2>1. Noted' = Noted
    BY <1>2 DEF Arrive, Noted, session
  <2> QED
    BY <1>2, <2>1 DEF Recorded, RecordedAt, Arrive, Goto, TypeOK, session
<1>3. CASE Restart
  <2>1. Noted' = Noted
    BY <1>3 DEF Restart, Noted
  <2> QED
    BY <1>3, <2>1 DEF Recorded, RecordedAt, Restart, Resting, TypeOK, locals
<1>4. ASSUME NEW t \in Turns, Step(t) \/ Abort(t) \/ Fail(t) PROVE Recorded'
  <2>1. \A u \in Turns \ {t} : Same(u)
    BY <1>4, OtherTurns
  <2>2. \A u \in Turns \ {t} : RecordedAt(u)'
    BY <1>4, <2>1, NotedStays DEF Same, Recorded, RecordedAt
  <2>3. RecordedAt(t)'
    BY <1>4, RecordedOwn
  <2>4. pendingReview' # None => pendingReview'.action \in Noted'
    BY <1>4, PendingRecorded
  <2> QED
    BY <2>2, <2>3, <2>4 DEF Recorded
<1> QED
  BY <1>1, <1>2, <1>3, <1>4 DEF Next

\* If no write to the short memory fails, every pending review is on record there before
\* it is pending, so that a restart at any point can bring it back.
THEOREM OpenOnRecord == ASSUME ~MayLoseMemory PROVE Spec => []ReviewOnRecord
<1>1. Init => Recorded
  BY DEF Init, Recorded, RecordedAt
<1>2. Recorded => ReviewOnRecord
  BY DEF Recorded, Noted, ReviewOnRecord
<1>3. TypeOK /\ Placed /\ Recorded /\ [Next]_vars => Recorded'
  BY RecordedStep
<1> QED
  BY <1>1, <1>2, <1>3, Typed, PTL DEF Spec
\* Places before the one review of its own that a turn may open.
BeforeOpening ==
    BeforeSubmit \cup {"confirmed_result", "confirmed_observe", "result", "direct_observe",
                       "opening", "opened"}

\* A turn that can still open a review of its own, and one that can still hydrate one.
Unopened(t) ==
    \/ at[t] \in BeforeOpening
    \/ at[t] \in {"review", "observe", "progress", "supersede"} /\ base[t] \in {"first", "again"}

Unhydrated(t) == at[t] \in {"idle", "recall", "hydrate"}

\* Which review object the dictionary holds.
Identity == <<pendingReview.by, pendingReview.hydrated>>

\* A turn that may still make an object is the only one that will: no one has it yet.
FreshAt(t) ==
    /\ Unopened(t) =>
          /\ pendingReview # None => Identity # <<t, FALSE>>
          /\ \A u \in Turns : at[u] = "observe" => obj[u] # <<t, FALSE>>
    /\ Unhydrated(t) =>
          /\ pendingReview # None => Identity # <<t, TRUE>>
          /\ \A u \in Turns : at[u] = "observe" => obj[u] # <<t, TRUE>>

WithinBudget(r) == r.done <= ObservationAttempts[r.action]

\* A turn that observes the pending object works on its action; what it will write, open or
\* hydrate is within the budget.
CountedAt(t) ==
    /\ at[t] = "observe" /\ pendingReview # None /\ obj[t] = Identity =>
          act[t] = pendingReview.action
    /\ recalled[t] # None => WithinBudget(recalled[t])
    /\ at[t] \in {"opening", "opened"} => done[t] <= 1
    /\ at[t] = "progress" => done[t] <= ObservationAttempts[act[t]]

Counted ==
    /\ BudgetKept
    /\ \A i \in DOMAIN shortMemory : shortMemory[i].status = "open" => WithinBudget(shortMemory[i])
    /\ \A t \in Turns : FreshAt(t) /\ CountedAt(t)

\* What a step of a turn does to the review and to what the turn knows of it: an object is
\* made by a hydration or an opening, its count is written by the turn that observed it,
\* and no turn comes back before its hydration or its opening.
LEMMA ReviewFrame ==
    ASSUME TypeOK, Unsent, NEW t \in Turns, Step(t) \/ Abort(t) \/ Fail(t)
    PROVE  /\ \/ pendingReview' \in {pendingReview, None}
              \/ /\ at[t] = "hydrate" /\ recalled[t] # None
                 /\ pendingReview' = [action |-> recalled[t].action, done |-> recalled[t].done,
                                      by |-> t, hydrated |-> TRUE]
              \/ /\ at[t] = "opened"
                 /\ pendingReview' = [action |-> act[t], done |-> done[t],
                                      by |-> t, hydrated |-> FALSE]
              \/ /\ at[t] = "observe" /\ ~Exhausted(t)
                 /\ pendingReview # None /\ obj[t] = Identity
                 /\ pendingReview' = [pendingReview EXCEPT !.done = done[t]]
           /\ at'[t] = "observe" =>
                 /\ at[t] = "review" /\ pendingReview # None /\ pendingReview' = pendingReview
                 /\ obj'[t] = Identity /\ act'[t] = pendingReview.action
           /\ Unopened(t)' => Unopened(t) /\ at[t] # "opened"
           /\ Unhydrated(t)' => Unhydrated(t) /\ at[t] # "hydrate"
           /\ \/ recalled'[t] = recalled[t]
              \/ \E i \in DOMAIN shortMemory :
                    shortMemory[i].status = "open" /\ recalled'[t] = shortMemory[i]
           /\ at'[t] \in {"opening", "opened"} =>
                 done'[t] <= 1 \/ (at[t] = "opening" /\ done'[t] = done[t])
           /\ at'[t] = "progress" =>
                 at[t] = "observe" /\ ~Exhausted(t) /\ act'[t] = act[t] /\ done'[t] = done[t]
<1> USE DEF Resting, BeforeSubmit, BeforeOpening, Unopened, Unhydrated, Identity
<1>1. CASE Recall(t) \/ Hydrate(t)
  BY <1>1 DEF TypeOK, Unsent, UnsentAt, Recall, Hydrate, OpenReviews, Window, MayHydrate, Goto,
    session, locals, history
<1>2. CASE CancelConfirmation(t) \/ AcceptConfirmation(t) \/ PassConfirmation(t)
  BY <1>2 DEF TypeOK, Unsent, UnsentAt, CancelConfirmation, AcceptConfirmation, PassConfirmation,
    Goto, session, locals, history
<1>3. CASE ConfirmedExecute(t)
  BY <1>3 DEF TypeOK, Unsent, UnsentAt, ConfirmedExecute, Submit, Goto, session, locals, history
<1>4. CASE ConfirmationExpired(t) \/ ConfirmedUntracked(t) \/ ConfirmedTracked(t) \/
  ConfirmedSucceeded(t)
  BY <1>4 DEF TypeOK, Unsent, UnsentAt, ConfirmationExpired, ConfirmedUntracked, ConfirmedTracked,
    ConfirmedSucceeded, Prompt, MayAskAboutLight, Goto, session, locals, history
<1>5. CASE ConfirmedUnverified(t) \/ ConfirmedRefused(t) \/ ConfirmedFailed(t)
  BY <1>5 DEF TypeOK, Unsent, UnsentAt, ConfirmedUnverified, ConfirmedRefused, ConfirmedFailed,
    Goto, session, locals, history
<1>6. CASE NoReview(t) \/ CancelReview(t) \/ IgnoreReview(t)
  BY <1>6, Returning DEF TypeOK, Unsent, UnsentAt, NoReview, CancelReview, IgnoreReview, Goto,
    session, locals, history
<1>7. CASE SupersedeReview(t) \/ HearFeedback(t) \/ ContinueReview(t)
  BY <1>7 DEF TypeOK, Unsent, UnsentAt, SupersedeReview, HearFeedback, ContinueReview, Goto,
    session, locals, history
<1>8. CASE ReviewSucceeded(t) \/ ReviewStillPending(t) \/ ReviewExhausted(t)
  BY <1>8 DEF TypeOK, Unsent, UnsentAt, ReviewSucceeded, ReviewStillPending, ReviewExhausted,
    Goto, session, locals, history
<1>9. CASE NoteProgress(t) \/ NoteSuperseded(t) \/ NoteClosed(t) \/ NoteExhausted(t) \/
  NoteOpened(t)
  BY <1>9, Returning DEF TypeOK, Unsent, UnsentAt, NoteProgress, NoteSuperseded, NoteClosed,
    NoteExhausted, NoteOpened, Note, Goto, session, locals, history
<1>10. CASE ResolveFeedback(t) \/ AnswerQuery(t)
  BY <1>10 DEF TypeOK, Unsent, UnsentAt, ResolveFeedback, AnswerQuery, Goto, session, locals,
    history
<1>11. CASE QueryFeedback(t) \/ NoQueryFeedback(t)
  BY <1>11 DEF TypeOK, Unsent, UnsentAt, QueryFeedback, NoQueryFeedback, Continue, Goto, session,
    locals, history
<1>12. CASE SkipAction(t) \/ AskConfirmation(t) \/ StartAction(t)
  BY <1>12 DEF TypeOK, Unsent, UnsentAt, SkipAction, AskConfirmation, StartAction, Goto, session,
    locals, history
<1>13. CASE Execute(t)
  BY <1>13 DEF TypeOK, Unsent, UnsentAt, Execute, Submit, Goto, session, locals, history
<1>14. CASE DeferReview(t) \/ SubmittedUntracked(t) \/ ObserveAction(t)
  BY <1>14 DEF TypeOK, Unsent, UnsentAt, DeferReview, SubmittedUntracked, ObserveAction, Tracked,
    Goto, session, locals, history
<1>15. CASE ActionSucceeded(t) \/ ActionUnverified(t) \/ ActionFailed(t)
  BY <1>15 DEF TypeOK, Unsent, UnsentAt, ActionSucceeded, ActionUnverified, ActionFailed,
    MayAskAboutLight, Goto, session, locals, history
<1>16. CASE OpenReview(t)
  BY <1>16 DEF TypeOK, Unsent, UnsentAt, OpenReview, Goto, session, locals, history
<1>17. CASE Finish(t) \/ ConsumeConfirmation(t)
  BY <1>17 DEF TypeOK, Unsent, UnsentAt, Finish, ConsumeConfirmation, Goto, session, locals,
    history
<1>18. CASE Abort(t) \/ Fail(t)
  BY <1>18 DEF TypeOK, Unsent, UnsentAt, Abort, Fail, Goto, session, locals, history
<1> QED
  BY <1>1, <1>2, <1>3, <1>4, <1>5, <1>6, <1>7, <1>8, <1>9, <1>10, <1>11, <1>12, <1>13, <1>14,
    <1>15, <1>16, <1>17, <1>18 DEF Step
\* A step of a turn keeps every count within its budget: the object whose count it writes
\* is the one it read, so the action is the one whose budget it looked at.
LEMMA CountedTurn ==
    ASSUME TypeOK, Placed, Unsent, Counted, NEW t \in Turns, Step(t) \/ Abort(t) \/ Fail(t)
    PROVE  Counted'
<1>1. FreshAt(t) /\ CountedAt(t) /\ BudgetKept
  BY DEF Counted
<1>2. \A a \in Actions : ObservationAttempts[a] \in 1..4
  BY TurnAssumption
<1>3. done[t] \in Nat
  BY DEF TypeOK
<1>4. at[t] \in {"opened", "opening", "progress", "observe"} => act[t] \in Actions
  BY DEF Placed, Acting
<1>5. BudgetKept'
  <2>1. CASE pendingReview' \in {pendingReview, None}
    BY <1>1, <2>1 DEF BudgetKept
  <2>2. CASE /\ at[t] = "hydrate" /\ recalled[t] # None
             /\ pendingReview' = [action |-> recalled[t].action, done |-> recalled[t].done,
                                  by |-> t, hydrated |-> TRUE]
    BY <1>1, <2>2 DEF BudgetKept, CountedAt, WithinBudget
  <2>3. CASE /\ at[t] = "opened"
             /\ pendingReview' = [action |-> act[t], done |-> done[t],
                                  by |-> t, hydrated |-> FALSE]
    BY <1>1, <1>2, <1>3, <1>4, <2>3 DEF BudgetKept, CountedAt
  <2>4. CASE /\ at[t] = "observe" /\ ~Exhausted(t)
             /\ pendingReview # None /\ obj[t] = Identity
             /\ pendingReview' = [pendingReview EXCEPT !.done = done[t]]
    <3>1. pendingReview \in Review /\ act[t] = pendingReview.action
      BY <1>1, <2>4 DEF TypeOK, CountedAt
    <3>2. pendingReview'.action = act[t] /\ pendingReview'.done = done[t]
      BY <2>4, <3>1 DEF Review
    <3> QED
      BY <1>2, <1>3, <1>4, <2>4, <3>2 DEF BudgetKept, Exhausted
  <2> QED
    BY <2>1, <2>2, <2>3, <2>4, ReviewFrame
<1>6. \A i \in DOMAIN shortMemory' :
         shortMemory'[i].status = "open" => WithinBudget(shortMemory'[i])
  <2>1. CASE shortMemory' = shortMemory
    BY <2>1 DEF Counted, WithinBudget
  <2>2. ASSUME NEW status \in {"open", "closed", "exhausted"},
               shortMemory' = Append(shortMemory,
                   [action |-> act[t], done |-> done[t], status |-> status]),
               status = "open" => at[t] \in {"progress", "opening"}
        PROVE  \A i \in DOMAIN shortMemory' :
                   shortMemory'[i].status = "open" => WithinBudget(shortMemory'[i])
    <3> DEFINE r == [action |-> act[t], done |-> done[t], status |-> status]
    <3>1. shortMemory \in Seq(Record)
      BY DEF TypeOK
    <3>2. /\ Len(shortMemory') = Len(shortMemory) + 1
          /\ \A i \in 1..Len(shortMemory) : shortMemory'[i] = shortMemory[i]
          /\ shortMemory'[Len(shortMemory) + 1] = r
      BY <2>2, <3>1
    <3>3. status = "open" => WithinBudget(r)
      BY <1>1, <1>2, <1>3, <1>4, <2>2 DEF CountedAt, WithinBudget
    <3>4. /\ DOMAIN shortMemory' = 1..(Len(shortMemory) + 1)
          /\ DOMAIN shortMemory = 1..Len(shortMemory)
      BY <2>2, <3>1
    <3> HIDE DEF r
    <3>5. r.status = status
      BY DEF r
    <3>6. \A i \in DOMAIN shortMemory' : i \in DOMAIN shortMemory \/ i = Len(shortMemory) + 1
      BY <3>1, <3>4
    <3> QED
      BY <3>2, <3>3, <3>4, <3>5, <3>6 DEF Counted
  <2> QED
    BY <2>1, <2>2, MemoryFrame
<1>7. \A u \in Turns \ {t} : Same(u)
  BY OtherTurns
<1>8. pendingReview' # None =>
        \/ pendingReview # None /\ Identity' = Identity
        \/ Identity' = <<t, TRUE>> /\ at[t] = "hydrate"
        \/ Identity' = <<t, FALSE>> /\ at[t] = "opened"
  <2>1. CASE /\ pendingReview # None
             /\ pendingReview' = [pendingReview EXCEPT !.done = done[t]]
    BY <2>1 DEF Identity, TypeOK, Review
  <2>2. CASE pendingReview' = pendingReview
    BY <2>2 DEF Identity
  <2>3. CASE /\ at[t] = "hydrate"
             /\ pendingReview' = [action |-> recalled[t].action, done |-> recalled[t].done,
                                  by |-> t, hydrated |-> TRUE]
    BY <2>3 DEF Identity
  <2>4. CASE /\ at[t] = "opened"
             /\ pendingReview' = [action |-> act[t], done |-> done[t],
                                  by |-> t, hydrated |-> FALSE]
    BY <2>4 DEF Identity
  <2> QED
    BY <2>1, <2>2, <2>3, <2>4, ReviewFrame
<1>9. at'[t] = "observe" => pendingReview # None /\ obj'[t] = Identity
  BY ReviewFrame
<1>10. ASSUME NEW u \in Turns PROVE FreshAt(u)'
  <2>1. FreshAt(u) /\ \A v \in Turns : FreshAt(v)
    BY DEF Counted
  <2>2. /\ Unopened(u)' => Unopened(u) /\ (u = t => at[t] # "opened")
        /\ Unhydrated(u)' => Unhydrated(u) /\ (u = t => at[t] # "hydrate")
    BY <1>7, ReviewFrame DEF Same, Unopened, Unhydrated
  <2>3. \A v \in Turns : at'[v] = "observe" =>
           \/ at[v] = "observe" /\ obj'[v] = obj[v]
           \/ pendingReview # None /\ obj'[v] = Identity
    BY <1>7, <1>9 DEF Same
  <2>4. Unopened(u)' => /\ pendingReview' # None => Identity' # <<u, FALSE>>
                        /\ \A v \in Turns : at'[v] = "observe" => obj'[v] # <<u, FALSE>>
    <3>1. <<t, TRUE>> # <<u, FALSE>> /\ (<<t, FALSE>> = <<u, FALSE>> => t = u)
      OBVIOUS
    <3> QED
      BY <1>8, <2>1, <2>2, <2>3, <3>1 DEF FreshAt
  <2>5. Unhydrated(u)' => /\ pendingReview' # None => Identity' # <<u, TRUE>>
                          /\ \A v \in Turns : at'[v] = "observe" => obj'[v] # <<u, TRUE>>
    <3>1. <<t, FALSE>> # <<u, TRUE>> /\ (<<t, TRUE>> = <<u, TRUE>> => t = u)
      OBVIOUS
    <3> QED
      BY <1>8, <2>1, <2>2, <2>3, <3>1 DEF FreshAt
  <2> QED
    BY <2>4, <2>5 DEF FreshAt
<1>11. ASSUME NEW u \in Turns PROVE CountedAt(u)'
  <2>1. CountedAt(u)
    BY DEF Counted
  <2>2. at'[u] = "observe" /\ pendingReview' # None /\ obj'[u] = Identity' =>
           act'[u] = pendingReview'.action
    <3>1. CASE u = t
      BY <3>1, ReviewFrame
    <3>2. CASE u # t /\ at[u] = "observe" /\ pendingReview' # None /\ obj[u] = Identity'
      <4>1. at[t] = "hydrate" => obj[u] # <<t, TRUE>>
        BY <1>1, <3>2 DEF FreshAt, Unhydrated
      <4>2. at[t] = "opened" => obj[u] # <<t, FALSE>>
        BY <1>1, <3>2 DEF FreshAt, Unopened, BeforeOpening
      <4>3. pendingReview # None /\ Identity' = Identity
        BY <1>8, <3>2, <4>1, <4>2
      <4>4. pendingReview'.action = pendingReview.action
        <5>1. pendingReview \in Review
          BY <4>3 DEF TypeOK
        <5>2. at[t] = "hydrate" => Identity # <<t, TRUE>>
          BY <1>1, <4>3 DEF FreshAt, Unhydrated
        <5>3. at[t] = "opened" => Identity # <<t, FALSE>>
          BY <1>1, <4>3 DEF FreshAt, Unopened, BeforeOpening
        <5>4. pendingReview' = pendingReview
                 \/ pendingReview' = [pendingReview EXCEPT !.done = done[t]]
          <6>1. at[t] = "hydrate" => ~(Identity' = <<t, TRUE>>)
            BY <4>3, <5>2
          <6>2. at[t] = "opened" => ~(Identity' = <<t, FALSE>>)
            BY <4>3, <5>3
          <6>3. pendingReview' = [action |-> recalled[t].action, done |-> recalled[t].done,
                                  by |-> t, hydrated |-> TRUE] => Identity' = <<t, TRUE>>
            BY DEF Identity
          <6>4. pendingReview' = [action |-> act[t], done |-> done[t],
                                  by |-> t, hydrated |-> FALSE] => Identity' = <<t, FALSE>>
            BY DEF Identity
          <6> QED
            BY <3>2, <6>1, <6>2, <6>3, <6>4, ReviewFrame
        <5> QED
          BY <5>1, <5>4 DEF Review
      <4> QED
        BY <1>7, <2>1, <3>2, <4>3, <4>4 DEF CountedAt, Same
    <3> QED
      BY <1>7, <3>1, <3>2 DEF Same
  <2>3. recalled'[u] # None => WithinBudget(recalled'[u])
    <3>1. \/ recalled'[u] = recalled[u]
          \/ \E i \in DOMAIN shortMemory :
                shortMemory[i].status = "open" /\ recalled'[u] = shortMemory[i]
      BY <1>7, ReviewFrame DEF Same
    <3> QED
      BY <2>1, <3>1 DEF CountedAt, Counted
  <2>4. at'[u] \in {"opening", "opened"} => done'[u] <= 1
    BY <1>1, <1>7, <2>1, ReviewFrame DEF CountedAt, Same
  <2>5. at'[u] = "progress" => done'[u] <= ObservationAttempts[act'[u]]
    BY <1>2, <1>3, <1>4, <1>7, <2>1, ReviewFrame DEF CountedAt, Same, Exhausted
  <2> QED
    BY <2>2, <2>3, <2>4, <2>5 DEF CountedAt, WithinBudget
<1> QED
  BY <1>5, <1>6, <1>10, <1>11 DEF Counted, WithinBudget

\* Counted is inductive.
LEMMA CountedStep == TypeOK /\ Placed /\ Unsent /\ Counted /\ [Next]_vars => Counted'
<1> SUFFICES ASSUME TypeOK, Placed, Unsent, Counted, [Next]_vars PROVE Counted'
  OBVIOUS
<1> USE DEF Counted, BudgetKept, FreshAt, CountedAt, WithinBudget, Identity
<1>1. CASE UNCHANGED vars
  BY <1>1 DEF Unopened, Unhydrated, vars, session, locals, history
<1>2. ASSUME NEW t \in Turns, NEW u \in Utterances, Arrive(t, u) PROVE Counted'
  <2>1. /\ at[t] = "idle" /\ at'[t] = "recall" /\ \A v \in Turns \ {t} : at'[v] = at[v]
        /\ UNCHANGED <<pendingReview, shortMemory, recalled, act, done, obj, base>>
    BY <1>2 DEF Arrive, Goto, TypeOK, session
  <2>2. \A v \in Turns : /\ Unopened(v)' => Unopened(v)
                         /\ Unhydrated(v)' => Unhydrated(v)
                         /\ at'[v] = "observe" => at[v] = "observe"
                         /\ at'[v] \in {"opening", "opened", "progress"} => at'[v] = at[v]
    BY <2>1 DEF Unopened, Unhydrated, BeforeOpening, BeforeSubmit
  <2> QED
    BY <2>1, <2>2
<1>3. CASE Restart
  <2>1. /\ pendingReview' = None
        /\ \A v \in Turns : (at'[v] = at[v] /\ at[v] \in Resting) \/ at'[v] = "aborted"
        /\ UNCHANGED <<shortMemory, recalled, act, done, obj, base>>
    BY <1>3 DEF Restart, TypeOK, locals
  <2>2. \A v \in Turns : /\ at'[v] \notin {"observe", "opening", "opened", "progress"}
                         /\ Unopened(v)' => Unopened(v)
                         /\ Unhydrated(v)' => Unhydrated(v)
    BY <2>1 DEF Resting, Unopened, Unhydrated, BeforeOpening, BeforeSubmit
  <2> QED
    BY <2>1, <2>2
<1>4. ASSUME NEW t \in Turns, Step(t) \/ Abort(t) \/ Fail(t) PROVE Counted'
  BY <1>4, CountedTurn
<1> QED
  BY <1>1, <1>2, <1>3, <1>4 DEF Next

\* The observations counted for the pending review stay within its policy, whatever turns
\* write counts that they computed from the same earlier one (_record_review_observation).
THEOREM Budget == Spec => []BudgetKept
<1>1. Init => Unsent
  BY DEF Init, Unsent, UnsentAt
<1>2. Init => Counted
  BY DEF Init, Counted, BudgetKept, FreshAt, CountedAt, Unopened, BeforeOpening, BeforeSubmit
<1>3. Counted => BudgetKept
  BY DEF Counted
<1> QED
  BY <1>1, <1>2, <1>3, Typed, UnsentStep, CountedStep, PTL DEF Spec

\* With one turn of the session at a time, two turns in flight are the same turn.
Serial == \A t, u \in Turns : at[t] \notin Resting /\ at[u] \notin Resting => t = u

\* The accepted confirmed requests for an action.
Paid(a) == {s \in sent : s.action = a /\ s.confirmed /\ s.result = "accepted"}

\* A turn that was accepted for a confirmation still works on the one that is pending.
Spending(t) ==
    \/ at[t] \in {"confirmed_execute", "confirmed_result", "confirmed_observe"}
    \/ at[t] = "confirm_failed" /\ base[t] # "confirm"

\* A pending confirmation that no turn is about to forget has its prompt to spend.
Spent ==
    /\ IsFiniteSet(sent)
    /\ OneSubmissionPerPrompt
    /\ pendingConfirmation # None /\ (\A t \in Turns : ~Forgets(t)) =>
          Cardinality(Paid(pendingConfirmation)) + 1 <= prompts[pendingConfirmation]
    /\ \A t \in Turns :
          /\ Spending(t) => pendingConfirmation = act[t]
          /\ at[t] \in {"confirmed_result", "confirmed_observe", "result", "direct_observe"} =>
                base[t] # "confirm"

\* Only a turn in flight steps, and no step puts one back to its arrival.
LEMMA Moving ==
    ASSUME TypeOK, NEW t \in Turns, Step(t) \/ Abort(t) \/ Fail(t)
    PROVE  at[t] \notin Resting
  BY DEF Resting, Step, Recall, Hydrate, CancelConfirmation, AcceptConfirmation, PassConfirmation,
    ConfirmedExecute, ConfirmationExpired, ConfirmedUntracked, ConfirmedTracked,
    ConfirmedSucceeded, ConfirmedUnverified, ConfirmedRefused, ConfirmedFailed, NoReview,
    CancelReview, IgnoreReview, SupersedeReview, HearFeedback, ContinueReview, ReviewSucceeded,
    ReviewStillPending, ReviewExhausted, NoteProgress, NoteSuperseded, NoteClosed, NoteExhausted,
    NoteOpened, ResolveFeedback, AnswerQuery, QueryFeedback, NoQueryFeedback, SkipAction,
    AskConfirmation, StartAction, Execute, DeferReview, SubmittedUntracked, ObserveAction,
    ActionSucceeded, ActionUnverified, ActionFailed, OpenReview, Finish, ConsumeConfirmation,
    Abort, Fail, TypeOK

\* One turn at a time stays one turn at a time: Arrive waits for the turn in flight.
LEMMA SerialStep ==
    ASSUME MaxInFlight = 1
    PROVE  TypeOK /\ Serial /\ [Next]_vars => Serial'
<1> SUFFICES ASSUME TypeOK, Serial, [Next]_vars PROVE Serial'
  OBVIOUS
<1>1. CASE UNCHANGED vars
  BY <1>1 DEF Serial, vars
<1>2. ASSUME NEW t \in Turns, NEW u \in Utterances, Arrive(t, u) PROVE Serial'
  <2>1. \A v \in Turns \ {t} : at'[v] = at[v]
    BY <1>2 DEF Arrive, Goto, TypeOK
  <2>2. InFlight = {}
    <3>1. CASE InFlight # {}
      <4>1. PICK x : x \in InFlight
        BY <3>1
      <4>2. InFlight = {x}
        BY <4>1 DEF Serial, InFlight
      <4>3. Cardinality(InFlight) = 1
        BY <4>2, FS_Singleton
      <4> QED
        BY <1>2, <4>3 DEF Arrive
    <3> QED
      BY <3>1
  <2> QED
    BY <2>1, <2>2 DEF Serial, InFlight
<1>3. CASE Restart
  BY <1>3 DEF Restart, Serial, Resting
<1>4. ASSUME NEW t \in Turns, Step(t) \/ Abort(t) \/ Fail(t) PROVE Serial'
  <2>1. at[t] \notin Resting
    BY <1>4, Moving
  <2>2. \A v \in Turns \ {t} : at'[v] = at[v]
    BY <1>4, OtherTurns DEF Same
  <2> QED
    BY <2>1, <2>2 DEF Serial
<1> QED
  BY <1>1, <1>2, <1>3, <1>4 DEF Next

\* What a step of a turn that is not cut short does to the pending confirmation: a new one
\* comes with a prompt, and a turn that owes its forgetting forgets it or still owes it.
LEMMA ConfirmationFrame ==
    ASSUME TypeOK, Placed, Prompted, Spent, NEW t \in Turns, Step(t)
    PROVE  /\ \/ pendingConfirmation' \in {pendingConfirmation, None}
              \/ /\ pendingConfirmation' \in Actions /\ sent' = sent
                 /\ prompts' = [prompts EXCEPT ![pendingConfirmation'] = @ + 1]
           /\ Forgets(t) => Forgets(t)' \/ pendingConfirmation' = None
           /\ Spending(t)' => pendingConfirmation' = act'[t]
           /\ at'[t] \in {"confirmed_result", "confirmed_observe", "result", "direct_observe"} =>
                 base'[t] # "confirm"
           /\ prompts' \in [Actions -> Nat]
           /\ \A a \in Actions : prompts'[a] >= prompts[a]
           /\ \/ sent' = sent
              \/ \E c \in BOOLEAN, r \in Result :
                    /\ sent' = sent \cup {[turn |-> t, action |-> act[t],
                                           confirmed |-> c, result |-> r]}
                    /\ c => at[t] = "confirmed_execute"
                    /\ c /\ r = "accepted" => Forgets(t)'
<1> USE DEF Resting, Forgets, Spending
<1>a. /\ at[t] = "plan" => said[t].action \in Actions
      /\ at[t] \in {"confirmed_execute", "confirmed_result", "confirm_failed"} => act[t] \in Actions
  BY DEF Placed, Acting
<1>b. /\ at[t] \in {"recall", "hydrate", "confirmation", "confirmed_execute", "query", "rest",
                    "plan", "execute"} => base[t] # "confirm"
      /\ base[t] = "confirm" => result[t] = "accepted"
  BY DEF Prompted, PromptedAt, BeforeSubmit
<1>c. /\ Spending(t) => pendingConfirmation = act[t]
      /\ at[t] \in {"confirmed_result", "confirmed_observe", "result", "direct_observe"} =>
            base[t] # "confirm"
  BY DEF Spent
<1>d. prompts \in [Actions -> Nat]
  BY DEF TypeOK
<1>1. CASE Recall(t) \/ Hydrate(t)
  BY <1>1, <1>a, <1>b, <1>c, <1>d DEF TypeOK, Recall, Hydrate, OpenReviews, Window, MayHydrate,
    Goto, session, locals, history
<1>2. CASE CancelConfirmation(t) \/ AcceptConfirmation(t) \/ PassConfirmation(t)
  BY <1>2, <1>a, <1>b, <1>c, <1>d DEF TypeOK, CancelConfirmation, AcceptConfirmation,
    PassConfirmation, Goto, session, locals, history
<1>3. CASE ConfirmedExecute(t)
  <2>1. PICK r \in Result : Submit(t, TRUE, r)
    BY <1>3 DEF ConfirmedExecute
  <2>2. /\ sent' = sent \cup {[turn |-> t, action |-> act[t], confirmed |-> TRUE, result |-> r]}
        /\ UNCHANGED <<pendingConfirmation, act, base, prompts>>
        /\ result'[t] = r
    BY <2>1 DEF Submit, session, TypeOK
  <2>3. at[t] = "confirmed_execute" /\ at'[t] = "confirmed_result"
    BY <1>3 DEF ConfirmedExecute, Goto, TypeOK
  <2>4. \E c \in BOOLEAN, q \in Result :
           /\ sent' = sent \cup {[turn |-> t, action |-> act[t], confirmed |-> c, result |-> q]}
           /\ c => at[t] = "confirmed_execute"
           /\ c /\ q = "accepted" => Forgets(t)'
    <3> WITNESS TRUE \in BOOLEAN, r \in Result
    <3> QED
      BY <2>2, <2>3
  <2> QED
    BY <1>b, <1>c, <1>d, <2>2, <2>3, <2>4
<1>4. CASE ConfirmationExpired(t) \/ ConfirmedUntracked(t) \/ ConfirmedTracked(t) \/
  ConfirmedSucceeded(t)
  <2>1. CASE ConfirmationExpired(t)
    BY <2>1, <1>a, <1>b, <1>c, <1>d DEF TypeOK, ConfirmationExpired, Prompt, MayAskAboutLight,
      Goto, session, locals, history
  <2>2. CASE ConfirmedUntracked(t)
    BY <2>2, <1>a, <1>b, <1>c, <1>d DEF TypeOK, ConfirmedUntracked, Prompt, MayAskAboutLight,
      Goto, session, locals, history
  <2>3. CASE ConfirmedTracked(t)
    BY <2>3, <1>a, <1>b, <1>c, <1>d DEF TypeOK, ConfirmedTracked, Prompt, MayAskAboutLight, Goto,
      session, locals, history
  <2>4. CASE ConfirmedSucceeded(t)
    BY <2>4, <1>a, <1>b, <1>c, <1>d DEF TypeOK, ConfirmedSucceeded, Prompt, MayAskAboutLight,
      Goto, session, locals, history
  <2> QED
    BY <1>4, <2>1, <2>2, <2>3, <2>4
<1>5. CASE ConfirmedUnverified(t) \/ ConfirmedRefused(t) \/ ConfirmedFailed(t)
  BY <1>5, <1>a, <1>b, <1>c, <1>d DEF TypeOK, ConfirmedUnverified, ConfirmedRefused,
    ConfirmedFailed, Goto, session, locals, history
<1>6. CASE NoReview(t) \/ CancelReview(t) \/ IgnoreReview(t)
  <2>1. CASE NoReview(t)
    <3>1. /\ at[t] = "review" /\ at'[t] = ReturnFalse(t)
          /\ UNCHANGED <<pendingConfirmation, act, base, result, prompts, sent>>
      BY <2>1 DEF NoReview, Goto, TypeOK, session, locals, history
    <3>2. at'[t] \in {"rest", "exhausted", "confirm_failed"}
             /\ (at'[t] = "confirm_failed" => base[t] = "confirm")
      BY <3>1, Returning
    <3> QED
      BY <3>1, <3>2, <1>a, <1>d
  <2>2. CASE CancelReview(t)
    BY <2>2, <1>a, <1>b, <1>c, <1>d, Returning DEF TypeOK, CancelReview, Goto, session, locals,
      history
  <2>3. CASE IgnoreReview(t)
    <3>1. /\ at[t] = "review" /\ at'[t] = ReturnFalse(t)
          /\ UNCHANGED <<pendingConfirmation, act, base, result, prompts, sent>>
      BY <2>3 DEF IgnoreReview, Goto, TypeOK, session, locals, history
    <3>2. at'[t] \in {"rest", "exhausted", "confirm_failed"}
             /\ (at'[t] = "confirm_failed" => base[t] = "confirm")
      BY <3>1, Returning
    <3> QED
      BY <3>1, <3>2, <1>a, <1>d
  <2> QED
    BY <1>6, <2>1, <2>2, <2>3
<1>7. CASE SupersedeReview(t) \/ HearFeedback(t) \/ ContinueReview(t)
  BY <1>7, <1>a, <1>b, <1>c, <1>d DEF TypeOK, SupersedeReview, HearFeedback, ContinueReview, Goto,
    session, locals, history
<1>8. CASE ReviewSucceeded(t) \/ ReviewStillPending(t) \/ ReviewExhausted(t)
  BY <1>8, <1>a, <1>b, <1>c, <1>d DEF TypeOK, ReviewSucceeded, ReviewStillPending,
    ReviewExhausted, Goto, session, locals, history
<1>9. CASE NoteProgress(t) \/ NoteSuperseded(t) \/ NoteClosed(t) \/ NoteExhausted(t) \/
  NoteOpened(t)
  <2>1. CASE NoteProgress(t)
    BY <2>1, <1>a, <1>b, <1>c, <1>d, Returning DEF TypeOK, NoteProgress, Note, Goto, session,
      locals, history
  <2>2. CASE NoteSuperseded(t)
    <3>1. /\ at[t] = "supersede" /\ at'[t] = ReturnFalse(t)
          /\ UNCHANGED <<pendingConfirmation, act, base, result, prompts, sent>>
      BY <2>2 DEF NoteSuperseded, Note, Goto, TypeOK, session, locals, history
    <3>2. at'[t] \in {"rest", "exhausted", "confirm_failed"}
             /\ (at'[t] = "confirm_failed" => base[t] = "confirm")
      BY <3>1, Returning
    <3> QED
      BY <3>1, <3>2, <1>a, <1>d
  <2>3. CASE NoteClosed(t)
    BY <2>3, <1>a, <1>b, <1>c, <1>d, Returning DEF TypeOK, NoteClosed, Note, Goto, session,
      locals, history
  <2>4. CASE NoteExhausted(t)
    BY <2>4, <1>a, <1>b, <1>c, <1>d, Returning DEF TypeOK, NoteExhausted, Note, Goto, session,
      locals, history
  <2>5. CASE NoteOpened(t)
    BY <2>5, <1>a, <1>b, <1>c, <1>d, Returning DEF TypeOK, NoteOpened, Note, Goto, session,
      locals, history
  <2> QED
    BY <1>9, <2>1, <2>2, <2>3, <2>4, <2>5
<1>10. CASE ResolveFeedback(t) \/ AnswerQuery(t)
  BY <1>10, <1>a, <1>b, <1>c, <1>d DEF TypeOK, ResolveFeedback, AnswerQuery, Goto, session,
    locals, history
<1>11. CASE QueryFeedback(t) \/ NoQueryFeedback(t)
  BY <1>11, <1>a, <1>b, <1>c, <1>d DEF TypeOK, QueryFeedback, NoQueryFeedback, Continue, Goto,
    session, locals, history
<1>12. CASE SkipAction(t) \/ AskConfirmation(t) \/ StartAction(t)
  <2>1. CASE SkipAction(t)
    BY <2>1, <1>a, <1>b, <1>c, <1>d DEF TypeOK, SkipAction, Goto, session, locals, history
  <2>2. CASE AskConfirmation(t)
    BY <2>2, <1>a, <1>b, <1>c, <1>d DEF TypeOK, AskConfirmation, Goto, session, locals, history
  <2>3. CASE StartAction(t)
    BY <2>3, <1>a, <1>b, <1>c, <1>d DEF TypeOK, StartAction, Goto, session, locals, history
  <2> QED
    BY <1>12, <2>1, <2>2, <2>3
<1>13. CASE Execute(t)
  <2>1. PICK r \in Result : Submit(t, FALSE, r)
    BY <1>13 DEF Execute
  <2>2. /\ sent' = sent \cup {[turn |-> t, action |-> act[t], confirmed |-> FALSE, result |-> r]}
        /\ UNCHANGED <<pendingConfirmation, act, base, prompts>>
        /\ result'[t] = r
    BY <2>1 DEF Submit, session, TypeOK
  <2>3. at[t] = "execute" /\ at'[t] = "result"
    BY <1>13 DEF Execute, Goto, TypeOK
  <2>4. \E c \in BOOLEAN, q \in Result :
           /\ sent' = sent \cup {[turn |-> t, action |-> act[t], confirmed |-> c, result |-> q]}
           /\ c => at[t] = "confirmed_execute"
           /\ c /\ q = "accepted" => Forgets(t)'
    <3> WITNESS FALSE \in BOOLEAN, r \in Result
    <3> QED
      BY <2>2, <2>3
  <2> QED
    BY <1>b, <1>c, <1>d, <2>2, <2>3, <2>4
<1>14. CASE DeferReview(t) \/ SubmittedUntracked(t) \/ ObserveAction(t)
  BY <1>14, <1>a, <1>b, <1>c, <1>d DEF TypeOK, DeferReview, SubmittedUntracked, ObserveAction,
    Tracked, Goto, session, locals, history
<1>15. CASE ActionSucceeded(t) \/ ActionUnverified(t) \/ ActionFailed(t)
  <2>1. CASE ActionSucceeded(t)
    BY <2>1, <1>a, <1>b, <1>c, <1>d DEF TypeOK, ActionSucceeded, MayAskAboutLight, Goto, session,
      locals, history
  <2>2. CASE ActionUnverified(t)
    BY <2>2, <1>a, <1>b, <1>c, <1>d DEF TypeOK, ActionUnverified, MayAskAboutLight, Goto, session,
      locals, history
  <2>3. CASE ActionFailed(t)
    BY <2>3, <1>a, <1>b, <1>c, <1>d DEF TypeOK, ActionFailed, MayAskAboutLight, Goto, session,
      locals, history
  <2> QED
    BY <1>15, <2>1, <2>2, <2>3
<1>16. CASE OpenReview(t)
  BY <1>16, <1>a, <1>b, <1>c, <1>d DEF TypeOK, OpenReview, Goto, session, locals, history
<1>17. CASE Finish(t) \/ ConsumeConfirmation(t)
  BY <1>17, <1>a, <1>b, <1>c, <1>d DEF TypeOK, Finish, ConsumeConfirmation, Goto, session, locals,
    history
<1> QED
  BY <1>1, <1>2, <1>3, <1>4, <1>5, <1>6, <1>7, <1>8, <1>9, <1>10, <1>11, <1>12, <1>13, <1>14,
    <1>15, <1>16, <1>17 DEF Step

\* A turn alone in its session keeps a prompt for every accepted confirmed request.
LEMMA SpentTurn ==
    ASSUME TypeOK, Placed, Prompted, Serial, Spent, NEW t \in Turns, Step(t)
    PROVE  Spent'
<1>1. \A u \in Turns \ {t} : Same(u) /\ at[u] \in Resting
  BY Moving, OtherTurns DEF Serial
<1>2. \A u \in Turns \ {t} : /\ ~Forgets(u) /\ ~Forgets(u)' /\ ~Spending(u)'
                             /\ at'[u] \in Resting
  BY <1>1 DEF Same, Forgets, Spending, Resting
<1>3. \A a : IsFiniteSet(Paid(a)) /\ Cardinality(Paid(a)) \in Nat
  <2> SUFFICES ASSUME NEW a PROVE IsFiniteSet(Paid(a)) /\ Cardinality(Paid(a)) \in Nat
    OBVIOUS
  <2>1. IsFiniteSet(sent) /\ Paid(a) \in SUBSET sent
    BY DEF Spent, Paid
  <2> QED
    BY <2>1, FS_Subset, FS_CardinalityType
<1>4. IsFiniteSet(sent')
  <2>1. IsFiniteSet(sent) /\ \A x : IsFiniteSet(sent \cup {x})
    BY FS_AddElement DEF Spent
  <2> QED
    BY <2>1, ConfirmationFrame
<1>5. ASSUME NEW a \in Actions
      PROVE  \/ Paid(a)' = Paid(a)
             \/ /\ at[t] = "confirmed_execute" /\ Forgets(t)' /\ a = act[t]
                /\ Cardinality(Paid(a)') <= Cardinality(Paid(a)) + 1
  <2>1. CASE sent' = sent
    BY <2>1 DEF Paid
  <2>2. ASSUME NEW c \in BOOLEAN, NEW r \in Result,
               sent' = sent \cup {[turn |-> t, action |-> act[t], confirmed |-> c, result |-> r]},
               c => at[t] = "confirmed_execute",
               c /\ r = "accepted" => Forgets(t)'
        PROVE  \/ Paid(a)' = Paid(a)
               \/ /\ at[t] = "confirmed_execute" /\ Forgets(t)' /\ a = act[t]
                  /\ Cardinality(Paid(a)') <= Cardinality(Paid(a)) + 1
    <3> DEFINE s == [turn |-> t, action |-> act[t], confirmed |-> c, result |-> r]
    <3>1. s.action = act[t] /\ s.confirmed = c /\ s.result = r
      OBVIOUS
    <3> HIDE DEF s
    <3>2. sent' = sent \cup {s}
      BY <2>2 DEF s
    <3>3. CASE a = act[t] /\ c /\ r = "accepted"
      <4>1. Paid(a)' = Paid(a) \cup {s}
        BY <3>1, <3>2, <3>3 DEF Paid
      <4>2. Cardinality(Paid(a) \cup {s}) <= Cardinality(Paid(a)) + 1
        BY <1>3, FS_AddElement
      <4> QED
        BY <2>2, <3>3, <4>1, <4>2
    <3>4. CASE ~(a = act[t] /\ c /\ r = "accepted")
      <4>1. Paid(a)' = Paid(a)
        BY <3>1, <3>2, <3>4 DEF Paid
      <4> QED
        BY <4>1
    <3> QED
      BY <3>3, <3>4
  <2> QED
    BY <2>1, <2>2, ConfirmationFrame
<1>6. \A a \in Actions : /\ prompts[a] \in Nat /\ prompts'[a] \in Nat /\ prompts'[a] >= prompts[a]
                         /\ Cardinality(Paid(a)) <= prompts[a]
  BY ConfirmationFrame DEF TypeOK, Spent, OneSubmissionPerPrompt, Paid
<1>7. at[t] = "confirmed_execute" => Cardinality(Paid(act[t])) + 1 <= prompts[act[t]]
  <2>1. SUFFICES ASSUME at[t] = "confirmed_execute"
                 PROVE  Cardinality(Paid(act[t])) + 1 <= prompts[act[t]]
    OBVIOUS
  <2>2. pendingConfirmation = act[t] /\ act[t] \in Actions
    BY <2>1 DEF Spent, Spending, Placed, Acting
  <2>3. ~Forgets(t)
    BY <2>1 DEF Forgets, Prompted, PromptedAt, BeforeSubmit
  <2>4. \A u \in Turns : ~Forgets(u)
    BY <1>2, <2>3
  <2>5. act[t] # None
    BY <2>2, TurnAssumption
  <2> QED
    BY <2>2, <2>4, <2>5 DEF Spent
<1>8. OneSubmissionPerPrompt'
  <2> SUFFICES ASSUME NEW a \in Actions PROVE Cardinality(Paid(a)') <= prompts'[a]
    BY DEF OneSubmissionPerPrompt, Paid
  <2>1. Cardinality(Paid(a)') \in Nat
    <3>1. Paid(a)' \in SUBSET sent'
      BY DEF Paid
    <3> QED
      BY <1>4, <3>1, FS_Subset, FS_CardinalityType
  <2> QED
    BY <1>3, <1>5, <1>6, <1>7, <2>1
<1>9. pendingConfirmation' # None /\ (\A u \in Turns : ~Forgets(u)') =>
         Cardinality(Paid(pendingConfirmation)') + 1 <= prompts'[pendingConfirmation']
  <2> SUFFICES ASSUME pendingConfirmation' # None, \A u \in Turns : ~Forgets(u)'
               PROVE  Cardinality(Paid(pendingConfirmation)') + 1
                          <= prompts'[pendingConfirmation']
    OBVIOUS
  <2>1. \A u \in Turns : ~Forgets(u)
    BY <1>2, ConfirmationFrame
  <2>2. \A a \in Actions : Paid(a)' = Paid(a)
    BY <1>5
  <2>3. CASE pendingConfirmation' = pendingConfirmation
    <3>1. pendingConfirmation \in Actions /\ pendingConfirmation # None
      BY <2>3 DEF TypeOK
    <3>2. Paid(pendingConfirmation)' = Paid(pendingConfirmation)
      <4>1. Paid(pendingConfirmation)' =
               {s \in sent' : /\ s.action = pendingConfirmation /\ s.confirmed
                              /\ s.result = "accepted"}
        BY <2>3 DEF Paid
      <4> QED
        BY <2>2, <3>1, <4>1 DEF Paid
    <3>3. Cardinality(Paid(pendingConfirmation)) + 1 <= prompts[pendingConfirmation]
      BY <2>1, <3>1 DEF Spent
    <3> QED
      BY <1>3, <1>6, <2>3, <3>1, <3>2, <3>3
  <2>4. CASE /\ pendingConfirmation' \in Actions
             /\ prompts' = [prompts EXCEPT ![pendingConfirmation'] = @ + 1]
             /\ sent' = sent
    <3> DEFINE a == pendingConfirmation'
    <3>1. Paid(pendingConfirmation)' = Paid(a)
      BY <2>4 DEF Paid
    <3>2. prompts'[a] = prompts[a] + 1
      BY <2>4 DEF TypeOK
    <3> QED
      BY <1>3, <1>6, <2>4, <3>1, <3>2
  <2> QED
    BY <2>3, <2>4, ConfirmationFrame
<1>10. \A u \in Turns :
          /\ Spending(u)' => pendingConfirmation' = act'[u]
          /\ at'[u] \in {"confirmed_result", "confirmed_observe", "result", "direct_observe"} =>
                base'[u] # "confirm"
  BY <1>2, ConfirmationFrame DEF Resting
<1> QED
  BY <1>4, <1>8, <1>9, <1>10 DEF Spent

\* Spent is inductive where turns of the session run one at a time and are not cut short.
LEMMA SpentStep ==
    ASSUME MaxInFlight = 1, ~MayAbort
    PROVE  TypeOK /\ Placed /\ Prompted /\ Serial /\ Spent /\ [Next]_vars => Spent'
<1> SUFFICES ASSUME TypeOK, Placed, Prompted, Serial, Spent, [Next]_vars PROVE Spent'
  OBVIOUS
<1>1. CASE UNCHANGED vars
  BY <1>1 DEF Spent, OneSubmissionPerPrompt, Paid, Forgets, Spending, vars, session, locals, history
<1>2. ASSUME NEW t \in Turns, NEW u \in Utterances, Arrive(t, u) PROVE Spent'
  <2>1. /\ at[t] = "idle" /\ at'[t] = "recall" /\ \A v \in Turns \ {t} : at'[v] = at[v]
        /\ UNCHANGED <<pendingConfirmation, sent, prompts, act, base, result>>
    BY <1>2 DEF Arrive, Goto, TypeOK, session, history
  <2>2. base[t] # "confirm"
    BY <2>1 DEF Prompted, PromptedAt, BeforeSubmit
  <2>3. \A v \in Turns : /\ Forgets(v)' <=> Forgets(v)
                         /\ Spending(v)' <=> Spending(v)
    BY <2>1, <2>2 DEF Forgets, Spending, Resting
  <2>4. \A a : Paid(a)' = Paid(a)
    BY <2>1 DEF Paid
  <2> QED
    BY <2>1, <2>2, <2>3 DEF Spent, OneSubmissionPerPrompt, Paid
<1>3. CASE Restart
  <2>1. /\ pendingConfirmation' = None
        /\ \A v \in Turns : at'[v] \in Resting
        /\ UNCHANGED <<sent, prompts>>
    BY <1>3 DEF Restart, Resting
  <2> QED
    BY <2>1 DEF Spent, OneSubmissionPerPrompt, Spending, Resting
<1>4. ASSUME NEW t \in Turns, Step(t) PROVE Spent'
  BY <1>4, SpentTurn
<1> QED
  BY <1>1, <1>2, <1>3, <1>4 DEF Next, Abort, Fail

\* So it holds in every behaviour of such a session.
LEMMA SpentAlways ==
    ASSUME MaxInFlight = 1, ~MayAbort PROVE Spec => [](Prompted /\ Serial /\ Spent)
<1>1. Init => Serial
  BY DEF Init, Serial, Resting
<1>2. Init => Prompted
  BY DEF Init, Prompted, PromptedAt
<1>3. Init => Spent
  <2>1. SUFFICES ASSUME Init PROVE Spent
    OBVIOUS
  <2>2. sent = {} /\ \A a : Paid(a) = {}
    BY <2>1 DEF Init, Paid
  <2>3. OneSubmissionPerPrompt
    BY <2>1, <2>2, FS_EmptySet DEF Init, OneSubmissionPerPrompt, Paid
  <2> QED
    BY <2>1, <2>2, <2>3, FS_EmptySet DEF Init, Spent, Spending
<1>4. TypeOK /\ Serial /\ [Next]_vars => Serial'
  BY SerialStep
<1>5. TypeOK /\ Placed /\ Prompted /\ Serial /\ Spent /\ [Next]_vars => Spent'
  BY SpentStep
<1> QED
  BY <1>1, <1>2, <1>3, <1>4, <1>5, Typed, PromptedStep, PTL DEF Spec

\* Where the turns of a session run one after another and each comes to its end, every
\* accepted confirmed request answers a prompt of its own: the pending confirmation is
\* forgotten with the request that spent it. Two turns at once, or one that is cut short
\* before it forgets, spend the same prompt twice.
THEOREM OneSubmission ==
    ASSUME MaxInFlight = 1, ~MayAbort PROVE Spec => []OneSubmissionPerPrompt
<1>1. Spent => OneSubmissionPerPrompt
  BY DEF Spent
<1> QED
  BY <1>1, SpentAlways, PTL

\* The places of a turn that has made no observation for a pending review.
Early == BeforeOpening \ {"rest"}

\* A turn that goes on observing has observed no more than the review has counted, and the
\* review has not reached its budget.
UnderBudget(t) ==
    /\ pendingReview # None
    /\ observed[t] <= pendingReview.done
    /\ pendingReview.done < ObservationAttempts[pendingReview.action]

\* A turn that observes again sees every count it made; one that has observed is past its
\* own opening, so it opens no review with a budget of its own.
FrugalAt(t) ==
    /\ at[t] \in Early => observed[t] = 0
    /\ at[t] = "rest" => base[t] \in {"first", "again"}
    /\ at[t] \in {"rest", "review", "observe", "progress", "supersede"}
          /\ base[t] \in {"first", "again"} /\ observed[t] # 0 => said[t].kind # "command"
    /\ at[t] = "progress" \/ (at[t] = "review" /\ observed[t] # 0) => UnderBudget(t)
    /\ at[t] = "observe" =>
          /\ pendingReview # None /\ obj[t] = Identity /\ act[t] = pendingReview.action
          /\ done[t] = pendingReview.done + 1
          /\ observed[t] <= done[t]
          /\ observed[t] = 1 \/ done[t] <= ObservationAttempts[act[t]]

Frugal == TurnWithinBudget /\ \A t \in Turns : FrugalAt(t)

\* The turn that takes the step keeps its part of Frugal.
LEMMA FrugalOwn ==
    ASSUME TypeOK, Placed, Counted, Frugal, NEW t \in Turns, Step(t) \/ Abort(t) \/ Fail(t)
    PROVE  FrugalAt(t)' /\ (observed'[t] = observed[t] \/ at'[t] = "observe")
<1> USE DEF Resting, BeforeSubmit, BeforeOpening, Early, UnderBudget, FrugalAt
<1>a. FrugalAt(t) /\ observed[t] \in Nat /\ base[t] \in Base
  BY DEF Frugal, TypeOK
<1>1. CASE Recall(t) \/ Hydrate(t)
  BY <1>1, <1>a DEF TypeOK, Base, Recall, Hydrate, OpenReviews, Window, MayHydrate, Goto, session,
    locals, history
<1>2. CASE CancelConfirmation(t) \/ AcceptConfirmation(t) \/ PassConfirmation(t)
  BY <1>2, <1>a DEF TypeOK, Base, CancelConfirmation, AcceptConfirmation, PassConfirmation, Goto,
    session, locals, history
<1>3. CASE ConfirmedExecute(t)
  BY <1>3, <1>a DEF TypeOK, Base, ConfirmedExecute, Submit, Goto, session, locals, history
<1>4. CASE ConfirmationExpired(t) \/ ConfirmedUntracked(t) \/ ConfirmedTracked(t) \/
  ConfirmedSucceeded(t)
  BY <1>4, <1>a DEF TypeOK, Base, ConfirmationExpired, ConfirmedUntracked, ConfirmedTracked,
    ConfirmedSucceeded, Prompt, MayAskAboutLight, Goto, session, locals, history
<1>5. CASE ConfirmedUnverified(t) \/ ConfirmedRefused(t) \/ ConfirmedFailed(t)
  BY <1>5, <1>a DEF TypeOK, Base, ConfirmedUnverified, ConfirmedRefused, ConfirmedFailed, Goto,
    session, locals, history
<1>6. CASE NoReview(t) \/ CancelReview(t) \/ IgnoreReview(t)
  BY <1>6, <1>a, Returning DEF TypeOK, Base, NoReview, CancelReview, IgnoreReview, Goto, session,
    locals, history
<1>7. CASE SupersedeReview(t) \/ HearFeedback(t) \/ ContinueReview(t)
  <2>1. CASE SupersedeReview(t)
    BY <2>1, <1>a DEF TypeOK, Base, SupersedeReview, Goto, session, locals, history
  <2>2. CASE HearFeedback(t)
    BY <2>2, <1>a DEF TypeOK, Base, HearFeedback, Goto, session, locals, history
  <2>3. CASE ContinueReview(t)
    <3>1. /\ at[t] = "review" /\ pendingReview \in Review /\ pendingReview' = pendingReview
          /\ at'[t] = "observe" /\ act'[t] = pendingReview.action
          /\ done'[t] = pendingReview.done + 1 /\ obj'[t] = Identity
          /\ observed'[t] = observed[t] + 1
          /\ said' = said /\ base' = base
          /\ pendingReview.done \in Nat
      BY <2>3 DEF ContinueReview, Goto, TypeOK, Review, Identity, session
    <3>2. base[t] \in {"first", "again"} => said[t].kind # "command"
      <4>1. base[t] \in {"first", "again"} => Identity # <<t, FALSE>>
        <5>1. FreshAt(t) /\ pendingReview # None
          BY <2>3 DEF Counted, ContinueReview
        <5> QED
          BY <3>1, <5>1 DEF FreshAt, Unopened
      <4>2. Own(t) => Identity = <<t, FALSE>>
        BY <3>1 DEF Own, Identity, Review
      <4> QED
        BY <2>3, <4>1, <4>2 DEF ContinueReview
    <3>3. pendingReview # None /\ Identity' = Identity
      BY <2>3, <3>1 DEF ContinueReview, Identity
    <3>4. pendingReview.action \in Actions /\ ObservationAttempts[pendingReview.action] \in Nat
      BY <3>1, TurnAssumption DEF Review
    <3> QED
      BY <1>a, <3>1, <3>2, <3>3, <3>4
  <2> QED
    BY <1>7, <2>1, <2>2, <2>3
<1>8. CASE ReviewSucceeded(t) \/ ReviewStillPending(t) \/ ReviewExhausted(t)
  <2>1. CASE ReviewSucceeded(t)
    BY <2>1, <1>a DEF TypeOK, Base, ReviewSucceeded, Goto, session, locals, history
  <2>2. CASE ReviewStillPending(t)
    <3>1. /\ at[t] = "observe" /\ pendingReview \in Review /\ obj[t] = Identity
          /\ at'[t] = "progress" /\ ~Exhausted(t)
          /\ observed' = observed /\ said' = said /\ base' = base
      BY <2>2, <1>a DEF ReviewStillPending, Goto, TypeOK, locals, history
    <3>2. pendingReview' = [pendingReview EXCEPT !.done = done[t]] /\ pendingReview' # None
      <4>1. pendingReview' = [pendingReview EXCEPT !.done = done[t]]
        BY <2>2, <3>1, <1>a DEF ReviewStillPending, Identity
      <4>2. [pendingReview EXCEPT !.done = done[t]] \in Review
        BY <3>1 DEF Review, TypeOK
      <4> QED
        BY <4>1, <4>2, TurnAssumption
    <3>3. pendingReview'.done = done[t] /\ pendingReview'.action = act[t]
      BY <1>a, <3>1, <3>2 DEF Review
    <3>4. act[t] \in Actions /\ ObservationAttempts[act[t]] \in Nat /\ done[t] \in Nat
      <4>1. act[t] \in Actions /\ done[t] \in Nat
        BY <3>1 DEF Placed, Acting, TypeOK
      <4> QED
        BY <4>1, TurnAssumption
    <3>5. done[t] < ObservationAttempts[act[t]]
      BY <3>1, <3>4 DEF Exhausted
    <3> QED
      BY <1>a, <3>1, <3>2, <3>3, <3>4, <3>5
  <2>3. CASE ReviewExhausted(t)
    BY <2>3, <1>a DEF TypeOK, Base, ReviewExhausted, Goto, session, locals, history
  <2> QED
    BY <1>8, <2>1, <2>2, <2>3
<1>9. CASE NoteProgress(t) \/ NoteSuperseded(t) \/ NoteClosed(t) \/ NoteExhausted(t) \/
  NoteOpened(t)
  BY <1>9, <1>a, Returning DEF TypeOK, Base, NoteProgress, NoteSuperseded, NoteClosed,
    NoteExhausted, NoteOpened, Note, Goto, session, locals, history
<1>10. CASE ResolveFeedback(t) \/ AnswerQuery(t)
  BY <1>10, <1>a DEF TypeOK, Base, ResolveFeedback, AnswerQuery, Goto, session, locals, history
<1>11. CASE QueryFeedback(t) \/ NoQueryFeedback(t)
  BY <1>11, <1>a DEF TypeOK, Base, QueryFeedback, NoQueryFeedback, Continue, Goto, session,
    locals, history
<1>12. CASE SkipAction(t) \/ AskConfirmation(t) \/ StartAction(t)
  BY <1>12, <1>a DEF TypeOK, Base, SkipAction, AskConfirmation, StartAction, Goto, session,
    locals, history
<1>13. CASE Execute(t)
  BY <1>13, <1>a DEF TypeOK, Base, Execute, Submit, Goto, session, locals, history
<1>14. CASE DeferReview(t) \/ SubmittedUntracked(t) \/ ObserveAction(t)
  BY <1>14, <1>a DEF TypeOK, Base, DeferReview, SubmittedUntracked, ObserveAction, Tracked, Goto,
    session, locals, history
<1>15. CASE ActionSucceeded(t) \/ ActionUnverified(t) \/ ActionFailed(t)
  BY <1>15, <1>a DEF TypeOK, Base, ActionSucceeded, ActionUnverified, ActionFailed,
    MayAskAboutLight, Goto, session, locals, history
<1>16. CASE OpenReview(t)
  BY <1>16, <1>a DEF TypeOK, Base, OpenReview, Goto, session, locals, history
<1>17. CASE Finish(t) \/ ConsumeConfirmation(t)
  BY <1>17, <1>a DEF TypeOK, Base, Finish, ConsumeConfirmation, Goto, session, locals, history
<1>18. CASE Abort(t) \/ Fail(t)
  BY <1>18, <1>a DEF TypeOK, Base, Abort, Fail, Goto, session, locals, history
<1> QED
  BY <1>1, <1>2, <1>3, <1>4, <1>5, <1>6, <1>7, <1>8, <1>9, <1>10, <1>11, <1>12, <1>13, <1>14,
    <1>15, <1>16, <1>17, <1>18 DEF Step

\* Frugal is inductive where turns of the session run one at a time: what a turn read of
\* the review is still so when it writes its count.
LEMMA FrugalStep ==
    ASSUME MaxInFlight = 1
    PROVE  TypeOK /\ Placed /\ Counted /\ Serial /\ Frugal /\ [Next]_vars => Frugal'
<1> SUFFICES ASSUME TypeOK, Placed, Counted, Serial, Frugal, [Next]_vars PROVE Frugal'
  OBVIOUS
<1> USE DEF Early, BeforeOpening, BeforeSubmit
<1>1. CASE UNCHANGED vars
  BY <1>1 DEF Frugal, FrugalAt, UnderBudget, Identity, TurnWithinBudget, vars, session, locals,
    history
<1>2. ASSUME NEW t \in Turns, NEW u \in Utterances, Arrive(t, u) PROVE Frugal'
  <2>1. /\ at[t] = "idle" /\ at'[t] = "recall"
        /\ \A v \in Turns \ {t} : at'[v] = at[v] /\ said'[v] = said[v]
        /\ UNCHANGED <<pendingReview, act, done, obj, base, observed>>
    BY <1>2 DEF Arrive, Goto, TypeOK, session, history
  <2>2. TurnWithinBudget'
    BY <2>1 DEF Frugal, TurnWithinBudget
  <2>3. \A v \in Turns \ {t} : FrugalAt(v)'
    BY <2>1 DEF Frugal, FrugalAt, UnderBudget, Identity
  <2>4. FrugalAt(t)'
    BY <2>1 DEF Frugal, FrugalAt
  <2> QED
    BY <2>2, <2>3, <2>4 DEF Frugal
<1>3. CASE Restart
  <2>1. /\ \A v \in Turns : (at'[v] = at[v] /\ at[v] \in Resting) \/ at'[v] = "aborted"
        /\ UNCHANGED observed
    BY <1>3 DEF Restart, TypeOK
  <2>2. TurnWithinBudget'
    BY <2>1 DEF Frugal, TurnWithinBudget
  <2>3. \A v \in Turns : FrugalAt(v)'
    BY <2>1 DEF Frugal, FrugalAt, Resting
  <2> QED
    BY <2>2, <2>3 DEF Frugal
<1>4. ASSUME NEW t \in Turns, Step(t) \/ Abort(t) \/ Fail(t) PROVE Frugal'
  <2>1. FrugalAt(t)' /\ (observed'[t] = observed[t] \/ at'[t] = "observe")
    BY <1>4, FrugalOwn
  <2>2. \A v \in Turns \ {t} : Same(v) /\ at[v] \in Resting
    BY <1>4, Moving, OtherTurns DEF Serial
  <2>3. \A v \in Turns \ {t} : FrugalAt(v)'
    <3> SUFFICES ASSUME NEW v \in Turns \ {t} PROVE FrugalAt(v)'
      OBVIOUS
    <3>1. FrugalAt(v) /\ Same(v) /\ at[v] \in Resting
      BY <2>2 DEF Frugal
    <3> QED
      BY <3>1 DEF FrugalAt, Same, Resting
  <2>4. ASSUME NEW n \in 1..4, \A a \in Actions : ObservationAttempts[a] <= n,
               observed'[t] # observed[t]
        PROVE  observed'[t] <= n
    <3>1. /\ at'[t] = "observe" /\ TypeOK' /\ Placed'
      BY <2>1, <2>4, TypeStep
    <3>2. act'[t] \in Actions /\ done'[t] \in Nat /\ observed'[t] \in Nat
      BY <3>1 DEF TypeOK, Placed, Acting
    <3>3. observed'[t] <= done'[t] /\ (observed'[t] = 1 \/ done'[t] <= ObservationAttempts[act'[t]])
      BY <2>1, <3>1 DEF FrugalAt
    <3>4. ObservationAttempts[act'[t]] \in 1..4 /\ ObservationAttempts[act'[t]] <= n
      BY <2>4, <3>2, TurnAssumption
    <3> QED
      BY <3>2, <3>3, <3>4
  <2>5. TurnWithinBudget'
    <3> SUFFICES ASSUME NEW v \in Turns, NEW n \in 1..4,
                        \A a \in Actions : ObservationAttempts[a] <= n
                 PROVE  observed'[v] <= n
      BY DEF TurnWithinBudget
    <3>1. observed[v] <= n
      BY DEF Frugal, TurnWithinBudget
    <3>2. v # t => observed'[v] = observed[v]
      BY <2>2 DEF Same
    <3> QED
      BY <2>4, <3>1, <3>2
  <2> QED
    BY <2>1, <2>3, <2>5 DEF Frugal
<1> QED
  BY <1>1, <1>2, <1>3, <1>4 DEF Next

\* Where the turns of a session run one after another, no turn spends more observations on
\* pending reviews than one policy allows, the chain of automatic continuations included:
\* every count it makes is in the review before it looks at the budget again.
THEOREM TurnBudget == ASSUME MaxInFlight = 1 PROVE Spec => []TurnWithinBudget
<1>1. Init => Unsent
  BY DEF Init, Unsent, UnsentAt
<1>2. Init => Counted
  BY DEF Init, Counted, BudgetKept, FreshAt, CountedAt, Unopened, BeforeOpening, BeforeSubmit
<1>3. Init => Serial
  BY DEF Init, Serial, Resting
<1>4. Init => Frugal
  BY DEF Init, Frugal, FrugalAt, TurnWithinBudget
<1>5. Frugal => TurnWithinBudget
  BY DEF Frugal
<1>6. TypeOK /\ Serial /\ [Next]_vars => Serial'
  BY SerialStep
<1>7. TypeOK /\ Placed /\ Counted /\ Serial /\ Frugal /\ [Next]_vars => Frugal'
  BY FrugalStep
<1> QED
  BY <1>1, <1>2, <1>3, <1>4, <1>5, <1>6, <1>7, Typed, UnsentStep, CountedStep, PTL DEF Spec

-----------------------------------------------------------------------------
(* The promise of the confirmation *)

\* Which steps of a turn submit or prompt.
LEMMA StepFrame ==
    ASSUME NEW t \in Turns, Step(t)
    PROVE  /\ UNCHANGED <<sent, attempts>> \/ ConfirmedExecute(t) \/ Execute(t)
           /\ prompts' = prompts \/ ConfirmationExpired(t) \/ AskConfirmation(t)
  BY DEF Step, Recall, Hydrate, CancelConfirmation, AcceptConfirmation, PassConfirmation,
    ConfirmedExecute, ConfirmationExpired, ConfirmedUntracked, ConfirmedTracked,
    ConfirmedSucceeded, ConfirmedUnverified, ConfirmedRefused, ConfirmedFailed, NoReview,
    CancelReview, IgnoreReview, SupersedeReview, HearFeedback, ContinueReview, ReviewSucceeded,
    ReviewStillPending, ReviewExhausted, NoteProgress, NoteSuperseded, NoteClosed, NoteExhausted,
    NoteOpened, ResolveFeedback, AnswerQuery, QueryFeedback, NoQueryFeedback, SkipAction,
    AskConfirmation, StartAction, Execute, DeferReview, SubmittedUntracked, ObserveAction,
    ActionSucceeded, ActionUnverified, ActionFailed, OpenReview, Finish, ConsumeConfirmation,
    Note, Submit, locals, history

\* What was sent is counted, and a turn that has not come has said nothing.
Accounted ==
    /\ \A s \in sent : attempts[s.turn] # 0
    /\ \A t \in Turns : at[t] = "idle" => said[t] = None

LEMMA AccountedStep == TypeOK /\ Placed /\ Accounted /\ [Next]_vars => Accounted'
<1> SUFFICES ASSUME TypeOK, Placed, Accounted, [Next]_vars PROVE Accounted'
  OBVIOUS
<1>1. CASE UNCHANGED vars
  BY <1>1 DEF Accounted, vars, locals, history
<1>2. ASSUME NEW t \in Turns, NEW u \in Utterances, Arrive(t, u) PROVE Accounted'
  BY <1>2 DEF Accounted, Arrive, Goto, TypeOK, history
<1>3. CASE Restart
  BY <1>3 DEF Accounted, Restart, TypeOK, Resting, locals
<1>4. ASSUME NEW t \in Turns, Step(t) \/ Abort(t) \/ Fail(t) PROVE Accounted'
  <2>1. at'[t] # "idle" /\ said' = said
    BY <1>4, Frame
  <2>2. \A v \in Turns : at'[v] = "idle" => said'[v] = None
    BY <1>4, <2>1, OtherTurns DEF Accounted, Same
  <2>3. CASE UNCHANGED <<sent, attempts>>
    BY <2>2, <2>3 DEF Accounted
  <2>4. CASE ConfirmedExecute(t) \/ Execute(t)
    <3>1. PICK c \in BOOLEAN, r \in Result : Submit(t, c, r)
      BY <2>4 DEF ConfirmedExecute, Execute
    <3>2. /\ sent' = sent \cup {[turn |-> t, action |-> act[t], confirmed |-> c, result |-> r]}
          /\ attempts' = [attempts EXCEPT ![t] = @ + 1]
      BY <3>1 DEF Submit
    <3>3. attempts \in [Turns -> Nat] /\ \A s \in sent : s.turn \in Turns
      BY DEF TypeOK, Submission
    <3>4. \A s \in sent' : attempts'[s.turn] # 0
      BY <3>2, <3>3 DEF Accounted
    <3> QED
      BY <2>2, <3>4 DEF Accounted
  <2> QED
    BY <1>4, <2>3, <2>4, StepFrame DEF Abort, Fail, history
<1> QED
  BY <1>1, <1>2, <1>3, <1>4 DEF Next

\* A turn's step is a prompt, an approval, a withdrawal or nothing to the promise.
LEMMA ApprovalTurn ==
    ASSUME TypeOK, Placed, Unsent, Prompted, Accounted, Serial, Spent, NEW t \in Turns, Step(t)
    PROVE  Approval!Next \/ UNCHANGED Approval!vars
<1>1. \A u \in Turns \ {t} : ~Forgets(u) /\ ~Forgets(u)'
  <2>1. \A u \in Turns \ {t} : Same(u) /\ at[u] \in Resting
    BY Moving, OtherTurns DEF Serial
  <2> QED
    BY <2>1 DEF Same, Forgets, Resting
<1>2. /\ Asked = IF Forgets(t) THEN None ELSE pendingConfirmation
      /\ Asked' = IF Forgets(t)' THEN None ELSE pendingConfirmation'
  BY <1>1 DEF Asked
<1>3. Yes' = Yes
  BY Frame DEF Yes
<1>a. /\ at[t] \in {"confirmed_execute", "plan", "execute"} => base[t] # "confirm"
      /\ at[t] \in {"confirmed_execute", "confirmed_result"} =>
            pendingConfirmation = act[t] /\ act[t] \in Actions
      /\ at[t] = "confirmed_execute" => said[t] # None /\ said[t].reply /\ ~said[t].cancel
      /\ at[t] = "confirmed_result" => base[t] # "confirm"
      /\ at[t] = "plan" => said[t].action \in Actions
  BY TurnAssumption DEF Spent, Spending, Placed, Acting, Prompted, PromptedAt, BeforeSubmit
<1>4. CASE ConfirmedExecute(t)
  <2>1. PICK r \in Result : Submit(t, TRUE, r)
    BY <1>4 DEF ConfirmedExecute
  <2>2. /\ at[t] = "confirmed_execute" /\ at'[t] = "confirmed_result" /\ result'[t] = r
        /\ UNCHANGED <<pendingConfirmation, base, prompts>>
        /\ sent' = sent \cup {[turn |-> t, action |-> act[t], confirmed |-> TRUE, result |-> r]}
    BY <1>4, <2>1 DEF ConfirmedExecute, Submit, Goto, TypeOK, session
  <2>3. Asked = act[t] /\ act[t] # None
    BY <1>2, <1>a, <2>2, TurnAssumption DEF Forgets
  <2>4. CASE r = "accepted"
    <3>1. Asked' = None
      BY <1>2, <2>2, <2>4 DEF Forgets
    <3>2. Approved' = Approved \cup {[turn |-> t, action |-> act[t]]}
      <4> DEFINE s == [turn |-> t, action |-> act[t], confirmed |-> TRUE, result |-> r]
                 paid == {q \in sent : q.confirmed /\ q.result = "accepted"}
      <4>1. {q \in sent' : q.confirmed /\ q.result = "accepted"} = paid \cup {s}
        BY <2>2, <2>4
      <4>2. s.turn = t /\ s.action = act[t]
        OBVIOUS
      <4> HIDE DEF s, paid
      <4>3. Approved' = {[turn |-> q.turn, action |-> q.action] : q \in paid \cup {s}}
        BY <4>1 DEF Approved
      <4>4. Approved = {[turn |-> q.turn, action |-> q.action] : q \in paid}
        BY DEF Approved, paid
      <4> QED
        BY <4>2, <4>3, <4>4
    <3>3. \A p \in Approved : p.turn # t
      <4>1. attempts[t] = 0
        BY <2>2 DEF Unsent, UnsentAt, BeforeSubmit
      <4> QED
        BY <4>1 DEF Approved, Accounted
    <3>4. t \in Yes
      BY <1>a, <2>2 DEF Yes
    <3> QED
      BY <1>3, <2>2, <2>3, <3>1, <3>2, <3>3, <3>4 DEF Approval!Next, Approval!Approve
  <2>5. CASE r # "accepted"
    <3>1. Asked' = Asked
      BY <1>2, <1>a, <2>2, <2>5 DEF Forgets, Resting
    <3>2. Approved' = Approved
      BY <2>2, <2>5 DEF Approved
    <3> QED
      BY <1>3, <2>2, <3>1, <3>2 DEF Approval!vars
  <2> QED
    BY <2>4, <2>5
<1>5. CASE Execute(t)
  <2>1. PICK r \in Result : Submit(t, FALSE, r)
    BY <1>5 DEF Execute
  <2>2. /\ at[t] = "execute" /\ at'[t] = "result"
        /\ UNCHANGED <<pendingConfirmation, base, prompts>>
        /\ sent' = sent \cup {[turn |-> t, action |-> act[t], confirmed |-> FALSE, result |-> r]}
    BY <1>5, <2>1 DEF Execute, Submit, Goto, TypeOK, session
  <2>3. Asked' = Asked
    BY <1>2, <1>a, <2>2 DEF Forgets
  <2>4. Approved' = Approved
    BY <2>2 DEF Approved
  <2> QED
    BY <1>3, <2>2, <2>3, <2>4 DEF Approval!vars
<1>6. CASE ConfirmationExpired(t) \/ AskConfirmation(t)
  <2>1. /\ ~Forgets(t)' /\ sent' = sent /\ pendingConfirmation' \in Actions
        /\ prompts' = [prompts EXCEPT ![pendingConfirmation'] = @ + 1]
    <3>1. CASE ConfirmationExpired(t)
      <4>1. /\ at[t] = "confirmed_result" /\ at'[t] = "finish" /\ base' = base
            /\ pendingConfirmation' \in {pendingConfirmation, act[t]}
            /\ prompts' = [prompts EXCEPT ![act[t]] = @ + 1] /\ sent' = sent
        BY <3>1 DEF ConfirmationExpired, Prompt, Goto, TypeOK, locals
      <4> QED
        BY <1>a, <4>1 DEF Forgets
    <3>2. CASE AskConfirmation(t)
      <4>1. /\ at[t] = "plan" /\ at'[t] = "finish" /\ base' = base
            /\ pendingConfirmation' = said[t].action
            /\ prompts' = [prompts EXCEPT ![said[t].action] = @ + 1] /\ sent' = sent
        BY <3>2 DEF AskConfirmation, Goto, TypeOK
      <4> QED
        BY <1>a, <4>1 DEF Forgets
    <3> QED
      BY <1>6, <3>1, <3>2
  <2>2. Approved' = Approved
    BY <2>1 DEF Approved
  <2> QED
    BY <1>2, <1>3, <2>1, <2>2 DEF Approval!Next, Approval!Ask
<1>7. CASE UNCHANGED <<sent, prompts>> /\ ~ConfirmationExpired(t) /\ ~AskConfirmation(t)
  <2>1. pendingConfirmation' \in {pendingConfirmation, None}
    <3>1. prompts \in [Actions -> Nat]
      BY DEF TypeOK
    <3>2. ASSUME NEW a \in Actions PROVE prompts # [prompts EXCEPT ![a] = @ + 1]
      BY <3>1
    <3> QED
      BY <1>7, <3>2, ConfirmationFrame
  <2>2. Asked' \in {Asked, None}
    BY <1>2, <2>1, ConfirmationFrame
  <2>3. Approved' = Approved
    BY <1>7 DEF Approved
  <2> QED
    BY <1>3, <1>7, <2>2, <2>3 DEF Approval!Next, Approval!Withdraw, Approval!vars
<1> QED
  BY <1>4, <1>5, <1>6, <1>7, StepFrame

\* Every step of the session is one of the promise, or nothing to it.
LEMMA ApprovalStep ==
    ASSUME ~MayAbort, TypeOK, Placed, Unsent, Prompted, Accounted, Serial, Spent, [Next]_vars
    PROVE  [Approval!Next]_(Approval!vars)
<1>1. CASE UNCHANGED vars
  BY <1>1 DEF vars, session, locals, history, Approval!vars, Asked, Forgets, Yes, Approved
<1>2. ASSUME NEW t \in Turns, NEW u \in Utterances, Arrive(t, u)
      PROVE  Approval!Next \/ UNCHANGED Approval!vars
  <2>1. /\ at[t] = "idle" /\ at' = [at EXCEPT ![t] = "recall"]
        /\ said' = [said EXCEPT ![t] = u] /\ at \in [Turns -> Place]
        /\ said \in [Turns -> Utterances \cup {None}]
        /\ UNCHANGED <<pendingConfirmation, base, result, sent, prompts>>
    BY <1>2 DEF Arrive, Goto, TypeOK, session, history
  <2>2. \A v \in Turns : Forgets(v)' <=> Forgets(v)
    <3>1. base[t] # "confirm"
      BY <2>1 DEF Prompted, PromptedAt, BeforeSubmit
    <3> QED
      BY <2>1, <3>1 DEF Forgets, Resting
  <2>3. Asked' = Asked /\ Approved' = Approved
    BY <2>1, <2>2 DEF Asked, Approved
  <2>4. t \notin Yes
    BY <2>1 DEF Accounted, Yes
  <2>5. Yes' \in {Yes, Yes \cup {t}}
    BY <2>1, <2>4 DEF Yes
  <2> QED
    BY <2>1, <2>3, <2>4, <2>5 DEF Approval!Next, Approval!Say, Approval!vars
<1>3. CASE Restart
  <2>1. /\ \A v \in Turns : at'[v] \in Resting
        /\ pendingConfirmation' = None /\ UNCHANGED <<said, sent, prompts>>
    BY <1>3 DEF Restart, TypeOK, locals, Resting
  <2>2. Asked' = None /\ Yes' = Yes /\ Approved' = Approved
    BY <2>1 DEF Asked, Yes, Approved
  <2> QED
    BY <2>1, <2>2 DEF Approval!Next, Approval!Withdraw, Approval!vars
<1>4. ASSUME NEW t \in Turns, Step(t)
      PROVE  Approval!Next \/ UNCHANGED Approval!vars
  BY <1>4, ApprovalTurn
<1>5. \A t \in Turns : ~Abort(t) /\ ~Fail(t)
  BY DEF Abort, Fail
<1> QED
  BY <1>1, <1>2, <1>3, <1>4, <1>5 DEF Next

\* Where the turns of a session run one after another and each comes to its end, the loop
\* keeps the promise of HomeApproval: what is sent with confirmation is what the user was
\* asked about last, a yes approves once, and the question is spent by it although the
\* loop forgets it only after it has dealt with the answer.
THEOREM Approvals == ASSUME MaxInFlight = 1, ~MayAbort PROVE Spec => ApprovalSpec
<1>1. Init => Approval!Init
  BY DEF Init, Approval!Init, Asked, Forgets, Resting, Yes, Approved
<1>2. Init => Accounted
  BY DEF Init, Accounted
<1>3. TypeOK /\ Placed /\ Unsent /\ Prompted /\ Accounted /\ Serial /\ Spent /\ [Next]_vars
         => [Approval!Next]_(Approval!vars)
  BY ApprovalStep
<1>4. Init => Unsent
  BY DEF Init, Unsent, UnsentAt
<1>5. Spec => [](Prompted /\ Serial /\ Spent)
  BY SpentAlways
<1> QED
  BY <1>1, <1>2, <1>3, <1>4, <1>5, Typed, UnsentStep, AccountedStep, PTL
  DEF Spec, ApprovalSpec, Approval!Spec

-----------------------------------------------------------------------------
(* The end of a turn *)

\* The distances, one by one.
LEMMA Distances ==
  /\ Distance("done") = 0 /\ Distance("aborted") = 0
  /\ Distance("unconfirm") = 1
  /\ Distance("finish") = 2
  /\ Distance("closing") = 3
  /\ Distance("exhausted") = 3 /\ Distance("confirm_failed") = 3 /\ Distance("query") = 3
  /\ Distance("feedback") = 4 /\ Distance("execute") = 4
  /\ Distance("plan") = 5
  /\ Distance("rest") = 6
  /\ Distance("supersede") = 7
  /\ Distance("review") = 8
  /\ Distance("progress") = 9 /\ Distance("opened") = 9 /\ Distance("confirmed_execute") = 9
  /\ Distance("observe") = 10 /\ Distance("opening") = 10 /\ Distance("confirmation") = 10
  /\ Distance("direct_observe") = 11
  /\ Distance("confirmed_observe") = 11 /\ Distance("hydrate") = 11
  /\ Distance("result") = 12 /\ Distance("confirmed_result") = 12 /\ Distance("recall") = 12
  /\ Distance("idle") = 13
  BY DEF Distance

\* A distance is a number, which is 0 at the end only.
LEMMA DistanceType == \A p \in Place : Distance(p) \in Nat /\ (p \notin Resting => Distance(p) > 0)
  BY Distances DEF Place, Resting

\* What a turn may still do is a number, before a step and after it.
LEMMA AllowanceType ==
    /\ TypeOK => \A t \in Turns : Allowance(t) \in Int
    /\ TypeOK' => \A t \in Turns : Allowance(t)' \in Int
<1>1. ASSUME TypeOK, NEW t \in Turns PROVE Allowance(t) \in Int
  <2>1. Distance(at[t]) \in Nat /\ attempts[t] \in Nat /\ observed[t] \in Nat
    BY <1>1, DistanceType DEF TypeOK
  <2> QED
    BY <2>1 DEF Allowance
<1>2. ASSUME TypeOK', NEW t \in Turns PROVE Allowance(t)' \in Int
  <2>1. Distance(at'[t]) \in Nat /\ attempts'[t] \in Nat /\ observed'[t] \in Nat
    BY <1>2, DistanceType DEF TypeOK
  <2> QED
    BY <2>1 DEF Allowance
<1> QED
  BY <1>1, <1>2

\* The turn that takes the step comes closer to its end, or spends something for it.
LEMMA AdvanceOwn ==
    ASSUME TypeOK, NEW t \in Turns, Step(t) \/ Abort(t) \/ Fail(t)
    PROVE  Allowance(t)' < Allowance(t)
<1> DEFINE Goes(from, to) == at[t] = from /\ at'[t] \in to
           Free == attempts'[t] = attempts[t] /\ observed'[t] = observed[t]
<1>a. /\ at \in [Turns -> Place] /\ attempts \in [Turns -> Nat] /\ observed \in [Turns -> Nat]
      /\ attempts[t] \in Nat /\ observed[t] \in Nat
  BY DEF TypeOK
<1>1. CASE Recall(t) \/ Hydrate(t)
  <2>1. /\ Free
        /\ \/ Goes("recall", {"hydrate"})
           \/ Goes("hydrate", {"confirmation"})
    BY <1>1, <1>a DEF Recall, Hydrate, OpenReviews, Window, MayHydrate, Goto, locals, history
  <2> QED
    BY <1>a, <2>1, Distances DEF Allowance
<1>2. CASE CancelConfirmation(t) \/ AcceptConfirmation(t) \/ PassConfirmation(t)
  <2>1. /\ Free
        /\ Goes("confirmation", {"finish", "confirmed_execute", "query", "review"})
    BY <1>2, <1>a DEF CancelConfirmation, AcceptConfirmation, PassConfirmation, Goto, locals,
      history
  <2> QED
    BY <1>a, <2>1, Distances DEF Allowance
<1>3. CASE ConfirmedExecute(t)
  <2>1. /\ attempts'[t] = attempts[t] + 1 /\ observed'[t] = observed[t]
        /\ Goes("confirmed_execute", {"confirmed_result"})
    BY <1>3, <1>a DEF ConfirmedExecute, Submit, Goto
  <2> QED
    BY <1>a, <2>1, Distances DEF Allowance
<1>4. CASE ConfirmationExpired(t) \/ ConfirmedUntracked(t) \/ ConfirmedTracked(t) \/
  ConfirmedSucceeded(t)
  <2>1. /\ Free
        /\ \/ Goes("confirmed_result", {"finish", "confirmed_observe"})
           \/ Goes("confirmed_observe", {"finish"})
    BY <1>4, <1>a DEF ConfirmationExpired, ConfirmedUntracked, ConfirmedTracked,
      ConfirmedSucceeded, Prompt, MayAskAboutLight, Goto, locals, history
  <2> QED
    BY <1>a, <2>1, Distances DEF Allowance
<1>5. CASE ConfirmedUnverified(t) \/ ConfirmedRefused(t) \/ ConfirmedFailed(t)
  <2>1. /\ Free
        /\ \/ Goes("confirmed_observe", {"opening", "confirm_failed"})
           \/ Goes("confirm_failed", {"finish"})
    BY <1>5, <1>a DEF ConfirmedUnverified, ConfirmedRefused, ConfirmedFailed, Goto, locals,
      history
  <2> QED
    BY <1>a, <2>1, Distances DEF Allowance
<1>6. CASE NoReview(t) \/ CancelReview(t) \/ IgnoreReview(t)
  <2>1. /\ Free
        /\ Goes("review", {"rest", "exhausted", "confirm_failed", "finish"})
    BY <1>6, <1>a, Returning DEF NoReview, CancelReview, IgnoreReview, Goto, locals, history
  <2> QED
    BY <1>a, <2>1, Distances DEF Allowance
<1>7. CASE SupersedeReview(t) \/ HearFeedback(t) \/ ContinueReview(t)
  <2>1. CASE SupersedeReview(t) \/ HearFeedback(t)
    <3>1. Free /\ Goes("review", {"supersede", "feedback"})
      BY <1>a, <2>1 DEF SupersedeReview, HearFeedback, Goto, history
    <3> QED
      BY <1>a, <3>1, Distances DEF Allowance
  <2>2. CASE ContinueReview(t)
    <3>1. /\ attempts'[t] = attempts[t] /\ observed'[t] = observed[t] + 1
          /\ Goes("review", {"observe"})
      BY <1>a, <2>2 DEF ContinueReview, Goto
    <3> QED
      BY <1>a, <3>1, Distances DEF Allowance
  <2> QED
    BY <1>7, <2>1, <2>2
<1>8. CASE ReviewSucceeded(t) \/ ReviewStillPending(t) \/ ReviewExhausted(t)
  <2>1. /\ Free
        /\ Goes("observe", {"finish", "progress", "closing"})
    BY <1>8, <1>a DEF ReviewSucceeded, ReviewStillPending, ReviewExhausted, Goto, locals, history
  <2> QED
    BY <1>a, <2>1, Distances DEF Allowance
<1>9. CASE NoteProgress(t) \/ NoteSuperseded(t) \/ NoteClosed(t) \/ NoteExhausted(t) \/
  NoteOpened(t)
  <2>1. /\ Free
        /\ \/ Goes("progress", {"review"})
           \/ Goes("supersede", {"rest", "exhausted", "confirm_failed"})
           \/ Goes("closing", {"finish"})
           \/ Goes("exhausted", {"finish"})
           \/ Goes("opening", {"opened"})
    BY <1>9, <1>a, Returning DEF NoteProgress, NoteSuperseded, NoteClosed, NoteExhausted,
      NoteOpened, Note, Goto, locals, history
  <2> QED
    BY <1>a, <2>1, Distances DEF Allowance
<1>10. CASE ResolveFeedback(t) \/ AnswerQuery(t)
  <2>1. /\ Free
        /\ \/ Goes("feedback", {"closing"})
           \/ Goes("query", {"finish"})
    BY <1>10, <1>a DEF ResolveFeedback, AnswerQuery, Goto, locals, history
  <2> QED
    BY <1>a, <2>1, Distances DEF Allowance
<1>11. CASE QueryFeedback(t) \/ NoQueryFeedback(t)
  <2>1. /\ Free
        /\ Goes("rest", {"plan", "finish", "feedback"})
    BY <1>11, <1>a DEF QueryFeedback, NoQueryFeedback, Continue, Goto, locals, history
  <2> QED
    BY <1>a, <2>1, Distances DEF Allowance
<1>12. CASE SkipAction(t) \/ AskConfirmation(t) \/ StartAction(t)
  <2>1. /\ Free
        /\ Goes("plan", {"finish", "execute"})
    BY <1>12, <1>a DEF SkipAction, AskConfirmation, StartAction, Goto, locals, history
  <2> QED
    BY <1>a, <2>1, Distances DEF Allowance
<1>13. CASE Execute(t)
  <2>1. /\ attempts'[t] = attempts[t] + 1 /\ observed'[t] = observed[t]
        /\ Goes("execute", {"result"})
    BY <1>13, <1>a DEF Execute, Submit, Goto
  <2> QED
    BY <1>a, <2>1, Distances DEF Allowance
<1>14. CASE DeferReview(t) \/ SubmittedUntracked(t) \/ ObserveAction(t)
  <2>1. /\ Free
        /\ Goes("result", {"opening", "finish", "direct_observe"})
    BY <1>14, <1>a DEF DeferReview, SubmittedUntracked, ObserveAction, Tracked, Goto, locals,
      history
  <2> QED
    BY <1>a, <2>1, Distances DEF Allowance
<1>15. CASE ActionSucceeded(t) \/ ActionUnverified(t) \/ ActionFailed(t)
  <2>1. /\ Free
        /\ Goes("direct_observe", {"finish", "opening", "exhausted"})
    BY <1>15, <1>a DEF ActionSucceeded, ActionUnverified, ActionFailed, MayAskAboutLight, Goto,
      locals, history
  <2> QED
    BY <1>a, <2>1, Distances DEF Allowance
<1>16. CASE OpenReview(t)
  <2>1. /\ Free
        /\ Goes("opened", {"finish", "review"})
    BY <1>16, <1>a DEF OpenReview, Goto, locals, history
  <2> QED
    BY <1>a, <2>1, Distances DEF Allowance
<1>17. CASE Finish(t) \/ ConsumeConfirmation(t)
  <2>1. /\ Free
        /\ \/ Goes("finish", {"unconfirm", "done"})
           \/ Goes("unconfirm", {"done"})
    BY <1>17, <1>a DEF Finish, ConsumeConfirmation, Goto, locals, history
  <2> QED
    BY <1>a, <2>1, Distances DEF Allowance
<1>18. CASE Abort(t) \/ Fail(t)
  <2>1. Free /\ at[t] \in Place \ Resting /\ at'[t] \in {"done", "aborted"}
    BY <1>18, <1>a DEF Abort, Fail, Goto, history
  <2>2. Distance(at[t]) \in Nat /\ Distance(at[t]) > 0 /\ Distance(at'[t]) = 0
    BY <2>1, DistanceType, Distances
  <2> QED
    BY <1>a, <2>1, <2>2 DEF Allowance
<1> QED
  BY <1>1, <1>2, <1>3, <1>4, <1>5, <1>6, <1>7, <1>8, <1>9, <1>10, <1>11, <1>12, <1>13, <1>14,
    <1>15, <1>16, <1>17, <1>18 DEF Step

\* What a turn may still do only shrinks: each step of it takes something away, and nobody
\* else's step gives anything back.
LEMMA AdvanceStep ==
    TypeOK /\ Placed /\ [Next]_vars
       => \A t \in Turns : /\ Allowance(t)' <= Allowance(t)
                           /\ at'[t] # at[t] => Allowance(t)' < Allowance(t)
<1> SUFFICES ASSUME TypeOK, Placed, [Next]_vars, NEW t \in Turns
             PROVE  /\ Allowance(t)' <= Allowance(t)
                    /\ at'[t] # at[t] => Allowance(t)' < Allowance(t)
  OBVIOUS
<1>1. at \in [Turns -> Place] /\ attempts[t] \in Nat /\ observed[t] \in Nat
  BY DEF TypeOK
<1>2. \A p \in Place : Distance(p) \in Nat
  BY DistanceType
<1>3. Allowance(t) \in Int
  BY AllowanceType
<1>4. UNCHANGED <<at[t], attempts[t], observed[t]>> => Allowance(t)' = Allowance(t)
  BY DEF Allowance
<1>5. CASE UNCHANGED vars
  BY <1>3, <1>4, <1>5 DEF vars, history
<1>6. ASSUME NEW u \in Turns, NEW said_u \in Utterances, Arrive(u, said_u)
      PROVE  /\ Allowance(t)' <= Allowance(t)
             /\ at'[t] # at[t] => Allowance(t)' < Allowance(t)
  <2>1. /\ at[u] = "idle" /\ at' = [at EXCEPT ![u] = "recall"]
        /\ UNCHANGED <<attempts, observed>>
    BY <1>6 DEF Arrive, Goto, history
  <2>2. CASE t = u
    BY <1>1, <2>1, <2>2 DEF Allowance, Distance
  <2>3. CASE t # u
    BY <1>1, <1>3, <1>4, <2>1, <2>3
  <2> QED
    BY <2>2, <2>3
<1>7. CASE Restart
  <2>1. /\ at'[t] = at[t] \/ (at[t] \notin Resting /\ at'[t] = "aborted")
        /\ UNCHANGED <<attempts, observed>>
    BY <1>1, <1>7 DEF Restart
  <2>2. at[t] \in Place \ Resting => Distance(at[t]) > 0
    BY DEF Distance, Place, Resting
  <2>3. Distance("aborted") = 0
    BY DEF Distance
  <2> QED
    BY <1>1, <1>2, <1>3, <1>4, <2>1, <2>2, <2>3 DEF Allowance
<1>8. ASSUME NEW u \in Turns, Step(u) \/ Abort(u) \/ Fail(u)
      PROVE  /\ Allowance(t)' <= Allowance(t)
             /\ at'[t] # at[t] => Allowance(t)' < Allowance(t)
  <2>1. CASE t = u
    <3>1. Allowance(t)' < Allowance(t)
      BY <1>8, <2>1, AdvanceOwn
    <3>2. Allowance(t)' \in Int
      BY TypeStep, AllowanceType
    <3> QED
      BY <1>3, <3>1, <3>2
  <2>2. CASE t # u
    <3>1. UNCHANGED <<at[t], attempts[t], observed[t]>>
      BY <1>8, <2>2, OtherTurns DEF Same
    <3> QED
      BY <1>3, <1>4, <3>1
  <2> QED
    BY <2>1, <2>2
<1> QED
  BY <1>5, <1>6, <1>7, <1>8 DEF Next

\* Each step of a turn, whatever the others do to the session meanwhile, brings it closer
\* to its end or spends its command or an observation: none of the nested handlers returns
\* it to a place it came from for nothing.
THEOREM Advancing == Spec => TurnsAdvance
<1>1. TypeOK /\ Placed /\ [Next]_vars
         => [\A t \in Turns : at'[t] # at[t] => Allowance(t)' < Allowance(t)]_vars
  BY AdvanceStep
<1> QED
  BY <1>1, Typed, PTL DEF Spec, TurnsAdvance

\* Where the turns of a session run one after another, what a turn may still do is never
\* overdrawn; so it takes no more steps than it is allowed at the start.
THEOREM NeverOverdrawn ==
    ASSUME MaxInFlight = 1 PROVE Spec => [](\A t \in Turns : Allowance(t) \in 0..63)
<1> DEFINE Spare == \A t \in Turns : Allowance(t) <= 63
<1>1. Init => Spare
  BY DEF Init, Allowance, Distance
<1>2. TypeOK /\ Placed /\ Spare /\ [Next]_vars => Spare'
  <2> SUFFICES ASSUME TypeOK, Placed, Spare, [Next]_vars, NEW t \in Turns
               PROVE  Allowance(t)' <= 63
    OBVIOUS
  <2>1. Allowance(t)' <= Allowance(t) /\ Allowance(t) <= 63
    BY AdvanceStep
  <2>2. Allowance(t) \in Int /\ Allowance(t)' \in Int
    BY TypeStep, AllowanceType
  <2> QED
    BY <2>1, <2>2
<1>3. TypeOK /\ Placed /\ Spare /\ OneCommandPerTurn /\ TurnWithinBudget
         => \A t \in Turns : Allowance(t) \in 0..63
  <2> SUFFICES ASSUME TypeOK, Placed, Spare, OneCommandPerTurn, TurnWithinBudget,
                      NEW t \in Turns
               PROVE  Allowance(t) \in 0..63
    OBVIOUS
  <2>1. attempts[t] \in 0..1 /\ observed[t] \in Nat /\ Distance(at[t]) \in Nat
    BY DistanceType DEF TypeOK, OneCommandPerTurn
  <2>2. observed[t] <= 4
    BY TurnAssumption DEF TurnWithinBudget
  <2>3. Allowance(t) >= 0 /\ Allowance(t) \in Int
    BY <2>1, <2>2 DEF Allowance
  <2> QED
    BY <2>3
<1> QED
  BY <1>1, <1>2, <1>3, Typed, OneCommand, TurnBudget, PTL DEF Spec

=============================================================================
