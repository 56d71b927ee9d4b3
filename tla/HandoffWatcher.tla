-------------------------- MODULE HandoffWatcher --------------------------
(***************************************************************************)
(* The watcher that turns every handoff ai-talk-core saves into a turn of  *)
(* thought-core: the polling loop with the signature of the last handoff   *)
(* it finished, run_once, and the threads that send automatic reviews      *)
(* while the loop goes on.                                                 *)
(*                                                                         *)
(* The handoff is one file that its writer overwrites.  With a candidate   *)
(* it is the candidate file, and a turn is built of it and of the private  *)
(* turn file: until both are written the handoff is not whole.             *)
(*                                                                         *)
(* A definition named ...Bug is the one after it with a plausible mistake  *)
(* in it; no specification uses it.                                        *)
(***************************************************************************)
EXTENDS Integers

CONSTANTS
    MaxHandoffs,    \* bound: handoffs that are saved
    NoSpeech,       \* those that hold the no-speech placeholder
    Modes,          \* plain handoffs, accepted speech candidates, or either
    Reviewers,      \* bound: review threads alive at once
    MaxReviews,     \* auto_review_max_turns
    MaxRestarts,    \* bound: times the watcher is started again
    Main,           \* the thread of run_watch
    Review          \* the text of an automatic review

Handoffs == 1..MaxHandoffs

ASSUME WatcherAssumption ==
    /\ MaxHandoffs \in Nat \ {0} /\ MaxReviews \in Nat \ {0} /\ MaxRestarts \in Nat
    /\ NoSpeech \subseteq Handoffs
    /\ Modes \subseteq {"plain", "candidate"}
    /\ Main \notin Reviewers /\ Review \notin Nat

Threads == {Main} \cup Reviewers

\* A signature tells a handoff from every other and from the part of it that is written.
Signature == [handoff : 0..MaxHandoffs, whole : BOOLEAN]

Nothing == [handoff |-> 0, whole |-> TRUE]

VARIABLES
    mode,     \* what the handoff is
    skips,    \* --skip-existing
    file,     \* the handoff on disk
    at,       \* where each thread is
    taken,    \* the signature of this round of the loop
    seen,     \* the signature of the last handoff that was finished
    held,     \* what the turn of a thread was built of
    asked,    \* reviews a review thread has sent
    restarts, \* times the watcher was started again
    heard,    \* handoffs that became a turn of thought-core
    ignored,  \* handoffs on disk at a start that skips what exists
    spent,    \* handoffs whose turn nothing gives a reason to repeat
    repeated  \* handoffs that became a turn although they were spent

watch == <<taken, seen>>
ledger == <<heard, ignored, spent, repeated>>
vars == <<mode, skips, file, at, watch, held, asked, restarts, ledger>>

\* What --skip-existing has the watcher pass over when it starts.
Existing == IF skips /\ file.whole THEN {file.handoff} \cap Handoffs ELSE {}

Init ==
    /\ mode \in Modes
    /\ skips \in BOOLEAN
    /\ file \in [handoff : 0..1, whole : BOOLEAN]
    /\ file.handoff = 0 => file.whole
    /\ at = [t \in Threads |-> IF t = Main THEN "poll" ELSE "idle"]
    /\ taken = Nothing
    /\ seen = IF skips THEN file ELSE Nothing
    /\ held = [t \in Threads |-> 0]
    /\ asked = [t \in Reviewers |-> 0]
    /\ restarts = 0
    /\ heard = {}
    /\ ignored = Existing
    /\ spent = {}
    /\ repeated = {}

Goto(t, place) == at' = [at EXCEPT ![t] = place]

\* The process ends, and its review threads, which are daemons, with it.
Down == at' = [t \in Threads |-> IF t = Main THEN "down" ELSE "idle"]

-----------------------------------------------------------------------------
(* The writer of the handoff *)

Save ==
    /\ file.whole /\ file.handoff < MaxHandoffs
    /\ \E w \in BOOLEAN : file' = [handoff |-> file.handoff + 1, whole |-> w]
    /\ UNCHANGED <<mode, skips, at, watch, held, asked, restarts, ledger>>

SaveRest ==
    /\ ~file.whole
    /\ file' = [file EXCEPT !.whole = TRUE]
    /\ UNCHANGED <<mode, skips, at, watch, held, asked, restarts, ledger>>

-----------------------------------------------------------------------------
(* run_watch *)

\* handoff_signature, before run_once reads the file.
PollByNameBug ==
    /\ at[Main] = "poll"
    /\ file # Nothing /\ file.handoff # seen.handoff
    /\ taken' = file
    /\ Goto(Main, "build")
    /\ UNCHANGED <<mode, skips, file, seen, held, asked, restarts, ledger>>

Poll ==
    /\ at[Main] = "poll"
    /\ file # Nothing /\ file # seen
    /\ taken' = file
    /\ Goto(Main, "build")
    /\ UNCHANGED <<mode, skips, file, seen, held, asked, restarts, ledger>>

\* An OSError of the signature is raised outside the try: the watcher ends.
SignatureFails ==
    /\ at[Main] = "poll"
    /\ file # Nothing
    /\ Down
    /\ UNCHANGED <<mode, skips, file, watch, held, asked, restarts, ledger>>

\* It is started again.
Restart ==
    /\ at[Main] = "down"
    /\ restarts < MaxRestarts
    /\ restarts' = restarts + 1
    /\ Goto(Main, "poll")
    /\ seen' = IF skips THEN file ELSE Nothing
    /\ ignored' = ignored \cup Existing
    /\ spent' = IF skips \/ mode = "candidate" THEN spent ELSE spent \ {file.handoff}
    /\ UNCHANGED <<mode, skips, file, taken, held, asked, heard, repeated>>

-----------------------------------------------------------------------------
(* run_once, in run_watch or in a review thread *)

\* The caught errors: the loop tries again at its next poll, a review thread ends.
Failed(t) == Goto(t, IF t = Main THEN "poll" ELSE "idle")

\* The handoff is finished.  seen is the signature of before, so a file that changed since
\* is new at the next poll.
FinishedLateBug == seen' = file

Finished == seen' = taken

\* build_result: with candidate files it reads them, in a review thread too.
Build(t) ==
    /\ at[t] = "build"
    /\ \/ /\ t # Main /\ mode = "plain"
          /\ held' = [held EXCEPT ![t] = Review]
          /\ Goto(t, "send")
          /\ UNCHANGED <<watch, ledger>>
       \/ /\ t = Main \/ mode = "candidate"
          /\ file.whole /\ file # Nothing
          /\ held' = [held EXCEPT ![t] = file.handoff]
          /\ IF mode = "plain" /\ file.handoff \in NoSpeech
             THEN Failed(t) /\ Finished /\ UNCHANGED <<taken, ledger>>
             ELSE Goto(t, "send") /\ UNCHANGED <<watch, ledger>>
       \/ /\ t = Main \/ mode = "candidate"
          /\ ~file.whole
          /\ Failed(t)
          /\ UNCHANGED <<held, watch, ledger>>
    /\ UNCHANGED <<mode, skips, file, asked, restarts>>

\* No connection, or an HTTP error.
Unreachable(t) ==
    /\ at[t] = "send"
    /\ Failed(t)
    /\ UNCHANGED <<mode, skips, file, watch, held, asked, restarts, ledger>>

\* The service begins the turn; a candidate it has heard it refuses as a replay.
AcceptReplayBug(t) ==
    /\ at[t] = "send"
    /\ Goto(t, "stream")
    /\ heard' = heard \cup ({held[t]} \cap Handoffs)
    /\ repeated' = repeated \cup ({held[t]} \cap spent)
    /\ spent' = spent \cup ({held[t]} \cap Handoffs)
    /\ UNCHANGED <<mode, skips, file, watch, held, asked, restarts, ignored>>

Accept(t) ==
    /\ at[t] = "send"
    /\ mode = "candidate" => held[t] \notin heard
    /\ Goto(t, "stream")
    /\ heard' = heard \cup ({held[t]} \cap Handoffs)
    /\ repeated' = repeated \cup ({held[t]} \cap spent)
    /\ spent' = spent \cup ({held[t]} \cap Handoffs)
    /\ UNCHANGED <<mode, skips, file, watch, held, asked, restarts, ignored>>

\* A reason to send a plain handoff again: its turn failed, or it was read when the
\* signature was of an earlier state of the file.
Excused(t) == spent' = IF mode = "plain" THEN spent \ {held[t]} ELSE spent

Stale == taken # [handoff |-> held[Main], whole |-> TRUE]

\* schedule_pending_action_reviews
Spawn == \E t \in Reviewers :
    /\ at[t] = "idle"
    /\ at' = [at EXCEPT ![Main] = "poll", ![t] = "build"]
    /\ asked' = [asked EXCEPT ![t] = 1]

\* The stream ends without turn.error: the loop is done with the handoff.
Answer ==
    /\ at[Main] = "stream"
    /\ Finished
    /\ \/ Goto(Main, "poll") /\ UNCHANGED asked
       \/ Spawn
    /\ IF Stale THEN Excused(Main) ELSE UNCHANGED spent
    /\ UNCHANGED <<mode, skips, file, taken, held, restarts, heard, ignored, repeated>>

\* The answer to a review may be pending again, up to the cap.
AnswerReviewUncappedBug(t) ==
    /\ at[t] = "stream"
    /\ \/ Goto(t, "idle") /\ UNCHANGED asked
       \/ Goto(t, "build") /\ UNCHANGED asked
    /\ UNCHANGED <<mode, skips, file, watch, held, restarts, ledger>>

AnswerReview(t) ==
    /\ at[t] = "stream"
    /\ \/ Goto(t, "idle") /\ UNCHANGED asked
       \/ /\ asked[t] < MaxReviews
          /\ asked' = [asked EXCEPT ![t] = @ + 1]
          /\ Goto(t, "build")
    /\ UNCHANGED <<mode, skips, file, watch, held, restarts, ledger>>

\* turn.error, or an event that is no JSON.
TurnFails(t) ==
    /\ at[t] = "stream"
    /\ Failed(t)
    /\ Excused(t)
    /\ UNCHANGED <<mode, skips, file, watch, held, asked, restarts, heard, ignored, repeated>>

\* A timeout or a lost connection in the stream is none of the errors that are caught, nor
\* is a result file that cannot be written.
StreamBreaks(t) ==
    /\ at[t] = "stream"
    /\ IF t = Main THEN Down ELSE Goto(t, "idle")
    /\ Excused(t)
    /\ UNCHANGED <<mode, skips, file, watch, held, asked, restarts, heard, ignored, repeated>>

RunOnce(t) == Build(t) \/ Unreachable(t) \/ Accept(t) \/ TurnFails(t) \/ StreamBreaks(t)

Watch == Poll \/ RunOnce(Main) \/ Answer

Reviewing(t) == RunOnce(t) \/ AnswerReview(t)

Next ==
    \/ Save \/ SaveRest \/ SignatureFails \/ Restart
    \/ Watch \/ \E t \in Reviewers : Reviewing(t)

Spec == Init /\ [][Next]_vars

\* No thread stops for ever, since every wait has a timeout; of thought-core it is assumed
\* that it takes a turn that is sent again and again, and answers one of them.
FairSpec ==
    /\ Spec
    /\ WF_vars(Watch)
    /\ SF_vars(Accept(Main)) /\ SF_vars(Answer)
    /\ \A t \in Reviewers : WF_vars(Reviewing(t))

-----------------------------------------------------------------------------
(* What the watcher promises *)

TypeOK ==
    /\ mode \in Modes /\ skips \in BOOLEAN
    /\ file \in Signature /\ taken \in Signature /\ seen \in Signature
    /\ at \in [Threads -> {"poll", "build", "send", "stream", "down", "idle"}]
    /\ at[Main] # "idle"
    /\ \A t \in Reviewers : at[t] \notin {"poll", "down"}
    /\ held \in [Threads -> 0..MaxHandoffs \cup {Review}]
    /\ held[Main] # Review
    /\ asked \in [Reviewers -> 0..MaxReviews]
    /\ restarts \in 0..MaxRestarts
    /\ heard \subseteq Handoffs /\ ignored \subseteq Handoffs
    /\ spent \subseteq heard /\ repeated \subseteq heard

Silent == IF mode = "plain" THEN NoSpeech ELSE {}

\* A handoff that the watcher takes for finished was heard, held no speech, or was there
\* when a watcher that skips what exists was started: one that is saved while another is
\* sent is not lost.
NothingLost == file = seen /\ file.whole /\ file # Nothing =>
    file.handoff \in heard \cup ignored \cup Silent

\* A handoff is not sent again without a reason: its turn failed, it was saved between the
\* signature and the reading, or the watcher was started without --skip-existing.  A
\* candidate becomes one turn whatever happens, although review threads send it too.
TurnedOnce == repeated = {}

\* A handoff that stays on disk is heard at last.
LatestHeard == \A h \in Handoffs :
    <>[](file = [handoff |-> h, whole |-> TRUE]) /\ []<>(at[Main] # "down")
        => <>(h \in heard \cup ignored \cup Silent)

\* However often the service answers that a review is pending, the reviews end.
ReviewsEnd == \A t \in Reviewers : at[t] = "build" ~> at[t] = "idle"
=============================================================================
