----------------------- MODULE HandoffWatcherProofs -----------------------
(***************************************************************************)
(* Theorems about HandoffWatcher, for any number of handoffs, review       *)
(* threads and restarts: no handoff is lost, and none is sent again        *)
(* without a reason.                                                       *)
(*                                                                         *)
(* Both rest on the order of what the loop has seen: the file never goes   *)
(* back to a state it had, so a signature is either of the file as it is   *)
(* or of an earlier one.                                                   *)
(***************************************************************************)
EXTENDS HandoffWatcher, TLAPS

\* The file was in the state of signature s, or is.
Reached(s) ==
    \/ s.handoff < file.handoff
    \/ s.handoff = file.handoff /\ (s.whole => file.whole)

Ordered == Reached(taken) /\ Reached(seen) /\ (file.handoff = 0 => file.whole)

\* What the loop sends was read after its signature, and is heard when it streams.
Reading ==
    /\ at[Main] \in {"send", "stream"} =>
          /\ held[Main] \in Handoffs
          /\ taken.handoff <= held[Main] /\ held[Main] <= file.handoff
    /\ at[Main] = "stream" => held[Main] \in heard

\* In plain mode a spent handoff is being answered, or is the finished one, or is no
\* longer on disk; in either mode none was sent after it was spent.
Accounts ==
    /\ repeated = {}
    /\ mode = "plain" =>
          /\ \A h \in spent : h <= file.handoff
          /\ \A t \in Reviewers : at[t] \in {"send", "stream"} => held[t] = Review
          /\ at[Main] = "send" => held[Main] \notin spent
          /\ file.handoff \in spent =>
                \/ at[Main] = "stream" /\ held[Main] = file.handoff
                \/ /\ at[Main] \in {"poll", "down"}
                   /\ seen = [handoff |-> file.handoff, whole |-> TRUE]

-----------------------------------------------------------------------------
(* Types *)

LEMMA NothingSigned == Nothing \in Signature
<1>1. 0 \in 0..MaxHandoffs
  BY WatcherAssumption
<1>2. QED
  BY <1>1 DEF Nothing, Signature

LEMMA TypeInit == Init => TypeOK
  BY WatcherAssumption
  DEF Init, TypeOK, Signature, Nothing, Existing, Handoffs, Threads

\* A thread that reads, sends or is answered keeps every variable in its type.
LEMMA TypeRun ==
  ASSUME TypeOK, NEW t \in Threads, RunOnce(t)
  PROVE  TypeOK'
<1> USE WatcherAssumption DEF TypeOK, Threads
<1>1. CASE Build(t)
  <2>1. PICK place \in {"poll", "send", "idle"} :
          /\ at' = [at EXCEPT ![t] = place]
          /\ t = Main => place # "idle"
          /\ t # Main => place # "poll"
    BY <1>1 DEF Build, Goto, Failed
  <2>2. /\ at' \in [Threads -> {"poll", "build", "send", "stream", "down", "idle"}]
        /\ at'[Main] # "idle"
        /\ \A r \in Reviewers : at'[r] \notin {"poll", "down"}
    BY <2>1
  <2>3. /\ held' \in [Threads -> 0..MaxHandoffs \cup {Review}]
        /\ held'[Main] # Review
    <3>1. CASE held' = [held EXCEPT ![t] = Review] /\ t # Main
      BY <3>1
    <3>2. CASE held' = [held EXCEPT ![t] = file.handoff]
      <4>1. file.handoff \in 0..MaxHandoffs /\ file.handoff # Review
        BY DEF Signature
      <4> QED
        BY <3>2, <4>1
    <3>3. CASE held' = held
      BY <3>3
    <3> QED
      BY <1>1, <3>1, <3>2, <3>3 DEF Build
  <2>4. /\ UNCHANGED <<mode, skips, file, asked, restarts, ledger>>
        /\ taken' = taken /\ seen' \in {seen, taken}
    BY <1>1 DEF Build, watch, ledger, Finished
  <2>5. QED
    BY <2>2, <2>3, <2>4 DEF ledger
<1>2. CASE Unreachable(t)
  BY <1>2 DEF Unreachable, Failed, Goto, watch, ledger
<1>3. CASE Accept(t)
  BY <1>3 DEF Accept, Goto, watch, Handoffs
<1>4. CASE TurnFails(t)
  BY <1>4 DEF TurnFails, Failed, Goto, Excused, watch
<1>5. CASE StreamBreaks(t)
  BY <1>5 DEF StreamBreaks, Down, Goto, Excused, watch
<1>6. QED
  BY <1>1, <1>2, <1>3, <1>4, <1>5 DEF RunOnce

LEMMA TypeStep == TypeOK /\ [Next]_vars => TypeOK'
<1> SUFFICES ASSUME TypeOK, [Next]_vars PROVE TypeOK'
  OBVIOUS
<1> USE WatcherAssumption DEF TypeOK, Threads
<1>1. CASE Save
  BY <1>1 DEF Save, watch, ledger, Signature
<1>2. CASE SaveRest
  BY <1>2 DEF SaveRest, watch, ledger, Signature
<1>3. CASE SignatureFails
  BY <1>3 DEF SignatureFails, Down, watch, ledger
<1>4. CASE Restart
  <2>1. /\ at' = [at EXCEPT ![Main] = "poll"] /\ restarts' = restarts + 1
        /\ seen' \in {file, Nothing}
    BY <1>4 DEF Restart, Goto
  <2>2. seen' \in Signature
    BY <2>1, NothingSigned
  <2>3. restarts' \in 0..MaxRestarts
    <3>1. restarts < MaxRestarts /\ restarts' = restarts + 1
      BY <1>4 DEF Restart
    <3> QED
      BY <3>1
  <2>4. at' \in [Threads -> {"poll", "build", "send", "stream", "down", "idle"}]
        /\ at'[Main] # "idle" /\ \A r \in Reviewers : at'[r] \notin {"poll", "down"}
    BY <2>1
  <2>5. ignored' \subseteq Handoffs /\ spent' \subseteq heard'
    BY <1>4 DEF Restart, Existing
  <2>6. QED
    BY <1>4, <2>2, <2>3, <2>4, <2>5 DEF Restart
<1>5. CASE Poll
  BY <1>5 DEF Poll, Goto, ledger
<1>6. CASE Answer
  BY <1>6 DEF Answer, Finished, Goto, Spawn, Excused
<1>7. ASSUME NEW t \in Threads, RunOnce(t) PROVE TypeOK'
  BY <1>7, TypeRun
<1>8. ASSUME NEW t \in Reviewers, AnswerReview(t) PROVE TypeOK'
  BY <1>8 DEF AnswerReview, Goto, watch, ledger
<1>9. CASE UNCHANGED vars
  BY <1>9 DEF vars, watch, ledger
<1>10. QED
  BY <1>1, <1>2, <1>3, <1>4, <1>5, <1>6, <1>7, <1>8, <1>9 DEF Next, Watch, Reviewing

\* Every reachable state is well typed.
THEOREM TypeCorrect == Spec => []TypeOK
<1>1. QED
  BY TypeInit, TypeStep, PTL DEF Spec

-----------------------------------------------------------------------------
(* The order of signatures *)

\* Whoever moves, the file is never again what a signature before was of.
LEMMA OrderedStep == TypeOK /\ Ordered /\ [Next]_vars => Ordered'
<1> SUFFICES ASSUME TypeOK, Ordered, [Next]_vars PROVE Ordered'
  OBVIOUS
<1> USE DEF TypeOK, Ordered, Reached, Signature, Nothing
<1>1. CASE Save
  BY <1>1, WatcherAssumption DEF Save, watch
<1>2. CASE SaveRest
  BY <1>2, WatcherAssumption DEF SaveRest, watch
<1>3. CASE SignatureFails
  BY <1>3 DEF SignatureFails, watch
<1>4. CASE Restart
  BY <1>4, WatcherAssumption DEF Restart
<1>5. CASE Poll
  BY <1>5 DEF Poll
<1>6. CASE Answer
  BY <1>6 DEF Answer, Finished
<1>7. ASSUME NEW t \in Threads, RunOnce(t) PROVE Ordered'
  <2>1. file' = file /\ taken' = taken /\ seen' \in {seen, taken}
    BY <1>7 DEF RunOnce, Build, Unreachable, Accept, TurnFails, StreamBreaks, Finished, watch
  <2>2. QED
    BY <2>1
<1>8. ASSUME NEW t \in Reviewers, AnswerReview(t) PROVE Ordered'
  BY <1>8 DEF AnswerReview, watch
<1>9. CASE UNCHANGED vars
  BY <1>9 DEF vars, watch
<1>10. QED
  BY <1>1, <1>2, <1>3, <1>4, <1>5, <1>6, <1>7, <1>8, <1>9
  DEF Next, Watch, Reviewing, Threads

\* A review thread leaves alone the file, the loop and what it has seen.
LEMMA ReviewerAlone ==
  ASSUME TypeOK, NEW t \in Reviewers, RunOnce(t) \/ AnswerReview(t)
  PROVE  /\ at'[Main] = at[Main] /\ held'[Main] = held[Main]
         /\ UNCHANGED <<mode, file, taken, seen, ignored>>
         /\ heard \subseteq heard'
<1> USE WatcherAssumption DEF TypeOK, Threads
<1>1. CASE Build(t)
  BY <1>1 DEF Build, Goto, Failed, watch, ledger
<1>2. CASE Unreachable(t)
  BY <1>2 DEF Unreachable, Goto, Failed, watch, ledger
<1>3. CASE Accept(t)
  BY <1>3 DEF Accept, Goto, watch
<1>4. CASE TurnFails(t)
  BY <1>4 DEF TurnFails, Goto, Failed, watch
<1>5. CASE StreamBreaks(t)
  BY <1>5 DEF StreamBreaks, Goto, watch
<1>6. CASE AnswerReview(t)
  BY <1>6 DEF AnswerReview, Goto, watch, ledger
<1>7. QED
  BY <1>1, <1>2, <1>3, <1>4, <1>5, <1>6 DEF RunOnce

\* A turn the loop sends was read after its signature was taken, whoever moves.
LEMMA ReadingStep == TypeOK /\ Ordered /\ Reading /\ [Next]_vars => Reading'
<1> SUFFICES ASSUME TypeOK, Ordered, Reading, [Next]_vars PROVE Reading'
  OBVIOUS
<1> USE WatcherAssumption DEF TypeOK, Threads, Reading
<1>1. CASE Save
  BY <1>1 DEF Save, watch, ledger, Signature
<1>2. CASE SaveRest
  BY <1>2 DEF SaveRest, watch, ledger, Signature
<1>3. CASE SignatureFails
  BY <1>3 DEF SignatureFails, Down
<1>4. CASE Restart
  BY <1>4 DEF Restart, Goto
<1>5. CASE Poll
  BY <1>5 DEF Poll, Goto
<1>6. CASE Answer
  <2>1. at'[Main] = "poll"
    BY <1>6 DEF Answer, Goto, Spawn
  <2>2. QED
    BY <2>1
<1>7. CASE RunOnce(Main)
  <2>1. CASE Build(Main)
    <3>1. CASE at'[Main] = "send"
      <4>1. held'[Main] = file.handoff /\ file # Nothing /\ file.whole /\ taken' = taken
            /\ file' = file /\ heard' = heard
        BY <2>1, <3>1 DEF Build, Goto, Failed, watch, ledger
      <4>2. file.handoff \in 0..MaxHandoffs /\ taken.handoff \in 0..MaxHandoffs
        BY DEF Signature
      <4>3. file.handoff # 0
        BY <4>1 DEF Signature, Nothing
      <4>4. taken.handoff <= file.handoff
        BY <4>2 DEF Ordered, Reached
      <4> QED
        BY <3>1, <4>1, <4>2, <4>3, <4>4 DEF Handoffs
    <3>2. CASE at'[Main] # "send"
      <4>1. at'[Main] = "poll"
        BY <2>1, <3>2 DEF Build, Goto, Failed
      <4> QED
        BY <4>1
    <3> QED
      BY <3>1, <3>2
  <2>2. CASE Unreachable(Main)
    BY <2>2 DEF Unreachable, Failed, Goto
  <2>3. CASE Accept(Main)
    BY <2>3 DEF Accept, Goto, watch
  <2>4. CASE TurnFails(Main)
    BY <2>4 DEF TurnFails, Failed, Goto
  <2>5. CASE StreamBreaks(Main)
    BY <2>5 DEF StreamBreaks, Down
  <2>6. QED
    BY <1>7, <2>1, <2>2, <2>3, <2>4, <2>5 DEF RunOnce
<1>8. ASSUME NEW t \in Reviewers, RunOnce(t) \/ AnswerReview(t) PROVE Reading'
  <2>1. /\ at'[Main] = at[Main] /\ held'[Main] = held[Main]
        /\ taken' = taken /\ file' = file /\ heard \subseteq heard'
    BY <1>8, ReviewerAlone
  <2>2. QED
    BY <2>1
<1>9. CASE UNCHANGED vars
  BY <1>9 DEF vars, watch, ledger
<1>10. QED
  BY <1>1, <1>2, <1>3, <1>4, <1>5, <1>6, <1>7, <1>8, <1>9 DEF Next, Watch, Reviewing

-----------------------------------------------------------------------------
(* No handoff is lost *)

LEMMA LostInit == Init => Ordered /\ Reading /\ NothingLost
<1> SUFFICES ASSUME Init PROVE Ordered /\ Reading /\ NothingLost
  OBVIOUS
<1> USE WatcherAssumption DEF Init
<1>1. Ordered
  BY DEF Ordered, Reached, Nothing
<1>2. Reading
  BY DEF Reading, Threads
<1>3. NothingLost
  <2>1. SUFFICES ASSUME file = seen, file.whole, file # Nothing
                 PROVE  file.handoff \in ignored
    BY DEF NothingLost
  <2>2. file.handoff \in 1..1
    <3>1. file = [handoff |-> file.handoff, whole |-> file.whole]
      OBVIOUS
    <3>2. file.handoff \in {0, 1} /\ file.whole = TRUE
      BY <2>1
    <3>3. file.handoff # 0
      BY <2>1, <3>1, <3>2 DEF Nothing
    <3>4. QED
      BY <3>2, <3>3
  <2>3. skips /\ ignored = {file.handoff} \cap Handoffs
    BY <2>1 DEF Existing
  <2>4. QED
    BY <2>2, <2>3 DEF Handoffs
<1>4. QED
  BY <1>1, <1>2, <1>3

\* What is saved is the next handoff.
LEMMA SaveNext == Save => seen' = seen /\ file'.handoff = file.handoff + 1
<1> SUFFICES ASSUME Save PROVE seen' = seen /\ file'.handoff = file.handoff + 1
  OBVIOUS
<1>1. seen' = seen
  BY DEF Save, watch
<1>2. PICK w \in BOOLEAN : file' = [handoff |-> file.handoff + 1, whole |-> w]
  BY DEF Save
<1>3. QED
  BY <1>1, <1>2

LEMMA LostStep == TypeOK /\ Ordered /\ Reading /\ NothingLost /\ [Next]_vars => NothingLost'
<1> SUFFICES ASSUME TypeOK, Ordered, Reading, NothingLost, [Next]_vars,
                    file' = seen', file'.whole, file' # Nothing
             PROVE  file'.handoff \in heard' \cup ignored' \cup Silent'
  BY DEF NothingLost
<1>1. /\ file \in Signature /\ seen \in Signature /\ taken \in Signature
      /\ file.handoff \in 0..MaxHandoffs /\ seen.handoff \in 0..MaxHandoffs
      /\ taken.handoff \in 0..MaxHandoffs
  BY DEF TypeOK, Signature
<1>0. MaxHandoffs \in Nat
  BY WatcherAssumption
<1>2. ASSUME UNCHANGED <<mode, file, seen, ignored>>, heard \subseteq heard'
      PROVE  file'.handoff \in heard' \cup ignored' \cup Silent'
  BY <1>2 DEF NothingLost, Silent
<1>3. CASE Save
  <2>1. seen' = seen /\ file'.handoff = file.handoff + 1
    BY <1>3, SaveNext
  <2>2. seen.handoff <= file.handoff
    BY <1>0, <1>1 DEF Ordered, Reached
  <2>3. QED
    BY <1>0, <1>1, <2>1, <2>2
<1>4. CASE SaveRest
  <2>1. seen' = seen /\ file'.handoff = file.handoff /\ ~file.whole
    BY <1>1, <1>4 DEF SaveRest, watch, Signature
  <2>2. seen.handoff = file.handoff /\ seen.whole
    BY <2>1
  <2>3. QED
    BY <1>1, <2>1, <2>2 DEF Ordered, Reached
<1>5. CASE SignatureFails
  BY <1>2, <1>5 DEF SignatureFails, watch, ledger
<1>6. CASE Restart
  <2>1. skips /\ file' = file /\ ignored' = ignored \cup Existing
    BY <1>6 DEF Restart
  <2>2. file.whole /\ file.handoff # 0
    BY <1>1, <2>1 DEF Signature, Nothing
  <2>3. file.handoff \in Existing
    BY <1>0, <1>1, <2>1, <2>2 DEF Existing, Handoffs
  <2>4. QED
    BY <2>1, <2>3
<1>7. CASE Poll
  BY <1>2, <1>7 DEF Poll, ledger
<1>8. CASE Answer
  <2>1. /\ at[Main] = "stream" /\ seen' = taken /\ file' = file
        /\ heard' = heard
    BY <1>8 DEF Answer, Finished
  <2>2. held[Main] = file.handoff /\ held[Main] \in heard
    BY <1>0, <1>1, <2>1 DEF Reading, Handoffs
  <2>3. QED
    BY <2>1, <2>2
<1>9. CASE RunOnce(Main)
  <2>1. CASE Build(Main) /\ seen' # seen
    <3>1. /\ mode = "plain" /\ file.handoff \in NoSpeech
          /\ mode' = mode /\ file' = file
      BY <2>1 DEF Build, watch
    <3>2. QED
      BY <3>1 DEF Silent
  <2>2. CASE ~(Build(Main) /\ seen' # seen)
    <3>1. UNCHANGED <<mode, file, seen, ignored>> /\ heard \subseteq heard'
      BY <1>9, <2>2
      DEF RunOnce, Build, Unreachable, Accept, TurnFails, StreamBreaks, watch, ledger
    <3>2. QED
      BY <1>2, <3>1
  <2>3. QED
    BY <2>1, <2>2
<1>10. ASSUME NEW t \in Reviewers, RunOnce(t) \/ AnswerReview(t)
       PROVE  file'.handoff \in heard' \cup ignored' \cup Silent'
  BY <1>2, <1>10, ReviewerAlone
<1>11. CASE UNCHANGED vars
  BY <1>2, <1>11 DEF vars, watch, ledger
<1>12. QED
  BY <1>3, <1>4, <1>5, <1>6, <1>7, <1>8, <1>9, <1>10, <1>11 DEF Next, Watch, Reviewing

\* A handoff that the watcher takes for finished was heard, held no speech, or was there at
\* a start with --skip-existing, however many are saved while others are sent.
THEOREM Lost == Spec => []NothingLost
<1>1. Ordered /\ Reading /\ NothingLost /\ TypeOK /\ [Next]_vars
        => (Ordered /\ Reading /\ NothingLost)'
  BY OrderedStep, ReadingStep, LostStep
<1>2. QED
  BY LostInit, TypeCorrect, <1>1, PTL DEF Spec

-----------------------------------------------------------------------------
(* None is sent again without a reason *)

\* In plain mode a review thread sends a text of its own, never a handoff.
LEMMA ReviewText == TypeOK => Review \notin Handoffs /\ Review \notin spent
<1>1. Review \notin Nat /\ MaxHandoffs \in Nat
  BY WatcherAssumption
<1>2. Handoffs \subseteq Nat
  BY <1>1 DEF Handoffs
<1>3. QED
  BY <1>1, <1>2 DEF TypeOK

LEMMA ReviewerSpends ==
  ASSUME TypeOK, Accounts, mode = "plain", NEW t \in Reviewers,
         RunOnce(t) \/ AnswerReview(t)
  PROVE  /\ spent' = spent
         /\ \A r \in Reviewers : at'[r] \in {"send", "stream"} => held'[r] = Review
<1> USE DEF Threads
<1>1. /\ \A r \in Reviewers : at[r] \in {"send", "stream"} => held[r] = Review
      /\ at \in [Threads -> {"poll", "build", "send", "stream", "down", "idle"}]
      /\ held \in [Threads -> 0..MaxHandoffs \cup {Review}]
      /\ t # Main
  <2>1. t # Main
    BY WatcherAssumption
  <2>2. QED
    BY <2>1 DEF TypeOK, Accounts
<1>2. CASE Build(t)
  <2>1. spent' = spent
    BY <1>1, <1>2 DEF Build, ledger
  <2>2. \/ at' = [at EXCEPT ![t] = "send"] /\ held' = [held EXCEPT ![t] = Review]
        \/ at' = [at EXCEPT ![t] = "idle"] /\ held' = held
    BY <1>1, <1>2 DEF Build, Goto, Failed
  <2>3. QED
    BY <1>1, <2>1, <2>2
<1>3. CASE Unreachable(t)
  BY <1>1, <1>3 DEF Unreachable, Goto, Failed, ledger
<1>4. CASE Accept(t)
  <2>1. held[t] = Review /\ spent' = spent \cup ({held[t]} \cap Handoffs)
    BY <1>1, <1>4 DEF Accept
  <2>2. spent' = spent
    BY <2>1, ReviewText
  <2>3. QED
    BY <1>1, <1>4, <2>1, <2>2 DEF Accept, Goto
<1>5. CASE TurnFails(t) \/ StreamBreaks(t)
  <2>1. held[t] = Review /\ spent' = spent \ {held[t]}
    BY <1>1, <1>5 DEF TurnFails, StreamBreaks, Excused
  <2>2. spent' = spent
    BY <2>1, ReviewText
  <2>3. at' = [at EXCEPT ![t] = "idle"] /\ held' = held
    BY <1>1, <1>5 DEF TurnFails, StreamBreaks, Goto, Failed
  <2>4. QED
    BY <1>1, <2>2, <2>3
<1>6. CASE AnswerReview(t)
  BY <1>1, <1>6 DEF AnswerReview, Goto, ledger
<1>7. QED
  BY <1>2, <1>3, <1>4, <1>5, <1>6 DEF RunOnce

\* No thread sends a spent handoff: the service refuses a candidate it has heard, and the
\* loop does not read a plain one again.
LEMMA NotRepeated ==
  ASSUME TypeOK, Accounts, NEW t \in Threads, RunOnce(t)
  PROVE  repeated' = {}
<1>1. repeated = {}
  BY DEF Accounts
<1>2. CASE Accept(t)
  <2>1. CASE mode = "candidate"
    BY <1>1, <1>2, <2>1 DEF Accept, TypeOK
  <2>2. CASE mode = "plain" /\ t = Main
    BY <1>1, <1>2, <2>2 DEF Accept, Accounts
  <2>3. CASE mode = "plain" /\ t \in Reviewers
    <3>1. held[t] = Review
      BY <1>2, <2>3 DEF Accept, Accounts
    <3>2. QED
      BY <1>1, <1>2, <3>1, ReviewText DEF Accept
  <2>4. QED
    BY <2>1, <2>2, <2>3, WatcherAssumption DEF TypeOK, Threads
<1>3. CASE ~Accept(t)
  BY <1>1, <1>3 DEF RunOnce, Build, Unreachable, TurnFails, StreamBreaks, ledger
<1>4. QED
  BY <1>2, <1>3

LEMMA AccountsInit == Init => Accounts
  BY WatcherAssumption DEF Init, Accounts, Threads

\* In plain mode, whoever moves, a spent handoff is answered, finished or gone.
LEMMA AccountsStep ==
  TypeOK /\ Ordered /\ Reading /\ Accounts /\ [Next]_vars => Accounts'
<1> SUFFICES ASSUME TypeOK, Ordered, Reading, Accounts, [Next]_vars
             PROVE  Accounts'
  OBVIOUS
<1> DEFINE Whole(h) == [handoff |-> h, whole |-> TRUE]
<1>1. mode' = mode
  BY DEF Next, Save, SaveRest, SignatureFails, Restart, Watch, Poll, Answer, RunOnce, Build,
         Unreachable, Accept, TurnFails, StreamBreaks, Reviewing, AnswerReview, vars
<1>2. repeated' = {}
  <2>1. ASSUME NEW t \in Threads, RunOnce(t) PROVE repeated' = {}
    BY <2>1, NotRepeated
  <2>2. CASE UNCHANGED repeated
    BY <2>2 DEF Accounts
  <2>3. QED
    BY <2>1, <2>2
    DEF Next, Save, SaveRest, SignatureFails, Restart, Watch, Poll, Answer,
        Reviewing, AnswerReview, vars, ledger, Threads
<1>3. SUFFICES ASSUME mode = "plain"
      PROVE  /\ \A h \in spent' : h <= file'.handoff
             /\ \A t \in Reviewers : at'[t] \in {"send", "stream"} => held'[t] = Review
             /\ at'[Main] = "send" => held'[Main] \notin spent'
             /\ file'.handoff \in spent' =>
                   \/ at'[Main] = "stream" /\ held'[Main] = file'.handoff
                   \/ at'[Main] \in {"poll", "down"} /\ seen' = Whole(file'.handoff)
  BY <1>1, <1>2 DEF Accounts
<1>4. /\ \A h \in spent : h \in Nat /\ h <= file.handoff
      /\ \A t \in Reviewers : at[t] \in {"send", "stream"} => held[t] = Review
      /\ at[Main] = "send" => held[Main] \notin spent
      /\ file.handoff \in spent =>
            \/ at[Main] = "stream" /\ held[Main] = file.handoff
            \/ at[Main] \in {"poll", "down"} /\ seen = Whole(file.handoff)
  BY <1>3, WatcherAssumption DEF Accounts, TypeOK, Handoffs
<1>5. /\ at \in [Threads -> {"poll", "build", "send", "stream", "down", "idle"}]
      /\ held \in [Threads -> 0..MaxHandoffs \cup {Review}]
      /\ Main \in Threads /\ Main \notin Reviewers /\ Reviewers \subseteq Threads
      /\ file.handoff \in Nat /\ file \in Signature /\ seen \in Signature
  BY WatcherAssumption DEF TypeOK, Threads, Signature
<1>6. file.handoff \in spent /\ seen = Whole(file.handoff) => file = seen
  BY <1>5 DEF Ordered, Reached, Signature
<1>7. ASSUME at' = at, held' = held, seen' = seen, spent' = spent, file' = file
      PROVE  Accounts'
  BY <1>1, <1>2, <1>4, <1>7 DEF Accounts
<1>8. CASE Save
  <2>1. file'.handoff = file.handoff + 1 /\ UNCHANGED <<at, held, spent>>
    BY <1>8, SaveNext DEF Save, ledger
  <2>2. QED
    BY <1>4, <1>5, <2>1
<1>9. CASE SaveRest
  <2>1. file'.handoff = file.handoff /\ UNCHANGED <<at, held, seen, spent>>
    BY <1>5, <1>9 DEF SaveRest, ledger, watch, Signature
  <2>2. QED
    BY <1>4, <2>1
<1>10. CASE SignatureFails
  <2>1. /\ at[Main] = "poll" /\ at'[Main] = "down"
        /\ \A t \in Reviewers : at'[t] = "idle"
        /\ UNCHANGED <<file, held, seen, spent>>
    BY <1>5, <1>10 DEF SignatureFails, Down, watch, ledger
  <2>2. QED
    BY <1>4, <2>1
<1>11. CASE Restart
  <2>1. /\ at[Main] = "down" /\ at' = [at EXCEPT ![Main] = "poll"]
        /\ UNCHANGED <<file, held>>
        /\ \/ seen' = file /\ spent' = spent
           \/ spent' = spent \ {file.handoff}
    BY <1>3, <1>11 DEF Restart, Goto
  <2>2. at'[Main] = "poll" /\ \A t \in Reviewers : at'[t] = at[t]
    BY <1>5, <2>1
  <2>3. QED
    BY <1>4, <1>6, <2>1, <2>2
<1>12. CASE Poll
  <2>1. /\ at[Main] = "poll" /\ at' = [at EXCEPT ![Main] = "build"] /\ file # seen
        /\ UNCHANGED <<file, held, seen, spent>>
    BY <1>12 DEF Poll, Goto, ledger
  <2>2. at'[Main] = "build" /\ \A t \in Reviewers : at'[t] = at[t]
    BY <1>5, <2>1
  <2>3. QED
    BY <1>4, <1>6, <2>1, <2>2
<1>13. CASE Answer
  <2>1. /\ at[Main] = "stream" /\ seen' = taken
        /\ spent' = IF Stale THEN spent \ {held[Main]} ELSE spent
        /\ UNCHANGED <<file, held>>
    BY <1>3, <1>13 DEF Answer, Finished, Excused
  <2>2. /\ at'[Main] = "poll"
        /\ \A t \in Reviewers : at'[t] \in {"send", "stream"} => at'[t] = at[t]
    <3>1. CASE at' = [at EXCEPT ![Main] = "poll"]
      BY <1>5, <3>1
    <3>2. CASE \E t \in Reviewers : at' = [at EXCEPT ![Main] = "poll", ![t] = "build"]
      BY <1>5, <3>2
    <3>3. QED
      BY <1>13, <3>1, <3>2 DEF Answer, Spawn, Goto
  <2>3. QED
    BY <1>4, <2>1, <2>2 DEF Stale
<1>14. CASE RunOnce(Main)
  <2>1. CASE Build(Main)
    <3>1. /\ at[Main] = "build" /\ UNCHANGED <<file, spent>>
          /\ \/ /\ at' = [at EXCEPT ![Main] = "send"]
                /\ held' = [held EXCEPT ![Main] = file.handoff]
             \/ /\ at' = [at EXCEPT ![Main] = "poll"]
                /\ \A t \in Reviewers : held'[t] = held[t]
      BY <1>5, <2>1 DEF Build, Goto, Failed, ledger
    <3>2. QED
      BY <1>4, <1>5, <3>1
  <2>2. CASE Unreachable(Main)
    <3>1. /\ at[Main] = "send" /\ at' = [at EXCEPT ![Main] = "poll"]
          /\ UNCHANGED <<file, held, spent>>
      BY <2>2 DEF Unreachable, Goto, Failed, ledger
    <3>2. QED
      BY <1>4, <1>5, <3>1
  <2>3. CASE Accept(Main)
    <3>1. /\ at[Main] = "send" /\ at' = [at EXCEPT ![Main] = "stream"]
          /\ spent' = spent \cup ({held[Main]} \cap Handoffs)
          /\ UNCHANGED <<file, held>>
      BY <2>3 DEF Accept, Goto
    <3>2. held[Main] <= file.handoff
      BY <3>1 DEF Reading
    <3>3. at'[Main] = "stream" /\ \A t \in Reviewers : at'[t] = at[t]
      BY <1>5, <3>1
    <3>4. QED
      BY <1>4, <3>1, <3>2, <3>3
  <2>4. CASE TurnFails(Main) \/ StreamBreaks(Main)
    <3>1. /\ at[Main] = "stream" /\ spent' = spent \ {held[Main]}
          /\ UNCHANGED <<file, held>>
      BY <1>3, <2>4 DEF TurnFails, StreamBreaks, Excused
    <3>2. /\ at'[Main] \in {"poll", "down"}
          /\ \A t \in Reviewers : at'[t] \in {"send", "stream"} => at'[t] = at[t]
      BY <1>5, <2>4 DEF TurnFails, StreamBreaks, Goto, Failed, Down
    <3>3. QED
      BY <1>4, <3>1, <3>2
  <2>5. QED
    BY <1>14, <2>1, <2>2, <2>3, <2>4 DEF RunOnce
<1>15. ASSUME NEW t \in Reviewers, RunOnce(t) \/ AnswerReview(t)
       PROVE  Accounts'
  <2>1. /\ at'[Main] = at[Main] /\ held'[Main] = held[Main]
        /\ UNCHANGED <<file, seen>>
    BY <1>15, ReviewerAlone
  <2>2. /\ spent' = spent
        /\ \A r \in Reviewers : at'[r] \in {"send", "stream"} => held'[r] = Review
    BY <1>3, <1>15, ReviewerSpends
  <2>3. QED
    BY <1>1, <1>2, <1>4, <2>1, <2>2 DEF Accounts
<1>16. CASE UNCHANGED vars
  BY <1>7, <1>16, <1>4 DEF vars, watch, ledger, Accounts
<1>17. CASE Accounts'
  BY <1>1, <1>3, <1>17 DEF Accounts
<1>18. QED
  BY <1>8, <1>9, <1>10, <1>11, <1>12, <1>13, <1>14, <1>15, <1>16, <1>17
  DEF Next, Watch, Reviewing

\* No handoff is sent again without a reason, for any number of handoffs, review threads
\* and restarts.
THEOREM Once == Spec => []TurnedOnce
<1>1. Init => Ordered /\ Reading /\ Accounts
  BY LostInit, AccountsInit
<1>2. TypeOK /\ Ordered /\ Reading /\ Accounts /\ [Next]_vars
        => (Ordered /\ Reading /\ Accounts)'
  BY OrderedStep, ReadingStep, AccountsStep
<1>3. Accounts => TurnedOnce
  BY DEF Accounts, TurnedOnce
<1>4. QED
  BY TypeCorrect, <1>1, <1>2, <1>3, PTL DEF Spec
=============================================================================
