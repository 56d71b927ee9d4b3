-------------------------- MODULE TurnServerProofs --------------------------
(***************************************************************************)
(* Theorems about TurnServer, for any requests, candidates and bounds.     *)
(* Each invariant is inductive with the named strengthening before it, and *)
(* is shown to survive a step of one request, action by action.            *)
(***************************************************************************)
EXTENDS TurnServer, TLAPS

-----------------------------------------------------------------------------
(* Types *)

\* No request has arrived: every variable has its type.
LEMMA TypeInit == Init => TypeOK
  BY ServerAssumption DEF Init, TypeOK, Place, Streaming, Answering

\* A step of one request keeps every variable in its type.
LEMMA TypeStep ==
  ASSUME TypeOK, NEW r \in Requests, Step(r) \/ Expire(r)
  PROVE  TypeOK'
<1> USE ServerAssumption DEF TypeOK, Place, Streaming, Answering
<1>1. CASE Arrive(r)
  <2>1. statuses' \in [Requests -> Nat]
    BY <1>1 DEF Arrive, Status
  <2>2. at' \in [Requests -> Place] /\ cleared' \in [Requests -> BOOLEAN]
    <3>1. \E place \in Place : Goto(r, place)
      BY <1>1 DEF Arrive
    <3>2. QED
      BY <3>1 DEF Goto
  <2>3. QED
    BY <2>1, <2>2, <1>1 DEF Arrive, effects, Effect
<1>2. CASE Look(r)
  BY <1>2 DEF Look, flow, effects, Goto, Ready, Status, Effect, Resume, Ask
<1>3. CASE Exceeded(r)
  <2>1. statuses' \in [Requests -> Nat]
    BY <1>3 DEF Exceeded, Status
  <2>2. at' \in [Requests -> Place] /\ cleared' \in [Requests -> BOOLEAN]
    <3>1. \E place \in Place : Goto(r, place)
      BY <1>3 DEF Exceeded
    <3>2. QED
      BY <3>1 DEF Goto
  <2>3. QED
    BY <2>1, <2>2, <1>3 DEF Exceeded, effects, Effect
<1>4. CASE Materialize(r)
  <2>1. statuses' \in [Requests -> Nat]
    BY <1>4 DEF Materialize, Status
  <2>2. at' \in [Requests -> Place] /\ cleared' \in [Requests -> BOOLEAN]
    <3>1. \E place \in Place : Goto(r, place)
      BY <1>4 DEF Materialize
    <3>2. QED
      BY <3>1 DEF Goto
  <2>3. QED
    BY <2>1, <2>2, <1>4 DEF Materialize, effects, Effect
<1>5. CASE ReservePlain(r)
  BY <1>5 DEF ReservePlain, flow, effects, Goto, Ready, Status, Effect, Resume, Ask
<1>6. CASE Reserve(r)
  BY <1>6 DEF Reserve, flow, effects, Goto, Ready, Status, Effect, Resume, Ask
<1>7. CASE RefuseCandidate(r)
  BY <1>7 DEF RefuseCandidate, flow, effects, Goto, Ready, Status, Effect, Resume, Ask
<1>8. CASE Issue(r)
  BY <1>8 DEF Issue, flow, effects, Goto, Ready, Status, Effect, Resume, Ask
<1>9. CASE Headers(r)
  <2>1. statuses' \in [Requests -> Nat]
    BY <1>9 DEF Headers, Status
  <2>2. at' \in [Requests -> Place] /\ cleared' \in [Requests -> BOOLEAN]
    <3>1. \E place \in Place : Goto(r, place)
      BY <1>9 DEF Headers
    <3>2. QED
      BY <3>1 DEF Goto
  <2>3. QED
    BY <2>1, <2>2, <1>9 DEF Headers, effects, Effect
<1>10. CASE Claim(r)
  BY <1>10 DEF Claim, flow, effects, Goto, Ready, Status, Effect, Resume, Ask
<1>11. CASE RefusePayload(r)
  <2>1. statuses' \in [Requests -> Nat]
    BY <1>11 DEF RefusePayload, Status
  <2>2. at' \in [Requests -> Place] /\ cleared' \in [Requests -> BOOLEAN]
    <3>1. \E place \in Place : Goto(r, place)
      BY <1>11 DEF RefusePayload
    <3>2. QED
      BY <3>1 DEF Goto
  <2>3. QED
    BY <2>1, <2>2, <1>11 DEF RefusePayload, effects, Effect
<1>12. CASE Emit(r)
  BY <1>12 DEF Emit, flow, effects, Goto, Ready, Status, Effect, Resume, Ask
<1>13. CASE EmitError(r)
  BY <1>13 DEF EmitError, flow, effects, Goto, Ready, Status, Effect, Resume, Ask
<1>14. CASE EndTurn(r)
  BY <1>14 DEF EndTurn, flow, effects, Goto, Ready, Status, Effect, Resume, Ask
<1>15. CASE Leave(r)
  BY <1>15 DEF Leave, flow, effects, Goto, Ready, Status, Effect, Resume, Ask
<1>16. CASE JournalEvent(r)
  BY <1>16 DEF JournalEvent, flow, effects, Goto, Ready, Status, Effect, Resume, Ask
<1>17. CASE Write(r)
  BY <1>17 DEF Write, flow, effects, Goto, Ready, Status, Effect, Resume, Ask
<1>18. CASE WriteFails(r)
  BY <1>18 DEF WriteFails, flow, effects, Goto, Ready, Status, Effect, Resume, Ask
<1>19. CASE WriteMany(r)
  BY <1>19 DEF WriteMany, flow, effects, Goto, Ready, Status, Effect, Resume, Ask
<1>20. CASE SendHead(r)
  BY <1>20 DEF SendHead, flow, effects, Goto, Ready, Status, Effect, Resume, Ask
<1>21. CASE SendBody(r)
  BY <1>21 DEF SendBody, flow, effects, Goto, Ready, Status, Effect, Resume, Ask
<1>22. CASE SendFails(r)
  BY <1>22 DEF SendFails, flow, effects, Goto, Ready, Status, Effect, Resume, Ask
<1>23. CASE Expire(r)
  BY <1>23 DEF Expire, flow, effects, Goto, Ready, Status, Effect, Resume, Ask
<1>24. QED
  BY <1>1, <1>2, <1>3, <1>4, <1>5, <1>6, <1>7, <1>8, <1>9, <1>10, <1>11, <1>12, <1>13, <1>14,
    <1>15, <1>16, <1>17, <1>18, <1>19, <1>20, <1>21, <1>22, <1>23 DEF Step

\* Every reachable state is well typed, with counters and sets that no run bounds.
THEOREM TypeCorrect == Spec => []TypeOK
<1>1. TypeOK /\ [Next]_vars => TypeOK'
  <2> SUFFICES ASSUME TypeOK, [Next]_vars PROVE TypeOK'
    OBVIOUS
  <2>1. CASE Next
    BY <2>1, TypeStep DEF Next
  <2>2. CASE UNCHANGED vars
    BY <2>2 DEF TypeOK, vars, flow, effects
  <2>3. QED
    BY <2>1, <2>2
<1>2. QED
  BY TypeInit, <1>1, PTL DEF Spec

-----------------------------------------------------------------------------
(* Each candidate has one owner: the request that reserved it *)

Early == {"idle", "materialize", "reserve", "issue", "headers", "claim"}
Admitted == {"issue", "headers", "claim", "run", "leave"} \cup Streaming \cup Answering

Holds(r) ==
    asked[r].candidate # Plain /\ (at[r] \in Admitted \/ r \in entered)

Owned ==
    /\ \A r \in Requests : at[r] \in Early => r \notin entered
    /\ \A r \in Requests : Holds(r) => asked[r].candidate \in registry
    /\ \A r, q \in Requests :
          Holds(r) /\ Holds(q) /\ asked[r].candidate = asked[q].candidate => r = q

\* Nothing is admitted at first, so nothing is held.
LEMMA OwnedInit == Init => Owned
  BY DEF Init, Owned, Holds, Admitted, Streaming, Answering

\* Only Reserve makes a holder, of a candidate that had none; only Claim makes a turn.
LEMMA OwnedStep ==
  ASSUME TypeOK, Owned, NEW r \in Requests, Step(r) \/ Expire(r)
  PROVE  Owned'
<1> USE ServerAssumption DEF TypeOK, Owned, Holds, Early, Admitted, Streaming, Answering
<1>1. CASE Arrive(r)
  BY <1>1 DEF Arrive, flow, effects, Goto, Ready, Status, Effect, Resume, Ask, Place
<1>2. CASE Look(r)
  BY <1>2 DEF Look, flow, effects, Goto, Ready, Status, Effect, Resume, Ask, Place
<1>3. CASE Exceeded(r)
  BY <1>3 DEF Exceeded, flow, effects, Goto, Ready, Status, Effect, Resume, Ask, Place
<1>4. CASE Materialize(r)
  BY <1>4 DEF Materialize, flow, effects, Goto, Ready, Status, Effect, Resume, Ask, Place
<1>5. CASE ReservePlain(r)
  BY <1>5 DEF ReservePlain, flow, effects, Goto, Ready, Status, Effect, Resume, Ask, Place
<1>6. CASE Reserve(r)
  BY <1>6 DEF Reserve, flow, effects, Goto, Ready, Status, Effect, Resume, Ask, Place
<1>7. CASE RefuseCandidate(r)
  BY <1>7 DEF RefuseCandidate, flow, effects, Goto, Ready, Status, Effect, Resume, Ask, Place
<1>8. CASE Issue(r)
  BY <1>8 DEF Issue, flow, effects, Goto, Ready, Status, Effect, Resume, Ask, Place
<1>9. CASE Headers(r)
  BY <1>9 DEF Headers, flow, effects, Goto, Ready, Status, Effect, Resume, Ask, Place
<1>10. CASE Claim(r)
  BY <1>10 DEF Claim, flow, effects, Goto, Ready, Status, Effect, Resume, Ask, Place
<1>11. CASE RefusePayload(r)
  BY <1>11 DEF RefusePayload, flow, effects, Goto, Ready, Status, Effect, Resume, Ask, Place
<1>12. CASE Emit(r)
  BY <1>12 DEF Emit, flow, effects, Goto, Ready, Status, Effect, Resume, Ask, Place
<1>13. CASE EmitError(r)
  BY <1>13 DEF EmitError, flow, effects, Goto, Ready, Status, Effect, Resume, Ask, Place
<1>14. CASE EndTurn(r)
  BY <1>14 DEF EndTurn, flow, effects, Goto, Ready, Status, Effect, Resume, Ask, Place
<1>15. CASE Leave(r)
  BY <1>15 DEF Leave, flow, effects, Goto, Ready, Status, Effect, Resume, Ask, Place
<1>16. CASE JournalEvent(r)
  BY <1>16 DEF JournalEvent, flow, effects, Goto, Ready, Status, Effect, Resume, Ask, Place
<1>17. CASE Write(r)
  BY <1>17 DEF Write, flow, effects, Goto, Ready, Status, Effect, Resume, Ask, Place
<1>18. CASE WriteFails(r)
  BY <1>18 DEF WriteFails, flow, effects, Goto, Ready, Status, Effect, Resume, Ask, Place
<1>19. CASE WriteMany(r)
  BY <1>19 DEF WriteMany, flow, effects, Goto, Ready, Status, Effect, Resume, Ask, Place
<1>20. CASE SendHead(r)
  BY <1>20 DEF SendHead, flow, effects, Goto, Ready, Status, Effect, Resume, Ask, Place
<1>21. CASE SendBody(r)
  BY <1>21 DEF SendBody, flow, effects, Goto, Ready, Status, Effect, Resume, Ask, Place
<1>22. CASE SendFails(r)
  BY <1>22 DEF SendFails, flow, effects, Goto, Ready, Status, Effect, Resume, Ask, Place
<1>23. CASE Expire(r)
  BY <1>23 DEF Expire, flow, effects, Goto, Ready, Status, Effect, Resume, Ask, Place
<1>24. QED
  BY <1>1, <1>2, <1>3, <1>4, <1>5, <1>6, <1>7, <1>8, <1>9, <1>10, <1>11, <1>12, <1>13, <1>14,
    <1>15, <1>16, <1>17, <1>18, <1>19, <1>20, <1>21, <1>22, <1>23 DEF Step

\* Reserved candidates keep their one owner in every behaviour.
LEMMA OwnedAlways == Spec => [](TypeOK /\ Owned)
<1>1. TypeOK /\ Owned /\ [Next]_vars => Owned'
  <2> SUFFICES ASSUME TypeOK, Owned, [Next]_vars PROVE Owned'
    OBVIOUS
  <2>1. CASE Next
    BY <2>1, OwnedStep DEF Next
  <2>2. CASE UNCHANGED vars
    BY <2>2 DEF Owned, Holds, vars, flow, effects
  <2>3. QED
    BY <2>1, <2>2
<1>2. QED
  BY TypeCorrect, OwnedInit, <1>1, PTL DEF Spec

\* However the requests for a candidate overlap, the loop is entered for one of them.
THEOREM OneTurn == Spec => []OneTurnPerCandidate
<1>1. TypeOK /\ Owned => OneTurnPerCandidate
  BY DEF TypeOK, Owned, Holds, OneTurnPerCandidate
<1>2. QED
  BY OwnedAlways, <1>1, PTL

-----------------------------------------------------------------------------
(* The server implements CandidateOnce *)

\* The empty registry and no turns: the abstract initial state.
LEMMA OnceInit == Init => Once!Init
  BY DEF Init, Once!Init, Turned

\* Reserve and Claim of a candidate are the steps of CandidateOnce; nothing else moves
\* the registry or the turns.
LEMMA OnceStep ==
  ASSUME TypeOK, Owned, NEW r \in Requests, Step(r) \/ Expire(r)
  PROVE  Once!Next \/ UNCHANGED <<registry, Turned>>
<1>1. CASE Reserve(r)
  <2>1. asked[r].candidate \in Candidates
    BY <1>1 DEF Reserve, TypeOK, Ask
  <2>2. Turned' = Turned
    BY <1>1 DEF Reserve, Turned
  <2>3. Once!Reserve(asked[r].candidate)
    <3>1. Once!Cardinality(registry) = Cardinality(registry)
      BY DEF Once!Cardinality, Cardinality
    <3>2. QED
      BY <2>2, <3>1, <1>1 DEF Reserve, Once!Reserve
  <2>4. QED
    BY <2>1, <2>3 DEF Once!Next
<1>2. CASE Claim(r)
  <2>1. /\ registry' = registry /\ asked' = asked /\ entered' = entered \cup {r}
        /\ at[r] = "claim"
    BY <1>2 DEF Claim, Ready
  <2>2. CASE asked[r].candidate = Plain
    BY <2>1, <2>2 DEF Turned
  <2>3. CASE asked[r].candidate # Plain
    <3>1. Turned' = Turned \cup {asked[r].candidate}
      BY <2>1, <2>3 DEF Turned
    <3>2. Holds(r) /\ r \notin entered
      BY <2>1, <2>3 DEF Holds, Admitted, Owned, Early
    <3>3. asked[r].candidate \in registry
      BY <3>2 DEF Owned
    <3>4. asked[r].candidate \notin Turned
      <4> SUFFICES ASSUME NEW q \in entered, asked[q].candidate = asked[r].candidate
                   PROVE  FALSE
        BY DEF Turned
      <4>1. q \in Requests /\ Holds(q)
        BY <2>3 DEF Holds, TypeOK
      <4>2. QED
        BY <4>1, <3>2 DEF Owned
    <3>5. asked[r].candidate \in Candidates
      BY <3>3 DEF TypeOK
    <3>6. Once!Turn(asked[r].candidate)
      BY <2>1, <3>1, <3>3, <3>4 DEF Once!Turn
    <3>7. QED
      BY <3>5, <3>6 DEF Once!Next
  <2>4. QED
    BY <2>2, <2>3
<1>3. CASE ~Reserve(r) /\ ~Claim(r)
  <2>1. UNCHANGED <<registry, asked, entered>>
    BY <1>3 DEF Step, Expire, Arrive, Look, Exceeded, Materialize, ReservePlain,
       RefuseCandidate, Issue, Headers, RefusePayload, Emit, EmitError, EndTurn, Leave,
       JournalEvent, Write, WriteFails, WriteMany, SendHead, SendBody, SendFails
  <2>2. QED
    BY <2>1 DEF Turned
<1>4. QED
  BY <1>1, <1>2, <1>3

\* For any requests and any capacity the server behaves as the abstract registry: what is
\* reserved stays reserved, within the capacity, and turns once.
THEOREM Refinement == Spec => OnceSpec
<1>1. TypeOK /\ Owned /\ [Next]_vars => [Once!Next]_<<registry, Turned>>
  <2> SUFFICES ASSUME TypeOK, Owned, [Next]_vars
               PROVE  Once!Next \/ UNCHANGED <<registry, Turned>>
    OBVIOUS
  <2>1. CASE Next
    BY <2>1, OnceStep DEF Next
  <2>2. CASE UNCHANGED vars
    BY <2>2 DEF vars, Turned
  <2>3. QED
    BY <2>1, <2>2
<1>2. QED
  BY OwnedAlways, OnceInit, <1>1, PTL DEF Spec, OnceSpec, Once!Spec

-----------------------------------------------------------------------------
(* Late effects *)

\* A look that found time left allows one effect; the look after it finds none.
Punctual ==
    \A r \in Requests :
        /\ lateWrites[r] <= 1
        /\ ~late[r] \/ cleared[r] => lateWrites[r] = 0

\* Nothing was written yet.
LEMMA PunctualInit == Init => Punctual
  BY DEF Init, Punctual

\* An effect needs a look that found time left, and uses it up.
LEMMA PunctualStep ==
  ASSUME TypeOK, Punctual, NEW r \in Requests, Step(r) \/ Expire(r)
  PROVE  Punctual'
<1> USE DEF TypeOK, Punctual
<1>1. CASE Arrive(r)
  BY <1>1 DEF Arrive, flow, effects, Goto, Ready, Status, Effect, Resume, Ask
<1>2. CASE Look(r)
  BY <1>2 DEF Look, flow, effects, Goto, Ready, Status, Effect, Resume, Ask
<1>3. CASE Exceeded(r)
  BY <1>3 DEF Exceeded, flow, effects, Goto, Ready, Status, Effect, Resume, Ask
<1>4. CASE Materialize(r)
  BY <1>4 DEF Materialize, flow, effects, Goto, Ready, Status, Effect, Resume, Ask
<1>5. CASE ReservePlain(r)
  BY <1>5 DEF ReservePlain, flow, effects, Goto, Ready, Status, Effect, Resume, Ask
<1>6. CASE Reserve(r)
  BY <1>6 DEF Reserve, flow, effects, Goto, Ready, Status, Effect, Resume, Ask
<1>7. CASE RefuseCandidate(r)
  BY <1>7 DEF RefuseCandidate, flow, effects, Goto, Ready, Status, Effect, Resume, Ask
<1>8. CASE Issue(r)
  BY <1>8 DEF Issue, flow, effects, Goto, Ready, Status, Effect, Resume, Ask
<1>9. CASE Headers(r)
  BY <1>9 DEF Headers, flow, effects, Goto, Ready, Status, Effect, Resume, Ask
<1>10. CASE Claim(r)
  BY <1>10 DEF Claim, flow, effects, Goto, Ready, Status, Effect, Resume, Ask
<1>11. CASE RefusePayload(r)
  BY <1>11 DEF RefusePayload, flow, effects, Goto, Ready, Status, Effect, Resume, Ask
<1>12. CASE Emit(r)
  BY <1>12 DEF Emit, flow, effects, Goto, Ready, Status, Effect, Resume, Ask
<1>13. CASE EmitError(r)
  BY <1>13 DEF EmitError, flow, effects, Goto, Ready, Status, Effect, Resume, Ask
<1>14. CASE EndTurn(r)
  BY <1>14 DEF EndTurn, flow, effects, Goto, Ready, Status, Effect, Resume, Ask
<1>15. CASE Leave(r)
  BY <1>15 DEF Leave, flow, effects, Goto, Ready, Status, Effect, Resume, Ask
<1>16. CASE JournalEvent(r)
  BY <1>16 DEF JournalEvent, flow, effects, Goto, Ready, Status, Effect, Resume, Ask
<1>17. CASE Write(r)
  BY <1>17 DEF Write, flow, effects, Goto, Ready, Status, Effect, Resume, Ask
<1>18. CASE WriteFails(r)
  BY <1>18 DEF WriteFails, flow, effects, Goto, Ready, Status, Effect, Resume, Ask
<1>19. CASE WriteMany(r)
  BY <1>19 DEF WriteMany, flow, effects, Goto, Ready, Status, Effect, Resume, Ask
<1>20. CASE SendHead(r)
  BY <1>20 DEF SendHead, flow, effects, Goto, Ready, Status, Effect, Resume, Ask
<1>21. CASE SendBody(r)
  BY <1>21 DEF SendBody, flow, effects, Goto, Ready, Status, Effect, Resume, Ask
<1>22. CASE SendFails(r)
  BY <1>22 DEF SendFails, flow, effects, Goto, Ready, Status, Effect, Resume, Ask
<1>23. CASE Expire(r)
  BY <1>23 DEF Expire, flow, effects, Goto, Ready, Status, Effect, Resume, Ask
<1>24. QED
  BY <1>1, <1>2, <1>3, <1>4, <1>5, <1>6, <1>7, <1>8, <1>9, <1>10, <1>11, <1>12, <1>13, <1>14,
    <1>15, <1>16, <1>17, <1>18, <1>19, <1>20, <1>21, <1>22, <1>23 DEF Step

\* After its deadline a turn has one effect left at most, whatever it was doing.
THEOREM OneLateWrite == Spec => []AtMostOneLateWrite
<1>1. TypeOK /\ Punctual /\ [Next]_vars => Punctual'
  <2> SUFFICES ASSUME TypeOK, Punctual, [Next]_vars PROVE Punctual'
    OBVIOUS
  <2>1. CASE Next
    BY <2>1, PunctualStep DEF Next
  <2>2. CASE UNCHANGED vars
    BY <2>2 DEF Punctual, vars, flow, effects
  <2>3. QED
    BY <2>1, <2>2
<1>2. Punctual => AtMostOneLateWrite
  BY DEF Punctual, AtMostOneLateWrite
<1>3. QED
  BY TypeCorrect, PunctualInit, <1>1, <1>2, PTL DEF Spec

-----------------------------------------------------------------------------
(* Status lines *)

\* Who may still answer has sent no status line: a request that was not admitted, and a
\* JSON turn before its headers.
Unanswered ==
    \A r \in Requests :
        /\ statuses[r] <= 1
        /\ at[r] \in {"idle", "materialize", "reserve", "issue", "headers",
                      "write_many", "head"} => statuses[r] = 0
        /\ at[r] \in {"claim", "run", "leave"} /\ ~asked[r].stream => statuses[r] = 0
        /\ at[r] \in Early => r \notin broken
        /\ at[r] = "run" /\ r \in broken => asked[r].stream
        /\ at[r] \in Answering => ~asked[r].stream
        /\ at[r] \in Streaming \cup {"headers"} => asked[r].stream

\* Nobody was answered yet.
LEMMA UnansweredInit == Init => Unanswered
  BY DEF Init, Unanswered, Early, Streaming, Answering

\* Each status line is sent from a place that nobody reaches answered.
LEMMA UnansweredStep ==
  ASSUME TypeOK, Unanswered, NEW r \in Requests, Step(r) \/ Expire(r)
  PROVE  Unanswered'
<1> USE DEF TypeOK, Unanswered, Early, Streaming, Answering
<1>1. CASE Arrive(r)
  BY <1>1 DEF Arrive, flow, effects, Goto, Ready, Status, Effect, Resume, Ask, Place
<1>2. CASE Look(r)
  BY <1>2 DEF Look, flow, effects, Goto, Ready, Status, Effect, Resume, Ask, Place
<1>3. CASE Exceeded(r)
  BY <1>3 DEF Exceeded, flow, effects, Goto, Ready, Status, Effect, Resume, Ask, Place
<1>4. CASE Materialize(r)
  BY <1>4 DEF Materialize, flow, effects, Goto, Ready, Status, Effect, Resume, Ask, Place
<1>5. CASE ReservePlain(r)
  BY <1>5 DEF ReservePlain, flow, effects, Goto, Ready, Status, Effect, Resume, Ask, Place
<1>6. CASE Reserve(r)
  BY <1>6 DEF Reserve, flow, effects, Goto, Ready, Status, Effect, Resume, Ask, Place
<1>7. CASE RefuseCandidate(r)
  BY <1>7 DEF RefuseCandidate, flow, effects, Goto, Ready, Status, Effect, Resume, Ask, Place
<1>8. CASE Issue(r)
  BY <1>8 DEF Issue, flow, effects, Goto, Ready, Status, Effect, Resume, Ask, Place
<1>9. CASE Headers(r)
  <2>1. statuses' = [statuses EXCEPT ![r] = 1] /\ UNCHANGED asked
    <3>1. statuses[r] = 0
      BY <1>9 DEF Headers, Ready
    <3>2. QED
      BY <3>1, <1>9 DEF Headers, Status
  <2>2. CASE at' = [at EXCEPT ![r] = "claim"] /\ UNCHANGED broken
    BY <2>1, <2>2, <1>9 DEF Headers, Ready, Place
  <2>3. CASE at' = [at EXCEPT ![r] = "dropped"] /\ broken' = broken \cup {r}
    BY <2>1, <2>3, <1>9 DEF Headers, Ready, Place
  <2>4. QED
    BY <2>2, <2>3, <1>9 DEF Headers, Goto
<1>10. CASE Claim(r)
  BY <1>10 DEF Claim, flow, effects, Goto, Ready, Status, Effect, Resume, Ask, Place
<1>11. CASE RefusePayload(r)
  BY <1>11 DEF RefusePayload, flow, effects, Goto, Ready, Status, Effect, Resume, Ask, Place
<1>12. CASE Emit(r)
  BY <1>12 DEF Emit, flow, effects, Goto, Ready, Status, Effect, Resume, Ask, Place
<1>13. CASE EmitError(r)
  BY <1>13 DEF EmitError, flow, effects, Goto, Ready, Status, Effect, Resume, Ask, Place
<1>14. CASE EndTurn(r)
  BY <1>14 DEF EndTurn, flow, effects, Goto, Ready, Status, Effect, Resume, Ask, Place
<1>15. CASE Leave(r)
  BY <1>15 DEF Leave, flow, effects, Goto, Ready, Status, Effect, Resume, Ask, Place
<1>16. CASE JournalEvent(r)
  BY <1>16 DEF JournalEvent, flow, effects, Goto, Ready, Status, Effect, Resume, Ask, Place
<1>17. CASE Write(r)
  BY <1>17 DEF Write, flow, effects, Goto, Ready, Status, Effect, Resume, Ask, Place
<1>18. CASE WriteFails(r)
  BY <1>18 DEF WriteFails, flow, effects, Goto, Ready, Status, Effect, Resume, Ask, Place
<1>19. CASE WriteMany(r)
  BY <1>19 DEF WriteMany, flow, effects, Goto, Ready, Status, Effect, Resume, Ask, Place
<1>20. CASE SendHead(r)
  BY <1>20 DEF SendHead, flow, effects, Goto, Ready, Status, Effect, Resume, Ask, Place
<1>21. CASE SendBody(r)
  BY <1>21 DEF SendBody, flow, effects, Goto, Ready, Status, Effect, Resume, Ask, Place
<1>22. CASE SendFails(r)
  BY <1>22 DEF SendFails, flow, effects, Goto, Ready, Status, Effect, Resume, Ask, Place
<1>23. CASE Expire(r)
  BY <1>23 DEF Expire, flow, effects, Goto, Ready, Status, Effect, Resume, Ask, Place
<1>24. QED
  BY <1>1, <1>2, <1>3, <1>4, <1>5, <1>6, <1>7, <1>8, <1>9, <1>10, <1>11, <1>12, <1>13, <1>14,
    <1>15, <1>16, <1>17, <1>18, <1>19, <1>20, <1>21, <1>22, <1>23 DEF Step

\* A begun response is never followed by another status line.
THEOREM OneStatus == Spec => []OneStatusLine
<1>1. TypeOK /\ Unanswered /\ [Next]_vars => Unanswered'
  <2> SUFFICES ASSUME TypeOK, Unanswered, [Next]_vars PROVE Unanswered'
    OBVIOUS
  <2>1. CASE Next
    BY <2>1, UnansweredStep DEF Next
  <2>2. CASE UNCHANGED vars
    BY <2>2 DEF Unanswered, vars, flow, effects
  <2>3. QED
    BY <2>1, <2>2
<1>2. Unanswered => OneStatusLine
  BY DEF Unanswered, OneStatusLine
<1>3. QED
  BY TypeCorrect, UnansweredInit, <1>1, <1>2, PTL DEF Spec
-----------------------------------------------------------------------------
(* A turn whose client is gone *)

\* turn.error is said from a place the turn does not come back to: what fails after it ends
\* the request, and a turn that was not refused a write has not said it.
Silent ==
    \A r \in Requests :
        /\ extra[r] <= 1
        /\ r \notin broken => extra[r] = 0
        /\ at[r] \in Early \cup {"run", "leave"} => extra[r] = 0

\* No client is gone yet.
LEMMA SilentInit == Init => Silent
  BY DEF Init, Silent

\* Only EmitError says more, and only WriteFails leads on from what it said.
LEMMA SilentStep ==
  ASSUME TypeOK, Silent, NEW r \in Requests, Step(r) \/ Expire(r)
  PROVE  Silent'
<1> USE DEF TypeOK, Silent, Early, Streaming, Answering
<1>1. CASE Arrive(r)
  BY <1>1 DEF Arrive, flow, effects, Goto, Ready, Status, Effect, Resume, Ask, Place
<1>2. CASE Look(r)
  BY <1>2 DEF Look, flow, effects, Goto, Ready, Status, Effect, Resume, Ask, Place
<1>3. CASE Exceeded(r)
  BY <1>3 DEF Exceeded, flow, effects, Goto, Ready, Status, Effect, Resume, Ask, Place
<1>4. CASE Materialize(r)
  BY <1>4 DEF Materialize, flow, effects, Goto, Ready, Status, Effect, Resume, Ask, Place
<1>5. CASE ReservePlain(r)
  BY <1>5 DEF ReservePlain, flow, effects, Goto, Ready, Status, Effect, Resume, Ask, Place
<1>6. CASE Reserve(r)
  BY <1>6 DEF Reserve, flow, effects, Goto, Ready, Status, Effect, Resume, Ask, Place
<1>7. CASE RefuseCandidate(r)
  BY <1>7 DEF RefuseCandidate, flow, effects, Goto, Ready, Status, Effect, Resume, Ask, Place
<1>8. CASE Issue(r)
  BY <1>8 DEF Issue, flow, effects, Goto, Ready, Status, Effect, Resume, Ask, Place
<1>9. CASE Headers(r)
  BY <1>9 DEF Headers, flow, effects, Goto, Ready, Status, Effect, Resume, Ask, Place
<1>10. CASE Claim(r)
  BY <1>10 DEF Claim, flow, effects, Goto, Ready, Status, Effect, Resume, Ask, Place
<1>11. CASE RefusePayload(r)
  BY <1>11 DEF RefusePayload, flow, effects, Goto, Ready, Status, Effect, Resume, Ask, Place
<1>12. CASE Emit(r)
  BY <1>12 DEF Emit, flow, effects, Goto, Ready, Status, Effect, Resume, Ask, Place
<1>13. CASE EmitError(r)
  BY <1>13 DEF EmitError, flow, effects, Goto, Ready, Status, Effect, Resume, Ask, Place
<1>14. CASE EndTurn(r)
  BY <1>14 DEF EndTurn, flow, effects, Goto, Ready, Status, Effect, Resume, Ask, Place
<1>15. CASE Leave(r)
  BY <1>15 DEF Leave, flow, effects, Goto, Ready, Status, Effect, Resume, Ask, Place
<1>16. CASE JournalEvent(r)
  BY <1>16 DEF JournalEvent, flow, effects, Goto, Ready, Status, Effect, Resume, Ask, Place
<1>17. CASE Write(r)
  BY <1>17 DEF Write, flow, effects, Goto, Ready, Status, Effect, Resume, Ask, Place
<1>18. CASE WriteFails(r)
  BY <1>18 DEF WriteFails, flow, effects, Goto, Ready, Status, Effect, Resume, Ask, Place
<1>19. CASE WriteMany(r)
  BY <1>19 DEF WriteMany, flow, effects, Goto, Ready, Status, Effect, Resume, Ask, Place
<1>20. CASE SendHead(r)
  BY <1>20 DEF SendHead, flow, effects, Goto, Ready, Status, Effect, Resume, Ask, Place
<1>21. CASE SendBody(r)
  BY <1>21 DEF SendBody, flow, effects, Goto, Ready, Status, Effect, Resume, Ask, Place
<1>22. CASE SendFails(r)
  BY <1>22 DEF SendFails, flow, effects, Goto, Ready, Status, Effect, Resume, Ask, Place
<1>23. CASE Expire(r)
  BY <1>23 DEF Expire, flow, effects, Goto, Ready, Status, Effect, Resume, Ask, Place
<1>24. QED
  BY <1>1, <1>2, <1>3, <1>4, <1>5, <1>6, <1>7, <1>8, <1>9, <1>10, <1>11, <1>12, <1>13, <1>14,
    <1>15, <1>16, <1>17, <1>18, <1>19, <1>20, <1>21, <1>22, <1>23 DEF Step

\* A turn whose client went away says turn.error once, and then nothing.
THEOREM GoneClientStops == Spec => []StopsWhenClientGone
<1>1. TypeOK /\ Silent /\ [Next]_vars => Silent'
  <2> SUFFICES ASSUME TypeOK, Silent, [Next]_vars PROVE Silent'
    OBVIOUS
  <2>1. CASE Next
    BY <2>1, SilentStep DEF Next
  <2>2. CASE UNCHANGED vars
    BY <2>2 DEF Silent, vars, flow, effects
  <2>3. QED
    BY <2>1, <2>2
<1>2. Silent => StopsWhenClientGone
  BY DEF Silent, StopsWhenClientGone
<1>3. QED
  BY TypeCorrect, SilentInit, <1>1, <1>2, PTL DEF Spec

-----------------------------------------------------------------------------
(* The journal is ahead of the client *)

\* Of a stream all events are in the journal but the one about to be written to it; a JSON
\* turn shows nothing before all its events are.
Recorded ==
    \A r \in Requests \ Unjournaled :
        /\ seen[r] \subseteq journal[r]
        /\ at[r] \in Streaming => emitted[r] >= 1
        /\ asked[r].stream => 1..(emitted[r] - 1) \subseteq journal[r]
        /\ asked[r].stream /\ at[r] \in Early \cup {"run", "leave", "id", "event", "data"} =>
             1..emitted[r] \subseteq journal[r]
        /\ ~asked[r].stream /\ at[r] # "done" => seen[r] = {}
        /\ at[r] \in {"head", "body"} => journal[r] = 1..emitted[r]

\* Nothing was said yet.
LEMMA RecordedInit == Init => Recorded
  BY DEF Init, Recorded, Early, Streaming

\* Emit moves a stream to the journal, which every write of the event lies behind.
LEMMA RecordedStep ==
  ASSUME TypeOK, Unanswered, Recorded, NEW r \in Requests, Step(r) \/ Expire(r)
  PROVE  Recorded'
<1> USE DEF TypeOK, Unanswered, Recorded, Early, Streaming, Answering
<1>1. CASE Arrive(r)
  BY <1>1 DEF Arrive, flow, effects, Goto, Ready, Status, Effect, Resume, Ask, Place
<1>2. CASE Look(r)
  BY <1>2 DEF Look, flow, effects, Goto, Ready, Status, Effect, Resume, Ask, Place
<1>3. CASE Exceeded(r)
  BY <1>3 DEF Exceeded, flow, effects, Goto, Ready, Status, Effect, Resume, Ask, Place
<1>4. CASE Materialize(r)
  <2>1. \E place \in {"reserve", "done"} : at' = [at EXCEPT ![r] = place]
    BY <1>4 DEF Materialize, Goto
  <2>2. UNCHANGED <<asked, seen, journal, emitted>> /\ at[r] = "materialize"
    BY <1>4 DEF Materialize, Ready
  <2>3. QED
    BY <2>1, <2>2
<1>5. CASE ReservePlain(r)
  BY <1>5 DEF ReservePlain, flow, effects, Goto, Ready, Status, Effect, Resume, Ask, Place
<1>6. CASE Reserve(r)
  BY <1>6 DEF Reserve, flow, effects, Goto, Ready, Status, Effect, Resume, Ask, Place
<1>7. CASE RefuseCandidate(r)
  BY <1>7 DEF RefuseCandidate, flow, effects, Goto, Ready, Status, Effect, Resume, Ask, Place
<1>8. CASE Issue(r)
  BY <1>8 DEF Issue, flow, effects, Goto, Ready, Status, Effect, Resume, Ask, Place
<1>9. CASE Headers(r)
  BY <1>9 DEF Headers, flow, effects, Goto, Ready, Status, Effect, Resume, Ask, Place
<1>10. CASE Claim(r)
  BY <1>10 DEF Claim, flow, effects, Goto, Ready, Status, Effect, Resume, Ask, Place
<1>11. CASE RefusePayload(r)
  <2>1. UNCHANGED <<asked, seen, journal>> /\ at[r] = "claim"
    BY <1>11 DEF RefusePayload, Ready
  <2>2. CASE asked[r].stream
    <3>1. at' = [at EXCEPT ![r] = "journal"] /\ emitted' = [emitted EXCEPT ![r] = @ + 1]
      BY <1>11, <2>2 DEF RefusePayload, Goto
    <3>2. QED
      BY <2>1, <2>2, <3>1 DEF Ask
  <2>3. CASE ~asked[r].stream
    <3>1. at' = [at EXCEPT ![r] = "done"] /\ UNCHANGED emitted
      BY <1>11, <2>3 DEF RefusePayload, Goto
    <3>2. QED
      BY <2>1, <2>3, <3>1
  <2>4. QED
    BY <2>2, <2>3
<1>12. CASE Emit(r)
  BY <1>12 DEF Emit, flow, effects, Goto, Ready, Status, Effect, Resume, Ask, Place
<1>13. CASE EmitError(r)
  BY <1>13 DEF EmitError, flow, effects, Goto, Ready, Status, Effect, Resume, Ask, Place
<1>14. CASE EndTurn(r)
  BY <1>14 DEF EndTurn, flow, effects, Goto, Ready, Status, Effect, Resume, Ask, Place
<1>15. CASE Leave(r)
  BY <1>15 DEF Leave, flow, effects, Goto, Ready, Status, Effect, Resume, Ask, Place
<1>16. CASE JournalEvent(r)
  BY <1>16 DEF JournalEvent, flow, effects, Goto, Ready, Status, Effect, Resume, Ask, Place
<1>17. CASE Write(r)
  BY <1>17 DEF Write, flow, effects, Goto, Ready, Status, Effect, Resume, Ask, Place
<1>18. CASE WriteFails(r)
  BY <1>18 DEF WriteFails, flow, effects, Goto, Ready, Status, Effect, Resume, Ask, Place
<1>19. CASE WriteMany(r)
  BY <1>19 DEF WriteMany, flow, effects, Goto, Ready, Status, Effect, Resume, Ask, Place
<1>20. CASE SendHead(r)
  BY <1>20 DEF SendHead, flow, effects, Goto, Ready, Status, Effect, Resume, Ask, Place
<1>21. CASE SendBody(r)
  BY <1>21 DEF SendBody, flow, effects, Goto, Ready, Status, Effect, Resume, Ask, Place
<1>22. CASE SendFails(r)
  BY <1>22 DEF SendFails, flow, effects, Goto, Ready, Status, Effect, Resume, Ask, Place
<1>23. CASE Expire(r)
  BY <1>23 DEF Expire, flow, effects, Goto, Ready, Status, Effect, Resume, Ask, Place
<1>24. QED
  BY <1>1, <1>2, <1>3, <1>4, <1>5, <1>6, <1>7, <1>8, <1>9, <1>10, <1>11, <1>12, <1>13, <1>14,
    <1>15, <1>16, <1>17, <1>18, <1>19, <1>20, <1>21, <1>22, <1>23 DEF Step

\* Whatever a client of either route has seen whole is in the journal before.
THEOREM JournalFirst == Spec => []SeenIsJournaled
<1>1. TypeOK /\ Unanswered /\ [Next]_vars => Unanswered'
  <2> SUFFICES ASSUME TypeOK, Unanswered, [Next]_vars PROVE Unanswered'
    OBVIOUS
  <2>1. CASE Next
    BY <2>1, UnansweredStep DEF Next
  <2>2. CASE UNCHANGED vars
    BY <2>2 DEF Unanswered, vars, flow, effects
  <2>3. QED
    BY <2>1, <2>2
<1>2. TypeOK /\ Unanswered /\ Recorded /\ [Next]_vars => Recorded'
  <2> SUFFICES ASSUME TypeOK, Unanswered, Recorded, [Next]_vars PROVE Recorded'
    OBVIOUS
  <2>1. CASE Next
    BY <2>1, RecordedStep DEF Next
  <2>2. CASE UNCHANGED vars
    BY <2>2 DEF Recorded, vars, flow, effects
  <2>3. QED
    BY <2>1, <2>2
<1>3. TypeOK /\ Recorded => SeenIsJournaled
  BY DEF TypeOK, Recorded, SeenIsJournaled, Streaming
<1>4. QED
  BY TypeCorrect, UnansweredInit, RecordedInit, <1>1, <1>2, <1>3, PTL DEF Spec
=============================================================================
