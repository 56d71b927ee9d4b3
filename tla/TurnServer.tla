---------------------------- MODULE TurnServer ----------------------------
(***************************************************************************)
(* POST /turn and POST /turn/stream of the thought-core service: the       *)
(* admission of a request, the replay registry for accepted speech, the    *)
(* deadline that travels with the turn, the journal and the response.      *)
(*                                                                         *)
(* Every request has a thread of its own.  A deadline is looked at before  *)
(* every effect, and an effect is a step of its own after the look, so the *)
(* deadline may pass in between: cleared says that the look before the     *)
(* next effect is over.  Looks with no effect between them are one look.   *)
(*                                                                         *)
(* A definition named ...Bug is the one after it with a plausible mistake  *)
(* in it; no specification uses it.                                        *)
(***************************************************************************)
EXTENDS Integers, FiniteSets

CONSTANTS
    Requests,        \* turn requests the server is sent while it lives
    Candidates,      \* refs of accepted speech candidates
    Plain,           \* no candidate: the payload is the turn
    Asks,            \* what the requests of an instance may ask for
    MaxReservations, \* MAX_ACCEPTED_CANDIDATE_RESERVATIONS
    MaxEvents,       \* bound: events of one turn, turn.error not counted
    MayBreak,        \* may clients go away?
    Unjournaled      \* requests whose journal writes may raise OSError

\* What a request asks for: its candidate, how it wants the events, a deadline header.
Ask == [candidate : Candidates \cup {Plain}, stream : BOOLEAN, deadline : BOOLEAN]

ASSUME ServerAssumption ==
    /\ Plain \notin Candidates
    /\ Asks \subseteq Ask
    /\ MaxReservations \in Nat
    /\ MaxEvents \in Nat
    /\ MayBreak \in BOOLEAN
    /\ Unjournaled \subseteq Requests

Streaming == {"journal", "id", "event", "data"}
Answering == {"write_many", "head", "body"}
Place == {"idle", "materialize", "reserve", "issue", "headers", "claim", "run", "leave",
          "done", "dropped"} \cup Streaming \cup Answering

VARIABLES
    asked,      \* what each request asks for
    at,         \* where its handler is
    cleared,    \* the deadline was looked at before the next effect
    late,       \* its deadline has passed
    registry,   \* fingerprints of the candidates the server accepted
    entered,    \* requests whose turn the loop began
    emitted,    \* events its loop appended
    journal,    \* which of them the journal holds
    seen,       \* which of them the client received whole
    broken,     \* a write to its client has failed
    statuses,   \* status lines sent to it
    lateWrites, \* effects that began after its deadline had passed
    extra       \* events appended after a write had failed

flow == <<at, cleared>>
effects == <<journal, seen, statuses, lateWrites>>
vars == <<asked, flow, late, registry, entered, emitted, effects, broken, extra>>

Init ==
    /\ asked \in [Requests -> Asks]
    /\ at = [r \in Requests |-> "idle"]
    /\ cleared = [r \in Requests |-> FALSE]
    /\ late = [r \in Requests |-> FALSE]
    /\ registry = {}
    /\ entered = {}
    /\ emitted = [r \in Requests |-> 0]
    /\ journal = [r \in Requests |-> {}]
    /\ seen = [r \in Requests |-> {}]
    /\ broken = {}
    /\ statuses = [r \in Requests |-> 0]
    /\ lateWrites = [r \in Requests |-> 0]
    /\ extra = [r \in Requests |-> 0]

\* The next place of a handler; it looks at the deadline again before it acts there.
Goto(r, place) ==
    /\ at' = [at EXCEPT ![r] = place]
    /\ cleared' = [cleared EXCEPT ![r] = FALSE]

Ready(r, place) == at[r] = place /\ cleared[r]

\* Each look at the clock may be the first to find the deadline passed.
Expire(r) ==
    /\ asked[r].deadline /\ ~late[r]
    /\ at[r] \notin {"done", "dropped"}
    /\ late' = [late EXCEPT ![r] = TRUE]
    /\ UNCHANGED <<asked, flow, registry, entered, emitted, effects, broken, extra>>

\* send_response: one more status line for this request.
Status(r) == statuses' = [statuses EXCEPT ![r] = @ + 1]

Effect(r) == lateWrites' = [lateWrites EXCEPT ![r] = @ + (IF late[r] THEN 1 ELSE 0)]

-----------------------------------------------------------------------------
(* The deadline *)

\* _parse_route_deadline_header, and whatever else refuses a request before its handler.
Arrive(r) ==
    /\ at[r] = "idle"
    /\ \/ Goto(r, "materialize") /\ UNCHANGED statuses
       \/ Goto(r, "done") /\ Status(r)
    /\ UNCHANGED <<asked, late, registry, entered, emitted,
                   journal, seen, lateWrites, broken, extra>>

Look(r) ==
    /\ at[r] \notin {"idle", "done", "dropped"}
    /\ ~cleared[r] /\ ~late[r]
    /\ cleared' = [cleared EXCEPT ![r] = TRUE]
    /\ UNCHANGED <<asked, at, late, registry, entered, emitted, effects, broken, extra>>

\* turn_deadline_expired or _exceeded is answered 408 as long as no response was begun
\* and the loop has not returned; after that the exception leaves the handler, and the
\* connection closes on a client that got nothing, or no body.
Exceeded(r) ==
    /\ at[r] \notin {"idle", "done", "dropped"}
    /\ ~cleared[r] /\ late[r]
    /\ IF at[r] \in Answering
       THEN Goto(r, "dropped") /\ UNCHANGED statuses
       ELSE /\ Goto(r, "done")
            /\ IF statuses[r] = 0 THEN Status(r) ELSE UNCHANGED statuses
    /\ UNCHANGED <<asked, late, registry, entered, emitted,
                   journal, seen, lateWrites, broken, extra>>

-----------------------------------------------------------------------------
(* Admission *)

\* An envelope that does not validate is answered 400 before anything is reserved.
Materialize(r) ==
    /\ Ready(r, "materialize")
    /\ \/ Goto(r, "reserve") /\ UNCHANGED statuses
       \/ Goto(r, "done") /\ Status(r)
    /\ UNCHANGED <<asked, late, registry, entered, emitted,
                   journal, seen, lateWrites, broken, extra>>

ReservePlain(r) ==
    /\ Ready(r, "reserve")
    /\ asked[r].candidate = Plain
    /\ Goto(r, "issue")
    /\ UNCHANGED <<asked, late, registry, entered, emitted, effects, broken, extra>>

\* The lock makes the look at the set and the addition one step.
ReserveOneTooManyBug(r) ==
    /\ Ready(r, "reserve")
    /\ asked[r].candidate \notin registry \cup {Plain}
    /\ Cardinality(registry) <= MaxReservations
    /\ registry' = registry \cup {asked[r].candidate}
    /\ Goto(r, "issue")
    /\ UNCHANGED <<asked, late, entered, emitted, effects, broken, extra>>

Reserve(r) ==
    /\ Ready(r, "reserve")
    /\ asked[r].candidate \notin registry \cup {Plain}
    /\ Cardinality(registry) < MaxReservations
    /\ registry' = registry \cup {asked[r].candidate}
    /\ Goto(r, "issue")
    /\ UNCHANGED <<asked, late, entered, emitted, effects, broken, extra>>

\* 409 for a candidate that is there already, 503 for a full registry.
RefuseCandidate(r) ==
    /\ Ready(r, "reserve")
    /\ asked[r].candidate # Plain
    /\ asked[r].candidate \in registry \/ Cardinality(registry) >= MaxReservations
    /\ Goto(r, "done")
    /\ Status(r)
    /\ UNCHANGED <<asked, late, registry, entered, emitted,
                   journal, seen, lateWrites, broken, extra>>

\* The key of the deadline token is read off a TurnInput; a plain payload is a dict and
\* has no such attributes, so with a deadline its handler raises AttributeError.
Issue(r) ==
    /\ Ready(r, "issue")
    /\ Goto(r, IF asked[r].deadline /\ asked[r].candidate = Plain THEN "dropped"
               ELSE IF asked[r].stream THEN "headers" ELSE "claim")
    /\ UNCHANGED <<asked, late, registry, entered, emitted, effects, broken, extra>>

-----------------------------------------------------------------------------
(* The turn *)

\* The response of a stream begins before its turn does.
Headers(r) ==
    /\ Ready(r, "headers")
    /\ Status(r)
    /\ Effect(r)
    /\ \/ Goto(r, "claim") /\ UNCHANGED broken
       \/ MayBreak /\ Goto(r, "dropped") /\ broken' = broken \cup {r}
    /\ UNCHANGED <<asked, late, registry, entered, emitted, journal, seen, extra>>

\* execution_deadline_scope claims the token, which no other turn has; TurnInput.from_mapping
\* refuses a plain payload that is no turn with ValueError, before the loop has done anything.
Claim(r) ==
    /\ Ready(r, "claim")
    /\ Goto(r, "run")
    /\ entered' = entered \cup {r}
    /\ UNCHANGED <<asked, late, registry, emitted, effects, broken, extra>>

\* For a stream the refusal is an event, which is not of the loop: evt_bad_request.
RefusePayload(r) ==
    /\ Ready(r, "claim")
    /\ asked[r].candidate = Plain
    /\ IF asked[r].stream
       THEN /\ Goto(r, "journal")
            /\ emitted' = [emitted EXCEPT ![r] = @ + 1]
            /\ UNCHANGED statuses
       ELSE /\ Goto(r, "done")
            /\ Status(r)
            /\ UNCHANGED emitted
    /\ UNCHANGED <<asked, late, registry, entered, journal, seen, lateWrites, broken, extra>>

\* _EventBuffer.append: for a stream the sink is called, for JSON the list grows.
\* After a failed write the loop has one thing left to say: turn.error.
Emit(r) ==
    /\ Ready(r, "run")
    /\ r \notin broken /\ emitted[r] < MaxEvents
    /\ emitted' = [emitted EXCEPT ![r] = @ + 1]
    /\ Goto(r, IF asked[r].stream THEN "journal" ELSE "run")
    /\ UNCHANGED <<asked, late, registry, entered, effects, broken, extra>>

EmitErrorUnjournaledBug(r) ==
    /\ Ready(r, "run")
    /\ r \in broken
    /\ emitted' = [emitted EXCEPT ![r] = @ + 1]
    /\ extra' = [extra EXCEPT ![r] = @ + 1]
    /\ Goto(r, "id")
    /\ UNCHANGED <<asked, late, registry, entered, effects, broken>>

EmitError(r) ==
    /\ Ready(r, "run")
    /\ r \in broken
    /\ emitted' = [emitted EXCEPT ![r] = @ + 1]
    /\ extra' = [extra EXCEPT ![r] = @ + 1]
    /\ Goto(r, "journal")
    /\ UNCHANGED <<asked, late, registry, entered, effects, broken>>

EndTurn(r) ==
    /\ Ready(r, "run")
    /\ r \notin broken
    /\ Goto(r, "leave")
    /\ UNCHANGED <<asked, late, registry, entered, emitted, effects, broken, extra>>

\* The scope looks at the deadline once more on the way out.
Leave(r) ==
    /\ Ready(r, "leave")
    /\ Goto(r, IF asked[r].stream THEN "done" ELSE "write_many")
    /\ UNCHANGED <<asked, late, registry, entered, emitted, effects, broken, extra>>

-----------------------------------------------------------------------------
(* The event stream: journal first, then three writes to the client *)

JournalEvent(r) ==
    /\ Ready(r, "journal")
    /\ Effect(r)
    /\ journal' \in {[journal EXCEPT ![r] = @ \cup {emitted[r]}]} \cup
                    (IF r \in Unjournaled THEN {journal} ELSE {})
    /\ Goto(r, "id")
    /\ UNCHANGED <<asked, late, registry, entered, emitted, seen, statuses, broken, extra>>

\* evt_bad_request comes from the server, after the loop is done with the payload.
Resume(r) == IF r \in entered THEN "run" ELSE "done"

WriteUncheckedBug(r) ==
    /\ at[r] \in {"id", "event", "data"} /\ (cleared[r] \/ at[r] = "event")
    /\ r \notin broken
    /\ Effect(r)
    /\ Goto(r, CASE at[r] = "id" -> "event" [] at[r] = "event" -> "data"
                 [] at[r] = "data" -> Resume(r))
    /\ seen' = IF at[r] = "data" THEN [seen EXCEPT ![r] = @ \cup {emitted[r]}] ELSE seen
    /\ UNCHANGED <<asked, late, registry, entered, emitted, journal, statuses, broken, extra>>

Write(r) ==
    /\ at[r] \in {"id", "event", "data"} /\ cleared[r]
    /\ r \notin broken
    /\ Effect(r)
    /\ Goto(r, CASE at[r] = "id" -> "event" [] at[r] = "event" -> "data"
                 [] at[r] = "data" -> Resume(r))
    /\ seen' = IF at[r] = "data" THEN [seen EXCEPT ![r] = @ \cup {emitted[r]}] ELSE seen
    /\ UNCHANGED <<asked, late, registry, entered, emitted, journal, statuses, broken, extra>>

\* A failed write is an exception inside the loop, which answers it with turn.error.  When
\* the write of that fails too, the server cancels the token of this turn and returns.
SwallowFailureBug(r) ==
    /\ MayBreak
    /\ at[r] \in {"id", "event", "data"} /\ cleared[r]
    /\ broken' = broken \cup {r}
    /\ Goto(r, "run")
    /\ UNCHANGED <<asked, late, registry, entered, emitted, effects, extra>>

WriteFails(r) ==
    /\ MayBreak
    /\ at[r] \in {"id", "event", "data"} /\ cleared[r]
    /\ broken' = broken \cup {r}
    /\ Goto(r, IF r \notin entered THEN "dropped" ELSE IF r \in broken THEN "done" ELSE "run")
    /\ UNCHANGED <<asked, late, registry, entered, emitted, effects, extra>>

-----------------------------------------------------------------------------
(* The JSON response: the journal, the headers, the body *)

\* write_many stops at the first event that it cannot write.
WriteMany(r) ==
    /\ Ready(r, "write_many")
    /\ Effect(r)
    /\ \E n \in 0..emitted[r] :
          /\ r \in Unjournaled \/ n = emitted[r]
          /\ journal' = [journal EXCEPT ![r] = 1..n]
    /\ Goto(r, "head")
    /\ UNCHANGED <<asked, late, registry, entered, emitted, seen, statuses, broken, extra>>

SendHead(r) ==
    /\ Ready(r, "head")
    /\ Status(r)
    /\ Effect(r)
    /\ Goto(r, "body")
    /\ UNCHANGED <<asked, late, registry, entered, emitted, journal, seen, broken, extra>>

SendBody(r) ==
    /\ Ready(r, "body")
    /\ Effect(r)
    /\ seen' = [seen EXCEPT ![r] = 1..emitted[r]]
    /\ Goto(r, "done")
    /\ UNCHANGED <<asked, late, registry, entered, emitted, journal, statuses, broken, extra>>

\* The client of a JSON turn went away: the exception leaves the handler.
SendFails(r) ==
    /\ MayBreak
    /\ at[r] \in {"head", "body"} /\ cleared[r]
    /\ broken' = broken \cup {r}
    /\ Goto(r, "dropped")
    /\ UNCHANGED <<asked, late, registry, entered, emitted, effects, extra>>

Step(r) ==
    \/ Arrive(r) \/ Look(r) \/ Exceeded(r)
    \/ Materialize(r) \/ ReservePlain(r) \/ Reserve(r) \/ RefuseCandidate(r) \/ Issue(r)
    \/ Headers(r) \/ Claim(r) \/ RefusePayload(r)
    \/ Emit(r) \/ EmitError(r) \/ EndTurn(r) \/ Leave(r)
    \/ JournalEvent(r) \/ Write(r) \/ WriteFails(r)
    \/ WriteMany(r) \/ SendHead(r) \/ SendBody(r) \/ SendFails(r)

Next == \E r \in Requests : Step(r) \/ Expire(r)

Spec == Init /\ [][Next]_vars

-----------------------------------------------------------------------------
(* What the server promises *)

TypeOK ==
    /\ asked \in [Requests -> Ask]
    /\ at \in [Requests -> Place]
    /\ cleared \in [Requests -> BOOLEAN]
    /\ late \in [Requests -> BOOLEAN]
    /\ registry \subseteq Candidates
    /\ entered \subseteq Requests
    /\ emitted \in [Requests -> Nat]
    /\ journal \in [Requests -> SUBSET Nat]
    /\ seen \in [Requests -> SUBSET Nat]
    /\ broken \subseteq Requests
    /\ statuses \in [Requests -> Nat]
    /\ lateWrites \in [Requests -> Nat]
    /\ extra \in [Requests -> Nat]

\* Accepted speech becomes one turn: of all the requests that carry a candidate, over
\* either route and however they overlap, the loop is entered for one at most.
OneTurnPerCandidate ==
    \A r, q \in entered :
        asked[r].candidate = asked[q].candidate => r = q \/ asked[r].candidate = Plain

\* The registry and the turns it lets through behave as CandidateOnce says.
Turned == {asked[r].candidate : r \in entered} \ {Plain}
Once == INSTANCE CandidateOnce WITH reserved <- registry, turned <- Turned
OnceSpec == Once!Spec

\* A turn whose deadline has passed has one effect left at most, the one it was about to
\* have: no second journal entry, no second piece of an event, no header and then a body.
AtMostOneLateWrite == \A r \in Requests : lateWrites[r] <= 1

\* Whatever a client has seen whole is in the journal, unless the journal could not be
\* written: also the turn.error of a turn whose client went away, and a refused payload.
SeenIsJournaled == \A r \in Requests \ Unjournaled :
    /\ seen[r] \subseteq journal[r]
    /\ asked[r].stream => 1..(emitted[r] - 1) \subseteq journal[r]
    /\ asked[r].stream /\ at[r] \in {"id", "event", "data"} => emitted[r] \in journal[r]

\* No request is sent a second status line, whatever fails after the first one.
OneStatusLine == \A r \in Requests : statuses[r] <= 1

\* A turn whose client went away says one thing more, turn.error, and stops.
StopsWhenClientGone == \A r \in Requests : extra[r] <= 1
=============================================================================
