-------------------------- MODULE SpeechForwarder --------------------------
(***************************************************************************)
(* The speech forwarder of the handoff watcher: while a turn streams in,   *)
(* every speech delta is handed to an AsyncJsonPostWorker, whose thread    *)
(* posts it to the tts service over a bounded queue, so that a slow or     *)
(* dead service never holds up the turn.  Each turn has a forwarder of its *)
(* own and closes it before the watcher goes on to the next.               *)
(*                                                                         *)
(* A worker is never killed: one that does not stop in time lives on and   *)
(* may still speak during a later turn.                                    *)
(*                                                                         *)
(* A definition named ...Bug is the one after it with a plausible mistake  *)
(* in it; no specification uses it.                                        *)
(***************************************************************************)
EXTENDS Integers, Sequences, FiniteSets

CONSTANTS
    QueueSize, \* queue_size of a worker
    MaxTurns,  \* bound: turns the watcher sends
    MaxDeltas, \* bound: chunks after which each turn has no further delta
    Poison     \* None on the queue: the worker is to stop

ASSUME ForwarderAssumption ==
    /\ QueueSize \in Nat \ {0}
    /\ MaxTurns \in Nat /\ MaxDeltas \in [1..MaxTurns -> Nat]
    /\ Poison \notin Nat

Turns == 1..MaxTurns

VARIABLES
    current,    \* the turn of the watcher, 0 before the first
    pc,         \* where run_once is
    offered,    \* chunks each turn has offered to its worker: the n-th is the number n
    finals,     \* those that were marked final
    answered,   \* the stream of the turn has ended with an answer
    queue,      \* the queue of each worker
    worker,     \* its thread: not started, waiting, posting, stopped or dead
    body,       \* the chunk it is posting
    delivered,  \* chunks the tts service received, in its order
    complaints, \* the chunks on_error was called for
    overdue     \* the workers it was called for, since they did not stop in time

main == <<current, pc, answered>>
chunks == <<offered, finals>>
threads == <<queue, worker, body, delivered>>
reports == <<complaints, overdue>>
vars == <<main, chunks, threads, reports>>

Init ==
    /\ current = 0
    /\ pc = "idle"
    /\ offered = [k \in Turns |-> 0]
    /\ finals = [k \in Turns |-> {}]
    /\ answered = [k \in Turns |-> FALSE]
    /\ queue = [k \in Turns |-> <<>>]
    /\ worker = [k \in Turns |-> "none"]
    /\ body = [k \in Turns |-> 0]
    /\ delivered = <<>>
    /\ complaints = [k \in Turns |-> {}]
    /\ overdue = {}

Goto(from, to) == pc = from /\ pc' = to

Complain(k, chunk) == complaints' = [complaints EXCEPT ![k] = @ \cup {chunk}]

-----------------------------------------------------------------------------
(* run_once and the forwarder, on the thread of the watcher *)

\* The next turn, with a forwarder and the thread of its worker.
StartTurn ==
    /\ current < MaxTurns
    /\ Goto("idle", "streaming")
    /\ current' = current + 1
    /\ worker' = [worker EXCEPT ![current'] = "waiting"]
    /\ UNCHANGED <<answered, chunks, queue, body, delivered, reports>>

\* AsyncJsonPostWorker.post: put_nowait, and what does not fit is dropped with a complaint.
OfferSilentBug(k, final) ==
    LET n == offered[k] + 1
    IN  /\ offered' = [offered EXCEPT ![k] = n]
        /\ finals' = IF final THEN [finals EXCEPT ![k] = @ \cup {n}] ELSE finals
        /\ queue' = IF Len(queue[k]) < QueueSize
                    THEN [queue EXCEPT ![k] = Append(@, n)] ELSE queue
        /\ UNCHANGED <<reports, worker, body, delivered>>

Offer(k, final) ==
    LET n == offered[k] + 1
    IN  /\ offered' = [offered EXCEPT ![k] = n]
        /\ finals' = IF final THEN [finals EXCEPT ![k] = @ \cup {n}] ELSE finals
        /\ \/ /\ Len(queue[k]) < QueueSize
              /\ queue' = [queue EXCEPT ![k] = Append(@, n)]
              /\ UNCHANGED complaints
           \/ /\ Len(queue[k]) = QueueSize
              /\ Complain(k, n)
              /\ UNCHANGED queue
        /\ UNCHANGED <<worker, body, delivered, overdue>>

\* assistant.speech_delta
SpeechDelta ==
    /\ pc = "streaming"
    /\ offered[current] < MaxDeltas[current]
    /\ Offer(current, FALSE)
    /\ UNCHANGED main

\* turn.completed: the final chunk, once.
Completed ==
    /\ pc = "streaming"
    /\ finals[current] = {}
    /\ Offer(current, TRUE)
    /\ UNCHANGED main

\* The stream ends with an answer ...
StreamEnds ==
    /\ Goto("streaming", "finishing")
    /\ answered' = [answered EXCEPT ![current] = TRUE]
    /\ UNCHANGED <<current, chunks, threads, reports>>

\* ... or with an exception, or the turn was skipped or is a dry run: no final chunk.
StreamRaises ==
    /\ Goto("streaming", "closing")
    /\ UNCHANGED <<current, answered, chunks, threads, reports>>

\* finish: an answer without turn.completed gets its final chunk here.
Finish ==
    /\ Goto("finishing", "closing")
    /\ \/ finals[current] = {} /\ Offer(current, TRUE)
       \/ /\ finals[current] # {}
          /\ UNCHANGED <<chunks, threads, reports>>
    /\ UNCHANGED <<current, answered>>

\* close: the poison goes to the end of the queue, behind every chunk.
PutPoison ==
    /\ Goto("closing", "joining")
    /\ Len(queue[current]) < QueueSize
    /\ queue' = [queue EXCEPT ![current] = Append(@, Poison)]
    /\ UNCHANGED <<current, answered, chunks, worker, body, delivered, reports>>

\* The queue stays full for the timeout: the worker is left without a poison.
PoisonTimesOutBug == FALSE /\ UNCHANGED vars

PoisonTimesOut ==
    /\ Goto("closing", "idle")
    /\ Len(queue[current]) = QueueSize
    /\ overdue' = overdue \cup {current}
    /\ UNCHANGED <<current, answered, chunks, threads, complaints>>

Join ==
    /\ Goto("joining", "idle")
    /\ worker[current] \in {"stopped", "dead"}
    /\ UNCHANGED <<current, answered, chunks, threads, reports>>

\* The wait allows a timeout for each chunk, but the timeout of urlopen is one of each
\* socket operation: a service that trickles its answer takes longer.
JoinSilentBug ==
    /\ Goto("joining", "idle")
    /\ worker[current] \in {"waiting", "posting"}
    /\ UNCHANGED <<current, answered, chunks, threads, reports>>

JoinTimesOut ==
    /\ Goto("joining", "idle")
    /\ worker[current] \in {"waiting", "posting"}
    /\ overdue' = overdue \cup {current}
    /\ UNCHANGED <<current, answered, chunks, threads, complaints>>

-----------------------------------------------------------------------------
(* The thread of a worker *)

Get(k) ==
    /\ worker[k] = "waiting"
    /\ queue[k] # <<>>
    /\ queue' = [queue EXCEPT ![k] = Tail(@)]
    /\ \/ /\ Head(queue[k]) = Poison
          /\ worker' = [worker EXCEPT ![k] = "stopped"]
          /\ UNCHANGED body
       \/ /\ Head(queue[k]) # Poison
          /\ worker' = [worker EXCEPT ![k] = "posting"]
          /\ body' = [body EXCEPT ![k] = Head(queue[k])]
    /\ UNCHANGED <<main, chunks, delivered, reports>>

Received(k) == delivered' = Append(delivered, [turn |-> k, chunk |-> body[k]])

Posted(k) ==
    /\ worker[k] = "posting"
    /\ Received(k)
    /\ worker' = [worker EXCEPT ![k] = "waiting"]
    /\ UNCHANGED <<main, chunks, queue, body, reports>>

\* HTTPError, URLError, TimeoutError, OSError: the service may have received the chunk.
PostFailsRequeueBug(k) ==
    /\ worker[k] = "posting"
    /\ Received(k) \/ UNCHANGED delivered
    /\ Complain(k, body[k])
    /\ queue' = IF Len(queue[k]) < QueueSize
                THEN [queue EXCEPT ![k] = Append(@, body[k])] ELSE queue
    /\ worker' = [worker EXCEPT ![k] = "waiting"]
    /\ UNCHANGED <<main, chunks, body, overdue>>

PostFails(k) ==
    /\ worker[k] = "posting"
    /\ Received(k) \/ UNCHANGED delivered
    /\ Complain(k, body[k])
    /\ worker' = [worker EXCEPT ![k] = "waiting"]
    /\ UNCHANGED <<main, chunks, queue, body, overdue>>

\* Any other exception (an HTTPException of a broken answer) ends the thread in silence.
PostDies(k) ==
    /\ worker[k] = "posting"
    /\ Received(k) \/ UNCHANGED delivered
    /\ worker' = [worker EXCEPT ![k] = "dead"]
    /\ UNCHANGED <<main, chunks, queue, body, reports>>

RunOnce ==
    \/ SpeechDelta \/ Completed \/ StreamEnds \/ StreamRaises \/ Finish
    \/ PutPoison \/ PoisonTimesOut \/ Join \/ JoinTimesOut

Worker(k) == Get(k) \/ Posted(k) \/ PostFails(k) \/ PostDies(k)

Next == StartTurn \/ RunOnce \/ \E k \in Turns : Worker(k)

Spec == Init /\ [][Next]_vars

\* The thread of the watcher is scheduled, and every wait of it has a timeout: those of
\* the stream, of the put and of the join.  Nothing is assumed of the workers.
FairSpec == Spec /\ WF_vars(RunOnce)

-----------------------------------------------------------------------------
(* What a forwarder promises *)

TypeOK ==
    /\ current \in 0..MaxTurns
    /\ pc \in {"idle", "streaming", "finishing", "closing", "joining"}
    /\ pc # "idle" => current \in Turns
    /\ offered \in [Turns -> Nat]
    /\ finals \in [Turns -> SUBSET Nat]
    /\ answered \in [Turns -> BOOLEAN]
    /\ queue \in [Turns -> Seq(Nat \cup {Poison})]
    /\ worker \in [Turns -> {"none", "waiting", "posting", "stopped", "dead"}]
    /\ body \in [Turns -> Nat]
    /\ delivered \in Seq([turn : Turns, chunk : Nat])
    /\ complaints \in [Turns -> SUBSET Nat]
    /\ overdue \subseteq Turns

\* The service hears the chunks of a turn in their order and each once, although posts
\* fail, chunks are dropped and the worker outlives its turn.
InOrder == \A i, j \in 1..Len(delivered) :
    i < j /\ delivered[i].turn = delivered[j].turn => delivered[i].chunk < delivered[j].chunk

\* A worker that was told to stop has lost nothing in silence: each chunk was received or
\* complained about.
Accounted == \A k \in Turns : worker[k] = "stopped" =>
    \A n \in 1..offered[k] :
        \/ n \in complaints[k]
        \/ \E i \in 1..Len(delivered) : delivered[i] = [turn |-> k, chunk |-> n]

\* A turn speaks after the turns before it: an older worker that still speaks was reported.
SpeechInTurnOrder == \A i, j \in 1..Len(delivered) :
    i < j /\ delivered[i].turn > delivered[j].turn =>
        delivered[j].turn \in overdue

\* Whatever the service does, the watcher gets through a turn.
TurnPasses == pc = "streaming" ~> pc = "idle"
=============================================================================
