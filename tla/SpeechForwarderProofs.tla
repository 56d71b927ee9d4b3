----------------------- MODULE SpeechForwarderProofs -----------------------
(***************************************************************************)
(* Theorems about SpeechForwarder, for any number of turns, deltas and     *)
(* places in a queue, and a service that answers as it likes: the chunks   *)
(* of a turn are heard in order and once, those that are not heard were    *)
(* complained about, and who speaks out of turn was reported.              *)
(***************************************************************************)
EXTENDS SpeechForwarder, SequenceTheorems, TLAPS

-----------------------------------------------------------------------------
(* The invariant *)

\* What was received, what is being posted and what waits in the queue of a turn follow one
\* another in the order they were offered in, and the poison comes last.
Ordered(k) ==
    /\ body[k] <= offered[k]
    /\ \A i \in 1..Len(queue[k]) :
         queue[k][i] # Poison => body[k] < queue[k][i] /\ queue[k][i] <= offered[k]
    /\ \A i, j \in 1..Len(queue[k]) : i < j =>
         queue[k][i] # Poison /\ (queue[k][j] # Poison => queue[k][i] < queue[k][j])
    /\ \A d \in 1..Len(delivered) : delivered[d].turn = k =>
         /\ delivered[d].chunk <= body[k]
         /\ worker[k] = "posting" => delivered[d].chunk < body[k]

\* No chunk has vanished.
Accounting(k) == \A n \in 1..offered[k] :
    \/ n \in complaints[k]
    \/ \E d \in 1..Len(delivered) : delivered[d] = [turn |-> k, chunk |-> n]
    \/ \E i \in 1..Len(queue[k]) : queue[k][i] = n
    \/ worker[k] \in {"posting", "dead"} /\ body[k] = n

\* Once the poison is on the queue nothing more is offered, and a worker that has found it
\* left an empty queue.
Closing(k) ==
    /\ worker[k] = "stopped" \/ (\E i \in 1..Len(queue[k]) : queue[k][i] = Poison) =>
         k < current \/ (k = current /\ pc \in {"joining", "idle"})
    /\ worker[k] = "stopped" => queue[k] = <<>>

\* The worker of a turn that is over has ended or was reported, that of a later turn has not
\* begun, and neither has the turn been heard of.
Past(k) ==
    /\ k < current \/ (k = current /\ pc = "idle") =>
         worker[k] \in {"stopped", "dead"} \/ k \in overdue
    /\ k > current => worker[k] = "none"
    /\ \A d \in 1..Len(delivered) : delivered[d].turn = k => k <= current

Kept(k) == Ordered(k) /\ Accounting(k) /\ Closing(k) /\ Past(k)

IInv ==
    /\ TypeOK
    /\ \A k \in Turns : Kept(k)
    /\ InOrder /\ SpeechInTurnOrder

LEMMA InitIInv == Init => IInv
<1> SUFFICES ASSUME Init PROVE IInv
  OBVIOUS
<1> USE ForwarderAssumption DEF Init
<1>1. TypeOK
  BY DEF TypeOK
<1>2. ASSUME NEW k \in Turns PROVE Kept(k)
  <2>1. k \in Nat /\ k > 0
    BY DEF Turns
  <2> QED
    BY <2>1 DEF Kept, Ordered, Accounting, Closing, Past
<1>3. InOrder /\ SpeechInTurnOrder
  BY DEF InOrder, SpeechInTurnOrder
<1> QED
  BY <1>1, <1>2, <1>3 DEF IInv

\* Steps of the watcher that only move it on.
LEMMA Moving ==
  ASSUME IInv, UNCHANGED <<current, chunks, threads, complaints>>,
         pc' \in {"idle", "streaming", "finishing", "closing", "joining"},
         pc' # "idle" => current \in Turns,
         pc \in {"joining", "idle"} => pc' \in {"joining", "idle"},
         pc = "idle" => pc' = "idle",
         answered' \in [Turns -> BOOLEAN],
         overdue \subseteq overdue', overdue' \subseteq Turns,
         pc' = "idle" => \A k \in Turns : k = current =>
            worker[k] \in {"stopped", "dead"} \/ k \in overdue'
  PROVE  IInv'
<1> USE DEF chunks, threads
<1>1. TypeOK'
  BY DEF IInv, TypeOK
<1>2. ASSUME NEW k \in Turns PROVE Kept(k)'
  <2>1. Kept(k) /\ k \in Int /\ current \in Int
    BY ForwarderAssumption DEF IInv, Turns, TypeOK
  <2>2. Ordered(k)' /\ Accounting(k)'
    BY <2>1 DEF Kept, Ordered, Accounting
  <2>3. Closing(k)'
    BY <2>1 DEF Kept, Closing
  <2>4. Past(k)'
    BY <2>1 DEF Kept, Past
  <2> QED
    BY <2>2, <2>3, <2>4 DEF Kept
<1>3. InOrder' /\ SpeechInTurnOrder'
  BY DEF IInv, InOrder, SpeechInTurnOrder
<1> QED
  BY <1>1, <1>2, <1>3 DEF IInv

\* A chunk is offered by the turn that streams, whose queue has no poison yet.
LEMMA Offering ==
  ASSUME IInv, current \in Turns, pc \in {"streaming", "finishing"},
         pc' \in {"streaming", "closing"}, UNCHANGED <<current, answered>>,
         NEW final \in BOOLEAN, Offer(current, final)
  PROVE  IInv'
<1> DEFINE n == offered[current] + 1
<1>0. /\ offered \in [Turns -> Nat] /\ finals \in [Turns -> SUBSET Nat]
      /\ queue \in [Turns -> Seq(Nat \cup {Poison})] /\ complaints \in [Turns -> SUBSET Nat]
      /\ body \in [Turns -> Nat] /\ Turns \subseteq Nat /\ n \in Nat
      /\ Poison \notin Nat /\ current \in Nat /\ delivered \in Seq([turn : Turns, chunk : Nat])
  BY ForwarderAssumption DEF IInv, TypeOK, Turns
<1>1. /\ offered' = [offered EXCEPT ![current] = n]
      /\ finals' \in [Turns -> SUBSET Nat]
      /\ UNCHANGED <<worker, body, delivered, overdue>>
      /\ \/ UNCHANGED complaints /\ queue' = [queue EXCEPT ![current] = Append(@, n)]
         \/ UNCHANGED queue /\ complaints' = [complaints EXCEPT ![current] = @ \cup {n}]
  BY <1>0 DEF Offer, Complain
<1> HIDE DEF n
<1>2. TypeOK'
  <2>1. queue' \in [Turns -> Seq(Nat \cup {Poison})]
    <3>1. queue[current] \in Seq(Nat \cup {Poison}) /\ n \in Nat \cup {Poison}
      BY <1>0
    <3>2. Append(queue[current], n) \in Seq(Nat \cup {Poison})
      BY <3>1, AppendProperties
    <3> QED
      BY <1>0, <1>1, <3>2
  <2>2. complaints' \in [Turns -> SUBSET Nat]
    BY <1>0, <1>1
  <2>3. offered' \in [Turns -> Nat]
    BY <1>0, <1>1
  <2> QED
    BY <1>1, <2>1, <2>2, <2>3 DEF IInv, TypeOK
<1>3. ASSUME NEW k \in Turns, k # current PROVE Kept(k)'
  <2>1. Kept(k) /\ UNCHANGED <<offered[k], queue[k], complaints[k]>>
    BY <1>0, <1>1, <1>3 DEF IInv
  <2> QED
    BY <1>0, <1>1, <1>3, <2>1 DEF Kept, Ordered, Accounting, Closing, Past
<1>4. Kept(current)'
  <2>1. Kept(current)
    BY DEF IInv
  <2>2. worker[current] # "stopped" /\ \A i \in 1..Len(queue[current]) : queue[current][i] # Poison
    BY <1>0, <2>1 DEF Kept, Closing
  <2>3. offered'[current] = n /\ n = offered[current] + 1
    BY <1>0, <1>1 DEF n
  <2>4. CASE UNCHANGED complaints /\ queue' = [queue EXCEPT ![current] = Append(@, n)]
    <3>1. /\ queue'[current] = Append(queue[current], n)
          /\ Len(queue'[current]) = Len(queue[current]) + 1
          /\ Len(queue[current]) \in Nat
          /\ \A i \in 1..Len(queue[current]) : queue'[current][i] = queue[current][i]
          /\ queue'[current][Len(queue[current]) + 1] = n
      BY <1>0, <2>4, AppendProperties
    <3>2. \A i \in 1..Len(queue[current]) : queue[current][i] \in Nat
      BY <1>0, <2>2
    <3>3. Ordered(current)'
      BY <1>0, <1>1, <2>1, <2>2, <2>3, <3>1, <3>2 DEF Kept, Ordered
    <3>4. Accounting(current)'
      <4> SUFFICES ASSUME NEW m \in 1..n
                   PROVE  \/ m \in complaints[current]
                          \/ \E d \in 1..Len(delivered) : delivered[d] = [turn |-> current, chunk |-> m]
                          \/ \E i \in 1..Len(queue'[current]) : queue'[current][i] = m
                          \/ worker[current] \in {"posting", "dead"} /\ body[current] = m
        BY <1>1, <2>3, <2>4 DEF Accounting
      <4>1. CASE m = n
        BY <3>1, <4>1
      <4>2. CASE m # n
        <5>1. m \in 1..offered[current]
          BY <1>0, <2>3, <4>2
        <5>2. (\E i \in 1..Len(queue[current]) : queue[current][i] = m)
                => \E i \in 1..Len(queue'[current]) : queue'[current][i] = m
          BY <3>1
        <5> QED
          BY <2>1, <5>1, <5>2 DEF Kept, Accounting
      <4> QED
        BY <4>1, <4>2
    <3>5. Closing(current)' /\ Past(current)'
      BY <1>0, <1>1, <2>1, <2>2, <3>1 DEF Kept, Closing, Past
    <3> QED
      BY <3>3, <3>4, <3>5 DEF Kept
  <2>5. CASE UNCHANGED queue /\ complaints' = [complaints EXCEPT ![current] = @ \cup {n}]
    <3>1. complaints'[current] = complaints[current] \cup {n}
      BY <1>0, <2>5
    <3>2. \A i \in 1..Len(queue[current]) : queue[current][i] \in Nat
      BY <1>0, <2>2
    <3>3. Ordered(current)'
      BY <1>0, <1>1, <2>1, <2>3, <2>5, <3>2 DEF Kept, Ordered
    <3>4. Accounting(current)'
      BY <1>0, <1>1, <2>1, <2>3, <2>5, <3>1 DEF Kept, Accounting
    <3>5. Closing(current)' /\ Past(current)'
      BY <1>0, <1>1, <2>1, <2>2, <2>5 DEF Kept, Closing, Past
    <3> QED
      BY <3>3, <3>4, <3>5 DEF Kept
  <2> QED
    BY <1>1, <2>4, <2>5
<1>5. InOrder' /\ SpeechInTurnOrder'
  BY <1>1 DEF IInv, InOrder, SpeechInTurnOrder
<1> QED
  BY <1>2, <1>3, <1>4, <1>5 DEF IInv

\* A worker takes the head of its queue: a chunk to post, or the poison.
LEMMA Getting == ASSUME IInv, NEW k \in Turns, Get(k) PROVE IInv'
<1>0. /\ queue \in [Turns -> Seq(Nat \cup {Poison})] /\ body \in [Turns -> Nat]
      /\ worker \in [Turns -> {"none", "waiting", "posting", "stopped", "dead"}]
      /\ delivered \in Seq([turn : Turns, chunk : Nat])
      /\ offered \in [Turns -> Nat] /\ Turns \subseteq Nat /\ Poison \notin Nat
      /\ current \in Nat
  BY ForwarderAssumption DEF IInv, TypeOK, Turns
<1>1. Kept(k)
  BY DEF IInv
<1> DEFINE h == Head(queue[k])
           q == Tail(queue[k])
<1>2. /\ queue[k] # <<>> /\ worker[k] = "waiting"
      /\ queue' = [queue EXCEPT ![k] = q]
      /\ UNCHANGED <<main, chunks, delivered, reports>>
      /\ \/ h = Poison /\ worker' = [worker EXCEPT ![k] = "stopped"] /\ UNCHANGED body
         \/ h # Poison /\ worker' = [worker EXCEPT ![k] = "posting"] /\ body' = [body EXCEPT ![k] = h]
  BY DEF Get
<1>3. /\ h = queue[k][1] /\ h \in Nat \cup {Poison} /\ q \in Seq(Nat \cup {Poison})
      /\ Len(queue[k]) \in Nat /\ Len(queue[k]) > 0 /\ Len(q) = Len(queue[k]) - 1
      /\ \A i \in 1..Len(q) : q[i] = queue[k][i + 1]
  <2>1. queue[k] \in Seq(Nat \cup {Poison}) /\ queue[k] # <<>>
    BY <1>0, <1>2
  <2> QED
    BY <2>1, HeadTailProperties, EmptySeq, LenProperties
<1> HIDE DEF h, q
<1>n. Len(queue[k]) \in Nat /\ Len(queue[k]) > 0
  BY <1>3
<1>h. queue[k][1] = h /\ 1 \in 1..Len(queue[k])
  BY <1>3, <1>n
<1>d. \A d \in 1..Len(delivered) : delivered[d].chunk \in Nat
  <2> SUFFICES ASSUME NEW d \in 1..Len(delivered) PROVE delivered[d].chunk \in Nat
    OBVIOUS
  <2>1. delivered[d] \in [turn : Turns, chunk : Nat]
    BY <1>0, ElementOfSeq
  <2> QED
    BY <2>1
<1>4. queue'[k] = q
  BY <1>0, <1>2
<1>5. TypeOK'
  <2>1. queue' \in [Turns -> Seq(Nat \cup {Poison})]
    BY <1>0, <1>2, <1>3
  <2>2. body' \in [Turns -> Nat] /\ worker' \in [Turns -> {"none", "waiting", "posting", "stopped", "dead"}]
    BY <1>0, <1>2, <1>3
  <2> QED
    BY <1>2, <2>1, <2>2 DEF IInv, TypeOK, main, chunks, reports
<1>6. ASSUME NEW j \in Turns, j # k PROVE Kept(j)'
  <2>1. Kept(j) /\ UNCHANGED <<queue[j], body[j], worker[j]>>
    BY <1>0, <1>2, <1>6 DEF IInv
  <2> QED
    BY <1>2, <2>1 DEF Kept, Ordered, Accounting, Closing, Past, main, chunks, reports
<1>7. ASSUME h = Poison PROVE Kept(k)'
  <2>1. worker'[k] = "stopped" /\ UNCHANGED body
    BY <1>0, <1>2, <1>7
  <2>2. Len(queue[k]) = 1
    <3>n. ASSUME NEW m \in Nat, m > 0, ~(m > 1) PROVE m = 1
      BY <3>n
    <3> SUFFICES ASSUME Len(queue[k]) > 1 PROVE FALSE
      BY <1>n, <3>n, Zenon
    <3>1. 1 \in 1..Len(queue[k]) /\ 2 \in 1..Len(queue[k]) /\ 1 < 2
      BY <1>n
    <3>2. queue[k][1] # Poison
      BY <1>1, <3>1 DEF Kept, Ordered
    <3> QED
      BY <1>h, <1>7, <3>2
  <2>3. Len(q) = 0 /\ q = <<>>
    BY <1>3, <2>2, EmptySeq
  <2>4. Ordered(k)'
    <3>1. \A i \in 1..Len(queue'[k]) : FALSE
      BY <1>4, <2>3
    <3>2. worker'[k] # "posting" /\ UNCHANGED <<body, offered, delivered>>
      BY <1>2, <2>1 DEF chunks
    <3> QED
      BY <1>1, <3>1, <3>2 DEF Kept, Ordered
  <2>5. Accounting(k)'
    <3> SUFFICES ASSUME NEW n \in 1..offered[k]
                 PROVE  \/ n \in complaints[k]
                        \/ \E d \in 1..Len(delivered) : delivered[d] = [turn |-> k, chunk |-> n]
      BY <1>2 DEF Accounting, chunks, reports
    <3>1. n \in Nat
      BY <1>0
    <3>2. \A i \in 1..Len(queue[k]) : queue[k][i] # n
      <4>1. \A i \in 1..Len(queue[k]) : i = 1
        BY <2>2
      <4> QED
        BY <1>0, <1>h, <1>7, <3>1, <4>1
    <3> QED
      BY <1>1, <1>2, <3>2 DEF Kept, Accounting
  <2>6. Closing(k)' /\ Past(k)'
    <3>1. \E i \in 1..Len(queue[k]) : queue[k][i] = Poison
      BY <1>h, <1>7
    <3> QED
      BY <1>1, <1>2, <1>4, <2>1, <2>3, <3>1 DEF Kept, Closing, Past, main, reports
  <2> QED
    BY <2>4, <2>5, <2>6 DEF Kept
<1>8. ASSUME h # Poison PROVE Kept(k)'
  <2>1. worker'[k] = "posting" /\ body'[k] = h /\ h \in Nat
    BY <1>0, <1>2, <1>3, <1>8
  <2>2. body[k] < h /\ h <= offered[k]
    BY <1>1, <1>3, <1>8 DEF Kept, Ordered
  <2>3. Ordered(k)'
    <3>1. \A i \in 1..Len(q) : q[i] # Poison => h < q[i] /\ q[i] <= offered[k]
      <4> SUFFICES ASSUME NEW i \in 1..Len(q), q[i] # Poison PROVE h < q[i] /\ q[i] <= offered[k]
        OBVIOUS
      <4>1. 1 \in 1..Len(queue[k]) /\ i + 1 \in 1..Len(queue[k]) /\ 1 < i + 1
        BY <1>3
      <4> QED
        BY <1>1, <1>3, <4>1 DEF Kept, Ordered
    <3>2. \A i, j \in 1..Len(q) : i < j => q[i] # Poison /\ (q[j] # Poison => q[i] < q[j])
      <4> SUFFICES ASSUME NEW i \in 1..Len(q), NEW j \in 1..Len(q), i < j
                   PROVE  q[i] # Poison /\ (q[j] # Poison => q[i] < q[j])
        OBVIOUS
      <4>1. i + 1 \in 1..Len(queue[k]) /\ j + 1 \in 1..Len(queue[k]) /\ i + 1 < j + 1
        BY <1>3
      <4> QED
        BY <1>1, <1>3, <4>1 DEF Kept, Ordered
    <3>3. \A d \in 1..Len(delivered) : delivered[d].turn = k => delivered[d].chunk < h
      <4> SUFFICES ASSUME NEW d \in 1..Len(delivered), delivered[d].turn = k
                   PROVE  delivered[d].chunk < h
        OBVIOUS
      <4>1. delivered[d].chunk \in Nat /\ delivered[d].chunk <= body[k] /\ body[k] \in Nat
        BY <1>0, <1>d, <1>1 DEF Kept, Ordered
      <4> QED
        BY <2>1, <2>2, <4>1
    <3>4. \A d \in 1..Len(delivered) : delivered[d].turn = k => delivered[d].chunk <= h
      <4> SUFFICES ASSUME NEW d \in 1..Len(delivered), delivered[d].turn = k
                   PROVE  delivered[d].chunk <= h
        OBVIOUS
      <4>1. delivered[d].chunk \in Nat
        BY <1>d
      <4> QED
        BY <2>1, <3>3, <4>1
    <3> QED
      BY <1>2, <1>4, <2>1, <2>2, <3>1, <3>2, <3>3, <3>4 DEF Ordered, chunks
  <2>4. Accounting(k)'
    <3> SUFFICES ASSUME NEW n \in 1..offered[k]
                 PROVE  \/ n \in complaints[k]
                        \/ \E d \in 1..Len(delivered) : delivered[d] = [turn |-> k, chunk |-> n]
                        \/ \E i \in 1..Len(q) : q[i] = n
                        \/ h = n
      BY <1>2, <1>4, <2>1 DEF Accounting, chunks, reports
    <3>1. ASSUME NEW i \in 1..Len(queue[k]), queue[k][i] = n, h # n
          PROVE  \E m \in 1..Len(q) : q[m] = n
      <4>1. i - 1 \in 1..Len(q) /\ q[i - 1] = queue[k][i]
        BY <1>3, <3>1
      <4> QED
        BY <3>1, <4>1
    <3> QED
      BY <1>1, <1>2, <3>1 DEF Kept, Accounting
  <2>5. Closing(k)' /\ Past(k)'
    <3>1. (\E i \in 1..Len(q) : q[i] = Poison) => \E i \in 1..Len(queue[k]) : queue[k][i] = Poison
      <4> SUFFICES ASSUME NEW i \in 1..Len(q), q[i] = Poison
                   PROVE  \E m \in 1..Len(queue[k]) : queue[k][m] = Poison
        OBVIOUS
      <4>1. i + 1 \in 1..Len(queue[k]) /\ queue[k][i + 1] = Poison
        BY <1>3
      <4> QED
        BY <4>1
    <3> QED
      BY <1>1, <1>2, <1>4, <2>1, <3>1 DEF Kept, Closing, Past, main, reports
  <2> QED
    BY <2>3, <2>4, <2>5 DEF Kept
<1>9. InOrder' /\ SpeechInTurnOrder'
  BY <1>2 DEF IInv, InOrder, SpeechInTurnOrder, reports
<1> QED
  BY <1>5, <1>6, <1>7, <1>8, <1>9 DEF IInv

\* A post ends, one way or another: the service may have received the chunk, the worker may
\* have complained, or it is dead.
LEMMA Posting ==
  ASSUME IInv, NEW k \in Turns, worker[k] = "posting",
         NEW w \in {"waiting", "dead"}, worker' = [worker EXCEPT ![k] = w],
         Received(k) \/ UNCHANGED delivered,
         UNCHANGED complaints \/ Complain(k, body[k]),
         w = "dead" \/ Received(k) \/ Complain(k, body[k]),
         UNCHANGED <<main, chunks, queue, body, overdue>>
  PROVE  IInv'
<1> DEFINE r == [turn |-> k, chunk |-> body[k]]
<1>0. /\ queue \in [Turns -> Seq(Nat \cup {Poison})] /\ body \in [Turns -> Nat]
      /\ worker \in [Turns -> {"none", "waiting", "posting", "stopped", "dead"}]
      /\ complaints \in [Turns -> SUBSET Nat]
      /\ delivered \in Seq([turn : Turns, chunk : Nat])
      /\ offered \in [Turns -> Nat] /\ Turns \subseteq Nat /\ current \in Nat
      /\ r \in [turn : Turns, chunk : Nat] /\ r.turn = k /\ r.chunk = body[k] /\ body[k] \in Nat
  BY ForwarderAssumption DEF IInv, TypeOK, Turns
<1>1. Kept(k)
  BY DEF IInv
<1>2. \/ delivered' = Append(delivered, r)
      \/ delivered' = delivered
  BY DEF Received
<1>3. ASSUME NEW d \in 1..Len(delivered)
      PROVE  /\ delivered[d] \in [turn : Turns, chunk : Nat]
             /\ delivered[d].turn \in Nat /\ delivered[d].chunk \in Nat
  <2>1. delivered[d] \in [turn : Turns, chunk : Nat]
    BY <1>0, ElementOfSeq
  <2> QED
    BY <1>0, <2>1
<1> HIDE DEF r
<1>4. delivered' = Append(delivered, r) =>
        /\ delivered' \in Seq([turn : Turns, chunk : Nat])
        /\ Len(delivered) \in Nat /\ Len(delivered') = Len(delivered) + 1
        /\ \A d \in 1..Len(delivered) : delivered'[d] = delivered[d]
        /\ delivered'[Len(delivered) + 1] = r
  BY <1>0, AppendProperties
<1>5. ASSUME NEW d \in 1..Len(delivered')
      PROVE  \/ d \in 1..Len(delivered) /\ delivered'[d] = delivered[d]
             \/ d = Len(delivered) + 1 /\ delivered'[d] = r
  BY <1>2, <1>4
<1>6. ASSUME NEW d \in 1..Len(delivered)
      PROVE  d \in 1..Len(delivered') /\ delivered'[d] = delivered[d]
  BY <1>2, <1>4
<1>7. worker'[k] = w
  BY <1>0
<1>8. TypeOK'
  <2>1. delivered' \in Seq([turn : Turns, chunk : Nat])
    BY <1>0, <1>2, <1>4
  <2>2. complaints' \in [Turns -> SUBSET Nat]
    BY <1>0 DEF Complain
  <2>3. worker' \in [Turns -> {"none", "waiting", "posting", "stopped", "dead"}]
    BY <1>0
  <2> QED
    BY <2>1, <2>2, <2>3 DEF IInv, TypeOK, main, chunks
<1>9. ASSUME NEW j \in Turns PROVE Ordered(j)'
  <2>1. Ordered(j)
    BY DEF IInv, Kept
  <2>2. ASSUME NEW d \in 1..Len(delivered'), delivered'[d].turn = j
        PROVE  /\ delivered'[d].chunk <= body[j]
               /\ worker'[j] = "posting" => delivered'[d].chunk < body[j]
    <3>1. CASE d \in 1..Len(delivered) /\ delivered'[d] = delivered[d]
      <4>1. worker'[j] = "posting" => worker[j] = "posting"
        BY <1>0
      <4> QED
        BY <2>1, <2>2, <3>1, <4>1 DEF Ordered
    <3>2. CASE delivered'[d] = r
      <4>1. j = k /\ worker'[j] # "posting" /\ delivered'[d].chunk = body[j]
        BY <1>0, <1>7, <2>2, <3>2
      <4> QED
        BY <1>0, <4>1
    <3> QED
      BY <1>5, <3>1, <3>2
  <2> QED
    BY <2>1, <2>2 DEF Ordered, chunks
<1>10. ASSUME NEW j \in Turns PROVE Accounting(j)'
  <2> SUFFICES ASSUME NEW n \in 1..offered[j]
               PROVE  \/ n \in complaints'[j]
                      \/ \E d \in 1..Len(delivered') : delivered'[d] = [turn |-> j, chunk |-> n]
                      \/ \E i \in 1..Len(queue[j]) : queue[j][i] = n
                      \/ worker'[j] \in {"posting", "dead"} /\ body[j] = n
    BY DEF Accounting, chunks
  <2>1. complaints[j] \subseteq complaints'[j]
    BY <1>0 DEF Complain
  <2>2. ASSUME NEW d \in 1..Len(delivered), delivered[d] = [turn |-> j, chunk |-> n]
        PROVE  \E e \in 1..Len(delivered') : delivered'[e] = [turn |-> j, chunk |-> n]
    BY <1>6, <2>2
  <2>3. CASE worker[j] \in {"posting", "dead"} /\ body[j] = n
    <3>1. CASE j # k
      BY <1>0, <2>3, <3>1
    <3>2. CASE j = k
      <4>1. CASE w = "dead"
        BY <1>7, <2>3, <3>2, <4>1
      <4>2. CASE Received(k)
        <5>1. delivered' = Append(delivered, r)
          BY <4>2 DEF Received, r
        <5>2. Len(delivered) + 1 \in 1..Len(delivered') /\ delivered'[Len(delivered) + 1] = r
          BY <1>4, <5>1
        <5>3. r = [turn |-> j, chunk |-> n]
          BY <2>3, <3>2 DEF r
        <5> QED
          BY <5>2, <5>3
      <4>3. CASE Complain(k, body[k])
        BY <1>0, <2>3, <3>2, <4>3 DEF Complain
      <4> QED
        BY <4>1, <4>2, <4>3
    <3> QED
      BY <3>1, <3>2
  <2> QED
    BY <2>1, <2>2, <2>3 DEF IInv, Kept, Accounting
<1>11. ASSUME NEW j \in Turns PROVE Closing(j)' /\ Past(j)'
  <2>1. Closing(j) /\ Past(j)
    BY DEF IInv, Kept
  <2>2. Closing(j)'
    BY <1>0, <2>1 DEF Closing, main
  <2>3. ASSUME NEW d \in 1..Len(delivered'), delivered'[d].turn = j PROVE j <= current
    <3>1. CASE d \in 1..Len(delivered) /\ delivered'[d] = delivered[d]
      BY <2>1, <2>3, <3>1 DEF Past
    <3>2. CASE delivered'[d] = r
      <4>1. j = k
        BY <1>0, <2>3, <3>2
      <4>2. ~(k > current)
        BY <1>1 DEF Kept, Past
      <4> QED
        BY <1>0, <4>1, <4>2
    <3> QED
      BY <1>5, <3>1, <3>2
  <2>4. Past(j)'
    BY <1>0, <2>1, <2>3 DEF Past, main
  <2> QED
    BY <2>2, <2>4
<1>12. InOrder'
  <2> SUFFICES ASSUME NEW i \in 1..Len(delivered'), NEW j \in 1..Len(delivered'), i < j,
                      delivered'[i].turn = delivered'[j].turn
               PROVE  delivered'[i].chunk < delivered'[j].chunk
    BY DEF InOrder
  <2>1. i \in 1..Len(delivered) /\ delivered'[i] = delivered[i]
    BY <1>2, <1>4
  <2>2. CASE j \in 1..Len(delivered) /\ delivered'[j] = delivered[j]
    BY <2>1, <2>2 DEF IInv, InOrder
  <2>3. CASE delivered'[j] = r
    <3>1. delivered[i].turn = k /\ delivered'[j].chunk = body[k]
      BY <1>0, <2>1, <2>3
    <3> QED
      BY <1>1, <2>1, <3>1 DEF Kept, Ordered
  <2> QED
    BY <1>5, <2>2, <2>3
<1>13. SpeechInTurnOrder'
  <2> SUFFICES ASSUME NEW i \in 1..Len(delivered'), NEW j \in 1..Len(delivered'), i < j,
                      delivered'[i].turn > delivered'[j].turn
               PROVE  delivered'[j].turn \in overdue
    BY DEF SpeechInTurnOrder
  <2>1. i \in 1..Len(delivered) /\ delivered'[i] = delivered[i]
    BY <1>2, <1>4
  <2>2. CASE j \in 1..Len(delivered) /\ delivered'[j] = delivered[j]
    BY <2>1, <2>2 DEF IInv, SpeechInTurnOrder
  <2>3. CASE delivered'[j] = r
    <3>1. delivered'[j].turn = k
      BY <1>0, <2>3
    <3>2. delivered[i].turn \in Turns /\ delivered[i].turn \in Nat /\ delivered[i].turn > k
      BY <1>3, <2>1, <3>1
    <3>3. Past(delivered[i].turn)
      BY <3>2 DEF IInv, Kept
    <3>4. delivered[i].turn <= current
      BY <2>1, <3>3 DEF Past
    <3>5. k < current
      <4>1. ASSUME NEW m \in Nat, m > k, m <= current PROVE k < current
        BY <1>0, <4>1
      <4> QED
        BY <3>2, <3>4, <4>1
    <3> QED
      BY <1>1, <3>1, <3>5 DEF Kept, Past
  <2> QED
    BY <1>5, <2>2, <2>3
<1> QED
  BY <1>8, <1>9, <1>10, <1>11, <1>12, <1>13 DEF IInv, Kept

LEMMA Starting == ASSUME IInv, StartTurn PROVE IInv'
<1> DEFINE c == current + 1
<1>0. /\ c \in Turns /\ current \in Nat /\ Turns \subseteq Nat
      /\ worker \in [Turns -> {"none", "waiting", "posting", "stopped", "dead"}]
  BY ForwarderAssumption DEF IInv, TypeOK, StartTurn, Turns
<1>1. /\ pc = "idle" /\ pc' = "streaming" /\ current' = c
      /\ worker' = [worker EXCEPT ![c] = "waiting"]
      /\ UNCHANGED <<answered, chunks, queue, body, delivered, reports>>
  BY DEF StartTurn, Goto
<1>2. TypeOK'
  <2>1. worker' \in [Turns -> {"none", "waiting", "posting", "stopped", "dead"}]
    BY <1>0, <1>1
  <2>2. current' \in 0..MaxTurns /\ current' \in Turns
    BY <1>0, <1>1 DEF Turns
  <2> QED
    BY <1>1, <2>1, <2>2 DEF IInv, TypeOK, chunks, reports
<1>3. ASSUME NEW k \in Turns PROVE Kept(k)'
  <2>1. Kept(k) /\ k \in Nat
    BY <1>0 DEF IInv
  <2>2. CASE k = c
    <3>1. worker[k] = "none" /\ worker'[k] = "waiting" /\ k > current
      BY <1>0, <2>1, <2>2, <1>1 DEF Kept, Past
    <3>2. \A i \in 1..Len(queue[k]) : queue[k][i] # Poison
      BY <1>0, <2>1, <3>1 DEF Kept, Closing
    <3>3. Ordered(k)' /\ Accounting(k)'
      BY <1>1, <2>1, <3>1 DEF Kept, Ordered, Accounting, chunks, reports
    <3>4. Closing(k)'
      BY <1>1, <3>1, <3>2 DEF Closing
    <3>5. Past(k)'
      BY <1>0, <1>1, <2>2 DEF Past
    <3> QED
      BY <3>3, <3>4, <3>5 DEF Kept
  <2>3. CASE k # c
    <3>1. UNCHANGED worker[k]
      BY <1>0, <1>1, <2>3
    <3>2. Ordered(k)' /\ Accounting(k)'
      BY <1>1, <2>1, <3>1 DEF Kept, Ordered, Accounting, chunks, reports
    <3>3. Closing(k)'
      BY <1>0, <1>1, <2>1, <3>1 DEF Kept, Closing
    <3>4. Past(k)'
      BY <1>0, <1>1, <2>1, <2>3, <3>1 DEF Kept, Past, reports
    <3> QED
      BY <3>2, <3>3, <3>4 DEF Kept
  <2> QED
    BY <2>2, <2>3
<1>4. InOrder' /\ SpeechInTurnOrder'
  BY <1>1 DEF IInv, InOrder, SpeechInTurnOrder, reports
<1> QED
  BY <1>2, <1>3, <1>4 DEF IInv

LEMMA Poisoning == ASSUME IInv, PutPoison PROVE IInv'
<1> DEFINE q == Append(queue[current], Poison)
<1>1. /\ pc = "closing" /\ pc' = "joining"
      /\ queue' = [queue EXCEPT ![current] = q]
      /\ UNCHANGED <<current, answered, chunks, worker, body, delivered, reports>>
  BY DEF PutPoison, Goto
<1>0. /\ current \in Turns /\ Turns \subseteq Nat /\ Poison \notin Nat
      /\ queue \in [Turns -> Seq(Nat \cup {Poison})] /\ offered \in [Turns -> Nat]
  <2>1. current \in Turns
    BY <1>1 DEF IInv, TypeOK
  <2> QED
    BY <2>1, ForwarderAssumption DEF IInv, TypeOK, Turns
<1>2. /\ q \in Seq(Nat \cup {Poison}) /\ Len(q) = Len(queue[current]) + 1
      /\ Len(queue[current]) \in Nat
      /\ \A i \in 1..Len(queue[current]) : q[i] = queue[current][i]
      /\ q[Len(queue[current]) + 1] = Poison
  <2>1. queue[current] \in Seq(Nat \cup {Poison}) /\ Poison \in Nat \cup {Poison}
    BY <1>0
  <2> QED
    BY <2>1, AppendProperties
<1> HIDE DEF q
<1>3. queue'[current] = q
  BY <1>0, <1>1
<1>4. TypeOK'
  <2>1. queue' \in [Turns -> Seq(Nat \cup {Poison})]
    BY <1>0, <1>1, <1>2
  <2> QED
    BY <1>0, <1>1, <2>1 DEF IInv, TypeOK, chunks, reports
<1>5. ASSUME NEW k \in Turns, k # current PROVE Kept(k)'
  <2>1. Kept(k) /\ UNCHANGED queue[k]
    BY <1>0, <1>1, <1>5 DEF IInv
  <2> QED
    BY <1>1, <1>5, <2>1 DEF Kept, Ordered, Accounting, Closing, Past, chunks, reports
<1>6. Kept(current)'
  <2>1. Kept(current)
    BY <1>0 DEF IInv
  <2>2. worker[current] # "stopped" /\ \A i \in 1..Len(queue[current]) : queue[current][i] # Poison
    BY <1>0, <1>1, <2>1 DEF Kept, Closing
  <2>3. Ordered(current)'
    <3>1. \A i \in 1..Len(q) : q[i] # Poison => i \in 1..Len(queue[current]) /\ q[i] = queue[current][i]
      BY <1>2
    <3>2. \A i, j \in 1..Len(q) : i < j => i \in 1..Len(queue[current]) /\ q[i] = queue[current][i]
      BY <1>2
    <3>3. UNCHANGED <<body[current], offered[current], worker[current], delivered>> /\ current' = current
      BY <1>1 DEF chunks
    <3>4. \A i \in 1..Len(q) :
            q[i] # Poison => body[current] < q[i] /\ q[i] <= offered[current]
      BY <2>1, <3>1 DEF Kept, Ordered
    <3>5. \A i, j \in 1..Len(q) : i < j => q[i] # Poison /\ (q[j] # Poison => q[i] < q[j])
      BY <2>1, <2>2, <3>1, <3>2 DEF Kept, Ordered
    <3> QED
      BY <1>3, <2>1, <3>3, <3>4, <3>5 DEF Kept, Ordered
  <2>4. Accounting(current)'
    <3> SUFFICES ASSUME NEW n \in 1..offered[current]
                 PROVE  \/ n \in complaints[current]
                        \/ \E d \in 1..Len(delivered) : delivered[d] = [turn |-> current, chunk |-> n]
                        \/ \E i \in 1..Len(q) : q[i] = n
                        \/ worker[current] \in {"posting", "dead"} /\ body[current] = n
      BY <1>1, <1>3 DEF Accounting, chunks, reports
    <3>1. (\E i \in 1..Len(queue[current]) : queue[current][i] = n) => \E i \in 1..Len(q) : q[i] = n
      BY <1>2
    <3> QED
      BY <2>1, <3>1 DEF Kept, Accounting
  <2>5. Closing(current)' /\ Past(current)'
    BY <1>0, <1>1, <2>1, <2>2 DEF Kept, Closing, Past, reports
  <2> QED
    BY <2>3, <2>4, <2>5 DEF Kept
<1>7. InOrder' /\ SpeechInTurnOrder'
  BY <1>1 DEF IInv, InOrder, SpeechInTurnOrder, reports
<1> QED
  BY <1>1, <1>4, <1>5, <1>6, <1>7 DEF IInv

LEMMA StepIInv == IInv /\ [Next]_vars => IInv'
<1> SUFFICES ASSUME IInv, [Next]_vars PROVE IInv'
  OBVIOUS
<1>0. /\ pc \in {"idle", "streaming", "finishing", "closing", "joining"}
      /\ pc # "idle" => current \in Turns
      /\ answered \in [Turns -> BOOLEAN] /\ overdue \subseteq Turns
      /\ \A k \in Turns : k = current /\ pc = "idle" =>
            worker[k] \in {"stopped", "dead"} \/ k \in overdue
  BY DEF IInv, TypeOK, Kept, Past
<1>1. CASE UNCHANGED vars
  BY <1>0, <1>1, Moving DEF vars, main, reports
<1>2. CASE StartTurn
  BY <1>2, Starting
<1>3. CASE SpeechDelta
  BY <1>0, <1>3, Offering DEF SpeechDelta, main
<1>4. CASE Completed
  BY <1>0, <1>4, Offering DEF Completed, main
<1>5. CASE StreamEnds
  <2>1. answered' \in [Turns -> BOOLEAN]
    BY <1>0, <1>5 DEF StreamEnds
  <2> QED
    BY <1>0, <1>5, <2>1, Moving DEF StreamEnds, Goto, reports
<1>6. CASE StreamRaises
  BY <1>0, <1>6, Moving DEF StreamRaises, Goto, reports
<1>7. CASE Finish
  <2>1. CASE Offer(current, TRUE)
    BY <1>0, <1>7, <2>1, Offering DEF Finish, Goto
  <2>2. CASE UNCHANGED <<chunks, threads, reports>>
    BY <1>0, <1>7, <2>2, Moving DEF Finish, Goto, reports
  <2> QED
    BY <1>7, <2>1, <2>2 DEF Finish
<1>8. CASE PutPoison
  BY <1>8, Poisoning
<1>9. CASE PoisonTimesOut
  BY <1>0, <1>9, Moving DEF PoisonTimesOut, Goto
<1>10. CASE Join
  BY <1>0, <1>10, Moving DEF Join, Goto, reports
<1>11. CASE JoinTimesOut
  BY <1>0, <1>11, Moving DEF JoinTimesOut, Goto
<1>12. ASSUME NEW k \in Turns, Get(k) PROVE IInv'
  BY <1>12, Getting
<1>13. ASSUME NEW k \in Turns, Posted(k) PROVE IInv'
  BY <1>13, Posting DEF Posted, reports
<1>14. ASSUME NEW k \in Turns, PostFails(k) PROVE IInv'
  BY <1>14, Posting DEF PostFails
<1>15. ASSUME NEW k \in Turns, PostDies(k) PROVE IInv'
  BY <1>15, Posting DEF PostDies, reports
<1> QED
  BY <1>1, <1>2, <1>3, <1>4, <1>5, <1>6, <1>7, <1>8, <1>9, <1>10, <1>11, <1>12, <1>13, <1>14, <1>15
     DEF Next, RunOnce, Worker

LEMMA Invariance == Spec => []IInv
BY InitIInv, StepIInv, PTL DEF Spec

-----------------------------------------------------------------------------
(* What every behaviour keeps *)

\* Queues, threads, counts and reports are of their kinds, and a turn under way is one of
\* those the watcher sends.
THEOREM TypeCorrect == Spec => []TypeOK
BY Invariance, PTL DEF IInv

\* The service hears the chunks of a turn in their order and each once, although posts
\* fail, chunks are dropped and the worker outlives its turn.
THEOREM HeardInOrder == Spec => []InOrder
BY Invariance, PTL DEF IInv

\* A worker that was told to stop has lost nothing in silence: each chunk was received or
\* complained about.
THEOREM NothingLostInSilence == Spec => []Accounted
<1>1. IInv => Accounted
  <2> SUFFICES ASSUME IInv, NEW k \in Turns, worker[k] = "stopped", NEW n \in 1..offered[k]
               PROVE  \/ n \in complaints[k]
                      \/ \E i \in 1..Len(delivered) : delivered[i] = [turn |-> k, chunk |-> n]
    BY DEF Accounted
  <2>1. Accounting(k) /\ queue[k] = <<>>
    BY DEF IInv, Kept, Closing
  <2>2. ~ \E i \in 1..Len(queue[k]) : queue[k][i] = n
    BY <2>1
  <2> QED
    BY <2>1, <2>2 DEF Accounting
<1> QED
  BY <1>1, Invariance, PTL

\* A turn speaks after the turns before it: an older worker that still speaks was reported.
THEOREM TurnsSpeakInOrder == Spec => []SpeechInTurnOrder
BY Invariance, PTL DEF IInv
=============================================================================
