------------------------------ MODULE Console ------------------------------
(***************************************************************************)
(* The server of the integration console: its handler threads go through   *)
(* the rate limiter and the token check, and then clear the status store,  *)
(* stream its events, or store the volume of the speech service.  Reading  *)
(* a status or the volume changes nothing and is left out.                 *)
(***************************************************************************)
EXTENDS StatusLog, FiniteSetsExt

CONSTANTS
    Threads,     \* handler threads
    Scenarios,   \* bound: who asks for what in one behaviour, how many events are logged
                 \* in it, and how often the monotonic clock ticks
    Limit,       \* api_rate_limit_per_minute
    Window,      \* window_seconds, in ticks
    View,        \* the limit of a stream
    Volumes,     \* bound: the volumes that are set
    None

ASSUME ConsoleAssumption ==
    /\ \A s \in Scenarios :
         /\ s.threads \subseteq Threads /\ s.kinds \subseteq {"clear", "stream", "volume"}
         /\ s.events \in Nat /\ s.ticks \in Nat
    /\ Limit \in Nat \ {0} /\ Window \in Nat \ {0} /\ View \in Nat \ {0}
    /\ None \notin Volumes \cup Nat \cup {"torn", "tmp", "file"} /\ "torn" \notin Volumes

VARIABLES
    scenario,   \* which of them this behaviour is
    place,      \* where each thread is
    kind,       \* what its request asks for
    tick,       \* time.monotonic()
    window,     \* the entry of the client in _windows: when it began, how many it allowed
    read,       \* the entry a thread works with, and the time it took
    upset,      \* has _windows lost a key while the thread went through it?
    granted,    \* history: the requests allowed since the window began
    contested,  \* history: did two requests meet in the limiter in this window?
    others,     \* the event logs of the other services, which they append to
    resume,     \* the last event the client heard: its Last-Event-ID
    last,       \* last_event_id
    sent,       \* sent_event_ids
    view,       \* the events of the store that a stream has read
    batch,      \* the events it still has to write
    heard,      \* history: what the client heard on this connection
    file,       \* the volume file
    tmp,        \* the file beside it that is renamed to it
    handle,     \* which of the two a thread's open file now is
    value,      \* the volume it was given
    stored,     \* history: the volume the file was last given by a request
    overlapped  \* history: did two requests write the volume at the same time?

limiterVars == <<tick, window, read, upset, granted, contested>>
streamVars == <<others, resume, last, sent, view, batch, heard>>
volumeVars == <<file, tmp, handle, value, stored, overlapped>>
vars == <<scenario, logVars, place, kind, limiterVars, streamVars, volumeVars>>

Init ==
    /\ scenario \in Scenarios
    /\ LogInit
    /\ place = [t \in Threads |-> "idle"]
    /\ kind = [t \in Threads |-> None]
    /\ tick = 0
    /\ window = None
    /\ read = [t \in Threads |-> None]
    /\ upset = [t \in Threads |-> FALSE]
    /\ granted = 0 /\ contested = FALSE
    /\ others = <<>>
    /\ resume = 0
    /\ last = [t \in Threads |-> 0]
    /\ sent = [t \in Threads |-> {}]
    /\ view = [t \in Threads |-> {}]
    /\ batch = [t \in Threads |-> <<>>]
    /\ heard = [t \in Threads |-> <<>>]
    /\ file = None /\ tmp = None
    /\ handle = [t \in Threads |-> None]
    /\ value = [t \in Threads |-> None]
    /\ stored = None /\ overlapped = FALSE

Goto(t, p) == place' = [place EXCEPT ![t] = p]
Ends(t) == Goto(t, "idle")

-----------------------------------------------------------------------------
(* check_api_rate_limit: get, compare and set are steps of their own. *)

Limited == {"check", "purge", "count"}
Fresh(t) == [start |-> read[t].now, count |-> 0, now |-> read[t].now]

\* A request arrives; allow reads the clock and the entry of its client.
Ask(t, k) ==
    /\ place[t] = "idle"
    /\ Goto(t, "check")
    /\ kind' = [kind EXCEPT ![t] = k]
    /\ read' = [read EXCEPT ![t] =
                  IF window = None THEN [start |-> tick, count |-> 0, now |-> tick]
                  ELSE [start |-> window.start, count |-> window.count, now |-> tick]]
    /\ contested' = (contested \/ \E u \in Threads : place[u] \in Limited)
    /\ UNCHANGED <<scenario, logVars, tick, window, upset, granted, streamVars, volumeVars>>

Expired(t) == read[t].now - read[t].start >= Window

\* 429
Refuse(t) ==
    /\ place[t] = "check" /\ ~Expired(t) /\ read[t].count >= Limit
    /\ Ends(t)
    /\ read' = [read EXCEPT ![t] = None]
    /\ UNCHANGED <<scenario, logVars, kind, tick, window, upset, granted, contested, streamVars,
                   volumeVars>>

AllowOneMoreBug(t) ==
    /\ place[t] = "check" /\ ~Expired(t) /\ read[t].count <= Limit
    /\ Goto(t, "count")
    /\ UNCHANGED <<scenario, logVars, kind, limiterVars, streamVars, volumeVars>>

Allow(t) ==
    /\ place[t] = "check" /\ ~Expired(t) /\ read[t].count < Limit
    /\ Goto(t, "count")
    /\ UNCHANGED <<scenario, logVars, kind, limiterVars, streamVars, volumeVars>>

\* _purge_expired goes through the entries of all clients ...
Purge(t) ==
    /\ place[t] = "check" /\ Expired(t)
    /\ read' = [read EXCEPT ![t] = Fresh(t)]
    /\ upset' = [upset EXCEPT ![t] = FALSE]
    /\ Goto(t, "purge")
    /\ UNCHANGED <<scenario, logVars, kind, tick, window, granted, contested, streamVars, volumeVars>>

\* ... which raises when one has been taken out meanwhile; the connection is dropped ...
PurgeRaises(t) ==
    /\ place[t] = "purge" /\ upset[t]
    /\ Ends(t)
    /\ read' = [read EXCEPT ![t] = None]
    /\ UNCHANGED <<scenario, logVars, kind, tick, window, upset, granted, contested, streamVars,
                   volumeVars>>

\* ... and takes out the expired ones, unless another thread has begun the window already.
PopExpired(t) ==
    /\ place[t] = "purge"
    /\ window' = IF window # None /\ read[t].now - window.start >= Window THEN None ELSE window
    /\ upset' = [u \in Threads |->
                    u # t /\ place[u] = "purge" /\ (upset[u] \/ window' # window)]
    /\ Goto(t, "count")
    /\ UNCHANGED <<scenario, logVars, kind, tick, read, granted, contested, streamVars, volumeVars>>

\* Where an allowed request goes on: the token is checked after it was counted.
Serve(t) ==
    \/ Ends(t) /\ UNCHANGED <<last, sent, batch, heard, value>>
    \/ /\ kind[t] = "stream"
       /\ Goto(t, "poll")
       /\ last' = [last EXCEPT ![t] = resume]
       /\ sent' = [sent EXCEPT ![t] = {}]
       /\ batch' = [batch EXCEPT ![t] = <<>>]
       /\ heard' = [heard EXCEPT ![t] = <<>>]
       /\ UNCHANGED value
    \/ /\ kind[t] = "volume"
       /\ Goto(t, "volume")
       /\ \E v \in Volumes : value' = [value EXCEPT ![t] = v]
       /\ UNCHANGED <<last, sent, batch, heard>>
    \/ /\ kind[t] = "clear"
       /\ Goto(t, "clear")
       /\ UNCHANGED <<last, sent, batch, heard, value>>

\* A window begins with the first request it counts.
CountWindow(t) ==
    LET begins == window = None \/ window.start < read[t].start
    IN  /\ granted' = IF begins THEN 1 ELSE granted + 1
        /\ contested' =
             ((~begins /\ contested) \/ \E u \in Threads \ {t} : place[u] \in Limited)

Count(t) ==
    /\ place[t] = "count"
    /\ window' = [start |-> read[t].start, count |-> read[t].count + 1]
    /\ read' = [read EXCEPT ![t] = None]
    /\ CountWindow(t)
    /\ Serve(t)
    /\ UNCHANGED <<scenario, logVars, kind, tick, upset, others, resume, view, file, tmp, handle,
                   stored, overlapped>>

Tick ==
    /\ tick < scenario.ticks
    /\ tick' = tick + 1
    /\ UNCHANGED <<scenario, logVars, place, kind, window, read, upset, granted, contested, streamVars,
                   volumeVars>>

-----------------------------------------------------------------------------
(* POST /api/status/clear, and the writers of the store. *)

ClearStore(t) ==
    /\ place[t] = "clear"
    /\ Clear
    /\ Ends(t)
    /\ UNCHANGED <<scenario, kind, limiterVars, streamVars, volumeVars>>

StoreStep ==
    /\ \E w \in Writers : WriterStep(w)
    /\ clock' <= scenario.events
    /\ UNCHANGED <<scenario, place, kind, limiterVars, streamVars, volumeVars>>

-----------------------------------------------------------------------------
(* GET /api/events *)

\* ai-talk-core or tts_service logs an event.
OtherLogs ==
    /\ clock < scenario.events
    /\ clock' = clock + 1
    /\ others' = Append(others, clock + 1)
    /\ UNCHANGED <<scenario, log, at, mine, keep, put, appended, crossed, place, kind, limiterVars,
                   resume, last, sent, view, batch, heard, volumeVars>>

\* read_console_events reads the log of the store, and then those of the others ...
Poll(t) ==
    /\ place[t] = "poll"
    /\ view' = [view EXCEPT ![t] = ReadEvents(log, View)]
    /\ Goto(t, "merge")
    /\ UNCHANGED <<scenario, logVars, kind, limiterVars, others, resume, last, sent, batch, heard,
                   volumeVars>>

\* ... and sorts them by timestamp.
Merged(t) ==
    LET all == view[t] \cup ReadEvents(others, View)
        newest == {e \in all : Cardinality({f \in all : f > e}) < View}
    IN  [i \in 1..Cardinality(newest) |->
            CHOOSE e \in newest : Cardinality({f \in newest : f < e}) = i - 1]

Position(s, e) == {i \in DOMAIN s : s[i] = e}

\* read_console_events_after: what follows the last event, or all when it is not there.
NothingAfterUnknownBug(s, e) ==
    IF e = 0 THEN s
    ELSE IF Position(s, e) = {} THEN <<>> ELSE SubSeq(s, Min(Position(s, e)) + 1, Len(s))

After(s, e) ==
    IF Position(s, e) = {} THEN s ELSE SubSeq(s, Min(Position(s, e)) + 1, Len(s))

Merge(t) ==
    /\ place[t] = "merge"
    /\ batch' = [batch EXCEPT ![t] = After(Merged(t), last[t])]
    /\ Goto(t, "send")
    /\ UNCHANGED <<scenario, logVars, kind, limiterVars, others, resume, last, sent, view, heard,
                   volumeVars>>

\* The connection is closed, and its locals are gone.
Hangs(t) ==
    /\ Ends(t)
    /\ last' = [last EXCEPT ![t] = 0]
    /\ sent' = [sent EXCEPT ![t] = {}]
    /\ view' = [view EXCEPT ![t] = {}]
    /\ batch' = [batch EXCEPT ![t] = <<>>]
    /\ heard' = [heard EXCEPT ![t] = <<>>]

\* An event is written, unless this connection was sent it before.  A client that is gone
\* hears nothing, and the write that fails ends the stream.
SendAgainBug(t) ==
    /\ place[t] = "send" /\ batch[t] # <<>>
    /\ sent' = [sent EXCEPT ![t] = @ \cup {Head(batch[t])}]
    /\ last' = [last EXCEPT ![t] = Head(batch[t])]
    /\ batch' = [batch EXCEPT ![t] = Tail(@)]
    /\ heard' = [heard EXCEPT ![t] = Append(@, Head(batch[t]))]
    /\ resume' = Head(batch[t])
    /\ UNCHANGED <<scenario, logVars, place, kind, limiterVars, others, view, volumeVars>>

Send(t) ==
    /\ place[t] = "send" /\ batch[t] # <<>>
    /\ \/ /\ batch' = [batch EXCEPT ![t] = Tail(@)]
          /\ IF Head(batch[t]) \in sent[t] THEN UNCHANGED <<sent, last, heard, resume>>
             ELSE /\ sent' = [sent EXCEPT ![t] = @ \cup {Head(batch[t])}]
                  /\ last' = [last EXCEPT ![t] = Head(batch[t])]
                  /\ heard' = [heard EXCEPT ![t] = Append(@, Head(batch[t]))]
                  /\ resume' = Head(batch[t])
          /\ UNCHANGED <<place, view>>
       \/ Head(batch[t]) \notin sent[t] /\ Hangs(t) /\ UNCHANGED resume
    /\ UNCHANGED <<scenario, logVars, kind, limiterVars, others, volumeVars>>

\* The keep-alive after the last event finds the client gone, or the loop goes on.
KeepAlive(t) ==
    /\ place[t] = "send" /\ batch[t] = <<>>
    /\ \/ Hangs(t)
       \/ /\ Goto(t, "poll")
          /\ view' = [view EXCEPT ![t] = {}]
          /\ UNCHANGED <<last, sent, batch, heard>>
    /\ UNCHANGED <<scenario, logVars, kind, limiterVars, others, resume, volumeVars>>

-----------------------------------------------------------------------------
(* POST /api/tts/volume *)

Storing == {"tmp", "replace"}

\* proxy_tts_app_volume: the speech service took the volume.
ProxyVolume(t) ==
    /\ place[t] = "volume"
    /\ Ends(t)
    /\ value' = [value EXCEPT ![t] = None]
    /\ UNCHANGED <<scenario, logVars, kind, limiterVars, streamVars, file, tmp, handle, stored,
                   overlapped>>

\* It cannot be reached, or there is none: write_tts_app_volume_file opens the file beside.
OpenTmp(t) ==
    /\ place[t] = "volume"
    /\ tmp' = "torn"
    /\ handle' = [handle EXCEPT ![t] = "tmp"]
    /\ overlapped' = (overlapped \/ \E u \in Threads : place[u] \in Storing)
    /\ Goto(t, "tmp")
    /\ UNCHANGED <<scenario, logVars, kind, limiterVars, streamVars, file, value, stored>>

\* What a thread writes goes to the file it opened, also when that was renamed meanwhile.
WriteTmp(t) ==
    /\ place[t] = "tmp"
    /\ tmp' = IF handle[t] = "tmp" THEN value[t] ELSE tmp
    /\ file' = IF handle[t] = "file" THEN value[t] ELSE file
    /\ Goto(t, "replace")
    /\ UNCHANGED <<scenario, logVars, kind, limiterVars, streamVars, handle, value, stored, overlapped>>

\* Without the file beside, os.replace raises and the connection is dropped.
ReplaceUnwrittenBug(t) ==
    /\ place[t] = "tmp" /\ tmp # None
    /\ file' = tmp /\ tmp' = None
    /\ handle' = [u \in Threads |-> IF u # t /\ handle[u] = "tmp" THEN "file" ELSE None]
    /\ stored' = value[t]
    /\ overlapped' = \E u \in Threads \ {t} : place[u] \in Storing
    /\ Ends(t)
    /\ UNCHANGED <<scenario, logVars, kind, limiterVars, streamVars, value>>

Replace(t) ==
    /\ place[t] = "replace"
    /\ IF tmp = None
       THEN handle' = [handle EXCEPT ![t] = None] /\ UNCHANGED <<file, tmp, stored, overlapped>>
       ELSE /\ file' = tmp /\ tmp' = None
            /\ handle' = [u \in Threads |->
                            IF u # t /\ handle[u] = "tmp" THEN "file" ELSE None]
            /\ stored' = value[t]
            /\ overlapped' = \E u \in Threads \ {t} : place[u] \in Storing
    /\ Ends(t)
    /\ value' = [value EXCEPT ![t] = None]
    /\ UNCHANGED <<scenario, logVars, kind, limiterVars, streamVars>>

-----------------------------------------------------------------------------
StreamStep(t) == Poll(t) \/ Merge(t) \/ Send(t) \/ KeepAlive(t)

RequestStep(t) ==
    \/ Refuse(t) \/ Allow(t) \/ Purge(t) \/ PurgeRaises(t) \/ PopExpired(t) \/ Count(t)
    \/ ClearStore(t)
    \/ StreamStep(t)
    \/ ProxyVolume(t) \/ OpenTmp(t) \/ WriteTmp(t) \/ Replace(t)

Next ==
    \/ Tick \/ StoreStep \/ OtherLogs
    \/ \E t \in Threads : RequestStep(t) \/ \E k \in scenario.kinds : t \in scenario.threads /\ Ask(t, k)

Spec == Init /\ [][Next]_vars
-----------------------------------------------------------------------------
(* Properties *)

\* A connection is never sent an event twice, although the log is cut, torn and cleared
\* under the stream and the last event it sent may be gone from it.
NoEchoes == \A t \in Threads :
    \A i, j \in DOMAIN heard[t] : heard[t][i] = heard[t][j] => i = j

\* A stream is never stuck behind an event that was cut from the log, on this connection or
\* before the client came back with its Last-Event-ID: whenever it has written what it read,
\* each event of the store in its view was sent, or a newer one was.
CaughtUp == \A t \in Threads : place[t] = "send" /\ batch[t] = <<>> =>
    \A e \in view[t] : \E f \in sent[t] \cup {last[t]} : f >= e

\* In a window in which no two requests met in the limiter no more than the limit were
\* allowed, whatever a request that raced in an earlier window has left or still writes.
LimitKept == ~contested => granted <= Limit

\* The volume file is whole, and holds what the last request that wrote it was given, once a
\* request has written it with no other one writing.
VolumeWhole == ~overlapped => file = stored /\ file # "torn"
=============================================================================
