--------------------------- MODULE ConsoleProofs ---------------------------
(***************************************************************************)
(* Theorems about Console, for any number of handler threads and writers,  *)
(* and any limits and volumes: the log keeps the latest events, a stream   *)
(* sends none of them twice and is never stuck behind one, the rate limit  *)
(* is kept where no two requests met in the limiter, and the volume file   *)
(* is whole where no two were writing it.                                  *)
(***************************************************************************)
EXTENDS Console, SequenceTheorems, WellFoundedInduction, FiniteSetTheorems, TLAPS

Places == {"idle", "check", "purge", "count", "clear", "poll", "merge", "send",
           "volume", "tmp", "replace"}

PlaceOK == place \in [Threads -> Places]

-----------------------------------------------------------------------------
(* The stream *)

\* What a connection heard it was sent, and nothing twice.
Echo ==
    /\ DOMAIN sent = Threads /\ DOMAIN heard = Threads
    /\ \A t \in Threads : heard[t] \in Seq(sent[t])
    /\ NoEchoes

-----------------------------------------------------------------------------
(* The volume file *)

\* An open handle belongs to a request that stores its volume; there is a file beside the
\* volume file as long as a handle is open on it; and the last request that stores one has
\* left its own volume in it.
Vol ==
    /\ handle \in [Threads -> {None, "tmp", "file"}] /\ value \in [Threads -> Volumes \cup {None}]
    /\ \A t \in Threads : handle[t] # None => place[t] \in Storing
    /\ \A t \in Threads : place[t] \in {"volume", "tmp", "replace"} => value[t] \in Volumes
    /\ \A t \in Threads : handle[t] = "tmp" => tmp # None
    /\ tmp # None => \E t \in Threads : handle[t] = "tmp"
    /\ ~overlapped => \A t \in Threads : handle[t] # "file"
    /\ \A t \in Threads :
         /\ place[t] = "replace" /\ handle[t] = "tmp"
         /\ \A u \in Threads \ {t} : place[u] \notin Storing
         => tmp = value[t]
    /\ VolumeWhole

\* A step of a request that is not about the volume.
LEMMA VolElsewhere ==
  ASSUME PlaceOK, Vol, NEW t \in Threads, NEW p \in Places \ {"volume", "tmp", "replace"},
         place[t] \notin Storing, place' = [place EXCEPT ![t] = p],
         UNCHANGED <<file, tmp, handle, stored, overlapped>>,
         value' \in [Threads -> Volumes \cup {None}],
         \A u \in Threads \ {t} : value'[u] = value[u]
  PROVE  Vol'
<1>1. \A u \in Threads : place'[u] = IF u = t THEN p ELSE place[u]
  BY DEF PlaceOK
<1>2. \A u \in Threads : place'[u] \in Storing <=> place[u] \in Storing
  BY <1>1 DEF Storing
<1>3. \A u \in Threads : place'[u] = "replace" => u # t /\ place[u] = "replace"
  BY <1>1
<1>4. \A u \in Threads : place'[u] \in {"volume", "tmp", "replace"} =>
        u # t /\ place[u] \in {"volume", "tmp", "replace"}
  BY <1>1
<1>5. VolumeWhole'
  BY DEF Vol, VolumeWhole
<1> QED
  BY <1>2, <1>3, <1>4, <1>5 DEF Vol

LEMMA VolCount == ASSUME PlaceOK, Vol, NEW t \in Threads, Count(t) PROVE Vol'
<1>1. /\ place[t] = "count" /\ UNCHANGED <<file, tmp, handle, stored, overlapped>>
      /\ \/ (\E p \in {"idle", "poll", "clear"} : place' = [place EXCEPT ![t] = p]) /\ UNCHANGED value
         \/ /\ place' = [place EXCEPT ![t] = "volume"]
            /\ \E v \in Volumes : value' = [value EXCEPT ![t] = v]
  BY DEF Count, Serve, Ends, Goto
<1>2. place[t] \notin Storing
  BY <1>1 DEF Storing
<1>3. CASE (\E p \in {"idle", "poll", "clear"} : place' = [place EXCEPT ![t] = p]) /\ UNCHANGED value
  <2>1. value' \in [Threads -> Volumes \cup {None}] /\ \A u \in Threads \ {t} : value'[u] = value[u]
    BY <1>3 DEF Vol
  <2> QED
    BY <1>1, <1>2, <1>3, <2>1, VolElsewhere DEF Places
<1>4. CASE /\ place' = [place EXCEPT ![t] = "volume"]
           /\ \E v \in Volumes : value' = [value EXCEPT ![t] = v]
  <2>1. /\ value' \in [Threads -> Volumes \cup {None}] /\ value'[t] \in Volumes
        /\ \A u \in Threads \ {t} : value'[u] = value[u]
    BY <1>4 DEF Vol
  <2>2. \A u \in Threads : place'[u] = IF u = t THEN "volume" ELSE place[u]
    BY <1>4 DEF PlaceOK
  <2>3. \A u \in Threads : place'[u] \in Storing <=> place[u] \in Storing
    BY <1>2, <2>2 DEF Storing
  <2>4. VolumeWhole'
    BY <1>1 DEF Vol, VolumeWhole
  <2>5. \A u \in Threads : place'[u] = "replace" => u # t /\ place[u] = "replace"
    BY <2>2
  <2>6. \A u \in Threads : place'[u] \in {"volume", "tmp", "replace"} => value'[u] \in Volumes
    BY <2>1, <2>2 DEF Vol
  <2> QED
    BY <1>1, <2>1, <2>3, <2>4, <2>5, <2>6 DEF Vol
<1> QED
  BY <1>1, <1>3, <1>4

LEMMA VolProxy == ASSUME PlaceOK, Vol, NEW t \in Threads, ProxyVolume(t) PROVE Vol'
<1>1. /\ place[t] \notin Storing /\ place' = [place EXCEPT ![t] = "idle"]
      /\ value' = [value EXCEPT ![t] = None]
      /\ UNCHANGED <<file, tmp, handle, stored, overlapped>>
  BY DEF ProxyVolume, Ends, Goto, Storing
<1>2. value' \in [Threads -> Volumes \cup {None}] /\ \A u \in Threads \ {t} : value'[u] = value[u]
  BY <1>1 DEF Vol
<1> QED
  BY <1>1, <1>2, VolElsewhere DEF Places

LEMMA VolOpen == ASSUME PlaceOK, Vol, NEW t \in Threads, OpenTmp(t) PROVE Vol'
<1>1. /\ place[t] = "volume" /\ place' = [place EXCEPT ![t] = "tmp"]
      /\ tmp' = "torn" /\ handle' = [handle EXCEPT ![t] = "tmp"]
      /\ overlapped' = (overlapped \/ \E u \in Threads : place[u] \in Storing)
      /\ UNCHANGED <<file, value, stored>>
  BY DEF OpenTmp, Goto
<1>2. \A u \in Threads : /\ place'[u] = IF u = t THEN "tmp" ELSE place[u]
                         /\ handle'[u] = IF u = t THEN "tmp" ELSE handle[u]
  BY <1>1 DEF PlaceOK, Vol
<1>3. /\ handle' \in [Threads -> {None, "tmp", "file"}]
      /\ value' \in [Threads -> Volumes \cup {None}]
  BY <1>1 DEF Vol
<1>4. \A u \in Threads : handle'[u] # None => place'[u] \in Storing
  BY <1>2 DEF Vol, Storing
<1>5. \A u \in Threads : place'[u] \in {"volume", "tmp", "replace"} => value'[u] \in Volumes
  BY <1>1, <1>2 DEF Vol
<1>6. tmp' # None /\ handle'[t] = "tmp"
  BY <1>1, <1>2, ConsoleAssumption
<1>7. ~overlapped' => ~overlapped
  BY <1>1, Zenon
<1>8. ~overlapped' => \A u \in Threads : handle'[u] # "file"
  BY <1>2, <1>7 DEF Vol
<1>9. \A u \in Threads : ~(/\ place'[u] = "replace"
                           /\ \A v \in Threads \ {u} : place'[v] \notin Storing)
  BY <1>2 DEF Storing
<1>10. VolumeWhole'
  BY <1>1, <1>7 DEF Vol, VolumeWhole
<1> QED
  BY <1>3, <1>4, <1>5, <1>6, <1>8, <1>9, <1>10 DEF Vol

LEMMA VolWrite == ASSUME PlaceOK, Vol, NEW t \in Threads, WriteTmp(t) PROVE Vol'
<1>1. /\ place[t] = "tmp" /\ place' = [place EXCEPT ![t] = "replace"]
      /\ tmp' = IF handle[t] = "tmp" THEN value[t] ELSE tmp
      /\ file' = IF handle[t] = "file" THEN value[t] ELSE file
      /\ UNCHANGED <<handle, value, stored, overlapped>>
  BY DEF WriteTmp, Goto
<1>2. \A u \in Threads : place'[u] = IF u = t THEN "replace" ELSE place[u]
  BY <1>1 DEF PlaceOK
<1>3. \A u \in Threads : place'[u] \in Storing <=> place[u] \in Storing
  BY <1>1, <1>2 DEF Storing
<1>4. value[t] \in Volumes /\ value[t] # None
  BY <1>1, ConsoleAssumption DEF Vol
<1>5. \A u \in Threads : place'[u] \in {"volume", "tmp", "replace"} => value'[u] \in Volumes
  BY <1>1, <1>2 DEF Vol
<1>6. tmp' # None <=> tmp # None
  BY <1>1, <1>4 DEF Vol
<1>7. ASSUME NEW u \in Threads, place'[u] = "replace", handle'[u] = "tmp",
             \A v \in Threads \ {u} : place'[v] \notin Storing
      PROVE  tmp' = value'[u]
  <2>1. u = t
    BY <1>2, <1>7 DEF Storing
  <2> QED
    BY <1>1, <1>7, <2>1
<1>8. VolumeWhole'
  BY <1>1 DEF Vol, VolumeWhole
<1> QED
  BY <1>1, <1>3, <1>5, <1>6, <1>7, <1>8 DEF Vol

LEMMA VolReplace == ASSUME PlaceOK, Vol, NEW t \in Threads, Replace(t) PROVE Vol'
<1>1. /\ place[t] = "replace" /\ place' = [place EXCEPT ![t] = "idle"]
      /\ value' = [value EXCEPT ![t] = None]
  BY DEF Replace, Ends, Goto
<1>2. \A u \in Threads : /\ place'[u] = IF u = t THEN "idle" ELSE place[u]
                         /\ value'[u] = IF u = t THEN None ELSE value[u]
  BY <1>1 DEF PlaceOK, Vol
<1>3. /\ \A u \in Threads : place'[u] \in {"volume", "tmp", "replace"} => value'[u] \in Volumes
      /\ value' \in [Threads -> Volumes \cup {None}]
  BY <1>1, <1>2 DEF Vol
<1>4. CASE tmp = None
  <2>1. handle' = [handle EXCEPT ![t] = None] /\ UNCHANGED <<file, tmp, stored, overlapped>>
    BY <1>4 DEF Replace
  <2>2. /\ handle' \in [Threads -> {None, "tmp", "file"}]
        /\ \A u \in Threads : handle'[u] = IF u = t THEN None ELSE handle[u]
    BY <2>1 DEF Vol
  <2>3. \A u \in Threads : handle'[u] # None => place'[u] \in Storing
    BY <1>2, <2>2 DEF Vol
  <2>4. \A u \in Threads : handle[u] # "tmp" /\ handle'[u] # "tmp"
    BY <1>4, <2>2, ConsoleAssumption DEF Vol
  <2>5. ~overlapped' => \A u \in Threads : handle'[u] # "file"
    BY <2>1, <2>2, ConsoleAssumption DEF Vol
  <2>6. VolumeWhole'
    BY <2>1 DEF Vol, VolumeWhole
  <2> QED
    BY <1>3, <1>4, <2>1, <2>2, <2>3, <2>4, <2>5, <2>6 DEF Vol
<1>5. CASE tmp # None
  <2>1. /\ file' = tmp /\ tmp' = None /\ stored' = value[t]
        /\ handle' = [u \in Threads |-> IF u # t /\ handle[u] = "tmp" THEN "file" ELSE None]
        /\ overlapped' = \E u \in Threads \ {t} : place[u] \in Storing
    BY <1>5 DEF Replace
  <2>2. handle' \in [Threads -> {None, "tmp", "file"}]
    BY <2>1
  <2>3. \A u \in Threads : handle'[u] # None => u # t /\ handle[u] = "tmp" /\ handle'[u] = "file"
    BY <2>1
  <2>4. \A u \in Threads : handle'[u] # None => place'[u] \in Storing
    BY <1>2, <2>3, ConsoleAssumption DEF Vol
  <2>5. \A u \in Threads : handle'[u] # "tmp"
    BY <2>1, ConsoleAssumption
  <2>6. ASSUME ~overlapped'
        PROVE  /\ \A u \in Threads \ {t} : place[u] \notin Storing
               /\ \A u \in Threads : handle'[u] # "file"
               /\ file' = value[t]
    <3>1. \A u \in Threads \ {t} : place[u] \notin Storing
      BY <2>1, <2>6
    <3>2. \A u \in Threads \ {t} : handle[u] # "tmp"
      BY <3>1, ConsoleAssumption DEF Vol
    <3>3. handle[t] = "tmp"
      BY <1>5, <3>2 DEF Vol
    <3> QED
      BY <1>1, <2>1, <3>1, <3>2, <3>3, ConsoleAssumption DEF Vol
  <2>7. value[t] \in Volumes /\ value[t] # "torn"
    BY <1>1, ConsoleAssumption DEF Vol
  <2>8. VolumeWhole'
    BY <2>1, <2>6, <2>7 DEF VolumeWhole
  <2> QED
    BY <1>3, <2>1, <2>2, <2>4, <2>5, <2>6, <2>8 DEF Vol
<1> QED
  BY <1>4, <1>5

-----------------------------------------------------------------------------
(* The limiter *)

Entry == [start : Nat, count : Nat]
Reading == [start : Nat, count : Nat, now : Nat]

\* The request in the limiter, where it is the only one of this window, works with the entry
\* as it is: it has read it, has found it expired, or is about to count one more.
Alone ==
    /\ \A t, u \in Threads : place[t] \in Limited /\ place[u] \in Limited => t = u
    /\ granted <= Limit
    /\ window # None => granted <= window.count
    /\ \A t \in Threads : place[t] = "check" =>
         IF window = None THEN read[t].start = read[t].now
         ELSE read[t].start = window.start /\ read[t].count = window.count
    /\ \A t \in Threads : place[t] = "purge" =>
         window # None /\ read[t].now - window.start >= Window
    /\ \A t \in Threads : place[t] = "count" =>
         \/ window = None \/ window.start < read[t].start
         \/ read[t].start = window.start /\ read[t].count = window.count

Lim ==
    /\ tick \in Nat /\ granted \in Nat /\ window \in Entry \cup {None}
    /\ DOMAIN read = Threads
    /\ \A t \in Threads : place[t] \in Limited => read[t] \in Reading
    /\ \A t \in Threads : place[t] = "purge" => read[t].count = 0
    /\ \A t \in Threads : place[t] = "count" => read[t].count < Limit
    /\ ~contested => Alone

\* A step outside the limiter.
LEMMA LimElsewhere ==
  ASSUME Lim, UNCHANGED <<window, read, granted, contested>>, tick' \in Nat,
         \A u \in Threads : place[u] = place'[u] \/ {place[u], place'[u]} \cap Limited = {}
  PROVE  Lim'
<1>1. \A u \in Threads : place'[u] \in Limited => place[u] = place'[u]
  OBVIOUS
<1>2. Alone => Alone'
  <2>1. \A u \in Threads : place'[u] \in {"check", "purge", "count"} => place[u] = place'[u]
    BY <1>1 DEF Limited
  <2> QED
    BY <1>1, <2>1 DEF Alone
<1>3. \A u \in Threads : place'[u] \in {"check", "purge", "count"} => place[u] = place'[u]
  BY <1>1 DEF Limited
<1> QED
  BY <1>1, <1>2, <1>3 DEF Lim

LEMMA LimAsk ==
  ASSUME PlaceOK, Lim, NEW t \in Threads, NEW k, Ask(t, k)
  PROVE  Lim'
<1> USE ConsoleAssumption
<1>1. /\ place[t] = "idle" /\ place' = [place EXCEPT ![t] = "check"]
      /\ read' = [read EXCEPT ![t] =
                  IF window = None THEN [start |-> tick, count |-> 0, now |-> tick]
                  ELSE [start |-> window.start, count |-> window.count, now |-> tick]]
      /\ contested' = (contested \/ \E u \in Threads : place[u] \in Limited)
      /\ UNCHANGED <<tick, window, granted>>
  BY DEF Ask, Goto
<1>2. \A u \in Threads : /\ place'[u] = IF u = t THEN "check" ELSE place[u]
                         /\ u # t => read'[u] = read[u]
  BY <1>1 DEF PlaceOK, Lim
<1>3. /\ read'[t] = IF window = None THEN [start |-> tick, count |-> 0, now |-> tick]
                    ELSE [start |-> window.start, count |-> window.count, now |-> tick]
      /\ DOMAIN read' = Threads
  BY <1>1 DEF Lim
<1>4. read'[t] \in Reading
  BY <1>3 DEF Lim, Reading, Entry
<1>5. ~contested' => ~contested /\ \A u \in Threads : place[u] \notin Limited
  BY <1>1, Zenon
<1>6. ~contested' => Alone'
  <2> SUFFICES ASSUME ~contested' PROVE Alone'
    OBVIOUS
  <2>1. Alone /\ \A u \in Threads \ {t} : place'[u] \notin Limited
    BY <1>2, <1>5 DEF Lim
  <2>2. \A u \in Threads \ {t} : place'[u] \notin {"check", "purge", "count"}
    BY <2>1 DEF Limited
  <2> QED
    BY <1>1, <1>2, <1>3, <2>1, <2>2 DEF Alone
<1> QED
  BY <1>1, <1>2, <1>3, <1>4, <1>6 DEF Lim

LEMMA LimLeave ==
  ASSUME PlaceOK, Lim, NEW t \in Threads, place' = [place EXCEPT ![t] = "idle"],
         read' = [read EXCEPT ![t] = None], UNCHANGED <<tick, window, granted, contested>>
  PROVE  Lim'
<1>1. \A u \in Threads : /\ place'[u] = IF u = t THEN "idle" ELSE place[u]
                         /\ u # t => read'[u] = read[u]
  BY DEF PlaceOK, Lim
<1>2. \A u \in Threads : place'[u] \in Limited => u # t
  BY <1>1 DEF Limited
<1>3. Alone => Alone'
  BY <1>1, <1>2 DEF Alone
<1> QED
  BY <1>1, <1>2, <1>3 DEF Lim

LEMMA LimAllow == ASSUME PlaceOK, Lim, NEW t \in Threads, Allow(t) PROVE Lim'
<1>1. /\ place[t] = "check" /\ read[t].count < Limit /\ place' = [place EXCEPT ![t] = "count"]
      /\ UNCHANGED <<tick, window, read, granted, contested>>
  BY DEF Allow, Goto, limiterVars
<1>2. \A u \in Threads : place'[u] = IF u = t THEN "count" ELSE place[u]
  BY <1>1 DEF PlaceOK
<1>3. \A u \in Threads : place'[u] \in Limited <=> place[u] \in Limited
  BY <1>1, <1>2 DEF Limited
<1>4. Alone => Alone'
  BY <1>1, <1>2, <1>3 DEF Alone
<1> QED
  BY <1>1, <1>2, <1>3, <1>4 DEF Lim

LEMMA LimPurge == ASSUME PlaceOK, Lim, NEW t \in Threads, Purge(t) PROVE Lim'
<1> USE ConsoleAssumption
<1>1. /\ place[t] = "check" /\ read[t].now - read[t].start >= Window
      /\ place' = [place EXCEPT ![t] = "purge"]
      /\ read' = [read EXCEPT ![t] = [start |-> read[t].now, count |-> 0, now |-> read[t].now]]
      /\ UNCHANGED <<tick, window, granted, contested>>
  BY DEF Purge, Goto, Fresh, Expired
<1>2. \A u \in Threads : /\ place'[u] = IF u = t THEN "purge" ELSE place[u]
                         /\ u # t => read'[u] = read[u]
  BY <1>1 DEF PlaceOK, Lim
<1>3. /\ read'[t] = [start |-> read[t].now, count |-> 0, now |-> read[t].now]
      /\ DOMAIN read' = Threads
  BY <1>1 DEF Lim
<1>4. read[t] \in Reading /\ read'[t] \in Reading
  BY <1>1, <1>3 DEF Lim, Reading, Limited
<1>5. \A u \in Threads : place'[u] \in Limited <=> place[u] \in Limited
  BY <1>1, <1>2 DEF Limited
<1>6. Alone => Alone'
  <2> SUFFICES ASSUME Alone PROVE Alone'
    OBVIOUS
  <2>1. window # None /\ read[t].start = window.start
    BY <1>1, <1>4 DEF Alone, Reading
  <2>2. read'[t].now - window.start >= Window
    BY <1>1, <1>3, <2>1
  <2> QED
    BY <1>1, <1>2, <1>5, <2>1, <2>2 DEF Alone
<1> QED
  BY <1>1, <1>2, <1>3, <1>4, <1>5, <1>6 DEF Lim

LEMMA LimPop == ASSUME PlaceOK, Lim, NEW t \in Threads, PopExpired(t) PROVE Lim'
<1> USE ConsoleAssumption
<1>1. /\ place[t] = "purge" /\ place' = [place EXCEPT ![t] = "count"]
      /\ window' = IF window # None /\ read[t].now - window.start >= Window THEN None ELSE window
      /\ UNCHANGED <<tick, read, granted, contested>>
  BY DEF PopExpired, Goto
<1>2. \A u \in Threads : place'[u] = IF u = t THEN "count" ELSE place[u]
  BY <1>1 DEF PlaceOK
<1>3. \A u \in Threads : place'[u] \in Limited <=> place[u] \in Limited
  BY <1>1, <1>2 DEF Limited
<1>4. read[t].count < Limit
  BY <1>1 DEF Lim
<1>5. Alone => Alone'
  <2> SUFFICES ASSUME Alone PROVE Alone'
    OBVIOUS
  <2>1. window' = None
    BY <1>1 DEF Alone
  <2>2. \A u \in Threads \ {t} : place'[u] \notin {"check", "purge", "count"}
    BY <1>1, <1>2 DEF Alone, Limited
  <2> QED
    BY <1>1, <1>2, <1>3, <2>1, <2>2 DEF Alone
<1> QED
  BY <1>1, <1>2, <1>3, <1>4, <1>5 DEF Lim

LEMMA LimCount == ASSUME PlaceOK, Lim, NEW t \in Threads, Count(t) PROVE Lim'
<1> USE ConsoleAssumption
<1> DEFINE begins == window = None \/ window.start < read[t].start
           free == \A u \in Threads \ {t} : place[u] \notin Limited
<1>1. /\ place[t] = "count" /\ read' = [read EXCEPT ![t] = None]
      /\ window' = [start |-> read[t].start, count |-> read[t].count + 1]
      /\ granted' = IF begins THEN 1 ELSE granted + 1
      /\ contested' = ((~begins /\ contested) \/ \E u \in Threads \ {t} : place[u] \in Limited)
      /\ tick' = tick
      /\ \E p \in {"idle", "poll", "volume", "clear"} : place' = [place EXCEPT ![t] = p]
  BY DEF Count, CountWindow, Serve, Ends, Goto
<1>2. /\ \A u \in Threads \ {t} : place'[u] = place[u] /\ read'[u] = read[u]
      /\ place'[t] \notin Limited /\ DOMAIN read' = Threads
  BY <1>1 DEF PlaceOK, Lim, Limited
<1>3. read[t] \in Reading /\ read[t].count < Limit
  BY <1>1 DEF Lim, Limited
<1>4. window' \in Entry /\ granted' \in Nat
  BY <1>1, <1>3 DEF Lim, Entry, Reading
<1>5. ~contested' => (begins \/ ~contested) /\ free
  BY <1>1, Zenon
<1>6. ~contested' => Alone'
  <2> SUFFICES ASSUME ~contested' PROVE Alone'
    OBVIOUS
  <2>1. \A u \in Threads : place'[u] \notin Limited
    BY <1>2, <1>5
  <2>2. granted' <= read[t].count + 1
    <3>1. CASE begins
      BY <1>1, <1>3, <3>1 DEF Reading
    <3>2. CASE ~begins
      <4>1. Alone
        BY <1>5, <3>2 DEF Lim
      <4>2. read[t].count = window.count /\ granted <= window.count
        BY <1>1, <3>2, <4>1 DEF Alone
      <4> QED
        BY <1>1, <1>3, <3>2, <4>2 DEF Lim, Reading
    <3> QED
      BY <3>1, <3>2
  <2>3. granted' <= Limit /\ granted' <= window'.count
    BY <1>1, <1>3, <1>4, <2>2 DEF Reading
  <2>4. \A u \in Threads : place'[u] \notin {"check", "purge", "count"}
    BY <2>1 DEF Limited
  <2> QED
    BY <2>1, <2>3, <2>4 DEF Alone
<1>7. \A u \in Threads : place'[u] \in Limited \cup {"check", "purge", "count"} => u # t
  BY <1>2 DEF Limited
<1> QED
  BY <1>1, <1>2, <1>4, <1>6, <1>7 DEF Lim

-----------------------------------------------------------------------------
(* The stream: a step sends an event, forgets the connection, or does neither *)

LEMMA EchoSend == ASSUME Echo, NEW t \in Threads, Send(t) PROVE Echo'
<1> DEFINE h == Head(batch[t])
<1>1. \/ UNCHANGED <<sent, heard>>
      \/ sent' = [sent EXCEPT ![t] = {}] /\ heard' = [heard EXCEPT ![t] = <<>>]
      \/ /\ h \notin sent[t]
         /\ sent' = [sent EXCEPT ![t] = @ \cup {h}]
         /\ heard' = [heard EXCEPT ![t] = Append(@, h)]
  BY DEF Send, Hangs
<1> HIDE DEF h
<1>2. CASE UNCHANGED <<sent, heard>>
  BY <1>2 DEF Echo, NoEchoes
<1>3. CASE sent' = [sent EXCEPT ![t] = {}] /\ heard' = [heard EXCEPT ![t] = <<>>]
  <2>1. \A u \in Threads : /\ sent'[u] = IF u = t THEN {} ELSE sent[u]
                           /\ heard'[u] = IF u = t THEN <<>> ELSE heard[u]
    BY <1>3 DEF Echo
  <2>2. \A u \in Threads : heard'[u] \in Seq(sent'[u])
    BY <2>1, EmptySeq DEF Echo
  <2> QED
    BY <1>3, <2>1, <2>2 DEF Echo, NoEchoes
<1>4. CASE /\ h \notin sent[t]
           /\ sent' = [sent EXCEPT ![t] = @ \cup {h}]
           /\ heard' = [heard EXCEPT ![t] = Append(@, h)]
  <2>1. \A u \in Threads : /\ sent'[u] = IF u = t THEN sent[t] \cup {h} ELSE sent[u]
                           /\ heard'[u] = IF u = t THEN Append(heard[t], h) ELSE heard[u]
    BY <1>4 DEF Echo
  <2>2. heard[t] \in Seq(sent[t])
    BY DEF Echo
  <2>3. \A i \in 1..Len(heard[t]) : heard[t][i] \in sent[t]
    BY <2>2, ElementOfSeq
  <2>4. heard[t] \in Seq(sent[t] \cup {h}) /\ h \in sent[t] \cup {h}
    <3> DEFINE S == sent[t] \cup {h}
    <3>1. Len(heard[t]) \in Nat /\ heard[t] = [i \in 1..Len(heard[t]) |-> heard[t][i]]
      BY <2>2, LenProperties
    <3>2. \A i \in 1..Len(heard[t]) : heard[t][i] \in S
      BY <2>3
    <3> QED
      BY <2>2, <3>1, <3>2, IsASeq
  <2>5. /\ Append(heard[t], h) \in Seq(sent[t] \cup {h})
        /\ Len(heard[t]) \in Nat /\ Len(Append(heard[t], h)) = Len(heard[t]) + 1
        /\ \A i \in 1..Len(heard[t]) : Append(heard[t], h)[i] = heard[t][i]
        /\ Append(heard[t], h)[Len(heard[t]) + 1] = h
    BY <2>4, AppendProperties
  <2>6. \A u \in Threads : heard'[u] \in Seq(sent'[u])
    BY <2>1, <2>5 DEF Echo
  <2>7. ASSUME NEW i \in 1..Len(heard'[t]), NEW j \in 1..Len(heard'[t]), heard'[t][i] = heard'[t][j]
        PROVE  i = j
    <3> DEFINE n == Len(heard[t])
    <3>1. n \in Nat /\ i \in 1..(n + 1) /\ j \in 1..(n + 1)
      BY <2>1, <2>5
    <3>2. /\ i \in 1..n => heard'[t][i] = heard[t][i] /\ heard[t][i] \in sent[t]
          /\ j \in 1..n => heard'[t][j] = heard[t][j] /\ heard[t][j] \in sent[t]
          /\ heard'[t][n + 1] = h
      BY <2>1, <2>3, <2>5
    <3>3. DOMAIN heard[t] = 1..n
      BY <2>2, LenProperties
    <3>4. i \in 1..n /\ j \in 1..n => i = j
      BY <2>7, <3>2, <3>3 DEF Echo, NoEchoes
    <3>5. (i = n + 1 \/ i \in 1..n) /\ (j = n + 1 \/ j \in 1..n)
      BY <3>1
    <3> QED
      BY <1>4, <2>7, <3>2, <3>4, <3>5
  <2>8. DOMAIN heard'[t] = 1..Len(heard'[t])
    BY <2>6, LenProperties
  <2>9. NoEchoes'
    BY <2>1, <2>7, <2>8 DEF Echo, NoEchoes
  <2> QED
    BY <1>4, <2>6, <2>9 DEF Echo
<1> QED
  BY <1>1, <1>2, <1>3, <1>4

LEMMA EchoForget ==
  ASSUME Echo, NEW t \in Threads,
         \/ UNCHANGED <<sent, heard>>
         \/ sent' = [sent EXCEPT ![t] = {}] /\ heard' = [heard EXCEPT ![t] = <<>>]
  PROVE  Echo'
<1>1. CASE UNCHANGED <<sent, heard>>
  BY <1>1 DEF Echo, NoEchoes
<1>2. CASE sent' = [sent EXCEPT ![t] = {}] /\ heard' = [heard EXCEPT ![t] = <<>>]
  <2>1. \A u \in Threads : /\ sent'[u] = IF u = t THEN {} ELSE sent[u]
                           /\ heard'[u] = IF u = t THEN <<>> ELSE heard[u]
    BY <1>2 DEF Echo
  <2>2. \A u \in Threads : heard'[u] \in Seq(sent'[u])
    BY <2>1, EmptySeq DEF Echo
  <2> QED
    BY <1>2, <2>1, <2>2 DEF Echo, NoEchoes
<1> QED
  BY <1>1, <1>2

-----------------------------------------------------------------------------
(* What every behaviour keeps *)

IInv == PlaceOK /\ Echo /\ Vol /\ Lim

LEMMA InitIInv == Init => IInv
<1> SUFFICES ASSUME Init PROVE IInv
  OBVIOUS
<1> USE ConsoleAssumption DEF Init
<1>1. PlaceOK
  BY DEF PlaceOK, Places
<1>2. Echo
  BY EmptySeq DEF Echo, NoEchoes
<1>3. Vol
  BY DEF Vol, VolumeWhole, Storing
<1>4. Lim
  BY DEF Lim, Alone, Limited
<1> QED
  BY <1>1, <1>2, <1>3, <1>4 DEF IInv

\* A step that is about neither the limiter nor the volume file: it moves one thread from
\* and to places outside both, and the stream of that thread goes on or is forgotten.
LEMMA Elsewhere ==
  ASSUME IInv, NEW t \in Threads, NEW p \in Places \ {"check", "purge", "count", "volume", "tmp", "replace"},
         place[t] \notin Limited \cup Storing, place' = [place EXCEPT ![t] = p],
         UNCHANGED <<limiterVars, volumeVars>>, Echo'
  PROVE  IInv'
<1>1. PlaceOK'
  BY DEF IInv, PlaceOK
<1>2. Vol'
  BY VolElsewhere DEF IInv, Vol, volumeVars
<1>3. Lim'
  <2>1. \A u \in Threads : place[u] = place'[u] \/ {place[u], place'[u]} \cap Limited = {}
    BY DEF IInv, PlaceOK, Limited
  <2> QED
    BY <2>1, LimElsewhere DEF IInv, Lim, limiterVars
<1> QED
  BY <1>1, <1>2, <1>3 DEF IInv

LEMMA StepIInv == IInv /\ [Next]_vars => IInv'
<1> SUFFICES ASSUME IInv, [Next]_vars PROVE IInv'
  OBVIOUS
<1> USE DEF Goto
<1>1. CASE UNCHANGED <<place, limiterVars, streamVars, volumeVars>>
  BY <1>1 DEF IInv, PlaceOK, Echo, NoEchoes, Vol, VolumeWhole, Storing, Lim, Alone, Limited,
              limiterVars, streamVars, volumeVars
<1>2. CASE Tick
  <2>1. /\ UNCHANGED <<place, window, read, granted, contested, streamVars, volumeVars>>
        /\ tick' = tick + 1
    BY <1>2 DEF Tick
  <2>2. Lim'
    BY <2>1, LimElsewhere DEF IInv, Lim
  <2> QED
    BY <2>1, <2>2 DEF IInv, PlaceOK, Echo, NoEchoes, Vol, VolumeWhole, Storing, streamVars,
      volumeVars
<1>3. CASE OtherLogs
  BY <1>3 DEF OtherLogs, IInv, PlaceOK, Echo, NoEchoes, Vol, VolumeWhole, Storing, Lim, Alone,
              Limited, limiterVars, volumeVars
<1> SUFFICES ASSUME NEW t \in Threads, RequestStep(t) \/ \E k \in scenario.kinds : Ask(t, k)
             PROVE  IInv'
  BY <1>1, <1>2, <1>3 DEF Next, StoreStep, vars
\* In the limiter no stream is touched, and no volume file.
<1>4. ASSUME NEW p \in {"check", "purge", "count", "idle"}, place' = [place EXCEPT ![t] = p],
             place[t] \notin Storing, UNCHANGED <<streamVars, volumeVars>>, Lim'
      PROVE  IInv'
  <2>1. PlaceOK'
    BY <1>4 DEF IInv, PlaceOK, Places
  <2>2. Echo'
    BY <1>4 DEF IInv, Echo, NoEchoes, streamVars
  <2>3. Vol'
    BY <1>4, VolElsewhere DEF IInv, Vol, Places, volumeVars
  <2> QED
    BY <1>4, <2>1, <2>2, <2>3 DEF IInv
<1>5. ASSUME NEW k, Ask(t, k) PROVE IInv'
  BY <1>4, <1>5, LimAsk DEF IInv, Ask, Storing
<1>6. CASE Refuse(t) \/ PurgeRaises(t)
  BY <1>4, <1>6, LimLeave DEF IInv, Refuse, PurgeRaises, Ends, Storing
<1>7. CASE Allow(t)
  BY <1>4, <1>7, LimAllow DEF IInv, Allow, Storing
<1>8. CASE Purge(t)
  BY <1>4, <1>8, LimPurge DEF IInv, Purge, Storing
<1>9. CASE PopExpired(t)
  BY <1>4, <1>9, LimPop DEF IInv, PopExpired, Storing
<1>10. CASE Count(t)
  <2>1. PlaceOK'
    BY <1>10 DEF IInv, PlaceOK, Places, Count, Serve, Ends
  <2>2. Echo'
    BY <1>10, EchoForget DEF IInv, Count, Serve
  <2> QED
    BY <1>10, <2>1, <2>2, VolCount, LimCount DEF IInv
<1>11. CASE ClearStore(t)
  <2>1. Echo'
    BY <1>11 DEF IInv, Echo, NoEchoes, ClearStore, streamVars
  <2> QED
    BY <1>11, <2>1, Elsewhere DEF ClearStore, Ends, Places, Limited, Storing
<1>12. CASE Poll(t) \/ Merge(t)
  <2>1. Echo'
    BY <1>12 DEF IInv, Echo, NoEchoes, Poll, Merge
  <2> QED
    BY <1>12, <2>1, Elsewhere DEF Poll, Merge, Places, Limited, Storing
<1>13. CASE Send(t)
  <2>1. Echo'
    BY <1>13, EchoSend DEF IInv
  <2>2. CASE place' = [place EXCEPT ![t] = "idle"]
    BY <1>13, <2>1, <2>2, Elsewhere DEF Send, Places, Limited, Storing
  <2>3. CASE place' = place
    BY <1>13, <2>1, <2>3 DEF Send, IInv, PlaceOK, Vol, VolumeWhole, Storing, Lim, Alone, Limited,
                             limiterVars, volumeVars
  <2> QED
    BY <1>13, <2>2, <2>3 DEF Send, Hangs, Ends
<1>14. CASE KeepAlive(t)
  <2>1. Echo'
    BY <1>14, EchoForget DEF IInv, KeepAlive, Hangs
  <2>2. \E p \in {"idle", "poll"} : place' = [place EXCEPT ![t] = p]
    BY <1>14 DEF KeepAlive, Hangs, Ends
  <2> QED
    BY <1>14, <2>1, <2>2, Elsewhere DEF KeepAlive, Places, Limited, Storing
\* Where a volume is stored no stream is touched, and not the limiter.
<1>15. ASSUME NEW p \in {"idle", "tmp", "replace"}, place' = [place EXCEPT ![t] = p],
              place[t] \in {"volume", "tmp", "replace"}, UNCHANGED <<limiterVars, streamVars>>, Vol'
       PROVE  IInv'
  <2>1. PlaceOK'
    BY <1>15 DEF IInv, PlaceOK, Places
  <2>2. Echo'
    BY <1>15 DEF IInv, Echo, NoEchoes, streamVars
  <2>3. \A u \in Threads : place[u] = place'[u] \/ {place[u], place'[u]} \cap Limited = {}
    BY <1>15 DEF IInv, PlaceOK, Limited
  <2>4. Lim'
    BY <1>15, <2>3, LimElsewhere DEF IInv, Lim, limiterVars
  <2> QED
    BY <1>15, <2>1, <2>2, <2>4 DEF IInv
<1>16. CASE ProxyVolume(t)
  BY <1>15, <1>16, VolProxy DEF IInv, ProxyVolume, Ends
<1>17. CASE OpenTmp(t)
  BY <1>15, <1>17, VolOpen DEF IInv, OpenTmp
<1>18. CASE WriteTmp(t)
  BY <1>15, <1>18, VolWrite DEF IInv, WriteTmp
<1>19. CASE Replace(t)
  BY <1>15, <1>19, VolReplace DEF IInv, Replace, Ends
<1> QED
  BY <1>5, <1>6, <1>7, <1>8, <1>9, <1>10, <1>11, <1>12, <1>13, <1>14, <1>16, <1>17, <1>18, <1>19
     DEF RequestStep, StreamStep

LEMMA Invariance == Spec => []IInv
BY InitIInv, StepIInv, PTL DEF Spec

\* A connection is never sent an event twice, although the log is cut, torn and cleared
\* under the stream.
THEOREM HeardOnce == Spec => []NoEchoes
<1>1. IInv => NoEchoes
  BY DEF IInv, Echo
<1> QED
  BY <1>1, Invariance, PTL

\* The volume file is whole, and holds what the last request that wrote it was given, once a
\* request has written it with no other one writing.
THEOREM VolumeStored == Spec => []VolumeWhole
<1>1. IInv => VolumeWhole
  BY DEF IInv, Vol
<1> QED
  BY <1>1, Invariance, PTL

\* In a window in which no two requests met in the limiter no more than the limit were
\* allowed, whatever a request that raced in an earlier window has left or still writes.
THEOREM LimitHolds == Spec => []LimitKept
<1>1. IInv => LimitKept
  BY DEF IInv, Lim, Alone, LimitKept
<1> QED
  BY <1>1, Invariance, PTL

-----------------------------------------------------------------------------
(* The event log *)

LEMMA SuffixSeq ==
  ASSUME NEW s \in Seq(Nat), NEW n \in Nat
  PROVE  /\ Suffix(s, n) \in Seq(Nat)
         /\ Len(Suffix(s, n)) = IF Len(s) <= n THEN Len(s) ELSE n
         /\ \A i \in 1..Len(Suffix(s, n)) :
              Suffix(s, n)[i] = s[Len(s) - Len(Suffix(s, n)) + i]
<1>1. CASE Len(s) <= n
  BY <1>1 DEF Suffix
<1>2. CASE Len(s) > n
  <2>1. Suffix(s, n) = SubSeq(s, Len(s) - n + 1, Len(s))
    BY <1>2 DEF Suffix
  <2>2. \A i \in (Len(s) - n + 1)..Len(s) : s[i] \in Nat
    BY <1>2
  <2>3. /\ Suffix(s, n) \in Seq(Nat)
        /\ Len(Suffix(s, n)) =
             IF Len(s) - n + 1 <= Len(s) THEN Len(s) - (Len(s) - n + 1) + 1 ELSE 0
        /\ \A i \in 1..(Len(s) - (Len(s) - n + 1) + 1) :
             Suffix(s, n)[i] = s[(Len(s) - n + 1) + i - 1]
    BY <2>1, <2>2, SubSeqProperties, Z3
  <2>4. Len(s) - n + 1 <= Len(s) <=> n > 0
    BY <1>2
  <2>5. Len(Suffix(s, n)) = n
    BY <1>2, <2>3
  <2>6. \A i \in 1..n : Suffix(s, n)[i] = s[Len(s) - n + i]
    BY <1>2, <2>3
  <2>7. Len(s) \in Nat /\ ~(Len(s) <= n)
    BY <1>2
  <2> HIDE DEF Suffix
  <2> QED
    BY <2>3, <2>5, <2>6, <2>7
<1> QED
  BY <1>1, <1>2

LEMMA SuffixEmpty == ASSUME NEW n \in Nat PROVE Suffix(<<>>, n) = <<>>
<1>1. Len(<<>>) = 0 /\ 0 <= n
  OBVIOUS
<1> QED
  BY <1>1 DEF Suffix

LEMMA SuffixTwice ==
  ASSUME NEW s \in Seq(Nat), NEW m \in Nat, NEW n \in Nat, n <= m
  PROVE  Suffix(Suffix(s, m), n) = Suffix(s, n)
<1> DEFINE a == Suffix(s, m)
           b == Suffix(a, n)
           c == Suffix(s, n)
<1>1. /\ a \in Seq(Nat) /\ Len(a) = IF Len(s) <= m THEN Len(s) ELSE m
      /\ \A i \in 1..Len(a) : a[i] = s[Len(s) - Len(a) + i]
  BY SuffixSeq
<1>2. /\ c \in Seq(Nat) /\ Len(c) = IF Len(s) <= n THEN Len(s) ELSE n
      /\ \A i \in 1..Len(c) : c[i] = s[Len(s) - Len(c) + i]
  BY SuffixSeq
<1> HIDE DEF a, c
<1>3. /\ b \in Seq(Nat) /\ Len(b) = IF Len(a) <= n THEN Len(a) ELSE n
      /\ \A i \in 1..Len(b) : b[i] = a[Len(a) - Len(b) + i]
  BY <1>1, SuffixSeq
<1> HIDE DEF b
<1>4. Len(b) = Len(c) /\ Len(a) \in Nat /\ Len(b) \in Nat /\ Len(s) \in Nat /\ Len(b) <= Len(a)
  BY <1>1, <1>2, <1>3
<1>5. \A i \in 1..Len(b) : b[i] = c[i]
  <2> TAKE i \in 1..Len(b)
  <2>1. Len(a) - Len(b) + i \in 1..Len(a)
    BY <1>4
  <2>2. b[i] = s[Len(s) - Len(a) + (Len(a) - Len(b) + i)]
    BY <1>1, <1>3, <2>1
  <2>3. Len(s) - Len(a) + (Len(a) - Len(b) + i) = Len(s) - Len(c) + i
    BY <1>4
  <2> QED
    BY <1>2, <1>4, <2>2, <2>3
<1>6. b = c
  BY <1>2, <1>3, <1>4, <1>5, SeqEqual
<1> QED
  BY <1>6 DEF a, b, c

LEMMA SuffixAppend ==
  ASSUME NEW s \in Seq(Nat), NEW n \in Nat, NEW x \in Nat, n <= Len(s)
  PROVE  Suffix(Append(s, x), n + 1) = Append(Suffix(s, n), x)
<1> DEFINE a == Suffix(s, n)
           b == Append(a, x)
           r == Append(s, x)
           c == Suffix(r, n + 1)
<1>0. Len(s) \in Nat /\ n + 1 \in Nat
  OBVIOUS
<1>1. /\ a \in Seq(Nat) /\ Len(a) = n
      /\ \A i \in 1..n : a[i] = s[Len(s) - n + i]
  <2>1. /\ a \in Seq(Nat) /\ Len(a) = IF Len(s) <= n THEN Len(s) ELSE n
        /\ \A i \in 1..Len(a) : a[i] = s[Len(s) - Len(a) + i]
    BY SuffixSeq
  <2>2. Len(a) = n
    BY <2>1
  <2> QED
    BY <2>1, <2>2
<1>2. r \in Seq(Nat) /\ Len(r) = Len(s) + 1 /\ r[Len(s) + 1] = x
      /\ \A i \in 1..Len(s) : r[i] = s[i]
  BY AppendProperties
<1> HIDE DEF a, r
<1>3. b \in Seq(Nat) /\ Len(b) = n + 1 /\ b[n + 1] = x
      /\ \A i \in 1..n : b[i] = a[i]
  BY <1>1, AppendProperties
<1>4. /\ c \in Seq(Nat) /\ Len(c) = n + 1
      /\ \A i \in 1..Len(c) : c[i] = r[Len(r) - Len(c) + i]
  <2>1. /\ c \in Seq(Nat) /\ Len(c) = IF Len(r) <= n + 1 THEN Len(r) ELSE n + 1
        /\ \A i \in 1..Len(c) : c[i] = r[Len(r) - Len(c) + i]
    BY <1>0, <1>2, SuffixSeq
  <2>2. Len(c) = n + 1
    BY <1>0, <1>2, <2>1
  <2> QED
    BY <2>1, <2>2
<1> HIDE DEF b, c
<1>5. \A i \in 1..Len(c) : c[i] = b[i]
  <2> TAKE i \in 1..Len(c)
  <2>1. c[i] = r[Len(s) - n + i]
    <3>1. Len(r) - Len(c) + i = Len(s) - n + i
      BY <1>0, <1>2, <1>4
    <3> QED
      BY <1>4, <3>1
  <2>2. CASE i = n + 1
    BY <1>2, <1>3, <2>1, <2>2
  <2>3. CASE i \in 1..n
    <3>1. Len(s) - n + i \in 1..Len(s)
      BY <2>3
    <3> QED
      BY <1>1, <1>2, <1>3, <2>1, <2>3, <3>1
  <2> QED
    BY <1>4, <2>2, <2>3
<1>6. c = b
  BY <1>3, <1>4, <1>5, SeqEqual
<1> QED
  BY <1>6 DEF a, b, c, r

LogTypes ==
    /\ clock \in Nat /\ log \in Seq(Nat) /\ appended \in Seq(Nat)
    /\ at \in [Writers -> {"idle", "append", "trim", "truncate", "write"}]
    /\ mine \in [Writers -> Nat] /\ keep \in [Writers -> Seq(Nat)]
    /\ put \in [Writers -> Nat] /\ \A w \in Writers : at[w] # "write" => put[w] = 0

Latest == Suffix(appended, MaxEvents)
Writing == {w \in Writers : at[w] = "write"}

\* All who cut the log back keep the same lines.  While some of them write, each line is in
\* its place already or will still be written by one of them.
Cut ==
    /\ \A w \in Writers : Cutting(w) => keep[w] = Latest /\ Len(appended) > MaxEvents
    /\ \A w \in Writing : put[w] < MaxEvents
    /\ Writing # {} =>
         /\ Len(log) <= MaxEvents
         /\ \A i \in 1..MaxEvents :
              (i <= Len(log) /\ log[i] = Latest[i]) \/ \E w \in Writing : put[w] < i
    /\ Writing = {} => log = Suffix(appended, Len(log)) /\ (Len(log) < MaxEvents => log = appended)

LogInv == LogTypes /\ (~crossed => Cut)

LEMMA LogInitInv == LogInit => LogInv
  BY SuffixSeq, SuffixEmpty, StatusLogAssumption DEF LogInit, LogInv, LogTypes, Cut, Latest,
    Writing, Cutting

\* A writer that stops, or has stamped its event, leaves the log as it is.
LEMMA LogQuiet ==
  ASSUME LogInv, LogTypes', NEW w \in Writers, ~Cutting(w), ~Cutting(w)',
         \A v \in Writers \ {w} : at'[v] = at[v],
         UNCHANGED <<log, appended, keep, put, crossed>>
  PROVE  LogInv'
<1>1. Writing' = Writing /\ \A v \in Writers : Cutting(v)' <=> Cutting(v)
  BY DEF Writing, Cutting
<1> QED
  BY <1>1 DEF LogInv, Cut, Latest

LEMMA LogAppend == ASSUME LogInv, NEW w \in Writers, AppendLine(w) PROVE LogInv'
<1>1. LogTypes'
  BY AppendProperties DEF LogInv, LogTypes, AppendLine
<1> SUFFICES ASSUME ~crossed' PROVE Cut'
  BY <1>1 DEF LogInv
<1>2. ~crossed /\ \A v \in Writers : ~Cutting(v)
  BY DEF AppendLine
<1>3. \A v \in Writers : ~Cutting(v)'
  BY <1>2 DEF AppendLine, Cutting, LogInv, LogTypes
<1>4. Writing = {} /\ Writing' = {}
  BY <1>2, <1>3 DEF Writing, Cutting
<1>5. log = Suffix(appended, Len(log)) /\ (Len(log) < MaxEvents => log = appended)
  BY <1>2, <1>4 DEF LogInv, Cut
<1>6. log \in Seq(Nat) /\ appended \in Seq(Nat) /\ mine[w] \in Nat
      /\ log' = Append(log, mine[w]) /\ appended' = Append(appended, mine[w])
  BY DEF LogInv, LogTypes, AppendLine
<1>7. Len(log) <= Len(appended)
  <2>1. Len(Suffix(appended, Len(log))) = IF Len(appended) <= Len(log) THEN Len(appended) ELSE Len(log)
    BY <1>6, SuffixSeq
  <2> QED
    BY <1>5, <1>6, <2>1
<1>8. log' = Suffix(appended', Len(log) + 1) /\ Len(log') = Len(log) + 1
  BY <1>5, <1>6, <1>7, SuffixAppend
<1>9. Len(log') < MaxEvents => log' = appended'
  <2>1. Len(log) \in Nat /\ MaxEvents \in Nat
    BY <1>6, StatusLogAssumption
  <2>2. Len(log') < MaxEvents => Len(log) < MaxEvents
    BY <1>8, <2>1
  <2> QED
    BY <1>5, <1>6, <2>2
<1> QED
  BY <1>3, <1>4, <1>8, <1>9 DEF Cut

LEMMA LogReadBack == ASSUME LogInv, NEW w \in Writers, ReadBack(w) PROVE LogInv'
<1>1. log \in Seq(Nat) /\ appended \in Seq(Nat) /\ MaxEvents \in Nat
  BY StatusLogAssumption DEF LogInv, LogTypes
<1>2. CASE Len(log) <= MaxEvents
  <2>1. LogTypes'
    BY <1>2 DEF LogInv, LogTypes, ReadBack
  <2> QED
    BY <1>2, <2>1, LogQuiet DEF ReadBack, Cutting, LogInv, LogTypes
<1>3. CASE Len(log) > MaxEvents
  <2>1. /\ keep' = [keep EXCEPT ![w] = Suffix(log, MaxEvents)]
        /\ at' = [at EXCEPT ![w] = "truncate"] /\ at[w] = "trim"
        /\ UNCHANGED <<clock, log, mine, put, appended, crossed>>
    BY <1>1, <1>3 DEF ReadBack
  <2>2. LogTypes'
    BY <1>1, <2>1, SuffixSeq DEF LogInv, LogTypes
  <2> SUFFICES ASSUME ~crossed PROVE Cut'
    BY <2>1, <2>2 DEF LogInv
  <2>3. Writing = {}
    BY <1>1, <1>3 DEF LogInv, Cut
  <2>4. log = Suffix(appended, Len(log)) /\ (Len(log) < MaxEvents => log = appended)
    BY <2>3 DEF LogInv, Cut
  <2>5. Suffix(log, MaxEvents) = Latest
    BY <1>1, <1>3, <2>4, SuffixTwice DEF Latest
  <2>6. Len(appended) > MaxEvents
    <3>1. Len(Suffix(appended, Len(log))) <= Len(appended)
      BY <1>1, SuffixSeq
    <3> QED
      BY <1>1, <1>3, <2>4, <3>1
  <2>7. Latest' = Latest /\ Writing' = {}
    BY <2>1, <2>3 DEF Latest, Writing, LogInv, LogTypes
  <2>8. \A v \in Writers : Cutting(v)' => keep'[v] = Latest /\ Len(appended) > MaxEvents
    BY <2>1, <2>5, <2>6 DEF LogInv, LogTypes, Cut, Cutting
  <2> QED
    BY <2>1, <2>4, <2>7, <2>8 DEF Cut
<1> QED
  BY <1>1, <1>2, <1>3

LEMMA LogTruncate == ASSUME LogInv, NEW w \in Writers, Truncate(w) PROVE LogInv'
<1>1. /\ at[w] = "truncate" /\ at' = [at EXCEPT ![w] = "write"] /\ log' = <<>>
      /\ UNCHANGED <<clock, mine, keep, put, appended, crossed>>
  BY DEF Truncate
<1>2. LogTypes'
  BY <1>1, EmptySeq DEF LogInv, LogTypes
<1> SUFFICES ASSUME ~crossed PROVE Cut'
  BY <1>1, <1>2 DEF LogInv
<1>3. Latest' = Latest /\ w \in Writing' /\ put'[w] = 0 /\ Writing' = Writing \cup {w}
  BY <1>1 DEF Latest, Writing, LogInv, LogTypes
<1>4. \A v \in Writers : Cutting(v)' <=> Cutting(v)
  BY <1>1 DEF Cutting, LogInv, LogTypes
<1>5. Len(log') = 0
  BY <1>1
<1> QED
  BY <1>1, <1>3, <1>4, <1>5, StatusLogAssumption DEF Cut, LogInv, LogTypes

LEMMA LogWrite == ASSUME LogInv, NEW w \in Writers, Write(w) PROVE LogInv'
<1> DEFINE Hole(i) == i = put[w] + 1 /\ put[w] > Len(log)
<1>1. PICK n \in (put[w] + 1)..Len(keep[w]) :
         /\ log' = [i \in 1..(IF Len(log) > n THEN Len(log) ELSE n) |->
                      IF i \in (put[w] + 1)..n /\ ~(i = put[w] + 1 /\ put[w] > Len(log))
                      THEN keep[w][i]
                      ELSE IF i <= Len(log) THEN log[i] ELSE Torn]
         /\ IF n = Len(keep[w]) THEN Idle({w})
            ELSE put' = [put EXCEPT ![w] = n] /\ UNCHANGED <<at, mine, keep>>
  BY DEF Write
<1>2. /\ at[w] = "write" /\ UNCHANGED <<clock, appended, crossed>>
  BY DEF Write
<1>3. /\ log \in Seq(Nat) /\ Len(log) \in Nat /\ keep[w] \in Seq(Nat) /\ put[w] \in Nat
      /\ n \in Nat /\ n >= put[w] + 1 /\ n <= Len(keep[w]) /\ MaxEvents \in Nat
      /\ appended \in Seq(Nat) /\ Len(keep[w]) \in Nat
  BY StatusLogAssumption DEF LogInv, LogTypes
<1> DEFINE N == IF Len(log) > n THEN Len(log) ELSE n
<1>4. /\ log' \in Seq(Nat) /\ Len(log') = N
      /\ \A i \in 1..N : log'[i] =
           IF i \in (put[w] + 1)..n /\ ~Hole(i) THEN keep[w][i]
           ELSE IF i <= Len(log) THEN log[i] ELSE 0
  <2>1. log' = [i \in 1..N |-> IF i \in (put[w] + 1)..n /\ ~Hole(i) THEN keep[w][i]
                               ELSE IF i <= Len(log) THEN log[i] ELSE 0]
    BY <1>1 DEF Torn
  <2>2. \A i \in 1..N : (IF i \in (put[w] + 1)..n /\ ~Hole(i) THEN keep[w][i]
                         ELSE IF i <= Len(log) THEN log[i] ELSE 0) \in Nat
    BY <1>3
  <2>3. N \in Nat
    BY <1>3
  <2> HIDE DEF N, Hole
  <2>4. log' \in [1..N -> Nat]
    BY <2>1, <2>2
  <2>5. log' \in Seq(Nat) /\ Len(log') = N
    BY <2>3, <2>4
  <2> QED
    BY <2>1, <2>5
<1> HIDE DEF N
<1>5. LogTypes'
  <2>1. CASE n = Len(keep[w])
    <3>1. Idle({w})
      BY <1>1, <2>1
    <3> QED
      BY <1>2, <1>4, <3>1, EmptySeq DEF LogInv, LogTypes, Idle
  <2>2. CASE n # Len(keep[w])
    <3>1. put' = [put EXCEPT ![w] = n] /\ UNCHANGED <<at, mine, keep>>
      BY <1>1, <2>2
    <3> QED
      BY <1>2, <1>3, <1>4, <3>1 DEF LogInv, LogTypes
  <2> QED
    BY <2>1, <2>2
<1> SUFFICES ASSUME ~crossed PROVE Cut'
  BY <1>2, <1>5 DEF LogInv
<1>6. /\ keep[w] = Latest /\ Len(appended) > MaxEvents /\ w \in Writing
      /\ Len(log) <= MaxEvents
      /\ \A i \in 1..MaxEvents :
           (i <= Len(log) /\ log[i] = Latest[i]) \/ \E v \in Writing : put[v] < i
  BY <1>2 DEF LogInv, Cut, Cutting, Writing
<1>7. Len(keep[w]) = MaxEvents /\ Latest' = Latest /\ Latest \in Seq(Nat)
  BY <1>2, <1>3, <1>6, SuffixSeq DEF Latest
\* Where the file ends before the place of w, another one has still to write that place.
<1>8. put[w] > Len(log) => \E v \in Writing \ {w} : put[v] < put[w]
  <2> SUFFICES ASSUME put[w] > Len(log) PROVE \E v \in Writing \ {w} : put[v] < put[w]
    OBVIOUS
  <2>1. put[w] \in 1..MaxEvents /\ ~(put[w] <= Len(log))
    BY <1>3, <1>7
  <2>2. PICK v \in Writing : put[v] < put[w]
    BY <1>6, <2>1
  <2>3. v # w
    BY <1>3, <2>2
  <2> QED
    BY <2>2, <2>3
<1>9. \A i \in 1..MaxEvents :
         \/ i <= N /\ log'[i] = Latest[i]
         \/ \E v \in Writing \ {w} : put[v] < i
         \/ i > n
  <2> SUFFICES ASSUME NEW i \in 1..MaxEvents, i <= n PROVE
         \/ i <= N /\ log'[i] = Latest[i]
         \/ \E v \in Writing \ {w} : put[v] < i
    OBVIOUS
  <2>1. i \in 1..N
    BY <1>3 DEF N
  <2>2. CASE i > put[w] /\ ~Hole(i)
    <3>1. i \in (put[w] + 1)..n /\ i <= N
      BY <1>3, <2>1, <2>2
    <3>2. log'[i] = keep[w][i]
      BY <1>4, <2>1, <2>2, <3>1
    <3> QED
      BY <1>6, <3>1, <3>2
  <2>3. CASE Hole(i)
    <3>1. PICK v \in Writing \ {w} : put[v] < put[w]
      BY <1>8, <2>3
    <3>2. put[v] \in Nat
      BY DEF LogInv, LogTypes, Writing
    <3> QED
      BY <1>3, <2>3, <3>1, <3>2
  <2>4. CASE i <= put[w]
    <3>1. CASE i <= Len(log) /\ log[i] = Latest[i]
      BY <1>3, <1>4, <2>1, <2>4, <3>1
    <3>2. CASE \E v \in Writing : put[v] < i
      BY <1>3, <2>4, <3>2
    <3> QED
      BY <1>6, <3>1, <3>2
  <2> QED
    BY <1>3, <2>2, <2>3, <2>4
<1>10. N <= MaxEvents
  BY <1>3, <1>6, <1>7 DEF N
<1>11. CASE n # Len(keep[w])
  <2>1. put' = [put EXCEPT ![w] = n] /\ UNCHANGED <<at, mine, keep>>
    BY <1>1, <1>11
  <2>2. Writing' = Writing /\ \A v \in Writers : Cutting(v)' <=> Cutting(v)
    BY <2>1 DEF Writing, Cutting
  <2>3. put'[w] = n /\ n < MaxEvents /\ \A v \in Writing \ {w} : put'[v] = put[v]
    BY <1>3, <1>7, <1>11, <2>1 DEF LogInv, LogTypes, Writing
  <2>4. \A i \in 1..MaxEvents :
           (i <= Len(log') /\ log'[i] = Latest[i]) \/ \E v \in Writing : put'[v] < i
    BY <1>4, <1>6, <1>9, <2>3
  <2> QED
    BY <1>2, <1>4, <1>6, <1>7, <1>10, <2>1, <2>2, <2>3, <2>4 DEF LogInv, Cut
<1>12. CASE n = Len(keep[w])
  <2>1. /\ \A v \in Writers \ {w} : at'[v] = at[v] /\ put'[v] = put[v] /\ keep'[v] = keep[v]
        /\ at'[w] = "idle"
    BY <1>1, <1>12 DEF Idle
  <2>2. Writing' = Writing \ {w} /\ \A v \in Writers : Cutting(v)' => Cutting(v) /\ v # w
    BY <2>1 DEF Writing, Cutting
  <2>3. \A i \in 1..MaxEvents :
           (i <= Len(log') /\ log'[i] = Latest[i]) \/ \E v \in Writing' : put'[v] < i
    <3>1. \A v \in Writing \ {w} : put'[v] = put[v]
      BY <2>1 DEF Writing
    <3>2. \A i \in 1..MaxEvents : ~(i > n)
      BY <1>3, <1>7, <1>12
    <3> QED
      BY <1>4, <1>9, <2>2, <3>1, <3>2
  <2>4. Len(log') = MaxEvents
    BY <1>4, <1>7, <1>10, <1>12, <1>3 DEF N
  <2>5. Writing' = {} => log' = Latest
    <3> SUFFICES ASSUME Writing' = {} PROVE log' = Latest
      OBVIOUS
    <3>1. \A i \in 1..Len(log') : log'[i] = Latest[i]
      BY <2>3, <2>4
    <3>2. Len(log') = Len(Latest)
      BY <1>6, <1>7, <2>4
    <3> QED
      BY <1>4, <1>7, <3>1, <3>2, SeqEqual
  <2>6. \A v \in Writers : Cutting(v)' => keep'[v] = Latest' /\ Len(appended') > MaxEvents
    BY <1>2, <1>7, <2>1, <2>2 DEF LogInv, Cut
  <2>7. \A v \in Writing' : put'[v] < MaxEvents
    BY <2>1, <2>2 DEF LogInv, Cut, Writing
  <2>8. Writing' = {} => log' = Suffix(appended', Len(log'))
    BY <1>2, <2>4, <2>5 DEF Latest
  <2> QED
    BY <1>3, <1>7, <2>3, <2>4, <2>6, <2>7, <2>8 DEF Cut
<1> QED
  BY <1>11, <1>12

LEMMA LogEnds == ASSUME LogInv, NEW w \in Writers, WriterEnds(w) PROVE LogInv'
<1>1. LogTypes'
  BY EmptySeq DEF LogInv, LogTypes, WriterEnds, Idle
<1> SUFFICES ASSUME ~crossed' PROVE Cut'
  BY <1>1 DEF LogInv
<1>2. ~crossed /\ at[w] # "write" /\ UNCHANGED <<log, appended>>
  BY DEF WriterEnds
<1>3. /\ at'[w] = "idle"
      /\ \A v \in Writers \ {w} : at'[v] = at[v] /\ put'[v] = put[v] /\ keep'[v] = keep[v]
  BY DEF WriterEnds, Idle
<1>4. Writing' = Writing /\ w \notin Writing /\ Latest' = Latest
      /\ \A v \in Writers : Cutting(v)' => Cutting(v) /\ v # w
  BY <1>2, <1>3 DEF Writing, Cutting, Latest
<1>5. \A v \in Writing : put'[v] = put[v]
  BY <1>3, <1>4 DEF Writing
<1>6. \A v \in Writers : Cutting(v)' => keep'[v] = Latest /\ Len(appended) > MaxEvents
  BY <1>2, <1>3, <1>4 DEF LogInv, Cut
<1> QED
  BY <1>2, <1>4, <1>5, <1>6 DEF LogInv, Cut

LEMMA LogClear == ASSUME LogInv, Clear PROVE LogInv'
<1>1. LogTypes'
  BY EmptySeq DEF LogInv, LogTypes, Clear, Idle
<1> SUFFICES ASSUME ~crossed' PROVE Cut'
  BY <1>1 DEF LogInv
<1>2. \A v \in Writers : ~Cutting(v)'
  BY DEF Clear, Idle, Cutting
<1>3. Writing' = {} /\ log' = <<>> /\ appended' = <<>>
  BY <1>2 DEF Writing, Cutting, Clear
<1> QED
  BY <1>2, <1>3, SuffixEmpty, StatusLogAssumption DEF Cut

LEMMA LogStep == ASSUME LogInv, NEW w \in Writers, WriterStep(w) PROVE LogInv'
<1>1. CASE Stamp(w)
  <2>1. LogTypes'
    BY <1>1 DEF LogInv, LogTypes, Stamp
  <2> QED
    BY <1>1, <2>1, LogQuiet DEF Stamp, Cutting, LogInv, LogTypes
<1> QED
  BY <1>1, LogAppend, LogReadBack, LogTruncate, LogWrite, LogEnds DEF WriterStep

LEMMA LogInvariance == Spec => []LogInv
<1>1. Init => LogInv
  BY LogInitInv DEF Init
<1>2. LogInv /\ [Next]_vars => LogInv'
  <2> SUFFICES ASSUME LogInv, [Next]_vars PROVE LogInv'
    OBVIOUS
  <2>1. CASE UNCHANGED logVars
    BY <2>1 DEF LogInv, LogTypes, Cut, Latest, Writing, Cutting, logVars
  <2>2. CASE \E w \in Writers : WriterStep(w)
    BY <2>2, LogStep
  <2>3. CASE Clear
    BY <2>3, LogClear
  <2>4. CASE OtherLogs
    BY <2>4 DEF OtherLogs, LogInv, LogTypes, Cut, Latest, Writing, Cutting
  <2>5. CASE Tick
    BY <2>1, <2>5 DEF Tick, logVars
  <2>6. ASSUME NEW t \in Threads, NEW k, Ask(t, k) PROVE LogInv'
    BY <2>1, <2>6 DEF Ask
  <2>7. ASSUME NEW t \in Threads, RequestStep(t) PROVE LogInv'
    BY <2>1, <2>3, <2>7 DEF RequestStep, StreamStep, Refuse, Allow, Purge, PurgeRaises, PopExpired,
       Count, ClearStore, Poll, Merge, Send, KeepAlive, ProxyVolume, OpenTmp, WriteTmp, Replace
  <2> QED
    BY <2>1, <2>2, <2>4, <2>5, <2>6, <2>7 DEF Next, StoreStep, vars
<1> QED
  BY <1>1, <1>2, PTL DEF Spec

\* Cutting back forgets the oldest events and no other, unless a process wrote to the file or
\* ended while another was cutting it back.
THEOREM LatestKept == Spec => []KeepsTheLatest
<1>1. LogInv => KeepsTheLatest
  BY DEF LogInv, Cut, Writing, KeepsTheLatest
<1> QED
  BY <1>1, LogInvariance, PTL

-----------------------------------------------------------------------------
(* A stream that has written what it read *)

LEMMA HasGreatest ==
  ASSUME NEW S \in SUBSET Nat, IsFiniteSet(S), S # {}
  PROVE  \E m \in S : \A x \in S : x <= m
<1> DEFINE Above(e) == {f \in S : f > e}
           T == {Above(e) : e \in S}
           R == StrictSubsetOrdering(S)
<1>1. T \subseteq FiniteSubsetsOf(S) /\ T # {}
  <2>1. ASSUME NEW e \in S PROVE Above(e) \in SUBSET S /\ IsFiniteSet(Above(e))
    <3>1. Above(e) \in SUBSET S
      OBVIOUS
    <3> HIDE DEF Above
    <3> QED
      BY <3>1, FS_Subset
  <2> HIDE DEF Above
  <2> QED
    BY <2>1 DEF FiniteSubsetsOf
<1>2. IsWellFoundedOn(R, FiniteSubsetsOf(S))
  BY FS_StrictSubsetOrderingWellFounded
<1>3. PICK U \in T : \A V \in T : ~ (<<V, U>> \in R)
  <2> HIDE DEF T, R
  <2> QED
    BY <1>1, <1>2, WFMin
<1>4. PICK m \in S : U = Above(m)
  OBVIOUS
<1>5. ASSUME NEW x \in S, ~(x <= m) PROVE FALSE
  <2>1. Above(x) \in T /\ Above(x) \subseteq U /\ x \in U /\ x \notin Above(x)
    <3>1. x \in Nat /\ m \in Nat /\ x > m
      BY <1>5
    <3>2. \A f \in S : f \in Nat /\ (f > x => f > m)
      BY <3>1
    <3>3. Above(x) \in T
      OBVIOUS
    <3>4. ~(x > x)
      BY <3>1
    <3> QED
      BY <1>4, <3>1, <3>2, <3>3, <3>4
  <2>2. <<Above(x), U>> \in R
    BY <1>4, <2>1 DEF StrictSubsetOrdering
  <2> QED
    BY <1>3, <2>1, <2>2
<1> QED
  BY <1>5

LEMMA HasLeast ==
  ASSUME NEW S \in SUBSET Nat, S # {}
  PROVE  Min(S) \in S
<1> DEFINE Before == OpToRel(<, Nat)
<1>1. IsWellFoundedOn(Before, Nat)
  BY NatLessThanWellFounded
<1>2. \A k, m \in Nat : k < m => <<k, m>> \in Before
  BY DEF OpToRel
<1> HIDE DEF Before
<1>3. PICK m \in S : \A k \in S : ~ (<<k, m>> \in Before)
  BY <1>1, WFMin
<1>4. ASSUME NEW k \in S PROVE m <= k
  <2>1. k \in Nat /\ m \in Nat
    OBVIOUS
  <2>2. ~ (<<k, m>> \in Before)
    BY <1>3
  <2>3. ~ (k < m)
    BY <1>2, <2>1, <2>2, Zenon
  <2> QED
    BY <2>1, <2>3
<1> QED
  BY <1>4 DEF Min

LEMMA ReadEventsFinite ==
  ASSUME NEW s \in Seq(Nat)
  PROVE  ReadEvents(s, View) \in SUBSET Nat /\ IsFiniteSet(ReadEvents(s, View))
<1> DEFINE r == Suffix(s, View)
           f == [i \in 1..Len(r) |-> r[i]]
           S == {r[i] : i \in 1..Len(r)}
<1>1. r \in Seq(Nat) /\ Len(r) \in Nat
  BY SuffixSeq, ConsoleAssumption
<1> HIDE DEF r
<1>2. S \in SUBSET Nat
  BY <1>1
<1>3. IsFiniteSet(1..Len(r))
  BY <1>1, FS_Interval
<1>4. f \in Surjection(1..Len(r), S)
  BY DEF Surjection
<1>5. IsFiniteSet(S)
  BY <1>3, <1>4, FS_Surjection
<1>6. IsFiniteSet(S \ {Torn})
  BY <1>5, FS_RemoveElement
<1> QED
  BY <1>2, <1>6 DEF ReadEvents, r

\* The rank of an element among the elements of a finite set of numbers.
LEMMA Ranked ==
  ASSUME NEW S \in SUBSET Nat, IsFiniteSet(S)
  PROVE  \A i \in 1..Cardinality(S) :
            \E e \in S : Cardinality({f \in S : f < e}) = i - 1
<1> DEFINE n == Cardinality(S)
           Below(e) == {f \in S : f < e}
           rank == [e \in S |-> Cardinality(Below(e))]
<1>1. n \in Nat
  BY FS_CardinalityType
<1>2. ASSUME NEW e \in S PROVE Cardinality(Below(e)) \in 0..(n - 1)
  <2>1. IsFiniteSet(S \ {e}) /\ Cardinality(S \ {e}) = n - 1
    BY FS_RemoveElement
  <2>2. Below(e) \in SUBSET (S \ {e})
    OBVIOUS
  <2> HIDE DEF Below, n
  <2>3. IsFiniteSet(Below(e)) /\ Cardinality(Below(e)) <= n - 1
    BY <2>1, <2>2, FS_Subset
  <2>4. Cardinality(Below(e)) \in Nat
    BY <2>3, FS_CardinalityType
  <2> QED
    BY <1>1, <2>3, <2>4
<1>3. ASSUME NEW a \in S, NEW b \in S, a < b
      PROVE  Cardinality(Below(a)) # Cardinality(Below(b))
  <2>1. Below(a) \in SUBSET Below(b) /\ a \in Below(b) /\ a \notin Below(a)
    <3>1. a \in Nat /\ b \in Nat /\ \A f \in S : f \in Nat
      OBVIOUS
    <3>2. ~(a < a) /\ \A f \in S : f < a => f < b
      BY <1>3, <3>1
    <3> QED
      BY <1>3, <3>2
  <2>2. IsFiniteSet(Below(b))
    BY FS_Subset
  <2> HIDE DEF Below
  <2> QED
    BY <2>1, <2>2, FS_Subset
<1>4. rank \in Injection(S, 0..(n - 1))
  <2>1. rank \in [S -> 0..(n - 1)]
    BY <1>2
  <2>2. ASSUME NEW a \in S, NEW b \in S, rank[a] = rank[b] PROVE a = b
    <3>1. ~(a < b) /\ ~(b < a)
      BY <1>3, <2>2
    <3>2. a \in Nat /\ b \in Nat
      OBVIOUS
    <3> QED
      BY <3>1, <3>2
  <2> HIDE DEF rank
  <2> QED
    BY <2>1, <2>2 DEF Injection, IsInjective
<1>5. IsFiniteSet(0..(n - 1)) /\ Cardinality(0..(n - 1)) = n
  <2>1. 0 \in Int /\ n - 1 \in Int
    BY <1>1
  <2>2. /\ IsFiniteSet(0..(n - 1))
        /\ Cardinality(0..(n - 1)) = IF 0 > n - 1 THEN 0 ELSE n - 1 - 0 + 1
    <3> HIDE DEF n
    <3> QED
      BY <2>1, FS_Interval
  <2> QED
    BY <1>1, <2>2
<1>6. rank \in Surjection(S, 0..(n - 1))
  <2> HIDE DEF rank
  <2> QED
    BY <1>4, <1>5, FS_Injection
<1> SUFFICES ASSUME NEW i \in 1..n PROVE \E e \in S : Cardinality(Below(e)) = i - 1
  OBVIOUS
<1>7. i - 1 \in 0..(n - 1)
  BY <1>1
<1>8. PICK e \in S : rank[e] = i - 1
  <2> HIDE DEF rank
  <2> QED
    BY <1>6, <1>7 DEF Surjection
<1> QED
  BY <1>8

Newest(all) == {e \in all : Cardinality({f \in all : f > e}) < View}

\* What a stream reads is sorted, and no event of the store in its view is newer than the last.
LEMMA MergedLast ==
  ASSUME NEW t \in Threads, view[t] \in SUBSET Nat, IsFiniteSet(view[t]), others \in Seq(Nat)
  PROVE  /\ Merged(t) \in Seq(Nat)
         /\ view[t] # {} => Len(Merged(t)) >= 1
         /\ \A e \in view[t] : e <= Merged(t)[Len(Merged(t))]
<1> DEFINE all == view[t] \cup ReadEvents(others, View)
           S == Newest(all)
           n == Cardinality(S)
           Below(e) == {f \in S : f < e}
           M == [i \in 1..n |-> CHOOSE e \in S : Cardinality(Below(e)) = i - 1]
<1>1. Merged(t) = M
  BY DEF Merged, Newest
<1>2. all \in SUBSET Nat /\ IsFiniteSet(all)
  BY ReadEventsFinite, FS_Union
<1> HIDE DEF all
<1>3. S \in SUBSET Nat /\ IsFiniteSet(S) /\ n \in Nat
  BY <1>2, FS_Subset, FS_CardinalityType DEF Newest
<1> HIDE DEF S, n
<1>4. \A i \in 1..n : \E e \in S : Cardinality(Below(e)) = i - 1
  BY <1>3, Ranked DEF n
<1>5. \A i \in 1..n : M[i] \in S /\ Cardinality(Below(M[i])) = i - 1
  BY <1>4
<1>6. M \in Seq(Nat) /\ Len(M) = n
  <2>1. M \in [1..n -> Nat]
    BY <1>3, <1>5
  <2> HIDE DEF M
  <2> QED
    BY <1>3, <2>1
<1> HIDE DEF M
<1>7. ASSUME NEW e \in view[t] PROVE n >= 1 /\ e <= M[n]
  <2>1. e \in all
    BY DEF all
  <2>2. PICK m \in all : \A x \in all : x <= m
    BY <1>2, <2>1, HasGreatest
  <2>3. m \in S
    <3>1. {f \in all : f > m} = {}
      BY <1>2, <2>2
    <3>2. Cardinality({f \in all : f > m}) < View
      <4>1. Cardinality({}) = 0
        BY FS_EmptySet
      <4>2. View \in Nat \ {0}
        BY ConsoleAssumption
      <4>3. Cardinality({}) < View
        BY <4>1, <4>2
      <4> QED
        BY <3>1, <4>3, Zenon
    <3> QED
      BY <3>2 DEF S, Newest
  <2>4. n >= 1
    <3>1. n # 0
      BY <1>3, <2>3, FS_EmptySet DEF n
    <3> QED
      BY <1>3, <3>1
  <2>5. M[n] \in S /\ Cardinality(Below(M[n])) = n - 1
    BY <1>3, <1>5, <2>4
  \* Below the last one are all the others, so it is the greatest.
  <2>6. ~(M[n] < m)
    <3> SUFFICES ASSUME M[n] < m PROVE FALSE
      OBVIOUS
    <3>1. IsFiniteSet(S \ {M[n]}) /\ Cardinality(S \ {M[n]}) = n - 1
      BY <1>3, <2>5, FS_RemoveElement DEF n
    <3>2. Below(M[n]) \in SUBSET (S \ {M[n]})
      <4>1. M[n] \in Nat
        BY <1>3, <2>5
      <4> HIDE DEF Below
      <4>2. \A k \in Nat : ~(k < k)
        OBVIOUS
      <4>3. ~(M[n] < M[n])
        BY <4>1, <4>2, Zenon
      <4>4. M[n] \notin Below(M[n]) /\ Below(M[n]) \subseteq S
        BY <4>3 DEF Below
      <4> QED
        BY <4>4
    <3>3. Below(M[n]) = S \ {M[n]}
      <4> HIDE DEF Below
      <4> QED
        BY <2>5, <3>1, <3>2, FS_Subset
    <3>4. m \in S \ {M[n]} /\ m \notin Below(M[n])
      BY <1>3, <2>3, <2>5
    <3> QED
      BY <3>3, <3>4
  <2>7. M[n] \in Nat /\ m \in Nat /\ e \in Nat /\ e <= m
    BY <1>2, <1>3, <2>1, <2>2, <2>5
  <2> QED
    BY <2>4, <2>6, <2>7
<1> QED
  BY <1>1, <1>6, <1>7

\* What follows an event ends as the whole does, and is empty only behind the last event.
LEMMA AfterLast ==
  ASSUME NEW s \in Seq(Nat), NEW e
  PROVE  /\ After(s, e) \in Seq(Nat)
         /\ After(s, e) = <<>> /\ Len(s) >= 1 => e = s[Len(s)]
         /\ After(s, e) # <<>> => /\ Len(After(s, e)) >= 1
                                  /\ After(s, e)[Len(After(s, e))] = s[Len(s)]
<1>1. Len(s) \in Nat /\ DOMAIN s = 1..Len(s)
  OBVIOUS
<1>2. CASE Position(s, e) = {}
  <2>1. After(s, e) = s
    BY <1>2 DEF After
  <2>2. s = <<>> => Len(s) = 0
    OBVIOUS
  <2>3. s # <<>> => Len(s) >= 1
    BY <1>1, EmptySeq
  <2> QED
    BY <2>1, <2>2, <2>3
<1>3. CASE Position(s, e) # {}
  <2>1. PICK p \in 1..Len(s) : s[p] = e /\ After(s, e) = SubSeq(s, p + 1, Len(s))
    <3>1. Position(s, e) \in SUBSET Nat
      BY <1>1 DEF Position
    <3>2. Min(Position(s, e)) \in Position(s, e)
      BY <1>3, <3>1, HasLeast
    <3> QED
      BY <1>1, <1>3, <3>2 DEF After, Position
  <2> DEFINE a == SubSeq(s, p + 1, Len(s))
  <2>2. \A i \in (p + 1)..Len(s) : s[i] \in Nat
    BY <1>1
  <2>3. p + 1 \in Int /\ Len(s) \in Int
    BY <1>1
  <2>4. /\ a \in Seq(Nat)
        /\ Len(a) = IF p + 1 <= Len(s) THEN Len(s) - (p + 1) + 1 ELSE 0
        /\ \A i \in 1..(Len(s) - (p + 1) + 1) : a[i] = s[(p + 1) + i - 1]
    BY <2>2, <2>3, SubSeqProperties, Z3
  <2> HIDE DEF a
  <2>5. Len(a) = Len(s) - p
    <3>1. p \in Int /\ p <= Len(s) /\ Len(s) \in Int
      BY <1>1
    <3>2. Len(a) = IF p + 1 <= Len(s) THEN Len(s) - (p + 1) + 1 ELSE 0
      BY <2>4
    <3> QED
      BY <3>1, <3>2
  <2>6. CASE p = Len(s)
    <3>1. a = <<>>
      BY <2>4, <2>5, <2>6, EmptySeq, Z3
    <3> QED
      BY <2>1, <2>6, <3>1, <2>4 DEF a
  <2>7. CASE p < Len(s)
    <3>1. Len(a) >= 1 /\ Len(a) \in 1..(Len(s) - (p + 1) + 1)
      BY <1>1, <2>5, <2>7
    <3>2. a[Len(a)] = s[Len(s)]
      <4>1. a[Len(a)] = s[(p + 1) + Len(a) - 1]
        BY <2>4, <3>1
      <4>2. (p + 1) + Len(a) - 1 = Len(s)
        BY <1>1, <2>5
      <4> QED
        BY <4>1, <4>2
    <3>3. a # <<>>
      BY <3>1
    <3> QED
      BY <2>1, <2>4, <3>1, <3>2, <3>3 DEF a
  <2>8. p = Len(s) \/ p < Len(s)
    <3>1. p \in Int /\ p <= Len(s) /\ Len(s) \in Int
      BY <1>1
    <3> QED
      BY <3>1
  <2> QED
    BY <2>6, <2>7, <2>8
<1> QED
  BY <1>2, <1>3

StreamTypes ==
    /\ others \in Seq(Nat) /\ resume \in Nat
    /\ view \in [Threads -> SUBSET Nat] /\ \A t \in Threads : IsFiniteSet(view[t])
    /\ sent \in [Threads -> SUBSET Nat] /\ last \in [Threads -> Nat]
    /\ batch \in [Threads -> Seq(Nat)]

\* What is still to come of a batch, or else the event the client heard last.
Ahead(t) == IF batch[t] = <<>> THEN {last[t]} ELSE {batch[t][i] : i \in 1..Len(batch[t])}

Catching(t) == place[t] = "send" =>
    \A e \in view[t] : \E f \in sent[t] \cup Ahead(t) : f >= e

StreamInv == LogTypes /\ PlaceOK /\ StreamTypes /\ \A t \in Threads : Catching(t)

\* A thread that is not in the middle of a batch has nothing to show.
LEMMA CatchElsewhere ==
  ASSUME StreamInv, LogTypes', NEW t \in Threads, NEW p \in Places \ {"send"},
         place' = [place EXCEPT ![t] = p], StreamTypes',
         \A u \in Threads \ {t} : view'[u] = view[u] /\ sent'[u] = sent[u]
                                  /\ last'[u] = last[u] /\ batch'[u] = batch[u]
  PROVE  StreamInv'
<1>1. PlaceOK'
  BY DEF StreamInv, PlaceOK
<1>2. ASSUME NEW u \in Threads PROVE Catching(u)'
  <2>1. CASE u = t
    BY <2>1 DEF Catching, StreamInv, PlaceOK
  <2>2. CASE u # t
    <3>1. place'[u] = place[u] /\ Ahead(u)' = Ahead(u)
      BY <2>2 DEF Ahead, StreamInv, PlaceOK
    <3> QED
      BY <2>2, <3>1 DEF Catching, StreamInv
  <2> QED
    BY <2>1, <2>2
<1> QED
  BY <1>1, <1>2 DEF StreamInv

LEMMA CatchPoll == ASSUME StreamInv, NEW t \in Threads, Poll(t) PROVE StreamInv'
<1>1. /\ view' = [view EXCEPT ![t] = ReadEvents(log, View)]
      /\ UNCHANGED <<logVars, others, resume, last, sent, batch>>
      /\ place' = [place EXCEPT ![t] = "merge"]
  BY DEF Poll, Goto
<1>2. ReadEvents(log, View) \in SUBSET Nat /\ IsFiniteSet(ReadEvents(log, View))
  BY ReadEventsFinite DEF StreamInv, LogTypes
<1>3. StreamTypes'
  BY <1>1, <1>2 DEF StreamInv, StreamTypes
<1>4. LogTypes'
  BY <1>1 DEF StreamInv, LogTypes, logVars
<1> QED
  BY <1>1, <1>3, <1>4, CatchElsewhere DEF StreamInv, StreamTypes, Places

LEMMA CatchMerge == ASSUME StreamInv, NEW t \in Threads, Merge(t) PROVE StreamInv'
<1> DEFINE M == Merged(t)
           A == After(M, last[t])
<1>1. /\ batch' = [batch EXCEPT ![t] = A] /\ place' = [place EXCEPT ![t] = "send"]
      /\ UNCHANGED <<logVars, others, resume, last, sent, view>>
  BY DEF Merge, Goto
<1>2. /\ M \in Seq(Nat)
      /\ view[t] # {} => Len(M) >= 1
      /\ \A e \in view[t] : e <= M[Len(M)]
  BY MergedLast DEF StreamInv, StreamTypes
<1> HIDE DEF M
<1>3. /\ A \in Seq(Nat)
      /\ A = <<>> /\ Len(M) >= 1 => last[t] = M[Len(M)]
      /\ A # <<>> => Len(A) >= 1 /\ A[Len(A)] = M[Len(M)]
  BY <1>2, AfterLast
<1> HIDE DEF A
<1>4. LogTypes' /\ PlaceOK' /\ StreamTypes'
  BY <1>1, <1>3 DEF StreamInv, LogTypes, logVars, PlaceOK, Places, StreamTypes
<1>5. batch'[t] = A /\ last'[t] = last[t] /\ view'[t] = view[t]
  BY <1>1 DEF StreamInv, StreamTypes
<1>6. Catching(t)'
  <2> SUFFICES ASSUME NEW e \in view[t] PROVE \E f \in Ahead(t)' : f >= e
    BY <1>5 DEF Catching
  <2>1. M[Len(M)] \in Nat /\ e \in Nat /\ e <= M[Len(M)] /\ Len(M) >= 1
    BY <1>2 DEF StreamInv, StreamTypes
  <2>2. M[Len(M)] \in Ahead(t)'
    <3>1. CASE A = <<>>
      BY <1>3, <1>5, <2>1, <3>1 DEF Ahead
    <3>2. CASE A # <<>>
      <4>1. Len(A) \in 1..Len(A)
        BY <1>3, <3>2
      <4> QED
        BY <1>3, <1>5, <3>2, <4>1 DEF Ahead
    <3> QED
      BY <3>1, <3>2
  <2> QED
    BY <2>1, <2>2
<1>7. ASSUME NEW u \in Threads \ {t} PROVE Catching(u)'
  <2>1. place'[u] = place[u] /\ batch'[u] = batch[u] /\ UNCHANGED <<view, sent, last>>
    BY <1>1 DEF StreamInv, StreamTypes, PlaceOK
  <2> QED
    BY <2>1 DEF Catching, Ahead, StreamInv
<1> QED
  BY <1>4, <1>6, <1>7 DEF StreamInv

\* An event of the batch that is written, or was before, is one that was sent.
LEMMA CatchSend == ASSUME StreamInv, NEW t \in Threads, Send(t) PROVE StreamInv'
<1> USE DEF Goto
<1>1. batch[t] \in Seq(Nat) /\ batch[t] # <<>> /\ place[t] = "send"
  BY DEF Send, StreamInv, StreamTypes
<1>2. UNCHANGED <<logVars, others>> /\ LogTypes'
  BY DEF Send, StreamInv, LogTypes, logVars
<1>3. CASE Hangs(t) /\ UNCHANGED resume
  <2>1. StreamTypes'
    BY <1>2, <1>3, EmptySeq, FS_EmptySet DEF Hangs, StreamInv, StreamTypes
  <2> QED
    BY <1>2, <1>3, <2>1, CatchElsewhere DEF Hangs, Ends, StreamInv, StreamTypes, Places
<1>4. CASE ~(Hangs(t) /\ UNCHANGED resume)
  <2> DEFINE b == batch[t]
  <2>1. /\ batch' = [batch EXCEPT ![t] = Tail(@)] /\ UNCHANGED <<place, view>>
        /\ IF Head(b) \in sent[t] THEN UNCHANGED <<sent, last, resume>>
           ELSE /\ sent' = [sent EXCEPT ![t] = @ \cup {Head(b)}]
                /\ last' = [last EXCEPT ![t] = Head(b)] /\ resume' = Head(b)
    BY <1>4 DEF Send
  <2>2. Head(b) \in Nat /\ Tail(b) \in Seq(Nat) /\ Len(b) >= 1 /\ Len(Tail(b)) = Len(b) - 1
        /\ Head(b) = b[1] /\ \A i \in 1..Len(Tail(b)) : Tail(b)[i] = b[i + 1]
    BY <1>1
  <2>3. StreamTypes' /\ PlaceOK'
    <3>1. PlaceOK' /\ others' \in Seq(Nat) /\ UNCHANGED view
      BY <1>2, <2>1 DEF StreamInv, StreamTypes, PlaceOK
    <3>2. batch' \in [Threads -> Seq(Nat)]
      BY <2>1, <2>2 DEF StreamInv, StreamTypes
    <3>3. sent' \in [Threads -> SUBSET Nat] /\ last' \in [Threads -> Nat] /\ resume' \in Nat
      <4>1. CASE UNCHANGED <<sent, last, resume>>
        BY <4>1 DEF StreamInv, StreamTypes
      <4>2. CASE /\ sent' = [sent EXCEPT ![t] = @ \cup {Head(b)}]
                 /\ last' = [last EXCEPT ![t] = Head(b)] /\ resume' = Head(b)
        <5>1. sent[t] \cup {Head(b)} \in SUBSET Nat /\ Head(b) \in Nat
          BY <2>2 DEF StreamInv, StreamTypes
        <5> HIDE DEF b
        <5> QED
          BY <4>2, <5>1 DEF StreamInv, StreamTypes
      <4> HIDE DEF b
      <4> QED
        BY <2>1, <4>1, <4>2
    <3> QED
      BY <3>1, <3>2, <3>3 DEF StreamInv, StreamTypes
  <2>4. sent[t] \cup {Head(b)} \subseteq sent'[t] /\ batch'[t] = Tail(b) /\ view'[t] = view[t]
    BY <2>1 DEF StreamInv, StreamTypes
  <2>5. Catching(t)'
    <3> SUFFICES ASSUME NEW e \in view[t] PROVE \E f \in sent'[t] \cup Ahead(t)' : f >= e
      BY <2>4 DEF Catching
    <3>1. PICK f \in sent[t] \cup {b[i] : i \in 1..Len(b)} : f >= e
      BY <1>1 DEF StreamInv, Catching, Ahead
    <3>2. CASE f \in sent[t] \cup {Head(b)}
      BY <2>4, <3>1, <3>2
    <3>3. CASE f \notin sent[t] \cup {Head(b)}
      <4>1. PICK i \in 1..Len(b) : f = b[i]
        BY <3>1, <3>3
      <4>2. i - 1 \in 1..Len(Tail(b)) /\ (i - 1) + 1 = i
        BY <2>2, <3>3, <4>1, <1>1
      <4>3. Tail(b)[i - 1] = f
        BY <2>2, <4>1, <4>2
      <4>4. Tail(b) # <<>>
        <5> DEFINE n == Len(Tail(b))
        <5>1. n \in Nat /\ i - 1 \in 1..n
          BY <2>2, <4>2
        <5> HIDE DEF n
        <5>2. n # 0
          BY <5>1
        <5> QED
          BY <5>2, EmptySeq DEF n
      <4>5. f \in Ahead(t)'
        BY <2>4, <4>2, <4>3, <4>4 DEF Ahead
      <4> QED
        BY <3>1, <4>5
    <3> QED
      BY <3>2, <3>3
  <2>6. ASSUME NEW u \in Threads \ {t} PROVE Catching(u)'
    <3>1. place'[u] = place[u] /\ batch'[u] = batch[u] /\ view'[u] = view[u]
          /\ sent'[u] = sent[u] /\ last'[u] = last[u]
      BY <2>1 DEF StreamInv, StreamTypes
    <3> QED
      BY <3>1 DEF Catching, Ahead, StreamInv
  <2> QED
    BY <1>2, <2>3, <2>5, <2>6 DEF StreamInv
<1> QED
  BY <1>3, <1>4

LEMMA CatchStep == StreamInv /\ LogTypes' /\ [Next]_vars => StreamInv'
<1> SUFFICES ASSUME StreamInv, LogTypes', [Next]_vars PROVE StreamInv'
  OBVIOUS
<1> USE DEF Goto
<1>1. CASE UNCHANGED <<place, streamVars>>
  BY <1>1 DEF StreamInv, PlaceOK, StreamTypes, Catching, Ahead, streamVars
<1>2. CASE OtherLogs
  <2>1. clock + 1 \in Nat /\ others' = Append(others, clock + 1)
        /\ UNCHANGED <<place, resume, last, sent, view, batch>>
    BY <1>2 DEF OtherLogs, StreamInv, LogTypes
  <2>2. others' \in Seq(Nat)
    BY <2>1, AppendProperties DEF StreamInv, StreamTypes
  <2> QED
    BY <2>1, <2>2 DEF StreamInv, PlaceOK, StreamTypes, Catching, Ahead
<1> SUFFICES ASSUME NEW t \in Threads, RequestStep(t) \/ \E k \in scenario.kinds : Ask(t, k)
             PROVE  StreamInv'
  BY <1>1, <1>2 DEF Next, StoreStep, Tick, vars
<1>3. ASSUME NEW p \in Places \ {"send"}, place' = [place EXCEPT ![t] = p], UNCHANGED streamVars
      PROVE  StreamInv'
  <2>1. StreamTypes'
    BY <1>3 DEF StreamInv, StreamTypes, streamVars
  <2> QED
    BY <1>3, <2>1, CatchElsewhere DEF streamVars
<1>4. ASSUME NEW k, Ask(t, k) PROVE StreamInv'
  BY <1>3, <1>4 DEF Ask, Places
<1>5. CASE Refuse(t) \/ Allow(t) \/ Purge(t) \/ PurgeRaises(t) \/ PopExpired(t)
  <2>1. UNCHANGED streamVars
    BY <1>5 DEF Refuse, Allow, Purge, PurgeRaises, PopExpired
  <2>2. \E p \in {"idle", "count", "purge"} : place' = [place EXCEPT ![t] = p]
    BY <1>5 DEF Refuse, Allow, Purge, PurgeRaises, PopExpired, Ends
  <2> QED
    BY <1>3, <2>1, <2>2 DEF Places
<1>6. CASE Count(t)
  <2>1. UNCHANGED <<others, resume, view>>
    BY <1>6 DEF Count
  <2>2. \/ UNCHANGED <<last, sent, batch>>
        \/ /\ last' = [last EXCEPT ![t] = resume] /\ sent' = [sent EXCEPT ![t] = {}]
           /\ batch' = [batch EXCEPT ![t] = <<>>]
    BY <1>6 DEF Count, Serve
  <2>3. \E p \in {"idle", "poll", "volume", "clear"} : place' = [place EXCEPT ![t] = p]
    BY <1>6 DEF Count, Serve, Ends
  <2>4. StreamTypes'
    <3>1. last' \in [Threads -> Nat]
      BY <2>2 DEF StreamInv, StreamTypes
    <3>2. sent' \in [Threads -> SUBSET Nat]
      BY <2>2 DEF StreamInv, StreamTypes
    <3>3. batch' \in [Threads -> Seq(Nat)]
      <4>1. <<>> \in Seq(Nat) /\ batch \in [Threads -> Seq(Nat)]
        BY EmptySeq DEF StreamInv, StreamTypes
      <4>2. UNCHANGED batch \/ batch' = [batch EXCEPT ![t] = <<>>]
        BY <2>2
      <4> QED
        BY <4>1, <4>2
    <3> QED
      BY <2>1, <3>1, <3>2, <3>3 DEF StreamInv, StreamTypes
  <2> QED
    BY <2>1, <2>2, <2>3, <2>4, CatchElsewhere DEF StreamInv, StreamTypes, Places
<1>7. CASE KeepAlive(t)
  <2>1. UNCHANGED <<others, resume>>
    BY <1>7 DEF KeepAlive
  <2>2. \E p \in {"idle", "poll"} : place' = [place EXCEPT ![t] = p]
    BY <1>7 DEF KeepAlive, Hangs, Ends
  <2>3. /\ view' = [view EXCEPT ![t] = {}]
        /\ \/ UNCHANGED <<last, sent, batch>>
           \/ /\ last' = [last EXCEPT ![t] = 0] /\ sent' = [sent EXCEPT ![t] = {}]
              /\ batch' = [batch EXCEPT ![t] = <<>>]
    BY <1>7 DEF KeepAlive, Hangs
  <2>4. StreamTypes'
    <3>1. last' \in [Threads -> Nat]
      <4>1. UNCHANGED last \/ last' = [last EXCEPT ![t] = 0]
        BY <2>3
      <4>2. last \in [Threads -> Nat]
        BY DEF StreamInv, StreamTypes
      <4> QED
        BY <4>1, <4>2
    <3>2. sent' \in [Threads -> SUBSET Nat]
      BY <2>3 DEF StreamInv, StreamTypes
    <3>3. batch' \in [Threads -> Seq(Nat)]
      <4>1. <<>> \in Seq(Nat) /\ batch \in [Threads -> Seq(Nat)]
        BY EmptySeq DEF StreamInv, StreamTypes
      <4>2. UNCHANGED batch \/ batch' = [batch EXCEPT ![t] = <<>>]
        BY <2>3
      <4> QED
        BY <4>1, <4>2
    <3>4. view' \in [Threads -> SUBSET Nat] /\ \A u \in Threads : IsFiniteSet(view'[u])
      BY <2>3, FS_EmptySet DEF StreamInv, StreamTypes
    <3> QED
      BY <2>1, <3>1, <3>2, <3>3, <3>4 DEF StreamInv, StreamTypes
  <2> QED
    BY <2>1, <2>2, <2>3, <2>4, CatchElsewhere DEF StreamInv, StreamTypes, Places
<1>8. CASE ClearStore(t) \/ ProxyVolume(t) \/ OpenTmp(t) \/ WriteTmp(t) \/ Replace(t)
  <2>1. UNCHANGED streamVars
    BY <1>8 DEF ClearStore, ProxyVolume, OpenTmp, WriteTmp, Replace
  <2>2. \E p \in {"idle", "tmp", "replace"} : place' = [place EXCEPT ![t] = p]
    BY <1>8 DEF ClearStore, ProxyVolume, OpenTmp, WriteTmp, Replace, Ends
  <2> QED
    BY <1>3, <2>1, <2>2 DEF Places
<1> QED
  BY <1>4, <1>5, <1>6, <1>7, <1>8, CatchPoll, CatchMerge, CatchSend DEF RequestStep, StreamStep

\* A stream is never stuck behind an event that was cut from the log: whenever it has written
\* what it read, each event of the store in its view was sent, or a newer one was.
THEOREM StreamCatchesUp == Spec => []CaughtUp
<1>1. Init => StreamInv
  <2> SUFFICES ASSUME Init PROVE StreamInv
    OBVIOUS
  <2>1. LogTypes
    BY LogInitInv DEF Init, LogInv
  <2>2. PlaceOK /\ StreamTypes /\ \A t \in Threads : Catching(t)
    BY EmptySeq, FS_EmptySet DEF Init, PlaceOK, Places, StreamTypes, Catching
  <2> QED
    BY <2>1, <2>2 DEF StreamInv
<1>2. StreamInv => CaughtUp
  BY DEF StreamInv, Catching, Ahead, CaughtUp
<1>3. LogInv => LogTypes
  BY DEF LogInv
<1> QED
  BY <1>1, <1>2, <1>3, LogInvariance, CatchStep, PTL DEF Spec
=============================================================================
