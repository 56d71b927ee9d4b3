----------------------------- MODULE StatusLog -----------------------------
(***************************************************************************)
(* events.jsonl of the status store: several processes append to it, and   *)
(* each cuts it back by reading it and writing it anew, without a lock.    *)
(* An event is its timestamp.  Console composes this log with the server   *)
(* that streams it.                                                        *)
(*                                                                         *)
(* A definition named ...Bug is the one after it with a plausible mistake  *)
(* in it; no specification uses it.                                        *)
(***************************************************************************)
EXTENDS Naturals, Sequences

CONSTANTS
    Writers,   \* the processes with a StatusStore: receiver, watcher, helpers
    MaxEvents  \* StatusStore(max_events=...)

ASSUME StatusLogAssumption == MaxEvents \in Nat \ {0}

VARIABLES
    clock,    \* now_timestamp()
    log,      \* the lines of the file
    at,       \* what each writer does
    mine,     \* the event it appends
    keep,     \* the lines it cuts the file back to
    put,      \* how many of them it has written
    appended, \* history: the events appended since the file was cleared
    crossed   \* history: was the file changed under a writer that cut it back?

logVars == <<clock, log, at, mine, keep, put, appended, crossed>>

Torn == 0  \* a line that is not JSON

Suffix(s, n) == IF Len(s) <= n THEN s ELSE SubSeq(s, Len(s) - n + 1, Len(s))

LogInit ==
    /\ clock = 0
    /\ log = <<>>
    /\ at = [w \in Writers |-> "idle"]
    /\ mine = [w \in Writers |-> 0]
    /\ keep = [w \in Writers |-> <<>>]
    /\ put = [w \in Writers |-> 0]
    /\ appended = <<>>
    /\ crossed = FALSE

\* The locals of these writers are gone.
Idle(W) ==
    /\ at' = [w \in Writers |-> IF w \in W THEN "idle" ELSE at[w]]
    /\ mine' = [w \in Writers |-> IF w \in W THEN 0 ELSE mine[w]]
    /\ keep' = [w \in Writers |-> IF w \in W THEN <<>> ELSE keep[w]]
    /\ put' = [w \in Writers |-> IF w \in W THEN 0 ELSE put[w]]

Cutting(w) == at[w] \in {"truncate", "write"}

\* append_event: the event gets its timestamp, and then its line.
Stamp(w) ==
    /\ at[w] = "idle"
    /\ clock' = clock + 1
    /\ mine' = [mine EXCEPT ![w] = clock + 1]
    /\ at' = [at EXCEPT ![w] = "append"]
    /\ UNCHANGED <<log, keep, put, appended, crossed>>

AppendLine(w) ==
    /\ at[w] = "append"
    /\ log' = Append(log, mine[w])
    /\ appended' = Append(appended, mine[w])
    /\ crossed' = (crossed \/ \E v \in Writers : Cutting(v))
    /\ mine' = [mine EXCEPT ![w] = 0]
    /\ at' = [at EXCEPT ![w] = "trim"]
    /\ UNCHANGED <<clock, keep, put>>

\* trim_events: read_text, and write_text of the last lines when there are too many.
KeepOldestBug(w) ==
    /\ at[w] = "trim"
    /\ IF Len(log) <= MaxEvents
       THEN at' = [at EXCEPT ![w] = "idle"] /\ UNCHANGED keep
       ELSE /\ keep' = [keep EXCEPT ![w] = SubSeq(log, 1, MaxEvents)]
            /\ at' = [at EXCEPT ![w] = "truncate"]
    /\ UNCHANGED <<clock, log, mine, put, appended, crossed>>

ReadBack(w) ==
    /\ at[w] = "trim"
    /\ IF Len(log) <= MaxEvents
       THEN at' = [at EXCEPT ![w] = "idle"] /\ UNCHANGED keep
       ELSE /\ keep' = [keep EXCEPT ![w] = Suffix(log, MaxEvents)]
            /\ at' = [at EXCEPT ![w] = "truncate"]
    /\ UNCHANGED <<clock, log, mine, put, appended, crossed>>

Truncate(w) ==
    /\ at[w] = "truncate"
    /\ log' = <<>>
    /\ at' = [at EXCEPT ![w] = "write"]
    /\ UNCHANGED <<clock, mine, keep, put, appended, crossed>>

\* The lines go out in pieces, each behind the one before: over what others appended, and
\* behind a hole when another writer truncated the file meanwhile.
Write(w) ==
    /\ at[w] = "write"
    /\ \E n \in (put[w] + 1)..Len(keep[w]) :
         /\ log' = [i \in 1..(IF Len(log) > n THEN Len(log) ELSE n) |->
                      IF i \in (put[w] + 1)..n /\ ~(i = put[w] + 1 /\ put[w] > Len(log))
                      THEN keep[w][i]
                      ELSE IF i <= Len(log) THEN log[i] ELSE Torn]
         /\ IF n = Len(keep[w]) THEN Idle({w})
            ELSE put' = [put EXCEPT ![w] = n] /\ UNCHANGED <<at, mine, keep>>
    /\ UNCHANGED <<clock, appended, crossed>>

\* The process of a writer ends, wherever it is, and is started again.
WriterEnds(w) ==
    /\ at[w] # "idle"
    /\ Idle({w})
    /\ crossed' = (crossed \/ at[w] = "write")
    /\ UNCHANGED <<clock, log, appended>>

\* StatusStore.clear: the file is unlinked; what is still being written to it is lost with it.
Clear ==
    /\ log' = <<>>
    /\ appended' = <<>>
    /\ crossed' = \E w \in Writers : at[w] = "truncate"
    /\ Idle({w \in Writers : at[w] = "write"})
    /\ UNCHANGED clock

WriterStep(w) ==
    Stamp(w) \/ AppendLine(w) \/ ReadBack(w) \/ Truncate(w) \/ Write(w) \/ WriterEnds(w)

\* read_events: the last lines, those that are not JSON left out.
ReadEvents(file, limit) ==
    {Suffix(file, limit)[i] : i \in 1..Len(Suffix(file, limit))} \ {Torn}
-----------------------------------------------------------------------------
(* Properties *)

\* Cutting back forgets the oldest events and no other: unless a process wrote to the file,
\* or ended, while another was cutting it back, the file holds the last events appended,
\* and max_events of them when there were as many.
KeepsTheLatest ==
    ~crossed /\ (\A w \in Writers : at[w] # "write") =>
        /\ log = Suffix(appended, Len(log))
        /\ Len(log) < MaxEvents => log = appended
=============================================================================
