SPECIFICATION Spec
CONSTANTS
    r1 = r1
    r2 = r2
    c1 = c1
    c2 = c2
    Plain = Plain
    Requests = {r1, r2}
    Candidates = {c1, c2}
    Asks <- AnyAsk
    MaxReservations = 1
    MaxEvents = 1
    MayBreak = TRUE
    Unjournaled = {r2}
INVARIANT SeenIsJournaled
INVARIANT StopsWhenClientGone
INVARIANT AtMostOneLateWrite
PROPERTY OnceSpec
CHECK_DEADLOCK FALSE
