\* A request, a caller that cancels it, and a session that may stay parked on
\* the only slot until it is evicted; or three turns of two sessions that make
\* room for each other, two of one session and one with a client that may
\* leave.  The engine may fail at any step.
SPECIFICATION FairSpec
CONSTANTS
    r1 = r1
    r2 = r2
    r3 = r3
    a = a
    b = b
    c1 = c1
    c2 = c2
    t1 = t1
    t2 = t2
    t3 = t3
    s1 = s1
    s2 = s2
    Requests = {r1}
    Ids = {a}
    IdOf <- IdUsedTwice
    Callers = {c1}
    Turns = {t1, t2, t3}
    Sessions = {s1, s2}
    SessionOf <- FirstTwoTogether
    Leavers = {t2}
    Scenes <- RequestOrTurns
    Modes = {"chat"}
    MaxQueue = 2
    MaxCompleted = 1
    MaxChatSessions = 1
    NumSlots = 1
    MaxRunning = 1
    MaxEngineIds = 3
    Errors = {"engine"}
PROPERTIES
    RequestsEnd
    TurnsFinish
