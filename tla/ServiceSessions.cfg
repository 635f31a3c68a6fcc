\* Three turns of any kind of two sessions and room for one session: each has
\* to make room for the other.  The client of t2 may leave, which another turn
\* of its session follows; the engine may fail, the worker die, and close() be
\* called: after that, or with both engine ids used, all may stop.
SPECIFICATION Spec
CONSTANTS
    r1 = r1
    r2 = r2
    r3 = r3
    a = a
    b = b
    c1 = c1
    c2 = c2
    t1 = t1
    t2 = t2
    t3 = t3
    s1 = s1
    s2 = s2
    Requests = {}
    Ids = {}
    IdOf <- NoRequests
    Callers = {}
    Turns = {t1, t2, t3}
    Sessions = {s1, s2}
    SessionOf <- TwoSessions
    Modes = {"chat", "prompt", "delta"}
    Leavers = {t2}
    Scenes <- AllTogether
    MaxQueue = 3
    MaxCompleted = 1
    MaxChatSessions = 1
    NumSlots = 1
    MaxRunning = 1
    MaxEngineIds = 2
    Errors = {"engine", "fatal", "close"}
INVARIANTS
    SessionsOwnState
    ClosedLeavesNobody
CHECK_DEADLOCK FALSE
