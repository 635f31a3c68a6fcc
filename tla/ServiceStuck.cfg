\* Two turns of one session, one after the other; clients may leave.
SPECIFICATION Spec
CONSTANTS
    r1 = r1
    r2 = r2
    r3 = r3
    a = a
    b = b
    c1 = c1
    c2 = c2
    t1 = t1
    t2 = t2
    t3 = t3
    s1 = s1
    s2 = s2
    Requests = {}
    Ids = {}
    IdOf <- NoRequests
    Callers = {}
    Turns = {t1, t2}
    Sessions = {s1}
    SessionOf <- OneSession
    Leavers = {t1, t2}
    Scenes <- AllTogether
    Modes = {"chat"}
    MaxQueue = 2
    MaxCompleted = 1
    MaxChatSessions = 1
    NumSlots = 1
    MaxRunning = 1
    MaxEngineIds = 2
    Errors = {}
INVARIANT
    ActiveTurnIsActive
