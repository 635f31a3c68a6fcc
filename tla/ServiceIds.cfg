\* An id is used again after the books have forgotten it.
SPECIFICATION Spec
CONSTANTS
    r1 = r1
    r2 = r2
    r3 = r3
    a = a
    b = b
    c1 = c1
    c2 = c2
    t1 = t1
    t2 = t2
    t3 = t3
    s1 = s1
    s2 = s2
    Requests = {r1, r2, r3}
    Ids = {a, b}
    IdOf <- IdUsedTwice
    Callers = {}
    Turns = {}
    Sessions = {}
    SessionOf <- NoTurns
    Leavers = {}
    Scenes <- AllTogether
    Modes = {"chat"}
    MaxQueue = 2
    MaxCompleted = 1
    MaxChatSessions = 1
    NumSlots = 1
    MaxRunning = 1
    MaxEngineIds = 0
    Errors = {}
INVARIANT
    AcceptedIdsAreNew
