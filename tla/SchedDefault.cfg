\* Budget 2 for a batch of 2 with chunks of 2: a prefill may use up the budget,
\* so that the next gets what is left, is passed over, or is not admitted.  One request more
\* than there are slots, one of them a session that may stay parked.  The
\* engine keeps stepping, so turns must end and the queue must move.
SPECIFICATION FairSpec
CONSTANTS
    s1 = s1
    r1 = r1
    r2 = r2
    Requests = {s1, r1, r2}
    Sessions = {s1}
    Families = {"wkv", "shift"}
    NumSlots = 2
    MaxTokensPerStep = 2
    MaxRunning = 2
    MaxPerRequest = 2
    LaneSize = 0
    PromptLens = {3}
    OutputLimits = {2}
    SuffixLens = {1}
    MaxPrompt = 5
INVARIANTS
    TypeOK
    QueuesMatchStatus
    SlotConservation
    GapInvariant
    BudgetRespected
PROPERTIES
    AdmittedAreScheduled
    FinishedIsFinal
    TurnsEnd
    QueueMoves
