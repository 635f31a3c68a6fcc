\* A lane of 2 in a batch of 3, with the smallest budget the configuration
\* accepts (3 + 2 * 2): lanes start short, refill, are cancelled and complete
\* while others decode, a request that resumes in its prompt joins the batch
\* while a lane is under way, and one session parks.  MaxPrompt is too small for
\* it to continue, which sched_default does.
SPECIFICATION FairSpec
CONSTANTS
    s1 = s1
    r1 = r1
    r2 = r2
    Requests = {s1, r1, r2}
    Sessions = {s1}
    Families = {"wkv"}
    NumSlots = 3
    MaxTokensPerStep = 7
    MaxRunning = 3
    MaxPerRequest = 2
    LaneSize = 2
    PromptLens = {3}
    OutputLimits = {2}
    SuffixLens = {1}
    MaxPrompt = 4
INVARIANTS
    LaneAccounts
    LaneFullyFunded
PROPERTIES
    TurnsEnd
    QueueMoves
