\* Two requests in a batch of two with a budget too small for both prefills, two
\* snapshots (of a running request, on finish, hibernated; resumed with or
\* without tokens to add) and a call or a step that raises anywhere.
SPECIFICATION EngineSpec
CONSTANTS
    r1 = r1
    r2 = r2
    Requests = {r1, r2}
    Sessions = {}
    Families = {"wkv", "shift"}
    NumSlots = 2
    MaxTokensPerStep = 3
    MaxRunning = 2
    MaxPerRequest = 2
    LaneSize = 0
    PromptLens = {2}
    OutputLimits = {2}
    SuffixLens = {1}
    MaxPrompt = 5
    PrefillChunk = 1
    MaxSaved = 2
    MaxRaises = 1
INVARIANTS
    SnapshotsAreExact
    SlotsAreAccountedFor
PROPERTIES
    RunRequestReturns
CHECK_DEADLOCK FALSE
