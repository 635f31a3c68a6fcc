\* Budget 7 > 2 + 4, as engine.py:21-28 asks, and two prompts longer than a
\* chunk.
SPECIFICATION Spec
CONSTANTS
    s1 = s1
    r1 = r1
    r2 = r2
    Requests = {r1, r2}
    Sessions = {}
    Families = {"wkv"}
    NumSlots = 2
    MaxTokensPerStep = 7
    MaxRunning = 2
    MaxPerRequest = 4
    LaneSize = 0
    PromptLens = {5}
    OutputLimits = {1}
    SuffixLens = {}
    MaxPrompt = 5
INVARIANT
    ChunksIndependentOfBatch
