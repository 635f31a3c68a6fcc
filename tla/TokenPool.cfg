SPECIFICATION Spec
CONSTANTS
    s1 = s1
    r1 = r1
    Requests = {s1, r1}
    Sessions = {s1}
    Options <- PoolOptions
    PromptLens = {4}
    SuffixLens = {1, 2}
    ChunkLens = {2}
    MaxNew = 3
    MaxTokens = 10
    Keep = 1
    Chunk = 3
    NumRows = 2
    SlidingWindow = 4
    BlockSize = 2
    RequestSlots = 16
    Capacity = 24
    MetadataRows = 1
    Plans <- SixPlans
INVARIANTS
    SlotsHaveOneOwner
    TablesAgree
    TailIsKept
    DecodesReadTheirWindow
    FillsReadTheirWindow
PROPERTIES
    IsRequestHistory
CHECK_DEADLOCK FALSE
