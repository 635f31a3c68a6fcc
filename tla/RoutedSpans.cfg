SPECIFICATION Spec
CONSTANTS
    NumLayers = 3
    SinkTokens = 1
    RingTokens = 1
    RouteChunk = 4
    RoutedSlots = 2
    SpanBudget = 3
    MaxSpan = 2
    Stride = 2
    Packets = TRUE
    MaxTokens = 12
    PromptLens = {3, 8}
    SuffixLens = {3}
    ChunkLens = {1, 3, 8}
    Reserves = {1, 3}
    Longer = {0, 2}
    WidthBucket = 4
    Warmups = 2
    BreakSets <- SmallBreaks
INVARIANTS
    PositionsKept
    FollowersAgree
    ReadsAreExact
    WithinPlan
