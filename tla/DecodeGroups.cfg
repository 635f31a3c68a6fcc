\* Three requests, one of them a session, in every order and batch; a tail of
\* three tokens is folded, which a prompt of two and three outputs reach.
SPECIFICATION Spec
CONSTANTS
    s1 = s1
    r1 = r1
    r2 = r2
    Requests = {s1, r1, r2}
    Sessions = {s1}
    Options <- EngineOptions
    PromptLens = {2, 3}
    SuffixLens = {1}
    MaxNew = 3
    MaxTokens = 8
    Keep = 1
    Chunk = 4
    PaddedSteps = 2
    MaxRows = 2
SYMMETRY Symmetry
INVARIANTS
    ReadsWholeHistory
    GroupsAreApart
    PaddedGroupsNeverFold
PROPERTIES
    IsRequestHistory
CHECK_DEADLOCK FALSE
