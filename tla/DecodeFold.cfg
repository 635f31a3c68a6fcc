\* The options a GemmaNativeEngine has by default, two requests that decode
\* together, and a tail that fills up while they do.
SPECIFICATION Spec
CONSTANTS
    s1 = s1
    r1 = r1
    r2 = r2
    Requests = {r1, r2}
    Sessions = {}
    Options <- DefaultOptions
    PromptLens = {3}
    SuffixLens = {1}
    MaxNew = 3
    MaxTokens = 8
    Keep = 1
    Chunk = 4
    PaddedSteps = 2
    MaxRows = 2
INVARIANT
    ReusedGroupsCanStep
CHECK_DEADLOCK FALSE
