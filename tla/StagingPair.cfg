\* Two requests, a flush list of one entry, either lifecycle.
CONSTANTS
    Requests = {r1, r2}
    Blocks = {b1,b2,b3}
    VBlocks = {v1, v2, v3}
    Page = 2
    MaxTokens = 4
    MaxFlush = 1
    Skips = TRUE
    Lifecycles = {TRUE, FALSE}
    MaxLen = 5
    MaxAlloc = 4
SPECIFICATION Spec
SYMMETRY Symmetry
INVARIANT TypeOK FreePartition ServedBytes SettledRetrievable
PROPERTY FreedAfterCopy
