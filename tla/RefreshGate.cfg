\* The default engine (fast, no side stream).
CONSTANTS
    Requests = {r1, r2}
    Blocks = {b1, b2, b3}
    Page = 2
    Budget = 3
    Captured = {2}
    Modes <- Default
    MaxLen = 5
    MaxAlloc = 4
SPECIFICATION SpecAny
CHECK_DEADLOCK FALSE
SYMMETRY Symmetry
INVARIANT SummaryFresh
