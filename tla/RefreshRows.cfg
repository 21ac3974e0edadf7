\* The fast and the mem engine, and the fast engine with the side stream.
CONSTANTS
    Requests = {r1, r2}
    Blocks = {b1, b2, b3}
    Page = 2
    Budget = 3
    Captured = {2}
    Modes <- StartModes
    MaxLen = 5
    MaxAlloc = 4
SPECIFICATION SpecKnown
CHECK_DEADLOCK FALSE
SYMMETRY Symmetry
INVARIANTS TypeOK SummaryFresh OverlapCovers DerivedFresh
