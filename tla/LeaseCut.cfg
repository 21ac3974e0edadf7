\* Two requests, prompts cut into chunks that straddle pages; every cut prompt
\* is in the leased row.
CONSTANTS
    Requests = {r1, r2}
    Page = 2
    Budget = 5
    MaxLen = 9
    MaxAdmit = 4
SPECIFICATION CutLeased
CHECK_DEADLOCK FALSE
SYMMETRY Symmetry
INVARIANTS TypeOK LeaseExact FillsOnce
