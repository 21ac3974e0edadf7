\* Several requests share the engine and its one lease.
CONSTANTS
    Requests = {r1, r2}
    Page = 2
    Budget = 4
    MaxLen = 6
    MaxAdmit = 2
SPECIFICATION Spec
CHECK_DEADLOCK FALSE
SYMMETRY Symmetry
INVARIANT LeaseExact
