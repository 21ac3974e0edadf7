\* The default batch deployment: stream schedule, PROMO1 at max_reqs > 1.
CONSTANTS
    Blocks = {b1, b2}
    Slots = {s1, s2}
    Plan = FALSE
    Batch = TRUE
    Promo1 = TRUE
    MailCap = 2
    BucketCap = 2
    MaxGen = 2
SPECIFICATION Spec
SYMMETRY Symmetry
INVARIANTS TypeOK HotIsResidency SettledInverse ClaimsDistinct ClaimsTracked StreamInv
