\* The overlap schedule (plan) of one request, within one generation.
CONSTANTS
    Blocks = {b1, b2, b3}
    Slots = {s1, s2}
    Plan = TRUE
    Batch = FALSE
    Promo1 = TRUE
    MailCap = 2
    BucketCap = 2
    MaxGen = 2
SPECIFICATION OneWindow
SYMMETRY Symmetry
INVARIANTS HotIsResidency SettledInverse AdvertisedBackRef ClaimedHidden IncomingHidden ClaimsHeld
