\* No claim of a running request stays pending: batch stream, fair.
CONSTANTS
    Blocks = {b1, b2}
    Slots = {s1}
    Plan = FALSE
    Batch = TRUE
    Promo1 = TRUE
    MailCap = 1
    BucketCap = 2
    MaxGen = 1
SPECIFICATION FairSpec
PROPERTY PendingSettles
