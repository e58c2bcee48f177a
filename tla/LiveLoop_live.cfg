SPECIFICATION FairSpec
CONSTANTS
    p1 = p1  p2 = p2
    m1 = m1  m2 = m2  big = big
    Producers = {p1}
    Msgs = {m1, m2, big}
    Feed <- OneFeed
    Size <- Sizes3
    ChanCap = 1
    MaxBytes = 2
    MaxBatch = 1
    Limited = FALSE
    MaxDenials = 0
    MaxReloads = 2
    MaxFlaps = 1
PROPERTIES
    LostEnds ReloadTold
