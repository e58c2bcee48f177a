SPECIFICATION Spec
CONSTANTS
    p1 = p1  p2 = p2
    m1 = m1  m2 = m2  big = big
    Producers = {p1, p2}
    Msgs = {m1, m2, big}
    Feed <- TwoFeeds
    Size <- Sizes3
    ChanCap = 2
    MaxBytes = 2
    MaxBatch = 2
    Limited = TRUE
    MaxDenials = 1
    MaxReloads = 1
    MaxFlaps = 0
INVARIANTS
    TypeOK BytesWithinCap Accounted InOrder DecodesFresh OneSend
