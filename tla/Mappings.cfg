SPECIFICATION Spec
CONSTANTS
    g1 = g1  g2 = g2  s1 = s1
    i1 = i1  i2 = i2
    k1 = k1  k2 = k2  t1 = t1  f1 = f1
    Mutators = {g1, g2}
    Sessions = {s1}
    Ids = {i1, i2}
    Keys = {k1, k2}
    Types = {t1}
    Pins = {f1}
    NoPin = NoPin
    Absent = Absent
    Batches <- SomeBatches
    MaxCommits = 3
    MaxFailures = 1
SYMMETRY Alike
CHECK_DEADLOCK FALSE
INVARIANTS
    TypeOK UniqueKeys SessionsFollow AloneCurrent
PROPERTY
    PinsKept
