SPECIFICATION FairSpec
CONSTANTS
    m1 = m1  m2 = m2
    wide = wide  narrow = narrow  other = other
    N = 3
    Msgs = {m1, m2}
    Subjects = {wide, narrow, other}
    SubjectOf <- MixedListens
    ListensTo <- MixedListens
    Core = {1, 2}
    Delivers <- MixedDelivers
    Internal = {m2}
    NamesInternal = {2}
    MaxHeld = 1
    MaxRedecides = 0
PROPERTY
    CopiesSettle
