SPECIFICATION Spec
CONSTANTS
    m1 = m1  m2 = m2
    wide = wide  narrow = narrow  other = other
    N = 3
    Msgs = {m1, m2}
    Subjects = {wide, narrow, other}
    SubjectOf <- ThreeSubjects
    ListensTo <- ThreeSubjects
    Core = {1, 2, 3}
    Delivers <- ThreeDelivers
    Internal = {}
    NamesInternal = {}
    MaxHeld = 1
    MaxRedecides = 1
INVARIANTS
    TypeOK HandedOnce ShownByFirst FirstNotLost HeldIsUnknown EndedHoldsNothing
PROPERTY
    ImplementsFeed
