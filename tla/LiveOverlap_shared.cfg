SPECIFICATION Spec
CONSTANTS
    m1 = m1  m2 = m2
    wide = wide  narrow = narrow  other = other
    N = 3
    Msgs = {m1}
    Subjects = {wide, narrow, other}
    SubjectOf <- SharedSubjects
    ListensTo <- SharedSubjects
    Core = {1, 3}
    Delivers <- SharedDelivers
    Internal = {}
    NamesInternal = {}
    MaxHeld = 1
    MaxRedecides = 0
INVARIANT
    ShownByFirst
