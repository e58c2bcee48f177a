SPECIFICATION Spec
CONSTANTS
    s1 = s1  s2 = s2
    e1 = e1  e2 = e2
    Sessions = {s1, s2}
    Edits = {}
    MaxStaleDials = 1
    Stops = FALSE
    MaxClients = 2
    MaxFlaps = 1
PROPERTY
    DropsOnlyDead
