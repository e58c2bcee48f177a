SPECIFICATION FairSpec
CONSTANTS
    s1 = s1  s2 = s2
    e1 = e1  e2 = e2
    Sessions = {s1, s2}
    Edits = {e1}
    MaxStaleDials = 1
    Stops = TRUE
    MaxClients = 2
    MaxFlaps = 1
PROPERTIES
     GoneEnds
