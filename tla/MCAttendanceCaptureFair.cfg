SPECIFICATION FairSpec
CONSTANTS
    p1 = p1
    p2 = p2
    j1 = j1
    j2 = j2
    c1 = c1
    c2 = c2
    Punches = {p1}
    Readings <- MCAllReadings
    Jobs = {j1, j2}
    Calls = {c1, c2}
    NULL = NULL
    MaxKills = 1
PROPERTIES ImplementsPunchLog QueuedIsRecorded
