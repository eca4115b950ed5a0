SPECIFICATION Spec
CONSTANTS
    p1 = p1
    p2 = p2
    j1 = j1
    j2 = j2
    c1 = c1
    c2 = c2
    Punches = {p1, p2}
    Readings <- MCReadings
    Jobs = {j1, j2}
    Calls = {c1, c2}
    NULL = NULL
    MaxKills = 1
SYMMETRY CaptureSymmetry
INVARIANTS RecordedOnce QueuedIsKept
