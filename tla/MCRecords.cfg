SPECIFICATION MCSpec
CONSTANTS
    ada = ada
    wes = wes
    s1 = s1
    s2 = s2
    p1 = p1
    p2 = p2
    r1 = r1
    r2 = r2
    People = {ada, wes}
    RoleOf <- MCRoleOf
    NULL = NULL
    Profiles = {p1, p2}
    CompSlots = {s1, s2}
    MaxDay = 2
    MaxPilots = 2
    Runs = {r1, r2}
    Codes = {"BASE", "OT"}
    Amounts = {0, 2}
    Tolerance = 1
    Target = 2
    PilotSlots = {s1, s2}
    Phones = {"phone"}
    Viewers = {wes}
SYMMETRY MCSymmetry
VIEW MCView
INVARIANTS RecordsTypeOK PeriodsSound CompletionNotMissed SignOffOfResolved CyclesNumbered OverviewAgrees
CHECK_DEADLOCK FALSE
