SPECIFICATION Spec
CONSTANTS
    paul = paul
    fay = fay
    ann = ann
    NULL = NULL
    Staff <- Trio
    RoleOf <- MCRoleOf
    PolicySlots = {p1}
    Runs = {r1}
    Slots = {s1}
    MaxVersion = 1
    MaxCrashes = 0
    MaxRevision = 2
    MaxAdjustments = 1
    MaxCalculations = 3
CHECK_DEADLOCK FALSE
INVARIANT Reproducible
