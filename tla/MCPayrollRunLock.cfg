SPECIFICATION Spec
CONSTANTS
    paul = paul
    fay = fay
    ann = ann
    NULL = NULL
    Staff <- Duo
    RoleOf <- MCRoleOf
    PolicySlots = {p1}
    Runs = {r1}
    Slots = {s1, s2}
    MaxVersion = 1
    MaxCrashes = 0
    MaxRevision = 2
    MaxAdjustments = 1
    MaxCalculations = 2
CHECK_DEADLOCK FALSE
PROPERTY LockedChangesOnlyByReopening
