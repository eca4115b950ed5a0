SPECIFICATION MCSpec
CONSTANTS
    paul = paul
    fay = fay
    ann = ann
    p1 = p1
    s1 = s1
    NULL = NULL
    Staff <- Trio
    RoleOf <- MCRoleOf
    PolicySlots = {p1, p2}
    Runs = {r1}
    Slots = {s1, s2}
    MaxVersion = 2
    MaxCrashes = 1
    MaxRevision = 3
    MaxAdjustments = 1
    MaxCalculations = 3
CHECK_DEADLOCK FALSE
INVARIANTS
    TypeOK
    MakerChecker
    RunsUnderApprovedPolicy
    ReopeningsAudited
    HashDescribesItems
    PolicyMakerChecker
PROPERTIES
    PolicyFrozen
    SerialImplementsLifecycle
