SPECIFICATION MCSpec
CONSTANTS
    s1 = s1
    s2 = s2
    ana = ana
    ben = ben
    Arrivals <- MCArrivals
    Corrections <- MCCorrections
    Staff <- MCStaff
    RoleOf <- MCRoleOf
    Slots = {s1, s2}
    NULL = NULL
    MaxCrashes = 1
    MaxPunches = 5
    MaxTime = 5
SYMMETRY SlotSymmetry
INVARIANTS
    TypeOK
    SummaryOfOneComputation
    MissingPunchIsRaised
    ResolutionAudited
    SummaryAccounts
PROPERTY SummaryNeverGoesBack
