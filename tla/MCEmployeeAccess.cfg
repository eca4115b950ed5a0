SPECIFICATION MCSpec
CONSTANTS
    ann = ann
    hal = hal
    wes = wes
    ua = ua
    uh = uh
    uw = uw
    ux = ux
    s1 = s1
    s2 = s2
    Employees = {ann, hal, wes}
    RoleOf <- MCRoleOf
    EmailOf <- MCEmailOf
    OrgOf <- MCOrgOf
    Seeded = {ann, hal}
    Users = {ua, uh, uw, ux}
    UserEmail <- MCUserEmail
    Slots = {s1, s2}
    NULL = NULL
    MaxCrashes = 1
SYMMETRY SlotSymmetry
INVARIANTS ActsForLinkedEmployee SerialIssuedIsFlagged SerialAdministratorRemains
PROPERTIES LinkKept
