SPECIFICATION MCSpec
CONSTANTS
    sue = sue
    hal = hal
    eve = eve
    NULL = NULL
    Staff <- MCStaff
    RoleOf <- MCRoleOf
    PolicySteps <- MCPolicySteps
    Types = {"ATTENDANCE_CORRECTION", "REMOTE_WORK"}
    Requests = {q1}
    Slots = {s1, s2}
    MaxCrashes = 0
SYMMETRY SlotSymmetry
CHECK_DEADLOCK FALSE
PROPERTY DecidedStaysDecided
