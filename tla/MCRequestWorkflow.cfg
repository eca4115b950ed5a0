SPECIFICATION MCSpec
CONSTANTS
    sue = sue
    hal = hal
    eve = eve
    NULL = NULL
    Staff <- MCStaff
    RoleOf <- MCRoleOf
    PolicySteps <- MCPolicySteps
    Types = {"ATTENDANCE_CORRECTION", "REMOTE_WORK", "FIELD_ASSIGNMENT"}
    Requests = {q1}
    Slots = {s1, s2}
    MaxCrashes = 1
SYMMETRY SlotSymmetry
CHECK_DEADLOCK FALSE
INVARIANTS
    TypeOK
    StepsInOrder
    CorrectionEvents
    WaitingOnSomeoneWhoKnows
PROPERTY SerialImplementsApproval
