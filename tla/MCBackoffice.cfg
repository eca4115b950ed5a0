SPECIFICATION MCSpec
CONSTANTS
    Roles = {"ADMIN", "SUPERVISOR", "EMPLOYEE"}
    Calls = {c1, c2}
    MaxClicks = 2
    Notes = {n1, n2}
    MaxPaths = 3
    MaxCalls = 4
    MaxOthers = 1
    Sites = {s1, s2}
    Staff = {e1, e2}
    Loads = {l1, l2}
    MaxActions = 3
    MaxResets = 2
INVARIANTS BackofficeTypeOK ViewMatchesAccount ShownReadIsRead FormSavesItsSite CredentialIsCurrent
PROPERTIES EveryWaitEnds CountsNeverGoBack
CHECK_DEADLOCK FALSE
