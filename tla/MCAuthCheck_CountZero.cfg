\* CountOf with a count of 0.
CONSTANTS
    r1 = r1
    r2 = r2
    minter = minter
    burner = burner
    Resources = {r1, r2}
    Amounts = {1, 2}
    MaxAmount = 2
    Counts = {0, 1}
    RoleKeys = {minter, burner}
    NonGlobalRoleAssignments = FALSE
SPECIFICATION Spec
CHECK_DEADLOCK FALSE
INVARIANTS
    RuleMatchesReference
