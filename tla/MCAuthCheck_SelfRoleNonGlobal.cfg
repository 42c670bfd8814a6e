\* Role lists of up to two keys, including SELF_ROLE, of role assignments
\* that may belong to a node that is not global (a vault or an auth zone).
CONSTANTS
    r1 = r1
    r2 = r2
    minter = minter
    burner = burner
    Resources = {r1, r2}
    Amounts = {1, 2}
    MaxAmount = 2
    Counts = {1, 2}
    RoleKeys = {minter, burner}
    NonGlobalRoleAssignments = TRUE
SPECIFICATION Spec
CHECK_DEADLOCK FALSE
INVARIANT RoleListMatchesReference
