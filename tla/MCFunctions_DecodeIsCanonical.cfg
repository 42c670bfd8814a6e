\* Every small type, both decoder modes, every input made from an encoding;
\* the other parts' constants as in MCFunctions.cfg.
CONSTANTS
    Types <- MCTypes
    U8Values = {0, 1, 2}
    Chars = {65}
    BadByte = 200
    MaxLen = 2
    k1 = k1
    k2 = k2
    EntityId <- MCEntityId
    AddressHashLength = 2
    HashBytes = {0, 1}
    PublicKeys = {k1, k2}
    CurveOf <- MCCurveOf
    KeyHash <- MCKeyHash
    r1 = r1
    r2 = r2
    minter = minter
    burner = burner
    MaxDepth = 4
    Resources = {r1, r2}
    Amounts = {1, 2}
    MaxAmount = 2
    Counts = {1, 2}
    RoleKeys = {minter, burner}
    NonGlobalRoleAssignments = FALSE
SPECIFICATION MCSpec
\* Each part is a function call that returns: evaluated inputs are final.
CHECK_DEADLOCK FALSE
INVARIANT DecodeIsCanonical
