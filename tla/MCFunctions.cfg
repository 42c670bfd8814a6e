\* SBOR: every small type, both decoder modes, every input made from an
\* encoding.  Addresses: every entity type, two keys whose hashes collide.
\* Authorization: every auth-zone stack of up to 4 zones; every access rule
\* over two resources with CountOf counts 1 and 2, and every role list of up
\* to two keys of a global object's role assignment, over every walk answer
\* in debug and release builds.
CONSTANTS
    Types <- MCTypes
    U8Values = {0, 1, 2}
    Chars = {65}
    BadByte = 200
    MaxLen = 2
    k1 = k1
    k2 = k2
    EntityId <- MCEntityId
    AddressHashLength = 2
    HashBytes = {0, 1}
    PublicKeys = {k1, k2}
    CurveOf <- MCCurveOf
    KeyHash <- MCKeyHash
    r1 = r1
    r2 = r2
    minter = minter
    burner = burner
    MaxDepth = 4
    Resources = {r1, r2}
    Amounts = {1, 2}
    MaxAmount = 2
    Counts = {1, 2}
    RoleKeys = {minter, burner}
    NonGlobalRoleAssignments = FALSE
SPECIFICATION MCSpec
\* Each part is a function call that returns: evaluated inputs are final.
CHECK_DEADLOCK FALSE
INVARIANTS
    DecodeMatchesGrammar
    AddressCodecIsExact
    VirtualAddressesAreDistinct
    WalkMatchesReference
    RuleMatchesReference
    RoleListMatchesReference
