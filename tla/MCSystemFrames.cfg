CONSTANTS
    p1 = p1
    p2 = p2
    bucket = bucket
    vault = vault
    acct = acct
    res = res
    ProofBp = ProofBp
    AuthZoneBp = AuthZoneBp
    BucketBp = BucketBp
    VaultBp = VaultBp
    ComponentBp = ComponentBp
    AccountBp = AccountBp
    NoBp = NoBp
    NoNode = NoNode
    MaxDepth = 3
SPECIFICATION Spec
\* The transaction ends when the root frame ends or an error aborts it.
CHECK_DEADLOCK FALSE
INVARIANTS
    TypeOK
    NoNodeOutlivesFrame
    MoveHookSeesOwner
    VirtualizedBeforeRetry
