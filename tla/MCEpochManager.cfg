CONSTANTS
    a1 = a1
    a2 = a2
    i1 = i1
    i2 = i2
    NoValidator = NoValidator
    Addresses = {a1, a2}
    ValidatorInfos = {i1, i2}
    InitialEpoch = 1
    RoundsPerEpoch = 2
    MaxRound = 3
    MaxEpoch = 4
    c1 = c1
    c2 = c2
    xrd = xrd
    nfr = nfr
    Accounts = {c1, c2}
    Fungibles = {xrd}
    NFRes = nfr
    NFKeys = {1, 2}
    Supply <- MCSupply
    Nobody = Nobody
    NoVault = NoVault
    NoCall = NoCall

SYMMETRY Symmetry

SPECIFICATION MCSpec

INVARIANTS
    TypeOK
    PreparingIsNextEpoch
    AccountTypeOK
    AssetsConserved

PROPERTIES
    EpochChangeInstallsPrepared
    OnlyOwnerWithdraws
