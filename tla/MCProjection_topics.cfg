SPECIFICATION TopicSpec
CONSTANTS
    Worker = {w1, w2}
    Username = {acme}
    Id = {1, 2}
    Bucket = {b1, b2}
    Config = {c1, c2}
    Hash = {h1, h2}
    Limit = {1}
    Operations <- AllOps
    MaxLate = 1
    Nil = Nil
    NoHash = NoHash
SYMMETRY Symmetry
INVARIANTS
    TypeOK
    AccountAgreement
    GrantAgreement
    GrantsOfLiveAccounts
    GrantsWithinLimit
PROPERTIES
    AccountsMirrored
    GrantsMirrored
CHECK_DEADLOCK FALSE
