\* Two identities, one version under the prefix, two tokens, two lease records.
CONSTANTS
    NumIdentities = 2
    Items = {x1}
    Under = {x1}
    NoItem = NoItem
    TTL = 1
    RenewTTLs = {1}
    Retention = 2
    Batch = 1
    MaxDelay = 1
    MaxTime = 4
    MaxTokens = 2
    MaxLeases = 2
    Reads = {r1}
    Renewals = {n1}
    Revocations = {v1}

SPECIFICATION FairSpec

INVARIANTS
    TypeOK
    OneHolding
    HoldingsStayOnRecord
    NamedHoldersAreBarred

PROPERTIES
    Swept

\* Every token, lease record and tick of the bound has been used.
CHECK_DEADLOCK FALSE
