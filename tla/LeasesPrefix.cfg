\* One read and one revocation by prefix
CONSTANTS
    NumIdentities = 2
    Items = {x1}
    Under = {x1}
    NoItem = NoItem
    TTL = 1
    RenewTTLs = {1}
    Retention = 2
    Batch = 1
    MaxDelay = 1
    MaxTime = 2
    MaxTokens = 2
    MaxLeases = 2
    Reads = {r1}
    Renewals = {n1}
    Revocations = {v1}

SPECIFICATION Spec

INVARIANT HoldersLoseTokens

CHECK_DEADLOCK FALSE
