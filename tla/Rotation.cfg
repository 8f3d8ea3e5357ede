CONSTANTS
    NumSecrets = 1
    NumParams = 1
    MaxVersions = 3
    Keep = 2
    MaxKEK = 3
    PageSize = 2
    DEK = {d1, d2}
    NoDEK = NoDEK
    Requests = {r1, r2}
    Writers = {w1}

SPECIFICATION Spec
SYMMETRY Symmetry

INVARIANTS
    TypeOK
    NoValueAheadOfKey
    ValuesOpen
    DestroyedStaysErased
    NothingLeftBehind
    ExaminedOnce

PROPERTIES
    KeyLifecycle
