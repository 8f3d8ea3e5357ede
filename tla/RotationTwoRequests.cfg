\* Two requests that name the same version.
CONSTANTS
    NumSecrets = 1
    NumParams = 1
    MaxVersions = 1
    Keep = 1
    MaxKEK = 3
    PageSize = 1
    DEK = {d1, d2}
    NoDEK = NoDEK
    Requests = {r1, r2}
    Writers = {w1}

SPECIFICATION Spec

INVARIANT RotatesOnlyTheNamedVersion
