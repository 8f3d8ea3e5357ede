\* One parameter, one write in flight, one rotation.
CONSTANTS
    NumSecrets = 1
    NumParams = 1
    MaxVersions = 1
    Keep = 1
    MaxKEK = 2
    PageSize = 1
    DEK = {d1, d2}
    NoDEK = NoDEK
    Requests = {r1}
    Writers = {w1}

SPECIFICATION Spec

INVARIANT EveryValueOpens
