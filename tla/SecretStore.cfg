\* Three requests, of every kind, on one path: a write, a reader of the seal's
\* state and an operation that takes its lock are what it takes to wait in a circle.
CONSTANTS
    Paths = {p1}
    MaxVersions = 2
    Keep = 1
    MaxKEK = 2
    Requests = {r1, r2, r3}
    NoOne = NoOne
    MaxOps = 3
    Kinds = {"put", "get", "status", "gauge", "rotate", "unseal", "seal"}

SPECIFICATION FairSpec

INVARIANTS
    NothingMovesBeforeCommit
    WritesStand
    ReadsObserveWrites

PROPERTIES
    KeepsVersions
    EveryRequestEnds

\* Every request of the bound has been made.
CHECK_DEADLOCK FALSE
