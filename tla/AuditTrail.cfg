\* Two requests at a time, four in all, two failing appends per process.
CONSTANTS
    Requests = {r1, r2}
    MaxAccess = 4
    MaxFailures = 2

SPECIFICATION FairSpec

INVARIANTS
    ServedIsRecorded
    ChainContinues
    TornRecordIsLast

PROPERTIES
    UnrecordedWriteCloses
    FailureSeals

\* Every request of the bound has been made.
CHECK_DEADLOCK FALSE
