\* A process that stops in the middle of an append.
CONSTANTS
    Requests = {r1}
    MaxAccess = 4
    MaxFailures = 1

SPECIFICATION Spec

INVARIANT AcceptedLogVerifies

CHECK_DEADLOCK FALSE
