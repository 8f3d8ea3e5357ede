\* Up to four shares with thresholds two to four, three wrong shares,
\* three seals or restarts and two rotations.
CONSTANTS
    MaxShares = 4
    MaxKEK = 3
    MaxWrong = 3
    MaxDisruptions = 3

SPECIFICATION FairSpec

INVARIANTS
    TypeOK
    QuorumOpens
    NoShareLingers

PROPERTIES
    LostSharesAreFinal
    KeyLifecycle
    Reopens

\* A store that is out of wrong shares, seals and rotations rests.
CHECK_DEADLOCK FALSE
