\* Two keys, three times, a hop window, an error threshold of 1 (a failed delta is skipped).
CONSTANTS
    Keys = {k1, k2}
    Times <- MCTimes
    Windows <- MCTimes
    Assign <- MCAssign
    Null = Null
    Absent = Absent
    ErrorThreshold = 1
    MaxOps = 5
INIT Init
NEXT Next
\* The run stops when the bound on delivered operations is reached or the
\* node halts; both end the behaviour.
INVARIANT DownstreamNeverRejects
CHECK_DEADLOCK FALSE
