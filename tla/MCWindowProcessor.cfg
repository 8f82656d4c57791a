\* Two keys, three times, a hop window, the halting error policy.
CONSTANTS
    Keys = {k1, k2}
    Times <- MCTimes
    Windows <- MCTimes
    Assign <- MCAssign
    Null = Null
    Absent = Absent
    ErrorThreshold = 0
    MaxOps = 5
INIT Init
NEXT Next
INVARIANT DownstreamNeverRejects
INVARIANT WindowViewMaintained
\* The run stops when the bound on delivered operations is reached or the
\* node halts; both end the behaviour.
CHECK_DEADLOCK FALSE
