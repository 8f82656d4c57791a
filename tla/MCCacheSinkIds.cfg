\* Does a stream of valid operations ever make a cache call fail?
SPECIFICATION Spec
CONSTANTS
    k1 = k1
    k2 = k2
    k3 = k3
    v1 = v1
    v2 = v2
    Keys <- MCKeys
    Vals <- MCVals
    Absent = Absent
    HasNotifier = FALSE
    ChanCap = 2
    ErrorThreshold = 0
    MaxOps = 6
    MaxRestarts = 2
SYMMETRY MCSymmetry
INVARIANT ValidStreamNeverFailsCache
\* A halted node with every operation delivered and no restart left stops.
CHECK_DEADLOCK FALSE
