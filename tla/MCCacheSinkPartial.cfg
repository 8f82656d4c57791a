\* With an error threshold of 1, does the committed cache still equal the
\* upstream table at the committed epoch?
SPECIFICATION Spec
CONSTANTS
    k1 = k1
    k2 = k2
    k3 = k3
    v1 = v1
    v2 = v2
    Keys <- MCKeys
    Vals <- MCVals
    Absent = Absent
    HasNotifier = FALSE
    ChanCap = 2
    ErrorThreshold = 1
    MaxOps = 6
    MaxRestarts = 2
SYMMETRY MCSymmetry
INVARIANT CommittedMatchesUpstream
\* A halted node with every operation delivered and no restart left stops.
CHECK_DEADLOCK FALSE
