\* The endpoint's sink when the executor halts the node on its first error.
\* Three keys and six operations reach every mix of inserts, key-changing
\* updates and deletes that makes a new record id land on a live one; two
\* unread notifications fill the channel; two restarts recover twice.
SPECIFICATION Spec
CONSTANTS
    k1 = k1
    k2 = k2
    k3 = k3
    v1 = v1
    v2 = v2
    Keys <- MCKeys
    Vals <- MCVals
    Absent = Absent
    HasNotifier = TRUE
    ChanCap = 2
    ErrorThreshold = 0
    MaxOps = 6
    MaxRestarts = 2
SYMMETRY MCSymmetry
INVARIANT TypeOK
INVARIANT PrimaryIndexConsistent
INVARIANT CommittedMatchesUpstream
INVARIANT SubscriberConverges
\* A halted node with every operation delivered and no restart left stops.
CHECK_DEADLOCK FALSE
