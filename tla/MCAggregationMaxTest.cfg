\* The scenario of test_max_aggregation_float, one behaviour of eight steps.
CONSTANTS
    Italy = Italy
    Singapore = Singapore
    Groups <- MCGroups
    Vals <- MCVals
    Absent = Absent
    MaxOps = 8
INIT TestInit
NEXT TestNext
INVARIANT TestExpectations
CHECK_DEADLOCK FALSE
