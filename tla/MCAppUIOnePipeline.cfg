\* At most one pipeline thread runs at a time (violated: stop only signals).
SPECIFICATION Spec
CONSTANTS
    t1 = t1
    t2 = t2
    Tasks <- MCTasks
    NoTask = NoTask
    MaxRuns = 2
    MaxCalls = 4
\* Once the handlers have made their calls the app idles, waiting for the
\* next request; the registered pipeline may run on.
CHECK_DEADLOCK FALSE
INVARIANT OnePipelineAtATime
