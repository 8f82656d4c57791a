\* Can a built sink's cache get a primary index that repeats a position?
\* The configured key may name one field twice ([n1, n1]); no commit or
\* crash is needed, so both bounds are 0.
SPECIFICATION Spec
CONSTANTS
    n1 = n1
    n2 = n2
    c1 = c1
    c2 = c2
    NoCache = NoCache
    Names <- MCNames
    CacheIds <- MCCacheIds
    Types = {"Int", "String", "Text"}
    MaxFields = 2
    MaxCommits = 0
    MaxCrashes = 0
SYMMETRY MCSymmetry
INVARIANT BuiltPrimaryWellFormed
\* A sink that has failed or is built stays so: the factory is done.
CHECK_DEADLOCK FALSE
