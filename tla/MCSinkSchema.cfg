\* Schemas of up to two fields of a numeric, a string or a text type, and
\* up to two configured primary-key names: every arm of the primary-index
\* match, an unknown name, a repeated name and each arm of the type match.
\* Two physical cache names and two crashes: a crash (or a failed
\* create_alias) can leave an orphan and the next build still has a name
\* to create under; two commits let a crash fall between them.
SPECIFICATION Spec
CONSTANTS
    n1 = n1
    n2 = n2
    c1 = c1
    c2 = c2
    NoCache = NoCache
    Names <- MCNames
    CacheIds <- MCCacheIds
    Types = {"Int", "String", "Text"}
    MaxFields = 2
    MaxCommits = 2
    MaxCrashes = 2
SYMMETRY MCSymmetry
INVARIANT SchemaMatchesSpec
INVARIANT DurableCommits
\* A sink that has failed, or is built with its commits and crashes used
\* up, stays so: the factory is done.
CHECK_DEADLOCK FALSE
PROPERTY AliasStable
