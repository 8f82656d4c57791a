----------------------------- MODULE SinkSchema -----------------------------
(***************************************************************************)
(* The cache sink factory's schema derivation                              *)
(* (src/dozer-orchestrator/src/pipeline/sinks.rs, CacheSinkFactory):      *)
(* get_output_schema resolves the endpoint's primary index from the       *)
(* configured primary-key names (create_primary_indexes) and the          *)
(* upstream schema's primary index, and derives the secondary indexes     *)
(* from the field types.  prepare and build both call it: prepare then    *)
(* generates the proto files, build opens the cache with its result.      *)
(*                                                                         *)
(* A field is its name and type; a schema's fields are a sequence (a      *)
(* position is 1-based here, 0-based in the code).  Errors are their kind *)
(* only: the names and messages they carry are left out.                  *)
(***************************************************************************)
EXTENDS Naturals, Sequences, SequencesExt

CONSTANTS
    Names,      \* field names
    Types,      \* field types (a subset of FieldType)
    MaxFields,  \* bound on the fields of a schema and the configured names
    CacheIds,   \* the physical names create_cache may give a new cache
    NoCache,    \* no cache: an alias not yet created, a sink holding none
    MaxCommits, \* bound on the epochs the built sinks commit
    MaxCrashes  \* bound on the crashes of the process

ASSUME SchemaAssumption ==
    /\ Types \subseteq {"UInt", "Int", "Float", "Boolean", "Decimal", "Timestamp",
                        "Date", "Point", "String", "Text", "Binary", "Bson"}
    /\ MaxFields \in Nat
    /\ NoCache \notin CacheIds
    /\ MaxCommits \in Nat
    /\ MaxCrashes \in Nat

Field == [name : Names, typ : Types]

(* IndexDefinition.                                                         *)
SortedInverted(fs) == [kind |-> "sorted_inverted", fields |-> fs]
FullText(f) == [kind |-> "full_text", fields |-> <<f>>]

-----------------------------------------------------------------------------
(* create_primary_indexes: the position of the first field named by each  *)
(* configured name, in order; FieldNotFound for a name no field has.       *)
Position(fields, n) == SelectInSeq(fields, LAMBDA f : f.name = n)

CreatePrimaryIndexesFails(fields, names) ==
    \E j \in 1..Len(names) : Position(fields, names[j]) = 0

CreatePrimaryIndexes(fields, names) ==
    [j \in 1..Len(names) |-> Position(fields, names[j])]

(* Mutant: the Text arm creates the full-text index the comment leaves    *)
(* commented out.                                                          *)
FieldIndexesTextIndexed(i, typ) ==
    CASE typ \in {"UInt", "Int", "Float", "Boolean", "Decimal", "Timestamp",
                  "Date", "Point"} -> << SortedInverted(<<i>>) >>
      [] typ = "String" -> << SortedInverted(<<i>>), FullText(i) >>
      [] typ = "Text" -> << FullText(i) >>
      [] typ \in {"Binary", "Bson"} -> << >>

(* The secondary indexes of the field at position i, by its type.         *)
FieldIndexes(i, typ) ==
    CASE typ \in {"UInt", "Int", "Float", "Boolean", "Decimal", "Timestamp",
                  "Date", "Point"} -> << SortedInverted(<<i>>) >>
      [] typ = "String" -> << SortedInverted(<<i>>), FullText(i) >>
      [] typ \in {"Text", "Binary", "Bson"} -> << >>

(* The flat_map over the enumerated fields.                                *)
SecondaryIndexes(fields) ==
    FlattenSeq([i \in 1..Len(fields) |-> FieldIndexes(i, fields[i].typ)])

(* The match on (configured empty, upstream empty), one arm per pair: the *)
(* non-empty one, or both when they are equal (Vec equality: same         *)
(* positions, same order), else MismatchPrimaryKey.                        *)
PrimaryIndex(configured, upstreamIndex) ==
    CASE configured = << >> /\ upstreamIndex = << >> -> [ok |-> TRUE, index |-> << >>]
      [] configured = << >> /\ upstreamIndex # << >> -> [ok |-> TRUE, index |-> upstreamIndex]
      [] configured # << >> /\ upstreamIndex = << >> -> [ok |-> TRUE, index |-> configured]
      [] configured # << >> /\ upstreamIndex # << >> ->
           IF upstreamIndex # configured THEN [ok |-> FALSE, index |-> << >>]
           ELSE [ok |-> TRUE, index |-> configured]

(* get_output_schema: the error, or the schema's primary index and the    *)
(* secondary indexes.                                                      *)
GetOutputSchema(fields, upstreamIndex, names) ==
    IF CreatePrimaryIndexesFails(fields, names)
    THEN [error |-> "FieldNotFound"]
    ELSE LET p == PrimaryIndex(CreatePrimaryIndexes(fields, names), upstreamIndex) IN
         IF ~p.ok THEN [error |-> "MismatchPrimaryKey"]
         ELSE [error |-> "none", primary |-> p.index,
               secondary |-> SecondaryIndexes(fields)]

-----------------------------------------------------------------------------
(* A primary index as the schema invariant wants it: positions of fields, *)
(* none twice.                                                             *)
WellFormedIndex(fields, idx) ==
    /\ \A j \in 1..Len(idx) : idx[j] \in 1..Len(fields)
    /\ IsInjective(idx)

VARIABLES
    fields,         \* the upstream schema's fields (input port schema)
    upstreamIndex,  \* the upstream schema's primary_index
    names,          \* api_endpoint.index.primary_key
    phase,          \* "new", "prepared", "creating", "aliasing", "opened",
                    \* "built" or "failed"
    error,          \* the error prepare or build returned, or "none"
    cache,          \* the primary and secondary indexes the sink's cache has
    pending,        \* the cache create_cache returned, not yet aliased
    open,           \* the cache open_or_create_cache returned
    \* Persisted by the cache manager, kept across crashes:
    created,        \* the physical caches that exist
    cacheSchema,    \* created cache -> the indexes it was created with
    alias,          \* the cache the endpoint's name is an alias of, or NoCache
    epochs,         \* cache -> the epochs committed into it
    \* The world outside the process:
    committed,      \* epochs the pipeline has committed (its sources resume
                    \* after the last one)
    crashes         \* crashes so far (bounded)

persisted == <<created, cacheSchema, alias, epochs>>
vars == <<fields, upstreamIndex, names, phase, error, cache, pending, open,
          persisted, committed, crashes>>

(* The inputs: any fields, an upstream schema that satisfies the schema   *)
(* invariant (it is produced by the SQL pipeline), any configured names;  *)
(* the cache manager's directory starts empty.                             *)
Init ==
    /\ fields \in SeqOf(Field, MaxFields)
    /\ upstreamIndex \in {idx \in SeqOf(1..Len(fields), MaxFields) : WellFormedIndex(fields, idx)}
    /\ names \in SeqOf(Names, MaxFields)
    /\ phase = "new"
    /\ error = "none"
    /\ cache = "none"
    /\ pending = NoCache
    /\ open = NoCache
    /\ created = {}
    /\ cacheSchema = [c \in {} |-> "none"]
    /\ alias = NoCache
    /\ epochs = [c \in CacheIds |-> 0]
    /\ committed = 0
    /\ crashes = 0

(* Steps of one build: fail with err and drop what the build holds.       *)
BuildFails(err) ==
    /\ phase' = "failed" /\ error' = err
    /\ pending' = NoCache /\ open' = NoCache
    /\ UNCHANGED cache

(* prepare: get_output_schema, then ProtoGenerator::generate, which can    *)
(* fail on I/O.                                                            *)
Prepare ==
    LET s == GetOutputSchema(fields, upstreamIndex, names) IN
    /\ phase = "new"
    /\ \/ /\ s.error # "none"
          /\ phase' = "failed" /\ error' = s.error
       \/ /\ s.error = "none"
          /\ phase' = "prepared" /\ UNCHANGED error
       \/ /\ s.error = "none"
          /\ phase' = "failed" /\ error' = "InternalError"
    /\ UNCHANGED <<fields, upstreamIndex, names, cache, pending, open,
                   persisted, committed, crashes>>

(* Mutant: open_rw_cache misses the cache the alias names (it looks up   *)
(* another name) and the build goes on to create a new one.               *)
BuildMissesAlias ==
    LET s == GetOutputSchema(fields, upstreamIndex, names) IN
    /\ phase \in {"new", "prepared"}
    /\ \/ /\ s.error # "none"
          /\ BuildFails(s.error)
       \/ /\ s.error = "none"
          /\ BuildFails("CacheOpenFailed")
       \/ /\ s.error = "none"
          /\ phase' = "creating"
          /\ UNCHANGED <<error, cache, pending, open>>
    /\ UNCHANGED <<fields, upstreamIndex, names, persisted, committed, crashes>>

(* build: get_output_schema again, then open_or_create_cache, whose first *)
(* call open_rw_cache(name) fails, returns the cache the alias names, or  *)
(* returns None when there is no such alias.  Build does not depend on    *)
(* prepare, which a run may skip.                                          *)
Build ==
    LET s == GetOutputSchema(fields, upstreamIndex, names) IN
    /\ phase \in {"new", "prepared"}
    /\ \/ /\ s.error # "none"
          /\ BuildFails(s.error)
       \/ /\ s.error = "none"
          /\ BuildFails("CacheOpenFailed")
       \/ /\ s.error = "none" /\ alias # NoCache
          /\ phase' = "opened" /\ open' = alias
          /\ UNCHANGED <<error, cache, pending>>
       \/ /\ s.error = "none" /\ alias = NoCache
          /\ phase' = "creating"
          /\ UNCHANGED <<error, cache, pending, open>>
    /\ UNCHANGED <<fields, upstreamIndex, names, persisted, committed, crashes>>

(* create_cache with the endpoint's schema and secondary indexes: a new   *)
(* physical cache, or CacheCreateFailed.                                   *)
CreateCache ==
    LET s == GetOutputSchema(fields, upstreamIndex, names) IN
    /\ phase = "creating"
    /\ \/ \E c \in CacheIds \ created :
            /\ created' = created \cup {c}
            /\ cacheSchema' = [x \in created' |->
                                 IF x = c THEN [primary |-> s.primary, secondary |-> s.secondary]
                                 ELSE cacheSchema[x]]
            /\ pending' = c
            /\ phase' = "aliasing"
            /\ UNCHANGED <<error, cache, open>>
       \/ /\ BuildFails("CacheCreateFailed")
          /\ UNCHANGED <<created, cacheSchema>>
    /\ UNCHANGED <<fields, upstreamIndex, names, alias, epochs, committed, crashes>>

(* Mutant: the alias error is ignored and the sink runs on the new cache. *)
CreateAliasIgnoresError ==
    /\ phase = "aliasing"
    /\ \/ /\ alias' = pending
       \/ UNCHANGED alias
    /\ phase' = "opened" /\ open' = pending
    /\ UNCHANGED <<error, cache, pending>>
    /\ UNCHANGED <<fields, upstreamIndex, names, created, cacheSchema, epochs,
                   committed, crashes>>

(* create_alias(cache.name(), name), then Ok(cache); or                    *)
(* CacheCreateAliasFailed, which leaves the new cache without an alias.    *)
CreateAlias ==
    /\ phase = "aliasing"
    /\ \/ /\ alias' = pending
          /\ phase' = "opened" /\ open' = pending
          /\ UNCHANGED <<error, cache, pending>>
       \/ /\ BuildFails("CacheCreateAliasFailed")
          /\ UNCHANGED alias
    /\ UNCHANGED <<fields, upstreamIndex, names, created, cacheSchema, epochs,
                   committed, crashes>>

(* CacheSink::new counts the cache's records (CacheCountFailed) and wraps *)
(* it: the sink is built on the cache with the cache's own indexes.       *)
NewSink ==
    /\ phase = "opened"
    /\ \/ /\ phase' = "built"
          /\ cache' = cacheSchema[open]
          /\ UNCHANGED <<error, pending, open>>
       \/ BuildFails("CacheCountFailed")
    /\ UNCHANGED <<fields, upstreamIndex, names, persisted, committed, crashes>>

(* CacheSink::commit: cache.commit makes the epoch durable in the open    *)
(* cache.                                                                  *)
CommitEpoch ==
    /\ phase = "built"
    /\ committed < MaxCommits
    /\ epochs' = [epochs EXCEPT ![open] = @ + 1]
    /\ committed' = committed + 1
    /\ UNCHANGED <<fields, upstreamIndex, names, phase, error, cache, pending,
                   open, created, cacheSchema, alias, crashes>>

(* The process dies at any point after it started the factory and is     *)
(* started again with the same configuration: what the cache manager      *)
(* persisted stays, the factory starts anew.                               *)
Crash ==
    /\ phase # "new"
    /\ crashes < MaxCrashes
    /\ phase' = "new" /\ error' = "none" /\ cache' = "none"
    /\ pending' = NoCache /\ open' = NoCache
    /\ crashes' = crashes + 1
    /\ UNCHANGED <<fields, upstreamIndex, names, persisted, committed>>

Next == Prepare \/ Build \/ CreateCache \/ CreateAlias \/ NewSink
        \/ CommitEpoch \/ Crash

Spec == Init /\ [][Next]_vars

-----------------------------------------------------------------------------
TypeOK ==
    /\ fields \in Seq(Field)
    /\ names \in Seq(Names)
    /\ phase \in {"new", "prepared", "creating", "aliasing", "opened", "built", "failed"}
    /\ error \in {"none", "FieldNotFound", "MismatchPrimaryKey", "InternalError",
                  "CacheOpenFailed", "CacheCreateFailed", "CacheCreateAliasFailed",
                  "CacheCountFailed"}
    /\ pending \in CacheIds \cup {NoCache}
    /\ open \in CacheIds \cup {NoCache}
    /\ created \subseteq CacheIds
    /\ alias \in created \cup {NoCache}
    /\ epochs \in [CacheIds -> 0..MaxCommits]
    /\ committed \in 0..MaxCommits
    /\ crashes \in 0..MaxCrashes

(* The secondary indexes the spec derives from the field types (spec 2,   *)
(* IndexDefinition): SortedInverted on every numeric, boolean, temporal,  *)
(* point and string field, FullText on every string field, nothing on     *)
(* text, binary and bson.                                                  *)
SpecSecondary(fs) ==
    {SortedInverted(<<i>>) : i \in {j \in 1..Len(fs) : fs[j].typ \notin {"Text", "Binary", "Bson"}}}
    \cup {FullText(i) : i \in {j \in 1..Len(fs) : fs[j].typ = "String"}}

(* The field positions the configured names denote: for each name, the   *)
(* least position of a field of that name.                                *)
SpecPositions(fs, ns) ==
    [j \in 1..Len(ns) |-> CHOOSE i \in 1..Len(fs) :
                             /\ fs[i].name = ns[j]
                             /\ \A i2 \in 1..i - 1 : fs[i2].name # ns[j]]

(* The build-time errors the spec names (spec 6): an unknown field in the *)
(* primary-key configuration, or a configured key conflicting with the    *)
(* upstream one.                                                           *)
Misconfigured(fs, up, ns) ==
    \/ \E j \in 1..Len(ns) : \A i \in 1..Len(fs) : fs[i].name # ns[j]
    \/ ns # << >> /\ up # << >> /\ up # SpecPositions(fs, ns)

(* A sink is built exactly when its configuration is consistent, and then *)
(* its cache gets the primary index the spec prescribes (the configured   *)
(* one, else the upstream one) and every derived secondary index once, in *)
(* field order (get_output_schema, sinks.rs 88-157).                      *)
SchemaMatchesSpec ==
    /\ error \in {"FieldNotFound", "MismatchPrimaryKey"} => Misconfigured(fields, upstreamIndex, names)
    /\ phase = "built" =>
         /\ ~Misconfigured(fields, upstreamIndex, names)
         /\ cache.primary = IF names = << >> THEN upstreamIndex
                            ELSE SpecPositions(fields, names)
         /\ ToSet(cache.secondary) = SpecSecondary(fields)
         /\ IsInjective(cache.secondary)
         /\ \A j \in 1..Len(cache.secondary) - 1 :
              cache.secondary[j].fields[1] <= cache.secondary[j + 1].fields[1]

(* Every epoch the pipeline committed is in the cache a built sink opens, *)
(* and a cache the alias does not name (one a crash or a failed           *)
(* create_alias left behind) holds none: whatever crashes, failures and   *)
(* rebuilds happened, the sources resume after the last committed epoch   *)
(* and the sink's cache already holds it (open_or_create_cache,           *)
(* sinks.rs 247-277, with CacheSink::commit).                             *)
DurableCommits ==
    /\ phase = "built" => epochs[open] = committed
    /\ \A c \in created \ {alias} : epochs[c] = 0

(* Spec 2: a schema's primary_index positions are in bounds and unique.   *)
(* The cache a built sink holds is created with the primary index          *)
(* get_output_schema derives (sinks.rs 98-121, create_primary_indexes      *)
(* 221-238), so that index must be well formed too.                        *)
BuiltPrimaryWellFormed ==
    phase = "built" => WellFormedIndex(fields, cache.primary)

(* Once the endpoint's name is an alias of a cache, no step points it at  *)
(* another: a rebuild after any crash or failure reopens that cache       *)
(* (open_rw_cache finds the alias) and create_alias only runs when there  *)
(* is none, so readers of the endpoint never see its data replaced.       *)
AliasStable == [][alias # NoCache => alias' = alias]_vars

=============================================================================
