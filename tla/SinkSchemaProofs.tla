--------------------------- MODULE SinkSchemaProofs ---------------------------
(***************************************************************************)
(* Proofs about SinkSchema: the sink's type invariant and DurableCommits  *)
(* for every configuration, every set of cache names and every bound.     *)
(*                                                                         *)
(* DurableCommits is not inductive alone.  It says nothing of the phases  *)
(* between open_rw_cache and CacheSink::new, and a commit or a            *)
(* create_alias step needs to know which cache the sink holds there.      *)
(* CacheIInv adds that the alias names the cache of every committed       *)
(* epoch (no alias means no commit yet), that no other cache holds an     *)
(* epoch, that a build only creates a cache while no alias exists, and    *)
(* that the cache an opened or built sink holds is the aliased one.       *)
(***************************************************************************)
EXTENDS SinkSchema, TLAPS

CacheIInv ==
    /\ TypeOK
    /\ alias = NoCache => committed = 0
    /\ alias # NoCache => epochs[alias] = committed
    /\ \A c \in CacheIds \ {alias} : epochs[c] = 0
    /\ phase \in {"creating", "aliasing"} => alias = NoCache
    /\ phase = "aliasing" => pending \in created
    /\ phase \in {"opened", "built"} => open = alias /\ alias # NoCache

USE SchemaAssumption

(* get_output_schema fails only with the two configuration errors.        *)
LEMMA SchemaErrors ==
    ASSUME NEW f, NEW u, NEW n
    PROVE  GetOutputSchema(f, u, n).error \in {"none", "FieldNotFound", "MismatchPrimaryKey"}
BY DEF GetOutputSchema

(* A bounded sequence is a sequence.                                        *)
LEMMA SeqOfIsSeq ==
    ASSUME NEW S, NEW n \in Nat
    PROVE  SeqOf(S, n) \subseteq Seq(S)
BY DEF SeqOf

Phases == {"new", "prepared", "creating", "aliasing", "opened", "built", "failed"}
Errors == {"none", "FieldNotFound", "MismatchPrimaryKey", "InternalError",
           "CacheOpenFailed", "CacheCreateFailed", "CacheCreateAliasFailed",
           "CacheCountFailed"}

LEMMA InitCacheIInv == Init => CacheIInv
<1> SUFFICES ASSUME Init PROVE CacheIInv
  OBVIOUS
<1>1. fields \in Seq(Field) /\ names \in Seq(Names)
  BY SeqOfIsSeq DEF Init
<1>. QED
  BY <1>1 DEF Init, CacheIInv, TypeOK

LEMMA PrepareStep == CacheIInv /\ Prepare => CacheIInv'
<1> SUFFICES ASSUME CacheIInv, Prepare PROVE CacheIInv'
  OBVIOUS
<1>0. GetOutputSchema(fields, upstreamIndex, names).error
        \in {"none", "FieldNotFound", "MismatchPrimaryKey"}
  BY SchemaErrors
<1>1. error' \in {GetOutputSchema(fields, upstreamIndex, names).error, error, "InternalError"}
  BY Zenon DEF Prepare
<1>2. error' \in Errors
  BY <1>0, <1>1 DEF CacheIInv, TypeOK, Errors
<1>. QED
  BY <1>2 DEF Prepare, persisted, CacheIInv, TypeOK, Errors

LEMMA BuildStep == CacheIInv /\ Build => CacheIInv'
<1> SUFFICES ASSUME CacheIInv, Build PROVE CacheIInv'
  OBVIOUS
<1>0. GetOutputSchema(fields, upstreamIndex, names).error
        \in {"none", "FieldNotFound", "MismatchPrimaryKey"}
  BY SchemaErrors
<1>1. error' \in {GetOutputSchema(fields, upstreamIndex, names).error, error,
                  "CacheOpenFailed"}
  BY Zenon DEF Build, BuildFails
<1>2. error' \in Errors
  BY <1>0, <1>1 DEF CacheIInv, TypeOK, Errors
<1>. QED
  BY <1>2 DEF Build, BuildFails, persisted, CacheIInv, TypeOK, Errors

LEMMA CreateCacheStep == CacheIInv /\ CreateCache => CacheIInv'
<1> SUFFICES ASSUME CacheIInv, CreateCache PROVE CacheIInv'
  OBVIOUS
<1>. QED
  BY DEF CreateCache, BuildFails, CacheIInv, TypeOK

LEMMA CreateAliasStep == CacheIInv /\ CreateAlias => CacheIInv'
<1> SUFFICES ASSUME CacheIInv, CreateAlias PROVE CacheIInv'
  OBVIOUS
<1>. QED
  BY DEF CreateAlias, BuildFails, CacheIInv, TypeOK

LEMMA NewSinkStep == CacheIInv /\ NewSink => CacheIInv'
<1> SUFFICES ASSUME CacheIInv, NewSink PROVE CacheIInv'
  OBVIOUS
<1>. QED
  BY DEF NewSink, BuildFails, persisted, CacheIInv, TypeOK

LEMMA CommitEpochStep == CacheIInv /\ CommitEpoch => CacheIInv'
<1> SUFFICES ASSUME CacheIInv, CommitEpoch PROVE CacheIInv'
  OBVIOUS
<1>. QED
  BY DEF CommitEpoch, CacheIInv, TypeOK

LEMMA CrashStep == CacheIInv /\ Crash => CacheIInv'
<1> SUFFICES ASSUME CacheIInv, Crash PROVE CacheIInv'
  OBVIOUS
<1>. QED
  BY DEF Crash, persisted, CacheIInv, TypeOK

LEMMA NextCacheIInv == CacheIInv /\ [Next]_vars => CacheIInv'
<1> SUFFICES ASSUME CacheIInv, [Next]_vars PROVE CacheIInv'
  OBVIOUS
<1>1. CASE UNCHANGED vars
  BY <1>1 DEF vars, persisted, CacheIInv, TypeOK
<1>. QED
  BY <1>1, PrepareStep, BuildStep, CreateCacheStep, CreateAliasStep,
     NewSinkStep, CommitEpochStep, CrashStep DEF Next

(* CacheIInv holds in every state of every behaviour.                      *)
THEOREM CacheIInvInvariant == Spec => []CacheIInv
BY InitCacheIInv, NextCacheIInv, PTL DEF Spec

(* The sink's variables keep their types whatever the configuration, the  *)
(* cache names and the bounds.                                             *)
THEOREM TypeCorrect == Spec => []TypeOK
<1>1. CacheIInv => TypeOK
  BY DEF CacheIInv
<1>. QED
  BY <1>1, CacheIInvInvariant, PTL

(* Every committed epoch is in the cache a built sink opens, and no cache *)
(* the alias does not name holds one, across crashes at any step of       *)
(* open_or_create_cache and failed create_cache, create_alias and         *)
(* CacheSink::new calls, for every number of caches, commits and crashes. *)
THEOREM DurableCommitsInvariant == Spec => []DurableCommits
<1>1. CacheIInv => DurableCommits
  BY DEF CacheIInv, DurableCommits, TypeOK
<1>. QED
  BY <1>1, CacheIInvInvariant, PTL

(* Once the endpoint's alias names a cache, no step of open_or_create_cache*)
(* , of a crash or of a commit points it at another: the only step that    *)
(* sets it, create_alias, runs when the build found no alias.              *)
THEOREM AliasStableProperty == Spec => AliasStable
<1>1. CacheIInv /\ [Next]_vars => [alias # NoCache => alias' = alias]_vars
  <2> SUFFICES ASSUME CacheIInv, [Next]_vars, alias # NoCache
               PROVE  alias' = alias
    BY DEF vars
  <2>1. CASE CreateAlias
    BY <2>1 DEF CreateAlias, BuildFails, CacheIInv
  <2>2. CASE UNCHANGED vars
    BY <2>2 DEF vars, persisted
  <2>. QED
    BY <2>1, <2>2 DEF Next, Prepare, Build, BuildFails, CreateCache, NewSink,
       CommitEpoch, Crash, persisted
<1>. QED
  BY <1>1, CacheIInvInvariant, PTL DEF AliasStable, Spec

=============================================================================
