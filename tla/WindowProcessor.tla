---------------------------- MODULE WindowProcessor ----------------------------
(***************************************************************************)
(* The window operator (src/dozer-sql/src/window/processor.rs,            *)
(* WindowProcessor) between a keyed upstream table and a keyed downstream *)
(* table (the cache sink's endpoint: an insert of a present key or a      *)
(* delete of an absent one is rejected, spec 7).                           *)
(*                                                                         *)
(* A row is its primary key and its time field.  The window strategy's    *)
(* execute (tumble or hop; its code is not among the sources) maps a row  *)
(* to one output row per window instance the time falls in, keyed by the  *)
(* row's key and the window; it fails (WindowError) when the time field   *)
(* is not a timestamp (Null).  process sends what execute returns, arm by *)
(* arm: Delete and Insert send one delta per output row after execute     *)
(* succeeded; Update is process(Delete old)? then process(Insert new)?,   *)
(* so the deletes are sent before the insert half can fail; BatchInsert   *)
(* executes every row first and sends one batch.  The executor counts the *)
(* node's errors as for the sink (halt above ErrorThreshold).             *)
(***************************************************************************)
EXTENDS Naturals, FiniteSets, Sequences

CONSTANTS
    Keys,            \* primary keys of the upstream table
    Times,           \* timestamps
    Null,            \* a time field that is not a timestamp
    Windows,         \* window instances (their start)
    Assign,          \* the window strategy: Times -> SUBSET Windows
    Absent,          \* no row under a key
    ErrorThreshold,  \* errors the executor tolerates before halting the node
    MaxOps           \* bound on the operations upstream delivers

ASSUME WindowAssumption ==
    /\ Null \notin Times
    /\ Absent \notin [key : Keys, t : Times \cup {Null}]
    /\ Assign \in [Times -> SUBSET Windows]
    /\ ErrorThreshold \in Nat
    /\ MaxOps \in Nat

Row == [key : Keys, t : Times \cup {Null}]

VARIABLES
    upstream,   \* key -> row or Absent: the table the changes come from
    down,       \* <<key, window>> -> row or Absent: the downstream table
    rejected,   \* the downstream table rejected a delta it was sent
    errors,     \* the window node's error count
    status,     \* "running", or "failed" once the node is halted
    ops         \* operations delivered (bounded)

vars == <<upstream, down, rejected, errors, status, ops>>

OutKeys == Keys \X Windows

-----------------------------------------------------------------------------
(* WindowType::execute: the output rows of r, or a failure.               *)
Executes(r) == r.t # Null
Execute(r) == [o \in {<<r.key, w>> : w \in Assign[r.t]} |-> r]

(* The output rows of the rows rs, whose keys are distinct.               *)
ExecuteAll(rs) ==
    [o \in UNION {DOMAIN Execute(r) : r \in rs} |-> CHOOSE r \in rs : r.key = o[1]]

(* The deltas of one kind the node sends in one loop (or one BatchInsert): *)
(* an output key -> row function, one Insert or Delete per output row.    *)
Batch(kind, outs) == [kind |-> kind, outs |-> outs]

(* The downstream table after one batch; its deltas touch distinct keys.  *)
ApplyBatch(tbl, b) ==
    [o \in OutKeys |-> IF o \in DOMAIN b.outs
                       THEN IF b.kind = "insert" THEN b.outs[o] ELSE Absent
                       ELSE tbl[o]]

(* A batch the downstream table rejects: a duplicate insert or a delete   *)
(* of a missing key.                                                       *)
Rejects(tbl, b) ==
    \E o \in DOMAIN b.outs :
        IF b.kind = "insert" THEN tbl[o] # Absent ELSE tbl[o] = Absent

(* The downstream table after one batch, and whether it rejected it (a   *)
(* rejected delta leaves the table as it was).                             *)
Step(tbl, b) == IF Rejects(tbl, b) THEN tbl ELSE ApplyBatch(tbl, b)

(* The downstream table after the batches bs, sent in order, and whether  *)
(* it rejected one.  A call sends at most two batches (Update: the        *)
(* deletes of old, then the inserts of new).                               *)
Deliver(tbl, bs) ==
    CASE bs = << >> -> [tbl |-> tbl, rejected |-> FALSE]
      [] Len(bs) = 1 -> [tbl |-> Step(tbl, bs[1]), rejected |-> Rejects(tbl, bs[1])]
      [] Len(bs) = 2 -> [tbl |-> Step(Step(tbl, bs[1]), bs[2]),
                         rejected |-> Rejects(tbl, bs[1]) \/ Rejects(Step(tbl, bs[1]), bs[2])]

(* The node sends bs and then returns ok, or an error.                     *)
Send(bs, ok) ==
    LET d == Deliver(down, bs) IN
    /\ down' = d.tbl
    /\ rejected' = (rejected \/ d.rejected)
    /\ IF ok THEN UNCHANGED <<errors, status>>
             ELSE /\ errors' = errors + 1
                  /\ status' = IF errors + 1 > ErrorThreshold THEN "failed" ELSE "running"

(* What process sends for Delete{old} and Insert{new}: nothing when       *)
(* execute fails, else one batch.                                          *)
DeleteSends(r) == IF Executes(r) THEN << Batch("delete", Execute(r)) >> ELSE << >>
InsertSends(r) == IF Executes(r) THEN << Batch("insert", Execute(r)) >> ELSE << >>

-----------------------------------------------------------------------------
Init ==
    /\ upstream = [k \in Keys |-> Absent]
    /\ down = [o \in OutKeys |-> Absent]
    /\ rejected = FALSE
    /\ errors = 0
    /\ status = "running"
    /\ ops = 0

Deliverable(u) ==
    /\ status = "running"
    /\ ops < MaxOps
    /\ upstream' = u
    /\ ops' = ops + 1

ProcessDelete(k) ==
    LET old == upstream[k] IN
    /\ old # Absent
    /\ Deliverable([upstream EXCEPT ![k] = Absent])
    /\ Send(DeleteSends(old), Executes(old))

ProcessInsert(r) ==
    /\ upstream[r.key] = Absent
    /\ Deliverable([upstream EXCEPT ![r.key] = r])
    /\ Send(InsertSends(r), Executes(r))

(* Mutant: the insert half is sent before the delete half.                 *)
ProcessUpdateInsertFirst(k, r) ==
    LET old == upstream[k] IN
    /\ old # Absent
    /\ r.key = k \/ upstream[r.key] = Absent
    /\ Deliverable([[upstream EXCEPT ![k] = Absent] EXCEPT ![r.key] = r])
    /\ Send(InsertSends(r) \o DeleteSends(old), Executes(old) /\ Executes(r))

(* Update{old, new}: the deletes of old (the early return if execute      *)
(* fails), then the inserts of new.                                        *)
ProcessUpdate(k, r) ==
    LET old == upstream[k] IN
    /\ old # Absent
    /\ r.key = k \/ upstream[r.key] = Absent
    /\ Deliverable([[upstream EXCEPT ![k] = Absent] EXCEPT ![r.key] = r])
    /\ Send(IF Executes(old) THEN DeleteSends(old) \o InsertSends(r) ELSE << >>,
            Executes(old) /\ Executes(r))

(* Mutant: the loop keeps the output rows of one row (records = execute   *)
(* instead of records.extend).                                             *)
ProcessBatchInsertKeepsOne(rs) ==
    LET ok == \A r \in rs : Executes(r) IN
    /\ rs # {}
    /\ \A r \in rs : upstream[r.key] = Absent
    /\ \A r1, r2 \in rs : r1.key = r2.key => r1 = r2
    /\ Deliverable([k \in Keys |-> IF \E r \in rs : r.key = k
                                    THEN CHOOSE r \in rs : r.key = k
                                    ELSE upstream[k]])
    /\ Send(IF ok THEN << Batch("insert", Execute(CHOOSE r \in rs : TRUE)) >>
                  ELSE << >>, ok)

(* BatchInsert{new}: every row is executed before anything is sent; one   *)
(* failure returns before the send.  (An empty batch sends an empty batch, *)
(* which changes nothing downstream; it is left out.)                      *)
ProcessBatchInsert(rs) ==
    LET ok == \A r \in rs : Executes(r) IN
    /\ rs # {}
    /\ \A r \in rs : upstream[r.key] = Absent
    /\ \A r1, r2 \in rs : r1.key = r2.key => r1 = r2
    /\ Deliverable([k \in Keys |-> IF \E r \in rs : r.key = k
                                    THEN CHOOSE r \in rs : r.key = k
                                    ELSE upstream[k]])
    /\ Send(IF ok THEN << Batch("insert", ExecuteAll(rs)) >>
                  ELSE << >>, ok)

Next ==
    \/ \E k \in Keys : ProcessDelete(k)
    \/ \E r \in Row : ProcessInsert(r)
    \/ \E k \in Keys, r \in Row : ProcessUpdate(k, r)
    \/ \E rs \in SUBSET Row : ProcessBatchInsert(rs)

Spec == Init /\ [][Next]_vars

-----------------------------------------------------------------------------
(* The downstream table a correct window keeps: the output rows of every  *)
(* upstream row whose time is a timestamp.                                 *)
WindowView(u) ==
    [o \in OutKeys |-> IF u[o[1]] # Absent /\ Executes(u[o[1]]) /\ o[2] \in Assign[u[o[1]].t]
                       THEN u[o[1]] ELSE Absent]

TypeOK ==
    /\ upstream \in [Keys -> Row \cup {Absent}]
    /\ down \in [OutKeys -> Row \cup {Absent}]
    /\ rejected \in BOOLEAN
    /\ errors \in Nat
    /\ status \in {"running", "failed"}
    /\ ops \in 0..MaxOps

(* Every delta the window sends is one the downstream table accepts: it  *)
(* never inserts an output row twice nor deletes one it did not insert,   *)
(* whatever the order of Delete, Insert, Update and BatchInsert upstream,  *)
(* a primary-key-changing Update and an Update that moves a row to other  *)
(* windows included (process, processor.rs 36-86).                        *)
DownstreamNeverRejects == ~rejected

(* While the window node runs without an error, the downstream table is  *)
(* exactly the window view of the upstream table: every delta reached it  *)
(* translated window by window (processor.rs 36-86).                      *)
WindowViewMaintained ==
    status = "running" /\ errors = 0 => down = WindowView(upstream)

=============================================================================
