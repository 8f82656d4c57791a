------------------------------ MODULE CacheSink ------------------------------
(***************************************************************************)
(* The cache sink of one API endpoint                                      *)
(* (src/dozer-orchestrator/src/pipeline/sinks.rs, CacheSink) and what it   *)
(* talks to: the upstream table whose changes reach it, the cache it       *)
(* writes (module Cache), the bounded notifier channel it try_sends on and *)
(* the API-layer subscriber that reads that channel, and the executor that *)
(* calls process and commit, counts the node's errors and restarts it.     *)
(*                                                                         *)
(* One Process action is one call of CacheSink::process: the upstream      *)
(* table changes (the operation is valid for it: Update and Delete carry   *)
(* a row the table holds), the cache call is made, and on success the     *)
(* notification is try_sent.  An error is counted by the executor, which  *)
(* halts the node once the count exceeds ErrorThreshold and otherwise     *)
(* goes on with the next operation (section 7 of the spec).  Commit is    *)
(* CacheSink::commit at an epoch boundary; a failed commit is fatal.      *)
(* Restart is a crash of the process at any point followed by a new       *)
(* build: the uncommitted transaction is lost, open_or_create_cache       *)
(* reopens the committed cache, the source resumes from the epoch of the  *)
(* last commit, and the subscriber reloads the committed view.            *)
(***************************************************************************)
EXTENDS Cache, Sequences

CONSTANTS
    HasNotifier,     \* the sink was built with Some(notifier)
    ChanCap,         \* capacity of the bounded notifier channel
    ErrorThreshold,  \* errors the executor tolerates before halting the node
    MaxOps,          \* bound on the operations upstream delivers
    MaxRestarts      \* bound on crashes and restarts

ASSUME ConstantsAssumption ==
    /\ Absent \notin Vals
    /\ HasNotifier \in BOOLEAN
    /\ ChanCap \in Nat \ {0}
    /\ ErrorThreshold \in Nat
    /\ MaxOps \in Nat
    /\ MaxRestarts \in Nat

VARIABLES
    committed,         \* [records, pkIndex] as of the cache's last commit
    upstream,          \* the upstream table: key -> contents or Absent
    upstreamAtCommit,  \* the upstream table at the last committed epoch
    chan,              \* notifications try_sent and not yet received
    subView,           \* the subscriber's copy of the endpoint's rows
    errors,            \* errors the executor has counted for this node
    status,            \* "running", or "failed" once the node is halted
    lastError,         \* the SinkError of the node's last error
    ops,               \* operations delivered so far (bounded)
    restarts           \* restarts so far (bounded)

vars == <<records, pkIndex, committed, upstream, upstreamAtCommit, chan,
          subView, errors, status, lastError, ops, restarts>>

(* What get(key) returns, as contents and version.                         *)
Entry == [val : Vals, version : Nat]

(* The errors CacheSink::process and commit return.                        *)
SinkErrors == {"CacheInsertFailed", "CacheUpdateFailed", "CacheDeleteFailed",
               "NotifierSendFailed", "CacheCommitTransactionFailed"}

(* The notifications: map_insert_operation, map_update_operation (the old *)
(* record carries the version update returned) and map_delete_operation.  *)
Event ==
    [op : {"insert"}, new : Keys, entry : Entry]
    \cup [op : {"update"}, old : Keys, oldVersion : Nat, new : Keys, entry : Entry]
    \cup [op : {"delete"}, old : Keys, oldVersion : Nat]

(* The rows of the open transaction and of the last commit.                 *)
WorkingView == CacheView(records, pkIndex)
CommittedView == CacheView(committed.records, committed.pkIndex)

(* The subscriber's rows with the versions left out.                      *)
Contents(view) == [k \in Keys |-> IF view[k] = Absent THEN Absent ELSE view[k].val]

EmptyFunction == [x \in {} |-> Absent]

-----------------------------------------------------------------------------
(* The executor's reaction to an error of the node.                        *)
Fail(err) ==
    /\ errors' = errors + 1
    /\ status' = IF errors + 1 > ErrorThreshold THEN "failed" ELSE "running"
    /\ lastError' = err

Succeed == UNCHANGED <<errors, status, lastError>>

(* Mutant: the notification is queued even when the channel is full.     *)
NotifyIgnoringCapacity(ev) ==
    IF ~HasNotifier
    THEN UNCHANGED chan /\ Succeed
    ELSE chan' = Append(chan, ev) /\ Succeed

(* The notifier step of process: no channel, or try_send, which fails     *)
(* with Full when ChanCap notifications are unread.                       *)
Notify(ev) ==
    IF ~HasNotifier
    THEN UNCHANGED chan /\ Succeed
    ELSE \/ /\ Len(chan) < ChanCap
            /\ chan' = Append(chan, ev)
            /\ Succeed
         \/ /\ Len(chan) = ChanCap
            /\ UNCHANGED chan
            /\ Fail("NotifierSendFailed")

(* Common frame of the three process actions.                              *)
Deliver(newUpstream) ==
    /\ status = "running"
    /\ ops < MaxOps
    /\ upstream' = newUpstream
    /\ ops' = ops + 1
    /\ UNCHANGED <<committed, upstreamAtCommit, subView, restarts>>

-----------------------------------------------------------------------------
Init ==
    /\ records = EmptyFunction
    /\ pkIndex = EmptyFunction
    /\ committed = [records |-> EmptyFunction, pkIndex |-> EmptyFunction]
    /\ upstream = [k \in Keys |-> Absent]
    /\ upstreamAtCommit = [k \in Keys |-> Absent]
    /\ chan = << >>
    /\ subView = [k \in Keys |-> Absent]
    /\ errors = 0
    /\ status = "running"
    /\ lastError = "none"
    /\ ops = 0
    /\ restarts = 0

(* process(Insert{new}): cache.insert, then notify with the new record.    *)
ProcessInsert(k, v) ==
    /\ upstream[k] = Absent
    /\ Deliver([upstream EXCEPT ![k] = v])
    /\ \/ /\ CacheInsert(k, v)
          /\ Notify([op |-> "insert", new |-> k,
                     entry |-> [val |-> v, version |-> InitialVersion]])
       \/ /\ InsertFails(k)
          /\ UNCHANGED <<records, pkIndex, chan>>
          /\ Fail("CacheInsertFailed")

(* Mutant: the notification names the old key as the new one.            *)
ProcessUpdateNotifiesOldKey(k, k2, v2) ==
    /\ upstream[k] # Absent
    /\ k2 = k \/ upstream[k2] = Absent
    /\ Deliver([[upstream EXCEPT ![k] = Absent] EXCEPT ![k2] = v2])
    /\ \/ /\ CacheUpdate(k, k2, v2)
          /\ Notify([op |-> "update", old |-> k, oldVersion |-> OldVersion(k),
                     new |-> k,
                     entry |-> [val |-> v2, version |-> OldVersion(k) + 1]])
       \/ /\ CacheUpdatePartial(k, k2)
          /\ UNCHANGED chan
          /\ Fail("CacheUpdateFailed")
       \/ /\ UpdateNotFound(k)
          /\ UNCHANGED <<records, pkIndex, chan>>
          /\ Fail("CacheUpdateFailed")

(* process(Update{old, new}): the key is taken from old; cache.update,    *)
(* then notify with old (tagged with the returned version) and new.       *)
ProcessUpdate(k, k2, v2) ==
    /\ upstream[k] # Absent
    /\ k2 = k \/ upstream[k2] = Absent
    /\ Deliver([[upstream EXCEPT ![k] = Absent] EXCEPT ![k2] = v2])
    /\ \/ /\ CacheUpdate(k, k2, v2)
          /\ Notify([op |-> "update", old |-> k, oldVersion |-> OldVersion(k),
                     new |-> k2,
                     entry |-> [val |-> v2, version |-> OldVersion(k) + 1]])
       \/ /\ CacheUpdatePartial(k, k2)
          /\ UNCHANGED chan
          /\ Fail("CacheUpdateFailed")
       \/ /\ UpdateNotFound(k)
          /\ UNCHANGED <<records, pkIndex, chan>>
          /\ Fail("CacheUpdateFailed")

(* process(Delete{old}): cache.delete, then notify with the old record     *)
(* tagged with the removed version.                                        *)
ProcessDelete(k) ==
    /\ upstream[k] # Absent
    /\ Deliver([upstream EXCEPT ![k] = Absent])
    /\ \/ /\ CacheDelete(k)
          /\ Notify([op |-> "delete", old |-> k, oldVersion |-> OldVersion(k)])
       \/ /\ DeleteNotFound(k)
          /\ UNCHANGED <<records, pkIndex, chan>>
          /\ Fail("CacheDeleteFailed")

(* commit(epoch): cache.commit makes the open transaction visible.         *)
Commit ==
    /\ status = "running"
    /\ committed' = [records |-> records, pkIndex |-> pkIndex]
    /\ upstreamAtCommit' = upstream
    /\ UNCHANGED <<records, pkIndex, upstream, chan, subView, errors, status,
                   lastError, ops, restarts>>

(* cache.commit fails: CacheCommitTransactionFailed, fatal for the node.   *)
CommitFails ==
    /\ status = "running"
    /\ status' = "failed"
    /\ lastError' = "CacheCommitTransactionFailed"
    /\ UNCHANGED <<records, pkIndex, committed, upstream, upstreamAtCommit,
                   chan, subView, errors, ops, restarts>>

(* The subscriber receives the oldest notification and applies it.         *)
Apply(view, ev) ==
    CASE ev.op = "insert" -> [view EXCEPT ![ev.new] = ev.entry]
      [] ev.op = "update" -> [[view EXCEPT ![ev.old] = Absent] EXCEPT ![ev.new] = ev.entry]
      [] ev.op = "delete" -> [view EXCEPT ![ev.old] = Absent]

Receive ==
    /\ chan # << >>
    /\ subView' = Apply(subView, Head(chan))
    /\ chan' = Tail(chan)
    /\ UNCHANGED <<records, pkIndex, committed, upstream, upstreamAtCommit,
                   errors, status, lastError, ops, restarts>>

(* Mutant: the rebuilt sink keeps the lost transaction's writes.          *)
RestartKeepsOpenTxn ==
    /\ restarts < MaxRestarts
    /\ UNCHANGED <<records, pkIndex>>
    /\ upstream' = upstreamAtCommit
    /\ chan' = << >>
    /\ subView' = CommittedView
    /\ errors' = 0
    /\ status' = "running"
    /\ lastError' = "none"
    /\ restarts' = restarts + 1
    /\ UNCHANGED <<committed, upstreamAtCommit, ops>>

(* Crash at any point and rebuild: open_or_create_cache reopens the       *)
(* committed cache and CacheSink::new starts from it.                      *)
Restart ==
    /\ restarts < MaxRestarts
    /\ records' = committed.records
    /\ pkIndex' = committed.pkIndex
    /\ upstream' = upstreamAtCommit
    /\ chan' = << >>
    /\ subView' = CommittedView
    /\ errors' = 0
    /\ status' = "running"
    /\ lastError' = "none"
    /\ restarts' = restarts + 1
    /\ UNCHANGED <<committed, upstreamAtCommit, ops>>

Next ==
    \/ \E k \in Keys, v \in Vals : ProcessInsert(k, v)
    \/ \E k, k2 \in Keys, v \in Vals : ProcessUpdate(k, k2, v)
    \/ \E k \in Keys : ProcessDelete(k)
    \/ Commit
    \/ CommitFails
    \/ Receive
    \/ Restart

Spec == Init /\ [][Next]_vars

-----------------------------------------------------------------------------
(* Every variable holds a value of its type; the channel never holds more *)
(* than its capacity (try_send never blocks and never overfills).         *)
TypeOK ==
    /\ DOMAIN records \subseteq Nat
    /\ IsFiniteSet(DOMAIN records)
    /\ records \in [DOMAIN records -> CacheRecord]
    /\ DOMAIN pkIndex \subseteq Keys
    /\ pkIndex \in [DOMAIN pkIndex -> Nat]
    /\ DOMAIN committed.records \subseteq Nat
    /\ IsFiniteSet(DOMAIN committed.records)
    /\ committed.records \in [DOMAIN committed.records -> CacheRecord]
    /\ DOMAIN committed.pkIndex \subseteq Keys
    /\ committed.pkIndex \in [DOMAIN committed.pkIndex -> Nat]
    /\ upstream \in [Keys -> Vals \cup {Absent}]
    /\ upstreamAtCommit \in [Keys -> Vals \cup {Absent}]
    /\ chan \in Seq(Event)
    /\ Len(chan) <= ChanCap
    /\ subView \in [Keys -> Entry \cup {Absent}]
    /\ errors \in Nat
    /\ status \in {"running", "failed"}
    /\ lastError \in SinkErrors \cup {"none"}
    /\ ops \in 0..MaxOps
    /\ restarts \in 0..MaxRestarts

(* The primary-key database and the record database agree, in the open    *)
(* transaction and in the committed state, whatever mix of successful,    *)
(* failed and half-done (delete done, insert failed) updates, deletes,    *)
(* commits and restarts led there.                                         *)
PrimaryIndexConsistent ==
    /\ PkConsistent(records, pkIndex)
    /\ PkConsistent(committed.records, committed.pkIndex)

(* What readers of the cache see is exactly the upstream table as of the  *)
(* epoch of the last commit: every insert, update (also one that changes  *)
(* the primary key) and delete of that epoch and none of a later one.     *)
CommittedMatchesUpstream ==
    CacheContents(committed.records, committed.pkIndex) = upstreamAtCommit

(* Once the subscriber has read every notification of a running node, its *)
(* copy equals the cache's open transaction, versions included: every     *)
(* change the sink made was notified, once and in order.                  *)
SubscriberConverges ==
    status = "running" /\ chan = << >> => subView = WorkingView

(* Spec 4.3/4.5: a cache call fails only on a duplicate key (insert) or a *)
(* missing key (update, delete).  The upstream table only emits inserts   *)
(* of absent keys and updates and deletes of present ones, so on a node   *)
(* that halts on its first error no cache call of process ever fails.     *)
ValidStreamNeverFailsCache ==
    lastError \notin {"CacheInsertFailed", "CacheUpdateFailed", "CacheDeleteFailed"}

=============================================================================
