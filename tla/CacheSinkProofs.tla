--------------------------- MODULE CacheSinkProofs ---------------------------
(***************************************************************************)
(* Proofs about the cache sink: the type invariant and the consistency of *)
(* the primary-key database with the record database hold in every       *)
(* reachable state, for every choice of the constants.  Neither holds     *)
(* inductively alone: typing an update's new version needs the old key    *)
(* to point at a live record (consistency), and consistency is stated     *)
(* over typed functions, so the two are proved together (IInv).           *)
(***************************************************************************)
EXTENDS CacheSink, FiniteSetTheorems, SequenceTheorems, TLAPS

-----------------------------------------------------------------------------
(* The record-database operators.                                          *)

(* The id the next insert uses is a natural when the store is finite.     *)
LEMMA NewRecordIdType ==
    ASSUME NEW db, IsFiniteSet(DOMAIN db)
    PROVE  NewRecordId(db) \in Nat
BY FS_CardinalityType DEF NewRecordId

(* A put keeps the store a finite function from naturals to R.             *)
LEMMA PutRecordType ==
    ASSUME NEW db, NEW R, DOMAIN db \subseteq Nat, IsFiniteSet(DOMAIN db),
           db \in [DOMAIN db -> R], NEW id \in Nat, NEW rec \in R
    PROVE  /\ DOMAIN PutRecord(db, id, rec) \subseteq Nat
           /\ IsFiniteSet(DOMAIN PutRecord(db, id, rec))
           /\ PutRecord(db, id, rec) \in [DOMAIN PutRecord(db, id, rec) -> R]
<1>1. DOMAIN PutRecord(db, id, rec) = DOMAIN db \cup {id}
  BY DEF PutRecord
<1>2. IsFiniteSet(DOMAIN db \cup {id})
  BY FS_AddElement
<1>. QED
  BY <1>1, <1>2 DEF PutRecord

(* A delete keeps the store a finite function from naturals to R.          *)
LEMMA RemoveRecordType ==
    ASSUME NEW db, NEW R, DOMAIN db \subseteq Nat, IsFiniteSet(DOMAIN db),
           db \in [DOMAIN db -> R], NEW id
    PROVE  /\ DOMAIN RemoveRecord(db, id) \subseteq Nat
           /\ IsFiniteSet(DOMAIN RemoveRecord(db, id))
           /\ RemoveRecord(db, id) \in [DOMAIN RemoveRecord(db, id) -> R]
<1>1. DOMAIN RemoveRecord(db, id) = DOMAIN db \ {id}
  BY DEF RemoveRecord
<1>2. IsFiniteSet(DOMAIN db \ {id})
  BY FS_RemoveElement
<1>. QED
  BY <1>1, <1>2 DEF RemoveRecord

-----------------------------------------------------------------------------
(* The primary index stays a bijection through the cache's two primitive  *)
(* steps: storing a new record under a fresh id and a fresh key, and      *)
(* deleting the record a key points at together with the key.             *)

LEMMA PkInsert ==
    ASSUME NEW db, NEW idx, PkConsistent(db, idx),
           NEW k, k \notin DOMAIN idx, NEW id, id \notin DOMAIN db,
           NEW rec, rec.key = k
    PROVE  PkConsistent(PutRecord(db, id, rec), SetKey(idx, k, id))
BY DEF PkConsistent, PutRecord, SetKey

LEMMA PkDelete ==
    ASSUME NEW db, NEW idx, PkConsistent(db, idx), NEW k, k \in DOMAIN idx
    PROVE  PkConsistent(RemoveRecord(db, idx[k]), DropKey(idx, k))
BY DEF PkConsistent, RemoveRecord, DropKey

-----------------------------------------------------------------------------
(* The inductive invariant: the type invariant and the consistency of the *)
(* primary index, in the open transaction and in the committed state.     *)
IInv == TypeOK /\ PrimaryIndexConsistent

(* The notifier step and the executor's error handling keep their         *)
(* variables typed; try_send never overfills the channel.                 *)
LEMMA NotifyType ==
    ASSUME TypeOK, NEW ev \in Event, Notify(ev)
    PROVE  /\ chan' \in Seq(Event)
           /\ Len(chan') <= ChanCap
           /\ errors' \in Nat
           /\ status' \in {"running", "failed"}
           /\ lastError' \in SinkErrors \cup {"none"}
<1>1. CASE ~HasNotifier
  BY <1>1 DEF Notify, Succeed, TypeOK
<1>2. CASE HasNotifier
  <2>1. CASE Len(chan) < ChanCap /\ chan' = Append(chan, ev) /\ Succeed
    <3>1. chan' \in Seq(Event) /\ Len(chan') = Len(chan) + 1
      BY <2>1, AppendProperties DEF TypeOK
    <3>. QED
      BY <2>1, <3>1, LenProperties, ConstantsAssumption DEF Succeed, TypeOK
  <2>2. CASE Len(chan) = ChanCap /\ UNCHANGED chan /\ Fail("NotifierSendFailed")
    BY <2>2 DEF Fail, TypeOK, SinkErrors
  <2>. QED
    BY <1>2, <2>1, <2>2 DEF Notify
<1>. QED
  BY <1>1, <1>2

LEMMA FailType ==
    ASSUME TypeOK, NEW err \in SinkErrors, Fail(err)
    PROVE  /\ errors' \in Nat
           /\ status' \in {"running", "failed"}
           /\ lastError' \in SinkErrors \cup {"none"}
BY DEF Fail, TypeOK

(* The part of TypeOK about the variables a process step's Deliver sets.  *)
LEMMA DeliverType ==
    ASSUME TypeOK, NEW u \in [Keys -> Vals \cup {Absent}], Deliver(u)
    PROVE  /\ upstream' \in [Keys -> Vals \cup {Absent}]
           /\ ops' \in 0..MaxOps
           /\ UNCHANGED <<committed, upstreamAtCommit, subView, restarts>>
BY ConstantsAssumption DEF Deliver, TypeOK

-----------------------------------------------------------------------------
THEOREM InitIInv == Init => IInv
<1>1. DOMAIN EmptyFunction = {}
  BY DEF EmptyFunction
<1>. QED
  BY <1>1, FS_EmptySet, ConstantsAssumption
  DEF Init, IInv, TypeOK, PrimaryIndexConsistent, PkConsistent

(* process(Insert): the new record goes under a fresh id and a fresh key. *)
LEMMA InsertStep ==
    ASSUME IInv, NEW k \in Keys, NEW v \in Vals, ProcessInsert(k, v)
    PROVE  IInv'
<1>. USE ConstantsAssumption
<1>1. /\ upstream' \in [Keys -> Vals \cup {Absent}]
      /\ ops' \in 0..MaxOps
      /\ UNCHANGED <<committed, upstreamAtCommit, subView, restarts>>
  <2>1. [upstream EXCEPT ![k] = v] \in [Keys -> Vals \cup {Absent}]
    BY DEF IInv, TypeOK
  <2>. QED
    BY <2>1, DeliverType DEF ProcessInsert, IInv
<1>2. CASE /\ CacheInsert(k, v)
           /\ Notify([op |-> "insert", new |-> k,
                      entry |-> [val |-> v, version |-> InitialVersion]])
  <2>. DEFINE id == NewRecordId(records)
              rec == [key |-> k, val |-> v, version |-> InitialVersion]
  <2>1. id \in Nat /\ id \notin DOMAIN records /\ k \notin DOMAIN pkIndex
    BY <1>2, NewRecordIdType DEF CacheInsert, InsertFails, CanInsertRecord, IInv, TypeOK
  <2>2. rec \in CacheRecord
    BY DEF CacheRecord, InitialVersion
  <2>3. records' = PutRecord(records, id, rec) /\ pkIndex' = SetKey(pkIndex, k, id)
    BY <1>2 DEF CacheInsert
  <2>4. /\ DOMAIN records' \subseteq Nat
        /\ IsFiniteSet(DOMAIN records')
        /\ records' \in [DOMAIN records' -> CacheRecord]
    BY <2>1, <2>2, <2>3, PutRecordType DEF IInv, TypeOK
  <2>5. DOMAIN pkIndex' \subseteq Keys /\ pkIndex' \in [DOMAIN pkIndex' -> Nat]
    BY <2>1, <2>3 DEF SetKey, IInv, TypeOK
  <2>6. PkConsistent(records', pkIndex')
    BY <2>1, <2>3, PkInsert DEF IInv, PrimaryIndexConsistent
  <2>7. [op |-> "insert", new |-> k,
         entry |-> [val |-> v, version |-> InitialVersion]] \in Event
    BY DEF Event, Entry, InitialVersion
  <2>8. /\ chan' \in Seq(Event)
        /\ Len(chan') <= ChanCap
        /\ errors' \in Nat
        /\ status' \in {"running", "failed"}
        /\ lastError' \in SinkErrors \cup {"none"}
    BY <1>2, <2>7, NotifyType DEF IInv
  <2>. QED
    BY <1>1, <2>4, <2>5, <2>6, <2>8 DEF IInv, TypeOK, PrimaryIndexConsistent
<1>3. CASE /\ InsertFails(k)
           /\ UNCHANGED <<records, pkIndex, chan>>
           /\ Fail("CacheInsertFailed")
  <2>1. /\ errors' \in Nat
        /\ status' \in {"running", "failed"}
        /\ lastError' \in SinkErrors \cup {"none"}
    BY <1>3, FailType DEF IInv, SinkErrors
  <2>. QED
    BY <1>1, <1>3, <2>1 DEF IInv, TypeOK, PrimaryIndexConsistent
<1>. QED
  BY <1>2, <1>3 DEF ProcessInsert

(* The delete half of update and delete: the key's record is live, the    *)
(* store after removing it is typed and consistent, and its next id is a *)
(* natural.                                                                *)
LEMMA DeleteHalf ==
    ASSUME IInv, NEW k \in DOMAIN pkIndex
    PROVE  /\ pkIndex[k] \in DOMAIN records
           /\ records[pkIndex[k]] \in CacheRecord
           /\ OldVersion(k) \in Nat
           /\ DOMAIN DbAfterDelete(k) \subseteq Nat
           /\ IsFiniteSet(DOMAIN DbAfterDelete(k))
           /\ DbAfterDelete(k) \in [DOMAIN DbAfterDelete(k) -> CacheRecord]
           /\ NewRecordId(DbAfterDelete(k)) \in Nat
           /\ DOMAIN IdxAfterDelete(k) \subseteq Keys
           /\ IdxAfterDelete(k) \in [DOMAIN IdxAfterDelete(k) -> Nat]
           /\ PkConsistent(DbAfterDelete(k), IdxAfterDelete(k))
<1>1. pkIndex[k] \in DOMAIN records /\ records[pkIndex[k]] \in CacheRecord
  BY DEF IInv, PrimaryIndexConsistent, PkConsistent, TypeOK
<1>2. OldVersion(k) \in Nat
  BY <1>1 DEF OldVersion, CacheRecord
<1>3. /\ DOMAIN DbAfterDelete(k) \subseteq Nat
      /\ IsFiniteSet(DOMAIN DbAfterDelete(k))
      /\ DbAfterDelete(k) \in [DOMAIN DbAfterDelete(k) -> CacheRecord]
  BY RemoveRecordType DEF DbAfterDelete, IInv, TypeOK
<1>4. NewRecordId(DbAfterDelete(k)) \in Nat
  BY <1>3, NewRecordIdType
<1>5. DOMAIN IdxAfterDelete(k) \subseteq Keys
      /\ IdxAfterDelete(k) \in [DOMAIN IdxAfterDelete(k) -> Nat]
  BY DEF IdxAfterDelete, DropKey, IInv, TypeOK
<1>6. PkConsistent(DbAfterDelete(k), IdxAfterDelete(k))
  BY PkDelete DEF DbAfterDelete, IdxAfterDelete, IInv, PrimaryIndexConsistent
<1>. QED
  BY <1>1, <1>2, <1>3, <1>4, <1>5, <1>6

(* process(Update): delete and insert, delete only, or nothing.           *)
LEMMA UpdateStep ==
    ASSUME IInv, NEW k \in Keys, NEW k2 \in Keys, NEW v2 \in Vals,
           ProcessUpdate(k, k2, v2)
    PROVE  IInv'
<1>. USE ConstantsAssumption
<1>1. /\ upstream' \in [Keys -> Vals \cup {Absent}]
      /\ ops' \in 0..MaxOps
      /\ UNCHANGED <<committed, upstreamAtCommit, subView, restarts>>
  <2>1. [[upstream EXCEPT ![k] = Absent] EXCEPT ![k2] = v2]
          \in [Keys -> Vals \cup {Absent}]
    BY DEF IInv, TypeOK
  <2>. QED
    BY <2>1, DeliverType DEF ProcessUpdate, IInv
<1>2. CASE /\ CacheUpdate(k, k2, v2)
           /\ Notify([op |-> "update", old |-> k, oldVersion |-> OldVersion(k),
                      new |-> k2,
                      entry |-> [val |-> v2, version |-> OldVersion(k) + 1]])
  <2>. DEFINE db == DbAfterDelete(k)
              id == NewRecordId(db)
              rec == [key |-> k2, val |-> v2, version |-> OldVersion(k) + 1]
  <2>1. k \in DOMAIN pkIndex /\ id \notin DOMAIN db /\ k2 \notin DOMAIN IdxAfterDelete(k)
    BY <1>2 DEF CacheUpdate, UpdateNotFound, UpdateInsertFails, CanInsertRecord
  <2>2. rec \in CacheRecord
    BY <2>1, DeleteHalf DEF CacheRecord
  <2>3. records' = PutRecord(db, id, rec) /\ pkIndex' = SetKey(IdxAfterDelete(k), k2, id)
    BY <1>2 DEF CacheUpdate
  <2>4. /\ DOMAIN records' \subseteq Nat
        /\ IsFiniteSet(DOMAIN records')
        /\ records' \in [DOMAIN records' -> CacheRecord]
    BY <2>1, <2>2, <2>3, DeleteHalf, PutRecordType
  <2>5. DOMAIN pkIndex' \subseteq Keys /\ pkIndex' \in [DOMAIN pkIndex' -> Nat]
    BY <2>1, <2>3, DeleteHalf DEF SetKey
  <2>6. PkConsistent(records', pkIndex')
    BY <2>1, <2>3, DeleteHalf, PkInsert
  <2>7. [op |-> "update", old |-> k, oldVersion |-> OldVersion(k), new |-> k2,
         entry |-> [val |-> v2, version |-> OldVersion(k) + 1]] \in Event
    BY <2>1, DeleteHalf DEF Event, Entry
  <2>8. /\ chan' \in Seq(Event)
        /\ Len(chan') <= ChanCap
        /\ errors' \in Nat
        /\ status' \in {"running", "failed"}
        /\ lastError' \in SinkErrors \cup {"none"}
    BY <1>2, <2>7, NotifyType DEF IInv
  <2>. QED
    BY <1>1, <2>4, <2>5, <2>6, <2>8 DEF IInv, TypeOK, PrimaryIndexConsistent
<1>3. CASE /\ CacheUpdatePartial(k, k2)
           /\ UNCHANGED chan
           /\ Fail("CacheUpdateFailed")
  <2>1. k \in DOMAIN pkIndex
    BY <1>3 DEF CacheUpdatePartial, UpdateNotFound
  <2>2. records' = DbAfterDelete(k) /\ pkIndex' = IdxAfterDelete(k)
    BY <1>3 DEF CacheUpdatePartial
  <2>3. /\ errors' \in Nat
        /\ status' \in {"running", "failed"}
        /\ lastError' \in SinkErrors \cup {"none"}
    BY <1>3, FailType DEF IInv, SinkErrors
  <2>. QED
    BY <1>1, <1>3, <2>1, <2>2, <2>3, DeleteHalf
    DEF IInv, TypeOK, PrimaryIndexConsistent
<1>4. CASE /\ UpdateNotFound(k)
           /\ UNCHANGED <<records, pkIndex, chan>>
           /\ Fail("CacheUpdateFailed")
  <2>1. /\ errors' \in Nat
        /\ status' \in {"running", "failed"}
        /\ lastError' \in SinkErrors \cup {"none"}
    BY <1>4, FailType DEF IInv, SinkErrors
  <2>. QED
    BY <1>1, <1>4, <2>1 DEF IInv, TypeOK, PrimaryIndexConsistent
<1>. QED
  BY <1>2, <1>3, <1>4 DEF ProcessUpdate

(* process(Delete): the key and its record go together.                   *)
LEMMA DeleteStep ==
    ASSUME IInv, NEW k \in Keys, ProcessDelete(k)
    PROVE  IInv'
<1>. USE ConstantsAssumption
<1>1. /\ upstream' \in [Keys -> Vals \cup {Absent}]
      /\ ops' \in 0..MaxOps
      /\ UNCHANGED <<committed, upstreamAtCommit, subView, restarts>>
  <2>1. [upstream EXCEPT ![k] = Absent] \in [Keys -> Vals \cup {Absent}]
    BY DEF IInv, TypeOK
  <2>. QED
    BY <2>1, DeliverType DEF ProcessDelete, IInv
<1>2. CASE /\ CacheDelete(k)
           /\ Notify([op |-> "delete", old |-> k, oldVersion |-> OldVersion(k)])
  <2>1. k \in DOMAIN pkIndex
    BY <1>2 DEF CacheDelete, DeleteNotFound
  <2>2. records' = DbAfterDelete(k) /\ pkIndex' = IdxAfterDelete(k)
    BY <1>2 DEF CacheDelete, DbAfterDelete, IdxAfterDelete
  <2>3. [op |-> "delete", old |-> k, oldVersion |-> OldVersion(k)] \in Event
    BY <2>1, DeleteHalf DEF Event
  <2>4. /\ chan' \in Seq(Event)
        /\ Len(chan') <= ChanCap
        /\ errors' \in Nat
        /\ status' \in {"running", "failed"}
        /\ lastError' \in SinkErrors \cup {"none"}
    BY <1>2, <2>3, NotifyType DEF IInv
  <2>. QED
    BY <1>1, <2>1, <2>2, <2>4, DeleteHalf DEF IInv, TypeOK, PrimaryIndexConsistent
<1>3. CASE /\ DeleteNotFound(k)
           /\ UNCHANGED <<records, pkIndex, chan>>
           /\ Fail("CacheDeleteFailed")
  <2>1. /\ errors' \in Nat
        /\ status' \in {"running", "failed"}
        /\ lastError' \in SinkErrors \cup {"none"}
    BY <1>3, FailType DEF IInv, SinkErrors
  <2>. QED
    BY <1>1, <1>3, <2>1 DEF IInv, TypeOK, PrimaryIndexConsistent
<1>. QED
  BY <1>2, <1>3 DEF ProcessDelete

(* commit copies the consistent open transaction.                         *)
LEMMA CommitStep ==
    ASSUME IInv, Commit
    PROVE  IInv'
BY DEF Commit, IInv, TypeOK, PrimaryIndexConsistent

LEMMA CommitFailsStep ==
    ASSUME IInv, CommitFails
    PROVE  IInv'
BY DEF CommitFails, IInv, TypeOK, PrimaryIndexConsistent, SinkErrors

(* Applying a notification keeps the subscriber's rows typed.              *)
LEMMA ApplyType ==
    ASSUME NEW view \in [Keys -> Entry \cup {Absent}], NEW ev \in Event
    PROVE  Apply(view, ev) \in [Keys -> Entry \cup {Absent}]
<1>1. CASE ev.op = "insert"
  <2>1. ev \in [op : {"insert"}, new : Keys, entry : Entry]
    BY <1>1 DEF Event
  <2>. QED
    BY <1>1, <2>1 DEF Apply
<1>2. CASE ev.op = "update"
  <2>1. ev \in [op : {"update"}, old : Keys, oldVersion : Nat, new : Keys, entry : Entry]
    BY <1>2 DEF Event
  <2>. QED
    BY <1>2, <2>1 DEF Apply
<1>3. CASE ev.op = "delete"
  <2>1. ev \in [op : {"delete"}, old : Keys, oldVersion : Nat]
    BY <1>3 DEF Event
  <2>. QED
    BY <1>3, <2>1 DEF Apply
<1>. QED
  BY <1>1, <1>2, <1>3 DEF Event

LEMMA ReceiveStep ==
    ASSUME IInv, Receive
    PROVE  IInv'
<1>1. chan \in Seq(Event) /\ chan # << >>
  BY DEF Receive, IInv, TypeOK
<1>2. Head(chan) \in Event /\ Tail(chan) \in Seq(Event)
      /\ Len(Tail(chan)) = Len(chan) - 1
  BY <1>1, HeadTailProperties
<1>3. subView' \in [Keys -> Entry \cup {Absent}]
  BY <1>2, ApplyType DEF Receive, IInv, TypeOK
<1>4. Len(chan') <= ChanCap
  BY <1>1, <1>2, LenProperties, ConstantsAssumption DEF Receive, IInv, TypeOK
<1>. QED
  BY <1>2, <1>3, <1>4 DEF Receive, IInv, TypeOK, PrimaryIndexConsistent

(* A restart reopens the committed state, whose rows the subscriber       *)
(* reloads.                                                                *)
LEMMA RestartStep ==
    ASSUME IInv, Restart
    PROVE  IInv'
<1>1. CommittedView \in [Keys -> Entry \cup {Absent}]
  BY DEF CommittedView, CacheView, GetRecord, Entry, CacheRecord, IInv, TypeOK,
         PrimaryIndexConsistent, PkConsistent
<1>. QED
  BY <1>1, ConstantsAssumption
  DEF Restart, IInv, TypeOK, PrimaryIndexConsistent, SinkErrors

THEOREM NextIInv == IInv /\ [Next]_vars => IInv'
<1>. SUFFICES ASSUME IInv, [Next]_vars PROVE IInv'
  OBVIOUS
<1>1. CASE \E k \in Keys, v \in Vals : ProcessInsert(k, v)
  BY <1>1, InsertStep
<1>2. CASE \E k, k2 \in Keys, v \in Vals : ProcessUpdate(k, k2, v)
  BY <1>2, UpdateStep
<1>3. CASE \E k \in Keys : ProcessDelete(k)
  BY <1>3, DeleteStep
<1>4. CASE Commit
  BY <1>4, CommitStep
<1>5. CASE CommitFails
  BY <1>5, CommitFailsStep
<1>6. CASE Receive
  BY <1>6, ReceiveStep
<1>7. CASE Restart
  BY <1>7, RestartStep
<1>8. CASE UNCHANGED vars
  BY <1>8 DEF vars, IInv, TypeOK, PrimaryIndexConsistent
<1>. QED
  BY <1>1, <1>2, <1>3, <1>4, <1>5, <1>6, <1>7, <1>8 DEF Next

(* IInv holds in every reachable state.                                    *)
THEOREM Invariance == Spec => []IInv
BY InitIInv, NextIInv, PTL DEF Spec

(* Type correctness of the sink, for every value of the constants (the    *)
(* notifier channel in particular never holds more than its capacity).    *)
THEOREM TypeCorrect == Spec => []TypeOK
BY Invariance, PTL DEF IInv

(* The primary-key database and the record database agree in the open    *)
(* transaction and in the committed cache in every reachable state,       *)
(* through failed and half-done updates under any error threshold,        *)
(* commits, failed commits and restarts.                                   *)
THEOREM PrimaryIndexInvariant == Spec => []PrimaryIndexConsistent
BY Invariance, PTL DEF IInv

-----------------------------------------------------------------------------
(***************************************************************************)
(* With ErrorThreshold = 0 (the executor halts the node on its first      *)
(* error) the committed cache holds exactly the upstream table of the     *)
(* last committed epoch.  The invariant is not inductive alone: a commit  *)
(* copies the open transaction, so the open transaction of a running node *)
(* must hold exactly the upstream table too (Mirror).  A failed cache     *)
(* call or try_send may leave the open transaction anywhere, but it also  *)
(* halts the node, and only Restart (which reopens the committed cache)   *)
(* lets it run again.                                                      *)
(***************************************************************************)

(* Storing a fresh record under a fresh key sets that key's contents.     *)
LEMMA ContentsPut ==
    ASSUME NEW db, NEW idx, PkConsistent(db, idx), DOMAIN idx \subseteq Keys,
           NEW k \in Keys, k \notin DOMAIN idx, NEW id, id \notin DOMAIN db,
           NEW rec, rec.key = k
    PROVE  CacheContents(PutRecord(db, id, rec), SetKey(idx, k, id))
             = [CacheContents(db, idx) EXCEPT ![k] = rec.val]
BY DEF CacheContents, GetRecord, PkConsistent, PutRecord, SetKey

(* Deleting a key's record with the key clears that key's contents only.  *)
LEMMA ContentsRemove ==
    ASSUME NEW db, NEW idx, PkConsistent(db, idx), DOMAIN idx \subseteq Keys,
           NEW k \in DOMAIN idx
    PROVE  CacheContents(RemoveRecord(db, idx[k]), DropKey(idx, k))
             = [CacheContents(db, idx) EXCEPT ![k] = Absent]
<1>. DEFINE db2 == RemoveRecord(db, idx[k])
            idx2 == DropKey(idx, k)
<1>1. \A x \in DOMAIN idx \ {k} : idx[x] # idx[k]
  BY DEF PkConsistent
<1>2. ASSUME NEW x \in Keys
      PROVE  CacheContents(db2, idx2)[x]
               = [CacheContents(db, idx) EXCEPT ![k] = Absent][x]
  <2>1. CASE x = k
    BY <2>1 DEF CacheContents, GetRecord, DropKey
  <2>2. CASE x # k /\ x \in DOMAIN idx
    <3>1. x \in DOMAIN idx2 /\ idx2[x] = idx[x]
      BY <2>2 DEF DropKey
    <3>2. idx[x] \in DOMAIN db2 /\ db2[idx[x]] = db[idx[x]]
      BY <1>1, <2>2 DEF PkConsistent, RemoveRecord
    <3>. QED
      BY <2>2, <3>1, <3>2 DEF CacheContents, GetRecord
  <2>3. CASE x \notin DOMAIN idx
    BY <2>3 DEF CacheContents, GetRecord, DropKey
  <2>. QED
    BY <2>1, <2>2, <2>3
<1>. QED
  BY <1>2 DEF CacheContents, GetRecord

(* The open transaction of a running node holds the upstream table, and   *)
(* the committed cache the upstream table of the last commit.             *)
Mirror ==
    /\ status = "running" => CacheContents(records, pkIndex) = upstream
    /\ CommittedMatchesUpstream

MInv == IInv /\ Mirror

(* Under the halting policy every error halts the node.                   *)
LEMMA FailHalts ==
    ASSUME ErrorThreshold = 0, TypeOK, NEW err, Fail(err)
    PROVE  status' = "failed"
BY DEF Fail, TypeOK

(* A successful try_send (or none) leaves the node running; a failed one  *)
(* halts it.                                                               *)
LEMMA NotifyHaltsOrSucceeds ==
    ASSUME ErrorThreshold = 0, TypeOK, NEW ev, Notify(ev)
    PROVE  status' = "failed" \/ status' = status
BY FailHalts DEF Notify, Succeed

THEOREM InitMirror == Init => Mirror
BY DEF Init, Mirror, CommittedMatchesUpstream, CacheContents, GetRecord, EmptyFunction

LEMMA InsertMirror ==
    ASSUME ErrorThreshold = 0, MInv, NEW k \in Keys, NEW v \in Vals,
           ProcessInsert(k, v)
    PROVE  Mirror'
<1>1. status = "running" /\ upstream' = [upstream EXCEPT ![k] = v]
      /\ UNCHANGED <<committed, upstreamAtCommit>>
  BY DEF ProcessInsert, Deliver
<1>2. CommittedMatchesUpstream'
  BY <1>1 DEF MInv, Mirror, CommittedMatchesUpstream
<1>3. CASE /\ CacheInsert(k, v)
           /\ Notify([op |-> "insert", new |-> k,
                      entry |-> [val |-> v, version |-> InitialVersion]])
  <2>1. CacheContents(records', pkIndex') = [CacheContents(records, pkIndex) EXCEPT ![k] = v]
    <3>. DEFINE id == NewRecordId(records)
                rec == [key |-> k, val |-> v, version |-> InitialVersion]
    <3>1. id \notin DOMAIN records /\ k \notin DOMAIN pkIndex
      BY <1>3 DEF CacheInsert, InsertFails, CanInsertRecord
    <3>2. records' = PutRecord(records, id, rec) /\ pkIndex' = SetKey(pkIndex, k, id)
      BY <1>3 DEF CacheInsert
    <3>3. CacheContents(PutRecord(records, id, rec), SetKey(pkIndex, k, id))
            = [CacheContents(records, pkIndex) EXCEPT ![k] = rec.val]
      <4>1. PkConsistent(records, pkIndex) /\ DOMAIN pkIndex \subseteq Keys
        BY DEF MInv, IInv, TypeOK, PrimaryIndexConsistent
      <4>2. rec.key = k
        OBVIOUS
      <4>. QED
        BY <3>1, <4>1, <4>2, ContentsPut
    <3>4. rec.val = v
      OBVIOUS
    <3>. QED
      BY <3>2, <3>3, <3>4
  <2>2. status' = "failed" \/ status' = status
    BY <1>3, NotifyHaltsOrSucceeds DEF MInv, IInv
  <2>. QED
    BY <1>1, <1>2, <2>1, <2>2 DEF Mirror, MInv
<1>4. CASE /\ InsertFails(k)
           /\ UNCHANGED <<records, pkIndex, chan>>
           /\ Fail("CacheInsertFailed")
  BY <1>2, <1>4, FailHalts DEF Mirror, MInv, IInv
<1>. QED
  BY <1>3, <1>4 DEF ProcessInsert

LEMMA UpdateMirror ==
    ASSUME ErrorThreshold = 0, MInv, NEW k \in Keys, NEW k2 \in Keys,
           NEW v2 \in Vals, ProcessUpdate(k, k2, v2)
    PROVE  Mirror'
<1>1. status = "running"
      /\ upstream' = [[upstream EXCEPT ![k] = Absent] EXCEPT ![k2] = v2]
      /\ UNCHANGED <<committed, upstreamAtCommit>>
  BY DEF ProcessUpdate, Deliver
<1>2. CommittedMatchesUpstream'
  BY <1>1 DEF MInv, Mirror, CommittedMatchesUpstream
<1>3. CASE /\ CacheUpdate(k, k2, v2)
           /\ Notify([op |-> "update", old |-> k, oldVersion |-> OldVersion(k),
                      new |-> k2,
                      entry |-> [val |-> v2, version |-> OldVersion(k) + 1]])
  <2>. DEFINE db == DbAfterDelete(k)
              idx == IdxAfterDelete(k)
              id == NewRecordId(db)
              rec == [key |-> k2, val |-> v2, version |-> OldVersion(k) + 1]
  <2>1. k \in DOMAIN pkIndex /\ id \notin DOMAIN db /\ k2 \notin DOMAIN idx
    BY <1>3 DEF CacheUpdate, UpdateNotFound, UpdateInsertFails, CanInsertRecord
  <2>2. CacheContents(db, idx)
          = [CacheContents(records, pkIndex) EXCEPT ![k] = Absent]
    BY <2>1, ContentsRemove
    DEF DbAfterDelete, IdxAfterDelete, MInv, IInv, TypeOK, PrimaryIndexConsistent
  <2>3. CacheContents(records', pkIndex') = [CacheContents(db, idx) EXCEPT ![k2] = v2]
    <3>1. records' = PutRecord(db, id, rec) /\ pkIndex' = SetKey(idx, k2, id)
      BY <1>3 DEF CacheUpdate
    <3>. QED
      BY <2>1, <3>1, DeleteHalf, ContentsPut DEF MInv
  <2>4. status' = "failed" \/ status' = status
    BY <1>3, NotifyHaltsOrSucceeds DEF MInv, IInv
  <2>. QED
    BY <1>1, <1>2, <2>2, <2>3, <2>4 DEF Mirror, MInv
<1>4. CASE /\ CacheUpdatePartial(k, k2)
           /\ UNCHANGED chan
           /\ Fail("CacheUpdateFailed")
  BY <1>2, <1>4, FailHalts DEF Mirror, MInv, IInv
<1>5. CASE /\ UpdateNotFound(k)
           /\ UNCHANGED <<records, pkIndex, chan>>
           /\ Fail("CacheUpdateFailed")
  BY <1>2, <1>5, FailHalts DEF Mirror, MInv, IInv
<1>. QED
  BY <1>3, <1>4, <1>5 DEF ProcessUpdate

LEMMA DeleteMirror ==
    ASSUME ErrorThreshold = 0, MInv, NEW k \in Keys, ProcessDelete(k)
    PROVE  Mirror'
<1>1. status = "running" /\ upstream' = [upstream EXCEPT ![k] = Absent]
      /\ UNCHANGED <<committed, upstreamAtCommit>>
  BY DEF ProcessDelete, Deliver
<1>2. CommittedMatchesUpstream'
  BY <1>1 DEF MInv, Mirror, CommittedMatchesUpstream
<1>3. CASE /\ CacheDelete(k)
           /\ Notify([op |-> "delete", old |-> k, oldVersion |-> OldVersion(k)])
  <2>1. k \in DOMAIN pkIndex
    BY <1>3 DEF CacheDelete, DeleteNotFound
  <2>2. CacheContents(records', pkIndex')
          = [CacheContents(records, pkIndex) EXCEPT ![k] = Absent]
    BY <1>3, <2>1, ContentsRemove
    DEF CacheDelete, MInv, IInv, TypeOK, PrimaryIndexConsistent
  <2>3. status' = "failed" \/ status' = status
    BY <1>3, NotifyHaltsOrSucceeds DEF MInv, IInv
  <2>. QED
    BY <1>1, <1>2, <2>2, <2>3 DEF Mirror, MInv
<1>4. CASE /\ DeleteNotFound(k)
           /\ UNCHANGED <<records, pkIndex, chan>>
           /\ Fail("CacheDeleteFailed")
  BY <1>2, <1>4, FailHalts DEF Mirror, MInv, IInv
<1>. QED
  BY <1>3, <1>4 DEF ProcessDelete

THEOREM NextMirror ==
    ASSUME ErrorThreshold = 0
    PROVE  MInv /\ [Next]_vars => Mirror'
<1>. SUFFICES ASSUME MInv, [Next]_vars PROVE Mirror'
  OBVIOUS
<1>1. CASE \E k \in Keys, v \in Vals : ProcessInsert(k, v)
  BY <1>1, InsertMirror
<1>2. CASE \E k, k2 \in Keys, v \in Vals : ProcessUpdate(k, k2, v)
  BY <1>2, UpdateMirror
<1>3. CASE \E k \in Keys : ProcessDelete(k)
  BY <1>3, DeleteMirror
<1>4. CASE Commit
  BY <1>4 DEF Commit, MInv, Mirror, CommittedMatchesUpstream
<1>5. CASE CommitFails
  BY <1>5 DEF CommitFails, MInv, Mirror, CommittedMatchesUpstream
<1>6. CASE Receive
  BY <1>6 DEF Receive, MInv, Mirror, CommittedMatchesUpstream
<1>7. CASE Restart
  BY <1>7 DEF Restart, MInv, Mirror, CommittedMatchesUpstream
<1>8. CASE UNCHANGED vars
  BY <1>8 DEF vars, MInv, Mirror, CommittedMatchesUpstream
<1>. QED
  BY <1>1, <1>2, <1>3, <1>4, <1>5, <1>6, <1>7, <1>8 DEF Next

(* On a node that halts on its first error, the open transaction of a    *)
(* running node and the committed cache mirror the upstream table (MInv)  *)
(* in every reachable state.                                               *)
THEOREM MirrorInvariant ==
    ASSUME ErrorThreshold = 0
    PROVE  Spec => []MInv
<1>1. Init => MInv
  BY InitIInv, InitMirror DEF MInv
<1>2. MInv /\ [Next]_vars => MInv'
  BY NextIInv, NextMirror DEF MInv
<1>. QED
  BY <1>1, <1>2, PTL DEF Spec

(* On a node that halts on its first error, readers of the committed      *)
(* cache see exactly the upstream table of the last committed epoch, for  *)
(* every choice of keys, values, channel capacity and bounds: commit,     *)
(* crash and restart never publish or keep a half-applied epoch.          *)
THEOREM CommittedMatchesUpstreamInvariant ==
    ASSUME ErrorThreshold = 0
    PROVE  Spec => []CommittedMatchesUpstream
<1>1. MInv => CommittedMatchesUpstream
  BY DEF MInv, Mirror
<1>. QED
  BY <1>1, MirrorInvariant, PTL

=============================================================================
