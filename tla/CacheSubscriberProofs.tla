------------------------ MODULE CacheSubscriberProofs ------------------------
(***************************************************************************)
(* Proof that the API-layer subscriber of a cache sink converges: once it *)
(* has read every notification of a running node, its rows are the       *)
(* cache's open transaction, versions included (SubscriberConverges), for *)
(* a sink built with a notifier and halted on its first error.            *)
(*                                                                         *)
(* SubscriberConverges is not inductive: it says nothing while            *)
(* notifications are in flight, and a process step adds one.  The        *)
(* strengthening (SubInv) says that applying the notifications in the     *)
(* channel, in order, to the subscriber's rows gives the open             *)
(* transaction.  It is stated with the chain of intermediate views        *)
(* (ViewChain) rather than a fold over the channel, so that a send and a  *)
(* receive each extend or shorten the chain by one view and no induction *)
(* over the channel is needed.                                             *)
(***************************************************************************)
EXTENDS CacheSinkProofs

(* views[1] is v, views[i + 1] is views[i] after the notification c[i],   *)
(* and the last view is w: the subscriber goes from v to w by reading c.  *)
ViewChain(v, c, w) ==
    \E views :
        /\ DOMAIN views = 1..Len(c) + 1
        /\ views[1] = v
        /\ views[Len(c) + 1] = w
        /\ \A i \in 1..Len(c) : views[i + 1] = Apply(views[i], c[i])

(* While the node runs, the subscriber reaches the open transaction by    *)
(* reading the notifications in the channel.                               *)
SubInv == status = "running" => ViewChain(subView, chan, WorkingView)

-----------------------------------------------------------------------------
(* The chain under a send, a receive and a reload.                         *)

LEMMA ChainEmpty ==
    ASSUME NEW v PROVE ViewChain(v, << >>, v)
<1>. DEFINE views == [i \in 1..1 |-> v]
<1>1. /\ DOMAIN views = 1..Len(<< >>) + 1
      /\ views[1] = v
      /\ views[Len(<< >>) + 1] = v
      /\ \A i \in 1..Len(<< >>) : views[i + 1] = Apply(views[i], << >>[i])
  OBVIOUS
<1>. QED
  BY <1>1 DEF ViewChain

(* try_send appends e: the subscriber will also apply e.                   *)
LEMMA ChainAppend ==
    ASSUME NEW v, NEW c \in Seq(Event), NEW w, NEW e, ViewChain(v, c, w)
    PROVE  ViewChain(v, Append(c, e), Apply(w, e))
<1>1. PICK views : /\ DOMAIN views = 1..Len(c) + 1
                   /\ views[1] = v
                   /\ views[Len(c) + 1] = w
                   /\ \A i \in 1..Len(c) : views[i + 1] = Apply(views[i], c[i])
  BY DEF ViewChain
<1>. DEFINE n == Len(c)
            views2 == [i \in 1..n + 2 |-> IF i <= n + 1 THEN views[i] ELSE Apply(w, e)]
<1>2. Len(Append(c, e)) = n + 1
      /\ \A i \in 1..n : Append(c, e)[i] = c[i]
      /\ Append(c, e)[n + 1] = e
  OBVIOUS
<1>3. /\ DOMAIN views2 = 1..Len(Append(c, e)) + 1
      /\ views2[1] = v
      /\ views2[Len(Append(c, e)) + 1] = Apply(w, e)
  BY <1>1, <1>2
<1>4. \A i \in 1..Len(Append(c, e)) : views2[i + 1] = Apply(views2[i], Append(c, e)[i])
  BY <1>1, <1>2
<1>. QED
  BY <1>3, <1>4 DEF ViewChain

(* The subscriber receives the head of the channel.                        *)
LEMMA ChainTail ==
    ASSUME NEW v, NEW c \in Seq(Event), c # << >>, NEW w, ViewChain(v, c, w)
    PROVE  ViewChain(Apply(v, Head(c)), Tail(c), w)
<1>1. PICK views : /\ DOMAIN views = 1..Len(c) + 1
                   /\ views[1] = v
                   /\ views[Len(c) + 1] = w
                   /\ \A i \in 1..Len(c) : views[i + 1] = Apply(views[i], c[i])
  BY DEF ViewChain
<1>. DEFINE n == Len(c)
            views2 == [i \in 1..n |-> views[i + 1]]
<1>2. Len(Tail(c)) = n - 1 /\ n \in Nat \ {0}
      /\ \A i \in 1..n - 1 : Tail(c)[i] = c[i + 1]
      /\ Head(c) = c[1]
  OBVIOUS
<1>3. /\ DOMAIN views2 = 1..Len(Tail(c)) + 1
      /\ views2[1] = Apply(v, Head(c))
      /\ views2[Len(Tail(c)) + 1] = w
  BY <1>1, <1>2
<1>4. \A i \in 1..Len(Tail(c)) : views2[i + 1] = Apply(views2[i], Tail(c)[i])
  BY <1>1, <1>2
<1>. QED
  BY <1>3, <1>4 DEF ViewChain

-----------------------------------------------------------------------------
(* What get returns after the cache's two primitive steps.                 *)

(* Storing a fresh record under a fresh key makes get return its contents *)
(* and version for that key.                                               *)
LEMMA ViewPut ==
    ASSUME NEW db, NEW idx, PkConsistent(db, idx), DOMAIN idx \subseteq Keys,
           NEW k \in Keys, k \notin DOMAIN idx, NEW id, id \notin DOMAIN db,
           NEW rec, rec.key = k
    PROVE  CacheView(PutRecord(db, id, rec), SetKey(idx, k, id))
             = [CacheView(db, idx) EXCEPT ![k] = [val |-> rec.val, version |-> rec.version]]
BY DEF CacheView, GetRecord, PkConsistent, PutRecord, SetKey

(* Deleting a key's record with the key makes get return NotFound for that *)
(* key alone.                                                               *)
LEMMA ViewRemove ==
    ASSUME NEW db, NEW idx, PkConsistent(db, idx), DOMAIN idx \subseteq Keys,
           NEW k \in DOMAIN idx
    PROVE  CacheView(RemoveRecord(db, idx[k]), DropKey(idx, k))
             = [CacheView(db, idx) EXCEPT ![k] = Absent]
<1>. DEFINE db2 == RemoveRecord(db, idx[k])
            idx2 == DropKey(idx, k)
<1>1. \A x \in DOMAIN idx \ {k} : idx[x] # idx[k]
  BY DEF PkConsistent
<1>2. ASSUME NEW x \in Keys
      PROVE  CacheView(db2, idx2)[x] = [CacheView(db, idx) EXCEPT ![k] = Absent][x]
  <2>1. CASE x = k
    BY <2>1 DEF CacheView, GetRecord, DropKey
  <2>2. CASE x # k /\ x \in DOMAIN idx
    <3>1. x \in DOMAIN idx2 /\ idx2[x] = idx[x]
      BY <2>2 DEF DropKey
    <3>2. idx[x] \in DOMAIN db2 /\ db2[idx[x]] = db[idx[x]]
      BY <1>1, <2>2 DEF PkConsistent, RemoveRecord
    <3>. QED
      BY <2>2, <3>1, <3>2 DEF CacheView, GetRecord
  <2>3. CASE x \notin DOMAIN idx
    BY <2>3 DEF CacheView, GetRecord, DropKey
  <2>. QED
    BY <2>1, <2>2, <2>3
<1>. QED
  BY <1>2 DEF CacheView, GetRecord

-----------------------------------------------------------------------------
(* The steps of a sink built with a notifier, under the halting policy.   *)

(* try_send either queues the notification, the node running on, or      *)
(* fails and halts the node.                                               *)
LEMMA NotifySends ==
    ASSUME HasNotifier, ErrorThreshold = 0, TypeOK, NEW ev, Notify(ev)
    PROVE  \/ chan' = Append(chan, ev) /\ status' = status
           \/ status' = "failed"
BY FailHalts DEF Notify, Succeed

(* A step that queues ev and moves the open transaction from the view w  *)
(* to Apply(w, ev), leaving the subscriber alone, keeps SubInv.            *)
LEMMA SendStep ==
    ASSUME TypeOK, SubInv, NEW ev,
           status = "running", subView' = subView,
           WorkingView' = Apply(WorkingView, ev),
           \/ chan' = Append(chan, ev) /\ status' = status
           \/ status' = "failed"
    PROVE  SubInv'
<1>1. CASE chan' = Append(chan, ev) /\ status' = status
  <2>1. ViewChain(subView, chan, WorkingView)
    BY DEF SubInv
  <2>2. ViewChain(subView, Append(chan, ev), Apply(WorkingView, ev))
    BY <2>1, ChainAppend DEF TypeOK
  <2>. QED
    BY <1>1, <2>2 DEF SubInv
<1>2. CASE status' = "failed"
  BY <1>2 DEF SubInv
<1>. QED
  BY <1>1, <1>2

LEMMA InsertSub ==
    ASSUME HasNotifier, ErrorThreshold = 0, IInv, SubInv,
           NEW k \in Keys, NEW v \in Vals, ProcessInsert(k, v)
    PROVE  SubInv'
<1>1. status = "running" /\ subView' = subView
  BY DEF ProcessInsert, Deliver
<1>2. CASE /\ CacheInsert(k, v)
           /\ Notify([op |-> "insert", new |-> k,
                      entry |-> [val |-> v, version |-> InitialVersion]])
  <2>. DEFINE id == NewRecordId(records)
              rec == [key |-> k, val |-> v, version |-> InitialVersion]
              ev == [op |-> "insert", new |-> k,
                     entry |-> [val |-> v, version |-> InitialVersion]]
  <2>1. id \notin DOMAIN records /\ k \notin DOMAIN pkIndex
    BY <1>2 DEF CacheInsert, InsertFails, CanInsertRecord
  <2>2. records' = PutRecord(records, id, rec) /\ pkIndex' = SetKey(pkIndex, k, id)
    BY <1>2 DEF CacheInsert
  <2>3. PkConsistent(records, pkIndex) /\ DOMAIN pkIndex \subseteq Keys
    BY DEF IInv, TypeOK, PrimaryIndexConsistent
  <2>4. WorkingView' = [WorkingView EXCEPT ![k] = ev.entry]
    BY <2>1, <2>2, <2>3, ViewPut DEF WorkingView
  <2>5. Apply(WorkingView, ev) = [WorkingView EXCEPT ![k] = ev.entry]
    BY DEF Apply
  <2>. QED
    BY <1>1, <1>2, <2>4, <2>5, NotifySends, SendStep DEF IInv
<1>3. CASE /\ InsertFails(k)
           /\ UNCHANGED <<records, pkIndex, chan>>
           /\ Fail("CacheInsertFailed")
  BY <1>3, FailHalts DEF SubInv, IInv
<1>. QED
  BY <1>2, <1>3 DEF ProcessInsert

LEMMA UpdateSub ==
    ASSUME HasNotifier, ErrorThreshold = 0, IInv, SubInv,
           NEW k \in Keys, NEW k2 \in Keys, NEW v2 \in Vals, ProcessUpdate(k, k2, v2)
    PROVE  SubInv'
<1>1. status = "running" /\ subView' = subView
  BY DEF ProcessUpdate, Deliver
<1>2. CASE /\ CacheUpdate(k, k2, v2)
           /\ Notify([op |-> "update", old |-> k, oldVersion |-> OldVersion(k),
                      new |-> k2,
                      entry |-> [val |-> v2, version |-> OldVersion(k) + 1]])
  <2>. DEFINE db == DbAfterDelete(k)
              idx == IdxAfterDelete(k)
              id == NewRecordId(db)
              rec == [key |-> k2, val |-> v2, version |-> OldVersion(k) + 1]
              ev == [op |-> "update", old |-> k, oldVersion |-> OldVersion(k),
                     new |-> k2,
                     entry |-> [val |-> v2, version |-> OldVersion(k) + 1]]
  <2>1. k \in DOMAIN pkIndex /\ id \notin DOMAIN db /\ k2 \notin DOMAIN idx
    BY <1>2 DEF CacheUpdate, UpdateNotFound, UpdateInsertFails, CanInsertRecord
  <2>2. CacheView(db, idx) = [WorkingView EXCEPT ![k] = Absent]
    BY <2>1, ViewRemove
    DEF DbAfterDelete, IdxAfterDelete, WorkingView, IInv, TypeOK, PrimaryIndexConsistent
  <2>3. records' = PutRecord(db, id, rec) /\ pkIndex' = SetKey(idx, k2, id)
    BY <1>2 DEF CacheUpdate
  <2>4. PkConsistent(db, idx) /\ DOMAIN idx \subseteq Keys
    BY <2>1, DeleteHalf
  <2>5. WorkingView' = [CacheView(db, idx) EXCEPT ![k2] = ev.entry]
    BY <2>1, <2>3, <2>4, ViewPut DEF WorkingView
  <2>6. Apply(WorkingView, ev) = [[WorkingView EXCEPT ![k] = Absent] EXCEPT ![k2] = ev.entry]
    BY DEF Apply
  <2>. QED
    BY <1>1, <1>2, <2>2, <2>5, <2>6, NotifySends, SendStep DEF IInv
<1>3. CASE /\ CacheUpdatePartial(k, k2)
           /\ UNCHANGED chan
           /\ Fail("CacheUpdateFailed")
  BY <1>3, FailHalts DEF SubInv, IInv
<1>4. CASE /\ UpdateNotFound(k)
           /\ UNCHANGED <<records, pkIndex, chan>>
           /\ Fail("CacheUpdateFailed")
  BY <1>4, FailHalts DEF SubInv, IInv
<1>. QED
  BY <1>2, <1>3, <1>4 DEF ProcessUpdate

LEMMA DeleteSub ==
    ASSUME HasNotifier, ErrorThreshold = 0, IInv, SubInv,
           NEW k \in Keys, ProcessDelete(k)
    PROVE  SubInv'
<1>1. status = "running" /\ subView' = subView
  BY DEF ProcessDelete, Deliver
<1>2. CASE /\ CacheDelete(k)
           /\ Notify([op |-> "delete", old |-> k, oldVersion |-> OldVersion(k)])
  <2>. DEFINE ev == [op |-> "delete", old |-> k, oldVersion |-> OldVersion(k)]
  <2>1. k \in DOMAIN pkIndex
    BY <1>2 DEF CacheDelete, DeleteNotFound
  <2>2. records' = RemoveRecord(records, pkIndex[k]) /\ pkIndex' = DropKey(pkIndex, k)
    BY <1>2 DEF CacheDelete
  <2>3. PkConsistent(records, pkIndex) /\ DOMAIN pkIndex \subseteq Keys
    BY DEF IInv, TypeOK, PrimaryIndexConsistent
  <2>4. WorkingView' = [WorkingView EXCEPT ![k] = Absent]
    BY <2>1, <2>2, <2>3, ViewRemove DEF WorkingView
  <2>5. Apply(WorkingView, ev) = [WorkingView EXCEPT ![k] = Absent]
    BY DEF Apply
  <2>. QED
    BY <1>1, <1>2, <2>4, <2>5, NotifySends, SendStep DEF IInv
<1>3. CASE /\ DeleteNotFound(k)
           /\ UNCHANGED <<records, pkIndex, chan>>
           /\ Fail("CacheDeleteFailed")
  BY <1>3, FailHalts DEF SubInv, IInv
<1>. QED
  BY <1>2, <1>3 DEF ProcessDelete

(* The subscriber applies the head of the channel.                         *)
LEMMA ReceiveSub ==
    ASSUME IInv, SubInv, Receive PROVE SubInv'
<1>1. chan \in Seq(Event) /\ chan # << >>
  BY DEF Receive, IInv, TypeOK
<1>2. CASE status = "running"
  <2>1. ViewChain(subView, chan, WorkingView)
    BY <1>2 DEF SubInv
  <2>2. ViewChain(Apply(subView, Head(chan)), Tail(chan), WorkingView)
    BY <1>1, <2>1, ChainTail
  <2>. QED
    BY <2>2 DEF Receive, SubInv, WorkingView
<1>3. CASE status # "running"
  BY <1>3 DEF Receive, SubInv
<1>. QED
  BY <1>2, <1>3

(* A rebuilt sink reopens the committed cache, and the subscriber reloads *)
(* its rows with an empty channel.                                         *)
LEMMA RestartSub ==
    ASSUME Restart PROVE SubInv'
<1>1. WorkingView' = subView' /\ chan' = << >>
  BY DEF Restart, WorkingView, CommittedView
<1>. QED
  BY <1>1, ChainEmpty DEF SubInv

LEMMA NextSub ==
    ASSUME HasNotifier, ErrorThreshold = 0, IInv, SubInv, [Next]_vars
    PROVE  SubInv'
<1>1. CASE \E k \in Keys, v \in Vals : ProcessInsert(k, v)
  BY <1>1, InsertSub
<1>2. CASE \E k, k2 \in Keys, v \in Vals : ProcessUpdate(k, k2, v)
  BY <1>2, UpdateSub
<1>3. CASE \E k \in Keys : ProcessDelete(k)
  BY <1>3, DeleteSub
<1>4. CASE Commit
  BY <1>4 DEF Commit, SubInv, WorkingView
<1>5. CASE CommitFails
  BY <1>5 DEF CommitFails, SubInv
<1>6. CASE Receive
  BY <1>6, ReceiveSub
<1>7. CASE Restart
  BY <1>7, RestartSub
<1>8. CASE UNCHANGED vars
  BY <1>8 DEF vars, SubInv, WorkingView
<1>. QED
  BY <1>1, <1>2, <1>3, <1>4, <1>5, <1>6, <1>7, <1>8 DEF Next

(* The subscriber starts with the empty open transaction.                  *)
LEMMA InitSub == Init => SubInv
<1> SUFFICES ASSUME Init PROVE SubInv
  OBVIOUS
<1>1. WorkingView = subView
  BY DEF Init, WorkingView, CacheView, EmptyFunction
<1>. QED
  BY <1>1, ChainEmpty DEF Init, SubInv

(* On a sink built with a notifier and halted on its first error, the     *)
(* notifications in the channel take the subscriber's rows to the open   *)
(* transaction in every reachable state.                                   *)
THEOREM SubInvInvariant ==
    ASSUME HasNotifier, ErrorThreshold = 0
    PROVE  Spec => [](IInv /\ SubInv)
<1>1. Init => IInv /\ SubInv
  BY InitIInv, InitSub
<1>2. IInv /\ SubInv /\ [Next]_vars => IInv' /\ SubInv'
  BY NextIInv, NextSub
<1>. QED
  BY <1>1, <1>2, PTL DEF Spec

(* CacheSink::process notifies every change it makes to the cache, once  *)
(* and in order (sinks.rs process, map_*_operation and try_send): on a   *)
(* sink built with a notifier and halted on its first error, a subscriber *)
(* that has read every notification of a running node holds exactly the  *)
(* open transaction, versions included, for every set of keys and values, *)
(* channel capacity and bound.                                             *)
THEOREM SubscriberConvergesInvariant ==
    ASSUME HasNotifier, ErrorThreshold = 0
    PROVE  Spec => []SubscriberConverges
<1>1. IInv /\ SubInv => SubscriberConverges
  <2> SUFFICES ASSUME SubInv, status = "running", chan = << >>
               PROVE  subView = WorkingView
    BY DEF SubscriberConverges
  <2>1. PICK views : /\ DOMAIN views = 1..Len(chan) + 1
                     /\ views[1] = subView
                     /\ views[Len(chan) + 1] = WorkingView
    BY DEF SubInv, ViewChain
  <2>. QED
    BY <2>1
<1>. QED
  BY <1>1, SubInvInvariant, PTL

=============================================================================
