------------------------ MODULE WindowProcessorProofs ------------------------
(***************************************************************************)
(* Proofs about the window operator (WindowProcessor, processor.rs) under *)
(* the halting error policy (ErrorThreshold = 0): the downstream table    *)
(* never rejects a delta the window sends, and while the node runs it is  *)
(* the window view of the upstream table, for every set of keys, times    *)
(* and windows and every window strategy Assign.                          *)
(*                                                                         *)
(* The argument: while the node runs, down is WindowView(upstream), so a  *)
(* delete batch names exactly output rows that are present and an insert  *)
(* batch only output rows that are absent (the upstream row was absent),  *)
(* and each batch takes the view of the old upstream to the view of the  *)
(* new one (DeleteView, InsertView, BatchView).  An Update's deletes are  *)
(* sent first, and the intermediate upstream (the old row removed) is the *)
(* one the inserts are checked against.  The first error halts the node,  *)
(* after which nothing is delivered.                                       *)
(***************************************************************************)
EXTENDS WindowProcessor, SequenceTheorems, TLAPS

(* The upstream table's rows sit under their own key.                      *)
KeysMatch(u) == \A k \in Keys : u[k] # Absent => u[k].key = k

UTable == [Keys -> Row \cup {Absent}]

IInv ==
    /\ TypeOK
    /\ KeysMatch(upstream)
    /\ ~rejected
    /\ status = "running" => errors = 0 /\ down = WindowView(upstream)

-----------------------------------------------------------------------------
(* The window view of a table is a downstream table.                       *)
LEMMA ViewType ==
    ASSUME NEW u \in UTable
    PROVE  WindowView(u) \in [OutKeys -> Row \cup {Absent}]
BY DEF WindowView, UTable, OutKeys

(* Removing a row whose execute succeeds: its output rows are all present  *)
(* in the view, and deleting them gives the view without the row.          *)
LEMMA DeleteView ==
    ASSUME NEW u \in UTable, KeysMatch(u), NEW k \in Keys,
           u[k] # Absent, Executes(u[k])
    PROVE  /\ ~Rejects(WindowView(u), Batch("delete", Execute(u[k])))
           /\ ApplyBatch(WindowView(u), Batch("delete", Execute(u[k])))
                = WindowView([u EXCEPT ![k] = Absent])
<1> DEFINE r == u[k]
<1>1. r \in Row /\ r.key = k
  BY DEF UTable, KeysMatch
<1>2. r.t \in Times
  BY <1>1, WindowAssumption DEF Row, Executes
<1>3. DOMAIN Execute(r) = {<<k, w>> : w \in Assign[r.t]}
  BY <1>1 DEF Execute
<1>4. ~Rejects(WindowView(u), Batch("delete", Execute(r)))
  <2>1. ASSUME NEW w \in Assign[r.t] PROVE WindowView(u)[<<k, w>>] # Absent
    <3>1. <<k, w>> \in OutKeys
      BY <1>2, WindowAssumption DEF OutKeys
    <3> QED BY <3>1, <1>1 DEF WindowView
  <2> QED BY <2>1, <1>3 DEF Rejects, Batch
<1>5. ApplyBatch(WindowView(u), Batch("delete", Execute(r)))
        = WindowView([u EXCEPT ![k] = Absent])
  BY <1>1, <1>2, <1>3, WindowAssumption DEF ApplyBatch, Batch, WindowView, OutKeys, UTable
<1> QED BY <1>4, <1>5

(* Removing a row whose execute fails leaves the view as it is.           *)
LEMMA DeleteSilent ==
    ASSUME NEW u \in UTable, NEW k \in Keys, u[k] # Absent, ~Executes(u[k])
    PROVE  WindowView([u EXCEPT ![k] = Absent]) = WindowView(u)
BY DEF WindowView, UTable, OutKeys

(* Adding a row under an absent key whose execute succeeds: none of its   *)
(* output rows is in the view, and inserting them gives the view with it.  *)
LEMMA InsertView ==
    ASSUME NEW u \in UTable, NEW r \in Row, u[r.key] = Absent, Executes(r)
    PROVE  /\ ~Rejects(WindowView(u), Batch("insert", Execute(r)))
           /\ ApplyBatch(WindowView(u), Batch("insert", Execute(r)))
                = WindowView([u EXCEPT ![r.key] = r])
<1>1. r.t \in Times /\ r.key \in Keys
  BY WindowAssumption DEF Row, Executes
<1>2. DOMAIN Execute(r) = {<<r.key, w>> : w \in Assign[r.t]}
  BY DEF Execute
<1>3. ~Rejects(WindowView(u), Batch("insert", Execute(r)))
  <2>1. ASSUME NEW w \in Assign[r.t] PROVE WindowView(u)[<<r.key, w>>] = Absent
    <3>1. <<r.key, w>> \in OutKeys
      BY <1>1, WindowAssumption DEF OutKeys
    <3> QED BY <3>1 DEF WindowView
  <2> QED BY <2>1, <1>2 DEF Rejects, Batch
<1>4. ApplyBatch(WindowView(u), Batch("insert", Execute(r)))
        = WindowView([u EXCEPT ![r.key] = r])
  BY <1>1, <1>2, WindowAssumption DEF ApplyBatch, Batch, WindowView, OutKeys, Execute, UTable
<1> QED BY <1>3, <1>4

(* Adding a row whose execute fails leaves the view as it is.             *)
LEMMA InsertSilent ==
    ASSUME NEW u \in UTable, NEW r \in Row, u[r.key] = Absent, ~Executes(r)
    PROVE  WindowView([u EXCEPT ![r.key] = r]) = WindowView(u)
BY DEF WindowView, UTable, OutKeys, Row, Executes

(* The upstream table after BatchInsert{rs} (ProcessBatchInsert).          *)
BatchTable(u, rs) ==
    [k \in Keys |-> IF \E r \in rs : r.key = k
                    THEN CHOOSE r \in rs : r.key = k
                    ELSE u[k]]

(* Adding rows with distinct, absent keys whose execute succeeds: none of  *)
(* their output rows is in the view, and inserting them all in one batch   *)
(* gives the view with them.                                               *)
LEMMA BatchView ==
    ASSUME NEW u \in UTable, NEW rs \in SUBSET Row,
           \A r \in rs : u[r.key] = Absent /\ Executes(r),
           \A r1, r2 \in rs : r1.key = r2.key => r1 = r2
    PROVE  /\ ~Rejects(WindowView(u), Batch("insert", ExecuteAll(rs)))
           /\ ApplyBatch(WindowView(u), Batch("insert", ExecuteAll(rs)))
                = WindowView(BatchTable(u, rs))
<1> DEFINE E == ExecuteAll(rs)
           V == WindowView(u)
<1>1. ASSUME NEW r \in rs, NEW w \in Assign[r.t]
      PROVE  /\ <<r.key, w>> \in DOMAIN E
             /\ E[<<r.key, w>>] = r
             /\ <<r.key, w>> \in OutKeys
  <2>1. r.t \in Times /\ r.key \in Keys
    BY WindowAssumption DEF Row, Executes
  <2>2. <<r.key, w>> \in DOMAIN Execute(r)
    BY DEF Execute
  <2>3. <<r.key, w>> \in DOMAIN E
    BY <2>2 DEF ExecuteAll
  <2>4. E[<<r.key, w>>] = CHOOSE r2 \in rs : r2.key = r.key
    BY <2>3 DEF ExecuteAll
  <2>5. (CHOOSE r2 \in rs : r2.key = r.key) = r
    OBVIOUS
  <2> QED BY <2>1, <2>3, <2>4, <2>5, WindowAssumption DEF OutKeys
<1>2. ASSUME NEW o \in DOMAIN E
      PROVE  \E r \in rs : \E w \in Assign[r.t] : o = <<r.key, w>>
  BY DEF ExecuteAll, Execute
<1>3. ~Rejects(V, Batch("insert", E))
  <2>1. ASSUME NEW r \in rs, NEW w \in Assign[r.t] PROVE V[<<r.key, w>>] = Absent
    BY <1>1 DEF WindowView
  <2> QED BY <2>1, <1>2 DEF Rejects, Batch
<1>4. ASSUME NEW o \in OutKeys
      PROVE  ApplyBatch(V, Batch("insert", E))[o] = WindowView(BatchTable(u, rs))[o]
  <2>1. o = <<o[1], o[2]>> /\ o[1] \in Keys /\ o[2] \in Windows
    BY DEF OutKeys
  <2>2. CASE o \in DOMAIN E
    <3>0. PICK r \in rs : \E w \in Assign[r.t] : o = <<r.key, w>>
      BY <2>2, <1>2
    <3>1. PICK w \in Assign[r.t] : o = <<r.key, w>>
      BY <3>0
    <3>2. ApplyBatch(V, Batch("insert", E))[o] = r
      BY <3>1, <1>1 DEF ApplyBatch, Batch
    <3>3. BatchTable(u, rs)[o[1]] = r
      BY <3>1, <2>1 DEF BatchTable, Row
    <3>4. r # Absent /\ Executes(r) /\ r.t \in Times
      BY <3>1, WindowAssumption DEF Row, Executes
    <3> QED BY <3>1, <2>1, <3>2, <3>3, <3>4 DEF WindowView
  <2>3. CASE o \notin DOMAIN E /\ \E r \in rs : r.key = o[1]
    <3>1. PICK r \in rs : r.key = o[1]
      BY <2>3
    <3>2. BatchTable(u, rs)[o[1]] = r
      BY <3>1, <2>1 DEF BatchTable
    <3>3. o[2] \notin Assign[r.t]
      BY <3>1, <2>1, <2>3, <1>1
    <3>4. WindowView(BatchTable(u, rs))[o] = Absent
      BY <3>2, <3>3 DEF WindowView
    <3>5. V[o] = Absent
      BY <3>1 DEF WindowView
    <3> QED BY <3>4, <3>5, <2>3 DEF ApplyBatch, Batch
  <2>4. CASE o \notin DOMAIN E /\ ~\E r \in rs : r.key = o[1]
    <3>1. BatchTable(u, rs)[o[1]] = u[o[1]]
      BY <2>4, <2>1 DEF BatchTable
    <3> QED BY <3>1, <2>4 DEF ApplyBatch, Batch, WindowView
  <2> QED BY <2>2, <2>3, <2>4
<1>5. ApplyBatch(V, Batch("insert", E)) = WindowView(BatchTable(u, rs))
  BY <1>4 DEF ApplyBatch, WindowView
<1> QED BY <1>3, <1>5

-----------------------------------------------------------------------------
(* Appending two one-element sequences.                                    *)
LEMMA ConcatPair ==
    ASSUME NEW x, NEW y
    PROVE  << x >> \o << y >> = << x, y >>
<1> DEFINE xy == << x >> \o << y >>
<1>1. << x >> \in Seq({x, y}) /\ << y >> \in Seq({x, y}) /\ << x, y >> \in Seq({x, y})
  OBVIOUS
<1>2. /\ xy \in Seq({x, y})
      /\ Len(xy) = 2
      /\ \A i \in 1..2 : xy[i] = IF i <= 1 THEN x ELSE y
  BY <1>1, ConcatProperties
<1>3. Len(xy) = Len(<< x, y >>)
  BY <1>2
<1>4. \A i \in 1..Len(xy) : xy[i] = << x, y >>[i]
  BY <1>2
<1> QED BY <1>1, <1>2, <1>3, <1>4, SeqEqual

(* What Deliver returns for the zero, one or two batches a call sends,     *)
(* when the table accepts each in turn.                                    *)
LEMMA DeliverNone ==
    ASSUME NEW tbl
    PROVE  Deliver(tbl, << >>) = [tbl |-> tbl, rejected |-> FALSE]
BY DEF Deliver

LEMMA DeliverOne ==
    ASSUME NEW tbl, NEW b, ~Rejects(tbl, b)
    PROVE  Deliver(tbl, << b >>) = [tbl |-> ApplyBatch(tbl, b), rejected |-> FALSE]
<1>1. Step(tbl, b) = ApplyBatch(tbl, b)
  BY DEF Step
<1>2. << b >> # << >> /\ Len(<< b >>) = 1 /\ << b >>[1] = b /\ 1 # 2
  OBVIOUS
<1>3. Deliver(tbl, << b >>) = [tbl |-> Step(tbl, b), rejected |-> Rejects(tbl, b)]
  BY <1>2, Zenon DEF Deliver
<1>4. Rejects(tbl, b) = FALSE
  BY DEF Rejects
<1> QED BY <1>1, <1>3, <1>4

LEMMA DeliverTwo ==
    ASSUME NEW tbl, NEW b1, NEW b2, ~Rejects(tbl, b1),
           ~Rejects(ApplyBatch(tbl, b1), b2)
    PROVE  Deliver(tbl, << b1, b2 >>)
             = [tbl |-> ApplyBatch(ApplyBatch(tbl, b1), b2), rejected |-> FALSE]
<1>1. Step(tbl, b1) = ApplyBatch(tbl, b1)
  BY DEF Step
<1>2. Step(ApplyBatch(tbl, b1), b2) = ApplyBatch(ApplyBatch(tbl, b1), b2)
  BY DEF Step
<1>3. << b1, b2 >> # << >> /\ Len(<< b1, b2 >>) = 2
      /\ << b1, b2 >>[1] = b1 /\ << b1, b2 >>[2] = b2 /\ 2 # 1
  OBVIOUS
<1> QED BY <1>1, <1>2, <1>3, Zenon DEF Deliver

(* A running node's call that delivers the new upstream table u2 and      *)
(* sends batches the downstream table accepts, ending in the table t,     *)
(* keeps the invariant when t is the view of u2 or the call fails (and   *)
(* the node halts).                                                        *)
LEMMA CallStep ==
    ASSUME IInv, ErrorThreshold = 0,
           NEW u2 \in UTable, KeysMatch(u2), Deliverable(u2),
           NEW bs, NEW ok \in BOOLEAN, Send(bs, ok),
           NEW t \in [OutKeys -> Row \cup {Absent}],
           Deliver(down, bs) = [tbl |-> t, rejected |-> FALSE],
           ok => t = WindowView(u2)
    PROVE  IInv'
<1>1. status = "running" /\ errors = 0 /\ ~rejected
  BY DEF IInv, Deliverable
<1>2. down' = t /\ rejected' = FALSE
  <2>1. Deliver(down, bs).tbl = t /\ Deliver(down, bs).rejected = FALSE
    OBVIOUS
  <2> QED BY <1>1, <2>1 DEF Send
<1>3. upstream' = u2 /\ ops' \in 0..MaxOps
  BY WindowAssumption DEF Deliverable, IInv, TypeOK
<1>4. CASE ok
  <2>1. errors' = 0 /\ status' = "running"
    BY <1>1, <1>4 DEF Send
  <2> QED BY <1>2, <1>3, <1>4, <2>1 DEF IInv, TypeOK, UTable
<1>5. CASE ~ok
  <2>1. errors' = 1 /\ status' = "failed"
    BY <1>1, <1>5 DEF Send
  <2> QED BY <1>2, <1>3, <2>1 DEF IInv, TypeOK, UTable
<1> QED BY <1>4, <1>5

-----------------------------------------------------------------------------
(* The running node's state the action steps start from.                  *)
LEMMA Running ==
    ASSUME IInv, status = "running"
    PROVE  /\ upstream \in UTable /\ KeysMatch(upstream)
           /\ down = WindowView(upstream)
           /\ down \in [OutKeys -> Row \cup {Absent}]
BY DEF IInv, TypeOK, UTable

(* Delete{old} (process, processor.rs 36-47).                              *)
LEMMA DeleteStep ==
    ASSUME IInv, ErrorThreshold = 0, NEW k \in Keys, ProcessDelete(k)
    PROVE  IInv'
<1> DEFINE old == upstream[k]
           u2 == [upstream EXCEPT ![k] = Absent]
<1>1. /\ upstream \in UTable /\ KeysMatch(upstream)
      /\ down = WindowView(upstream)
      /\ down \in [OutKeys -> Row \cup {Absent}]
  BY Running DEF ProcessDelete, Deliverable
<1>2. u2 \in UTable /\ KeysMatch(u2)
  BY <1>1 DEF UTable, KeysMatch
<1>3. old # Absent /\ Deliverable(u2) /\ Send(DeleteSends(old), Executes(old))
  BY DEF ProcessDelete
<1>4. Executes(old) \in BOOLEAN
  BY DEF Executes
<1>5. CASE Executes(old)
  <2>1. DeleteSends(old) = << Batch("delete", Execute(old)) >>
    BY <1>5 DEF DeleteSends
  <2>2. /\ ~Rejects(WindowView(upstream), Batch("delete", Execute(old)))
        /\ ApplyBatch(WindowView(upstream), Batch("delete", Execute(old))) = WindowView(u2)
    BY <1>1, <1>3, <1>5, DeleteView
  <2>3. Deliver(down, DeleteSends(old)) = [tbl |-> WindowView(u2), rejected |-> FALSE]
    BY <1>1, <2>1, <2>2, DeliverOne
  <2>4. WindowView(u2) \in [OutKeys -> Row \cup {Absent}]
    BY <1>2, ViewType
  <2> QED BY <1>2, <1>3, <1>4, <2>3, <2>4, CallStep
<1>6. CASE ~Executes(old)
  <2>1. Deliver(down, DeleteSends(old)) = [tbl |-> down, rejected |-> FALSE]
    BY <1>6, DeliverNone DEF DeleteSends
  <2> QED BY <1>1, <1>2, <1>3, <1>4, <1>6, <2>1, CallStep
<1> QED BY <1>5, <1>6

(* Insert{new} (process, processor.rs 48-59).                              *)
LEMMA InsertStep ==
    ASSUME IInv, ErrorThreshold = 0, NEW r \in Row, ProcessInsert(r)
    PROVE  IInv'
<1> DEFINE u2 == [upstream EXCEPT ![r.key] = r]
<1>1. /\ upstream \in UTable /\ KeysMatch(upstream)
      /\ down = WindowView(upstream)
      /\ down \in [OutKeys -> Row \cup {Absent}]
  BY Running DEF ProcessInsert, Deliverable
<1>2. u2 \in UTable /\ KeysMatch(u2)
  BY <1>1 DEF UTable, KeysMatch, Row
<1>3. upstream[r.key] = Absent /\ Deliverable(u2) /\ Send(InsertSends(r), Executes(r))
  BY DEF ProcessInsert
<1>4. Executes(r) \in BOOLEAN
  BY DEF Executes
<1>5. CASE Executes(r)
  <2>1. InsertSends(r) = << Batch("insert", Execute(r)) >>
    BY <1>5 DEF InsertSends
  <2>2. /\ ~Rejects(WindowView(upstream), Batch("insert", Execute(r)))
        /\ ApplyBatch(WindowView(upstream), Batch("insert", Execute(r))) = WindowView(u2)
    BY <1>1, <1>3, <1>5, InsertView
  <2>3. Deliver(down, InsertSends(r)) = [tbl |-> WindowView(u2), rejected |-> FALSE]
    BY <1>1, <2>1, <2>2, DeliverOne
  <2>4. WindowView(u2) \in [OutKeys -> Row \cup {Absent}]
    BY <1>2, ViewType
  <2> QED BY <1>2, <1>3, <1>4, <2>3, <2>4, CallStep
<1>6. CASE ~Executes(r)
  <2>1. Deliver(down, InsertSends(r)) = [tbl |-> down, rejected |-> FALSE]
    BY <1>6, DeliverNone DEF InsertSends
  <2> QED BY <1>1, <1>2, <1>3, <1>4, <1>6, <2>1, CallStep
<1> QED BY <1>5, <1>6

(* Update{old, new} (process, processor.rs 60-72): the deletes of old are *)
(* checked against the view of the upstream table, the inserts of new     *)
(* against the view with old removed.                                      *)
LEMMA UpdateStep ==
    ASSUME IInv, ErrorThreshold = 0, NEW k \in Keys, NEW r \in Row,
           ProcessUpdate(k, r)
    PROVE  IInv'
<1> DEFINE old == upstream[k]
           u1 == [upstream EXCEPT ![k] = Absent]
           u2 == [u1 EXCEPT ![r.key] = r]
           ok == Executes(old) /\ Executes(r)
           bs == IF Executes(old) THEN DeleteSends(old) \o InsertSends(r) ELSE << >>
<1>1. /\ upstream \in UTable /\ KeysMatch(upstream)
      /\ down = WindowView(upstream)
      /\ down \in [OutKeys -> Row \cup {Absent}]
  BY Running DEF ProcessUpdate, Deliverable
<1>2. /\ u1 \in UTable /\ KeysMatch(u1) /\ u1[r.key] = Absent
      /\ u2 \in UTable /\ KeysMatch(u2)
  BY <1>1 DEF UTable, KeysMatch, Row, ProcessUpdate
<1>3. old # Absent /\ Deliverable(u2) /\ Send(bs, ok)
  BY DEF ProcessUpdate
<1>4. ok \in BOOLEAN
  BY DEF Executes
<1>5. CASE Executes(old)
  <2>1. /\ ~Rejects(WindowView(upstream), Batch("delete", Execute(old)))
        /\ ApplyBatch(WindowView(upstream), Batch("delete", Execute(old))) = WindowView(u1)
    BY <1>1, <1>3, <1>5, DeleteView
  <2>2. WindowView(u1) \in [OutKeys -> Row \cup {Absent}]
    BY <1>2, ViewType
  <2>3. CASE Executes(r)
    <3>1. bs = << Batch("delete", Execute(old)), Batch("insert", Execute(r)) >>
      <4>1. DeleteSends(old) = << Batch("delete", Execute(old)) >>
        BY <1>5 DEF DeleteSends
      <4>2. InsertSends(r) = << Batch("insert", Execute(r)) >>
        BY <2>3 DEF InsertSends
      <4>3. << Batch("delete", Execute(old)) >> \o << Batch("insert", Execute(r)) >>
              = << Batch("delete", Execute(old)), Batch("insert", Execute(r)) >>
        BY ConcatPair
      <4> QED BY <1>5, <4>1, <4>2, <4>3
    <3>2. /\ ~Rejects(WindowView(u1), Batch("insert", Execute(r)))
          /\ ApplyBatch(WindowView(u1), Batch("insert", Execute(r))) = WindowView(u2)
      BY <1>2, <2>3, InsertView
    <3>3. Deliver(down, bs) = [tbl |-> WindowView(u2), rejected |-> FALSE]
      <4> DEFINE b1 == Batch("delete", Execute(old))
                 b2 == Batch("insert", Execute(r))
      <4>1. ~Rejects(down, b1) /\ ~Rejects(ApplyBatch(down, b1), b2)
        BY <1>1, <2>1, <3>2
      <4>2. Deliver(down, << b1, b2 >>)
              = [tbl |-> ApplyBatch(ApplyBatch(down, b1), b2), rejected |-> FALSE]
        BY <4>1, DeliverTwo
      <4>3. ApplyBatch(ApplyBatch(down, b1), b2) = WindowView(u2)
        BY <1>1, <2>1, <3>2
      <4> QED BY <3>1, <4>2, <4>3
    <3>4. WindowView(u2) \in [OutKeys -> Row \cup {Absent}]
      BY <1>2, ViewType
    <3> QED BY <1>2, <1>3, <1>4, <3>3, <3>4, CallStep
  <2>4. CASE ~Executes(r)
    <3>1. bs = << Batch("delete", Execute(old)) >>
      BY <1>5, <2>4 DEF DeleteSends, InsertSends
    <3>2. Deliver(down, bs) = [tbl |-> WindowView(u1), rejected |-> FALSE]
      BY <1>1, <2>1, <3>1, DeliverOne
    <3>3. ~ok
      BY <2>4
    <3> QED BY <1>2, <1>3, <1>4, <2>2, <3>2, <3>3, CallStep
  <2> QED BY <2>3, <2>4
<1>6. CASE ~Executes(old)
  <2>1. Deliver(down, bs) = [tbl |-> down, rejected |-> FALSE]
    BY <1>6, DeliverNone
  <2> QED BY <1>1, <1>2, <1>3, <1>4, <1>6, <2>1, CallStep
<1> QED BY <1>5, <1>6

(* BatchInsert{new} (process, processor.rs 73-86): every row is executed *)
(* before the one batch is sent.                                           *)
LEMMA BatchInsertStep ==
    ASSUME IInv, ErrorThreshold = 0, NEW rs \in SUBSET Row, ProcessBatchInsert(rs)
    PROVE  IInv'
<1> DEFINE ok == \A r \in rs : Executes(r)
           u2 == BatchTable(upstream, rs)
           bs == IF ok THEN << Batch("insert", ExecuteAll(rs)) >> ELSE << >>
<1>1. /\ upstream \in UTable /\ KeysMatch(upstream)
      /\ down = WindowView(upstream)
      /\ down \in [OutKeys -> Row \cup {Absent}]
  BY Running DEF ProcessBatchInsert, Deliverable
<1>2. /\ \A r \in rs : upstream[r.key] = Absent
      /\ \A r1, r2 \in rs : r1.key = r2.key => r1 = r2
      /\ Deliverable(u2) /\ Send(bs, ok)
  BY DEF ProcessBatchInsert, BatchTable
<1>3. u2 \in UTable /\ KeysMatch(u2)
  <2>1. ASSUME NEW k \in Keys, \E r \in rs : r.key = k
        PROVE  u2[k] \in Row /\ u2[k].key = k
    BY <2>1 DEF BatchTable
  <2>2. ASSUME NEW k \in Keys, ~\E r \in rs : r.key = k
        PROVE  u2[k] = upstream[k]
    BY <2>2 DEF BatchTable
  <2> QED BY <1>1, <2>1, <2>2 DEF UTable, KeysMatch, BatchTable
<1>4. ok \in BOOLEAN
  OBVIOUS
<1>5. CASE ok
  <2>1. /\ ~Rejects(WindowView(upstream), Batch("insert", ExecuteAll(rs)))
        /\ ApplyBatch(WindowView(upstream), Batch("insert", ExecuteAll(rs))) = WindowView(u2)
    BY <1>1, <1>2, <1>5, BatchView
  <2>2. Deliver(down, bs) = [tbl |-> WindowView(u2), rejected |-> FALSE]
    BY <1>1, <1>5, <2>1, DeliverOne
  <2>3. WindowView(u2) \in [OutKeys -> Row \cup {Absent}]
    BY <1>3, ViewType
  <2> QED BY <1>2, <1>3, <1>4, <2>2, <2>3, CallStep
<1>6. CASE ~ok
  <2>1. Deliver(down, bs) = [tbl |-> down, rejected |-> FALSE]
    BY <1>6, DeliverNone
  <2> QED BY <1>1, <1>2, <1>3, <1>4, <1>6, <2>1, CallStep
<1> QED BY <1>5, <1>6

-----------------------------------------------------------------------------
(* The initial state: both tables empty, the node running.                 *)
LEMMA InitIInv == Init => IInv
<1> SUFFICES ASSUME Init PROVE IInv
  OBVIOUS
<1>1. TypeOK
  <2>1. upstream \in [Keys -> Row \cup {Absent}] /\ down \in [OutKeys -> Row \cup {Absent}]
    BY DEF Init
  <2>2. rejected \in BOOLEAN /\ status \in {"running", "failed"}
    BY Zenon DEF Init
  <2>3. errors \in Nat /\ ops \in 0..MaxOps
    BY WindowAssumption DEF Init
  <2> QED BY <2>1, <2>2, <2>3 DEF TypeOK
<1>2. down = WindowView(upstream)
  BY DEF Init, WindowView, OutKeys
<1> QED BY <1>1, <1>2 DEF Init, IInv, KeysMatch

(* Every step keeps the invariant: a call of a running node by the lemmas *)
(* above; a halted node takes no step.                                     *)
LEMMA NextIInv ==
    ASSUME ErrorThreshold = 0
    PROVE  IInv /\ [Next]_vars => IInv'
<1> SUFFICES ASSUME IInv, [Next]_vars PROVE IInv'
  OBVIOUS
<1>1. CASE \E k \in Keys : ProcessDelete(k)
  BY <1>1, DeleteStep
<1>2. CASE \E r \in Row : ProcessInsert(r)
  BY <1>2, InsertStep
<1>3. CASE \E k \in Keys, r \in Row : ProcessUpdate(k, r)
  BY <1>3, UpdateStep
<1>4. CASE \E rs \in SUBSET Row : ProcessBatchInsert(rs)
  BY <1>4, BatchInsertStep
<1>5. CASE UNCHANGED vars
  BY <1>5 DEF IInv, TypeOK, KeysMatch, vars
<1> QED BY <1>1, <1>2, <1>3, <1>4, <1>5 DEF Next

(* Under the halting policy the invariant holds in every reachable state. *)
THEOREM WindowIInvInvariant ==
    ASSUME ErrorThreshold = 0
    PROVE  Spec => []IInv
<1>1. Init => IInv
  BY InitIInv
<1>2. IInv /\ [Next]_vars => IInv'
  BY NextIInv
<1> QED BY <1>1, <1>2, PTL DEF Spec

(* The window never sends the downstream table an insert of an output row *)
(* it holds or a delete of one it lacks, whatever the order of Delete,     *)
(* Insert, Update and BatchInsert upstream, for every window strategy      *)
(* (WindowProcessor::process, processor.rs 29-89, under the executor's     *)
(* halting error policy).                                                  *)
THEOREM DownstreamNeverRejectsInvariant ==
    ASSUME ErrorThreshold = 0
    PROVE  Spec => []DownstreamNeverRejects
<1>1. IInv => DownstreamNeverRejects
  BY DEF IInv, DownstreamNeverRejects
<1> QED BY <1>1, WindowIInvInvariant, PTL

(* While the window node runs, the downstream table is the window view of *)
(* the upstream table (WindowProcessor::process, processor.rs 29-89,       *)
(* under the executor's halting error policy).                             *)
THEOREM WindowViewMaintainedInvariant ==
    ASSUME ErrorThreshold = 0
    PROVE  Spec => []WindowViewMaintained
<1>1. IInv => WindowViewMaintained
  BY DEF IInv, WindowViewMaintained
<1> QED BY <1>1, WindowIInvInvariant, PTL

=============================================================================
