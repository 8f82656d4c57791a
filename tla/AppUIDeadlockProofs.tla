------------------------- MODULE AppUIDeadlockProofs -------------------------
(***************************************************************************)
(* Proof that the app UI's handler tasks never deadlock on the three      *)
(* RwLocks of AppUIState (state.rs), for any number of tasks, runs and    *)
(* calls.                                                                  *)
(*                                                                         *)
(* NoDeadlock is not inductive: it says nothing of who holds what.  The   *)
(* argument rests on the lock order of the handlers: at each await point  *)
(* a task holds only locks that come before the one it awaits (dozer,     *)
(* then run_thread, then error_message), and it waits in the queue of     *)
(* that lock alone, once, and not while holding it (LockDiscipline).     *)
(* Then the holder that blocks the head of the queue of the last lock    *)
(* with waiters is a task that waits on a later lock, whose queue is     *)
(* empty: it is not waiting, so it can go on.                             *)
(***************************************************************************)
EXTENDS AppUIStateProofs

(* The tasks waiting in a queue of <<task, mode>> requests.               *)
QueuedTasks(q) == {q[i][1] : i \in 1..Len(q)}

(* No task waits twice in q.                                               *)
NoDupTasks(q) == \A i, j \in 1..Len(q) : q[i][1] = q[j][1] => i = j

(* t waits in the queue of l.                                              *)
InQueue(t, l) == t \in QueuedTasks(lk[l].queue)

(* The lock a task at await point p is suspended on, or "none".           *)
AwaitedLock(p) ==
    IF p \in {"b_init", "g_run", "c_make", "c_get", "r_check"} THEN "dozer"
    ELSE IF p \in {"g_msg", "s_take", "r_reg"} THEN "run_thread"
    ELSE IF p \in {"b_msg", "g_done"} THEN "error_message"
    ELSE "none"

(* The locks a task at await point p in call c has been granted before   *)
(* the one it awaits.                                                      *)
Owned(p, c) ==
    IF p \in {"b_msg", "g_msg", "r_spawn", "r_reg"} THEN {"dozer"}
    ELSE IF p = "g_done" THEN {"dozer", "run_thread"}
    ELSE IF p = "s_take" /\ c = "run" THEN {"dozer"}
    ELSE {}

(* The order in which the handlers take the locks.                        *)
Rank == [l \in Locks |-> IF l = "dozer" THEN 1
                         ELSE IF l = "run_thread" THEN 2 ELSE 3]

LockDiscipline ==
    /\ \A t \in Tasks, l \in Locks :
          Holds(t, l) => l \in Owned(pc[t], call[t]) \cup {AwaitedLock(pc[t])}
    /\ \A t \in Tasks, l \in Locks :
          InQueue(t, l) => l = AwaitedLock(pc[t]) /\ ~Holds(t, l)
    /\ \A l \in Locks : NoDupTasks(lk[l].queue)
    /\ \A t \in Tasks : pc[t] = "r_check" => call[t] = "run"

DInv == TypeOK /\ LockDiscipline

-----------------------------------------------------------------------------
(* The queue of a lock under read().await / write().await and Grant.       *)

Request == Tasks \X Modes

(* A request appended to a queue adds its task to the waiting ones, and   *)
(* keeps them distinct when the task was not already waiting.             *)
LEMMA QueueAppend ==
    ASSUME NEW q \in Seq(Request), NEW e \in Request
    PROVE  /\ QueuedTasks(Append(q, e)) = QueuedTasks(q) \cup {e[1]}
           /\ NoDupTasks(q) /\ e[1] \notin QueuedTasks(q) => NoDupTasks(Append(q, e))
<1>1. QueuedTasks(Append(q, e)) = QueuedTasks(q) \cup {e[1]}
  BY DEF QueuedTasks
<1>2. ASSUME NoDupTasks(q), e[1] \notin QueuedTasks(q) PROVE NoDupTasks(Append(q, e))
  BY <1>2 DEF NoDupTasks, QueuedTasks
<1>. QED
  BY <1>1, <1>2

(* Granting the head of a queue with no task twice removes that task from *)
(* the waiting ones and keeps the rest distinct.                           *)
LEMMA QueueTail ==
    ASSUME NEW q \in Seq(Request), q # << >>, NoDupTasks(q)
    PROVE  /\ QueuedTasks(Tail(q)) = QueuedTasks(q) \ {Head(q)[1]}
           /\ NoDupTasks(Tail(q))
<1>1. QueuedTasks(Tail(q)) \subseteq QueuedTasks(q) \ {Head(q)[1]}
  BY DEF QueuedTasks, NoDupTasks
<1>2. QueuedTasks(q) \ {Head(q)[1]} \subseteq QueuedTasks(Tail(q))
  <2> SUFFICES ASSUME NEW i \in 1..Len(q), q[i][1] # Head(q)[1]
               PROVE  q[i][1] \in QueuedTasks(Tail(q))
    BY DEF QueuedTasks
  <2>1. i - 1 \in 1..Len(Tail(q)) /\ Tail(q)[i - 1] = q[i]
    BY DEF QueuedTasks
  <2>. QED
    BY <2>1 DEF QueuedTasks
<1>3. NoDupTasks(Tail(q))
  BY DEF NoDupTasks
<1>. QED
  BY <1>1, <1>2, <1>3

(* AddHolder makes t a holder and touches no other holder or the queue.    *)
LEMMA AddHolderEffect ==
    ASSUME NEW s \in LockState, NEW t \in Tasks, NEW m \in Modes
    PROVE  /\ AddHolder(s, t, m).queue = s.queue
           /\ AddHolder(s, t, m).readers \subseteq s.readers \cup {t}
           /\ AddHolder(s, t, m).writer \in {s.writer, t}
<1>1. CASE m = "read"
  BY <1>1, Zenon DEF AddHolder, LockState
<1>2. CASE m = "write"
  BY <1>2, Zenon DEF AddHolder, LockState
<1>. QED
  BY <1>1, <1>2 DEF Modes

(* Dropping the guards of t on ls leaves every queue alone, takes no lock *)
(* for anyone, and leaves t holding none of ls.                            *)
LEMMA ReleaseEffect ==
    ASSUME lk \in [Locks -> LockState], NEW t \in Tasks, NEW ls \in SUBSET Locks,
           Release(t, ls)
    PROVE  /\ \A k \in Locks : lk'[k].queue = lk[k].queue
           /\ \A u \in Tasks, k \in Locks :
                 Holds(u, k)' => Holds(u, k) /\ (u = t => k \notin ls)
<1>1. ASSUME NEW k \in Locks, k \in ls
      PROVE  /\ lk'[k].queue = lk[k].queue
             /\ lk'[k].readers = lk[k].readers \ {t}
             /\ lk'[k].writer = IF lk[k].writer = t THEN NoTask ELSE lk[k].writer
  BY <1>1, Zenon DEF Release, LockState
<1>2. ASSUME NEW k \in Locks, k \notin ls PROVE lk'[k] = lk[k]
  BY <1>2 DEF Release
<1>. QED
  BY <1>1, <1>2, AppUIAssumption DEF Holds

(* read().await / write().await by t on l touches l alone: either t joins *)
(* the holders and the queue stays, or t joins the queue and the holders  *)
(* stay; nobody else gains l.                                              *)
LEMMA LockEffect ==
    ASSUME lk \in [Locks -> LockState], NEW t \in Tasks, NEW l \in Locks,
           NEW m \in Modes, Lock(t, l, m)
    PROVE  /\ \A k \in Locks \ {l} : lk'[k] = lk[k]
           /\ \A u \in Tasks : Holds(u, l)' => Holds(u, l) \/ u = t
           /\ \/ lk'[l].queue = lk[l].queue
              \/ /\ lk'[l].queue = Append(lk[l].queue, <<t, m>>)
                 /\ \A u \in Tasks : Holds(u, l)' <=> Holds(u, l)
<1>1. ASSUME NEW k \in Locks \ {l} PROVE lk'[k] = lk[k]
  BY DEF Lock
<1>2. CASE lk[l].queue = << >> /\ Compatible(l, m)
  <2>1. lk'[l] = AddHolder(lk[l], t, m)
    BY <1>2 DEF Lock
  <2>2. /\ lk'[l].queue = lk[l].queue
        /\ lk'[l].readers \subseteq lk[l].readers \cup {t}
        /\ lk'[l].writer \in {lk[l].writer, t}
    BY <2>1, AddHolderEffect
  <2>. QED
    BY <1>1, <2>2 DEF Holds
<1>3. CASE ~(lk[l].queue = << >> /\ Compatible(l, m))
  <2>1. lk'[l] = [lk[l] EXCEPT !.queue = Append(@, <<t, m>>)]
    BY <1>3 DEF Lock
  <2>2. /\ lk'[l].queue = Append(lk[l].queue, <<t, m>>)
        /\ lk'[l].readers = lk[l].readers
        /\ lk'[l].writer = lk[l].writer
    BY <2>1, Zenon DEF LockState
  <2>. QED
    BY <1>1, <2>2 DEF Holds
<1>. QED
  BY <1>2, <1>3

(* Grant hands l to the head of its queue: it leaves the queue and joins *)
(* the holders; the other locks, and the other holders, stay.             *)
LEMMA GrantEffect ==
    ASSUME lk \in [Locks -> LockState], NEW l \in Locks, Grant(l)
    PROVE  /\ lk[l].queue # << >>
           /\ \A k \in Locks \ {l} : lk'[k] = lk[k]
           /\ lk'[l].queue = Tail(lk[l].queue)
           /\ \A u \in Tasks : Holds(u, l)' => Holds(u, l) \/ u = Head(lk[l].queue)[1]
<1>. DEFINE q == lk[l].queue
<1>1. q # << >> /\ Head(q) \in Request
  BY DEF Grant, LockState, Request
<1>2. lk'[l] = [AddHolder(lk[l], Head(q)[1], Head(q)[2]) EXCEPT !.queue = Tail(q)]
  BY DEF Grant
<1>. DEFINE a == AddHolder(lk[l], Head(q)[1], Head(q)[2])
<1>3. a \in LockState
  BY <1>1, AddHolderType DEF Request
<1>4. /\ lk'[l].queue = Tail(q)
      /\ lk'[l].readers = a.readers
      /\ lk'[l].writer = a.writer
  BY <1>2, <1>3, Zenon DEF LockState
<1>5. /\ a.readers \subseteq lk[l].readers \cup {Head(q)[1]}
      /\ a.writer \in {lk[l].writer, Head(q)[1]}
  BY <1>1, AddHolderEffect DEF Request
<1>. QED
  BY <1>1, <1>4, <1>5 DEF Grant, Holds

-----------------------------------------------------------------------------
(* The steps of a task.                                                    *)

(* A task that holds the lock it awaited, or awaits none, waits nowhere.  *)
LEMMA NotQueued ==
    ASSUME LockDiscipline, NEW t \in Tasks,
           AwaitedLock(pc[t]) \notin Locks \/ Holds(t, AwaitedLock(pc[t]))
    PROVE  \A k \in Locks : ~InQueue(t, k)
BY DEF LockDiscipline

(* t, past its await, requests lock l and moves to await point next (in   *)
(* call c2), where l is the lock awaited; the locks it had are among      *)
(* those next owns, and it did not have l.                                 *)
LEMMA LockMove ==
    ASSUME TypeOK, LockDiscipline, NEW t \in Tasks, NEW l \in Locks, NEW m \in Modes,
           NEW next, NEW c2,
           Lock(t, l, m), pc' = [pc EXCEPT ![t] = next], call' = [call EXCEPT ![t] = c2],
           AwaitedLock(pc[t]) \notin Locks \/ Holds(t, AwaitedLock(pc[t])),
           l = AwaitedLock(next),
           l \notin Owned(pc[t], call[t]) \cup {AwaitedLock(pc[t])},
           (Owned(pc[t], call[t]) \cup {AwaitedLock(pc[t])}) \cap Locks \subseteq Owned(next, c2),
           next = "r_check" => c2 = "run"
    PROVE  LockDiscipline'
<1>0. lk \in [Locks -> LockState] /\ pc \in [Tasks -> PC] /\ call \in [Tasks -> Calls \cup {"none"}]
  BY DEF TypeOK, PC
<1>1. \A k \in Locks : ~InQueue(t, k)
  BY NotQueued
<1>2. ~Holds(t, l)
  BY DEF LockDiscipline
<1>3. /\ \A k \in Locks \ {l} : lk'[k] = lk[k]
      /\ \A u \in Tasks : Holds(u, l)' => Holds(u, l) \/ u = t
      /\ \/ lk'[l].queue = lk[l].queue
         \/ /\ lk'[l].queue = Append(lk[l].queue, <<t, m>>)
            /\ \A u \in Tasks : Holds(u, l)' <=> Holds(u, l)
  BY <1>0, LockEffect, SMTT(30)
<1>4. lk[l].queue \in Seq(Request) /\ <<t, m>> \in Request
  BY <1>0 DEF LockState, Request
<1>5. ASSUME NEW u \in Tasks, NEW k \in Locks, Holds(u, k)'
      PROVE  k \in Owned(pc'[u], call'[u]) \cup {AwaitedLock(pc'[u])}
  <2>1. Holds(u, k) \/ (u = t /\ k = l)
    BY <1>3, <1>5 DEF Holds
  <2>2. CASE u = t
    BY <1>0, <2>1, <2>2 DEF LockDiscipline
  <2>3. CASE u # t
    BY <1>0, <2>1, <2>3 DEF LockDiscipline
  <2>. QED
    BY <2>2, <2>3
<1>6. ASSUME NEW u \in Tasks, NEW k \in Locks, InQueue(u, k)'
      PROVE  k = AwaitedLock(pc'[u]) /\ ~Holds(u, k)'
  <2>1. CASE k # l
    <3>1. InQueue(u, k) /\ (Holds(u, k)' <=> Holds(u, k))
      BY <1>3, <1>6, <2>1 DEF InQueue, Holds
    <3>. QED
      BY <1>0, <1>1, <3>1 DEF LockDiscipline
  <2>3. CASE k = l /\ lk'[l].queue = lk[l].queue
    <3>1. InQueue(u, l) /\ u # t
      BY <1>1, <1>6, <2>3 DEF InQueue
    <3>. QED
      BY <1>0, <1>3, <2>3, <3>1 DEF LockDiscipline
  <2>5. CASE k = l /\ lk'[l].queue = Append(lk[l].queue, <<t, m>>)
                   /\ \A v \in Tasks : Holds(v, l)' <=> Holds(v, l)
    <3>0. QueuedTasks(lk'[l].queue) = QueuedTasks(lk[l].queue) \cup {t}
      BY <1>4, <2>5, QueueAppend
    <3>1. u \in QueuedTasks(lk'[l].queue)
      BY <1>6, <2>5 DEF InQueue
    <3>2. InQueue(u, l) \/ u = t
      BY <3>0, <3>1 DEF InQueue
    <3>. QED
      BY <1>0, <1>1, <1>2, <2>5, <3>2 DEF LockDiscipline
  <2>. QED
    BY <1>3, <2>1, <2>3, <2>5
<1>7. ASSUME NEW k \in Locks PROVE NoDupTasks(lk'[k].queue)
  <2>1. t \notin QueuedTasks(lk[l].queue) /\ NoDupTasks(lk[l].queue)
    BY <1>1 DEF InQueue, LockDiscipline
  <2>2. CASE k # l
    BY <1>3, <2>2 DEF LockDiscipline
  <2>3. CASE k = l /\ lk'[l].queue = lk[l].queue
    BY <2>1, <2>3
  <2>4. CASE k = l /\ lk'[l].queue = Append(lk[l].queue, <<t, m>>)
    <3>1. NoDupTasks(Append(lk[l].queue, <<t, m>>))
      BY <1>4, <2>1, QueueAppend
    <3>. QED
      BY <2>4, <3>1
  <2>. QED
    BY <1>3, <2>2, <2>3, <2>4
<1>8. \A u \in Tasks : pc'[u] = "r_check" => call'[u] = "run"
  BY <1>0 DEF LockDiscipline
<1>. QED
  BY <1>5, <1>6, <1>7, <1>8 DEF LockDiscipline

(* t drops its guards on ls and moves to await point next (in call c2),   *)
(* or returns: every lock it keeps is one that next owns.                  *)
LEMMA ReleaseMove ==
    ASSUME TypeOK, LockDiscipline, NEW t \in Tasks, NEW ls \in SUBSET Locks,
           NEW next, NEW c2,
           Release(t, ls), pc' = [pc EXCEPT ![t] = next], call' = [call EXCEPT ![t] = c2],
           AwaitedLock(pc[t]) \notin Locks \/ Holds(t, AwaitedLock(pc[t])),
           ((Owned(pc[t], call[t]) \cup {AwaitedLock(pc[t])}) \cap Locks) \ ls
               \subseteq Owned(next, c2),
           next # "r_check"
    PROVE  LockDiscipline'
<1>0. lk \in [Locks -> LockState] /\ pc \in [Tasks -> PC] /\ call \in [Tasks -> Calls \cup {"none"}]
  BY DEF TypeOK, PC
<1>1. \A k \in Locks : ~InQueue(t, k)
  BY NotQueued
<1>2. /\ \A k \in Locks : lk'[k].queue = lk[k].queue
      /\ \A u \in Tasks, k \in Locks :
            Holds(u, k)' => Holds(u, k) /\ (u = t => k \notin ls)
  BY <1>0, ReleaseEffect
<1>3. ASSUME NEW u \in Tasks, NEW k \in Locks, Holds(u, k)'
      PROVE  k \in Owned(pc'[u], call'[u]) \cup {AwaitedLock(pc'[u])}
  <2>1. CASE u = t
    BY <1>0, <1>2, <1>3, <2>1 DEF LockDiscipline
  <2>2. CASE u # t
    BY <1>0, <1>2, <1>3, <2>2 DEF LockDiscipline
  <2>. QED
    BY <2>1, <2>2
<1>4. ASSUME NEW u \in Tasks, NEW k \in Locks, InQueue(u, k)'
      PROVE  k = AwaitedLock(pc'[u]) /\ ~Holds(u, k)'
  <2>1. InQueue(u, k) /\ u # t
    BY <1>1, <1>2, <1>4 DEF InQueue
  <2>. QED
    BY <1>0, <1>2, <2>1 DEF LockDiscipline
<1>5. \A k \in Locks : NoDupTasks(lk'[k].queue)
  BY <1>2 DEF LockDiscipline
<1>6. \A u \in Tasks : pc'[u] = "r_check" => call'[u] = "run"
  BY <1>0 DEF LockDiscipline
<1>. QED
  BY <1>3, <1>4, <1>5, <1>6 DEF LockDiscipline

(* Goto leaves t's call as it is.                                          *)
LEMMA GotoForm ==
    ASSUME TypeOK, NEW t \in Tasks, NEW next, Goto(t, next)
    PROVE  pc' = [pc EXCEPT ![t] = next] /\ call' = [call EXCEPT ![t] = call[t]]
BY DEF Goto, TypeOK

(* An idle task starting a call requests the lock of its first await.     *)
LEMMA StartDiscipline ==
    ASSUME TypeOK, LockDiscipline, NEW t \in Tasks, NEW c, NEW l \in Locks,
           NEW m \in Modes, NEW next, Begin(t, c, l, m, next),
           l = AwaitedLock(next), next = "r_check" => c = "run"
    PROVE  LockDiscipline'
<1>1. AwaitedLock(pc[t]) \notin Locks /\ Owned(pc[t], call[t]) = {}
  BY DEF Begin, AwaitedLock, Owned, Locks
<1>. QED
  BY <1>1, LockMove DEF Begin

(* build: init under the dozer write lock, then set_error_message.        *)
LEMMA BuildDiscipline ==
    ASSUME TypeOK, LockDiscipline, NEW t \in Tasks,
           BuildInit(t) \/ BuildSetMessage(t)
    PROVE  LockDiscipline'
<1>1. CASE BuildInit(t) /\ Release(t, {"dozer"}) /\ Return(t)
  BY <1>1, ReleaseMove DEF BuildInit, Return, AwaitedLock, Owned, Locks
<1>2. CASE BuildInit(t) /\ Lock(t, "error_message", "write") /\ Goto(t, "b_msg")
  BY <1>2, GotoForm, LockMove DEF BuildInit, AwaitedLock, Owned, Locks, Modes
<1>3. CASE BuildSetMessage(t)
  BY <1>3, ReleaseMove DEF BuildSetMessage, Return, AwaitedLock, Owned, Locks
<1>. QED
  BY <1>1, <1>2, <1>3 DEF BuildInit

(* get_current: dozer, run_thread and error_message in that order.        *)
LEMMA GetCurrentDiscipline ==
    ASSUME TypeOK, LockDiscipline, NEW t \in Tasks,
           GetCurrentRunning(t) \/ GetCurrentMessage(t) \/ GetCurrentDone(t)
    PROVE  LockDiscipline'
<1>1. CASE GetCurrentRunning(t)
  BY <1>1, GotoForm, LockMove DEF GetCurrentRunning, AwaitedLock, Owned, Locks, Modes
<1>2. CASE GetCurrentMessage(t)
  BY <1>2, GotoForm, LockMove DEF GetCurrentMessage, AwaitedLock, Owned, Locks, Modes
<1>3. CASE GetCurrentDone(t)
  BY <1>3, ReleaseMove DEF GetCurrentDone, Return, AwaitedLock, Owned, Locks
<1>. QED
  BY <1>1, <1>2, <1>3

(* The schema getters: the write lock is dropped before the read lock is  *)
(* requested.                                                               *)
LEMMA SchemasDiscipline ==
    ASSUME TypeOK, LockDiscipline, NEW t \in Tasks,
           SchemasMakeContract(t) \/ SchemasRead(t) \/ SchemasGet(t)
    PROVE  LockDiscipline'
<1>1. CASE SchemasMakeContract(t) /\ Goto(t, "c_read")
  BY <1>1, GotoForm, ReleaseMove DEF SchemasMakeContract, AwaitedLock, Owned, Locks
<1>2. CASE SchemasMakeContract(t) /\ Return(t)
  BY <1>2, ReleaseMove DEF SchemasMakeContract, Return, AwaitedLock, Owned, Locks
<1>3. CASE SchemasMakeContract(t)
  BY <1>1, <1>2, <1>3 DEF SchemasMakeContract
<1>4. CASE SchemasRead(t)
  BY <1>4, GotoForm, LockMove DEF SchemasRead, AwaitedLock, Owned, Locks, Modes
<1>5. CASE SchemasGet(t)
  BY <1>5, ReleaseMove DEF SchemasGet, Return, AwaitedLock, Owned, Locks
<1>. QED
  BY <1>3, <1>4, <1>5

(* run: check under the dozer read lock, stop (run_thread after dozer),   *)
(* spawn with run_thread dropped, register under run_thread again; stop   *)
(* on its own takes run_thread alone.                                      *)
LEMMA RunDiscipline ==
    ASSUME TypeOK, LockDiscipline, NEW t \in Tasks,
           RunCheck(t) \/ StopTake(t) \/ RunSpawn(t) \/ RunRegister(t)
    PROVE  LockDiscipline'
<1>1. CASE RunCheck(t) /\ Release(t, {"dozer"}) /\ Return(t)
  BY <1>1, ReleaseMove DEF RunCheck, Return, AwaitedLock, Owned, Locks
<1>2. CASE RunCheck(t) /\ Lock(t, "run_thread", "write") /\ Goto(t, "s_take")
  <2>1. call[t] = "run"
    BY <1>2 DEF RunCheck, LockDiscipline
  <2>. QED
    BY <1>2, <2>1, GotoForm, LockMove DEF RunCheck, AwaitedLock, Owned, Locks, Modes
<1>3. CASE StopTake(t) /\ Release(t, {"run_thread"}) /\ call[t] = "run"
           /\ Goto(t, "r_spawn")
  BY <1>3, GotoForm, ReleaseMove DEF StopTake, AwaitedLock, Owned, Locks
<1>4. CASE StopTake(t) /\ Release(t, {"run_thread"}) /\ call[t] # "run"
           /\ Return(t)
  BY <1>4, ReleaseMove DEF StopTake, Return, AwaitedLock, Owned, Locks
<1>5. CASE StopTake(t) /\ Release(t, {"run_thread", "dozer"}) /\ Return(t)
  BY <1>5, ReleaseMove DEF StopTake, Return, AwaitedLock, Owned, Locks
<1>6. CASE StopTake(t)
  BY <1>3, <1>4, <1>5, <1>6 DEF StopTake, AfterStop
<1>7. CASE RunSpawn(t) /\ RunFails(t)
  BY <1>7, ReleaseMove DEF RunSpawn, RunFails, Return, AwaitedLock, Owned, Locks
<1>8. CASE RunSpawn(t) /\ \E p \in Pipes : SpawnPipeline(t, p)
  <2>1. pc[t] = "r_spawn" /\ Lock(t, "run_thread", "write") /\ Goto(t, "r_reg")
    BY <1>8 DEF RunSpawn, SpawnPipeline
  <2>2. pc' = [pc EXCEPT ![t] = "r_reg"] /\ call' = [call EXCEPT ![t] = call[t]]
    BY <2>1, GotoForm
  <2>. QED
    BY <2>1, <2>2, LockMove DEF AwaitedLock, Owned, Locks, Modes
<1>9. CASE RunRegister(t)
  BY <1>9, ReleaseMove DEF RunRegister, Return, AwaitedLock, Owned, Locks
<1>. QED
  BY <1>1, <1>2, <1>6, <1>7, <1>8, <1>9 DEF RunCheck, RunSpawn

(* The semaphore grants the head of a queue the lock it awaits.            *)
LEMMA GrantDiscipline ==
    ASSUME TypeOK, LockDiscipline, NEW l \in Locks, Grant(l)
    PROVE  LockDiscipline'
<1>. DEFINE q == lk[l].queue
            h == Head(q)[1]
<1>0. lk \in [Locks -> LockState] /\ UNCHANGED <<pc, call>>
  BY DEF TypeOK, Grant
<1>1. /\ q # << >>
      /\ \A k \in Locks \ {l} : lk'[k] = lk[k]
      /\ lk'[l].queue = Tail(q)
      /\ \A u \in Tasks : Holds(u, l)' => Holds(u, l) \/ u = h
  BY <1>0, GrantEffect
<1>2. q \in Seq(Request) /\ NoDupTasks(q)
  BY <1>0 DEF LockState, Request, LockDiscipline
<1>3. QueuedTasks(Tail(q)) = QueuedTasks(q) \ {h} /\ NoDupTasks(Tail(q))
  BY <1>1, <1>2, QueueTail
<1>4. h \in Tasks /\ InQueue(h, l)
  <2>1. h = q[1][1] /\ 1 \in 1..Len(q)
    BY <1>1, <1>2
  <2>. QED
    BY <1>2, <2>1 DEF QueuedTasks, InQueue, Request
<1>5. ASSUME NEW u \in Tasks, NEW k \in Locks, Holds(u, k)'
      PROVE  k \in Owned(pc'[u], call'[u]) \cup {AwaitedLock(pc'[u])}
  <2>1. Holds(u, k) \/ (k = l /\ u = h)
    BY <1>1, <1>5 DEF Holds
  <2>. QED
    BY <1>0, <1>4, <2>1 DEF LockDiscipline
<1>6. ASSUME NEW u \in Tasks, NEW k \in Locks, InQueue(u, k)'
      PROVE  k = AwaitedLock(pc'[u]) /\ ~Holds(u, k)'
  <2>1. CASE k # l
    BY <1>0, <1>1, <1>6, <2>1 DEF InQueue, Holds, LockDiscipline
  <2>2. CASE k = l
    <3>1. InQueue(u, l) /\ u # h
      BY <1>1, <1>3, <1>6, <2>2 DEF InQueue
    <3>. QED
      BY <1>0, <1>1, <2>2, <3>1 DEF LockDiscipline
  <2>. QED
    BY <2>1, <2>2
<1>7. \A k \in Locks : NoDupTasks(lk'[k].queue)
  BY <1>1, <1>3 DEF LockDiscipline
<1>8. \A u \in Tasks : pc'[u] = "r_check" => call'[u] = "run"
  BY <1>0 DEF LockDiscipline
<1>. QED
  BY <1>5, <1>6, <1>7, <1>8 DEF LockDiscipline

LEMMA NextDiscipline ==
    ASSUME TypeOK, LockDiscipline, [Next]_vars PROVE LockDiscipline'
<1>1. ASSUME NEW t \in Tasks, TaskStep(t) PROVE LockDiscipline'
  <2>1. CASE BuildStart(t)
    BY <2>1, StartDiscipline DEF BuildStart, AwaitedLock, Locks, Modes
  <2>2. CASE GetCurrentStart(t)
    BY <2>2, StartDiscipline DEF GetCurrentStart, AwaitedLock, Locks, Modes
  <2>3. CASE SchemasStart(t)
    BY <2>3, StartDiscipline DEF SchemasStart, AwaitedLock, Locks, Modes
  <2>4. CASE RunStart(t)
    BY <2>4, StartDiscipline DEF RunStart, AwaitedLock, Locks, Modes
  <2>5. CASE StopStart(t)
    BY <2>5, StartDiscipline DEF StopStart, AwaitedLock, Locks, Modes
  <2>. QED
    BY <1>1, <2>1, <2>2, <2>3, <2>4, <2>5, BuildDiscipline, GetCurrentDiscipline,
       SchemasDiscipline, RunDiscipline DEF TaskStep
<1>2. ASSUME NEW l \in Locks, Grant(l) PROVE LockDiscipline'
  BY <1>2, GrantDiscipline
<1>3. ASSUME NEW p \in Pipes, PipelineStops(p) \/ PipelinePanics(p) PROVE LockDiscipline'
  <2>1. UNCHANGED <<lk, pc, call>>
    BY <1>3 DEF PipelineStops, PipelinePanics
  <2>. QED
    BY <2>1 DEF LockDiscipline, InQueue, QueuedTasks, Holds
<1>4. CASE UNCHANGED vars
  BY <1>4 DEF vars, LockDiscipline, InQueue, QueuedTasks, Holds
<1>. QED
  BY <1>1, <1>2, <1>3, <1>4 DEF Next

LEMMA InitDiscipline == Init => LockDiscipline
<1> SUFFICES ASSUME Init PROVE LockDiscipline
  OBVIOUS
<1>1. \A t \in Tasks, l \in Locks : ~Holds(t, l) /\ ~InQueue(t, l)
  BY AppUIAssumption DEF Init, Holds, InQueue, QueuedTasks
<1>. QED
  BY <1>1 DEF Init, LockDiscipline, NoDupTasks

(* The handlers keep to the lock order in every reachable state: a task   *)
(* holds only locks that come before the one it awaits and waits for that *)
(* one alone, whatever the interleaving of tasks, grants and pipelines.   *)
THEOREM LockDisciplineInvariant == Spec => [](IInv /\ LockDiscipline)
<1>1. Init => IInv /\ LockDiscipline
  BY InitIInv, InitDiscipline
<1>2. IInv /\ LockDiscipline /\ [Next]_vars => IInv' /\ LockDiscipline'
  BY NextIInv, NextDiscipline DEF IInv
<1>. QED
  BY <1>1, <1>2, PTL DEF Spec

-----------------------------------------------------------------------------
(* No deadlock.                                                             *)

(* When every task in flight waits, a queue whose head cannot be granted  *)
(* is blocked by a holder that waits on a later lock, whose queue is not  *)
(* empty.                                                                   *)
LEMMA BlockedByLater ==
    ASSUME TypeOK, LockDiscipline, \A t \in Busy : Waiting(t),
           NEW l \in Locks, lk[l].queue # << >>,
           ~Compatible(l, Head(lk[l].queue)[2])
    PROVE  \E l2 \in Locks : Rank[l2] > Rank[l] /\ lk[l2].queue # << >>
<1>0. lk[l] \in LockState /\ pc \in [Tasks -> PC]
  BY DEF TypeOK, PC
<1>1. PICK h \in Tasks : Holds(h, l)
  <2>1. lk[l].writer # NoTask \/ lk[l].readers # {}
    BY DEF Compatible
  <2>. QED
    BY <1>0, <2>1 DEF LockState, Holds
<1>2. h \in Busy
  <2>1. l \in Owned(pc[h], call[h]) \cup {AwaitedLock(pc[h])}
    BY <1>1 DEF LockDiscipline
  <2>. QED
    BY <1>0, <2>1 DEF Busy, Owned, AwaitedLock, Locks
<1>3. PICK l2 \in Locks : InQueue(h, l2)
  BY <1>2 DEF Waiting, InQueue, QueuedTasks
<1>4. l2 = AwaitedLock(pc[h]) /\ ~Holds(h, l2)
  BY <1>3 DEF LockDiscipline
<1>5. l \in Owned(pc[h], call[h])
  BY <1>1, <1>4 DEF LockDiscipline
<1>6. Rank[l] < Rank[l2]
  BY <1>0, <1>4, <1>5 DEF Owned, AwaitedLock, Rank, Locks, PC
<1>7. lk[l2].queue # << >>
  BY <1>3 DEF InQueue, QueuedTasks
<1>. QED
  BY <1>6, <1>7

(* NoDeadlock follows from the lock discipline: going down the lock order *)
(* from error_message, each queue is empty, so no task in flight waits.   *)
LEMMA DisciplineNoDeadlock == TypeOK /\ LockDiscipline => NoDeadlock
<1> SUFFICES ASSUME TypeOK, LockDiscipline, Busy # {},
                    \A t \in Busy : Waiting(t),
                    \A l \in Locks : ~(lk[l].queue # << >> /\ Compatible(l, Head(lk[l].queue)[2]))
             PROVE  FALSE
  BY DEF NoDeadlock
<1>1. lk["error_message"].queue = << >>
  <2> SUFFICES ASSUME lk["error_message"].queue # << >> PROVE FALSE
    OBVIOUS
  <2>1. \E l2 \in Locks : Rank[l2] > Rank["error_message"] /\ lk[l2].queue # << >>
    BY BlockedByLater DEF Locks
  <2>. QED
    BY <2>1 DEF Rank, Locks
<1>2. lk["run_thread"].queue = << >>
  <2> SUFFICES ASSUME lk["run_thread"].queue # << >> PROVE FALSE
    OBVIOUS
  <2>1. \E l2 \in Locks : Rank[l2] > Rank["run_thread"] /\ lk[l2].queue # << >>
    BY BlockedByLater DEF Locks
  <2>. QED
    BY <1>1, <2>1 DEF Rank, Locks
<1>3. lk["dozer"].queue = << >>
  <2> SUFFICES ASSUME lk["dozer"].queue # << >> PROVE FALSE
    OBVIOUS
  <2>1. \E l2 \in Locks : Rank[l2] > Rank["dozer"] /\ lk[l2].queue # << >>
    BY BlockedByLater DEF Locks
  <2>. QED
    BY <1>1, <2>1, <1>2 DEF Rank, Locks
<1>4. PICK t \in Busy : Waiting(t)
  OBVIOUS
<1>. QED
  BY <1>1, <1>2, <1>3, <1>4 DEF Waiting, Locks

(* The app UI's handlers never deadlock on its three RwLocks (state.rs    *)
(* build, run, stop, get_current and the schema getters): while a call is *)
(* in flight, some task can go on or the head of some queue can be        *)
(* granted, for any number of tasks, runs and calls.                      *)
THEOREM NoDeadlockInvariant == Spec => []NoDeadlock
<1>1. IInv /\ LockDiscipline => NoDeadlock
  BY DisciplineNoDeadlock DEF IInv
<1>. QED
  BY <1>1, LockDisciplineInvariant, PTL

=============================================================================
