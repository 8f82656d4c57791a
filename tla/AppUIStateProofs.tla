-------------------------- MODULE AppUIStateProofs --------------------------
(***************************************************************************)
(* Proofs about the app-UI state: the type invariant, and that no        *)
(* pipeline thread is left running without a way to stop it, for any     *)
(* number of handler tasks, pipeline runs and calls.                      *)
(*                                                                         *)
(* NoOrphanPipeline is not inductive alone: RunSpawn overwrites the       *)
(* task's spawned slot, which is harmless only because a task holds a     *)
(* spawned pipeline just while it is at r_reg, waiting to register it     *)
(* (SpawnedPending).                                                       *)
(***************************************************************************)
EXTENDS AppUIState, TLAPS

(* A task holds a spawned, unregistered pipeline only between RunSpawn    *)
(* and RunRegister.                                                        *)
SpawnedPending == \A t \in Tasks : spawned[t] # NoPipe => pc[t] = "r_reg"

IInv == TypeOK /\ SpawnedPending /\ NoOrphanPipeline

-----------------------------------------------------------------------------
(* The lock operators keep every lock a LockState.                         *)

(* A lock state with its readers, its writer or its queue replaced.       *)
LEMMA LockStateExcept ==
    ASSUME NEW s \in LockState
    PROVE  /\ \A r \in SUBSET Tasks : [s EXCEPT !.readers = r] \in LockState
           /\ \A w \in Tasks \cup {NoTask} : [s EXCEPT !.writer = w] \in LockState
           /\ \A q \in Seq(Tasks \X Modes) : [s EXCEPT !.queue = q] \in LockState
BY Zenon DEF LockState

LEMMA AddHolderType ==
    ASSUME NEW s \in LockState, NEW t \in Tasks, NEW m \in Modes
    PROVE  AddHolder(s, t, m) \in LockState
<1>1. s.readers \cup {t} \in SUBSET Tasks
  BY DEF LockState
<1>. QED
  BY <1>1, LockStateExcept DEF AddHolder

LEMMA LockType ==
    ASSUME lk \in [Locks -> LockState], NEW t \in Tasks, NEW l \in Locks,
           NEW m \in Modes, Lock(t, l, m)
    PROVE  lk' \in [Locks -> LockState]
<1>1. Append(lk[l].queue, <<t, m>>) \in Seq(Tasks \X Modes)
  BY DEF LockState
<1>2. [lk[l] EXCEPT !.queue = Append(@, <<t, m>>)] \in LockState
  BY <1>1, LockStateExcept
<1>3. AddHolder(lk[l], t, m) \in LockState
  BY AddHolderType
<1>. QED
  BY <1>2, <1>3 DEF Lock

LEMMA ReleaseType ==
    ASSUME lk \in [Locks -> LockState], NEW t \in Tasks, NEW ls \in SUBSET Locks,
           Release(t, ls)
    PROVE  lk' \in [Locks -> LockState]
<1>1. ASSUME NEW l \in Locks
      PROVE  [lk[l] EXCEPT !.readers = @ \ {t},
                           !.writer = IF @ = t THEN NoTask ELSE @] \in LockState
  <2>0. lk[l] \in LockState
    OBVIOUS
  <2>1. lk[l].readers \ {t} \in SUBSET Tasks
    BY <2>0 DEF LockState
  <2>2. (IF lk[l].writer = t THEN NoTask ELSE lk[l].writer) \in Tasks \cup {NoTask}
    BY <2>0 DEF LockState
  <2>. QED
    BY <2>0, <2>1, <2>2, Zenon DEF LockState
<1>. QED
  BY <1>1 DEF Release

LEMMA GrantType ==
    ASSUME lk \in [Locks -> LockState], NEW l \in Locks, Grant(l)
    PROVE  lk' \in [Locks -> LockState]
<1>. DEFINE q == lk[l].queue
<1>1. q \in Seq(Tasks \X Modes) /\ q # << >>
  BY DEF Grant, LockState
<1>2. Head(q) \in Tasks \X Modes /\ Tail(q) \in Seq(Tasks \X Modes)
  BY <1>1
<1>3. AddHolder(lk[l], Head(q)[1], Head(q)[2]) \in LockState
  BY <1>2, AddHolderType
<1>4. [AddHolder(lk[l], Head(q)[1], Head(q)[2]) EXCEPT !.queue = Tail(q)] \in LockState
  BY <1>2, <1>3, LockStateExcept
<1>. QED
  BY <1>4 DEF Grant

-----------------------------------------------------------------------------
THEOREM InitIInv == Init => IInv
<1>. SUFFICES ASSUME Init PROVE IInv
  OBVIOUS
<1>1. [readers |-> {}, writer |-> NoTask, queue |-> << >>] \in LockState
  BY DEF LockState
<1>2. TypeOK
  <2>1. lk \in [Locks -> LockState]
    BY <1>1 DEF Init
  <2>2. calls \in 0..MaxCalls
    BY AppUIAssumption DEF Init
  <2>3. /\ pc \in [Tasks -> {"idle", "b_init", "b_msg", "g_run", "g_msg", "g_done",
                             "c_make", "c_read", "c_get", "r_check", "s_take",
                             "r_spawn", "r_reg"}]
        /\ call \in [Tasks -> Calls \cup {"none"}]
        /\ spawned \in [Tasks -> Pipes \cup {NoPipe}]
    BY DEF Init
  <2>4. /\ pipe \in [Pipes -> {"none", "running", "exited"}]
        /\ shutdown \in [Pipes -> BOOLEAN]
        /\ dir \in [Pipes -> {"none", "live", "removed"}]
    BY DEF Init
  <2>. QED
    BY <2>1, <2>2, <2>3, <2>4 DEF Init, TypeOK
<1>. QED
  BY <1>2 DEF Init, IInv, SpawnedPending, NoOrphanPipeline

-----------------------------------------------------------------------------
(* The await points, as TypeOK lists them.                                 *)
PC == {"idle", "b_init", "b_msg", "g_run", "g_msg", "g_done", "c_make", "c_read",
       "c_get", "r_check", "s_take", "r_spawn", "r_reg"}

(* A step of t that leaves the pipelines, the registered one and the      *)
(* spawned slots alone, and moves t between await points other than       *)
(* r_reg, keeps SpawnedPending and NoOrphanPipeline.                       *)
LEMMA QuietStep ==
    ASSUME IInv, NEW t \in Tasks, NEW x, pc[t] # "r_reg", x # "r_reg",
           pc' = [pc EXCEPT ![t] = x],
           UNCHANGED <<runThread, spawned, pipe, shutdown>>
    PROVE  SpawnedPending' /\ NoOrphanPipeline'
BY DEF IInv, TypeOK, SpawnedPending, NoOrphanPipeline

(* An idle task starting a call, up to its first await.                   *)
LEMMA StartStep ==
    ASSUME IInv, NEW t \in Tasks, NEW c \in Calls, NEW l \in Locks,
           NEW m \in Modes, NEW next \in PC \ {"r_reg"},
           Begin(t, c, l, m, next),
           UNCHANGED <<dozer, errorMessage, runThread, spawned, PipeVars>>
    PROVE  IInv'
<1>1. lk' \in [Locks -> LockState]
  BY LockType DEF Begin, IInv, TypeOK
<1>2. TypeOK'
  BY <1>1, AppUIAssumption DEF Begin, IInv, TypeOK, PC, PipeVars
<1>3. SpawnedPending' /\ NoOrphanPipeline'
  BY QuietStep DEF Begin, PipeVars
<1>. QED
  BY <1>2, <1>3 DEF IInv

(* A step of t that releases or takes locks and moves t to next, with    *)
(* the call and the data it changes left to the action.                    *)
LEMMA MoveType ==
    ASSUME TypeOK, NEW t \in Tasks, NEW next \in PC,
           lk' \in [Locks -> LockState],
           \/ Goto(t, next)
           \/ next = "idle" /\ Return(t),
           dozer' \in {"none", "built", "contract"}, errorMessage' \in BOOLEAN,
           UNCHANGED <<runThread, spawned, PipeVars, calls>>
    PROVE  TypeOK'
BY DEF TypeOK, Goto, Return, PipeVars, PC

(* The steps of build, get_current and the schema getters, and run's      *)
(* check, touch no pipeline.                                                *)
LEMMA BuildInitStep ==
    ASSUME IInv, NEW t \in Tasks, BuildInit(t) PROVE IInv'
<1>1. CASE Release(t, {"dozer"}) /\ Return(t) /\ UNCHANGED dozer
  <2>1. lk' \in [Locks -> LockState]
    BY <1>1, ReleaseType DEF IInv, TypeOK, Locks
  <2>2. TypeOK'
    BY <1>1, <2>1, MoveType DEF BuildInit, IInv, TypeOK, PC
  <2>3. SpawnedPending' /\ NoOrphanPipeline'
    BY <1>1, QuietStep DEF BuildInit, Return, PipeVars
  <2>. QED
    BY <2>2, <2>3 DEF IInv
<1>2. CASE /\ \E d \in ContractOutcomes : dozer' = d
           /\ Lock(t, "error_message", "write") /\ Goto(t, "b_msg")
  <2>1. lk' \in [Locks -> LockState]
    BY <1>2, LockType DEF IInv, TypeOK, Modes, Locks
  <2>2. TypeOK'
    BY <1>2, <2>1, MoveType DEF BuildInit, IInv, TypeOK, PC, ContractOutcomes
  <2>3. SpawnedPending' /\ NoOrphanPipeline'
    BY <1>2, QuietStep DEF BuildInit, Goto, PipeVars
  <2>. QED
    BY <2>2, <2>3 DEF IInv
<1>. QED
  BY <1>1, <1>2 DEF BuildInit

LEMMA BuildSetMessageStep ==
    ASSUME IInv, NEW t \in Tasks, BuildSetMessage(t) PROVE IInv'
<1>1. lk' \in [Locks -> LockState]
  BY ReleaseType DEF BuildSetMessage, IInv, TypeOK, Locks
<1>2. TypeOK'
  BY <1>1, MoveType DEF BuildSetMessage, IInv, TypeOK, PC
<1>3. SpawnedPending' /\ NoOrphanPipeline'
  BY QuietStep DEF BuildSetMessage, Return, PipeVars
<1>. QED
  BY <1>2, <1>3 DEF IInv

(* One await of a task that takes a lock and goes on.                      *)
LEMMA LockMoveStep ==
    ASSUME IInv, NEW t \in Tasks, NEW l \in Locks, NEW m \in Modes,
           NEW next \in PC \ {"r_reg"}, pc[t] # "r_reg",
           Lock(t, l, m), Goto(t, next),
           UNCHANGED <<dozer, errorMessage, runThread, spawned, PipeVars, calls>>
    PROVE  IInv'
<1>1. lk' \in [Locks -> LockState]
  BY LockType DEF IInv, TypeOK
<1>2. TypeOK'
  BY <1>1, MoveType DEF IInv, TypeOK
<1>3. SpawnedPending' /\ NoOrphanPipeline'
  BY QuietStep DEF Goto, PipeVars
<1>. QED
  BY <1>2, <1>3 DEF IInv

(* One await of a task that drops locks and returns.                       *)
LEMMA ReleaseReturnStep ==
    ASSUME IInv, NEW t \in Tasks, NEW ls \in SUBSET Locks, pc[t] # "r_reg",
           Release(t, ls), Return(t),
           UNCHANGED <<runThread, spawned, PipeVars, calls>>,
           dozer' \in {"none", "built", "contract"}, errorMessage' \in BOOLEAN
    PROVE  IInv'
<1>1. lk' \in [Locks -> LockState]
  BY ReleaseType DEF IInv, TypeOK
<1>2. TypeOK'
  BY <1>1, MoveType DEF IInv, TypeOK, PC
<1>3. SpawnedPending' /\ NoOrphanPipeline'
  BY QuietStep DEF Return, PipeVars
<1>. QED
  BY <1>2, <1>3 DEF IInv

LEMMA GetCurrentStep ==
    ASSUME IInv, NEW t \in Tasks,
           GetCurrentRunning(t) \/ GetCurrentMessage(t) \/ GetCurrentDone(t)
    PROVE  IInv'
<1>1. CASE GetCurrentRunning(t)
  BY <1>1, LockMoveStep DEF GetCurrentRunning, PC, Locks, Modes
<1>2. CASE GetCurrentMessage(t)
  BY <1>2, LockMoveStep DEF GetCurrentMessage, PC, Locks, Modes
<1>3. CASE GetCurrentDone(t)
  BY <1>3, ReleaseReturnStep DEF GetCurrentDone, IInv, TypeOK
<1>. QED
  BY <1>1, <1>2, <1>3

LEMMA SchemasStep ==
    ASSUME IInv, NEW t \in Tasks,
           SchemasMakeContract(t) \/ SchemasRead(t) \/ SchemasGet(t)
    PROVE  IInv'
<1>1. CASE SchemasMakeContract(t)
  <2>1. lk' \in [Locks -> LockState]
    BY <1>1, ReleaseType DEF SchemasMakeContract, IInv, TypeOK, Locks
  <2>2. /\ dozer' \in {"none", "built", "contract"}
        /\ \/ Goto(t, "c_read")
           \/ Return(t)
    BY <1>1 DEF SchemasMakeContract, IInv, TypeOK, ContractOutcomes
  <2>3. TypeOK'
    BY <1>1, <2>1, <2>2, MoveType DEF SchemasMakeContract, IInv, TypeOK, PC
  <2>4. SpawnedPending' /\ NoOrphanPipeline'
    BY <1>1, <2>2, QuietStep DEF SchemasMakeContract, Goto, Return, PipeVars
  <2>. QED
    BY <2>3, <2>4 DEF IInv
<1>2. CASE SchemasRead(t)
  BY <1>2, LockMoveStep DEF SchemasRead, PC, Locks, Modes
<1>3. CASE SchemasGet(t)
  BY <1>3, ReleaseReturnStep DEF SchemasGet, IInv, TypeOK, Locks
<1>. QED
  BY <1>1, <1>2, <1>3

LEMMA RunCheckStep ==
    ASSUME IInv, NEW t \in Tasks, RunCheck(t) PROVE IInv'
<1>1. CASE dozer = "none" /\ Release(t, {"dozer"}) /\ Return(t)
  BY <1>1, ReleaseReturnStep DEF RunCheck, IInv, TypeOK, Locks
<1>2. CASE dozer # "none" /\ Lock(t, "run_thread", "write") /\ Goto(t, "s_take")
  BY <1>2, LockMoveStep DEF RunCheck, PC, Locks, Modes
<1>. QED
  BY <1>1, <1>2 DEF RunCheck

(* Where stop goes on: run's spawn, or out of the call.                    *)
LEMMA AfterStopMove ==
    ASSUME NEW t, AfterStop(t)
    PROVE  \E x \in {"r_spawn", "idle"} :
              /\ pc' = [pc EXCEPT ![t] = x]
              /\ call' \in {call, [call EXCEPT ![t] = "none"]}
BY DEF AfterStop, Goto, Return

(* take() of the registered pipeline with its shutdown fired keeps every  *)
(* pipeline that still runs unsignalled reachable.                          *)
LEMMA TakeRegistered ==
    ASSUME IInv, NEW t \in Tasks, NEW x, pc[t] # "r_reg", x # "r_reg",
           pc' = [pc EXCEPT ![t] = x],
           runThread # NoPipe, runThread' = NoPipe,
           shutdown' = [shutdown EXCEPT ![runThread] = TRUE],
           UNCHANGED <<spawned, pipe>>
    PROVE  SpawnedPending' /\ NoOrphanPipeline'
BY DEF IInv, TypeOK, SpawnedPending, NoOrphanPipeline

LEMMA StopTakeStep ==
    ASSUME IInv, NEW t \in Tasks, StopTake(t) PROVE IInv'
<1>. DEFINE rt == runThread
<1>0. /\ TypeOK /\ pc[t] = "s_take"
      /\ rt' = NoPipe
      /\ UNCHANGED <<dozer, errorMessage, spawned, calls>>
  BY DEF StopTake, IInv
<1>1. CASE rt = NoPipe /\ Release(t, {"run_thread"}) /\ AfterStop(t) /\ UNCHANGED PipeVars
  <2>1. lk' \in [Locks -> LockState]
    BY <1>0, <1>1, ReleaseType DEF TypeOK, Locks
  <2>2. PICK x \in {"r_spawn", "idle"} :
            pc' = [pc EXCEPT ![t] = x] /\ call' \in {call, [call EXCEPT ![t] = "none"]}
    BY <1>1, AfterStopMove
  <2>3. TypeOK'
    BY <1>0, <1>1, <2>1, <2>2 DEF TypeOK, PipeVars
  <2>4. SpawnedPending' /\ NoOrphanPipeline'
    BY <1>0, <1>1, <2>2, QuietStep DEF PipeVars
  <2>. QED
    BY <2>3, <2>4 DEF IInv
<1>2. CASE /\ rt # NoPipe
           /\ shutdown' = [shutdown EXCEPT ![rt] = TRUE]
           /\ UNCHANGED pipe
           /\ \/ dir' = [dir EXCEPT ![rt] = "removed"] /\ Release(t, {"run_thread"}) /\ AfterStop(t)
              \/ UNCHANGED dir /\ Release(t, {"run_thread", "dozer"}) /\ Return(t)
  <2>1. lk' \in [Locks -> LockState]
    BY <1>0, <1>2, ReleaseType DEF TypeOK, Locks
  <2>2. PICK x \in {"r_spawn", "idle"} :
            pc' = [pc EXCEPT ![t] = x] /\ call' \in {call, [call EXCEPT ![t] = "none"]}
    BY <1>2, AfterStopMove DEF Return
  <2>3. dir' \in [Pipes -> {"none", "live", "removed"}]
    BY <1>0, <1>2 DEF TypeOK
  <2>4. TypeOK'
    BY <1>0, <1>2, <2>1, <2>2, <2>3 DEF TypeOK
  <2>5. SpawnedPending' /\ NoOrphanPipeline'
    BY <1>0, <1>2, <2>2, TakeRegistered
  <2>. QED
    BY <2>4, <2>5 DEF IInv
<1>. QED
  BY <1>1, <1>2 DEF StopTake

LEMMA RunSpawnStep ==
    ASSUME IInv, NEW t \in Tasks, RunSpawn(t) PROVE IInv'
<1>0. TypeOK /\ pc[t] = "r_spawn" /\ UNCHANGED <<dozer, errorMessage, runThread, calls>>
  BY DEF RunSpawn, IInv
<1>1. CASE RunFails(t)
  BY <1>0, <1>1, ReleaseReturnStep DEF RunFails, TypeOK, Locks
<1>2. CASE \E p \in Pipes : SpawnPipeline(t, p)
  <2>1. PICK p \in Pipes :
            /\ pipe[p] = "none"
            /\ pipe' = [pipe EXCEPT ![p] = "running"]
            /\ dir' = [dir EXCEPT ![p] = "live"]
            /\ spawned' = [spawned EXCEPT ![t] = p]
            /\ Lock(t, "run_thread", "write")
            /\ Goto(t, "r_reg")
            /\ UNCHANGED shutdown
    BY <1>2 DEF SpawnPipeline
  <2>2. lk' \in [Locks -> LockState]
    BY <1>0, <2>1, LockType DEF TypeOK, Locks, Modes
  <2>3. TypeOK'
    BY <1>0, <2>1, <2>2 DEF TypeOK, Goto
  <2>4. spawned[t] = NoPipe
    BY <1>0 DEF IInv, SpawnedPending
  <2>5. SpawnedPending'
    BY <1>0, <2>1 DEF IInv, TypeOK, SpawnedPending, Goto
  <2>6. NoOrphanPipeline'
    <3>1. ASSUME NEW q \in Pipes, pipe'[q] = "running", ~shutdown'[q]
          PROVE  runThread' = q \/ \E s \in Tasks : spawned'[s] = q
      <4>1. CASE q = p
        BY <2>1, <4>1 DEF IInv, TypeOK
      <4>2. CASE q # p
        <5>1. pipe[q] = "running" /\ ~shutdown[q]
          BY <2>1, <3>1, <4>2 DEF IInv, TypeOK
        <5>2. runThread = q \/ \E s \in Tasks : spawned[s] = q
          BY <5>1 DEF IInv, NoOrphanPipeline
        <5>3. q # NoPipe
          BY DEF NoPipe, Pipes
        <5>. QED
          BY <1>0, <2>1, <2>4, <5>2, <5>3 DEF IInv, TypeOK
      <4>. QED
        BY <4>1, <4>2
    <3>. QED
      BY <3>1 DEF NoOrphanPipeline
  <2>. QED
    BY <2>3, <2>5, <2>6 DEF IInv
<1>. QED
  BY <1>1, <1>2 DEF RunSpawn

LEMMA RunRegisterStep ==
    ASSUME IInv, NEW t \in Tasks, RunRegister(t) PROVE IInv'
<1>0. /\ TypeOK /\ pc[t] = "r_reg"
      /\ runThread' = spawned[t]
      /\ spawned' = [spawned EXCEPT ![t] = NoPipe]
      /\ Release(t, {"run_thread", "dozer"}) /\ Return(t)
      /\ UNCHANGED <<dozer, errorMessage, pipe, calls>>
  BY DEF RunRegister, IInv
<1>1. lk' \in [Locks -> LockState]
  BY <1>0, ReleaseType DEF TypeOK, Locks
<1>2. \/ runThread = NoPipe /\ UNCHANGED <<shutdown, dir>>
      \/ /\ runThread # NoPipe
         /\ shutdown' = [shutdown EXCEPT ![runThread] = TRUE]
         /\ dir' = [dir EXCEPT ![runThread] = "removed"]
  BY DEF RunRegister
<1>3. TypeOK'
  BY <1>0, <1>1, <1>2 DEF TypeOK, Return
<1>4. SpawnedPending'
  BY <1>0 DEF IInv, TypeOK, SpawnedPending, Return
<1>5. NoOrphanPipeline'
  BY <1>0, <1>2 DEF IInv, TypeOK, NoOrphanPipeline
<1>. QED
  BY <1>3, <1>4, <1>5 DEF IInv

LEMMA GrantStep ==
    ASSUME IInv, NEW l \in Locks, Grant(l) PROVE IInv'
<1>1. lk' \in [Locks -> LockState]
  BY GrantType DEF IInv, TypeOK
<1>. QED
  BY <1>1 DEF Grant, IInv, TypeOK, SpawnedPending, NoOrphanPipeline

(* A pipeline thread returning or panicking only removes a running one.  *)
LEMMA PipelineStep ==
    ASSUME IInv, NEW p \in Pipes, PipelineStops(p) \/ PipelinePanics(p) PROVE IInv'
BY DEF PipelineStops, PipelinePanics, IInv, TypeOK, SpawnedPending, NoOrphanPipeline

-----------------------------------------------------------------------------
THEOREM NextIInv == IInv /\ [Next]_vars => IInv'
<1>. SUFFICES ASSUME IInv, [Next]_vars PROVE IInv'
  OBVIOUS
<1>1. ASSUME NEW t \in Tasks, TaskStep(t) PROVE IInv'
  <2>1. CASE BuildStart(t)
    BY <2>1, StartStep DEF BuildStart, Calls, Locks, Modes, PC
  <2>2. CASE GetCurrentStart(t)
    BY <2>2, StartStep DEF GetCurrentStart, Calls, Locks, Modes, PC
  <2>3. CASE SchemasStart(t)
    BY <2>3, StartStep DEF SchemasStart, Calls, Locks, Modes, PC
  <2>4. CASE RunStart(t)
    BY <2>4, StartStep DEF RunStart, Calls, Locks, Modes, PC
  <2>5. CASE StopStart(t)
    BY <2>5, StartStep DEF StopStart, Calls, Locks, Modes, PC
  <2>6. CASE BuildInit(t)
    BY <2>6, BuildInitStep
  <2>7. CASE BuildSetMessage(t)
    BY <2>7, BuildSetMessageStep
  <2>8. CASE GetCurrentRunning(t) \/ GetCurrentMessage(t) \/ GetCurrentDone(t)
    BY <2>8, GetCurrentStep
  <2>9. CASE SchemasMakeContract(t) \/ SchemasRead(t) \/ SchemasGet(t)
    BY <2>9, SchemasStep
  <2>10. CASE RunCheck(t)
    BY <2>10, RunCheckStep
  <2>11. CASE StopTake(t)
    BY <2>11, StopTakeStep
  <2>12. CASE RunSpawn(t)
    BY <2>12, RunSpawnStep
  <2>13. CASE RunRegister(t)
    BY <2>13, RunRegisterStep
  <2>. QED
    BY <1>1, <2>1, <2>2, <2>3, <2>4, <2>5, <2>6, <2>7, <2>8, <2>9, <2>10,
       <2>11, <2>12, <2>13 DEF TaskStep
<1>2. ASSUME NEW l \in Locks, Grant(l) PROVE IInv'
  BY <1>2, GrantStep
<1>3. ASSUME NEW p \in Pipes, PipelineStops(p) \/ PipelinePanics(p) PROVE IInv'
  BY <1>3, PipelineStep
<1>4. CASE UNCHANGED vars
  BY <1>4 DEF vars, IInv, TypeOK, SpawnedPending, NoOrphanPipeline
<1>. QED
  BY <1>1, <1>2, <1>3, <1>4 DEF Next

(* The inductive invariant holds in every reachable state of the app UI,  *)
(* whatever the interleaving of the handler tasks and pipeline threads.   *)
THEOREM IInvInvariant == Spec => []IInv
BY InitIInv, NextIInv, PTL DEF Spec

(* Every variable of the app-UI model keeps its type.                     *)
THEOREM TypeCorrect == Spec => []TypeOK
BY IInvInvariant, PTL DEF IInv

(* No pipeline thread is orphaned (state.rs run and stop, 251-291): a running *)
(* pipeline whose shutdown has not fired is registered in run_thread or   *)
(* held by the run that spawned it, for any number of tasks, runs and     *)
(* calls.                                                                  *)
THEOREM NoOrphanPipelineInvariant == Spec => []NoOrphanPipeline
BY IInvInvariant, PTL DEF IInv

=============================================================================
