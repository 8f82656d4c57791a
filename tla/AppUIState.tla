------------------------------ MODULE AppUIState ------------------------------
(***************************************************************************)
(* The CLI's app-UI state (src/dozer-cli/src/ui/app/state.rs, AppUIState) *)
(* and the pipeline threads it starts.                                     *)
(*                                                                         *)
(* The gRPC handlers of the app UI call build, run, stop, get_current and *)
(* the schema getters concurrently, as tokio tasks (Tasks).  They share    *)
(* three tokio RwLocks: dozer (the orchestrator and its contract),        *)
(* run_thread (the running pipeline's ShutdownSender and TempDir) and     *)
(* error_message.  A task's pc is the await point it is suspended at; one *)
(* action runs a task from one await point to the next.  A tokio RwLock   *)
(* is fair: read() and write() take permits of a FIFO semaphore, so a     *)
(* request that finds waiters, or an incompatible holder, joins the queue *)
(* and only the head of the queue is ever granted (Grant).                 *)
(*                                                                         *)
(* run spawns a std::thread that runs the pipeline until its shutdown     *)
(* signal fires or run_all fails (the thread's unwrap panics).  The       *)
(* thread's JoinHandle is dropped: nothing waits for it.  Its home and    *)
(* cache directories are under the run's TempDir, which stop closes and   *)
(* a later run drops.                                                      *)
(*                                                                         *)
(* Data is abstracted to what the locking and the pipeline life cycle    *)
(* tell apart: whether dozer is built and has a contract, whether an      *)
(* error message is set, which pipeline run_thread registers.             *)
(***************************************************************************)
EXTENDS Naturals, Sequences, FiniteSets

CONSTANTS
    Tasks,     \* concurrent calls into AppUIState (gRPC handler tasks)
    NoTask,    \* no writer holds a lock
    MaxRuns,   \* bound on the pipeline threads run spawns
    MaxCalls   \* bound on the calls the handlers make

ASSUME AppUIAssumption ==
    /\ NoTask \notin Tasks
    /\ MaxRuns \in Nat
    /\ MaxCalls \in Nat

(* Pipeline threads are numbered in spawn order; NoPipe is None.          *)
Pipes == 1..MaxRuns
NoPipe == 0

(* The RwLock fields of AppUIState (the sender lock is not modelled).     *)
Locks == {"dozer", "run_thread", "error_message"}

VARIABLES
    dozer,         \* "none", "built" (contract None) or "contract"
    errorMessage,  \* error_message holds Some(..)
    runThread,     \* the pipeline run_thread holds, or NoPipe
    lk,            \* lock -> [readers, writer, queue of <<task, mode>>]
    pc,            \* task -> the await point it is at, or "idle"
    call,          \* task -> the call it is in
    spawned,       \* task -> the pipeline its run spawned, not yet registered
    pipe,          \* pipeline -> "none", "running" or "exited"
    shutdown,      \* pipeline -> its ShutdownSender has fired
    dir,           \* pipeline -> its TempDir: "none", "live" or "removed"
    calls          \* calls made so far (bounded)

vars == <<dozer, errorMessage, runThread, lk, pc, call, spawned, pipe,
          shutdown, dir, calls>>

Calls == {"build", "run", "stop", "get_current", "schemas"}

Modes == {"read", "write"}

-----------------------------------------------------------------------------
(* The tokio RwLock.                                                       *)

Holds(t, l) == t \in lk[l].readers \/ lk[l].writer = t

(* A request of mode m can hold l together with the current holders.     *)
Compatible(l, m) ==
    /\ lk[l].writer = NoTask
    /\ m = "read" \/ lk[l].readers = {}

AddHolder(s, t, m) ==
    IF m = "read" THEN [s EXCEPT !.readers = @ \cup {t}]
                  ELSE [s EXCEPT !.writer = t]

(* read().await / write().await: granted at once when nobody waits and    *)
(* the holders allow it, otherwise queued behind the waiters.             *)
Lock(t, l, m) ==
    lk' = [lk EXCEPT ![l] =
              IF lk[l].queue = << >> /\ Compatible(l, m)
              THEN AddHolder(lk[l], t, m)
              ELSE [lk[l] EXCEPT !.queue = Append(@, <<t, m>>)]]

(* The guards of t on the locks ls are dropped.                           *)
Release(t, ls) ==
    lk' = [l \in Locks |->
              IF l \in ls
              THEN [lk[l] EXCEPT !.readers = @ \ {t},
                                 !.writer = IF @ = t THEN NoTask ELSE @]
              ELSE lk[l]]

(* The semaphore hands its permits to the head of the queue.              *)
Grant(l) ==
    LET q == lk[l].queue IN
    /\ q # << >>
    /\ Compatible(l, Head(q)[2])
    /\ lk' = [lk EXCEPT ![l] = [AddHolder(lk[l], Head(q)[1], Head(q)[2])
                                   EXCEPT !.queue = Tail(q)]]
    /\ UNCHANGED <<dozer, errorMessage, runThread, pc, call, spawned, pipe,
                   shutdown, dir, calls>>

(* A task waits in the queue of some lock.                                *)
Waiting(t) == \E l \in Locks : \E i \in 1..Len(lk[l].queue) : lk[l].queue[i][1] = t

Busy == {t \in Tasks : pc[t] # "idle"}

-----------------------------------------------------------------------------
Init ==
    /\ dozer = "none"
    /\ errorMessage = FALSE
    /\ runThread = NoPipe
    /\ lk = [l \in Locks |-> [readers |-> {}, writer |-> NoTask, queue |-> << >>]]
    /\ pc = [t \in Tasks |-> "idle"]
    /\ call = [t \in Tasks |-> "none"]
    /\ spawned = [t \in Tasks |-> NoPipe]
    /\ pipe = [p \in Pipes |-> "none"]
    /\ shutdown = [p \in Pipes |-> FALSE]
    /\ dir = [p \in Pipes |-> "none"]
    /\ calls = 0

(* An idle handler task starts call c, up to its first await.             *)
Begin(t, c, l, m, next) ==
    /\ pc[t] = "idle"
    /\ calls < MaxCalls
    /\ Lock(t, l, m)
    /\ pc' = [pc EXCEPT ![t] = next]
    /\ call' = [call EXCEPT ![t] = c]
    /\ calls' = calls + 1

(* t returns from its call.                                                *)
Return(t) == pc' = [pc EXCEPT ![t] = "idle"] /\ call' = [call EXCEPT ![t] = "none"]

(* t goes on to the await point next.                                      *)
Goto(t, next) == pc' = [pc EXCEPT ![t] = next] /\ UNCHANGED call

PipeVars == <<pipe, shutdown, dir>>

(* create_contract: create_dag builds the pipeline's DAG, DagSchemas its  *)
(* schemas and Contract::new the contract, and each of them can fail.     *)
(* dozer then holds the contract ("contract") or None ("built").          *)
ContractOutcomes == {"built", "contract"}

-----------------------------------------------------------------------------
(* build: the dozer write lock is held across init_config, init_dozer and *)
(* create_contract, and across set_error_message.                          *)
BuildStart(t) ==
    /\ Begin(t, "build", "dozer", "write", "b_init")
    /\ UNCHANGED <<dozer, errorMessage, runThread, spawned, PipeVars>>

BuildInit(t) ==
    /\ pc[t] = "b_init"
    /\ Holds(t, "dozer")
    /\ \/ /\ Release(t, {"dozer"})
          /\ Return(t)
          /\ UNCHANGED dozer
       \/ /\ \E d \in ContractOutcomes : dozer' = d
          /\ Lock(t, "error_message", "write")
          /\ Goto(t, "b_msg")
    /\ UNCHANGED <<errorMessage, runThread, spawned, PipeVars, calls>>

BuildSetMessage(t) ==
    /\ pc[t] = "b_msg"
    /\ Holds(t, "error_message")
    /\ errorMessage' = (dozer = "built")
    /\ Release(t, {"error_message", "dozer"})
    /\ Return(t)
    /\ UNCHANGED <<dozer, runThread, spawned, PipeVars, calls>>

(* get_current: dozer, then run_thread, then error_message, all read.     *)
GetCurrentStart(t) ==
    /\ Begin(t, "get_current", "dozer", "read", "g_run")
    /\ UNCHANGED <<dozer, errorMessage, runThread, spawned, PipeVars>>

GetCurrentRunning(t) ==
    /\ pc[t] = "g_run"
    /\ Holds(t, "dozer")
    /\ Lock(t, "run_thread", "read")
    /\ Goto(t, "g_msg")
    /\ UNCHANGED <<dozer, errorMessage, runThread, spawned, PipeVars, calls>>

GetCurrentMessage(t) ==
    /\ pc[t] = "g_msg"
    /\ Holds(t, "run_thread")
    /\ Lock(t, "error_message", "read")
    /\ Goto(t, "g_done")
    /\ UNCHANGED <<dozer, errorMessage, runThread, spawned, PipeVars, calls>>

GetCurrentDone(t) ==
    /\ pc[t] = "g_done"
    /\ Holds(t, "error_message")
    /\ Release(t, Locks)
    /\ Return(t)
    /\ UNCHANGED <<dozer, errorMessage, runThread, spawned, PipeVars, calls>>

(* The schema getters: create_contract_if_missing under the dozer write   *)
(* lock, then get_contract under a read lock.                              *)
SchemasStart(t) ==
    /\ Begin(t, "schemas", "dozer", "write", "c_make")
    /\ UNCHANGED <<dozer, errorMessage, runThread, spawned, PipeVars>>

SchemasMakeContract(t) ==
    /\ pc[t] = "c_make"
    /\ Holds(t, "dozer")
    /\ Release(t, {"dozer"})
    /\ \/ /\ dozer = "built"
          /\ \E d \in ContractOutcomes :
                /\ dozer' = d
                /\ IF d = "contract" THEN Goto(t, "c_read") ELSE Return(t)
       \/ /\ dozer # "built"
          /\ UNCHANGED dozer
          /\ Goto(t, "c_read")
    /\ UNCHANGED <<errorMessage, runThread, spawned, PipeVars, calls>>

SchemasRead(t) ==
    /\ pc[t] = "c_read"
    /\ Lock(t, "dozer", "read")
    /\ Goto(t, "c_get")
    /\ UNCHANGED <<dozer, errorMessage, runThread, spawned, PipeVars, calls>>

SchemasGet(t) ==
    /\ pc[t] = "c_get"
    /\ Holds(t, "dozer")
    /\ Release(t, {"dozer"})
    /\ Return(t)
    /\ UNCHANGED <<dozer, errorMessage, runThread, spawned, PipeVars, calls>>

(* run: under the dozer read lock, NotInitialized when there is no dozer, *)
(* otherwise stop, spawn the pipeline thread, and register it.             *)
RunStart(t) ==
    /\ Begin(t, "run", "dozer", "read", "r_check")
    /\ UNCHANGED <<dozer, errorMessage, runThread, spawned, PipeVars>>

RunCheck(t) ==
    /\ pc[t] = "r_check"
    /\ Holds(t, "dozer")
    /\ \/ /\ dozer = "none"
          /\ Release(t, {"dozer"})
          /\ Return(t)
       \/ /\ dozer # "none"
          /\ Lock(t, "run_thread", "write")
          /\ Goto(t, "s_take")
    /\ UNCHANGED <<dozer, errorMessage, runThread, spawned, PipeVars, calls>>

(* stop, called on its own or from run.                                    *)
StopStart(t) ==
    /\ Begin(t, "stop", "run_thread", "write", "s_take")
    /\ UNCHANGED <<dozer, errorMessage, runThread, spawned, PipeVars>>

(* Where a stop that succeeded goes on: back into run, or out of stop.    *)
AfterStop(t) == IF call[t] = "run" THEN Goto(t, "r_spawn") ELSE Return(t)

(* Mutant: the run_thread guard is kept (forgotten) when stop returns.    *)
StopTakeHoldingLock(t) ==
    /\ pc[t] = "s_take"
    /\ Holds(t, "run_thread")
    /\ runThread' = NoPipe
    /\ \/ /\ runThread = NoPipe
          /\ UNCHANGED PipeVars
       \/ /\ runThread # NoPipe
          /\ shutdown' = [shutdown EXCEPT ![runThread] = TRUE]
          /\ dir' = [dir EXCEPT ![runThread] = "removed"]
          /\ UNCHANGED pipe
    /\ UNCHANGED lk
    /\ AfterStop(t)
    /\ UNCHANGED <<dozer, errorMessage, spawned, calls>>

(* take() the registered pipeline, fire its shutdown and close its        *)
(* TempDir at once; a failed close returns the error (from run too) and   *)
(* leaves the directory behind.                                           *)
StopTake(t) ==
    /\ pc[t] = "s_take"
    /\ Holds(t, "run_thread")
    /\ runThread' = NoPipe
    /\ \/ /\ runThread = NoPipe
          /\ Release(t, {"run_thread"})
          /\ AfterStop(t)
          /\ UNCHANGED PipeVars
       \/ /\ runThread # NoPipe
          /\ shutdown' = [shutdown EXCEPT ![runThread] = TRUE]
          /\ UNCHANGED pipe
          /\ \/ /\ dir' = [dir EXCEPT ![runThread] = "removed"]
                /\ Release(t, {"run_thread"})
                /\ AfterStop(t)
             \/ /\ UNCHANGED dir
                /\ Release(t, {"run_thread", "dozer"})
                /\ Return(t)
    /\ UNCHANGED <<dozer, errorMessage, spawned, calls>>

(* TempDir::new fails, or the run function does before it spawns: in     *)
(* get_dozer_run_instance an SQL request statement_to_pipeline rejects,   *)
(* or validate_config on the rewritten config.  run returns the error     *)
(* and no thread exists.                                                   *)
RunFails(t) ==
    /\ Release(t, {"dozer"})
    /\ Return(t)
    /\ UNCHANGED <<spawned, PipeVars>>

(* The run function spawns pipeline thread p, the next unused one, with   *)
(* its home and cache directories under the new TempDir; run then waits  *)
(* for the run_thread write lock.                                          *)
SpawnPipeline(t, p) ==
    /\ pipe[p] = "none"
    /\ \A q \in Pipes : q < p => pipe[q] # "none"
    /\ pipe' = [pipe EXCEPT ![p] = "running"]
    /\ dir' = [dir EXCEPT ![p] = "live"]
    /\ spawned' = [spawned EXCEPT ![t] = p]
    /\ Lock(t, "run_thread", "write")
    /\ Goto(t, "r_reg")
    /\ UNCHANGED shutdown

(* run after its stop: TempDir::new, the run function, then registration. *)
RunSpawn(t) ==
    /\ pc[t] = "r_spawn"
    /\ RunFails(t) \/ \E p \in Pipes : SpawnPipeline(t, p)
    /\ UNCHANGED <<dozer, errorMessage, runThread, calls>>

(* Mutant: registration overwrites the slot without taking and shutting *)
(* down a pipeline another run registered meanwhile.                      *)
RunRegisterOverwrites(t) ==
    /\ pc[t] = "r_reg"
    /\ Holds(t, "run_thread")
    /\ UNCHANGED <<shutdown, dir>>
    /\ runThread' = spawned[t]
    /\ spawned' = [spawned EXCEPT ![t] = NoPipe]
    /\ Release(t, {"run_thread", "dozer"})
    /\ Return(t)
    /\ UNCHANGED <<dozer, errorMessage, pipe, calls>>

(* Register the new pipeline; one registered meanwhile by another run is *)
(* taken, shut down, and its TempDir dropped (removed).                   *)
RunRegister(t) ==
    /\ pc[t] = "r_reg"
    /\ Holds(t, "run_thread")
    /\ \/ /\ runThread = NoPipe
          /\ UNCHANGED <<shutdown, dir>>
       \/ /\ runThread # NoPipe
          /\ shutdown' = [shutdown EXCEPT ![runThread] = TRUE]
          /\ dir' = [dir EXCEPT ![runThread] = "removed"]
    /\ runThread' = spawned[t]
    /\ spawned' = [spawned EXCEPT ![t] = NoPipe]
    /\ Release(t, {"run_thread", "dozer"})
    /\ Return(t)
    /\ UNCHANGED <<dozer, errorMessage, pipe, calls>>

-----------------------------------------------------------------------------
(* The pipeline thread: run_all returns once its shutdown fired, or fails *)
(* at any time and the thread panics on unwrap.                           *)
PipelineStops(p) ==
    /\ pipe[p] = "running"
    /\ shutdown[p]
    /\ pipe' = [pipe EXCEPT ![p] = "exited"]
    /\ UNCHANGED <<dozer, errorMessage, runThread, lk, pc, call, spawned,
                   shutdown, dir, calls>>

PipelinePanics(p) ==
    /\ pipe[p] = "running"
    /\ pipe' = [pipe EXCEPT ![p] = "exited"]
    /\ UNCHANGED <<dozer, errorMessage, runThread, lk, pc, call, spawned,
                   shutdown, dir, calls>>

TaskStep(t) ==
    \/ BuildStart(t) \/ BuildInit(t) \/ BuildSetMessage(t)
    \/ GetCurrentStart(t) \/ GetCurrentRunning(t) \/ GetCurrentMessage(t)
    \/ GetCurrentDone(t)
    \/ SchemasStart(t) \/ SchemasMakeContract(t) \/ SchemasRead(t)
    \/ SchemasGet(t)
    \/ RunStart(t) \/ RunCheck(t) \/ StopStart(t) \/ StopTake(t)
    \/ RunSpawn(t) \/ RunRegister(t)

Next ==
    \/ \E t \in Tasks : TaskStep(t)
    \/ \E l \in Locks : Grant(l)
    \/ \E p \in Pipes : PipelineStops(p) \/ PipelinePanics(p)

(* The tokio runtime polls every task that can go on, the semaphore      *)
(* grants the head of a queue whose permits are free, and a pipeline     *)
(* thread whose shutdown fired returns from run_all.  A panic is not     *)
(* something that must happen.                                            *)
Fairness ==
    /\ \A t \in Tasks : WF_vars(TaskStep(t) /\ pc[t] # "idle")
    /\ \A l \in Locks : WF_vars(Grant(l))
    /\ \A p \in Pipes : WF_vars(PipelineStops(p))

Spec == Init /\ [][Next]_vars /\ Fairness

-----------------------------------------------------------------------------
LockState == [readers : SUBSET Tasks, writer : Tasks \cup {NoTask},
              queue : Seq(Tasks \X Modes)]

(* Every variable holds a value of its type.                               *)
TypeOK ==
    /\ dozer \in {"none", "built", "contract"}
    /\ errorMessage \in BOOLEAN
    /\ runThread \in Pipes \cup {NoPipe}
    /\ lk \in [Locks -> LockState]
    /\ pc \in [Tasks -> {"idle", "b_init", "b_msg", "g_run", "g_msg", "g_done",
                         "c_make", "c_read", "c_get", "r_check", "s_take",
                         "r_spawn", "r_reg"}]
    /\ call \in [Tasks -> Calls \cup {"none"}]
    /\ spawned \in [Tasks -> Pipes \cup {NoPipe}]
    /\ pipe \in [Pipes -> {"none", "running", "exited"}]
    /\ shutdown \in [Pipes -> BOOLEAN]
    /\ dir \in [Pipes -> {"none", "live", "removed"}]
    /\ calls \in 0..MaxCalls

(* No call is stuck for ever on the locks: while some call is in flight,  *)
(* one of them can go on or a queue's head can be granted.  Calls take    *)
(* dozer before run_thread before error_message and never wait on a lock  *)
(* they hold, so the fair RwLocks never close a cycle.                    *)
NoDeadlock ==
    Busy # {} =>
        \/ \E t \in Busy : ~Waiting(t)
        \/ \E l \in Locks : lk[l].queue # << >> /\ Compatible(l, Head(lk[l].queue)[2])

(* Every pipeline thread still running whose shutdown has not fired is   *)
(* reachable: it is the one run_thread registers, or the one a run in    *)
(* flight spawned and is about to register.  run's stop and its take() at *)
(* registration never lose a pipeline, whatever run and stop calls        *)
(* interleave between the stop, the spawn and the registration.          *)
NoOrphanPipeline ==
    \A p \in Pipes :
        pipe[p] = "running" /\ ~shutdown[p] =>
            \/ runThread = p
            \/ \E t \in Tasks : spawned[t] = p

(* Every call made returns: no task waits for ever on a lock, with the    *)
(* FIFO RwLocks, the panicking pipeline threads and any mix of calls.     *)
CallsReturn == \A t \in Tasks : pc[t] # "idle" ~> pc[t] = "idle"

(* "kill if a handle already exists" (state.rs:254): the previous         *)
(* pipeline is gone before run starts a new one, so at most one pipeline  *)
(* thread runs (they all bind the same fixed API ports).                  *)
OnePipelineAtATime == Cardinality({p \in Pipes : pipe[p] = "running"}) <= 1

(* A pipeline's TempDir (its home and cache directories) is removed only *)
(* once the pipeline thread no longer runs.                               *)
TempDirOutlivesPipeline ==
    \A p \in Pipes : dir[p] = "removed" => pipe[p] = "exited"

=============================================================================
