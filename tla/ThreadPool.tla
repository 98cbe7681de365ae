----------------------------- MODULE ThreadPool -----------------------------
(***************************************************************************)
(* TcFrame::ThreadPool (src/src/thread_pool.cpp): worker threads that wait *)
(* on one condition variable for tasks, and client threads that call       *)
(* Commit, Resize and Shutdown.                                            *)
(*                                                                         *)
(* What is done under m_queue_mutex is one step, except m_cv.wait: between *)
(* the predicate that came out false and the block, the worker still holds *)
(* the mutex ("checked").  Shutdown sets m_is_running and notifies without *)
(* the mutex, so those steps may fall in between.                          *)
(***************************************************************************)
EXTENDS Integers, Sequences, FiniteSets

CONSTANTS
  Workers,   \* bound: thread identities the pool may create
  Clients,   \* threads that use the pool
  ThreadNum, \* the constructor's thread_num
  Sizes,     \* sizes the clients ask Resize for
  MaxTasks   \* bound: tasks committed in a behaviour

ASSUME PoolAssumption ==
  /\ IsFiniteSet(Workers) /\ IsFiniteSet(Clients)
  /\ Workers \cap Clients = {}
  /\ ThreadNum \in 0..Cardinality(Workers)
  /\ Sizes \subseteq Nat
  /\ MaxTasks \in Nat

VARIABLES
  running,  \* m_is_running
  target,   \* m_target_thread_num
  workers,  \* threads in m_workers
  joining,  \* threads Shutdown has swapped out of m_workers
  tasks,    \* m_tasks
  worker,   \* control state of each worker thread
  client,   \* control state of each client, with what Resize keeps in locals
  \* History, read by the properties only.
  nCommitted, \* tasks accepted so far; the k-th one accepted is task k
  nTaken,   \* tasks taken by a worker so far
  nDropped  \* tasks Shutdown has thrown away

vars == <<running, target, workers, joining, tasks, worker, client,
          nCommitted, nTaken, nDropped>>

ClientOps == {"idle", "notify", "store", "grow", "notifyAll", "drain", "join", "down"}
At(op) == [op |-> op, n |-> 0, old |-> 0]

TypeOK ==
  /\ running \in BOOLEAN
  /\ target \in Nat
  /\ workers \subseteq Workers /\ joining \subseteq Workers
  /\ tasks \in Seq(1..MaxTasks)
  /\ worker \in [Workers -> {"none", "loop", "checked", "waiting", "run", "exit"}]
  /\ client \in [Clients -> [op : ClientOps, n : Nat, old : Nat]]
  /\ nCommitted \in 0..MaxTasks /\ nTaken \in 0..MaxTasks /\ nDropped \in 0..MaxTasks

Init ==
  /\ running = TRUE
  /\ target = ThreadNum
  /\ workers \in SUBSET Workers /\ Cardinality(workers) = ThreadNum
  /\ joining = {}
  /\ tasks = <<>>
  /\ worker = [w \in Workers |-> IF w \in workers THEN "loop" ELSE "none"]
  /\ client = [c \in Clients |-> At("idle")]
  /\ nCommitted = 0 /\ nTaken = 0 /\ nDropped = 0

MutexFree == \A w \in Workers : worker[w] # "checked"

-----------------------------------------------------------------------------
(* WorkerLoop.                                                             *)

\* Mutant: tasks are taken without the queue being popped.
TakeWithoutPop(w) ==
  /\ worker[w] = "loop" /\ MutexFree
  /\ tasks # <<>>
  /\ nTaken' = nTaken + 1
  /\ worker' = [worker EXCEPT ![w] = "run"]
  /\ UNCHANGED <<running, target, workers, joining, tasks, client, nCommitted, nDropped>>

TakeTask(w) ==
  /\ worker[w] = "loop" /\ MutexFree
  /\ tasks # <<>>
  /\ tasks' = Tail(tasks)
  /\ nTaken' = nTaken + 1
  /\ worker' = [worker EXCEPT ![w] = "run"]
  /\ UNCHANGED <<running, target, workers, joining, client, nCommitted, nDropped>>

WorkerExit(w) ==
  /\ worker[w] = "loop" /\ MutexFree
  /\ tasks = <<>> /\ ~running
  /\ worker' = [worker EXCEPT ![w] = "exit"]
  /\ UNCHANGED <<running, target, workers, joining, tasks, client,
                 nCommitted, nTaken, nDropped>>

\* Mutant: the worker waits without looking at the queue first.
WaitBlindly(w) ==
  /\ worker[w] = "loop" /\ MutexFree
  /\ running
  /\ worker' = [worker EXCEPT ![w] = "checked"]
  /\ UNCHANGED <<running, target, workers, joining, tasks, client,
                 nCommitted, nTaken, nDropped>>

\* The predicate of m_cv.wait is false.
CheckWait(w) ==
  /\ worker[w] = "loop" /\ MutexFree
  /\ tasks = <<>> /\ running
  /\ worker' = [worker EXCEPT ![w] = "checked"]
  /\ UNCHANGED <<running, target, workers, joining, tasks, client,
                 nCommitted, nTaken, nDropped>>

\* m_cv.wait releases the mutex and blocks.
Block(w) ==
  /\ worker[w] = "checked"
  /\ worker' = [worker EXCEPT ![w] = "waiting"]
  /\ UNCHANGED <<running, target, workers, joining, tasks, client,
                 nCommitted, nTaken, nDropped>>

FinishTask(w) ==
  /\ worker[w] = "run"
  /\ worker' = [worker EXCEPT ![w] = "loop"]
  /\ UNCHANGED <<running, target, workers, joining, tasks, client,
                 nCommitted, nTaken, nDropped>>

WorkerStep(w) ==
  \/ TakeTask(w) \/ WorkerExit(w) \/ CheckWait(w) \/ Block(w) \/ FinishTask(w)

\* A condition variable may wake a waiting thread for no reason.
SpuriousWakeup(w) ==
  /\ worker[w] = "waiting"
  /\ worker' = [worker EXCEPT ![w] = "loop"]
  /\ UNCHANGED <<running, target, workers, joining, tasks, client,
                 nCommitted, nTaken, nDropped>>

-----------------------------------------------------------------------------
(* Commit.                                                                 *)

\* Mutant: Commit does not look at m_is_running under the mutex.
CommitUnchecked(c) ==
  /\ client[c].op = "idle" /\ MutexFree
  /\ nCommitted < MaxTasks
  /\ nCommitted' = nCommitted + 1
  /\ tasks' = Append(tasks, nCommitted + 1)
  /\ client' = [client EXCEPT ![c] = At("notify")]
  /\ UNCHANGED <<running, target, workers, joining, worker, nTaken, nDropped>>

\* Commit on a stopped pool throws and changes nothing.
Commit(c) ==
  /\ client[c].op = "idle" /\ MutexFree
  /\ running
  /\ nCommitted < MaxTasks
  /\ nCommitted' = nCommitted + 1
  /\ tasks' = Append(tasks, nCommitted + 1)
  /\ client' = [client EXCEPT ![c] = At("notify")]
  /\ UNCHANGED <<running, target, workers, joining, worker, nTaken, nDropped>>

\* Mutant: Commit forgets to notify.
NotifyNobody(c) ==
  /\ client[c].op = "notify"
  /\ client' = [client EXCEPT ![c] = At("idle")]
  /\ UNCHANGED <<running, target, workers, joining, tasks, worker,
                 nCommitted, nTaken, nDropped>>

NotifyOne(c) ==
  /\ client[c].op = "notify"
  /\ \/ \E w \in Workers : /\ worker[w] = "waiting"
                           /\ worker' = [worker EXCEPT ![w] = "loop"]
     \/ /\ \A w \in Workers : worker[w] # "waiting"
        /\ UNCHANGED worker
  /\ client' = [client EXCEPT ![c] = At("idle")]
  /\ UNCHANGED <<running, target, workers, joining, tasks, nCommitted, nTaken, nDropped>>

-----------------------------------------------------------------------------
(* Resize: nothing but the creation of threads is under the mutex.         *)

\* m_is_running and m_target_thread_num are read.
Resize(c, n) ==
  /\ client[c].op = "idle"
  /\ running
  /\ n # target
  /\ client' = [client EXCEPT ![c] = [op |-> "store", n |-> n, old |-> target]]
  /\ UNCHANGED <<running, target, workers, joining, tasks, worker,
                 nCommitted, nTaken, nDropped>>

\* The new target is stored; a smaller one is all a shrinking Resize does.
StoreTarget(c) ==
  /\ client[c].op = "store"
  /\ target' = client[c].n
  /\ client' = [client EXCEPT ![c] = IF @.n > @.old
                                     THEN [op |-> "grow", n |-> @.n, old |-> @.old]
                                     ELSE At("idle")]
  /\ UNCHANGED <<running, workers, joining, tasks, worker, nCommitted, nTaken, nDropped>>

AddWorkers(c) ==
  /\ client[c].op = "grow" /\ MutexFree
  /\ \E S \in SUBSET {w \in Workers : worker[w] = "none"} :
       /\ Cardinality(S) = client[c].n - client[c].old
       /\ workers' = workers \cup S
       /\ worker' = [w \in Workers |-> IF w \in S THEN "loop" ELSE worker[w]]
  /\ client' = [client EXCEPT ![c] = At("idle")]
  /\ UNCHANGED <<running, target, joining, tasks, nCommitted, nTaken, nDropped>>

-----------------------------------------------------------------------------
(* Shutdown, and the destructor, which only calls it.                      *)

\* A second Shutdown finds m_is_running false and returns.
Shutdown(c) ==
  /\ client[c].op = "idle"
  /\ running
  /\ running' = FALSE
  /\ client' = [client EXCEPT ![c] = At("notifyAll")]
  /\ UNCHANGED <<target, workers, joining, tasks, worker, nCommitted, nTaken, nDropped>>

NotifyAll(c) ==
  /\ client[c].op = "notifyAll"
  /\ worker' = [w \in Workers |-> IF worker[w] = "waiting" THEN "loop" ELSE worker[w]]
  /\ client' = [client EXCEPT ![c] = At("drain")]
  /\ UNCHANGED <<running, target, workers, joining, tasks, nCommitted, nTaken, nDropped>>

Drain(c) ==
  /\ client[c].op = "drain" /\ MutexFree
  /\ joining' = workers
  /\ workers' = {}
  /\ nDropped' = nDropped + Len(tasks)
  /\ tasks' = <<>>
  /\ client' = [client EXCEPT ![c] = At("join")]
  /\ UNCHANGED <<running, target, worker, nCommitted, nTaken>>

\* Every swapped out thread has been joined; Shutdown returns.
JoinAll(c) ==
  /\ client[c].op = "join"
  /\ \A w \in joining : worker[w] = "exit"
  /\ client' = [client EXCEPT ![c] = At("down")]
  /\ UNCHANGED <<running, target, workers, joining, tasks, worker,
                 nCommitted, nTaken, nDropped>>

\* The steps a client takes to finish the call it is in.
ClientStep(c) ==
  \/ NotifyOne(c) \/ StoreTarget(c) \/ AddWorkers(c)
  \/ NotifyAll(c) \/ Drain(c) \/ JoinAll(c)

Next ==
  \/ \E w \in Workers : WorkerStep(w) \/ SpuriousWakeup(w)
  \/ \E c \in Clients :
       Commit(c) \/ (\E n \in Sizes : Resize(c, n)) \/ Shutdown(c) \/ ClientStep(c)

Spec == Init /\ [][Next]_vars

\* The scheduler runs every thread that is not blocked; nothing is promised
\* of spurious wakeups, nor that clients go on calling.
FairSpec ==
  /\ Spec
  /\ \A w \in Workers : WF_vars(WorkerStep(w))
  /\ \A c \in Clients : WF_vars(ClientStep(c))

-----------------------------------------------------------------------------
(* Properties.                                                             *)

\* Every accepted task is queued, was taken by one worker, or was dropped by
\* Shutdown, and exactly one of the three; tasks are taken in the order in
\* which Commit accepted them.
TasksInOrder ==
  /\ nCommitted = nTaken + nDropped + Len(tasks)
  /\ \A i \in 1..Len(tasks) : tasks[i] = nTaken + nDropped + i

\* After Shutdown has emptied the queue nothing gets into it any more: Commit
\* looks at m_is_running under the same mutex, however late it got there.
NothingAfterDrain ==
  (\E c \in Clients : client[c].op \in {"join", "down"}) => tasks = <<>>

Notifying == {c \in Clients : client[c].op = "notify"}
Looping   == {w \in Workers : worker[w] = "loop"}

\* While a worker waits, every queued task has a worker of its own awake and
\* on its way to the queue, or a notify_one still to come: no notification of
\* Commit is lost and none is spent on a worker that is not waiting.
EveryTaskHasAWaker ==
  (\E w \in Workers : worker[w] = "waiting") =>
    Len(tasks) <= Cardinality(Looping) + Cardinality(Notifying)

\* An accepted task is run, unless the pool is shut down first.
CommittedTaskRuns ==
  \A k \in 1..MaxTasks : (nCommitted >= k) ~> (nTaken >= k \/ ~running)

\* Shutdown: "唤醒所有线程，处理完剩余任务退出" (src/src/thread_pool.cpp:120), all
\* threads are woken and leave, so that Shutdown comes back.
ShutdownReturns == \A c \in Clients : client[c].op = "join" ~> client[c].op = "down"

\* Shutdown: "graceful shutdown：执行完所有 pending 任务再退出"
\* (src/include/thread_pool.h:25), every pending task is executed.
PendingTasksExecuted == nDropped = 0

\* Resize: "动态调整线程池大小" (src/include/thread_pool.h:32), the pool takes the
\* size it is asked for and never has more threads than any call asked for.
NeverMoreThanAsked ==
  \E n \in Sizes \cup {ThreadNum} : Cardinality(workers) <= n

\* Resize leaves threads to Shutdown, "在Shutdown时统一回收"
\* (src/src/thread_pool.cpp:106): once Shutdown is over no thread is left in
\* m_workers that nobody joins.
AllWorkersReclaimed ==
  (\E c \in Clients : client[c].op = "down") => workers = {}
=============================================================================
