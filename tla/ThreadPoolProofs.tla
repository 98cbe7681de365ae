-------------------------- MODULE ThreadPoolProofs --------------------------
(***************************************************************************)
(* Proofs of the safety properties of ThreadPool for any finite sets of    *)
(* worker and client threads, any sizes and any number of tasks.           *)
(***************************************************************************)
EXTENDS ThreadPool, FiniteSetTheorems, TLAPS

USE DEF vars, At

-----------------------------------------------------------------------------
(* The inductive invariant.                                                *)

\* A worker between the predicate that came out false and the block holds
\* m_queue_mutex: no task can have been queued since it looked.
CheckedIsIdle == \A w \in Workers : worker[w] = "checked" => tasks = <<>>

\* A thread that is inside Shutdown has set m_is_running to false, nobody sets
\* it again, and what Drain emptied stays empty.
ShutdownInv ==
  \A c \in Clients :
    /\ client[c].op \in {"notifyAll", "drain", "join", "down"} => ~running
    /\ client[c].op \in {"join", "down"} => tasks = <<>>

IInv == TypeOK /\ TasksInOrder /\ CheckedIsIdle /\ ShutdownInv /\ EveryTaskHasAWaker

-----------------------------------------------------------------------------
(* The queue.                                                              *)

\* Every step of a worker or a client keeps the variables in their types.
LEMMA TypeStep == TypeOK /\ TasksInOrder /\ [Next]_vars => TypeOK'
<1> SUFFICES ASSUME TypeOK, TasksInOrder, [Next]_vars PROVE TypeOK'
  OBVIOUS
<1> USE PoolAssumption DEF TypeOK, ClientOps
<1>1. ASSUME NEW w \in Workers, TakeTask(w) PROVE TypeOK'
  <2>1. Len(tasks) \in Nat \ {0} /\ Tail(tasks) \in Seq(1..MaxTasks)
    BY <1>1 DEF TakeTask
  <2>2. nTaken + 1 \in 0..MaxTasks
    BY <2>1 DEF TasksInOrder
  <2> QED BY <1>1, <2>1, <2>2 DEF TakeTask
<1>2. ASSUME NEW w \in Workers,
             WorkerExit(w) \/ CheckWait(w) \/ Block(w) \/ FinishTask(w) \/ SpuriousWakeup(w)
      PROVE  TypeOK'
  BY <1>2 DEF WorkerExit, CheckWait, Block, FinishTask, SpuriousWakeup
<1>3. ASSUME NEW c \in Clients, Commit(c) PROVE TypeOK'
  <2>1. nCommitted + 1 \in 1..MaxTasks
    BY <1>3 DEF Commit
  <2>2. Append(tasks, nCommitted + 1) \in Seq(1..MaxTasks)
    BY <2>1
  <2> QED BY <1>3, <2>1, <2>2 DEF Commit
<1>4. ASSUME NEW c \in Clients, NotifyOne(c) PROVE TypeOK'
  BY <1>4 DEF NotifyOne
<1>5. ASSUME NEW c \in Clients, NEW n \in Sizes, Resize(c, n) PROVE TypeOK'
  BY <1>5 DEF Resize
<1>6. ASSUME NEW c \in Clients, StoreTarget(c) PROVE TypeOK'
  <2>1. client[c].n \in Nat /\ client[c].old \in Nat
    OBVIOUS
  <2> QED BY <1>6, <2>1 DEF StoreTarget
<1>7. ASSUME NEW c \in Clients, AddWorkers(c) PROVE TypeOK'
  BY <1>7 DEF AddWorkers
<1>8. ASSUME NEW c \in Clients, Shutdown(c) \/ NotifyAll(c) \/ JoinAll(c) PROVE TypeOK'
  <2>1. CASE Shutdown(c)
    BY <2>1 DEF Shutdown
  <2>2. CASE NotifyAll(c)
    BY <2>2 DEF NotifyAll
  <2>3. CASE JoinAll(c)
    BY <2>3 DEF JoinAll
  <2> QED BY <1>8, <2>1, <2>2, <2>3
<1>9. ASSUME NEW c \in Clients, Drain(c) PROVE TypeOK'
  <2>1. nDropped + Len(tasks) \in 0..MaxTasks /\ <<>> \in Seq(1..MaxTasks)
    BY DEF TasksInOrder
  <2> QED BY <1>9, <2>1 DEF Drain
<1>10. CASE UNCHANGED vars
  BY <1>10
<1> QED
  BY <1>1, <1>2, <1>3, <1>4, <1>5, <1>6, <1>7, <1>8, <1>9, <1>10
  DEF Next, WorkerStep, ClientStep

\* The steps that leave the queue and the counts of tasks alone.
QueueUntouched == UNCHANGED <<tasks, nCommitted, nTaken, nDropped>>

\* Only TakeTask, Commit and Drain touch m_tasks.
LEMMA QueueSteps ==
  ASSUME [Next]_vars
  PROVE  \/ \E w \in Workers : TakeTask(w)
         \/ \E c \in Clients : Commit(c) \/ Drain(c)
         \/ QueueUntouched
  BY DEF Next, WorkerStep, ClientStep, WorkerExit, CheckWait, Block, FinishTask,
         SpuriousWakeup, NotifyOne, Resize, StoreTarget, AddWorkers, Shutdown,
         NotifyAll, JoinAll, QueueUntouched

\* Tasks leave the queue in the order in which Commit put them there.
LEMMA OrderStep == TypeOK /\ TasksInOrder /\ [Next]_vars => TasksInOrder'
<1> SUFFICES ASSUME TypeOK, TasksInOrder, [Next]_vars PROVE TasksInOrder'
  OBVIOUS
<1> USE PoolAssumption DEF TypeOK, TasksInOrder
<1>1. ASSUME NEW w \in Workers, TakeTask(w) PROVE TasksInOrder'
  BY <1>1 DEF TakeTask
<1>2. ASSUME NEW c \in Clients, Commit(c) PROVE TasksInOrder'
  <2>1. /\ Len(tasks) \in Nat /\ nCommitted' = nCommitted + 1
        /\ tasks' = Append(tasks, nCommitted + 1) /\ UNCHANGED <<nTaken, nDropped>>
    BY <1>2 DEF Commit
  <2>2. Len(tasks') = Len(tasks) + 1
    BY <2>1
  <2>3. \A i \in 1..Len(tasks') : tasks'[i] = IF i <= Len(tasks) THEN tasks[i] ELSE nCommitted + 1
    BY <2>1
  <2>4. ASSUME NEW i \in 1..Len(tasks') PROVE tasks'[i] = nTaken + nDropped + i
    <3>1. CASE i \in 1..Len(tasks)
      BY <2>3, <2>4, <3>1
    <3>2. CASE i = Len(tasks) + 1
      BY <2>1, <2>3, <2>4, <3>2
    <3> QED BY <2>1, <2>2, <2>4, <3>1, <3>2, SMTT(30)
  <2> QED BY <2>1, <2>2, <2>4
<1>3. ASSUME NEW c \in Clients, Drain(c) PROVE TasksInOrder'
  BY <1>3 DEF Drain
<1>4. CASE QueueUntouched
  BY <1>4 DEF QueueUntouched
<1> QED BY <1>1, <1>2, <1>3, <1>4, QueueSteps

\* The mutex keeps Commit out while a worker is about to block.
LEMMA CheckedStep == TypeOK /\ CheckedIsIdle /\ [Next]_vars => CheckedIsIdle'
<1> SUFFICES ASSUME TypeOK, CheckedIsIdle, [Next]_vars PROVE CheckedIsIdle'
  OBVIOUS
<1> USE DEF TypeOK, CheckedIsIdle
<1>1. ASSUME NEW w \in Workers,
             TakeTask(w) \/ WorkerExit(w) \/ CheckWait(w) \/ Block(w) \/ FinishTask(w)
               \/ SpuriousWakeup(w)
      PROVE  CheckedIsIdle'
  BY <1>1 DEF TakeTask, WorkerExit, CheckWait, Block, FinishTask, SpuriousWakeup, MutexFree
<1>2. ASSUME NEW c \in Clients, Commit(c) \/ Drain(c) PROVE CheckedIsIdle'
  BY <1>2 DEF Commit, Drain, MutexFree
<1>3. ASSUME NEW c \in Clients, NotifyOne(c) \/ AddWorkers(c) \/ NotifyAll(c)
      PROVE  CheckedIsIdle'
  BY <1>3 DEF NotifyOne, AddWorkers, NotifyAll
<1>4. ASSUME NEW c \in Clients, \/ \E n \in Sizes : Resize(c, n)
                                \/ StoreTarget(c) \/ Shutdown(c) \/ JoinAll(c)
      PROVE  CheckedIsIdle'
  BY <1>4 DEF Resize, StoreTarget, Shutdown, JoinAll
<1>5. CASE UNCHANGED vars
  BY <1>5
<1> QED BY <1>1, <1>2, <1>3, <1>4, <1>5 DEF Next, WorkerStep, ClientStep

\* No Commit gets a task into the queue once Shutdown has begun.
LEMMA ShutdownStep == TypeOK /\ ShutdownInv /\ [Next]_vars => ShutdownInv'
<1> SUFFICES ASSUME TypeOK, ShutdownInv, [Next]_vars PROVE ShutdownInv'
  OBVIOUS
<1> USE DEF TypeOK, ShutdownInv
<1>1. ASSUME NEW w \in Workers, TakeTask(w) PROVE ShutdownInv'
  BY <1>1 DEF TakeTask
<1>2. ASSUME NEW w \in Workers,
             WorkerExit(w) \/ CheckWait(w) \/ Block(w) \/ FinishTask(w) \/ SpuriousWakeup(w)
      PROVE  ShutdownInv'
  BY <1>2 DEF WorkerExit, CheckWait, Block, FinishTask, SpuriousWakeup
<1>3. ASSUME NEW c \in Clients, Commit(c) PROVE ShutdownInv'
  BY <1>3 DEF Commit
<1>4. ASSUME NEW c \in Clients, \/ \E n \in Sizes : Resize(c, n)
                                \/ NotifyOne(c) \/ StoreTarget(c) \/ AddWorkers(c)
      PROVE  ShutdownInv'
  <2>1. /\ UNCHANGED <<running, tasks>>
        /\ client'[c].op \in {"idle", "store", "grow"}
        /\ \A d \in Clients \ {c} : client'[d] = client[d]
    BY <1>4 DEF Resize, NotifyOne, StoreTarget, AddWorkers
  <2> QED BY <2>1
<1>5. ASSUME NEW c \in Clients, Shutdown(c) \/ NotifyAll(c) \/ Drain(c) \/ JoinAll(c)
      PROVE  ShutdownInv'
  <2>1. /\ \A d \in Clients \ {c} : client'[d] = client[d]
        /\ client'[c].op \in {"notifyAll", "drain", "join", "down"}
    BY <1>5 DEF Shutdown, NotifyAll, Drain, JoinAll
  <2>2. ~running' /\ (tasks = <<>> => tasks' = <<>>)
    BY <1>5 DEF Shutdown, NotifyAll, Drain, JoinAll
  <2>3. client'[c].op \in {"join", "down"} => tasks' = <<>>
    BY <1>5 DEF Shutdown, NotifyAll, Drain, JoinAll
  <2> QED BY <2>1, <2>2, <2>3
<1>6. CASE UNCHANGED vars
  BY <1>6
<1> QED BY <1>1, <1>2, <1>3, <1>4, <1>5, <1>6 DEF Next, WorkerStep, ClientStep

-----------------------------------------------------------------------------
(* Notifications.                                                          *)

\* The threads that are counted are finitely many.
LEMMA CountsAreFinite ==
  /\ IsFiniteSet(Looping) /\ Cardinality(Looping) \in Nat
  /\ IsFiniteSet(Notifying) /\ Cardinality(Notifying) \in Nat
<1>1. Looping \in SUBSET Workers /\ Notifying \in SUBSET Clients
  BY DEF Looping, Notifying
<1> QED BY <1>1, PoolAssumption, FS_Subset, FS_CardinalityType

\* The same of the state after a step.
LEMMA CountsStayFinite ==
  /\ IsFiniteSet(Looping') /\ Cardinality(Looping') \in Nat
  /\ IsFiniteSet(Notifying') /\ Cardinality(Notifying') \in Nat
<1>1. Looping' \in SUBSET Workers /\ Notifying' \in SUBSET Clients
  BY DEF Looping, Notifying
<1> QED BY <1>1, PoolAssumption, FS_Subset, FS_CardinalityType

\* A notification is spent on a waiting worker, or nobody waits: no task is
\* left without a thread that is on its way to it.
LEMMA WakerStep ==
  TypeOK /\ CheckedIsIdle /\ EveryTaskHasAWaker /\ [Next]_vars => EveryTaskHasAWaker'
<1> SUFFICES ASSUME TypeOK, CheckedIsIdle, EveryTaskHasAWaker, [Next]_vars
             PROVE  EveryTaskHasAWaker'
  OBVIOUS
<1> DEFINE Waits == \E w \in Workers : worker[w] = "waiting"
<1> USE CountsAreFinite, CountsStayFinite
<1>a. Len(tasks) \in Nat
  BY DEF TypeOK
\* A step that wakes nobody up to sleep and takes nobody off the count.
<1>b. ASSUME UNCHANGED tasks, Looping \subseteq Looping', Notifying' = Notifying,
             Waits' => Waits
      PROVE  EveryTaskHasAWaker'
  <2>1. Cardinality(Looping) <= Cardinality(Looping')
    BY <1>b, FS_Subset
  <2> QED BY <1>a, <1>b, <2>1 DEF EveryTaskHasAWaker
<1>c. ASSUME tasks' = <<>> PROVE EveryTaskHasAWaker'
  BY <1>c DEF EveryTaskHasAWaker
<1>1. ASSUME NEW w \in Workers, TakeTask(w) PROVE EveryTaskHasAWaker'
  <2>1. w \in Looping /\ Looping' = Looping \ {w} /\ Notifying' = Notifying
    BY <1>1 DEF TakeTask, Looping, Notifying, TypeOK
  <2>2. Cardinality(Looping') = Cardinality(Looping) - 1
    BY <2>1, FS_RemoveElement
  <2>3. Len(tasks') = Len(tasks) - 1
    BY <1>1 DEF TakeTask, TypeOK
  <2>4. Waits' => Waits
    BY <1>1 DEF TakeTask, TypeOK
  <2> QED BY <1>a, <2>1, <2>2, <2>3, <2>4 DEF EveryTaskHasAWaker
<1>2. ASSUME NEW w \in Workers, WorkerExit(w) \/ CheckWait(w) \/ Block(w)
      PROVE  EveryTaskHasAWaker'
  <2>1. tasks' = <<>>
    BY <1>2 DEF WorkerExit, CheckWait, Block, CheckedIsIdle
  <2> QED BY <2>1, <1>c
<1>3. ASSUME NEW w \in Workers, FinishTask(w) \/ SpuriousWakeup(w)
      PROVE  EveryTaskHasAWaker'
  <2>1. Looping \subseteq Looping' /\ (Waits' => Waits)
    BY <1>3 DEF FinishTask, SpuriousWakeup, Looping, TypeOK
  <2>2. Notifying' = Notifying /\ UNCHANGED tasks
    BY <1>3 DEF FinishTask, SpuriousWakeup, Notifying
  <2> QED BY <2>1, <2>2, <1>b
<1>4. ASSUME NEW c \in Clients, Commit(c) PROVE EveryTaskHasAWaker'
  <2>1. c \notin Notifying /\ Notifying' = Notifying \cup {c} /\ Looping' = Looping
    BY <1>4 DEF Commit, Looping, Notifying, TypeOK
  <2>2. Cardinality(Notifying') = Cardinality(Notifying) + 1
    BY <2>1, FS_AddElement
  <2>3. Len(tasks') = Len(tasks) + 1 /\ (Waits' => Waits)
    BY <1>4 DEF Commit, TypeOK
  <2> QED BY <1>a, <2>1, <2>2, <2>3 DEF EveryTaskHasAWaker
<1>5. ASSUME NEW c \in Clients, NotifyOne(c) PROVE EveryTaskHasAWaker'
  <2>1. CASE Waits
    <3>1. PICK w \in Workers : worker[w] = "waiting" /\ worker' = [worker EXCEPT ![w] = "loop"]
      BY <1>5, <2>1 DEF NotifyOne
    <3>2. w \notin Looping /\ Looping' = Looping \cup {w}
      BY <3>1 DEF Looping, TypeOK
    <3>3. c \in Notifying /\ Notifying' = Notifying \ {c}
      BY <1>5 DEF NotifyOne, Notifying, TypeOK
    <3>4. Cardinality(Looping') = Cardinality(Looping) + 1
      BY <3>2, FS_AddElement
    <3>5. Cardinality(Notifying') = Cardinality(Notifying) - 1
      BY <3>3, FS_RemoveElement
    <3>6. UNCHANGED tasks
      BY <1>5 DEF NotifyOne
    <3> QED BY <1>a, <2>1, <3>4, <3>5, <3>6 DEF EveryTaskHasAWaker
  <2>2. CASE ~Waits
    <3>1. ~Waits'
      BY <1>5, <2>2 DEF NotifyOne
    <3> QED BY <3>1 DEF EveryTaskHasAWaker
  <2> QED BY <2>1, <2>2
<1>6. ASSUME NEW c \in Clients, \/ \E n \in Sizes : Resize(c, n)
                                \/ StoreTarget(c) \/ Shutdown(c) \/ JoinAll(c)
      PROVE  EveryTaskHasAWaker'
  <2>1. UNCHANGED <<tasks, worker>> /\ Notifying' = Notifying
    BY <1>6, SMTT(30) DEF Resize, StoreTarget, Shutdown, JoinAll, Notifying, TypeOK
  <2>2. Looping' = Looping /\ (Waits' => Waits)
    BY <2>1 DEF Looping
  <2> QED BY <2>1, <2>2, <1>b
<1>7. ASSUME NEW c \in Clients, AddWorkers(c) PROVE EveryTaskHasAWaker'
  <2>1. Looping \subseteq Looping' /\ (Waits' => Waits)
    BY <1>7 DEF AddWorkers, Looping, TypeOK
  <2>2. Notifying' = Notifying /\ UNCHANGED tasks
    BY <1>7 DEF AddWorkers, Notifying, TypeOK
  <2> QED BY <2>1, <2>2, <1>b
<1>8. ASSUME NEW c \in Clients, NotifyAll(c) PROVE EveryTaskHasAWaker'
  BY <1>8 DEF NotifyAll, EveryTaskHasAWaker, TypeOK
<1>9. ASSUME NEW c \in Clients, Drain(c) PROVE EveryTaskHasAWaker'
  BY <1>9, <1>c DEF Drain
<1>10. CASE UNCHANGED vars
  BY <1>10, <1>b DEF Looping, Notifying
<1> QED
  BY <1>1, <1>2, <1>3, <1>4, <1>5, <1>6, <1>7, <1>8, <1>9, <1>10
  DEF Next, WorkerStep, ClientStep

-----------------------------------------------------------------------------
(* The theorems.                                                           *)

\* A pool fresh from its constructor satisfies the invariant.
LEMMA IInvInit == Init => IInv
<1> SUFFICES ASSUME Init PROVE IInv
  OBVIOUS
<1> USE PoolAssumption DEF Init
<1>1. Cardinality(Workers) \in Nat
  BY FS_CardinalityType
<1>2. TypeOK
  BY <1>1 DEF TypeOK, ClientOps
<1>3. TasksInOrder /\ CheckedIsIdle /\ ShutdownInv
  BY DEF TasksInOrder, CheckedIsIdle, ShutdownInv
<1>4. EveryTaskHasAWaker
  BY CountsAreFinite DEF EveryTaskHasAWaker
<1> QED BY <1>2, <1>3, <1>4 DEF IInv

\* The invariant holds in every reachable state of the pool.
THEOREM IInvHolds == Spec => []IInv
<1>1. IInv /\ [Next]_vars => IInv'
  BY TypeStep, OrderStep, CheckedStep, ShutdownStep, WakerStep DEF IInv
<1> QED BY <1>1, IInvInit, PTL DEF Spec

\* Commit, Resize, Shutdown and WorkerLoop keep the pool's members well typed.
THEOREM TypeCorrect == Spec => []TypeOK
<1>1. IInv => TypeOK
  BY DEF IInv
<1> QED BY <1>1, IInvHolds, PTL

\* Every task that Commit accepts is taken once, in order, or dropped by
\* Shutdown, with any number of threads.
THEOREM InOrder == Spec => []TasksInOrder
<1>1. IInv => TasksInOrder
  BY DEF IInv
<1> QED BY <1>1, IInvHolds, PTL

\* After Shutdown has emptied m_tasks no Commit fills it again.
THEOREM DrainedForGood == Spec => []NothingAfterDrain
<1>1. IInv => NothingAfterDrain
  BY DEF IInv, ShutdownInv, NothingAfterDrain
<1> QED BY <1>1, IInvHolds, PTL

\* No notify_one of Commit is lost, with any number of workers and clients.
THEOREM NoLostNotification == Spec => []EveryTaskHasAWaker
<1>1. IInv => EveryTaskHasAWaker
  BY DEF IInv
<1> QED BY <1>1, IInvHolds, PTL
=============================================================================
