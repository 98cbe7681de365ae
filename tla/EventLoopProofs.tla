-------------------------- MODULE EventLoopProofs --------------------------
(***************************************************************************)
(* Proofs of the safety properties of EventLoop for any set of threads,    *)
(* any delays and any bounds.  Each conjunct of the inductive invariant    *)
(* IInv has a lemma of its own, with one step per action that can disturb  *)
(* it; IInvHolds puts them together.                                       *)
(***************************************************************************)
EXTENDS EventLoop, TLAPS

USE DEF loopVars, pollVars, queueVars, timerVars, vars, Callbacks

-----------------------------------------------------------------------------
(* Type correctness.                                                       *)

\* PushFunctor, the locked part of QueueInLoop, keeps the queue well typed.
LEMMA PushFunctorType ==
  ASSUME QueueType, NEW from \in {"other", "new"} \cup Callbacks, PushFunctor(from)
  PROVE  QueueType'
  BY BoundsAssumption DEF QueueType, PushFunctor, Posts

\* PushTimer, the locked part of RunAt and RunEvery, keeps the timers well typed.
LEMMA PushTimerType ==
  ASSUME TimerType, PollType,
         NEW d \in Delays, NEW repeat \in BOOLEAN, PushTimer(d, repeat)
  PROVE  nextId \in TimerIds /\ TimerType'
<1>1. nextId \in TimerIds /\ nextId' \in 1..(MaxTimers + 1)
  BY BoundsAssumption DEF TimerType, PushTimer, TimerIds
<1>2. ClampDelay(d) \in Nat /\ ClampInterval(d) \in Nat
  BY BoundsAssumption DEF ClampDelay, ClampInterval
<1>3. /\ now + (IF repeat THEN ClampInterval(d) ELSE ClampDelay(d)) \in Nat
      /\ (IF repeat THEN ClampInterval(d) ELSE 0) \in Nat
  BY <1>2 DEF PollType
<1>4. expire' \in [TimerIds -> Nat] /\ interval' \in [TimerIds -> Nat]
  BY <1>3 DEF TimerType, PushTimer
<1> QED BY <1>1, <1>4 DEF TimerType, PushTimer

\* Every step of the loop and of its callers keeps the variables in their types.
LEMMA TypeStep == TypeOK /\ FunctorsInOrder /\ TimerInv /\ [Next]_vars => TypeOK'
<1> SUFFICES ASSUME TypeOK, FunctorsInOrder, TimerInv, [Next]_vars PROVE TypeOK'
  OBVIOUS
<1> USE ThreadsAssumption DEF TypeOK
<1>1. ASSUME NEW t \in Callers, QueueInLoop(t) PROVE TypeOK'
  <2>1. QueueType'
    <3>1. PushFunctor("new") \/ PushFunctor("other")
      BY <1>1 DEF QueueInLoop
    <3> QED BY <3>1, PushFunctorType
  <2>2. LoopType'
    BY <1>1 DEF QueueInLoop, LoopType
  <2>3. PollType' /\ TimerType'
    BY <1>1 DEF QueueInLoop, PollType, TimerType
  <2> QED BY <2>1, <2>2, <2>3
<1>2. ASSUME NEW t \in Callers, RunInLoop(t) PROVE TypeOK'
  <2>1. LoopType'
    BY <1>2 DEF RunInLoop, LoopType
  <2>2. QueueType' /\ PollType' /\ TimerType'
    BY <1>2 DEF RunInLoop, QueueType, PollType, TimerType
  <2> QED BY <2>1, <2>2
<1>3. ASSUME NEW t \in Callers, NEW d \in Delays, NEW repeat \in BOOLEAN,
             RunTimer(t, d, repeat)
      PROVE  TypeOK'
  <2>1. TimerType'
    BY <1>3, PushTimerType DEF RunTimer
  <2>2. LoopType'
    BY <1>3 DEF RunTimer, LoopType
  <2>3. PollType' /\ QueueType'
    BY <1>3 DEF RunTimer, PollType, QueueType
  <2> QED BY <2>1, <2>2, <2>3
<1>4. ASSUME NEW t \in Callers, NEW i \in TimerIds, Cancel(t, i) PROVE TypeOK'
  <2>1. TimerType'
    BY <1>4 DEF Cancel, CancelTimer, TimerType
  <2>2. LoopType'
    BY <1>4 DEF Cancel, LoopType
  <2>3. PollType' /\ QueueType'
    BY <1>4 DEF Cancel, PollType, QueueType
  <2> QED BY <2>1, <2>2, <2>3
<1>5. ASSUME NEW t \in Callers, Quit(t) \/ Wakeup(t) PROVE TypeOK'
  <2>1. LoopType'
    BY <1>5 DEF Quit, Wakeup, LoopType
  <2>2. PollType'
    BY <1>5 DEF Quit, Wakeup, PollType
  <2>3. TimerType' /\ QueueType'
    BY <1>5 DEF Quit, Wakeup, TimerType, QueueType
  <2> QED BY <2>1, <2>2, <2>3
<1>6. CASE Destroy \/ Join \/ LoopQuit
  <2>1. LoopType'
    BY <1>6 DEF Destroy, Join, LoopQuit, LoopType
  <2>2. PollType' /\ QueueType' /\ TimerType'
    BY <1>6 DEF Destroy, Join, LoopQuit, PollType, QueueType, TimerType
  <2> QED BY <2>1, <2>2
<1>7. CASE LoopQueueInLoop
  <2>1. QueueType'
    <3>1. pc \in {"other", "new"} \cup Callbacks /\ PushFunctor(pc)
      BY <1>7 DEF LoopQueueInLoop, OnLoopThread
    <3> QED BY <3>1, PushFunctorType
  <2>2. PollType'
    BY <1>7 DEF LoopQueueInLoop, PollType
  <2>3. LoopType' /\ TimerType'
    BY <1>7 DEF LoopQueueInLoop, LoopType, TimerType
  <2> QED BY <2>1, <2>2, <2>3
<1>8. ASSUME NEW d \in Delays, NEW repeat \in BOOLEAN, LoopRunTimer(d, repeat)
      PROVE  TypeOK'
  <2>1. TimerType'
    BY <1>8, PushTimerType DEF LoopRunTimer
  <2>2. PollType'
    BY <1>8 DEF LoopRunTimer, PollType
  <2>3. LoopType' /\ QueueType'
    BY <1>8 DEF LoopRunTimer, LoopType, QueueType
  <2> QED BY <2>1, <2>2, <2>3
<1>9. ASSUME NEW i \in TimerIds, LoopCancel(i) PROVE TypeOK'
  <2>1. TimerType'
    BY <1>9 DEF LoopCancel, CancelTimer, TimerType
  <2>2. LoopType' /\ PollType' /\ QueueType'
    BY <1>9 DEF LoopCancel, LoopType, PollType, QueueType
  <2> QED BY <2>1, <2>2
<1>10. CASE ThreadStart \/ EnterLoop \/ ExitLoop
  <2>1. LoopType'
    BY <1>10 DEF ThreadStart, EnterLoop, ExitLoop, LoopType
  <2>2. PollType' /\ QueueType' /\ TimerType'
    BY <1>10 DEF ThreadStart, EnterLoop, ExitLoop, PollType, QueueType, TimerType
  <2> QED BY <2>1, <2>2
<1>11. CASE GetPollTimeoutMs
  <2>1. PollType'
    BY <1>11, BoundsAssumption DEF GetPollTimeoutMs, PollType
  <2>2. TimerType'
    BY <1>11 DEF GetPollTimeoutMs, TimerType
  <2>3. LoopType' /\ QueueType'
    BY <1>11 DEF GetPollTimeoutMs, LoopType, QueueType
  <2> QED BY <2>1, <2>2, <2>3
<1>12. CASE PollWakes \/ PollEvent
  <2>1. LoopType' /\ PollType'
    BY <1>12 DEF PollWakes, PollEvent, PollReturns, LoopType, PollType
  <2>2. QueueType' /\ TimerType'
    BY <1>12 DEF PollWakes, PollEvent, PollReturns, QueueType, TimerType
  <2> QED BY <2>1, <2>2
<1>13. CASE HandleWakeupRead \/ EnterHandler \/ LeaveHandler
  <2>1. LoopType' /\ PollType'
    BY <1>13 DEF HandleWakeupRead, EnterHandler, LeaveHandler, LoopType, PollType
  <2>2. QueueType' /\ TimerType'
    BY <1>13 DEF HandleWakeupRead, EnterHandler, LeaveHandler, QueueType, TimerType
  <2> QED BY <2>1, <2>2
<1>14. CASE SwapPending \/ LeaveFunctor \/ FinishPending
  <2>1. LoopType'
    BY <1>14 DEF SwapPending, LeaveFunctor, FinishPending, LoopType
  <2>2. QueueType'
    <3>1. <<>> \in Seq(Posts)
      OBVIOUS
    <3> QED BY <1>14, <3>1 DEF SwapPending, LeaveFunctor, FinishPending, QueueType
  <2>3. PollType' /\ TimerType'
    BY <1>14 DEF SwapPending, LeaveFunctor, FinishPending, PollType, TimerType
  <2> QED BY <2>1, <2>2, <2>3
<1>15. CASE RunFunctor
  <2>1. Len(batch) \in Nat \ {0} /\ Len(pending) \in Nat
    BY <1>15 DEF RunFunctor, QueueType
  <2>2. nRun + 1 \in 0..MaxPosts
    BY <2>1, BoundsAssumption DEF FunctorsInOrder, QueueType
  <2>3. QueueType'
    BY <1>15, <2>2 DEF RunFunctor, QueueType
  <2>4. LoopType'
    BY <1>15 DEF RunFunctor, LoopType
  <2>5. PollType' /\ TimerType'
    BY <1>15 DEF RunFunctor, PollType, TimerType
  <2> QED BY <2>3, <2>4, <2>5
<1>16. CASE CollectExpired
  <2>1. TimerType'
    BY <1>16 DEF CollectExpired, TimerType
  <2>2. LoopType' /\ PollType' /\ QueueType'
    BY <1>16 DEF CollectExpired, LoopType, PollType, QueueType
  <2> QED BY <2>1, <2>2
<1>17. ASSUME NEW i \in TimerIds, CheckTimer(i) PROVE TypeOK'
  <2>1. TimerType'
    BY <1>17 DEF CheckTimer, TimerType
  <2>2. LoopType' /\ PollType' /\ QueueType'
    BY <1>17 DEF CheckTimer, LoopType, PollType, QueueType
  <2> QED BY <2>1, <2>2
<1>18. CASE CallTimer
  <2>1. cur \in TimerIds
    BY <1>18 DEF CallTimer, TimerInv, TimerType
  <2>2. TimerType'
    BY <1>18, <2>1 DEF CallTimer, TimerType
  <2>3. LoopType' /\ PollType' /\ QueueType'
    BY <1>18 DEF CallTimer, LoopType, PollType, QueueType
  <2> QED BY <2>2, <2>3
<1>19. CASE LeaveTimer \/ FinishTimers
  <2>1. LoopType'
    BY <1>19 DEF LeaveTimer, FinishTimers, LoopType
  <2>2. PollType' /\ QueueType' /\ TimerType'
    BY <1>19 DEF LeaveTimer, FinishTimers, PollType, QueueType, TimerType
  <2> QED BY <2>1, <2>2
<1>20. CASE SettleTimer
  <2>1. cur \in TimerIds
    BY <1>20 DEF SettleTimer, TimerInv, TimerType
  <2>2. TimerType'
    BY <1>20, <2>1 DEF SettleTimer, TimerType, PollType
  <2>3. LoopType' /\ PollType' /\ QueueType'
    BY <1>20 DEF SettleTimer, LoopType, PollType, QueueType
  <2> QED BY <2>2, <2>3
<1>21. CASE Tick
  <2>1. PollType'
    BY <1>21 DEF Tick, PollType
  <2>2. LoopType' /\ QueueType' /\ TimerType'
    BY <1>21 DEF Tick, LoopType, QueueType, TimerType
  <2> QED BY <2>1, <2>2
<1>22. CASE UNCHANGED vars
  BY <1>22 DEF LoopType, PollType, QueueType, TimerType
<1> QED
  BY <1>1, <1>2, <1>3, <1>4, <1>5, <1>6, <1>7, <1>8, <1>9, <1>10, <1>11, <1>12,
     <1>13, <1>14, <1>15, <1>16, <1>17, <1>18, <1>19, <1>20, <1>21, <1>22
  DEF Next, ForeignCall, LoopCall, LoopStep

-----------------------------------------------------------------------------
(* Where the loop thread is.                                               *)

\* m_threadId and m_callingPendingFunctors follow the loop thread's control.
LEMMA LoopInvStep == TypeOK /\ LoopInv /\ [Next]_vars => LoopInv'
<1> SUFFICES ASSUME TypeOK, LoopInv, [Next]_vars PROVE LoopInv'
  OBVIOUS
<1> USE ThreadsAssumption DEF LoopInv
<1>1. ASSUME NEW t \in Callers, ForeignCall(t) \/ Wakeup(t) PROVE LoopInv'
  <2>1. UNCHANGED <<pc, threadId, calling, batch>>
    BY <1>1 DEF ForeignCall, Wakeup, QueueInLoop, PushFunctor, RunInLoop, RunTimer, Cancel, Quit
  <2> QED BY <2>1
<1>2. CASE Destroy \/ Join \/ LoopCall
  <2>1. UNCHANGED <<pc, threadId, calling, batch>>
    BY <1>2 DEF Destroy, Join, LoopCall, LoopQueueInLoop, PushFunctor, LoopRunTimer,
                LoopCancel, LoopQuit
  <2> QED BY <2>1
<1>3. CASE ThreadStart \/ EnterLoop \/ ExitLoop
  BY <1>3 DEF ThreadStart, EnterLoop, ExitLoop, IsInLoopThread
<1>4. CASE GetPollTimeoutMs \/ PollWakes \/ PollEvent
  BY <1>4 DEF GetPollTimeoutMs, PollWakes, PollEvent, PollReturns
<1>5. CASE HandleWakeupRead \/ EnterHandler \/ LeaveHandler
  BY <1>5 DEF HandleWakeupRead, EnterHandler, LeaveHandler
<1>6. CASE SwapPending \/ RunFunctor \/ LeaveFunctor \/ FinishPending
  BY <1>6 DEF SwapPending, RunFunctor, LeaveFunctor, FinishPending
<1>7. CASE CollectExpired \/ CallTimer \/ LeaveTimer \/ SettleTimer \/ FinishTimers
  BY <1>7 DEF CollectExpired, CallTimer, LeaveTimer, SettleTimer, FinishTimers
<1>8. ASSUME NEW i \in TimerIds, CheckTimer(i) PROVE LoopInv'
  BY <1>8 DEF CheckTimer
<1>9. CASE Tick \/ UNCHANGED vars
  BY <1>9 DEF Tick
<1> QED
  BY <1>1, <1>2, <1>3, <1>4, <1>5, <1>6, <1>7, <1>8, <1>9 DEF Next, LoopStep

-----------------------------------------------------------------------------
(* The queue of functors.                                                  *)

\* A functor pushed at the back is the next one in order.
LEMMA PushFunctorInOrder ==
  ASSUME QueueType, FunctorsInOrder, NEW from, PushFunctor(from)
  PROVE  FunctorsInOrder'
  BY BoundsAssumption DEF QueueType, FunctorsInOrder, PushFunctor

\* No step reorders, drops or duplicates a queued functor.
LEMMA FunctorsStep == TypeOK /\ LoopInv /\ FunctorsInOrder /\ [Next]_vars => FunctorsInOrder'
<1> SUFFICES ASSUME TypeOK, LoopInv, FunctorsInOrder, [Next]_vars PROVE FunctorsInOrder'
  OBVIOUS
<1>1. ASSUME NEW t \in Callers, QueueInLoop(t) PROVE FunctorsInOrder'
  BY <1>1, PushFunctorInOrder DEF QueueInLoop, TypeOK
<1>2. CASE LoopQueueInLoop
  BY <1>2, PushFunctorInOrder DEF LoopQueueInLoop, TypeOK
<1>3. CASE SwapPending
  <2>1. batch = <<>>
    BY <1>3 DEF SwapPending, LoopInv
  <2> QED BY <1>3, <2>1 DEF SwapPending, FunctorsInOrder, TypeOK, QueueType
<1>4. CASE RunFunctor
  BY <1>4 DEF RunFunctor, FunctorsInOrder, TypeOK, QueueType
<1>5. CASE UNCHANGED queueVars
  BY <1>5 DEF FunctorsInOrder
<1>6. ASSUME NEW t \in Callers, ForeignCall(t) \/ Wakeup(t), ~QueueInLoop(t)
      PROVE  UNCHANGED queueVars
  BY <1>6 DEF ForeignCall, Wakeup, RunInLoop, RunTimer, Cancel, Quit
<1>7. CASE Destroy \/ Join \/ Tick \/ (LoopCall /\ ~LoopQueueInLoop)
  BY <1>5, <1>7 DEF Destroy, Join, Tick, LoopCall, LoopRunTimer, LoopCancel, LoopQuit
<1>8. CASE LoopStep /\ ~SwapPending /\ ~RunFunctor
  BY <1>5, <1>8
  DEF LoopStep, ThreadStart, EnterLoop, ExitLoop, GetPollTimeoutMs, PollWakes,
      PollReturns, HandleWakeupRead, EnterHandler, LeaveHandler, LeaveFunctor,
      FinishPending, CollectExpired, CheckTimer, CallTimer, LeaveTimer, SettleTimer,
      FinishTimers
<1>9. CASE PollEvent \/ UNCHANGED vars
  BY <1>5, <1>9 DEF PollEvent, PollReturns
<1> QED
  BY <1>1, <1>2, <1>3, <1>4, <1>5, <1>6, <1>7, <1>8, <1>9 DEF Next

-----------------------------------------------------------------------------
(* Wakeups.                                                                *)

\* A foreign thread that begins a call leaves every wakeup that is coming on
\* its way.
LEMMA CallKeepsWakeup ==
  ASSUME TypeOK, WakeupComing, NEW t \in Callers, NEW s \in {"post", "signal", "destroy"},
         caller[t] = "idle", caller' = [caller EXCEPT ![t] = s], threadId' = threadId
  PROVE  WakeupComing'
  BY DEF WakeupComing, IsInLoopThread, TypeOK, LoopType

\* While the loop thread runs, every call of another thread ends in a wakeup.
LEMMA CallBringsWakeup ==
  ASSUME TypeOK, NEW t \in Callers, NEW s \in {"post", "signal", "destroy"},
         caller' = [caller EXCEPT ![t] = s], threadId' # t
  PROVE  WakeupComing'
  BY DEF WakeupComing, IsInLoopThread, TypeOK, LoopType

\* The functors that need no wakeup: queued by a timer callback or before Loop().
QuietQueue == \A k \in 1..Len(pending) : origin[pending[k]] \in {"new", "timercb"}

\* Pushing a functor leaves the origins of those already queued alone.
LEMMA PushQuiet ==
  ASSUME QueueType, FunctorsInOrder, QuietQueue,
         NEW from \in {"new", "timercb"}, PushFunctor(from)
  PROVE  QuietQueue'
<1>1. /\ nPosted + 1 \in Posts
      /\ Len(pending) \in Nat /\ Len(pending') = Len(pending) + 1
      /\ pending'[Len(pending) + 1] = nPosted + 1
      /\ \A k \in 1..Len(pending) : pending'[k] = pending[k]
  BY BoundsAssumption DEF QueueType, PushFunctor, Posts
<1>2. \A k \in 1..Len(pending) : pending[k] \in Posts /\ pending[k] # nPosted + 1
  <2>1. \A k \in 1..Len(pending) : pending[k] \in Posts
    BY DEF QueueType
  <2>2. \A k \in 1..Len(pending) : pending[k] # nPosted + 1
    BY DEF QueueType, FunctorsInOrder
  <2> QED BY <2>1, <2>2
<1>3. origin'[nPosted + 1] = from
  BY <1>1 DEF QueueType, PushFunctor
<1>4. \A k \in Posts : k # nPosted + 1 => origin'[k] = origin[k]
  BY DEF QueueType, PushFunctor
<1>5. SUFFICES ASSUME NEW k \in 1..Len(pending')
               PROVE  origin'[pending'[k]] \in {"new", "timercb"}
  BY DEF QuietQueue
<1>6. CASE k \in 1..Len(pending)
  BY <1>1, <1>2, <1>4, <1>6 DEF QuietQueue
<1>7. CASE k = Len(pending) + 1
  BY <1>1, <1>3, <1>7
<1> QED BY <1>1, <1>5, <1>6, <1>7

\* A functor that deserves a wakeup has one written, coming, or needs none.
LEMMA WakeStep ==
  TypeOK /\ LoopInv /\ FunctorsInOrder /\ WakeInv /\ [Next]_vars => WakeInv'
<1> SUFFICES ASSUME TypeOK, LoopInv, FunctorsInOrder, WakeInv, [Next]_vars PROVE WakeInv'
  OBVIOUS
<1> USE ThreadsAssumption
<1>a. WakeInv <=> pc \in {"io", "handler"} \/ wakeFd \/ WakeupComing \/ QuietQueue
  BY DEF WakeInv, QuietQueue
<1>b. WakeInv' <=> pc' \in {"io", "handler"} \/ wakeFd' \/ WakeupComing' \/ QuietQueue'
  BY DEF WakeInv, QuietQueue
<1>c. ASSUME UNCHANGED <<pending, origin>> PROVE QuietQueue' <=> QuietQueue
  BY <1>c DEF QuietQueue
<1>d. ASSUME UNCHANGED <<caller, threadId>> PROVE WakeupComing' <=> WakeupComing
  BY <1>d DEF WakeupComing, IsInLoopThread
<1>1. ASSUME NEW t \in Callers, QueueInLoop(t) PROVE WakeInv'
  <2>1. /\ caller[t] = "idle" /\ caller' = [caller EXCEPT ![t] = "post"]
        /\ UNCHANGED <<threadId, pc, wakeFd>>
    BY <1>1 DEF QueueInLoop, CallerIdle
  <2>2. CASE IsInLoopThread(t)
    <3>1. PushFunctor("new")
      BY <1>1, <2>2 DEF QueueInLoop
    <3>2. WakeupComing => WakeupComing'
      BY <2>1, CallKeepsWakeup
    <3>3. QuietQueue => QuietQueue'
      BY <3>1, PushQuiet DEF TypeOK
    <3> QED BY <1>a, <1>b, <2>1, <3>2, <3>3
  <2>3. CASE ~IsInLoopThread(t)
    BY <1>b, <2>1, <2>3, CallBringsWakeup DEF IsInLoopThread
  <2> QED BY <2>2, <2>3
<1>2. ASSUME NEW t \in Callers, ForeignCall(t), ~QueueInLoop(t), ~RunInLoop(t)
      PROVE  WakeInv'
  <2>1. PICK s \in {"post", "signal", "destroy"} :
             /\ caller[t] = "idle" /\ caller' = [caller EXCEPT ![t] = s]
             /\ UNCHANGED <<threadId, pc, wakeFd, pending, origin>>
    BY <1>2 DEF ForeignCall, RunTimer, Cancel, Quit, CallerIdle
  <2>2. WakeupComing => WakeupComing'
    BY <2>1, CallKeepsWakeup
  <2> QED BY <1>a, <1>b, <1>c, <2>1, <2>2
<1>3. ASSUME NEW t \in Callers, RunInLoop(t) PROVE WakeInv'
  BY <1>3, <1>a, <1>b, <1>c, <1>d DEF RunInLoop
<1>4. ASSUME NEW t \in Callers, Wakeup(t) PROVE WakeInv'
  <2>1. CASE IsInLoopThread(t)
    <3>1. WakeupComing => WakeupComing'
      BY <1>4, <2>1 DEF Wakeup, WakeupComing, IsInLoopThread, TypeOK, LoopType
    <3>2. UNCHANGED <<pc, pending, origin>> /\ (wakeFd => wakeFd')
      BY <1>4 DEF Wakeup
    <3> QED BY <1>a, <1>b, <1>c, <3>1, <3>2
  <2>2. CASE ~IsInLoopThread(t)
    BY <1>4, <1>b, <2>2 DEF Wakeup
  <2> QED BY <2>1, <2>2
<1>5. CASE Destroy
  <2>1. /\ caller[Creator] = "idle" /\ caller' = [caller EXCEPT ![Creator] = "destroy"]
        /\ UNCHANGED <<threadId, pc, wakeFd, pending, origin>>
    BY <1>5 DEF Destroy
  <2>2. WakeupComing => WakeupComing'
    BY <2>1, CallKeepsWakeup
  <2> QED BY <1>a, <1>b, <1>c, <2>1, <2>2
<1>6. CASE Join
  <2>1. WakeupComing => WakeupComing'
    BY <1>6 DEF Join, WakeupComing, IsInLoopThread, TypeOK, LoopType
  <2>2. UNCHANGED <<pc, wakeFd, pending, origin>>
    BY <1>6 DEF Join
  <2> QED BY <1>a, <1>b, <1>c, <2>1, <2>2
<1>7. CASE LoopQueueInLoop
  <2>1. UNCHANGED <<pc, caller, threadId>> /\ (wakeFd => wakeFd') /\ (calling => wakeFd')
    BY <1>7 DEF LoopQueueInLoop
  <2>2. CASE pc \in {"new", "timercb"}
    <3>1. QuietQueue => QuietQueue'
      BY <1>7, <2>2, PushQuiet DEF LoopQueueInLoop, TypeOK
    <3> QED BY <1>a, <1>b, <1>d, <2>1, <3>1
  <2>3. CASE pc = "handler"
    BY <1>b, <2>1, <2>3
  <2>4. CASE pc = "functor"
    BY <1>b, <2>1, <2>4 DEF LoopInv
  <2> QED BY <1>7, <2>2, <2>3, <2>4 DEF LoopQueueInLoop, OnLoopThread
<1>8. CASE LoopCall /\ ~LoopQueueInLoop
  <2>1. UNCHANGED <<pc, caller, threadId, pending, origin>> /\ (wakeFd => wakeFd')
    <3>1. ASSUME NEW d \in Delays, NEW repeat \in BOOLEAN, LoopRunTimer(d, repeat)
          PROVE  UNCHANGED <<pc, caller, threadId, pending, origin>> /\ (wakeFd => wakeFd')
      BY <3>1 DEF LoopRunTimer
    <3>2. ASSUME (\E i \in TimerIds : LoopCancel(i)) \/ LoopQuit
          PROVE  UNCHANGED <<pc, caller, threadId, pending, origin, wakeFd>>
      BY <3>2 DEF LoopCancel, LoopQuit
    <3> QED BY <1>8, <3>1, <3>2 DEF LoopCall
  <2> QED BY <1>a, <1>b, <1>c, <1>d, <2>1
<1>9. CASE ThreadStart
  <2>1. WakeupComing => WakeupComing'
    BY <1>9 DEF ThreadStart, WakeupComing, IsInLoopThread
  <2>2. UNCHANGED <<wakeFd, pending, origin>> /\ pc = "new"
    BY <1>9 DEF ThreadStart
  <2> QED BY <1>a, <1>b, <1>c, <2>1, <2>2
<1>10. CASE PollWakes \/ PollEvent \/ HandleWakeupRead \/ EnterHandler \/ LeaveHandler
  <2>1. pc' \in {"io", "handler"}
    BY <1>10 DEF PollWakes, PollEvent, PollReturns, HandleWakeupRead, EnterHandler, LeaveHandler
  <2> QED BY <1>b, <2>1
<1>11. CASE SwapPending
  <2>1. QuietQueue'
    BY <1>11 DEF SwapPending, QuietQueue
  <2> QED BY <1>b, <2>1
<1>12. CASE \/ EnterLoop \/ ExitLoop \/ GetPollTimeoutMs \/ RunFunctor \/ LeaveFunctor
            \/ FinishPending \/ CollectExpired \/ (\E i \in TimerIds : CheckTimer(i))
            \/ CallTimer \/ LeaveTimer \/ SettleTimer \/ FinishTimers
            \/ Tick \/ UNCHANGED vars
  <2>1. UNCHANGED <<caller, threadId, wakeFd, pending, origin>>
    BY <1>12
    DEF EnterLoop, ExitLoop, GetPollTimeoutMs, RunFunctor, LeaveFunctor, FinishPending,
        CollectExpired, CheckTimer, CallTimer, LeaveTimer, SettleTimer, FinishTimers, Tick
  <2>2. pc \in {"io", "handler"} => pc' = pc
    BY <1>12
    DEF EnterLoop, ExitLoop, GetPollTimeoutMs, RunFunctor, LeaveFunctor, FinishPending,
        CollectExpired, CheckTimer, CallTimer, LeaveTimer, SettleTimer, FinishTimers, Tick
  <2> QED BY <1>a, <1>b, <1>c, <1>d, <2>1, <2>2
<1> QED
  BY <1>1, <1>2, <1>3, <1>4, <1>5, <1>6, <1>7, <1>8, <1>9, <1>10, <1>11, <1>12
  DEF Next, LoopStep

\* The timeout Poll was called with covers every live timer, or a wakeup is
\* written or coming.
LEMMA SleepStep == TypeOK /\ LoopInv /\ SleepInv /\ [Next]_vars => SleepInv'
<1> SUFFICES ASSUME TypeOK, LoopInv, SleepInv, [Next]_vars, pc' = "poll"
             PROVE  \/ wakeFd' \/ WakeupComing' \/ deadline' <= now'
                    \/ \A i \in heap' : Active(i)' => deadline' <= expire'[i]
  BY DEF SleepInv
<1> USE ThreadsAssumption
<1>1. ASSUME NEW t \in Callers, ForeignCall(t) PROVE WakeupComing'
  <2>1. threadId = LoopThread /\ ~RunInLoop(t)
    BY <1>1 DEF LoopInv, ForeignCall, QueueInLoop, RunInLoop, RunTimer, Cancel, Quit,
                IsInLoopThread
  <2>2. PICK s \in {"post", "signal", "destroy"} :
             caller' = [caller EXCEPT ![t] = s] /\ threadId' = threadId
    BY <1>1, <2>1 DEF ForeignCall, QueueInLoop, RunTimer, Cancel, Quit
  <2> QED BY <2>1, <2>2, CallBringsWakeup
<1>2. ASSUME NEW t \in Callers, Wakeup(t) PROVE wakeFd'
  BY <1>2 DEF Wakeup, IsInLoopThread, LoopInv
<1>3. CASE Destroy
  <2>1. /\ threadId' = LoopThread /\ caller' = [caller EXCEPT ![Creator] = "destroy"]
    BY <1>3 DEF Destroy, LoopInv
  <2> QED BY <2>1, CallBringsWakeup
<1>4. CASE GetPollTimeoutMs
  BY <1>4 DEF GetPollTimeoutMs, PollTimeout, Active, TypeOK, PollType, TimerType
<1>5. CASE Tick
  <2>1. UNCHANGED <<pc, wakeFd, caller, threadId, heap, timers, cancelled, expire, deadline>>
    BY <1>5 DEF Tick
  <2>2. deadline <= now => deadline' <= now'
    BY <1>5 DEF Tick, TypeOK, PollType
  <2> QED BY <2>1, <2>2 DEF SleepInv, WakeupComing, IsInLoopThread, Active
<1>6. CASE UNCHANGED vars
  BY <1>6 DEF SleepInv, WakeupComing, IsInLoopThread, Active
<1>7. ~Join /\ ~LoopCall /\ ~PollEvent
  BY DEF Join, LoopCall, LoopQueueInLoop, LoopRunTimer, LoopCancel, LoopQuit, OnLoopThread,
         PollEvent, PollReturns
<1>8. LoopStep => GetPollTimeoutMs
  BY DEF LoopStep, ThreadStart, EnterLoop, ExitLoop, PollWakes, PollReturns,
         HandleWakeupRead, EnterHandler, LeaveHandler, SwapPending, RunFunctor,
         LeaveFunctor, FinishPending, CollectExpired, CheckTimer, CallTimer, LeaveTimer,
         SettleTimer, FinishTimers
<1> QED BY <1>1, <1>2, <1>3, <1>4, <1>5, <1>6, <1>7, <1>8 DEF Next

-----------------------------------------------------------------------------
(* Timers.                                                                 *)

\* A new timer is registered under a fresh id and waits in the heap.
LEMMA PushTimerInv ==
  ASSUME TypeOK, TimerInv, OneShotInv, CancelInv, NEW d \in Delays, NEW repeat \in BOOLEAN,
         PushTimer(d, repeat), pc' = pc
  PROVE  TimerInv' /\ OneShotInv' /\ CancelInv'
<1>1. nextId \in TimerIds /\ nextId \in Nat
  BY PushTimerType DEF TypeOK, TimerIds
<1>2. TimerInv'
  BY <1>1 DEF PushTimer, TimerInv, NoTimerLost, TypeOK, TimerType, TimerIds
<1>3. OneShotInv'
  BY <1>1 DEF PushTimer, TimerInv, OneShotInv, TypeOK, TimerType
<1>4. CancelInv'
  BY DEF PushTimer, CancelInv
<1> QED BY <1>2, <1>3, <1>4

\* A cancelled timer leaves m_timers and stays cancelled.
LEMMA CancelTimerInv ==
  ASSUME TypeOK, TimerInv, OneShotInv, CancelInv, NEW i \in TimerIds, CancelTimer(i), pc' = pc,
         loopCancelled' \subseteq loopCancelled \cup {i},
         pc = "call" => loopCancelled' = loopCancelled
  PROVE  TimerInv' /\ OneShotInv' /\ CancelInv'
<1>1. TimerInv'
  BY DEF CancelTimer, TimerInv, NoTimerLost, TypeOK, TimerType
<1>2. OneShotInv'
  BY DEF CancelTimer, OneShotInv
<1>3. \A j \in TimerIds : cancelled[j] \/ j = i => cancelled'[j]
  BY DEF CancelTimer, TypeOK, TimerType
<1>4. CancelInv'
  BY <1>3 DEF CancelTimer, CancelInv, TypeOK, TimerType
<1> QED BY <1>1, <1>2, <1>4

\* No step loses a timer, runs a one-shot timer twice or revives one that the
\* loop thread has cancelled.
LEMMA TimerStep ==
  TypeOK /\ TimerInv /\ OneShotInv /\ CancelInv /\ [Next]_vars
    => TimerInv' /\ OneShotInv' /\ CancelInv'
<1> SUFFICES ASSUME TypeOK, TimerInv, OneShotInv, CancelInv, [Next]_vars
             PROVE  TimerInv' /\ OneShotInv' /\ CancelInv'
  OBVIOUS
<1>1. ASSUME NEW t \in Callers, NEW d \in Delays, NEW repeat \in BOOLEAN,
             RunTimer(t, d, repeat)
      PROVE  TimerInv' /\ OneShotInv' /\ CancelInv'
  BY <1>1, PushTimerInv DEF RunTimer
<1>2. ASSUME NEW d \in Delays, NEW repeat \in BOOLEAN, LoopRunTimer(d, repeat)
      PROVE  TimerInv' /\ OneShotInv' /\ CancelInv'
  BY <1>2, PushTimerInv DEF LoopRunTimer
<1>3. ASSUME NEW t \in Callers, NEW i \in TimerIds, Cancel(t, i)
      PROVE  TimerInv' /\ OneShotInv' /\ CancelInv'
  BY <1>3, CancelTimerInv DEF Cancel
<1>4. ASSUME NEW i \in TimerIds, LoopCancel(i)
      PROVE  TimerInv' /\ OneShotInv' /\ CancelInv'
  <2>1. CancelTimer(i) /\ pc' = pc /\ pc # "call" /\ loopCancelled' = loopCancelled \cup {i}
    BY <1>4 DEF LoopCancel, OnLoopThread
  <2> QED BY <2>1, CancelTimerInv
<1>5. CASE GetPollTimeoutMs
  <2>1. PICK S \in SUBSET heap : DeadOnTop(S) /\ heap' = heap \ S
    BY <1>5 DEF GetPollTimeoutMs
  <2>2. S \cap timers = {}
    BY <2>1 DEF DeadOnTop, Active, TimerInv
  <2>3. pc = "top" /\ pc' = "poll"
        /\ UNCHANGED <<timers, ready, cur, expire, interval, cancelled, nextId, fired, loopCancelled>>
    BY <1>5 DEF GetPollTimeoutMs
  <2>4. TimerInv'
    BY <2>1, <2>2, <2>3 DEF TimerInv, NoTimerLost
  <2>5. OneShotInv' /\ CancelInv'
    BY <2>1, <2>3 DEF OneShotInv, CancelInv, TimerInv
  <2> QED BY <2>4, <2>5
<1>6. CASE CollectExpired
  <2>1. TimerInv'
    BY <1>6 DEF CollectExpired, TimerInv, NoTimerLost, Active, TypeOK, TimerType
  <2>2. OneShotInv'
    BY <1>6 DEF CollectExpired, OneShotInv
  <2>3. CancelInv'
    BY <1>6 DEF CollectExpired, CancelInv
  <2> QED BY <2>1, <2>2, <2>3
<1>7. ASSUME NEW i \in TimerIds, CheckTimer(i)
      PROVE  TimerInv' /\ OneShotInv' /\ CancelInv'
  <2>1. TimerInv'
    BY <1>7 DEF CheckTimer, TimerInv, NoTimerLost
  <2>2. OneShotInv'
    BY <1>7 DEF CheckTimer, OneShotInv
  <2>3. CancelInv'
    BY <1>7 DEF CheckTimer, CancelInv
  <2> QED BY <2>1, <2>2, <2>3
<1>8. CASE CallTimer
  <2>1. cur \in TimerIds /\ cur \in ready /\ cur \notin heap
    BY <1>8 DEF CallTimer, TimerInv, NoTimerLost, TypeOK, TimerType
  <2>2. TimerInv'
    BY <1>8, <2>1 DEF CallTimer, TimerInv, NoTimerLost, TypeOK, TimerType
  <2>3. OneShotInv'
    BY <1>8, <2>1 DEF CallTimer, OneShotInv, TypeOK, TimerType
  <2>4. CancelInv'
    BY <1>8 DEF CallTimer, CancelInv
  <2> QED BY <2>2, <2>3, <2>4
<1>9. CASE LeaveTimer \/ FinishTimers
  <2>1. TimerInv'
    BY <1>9 DEF LeaveTimer, FinishTimers, TimerInv, NoTimerLost
  <2>2. OneShotInv' /\ CancelInv'
    BY <1>9 DEF LeaveTimer, FinishTimers, OneShotInv, CancelInv
  <2> QED BY <2>1, <2>2
<1>10. CASE SettleTimer
  <2>1. cur \in TimerIds /\ cur \in ready /\ cur \notin heap
    BY <1>10 DEF SettleTimer, TimerInv, NoTimerLost, TypeOK, TimerType
  <2>2. TimerInv'
    BY <1>10, <2>1 DEF SettleTimer, TimerInv, NoTimerLost, Active, TypeOK, TimerType
  <2>3. OneShotInv'
    BY <1>10, <2>1 DEF SettleTimer, OneShotInv, TypeOK, TimerType
  <2>4. CancelInv'
    BY <1>10 DEF SettleTimer, CancelInv
  <2> QED BY <2>2, <2>3, <2>4
<1>11. ASSUME UNCHANGED timerVars,
              \/ pc' = pc
              \/ /\ pc \notin {"timers", "call", "timercb", "settle"}
                 /\ pc' \notin {"call", "timercb", "settle"}
       PROVE  TimerInv' /\ OneShotInv' /\ CancelInv'
  BY <1>11 DEF TimerInv, NoTimerLost, OneShotInv, CancelInv
<1>12. ASSUME NEW t \in Callers, QueueInLoop(t) \/ RunInLoop(t) \/ Quit(t) \/ Wakeup(t)
       PROVE  TimerInv' /\ OneShotInv' /\ CancelInv'
  BY <1>11, <1>12 DEF QueueInLoop, RunInLoop, Quit, Wakeup
<1>13. CASE Destroy \/ Join \/ LoopQueueInLoop \/ LoopQuit \/ Tick \/ UNCHANGED vars
  BY <1>11, <1>13 DEF Destroy, Join, LoopQueueInLoop, LoopQuit, Tick
<1>14. CASE \/ ThreadStart \/ EnterLoop \/ ExitLoop \/ PollWakes \/ PollEvent
            \/ HandleWakeupRead \/ EnterHandler \/ LeaveHandler \/ SwapPending
            \/ RunFunctor \/ LeaveFunctor \/ FinishPending
  BY <1>11, <1>14
  DEF ThreadStart, EnterLoop, ExitLoop, PollWakes, PollEvent, PollReturns, HandleWakeupRead,
      EnterHandler, LeaveHandler, SwapPending, RunFunctor, LeaveFunctor, FinishPending
<1> QED
  BY <1>1, <1>2, <1>3, <1>4, <1>5, <1>6, <1>7, <1>8, <1>9, <1>10, <1>12, <1>13, <1>14
  DEF Next, ForeignCall, LoopCall, LoopStep

-----------------------------------------------------------------------------
(* The theorems.                                                           *)

\* The inductive invariant holds when the loop has just been constructed.
LEMMA IInvInit == Init => IInv
<1> SUFFICES ASSUME Init PROVE IInv
  OBVIOUS
<1> USE ThreadsAssumption, BoundsAssumption DEF Init
<1>1. LoopType /\ PollType
  BY DEF LoopType, PollType
<1>2. QueueType
  BY DEF QueueType, Posts
<1>3. TimerType
  BY DEF TimerType, TimerIds, NoTimer
<1>4. LoopInv /\ FunctorsInOrder /\ WakeInv /\ SleepInv
  BY DEF LoopInv, FunctorsInOrder, WakeInv, SleepInv
<1>5. TimerInv /\ OneShotInv /\ CancelInv
  BY DEF TimerInv, NoTimerLost, OneShotInv, CancelInv
<1> QED BY <1>1, <1>2, <1>3, <1>4, <1>5 DEF IInv, TypeOK

\* The inductive invariant holds in every reachable state.
THEOREM IInvHolds == Spec => []IInv
<1>1. IInv /\ [Next]_vars => IInv'
  BY TypeStep, LoopInvStep, FunctorsStep, WakeStep, SleepStep, TimerStep DEF IInv
<1> QED BY IInvInit, <1>1, PTL DEF Spec

\* Type correctness: the loop never counts or holds more functors than were
\* queued, and only ids of RunAfter, RunAt and RunEvery circulate.
THEOREM TypeCorrect == Spec => []TypeOK
<1>1. IInv => TypeOK
  BY DEF IInv
<1> QED BY IInvHolds, <1>1, PTL

\* Queued functors run exactly once and in the order in which QueueInLoop
\* pushed them, across DoPendingFunctors' swap.
THEOREM InOrder == Spec => []FunctorsInOrder
<1>1. IInv => FunctorsInOrder
  BY DEF IInv
<1> QED BY IInvHolds, <1>1, PTL

\* The loop does not sleep over a functor queued by another thread, an IO
\* handler or a functor, unless its wakeup is on the way.
THEOREM WakeupsArrive == Spec => []NoLostWakeup
<1>1. IInv => NoLostWakeup
  BY DEF IInv, WakeInv, NoLostWakeup, Asleep
<1> QED BY IInvHolds, <1>1, PTL

\* The loop does not sleep past a live timer, unless a wakeup is on the way.
THEOREM TimersInTime == Spec => []NeverOversleeps
<1>1. IInv => NeverOversleeps
  BY DEF IInv, TypeOK, PollType, SleepInv, NeverOversleeps, Asleep
<1> QED BY IInvHolds, <1>1, PTL

\* A registered timer waits in the heap or among the ready tasks, never both.
THEOREM TimersKept == Spec => []NoTimerLost
<1>1. IInv => NoTimerLost
  BY DEF IInv, TimerInv
<1> QED BY IInvHolds, <1>1, PTL

\* The callback of a one-shot timer is called at most once.
THEOREM OneShotsFireOnce == Spec => []OneShotOnce
<1>1. IInv => OneShotOnce
  BY DEF IInv, OneShotInv, OneShotOnce
<1> QED BY IInvHolds, <1>1, PTL

\* A timer cancelled on the loop thread is not called again, even when it is
\* already among the ready tasks of ProcessDelayedTasks.
THEOREM LoopCancelFinal == Spec => LoopCancelIsFinal
<1> DEFINE Quiet == \A i \in TimerIds : fired'[i] # fired[i] => i \notin loopCancelled
<1>1. IInv /\ [Next]_vars => [Quiet]_vars
  <2> SUFFICES ASSUME IInv, Next, NEW i \in TimerIds, fired'[i] # fired[i]
               PROVE  i \notin loopCancelled
    OBVIOUS
  <2>1. CallTimer
    BY DEF Next, ForeignCall, QueueInLoop, RunInLoop, RunTimer, PushTimer, Cancel, CancelTimer,
           Quit, Wakeup, Destroy, Join, LoopCall, LoopQueueInLoop, LoopRunTimer, LoopCancel,
           LoopQuit, LoopStep, ThreadStart, EnterLoop, ExitLoop, GetPollTimeoutMs, PollWakes,
           PollEvent, PollReturns, HandleWakeupRead, EnterHandler, LeaveHandler, SwapPending,
           RunFunctor, LeaveFunctor, FinishPending, CollectExpired, CheckTimer, LeaveTimer,
           SettleTimer, FinishTimers, Tick
  <2>2. i = cur
    BY <2>1 DEF CallTimer, IInv, TypeOK, TimerType
  <2> QED BY <2>1, <2>2 DEF CallTimer, IInv, CancelInv
<1> QED BY IInvHolds, <1>1, PTL DEF Spec, LoopCancelIsFinal
=============================================================================
