----------------------------- MODULE EventLoop -----------------------------
(***************************************************************************)
(* TcFrame::EventLoop (src/src/eventloop.cpp): one loop thread that polls, *)
(* dispatches IO handlers, runs the functors other threads queued and the  *)
(* timers that are due, and the threads that call into it: QueueInLoop,    *)
(* RunInLoop, RunAfter, RunEvery, Cancel, Quit and the destructor.         *)
(*                                                                         *)
(* Everything done under m_mutex is one step.  What a foreign thread does  *)
(* after it released the mutex (evaluate IsInLoopThread, write the         *)
(* eventfd) is a step of its own, so the loop can run in between.  A       *)
(* callback (IO handler, functor, timer callback) is a control state of    *)
(* the loop thread in which it may call any operation of its own loop.     *)
(***************************************************************************)
EXTENDS Integers, Sequences

CONSTANTS
  Callers,     \* threads other than the one that runs Loop()
  Creator,     \* the one of them that constructs and destroys the loop
  LoopThread,  \* the thread that runs Loop()
  AutoStart,   \* the constructor's auto_start: the loop has its own thread
  PollCap,     \* the longest Poll timeout, 10000 ms in the code
  Delays,      \* delays and intervals the callers ask for
  MaxPosts,    \* bound: functors queued in a behaviour
  MaxTimers,   \* bound: timers created in a behaviour
  MaxTime      \* bound: the clock stops here

ASSUME ThreadsAssumption ==
  /\ Creator \in Callers
  /\ LoopThread \notin Callers
  /\ AutoStart \in BOOLEAN

ASSUME BoundsAssumption ==
  /\ PollCap \in Nat \ {0}
  /\ Delays \subseteq Int
  /\ MaxPosts \in Nat
  /\ MaxTimers \in Nat
  /\ MaxTime \in Nat

Posts    == 1..MaxPosts
TimerIds == 1..MaxTimers
NoTimer  == 0

VARIABLES
  pc,          \* control state of the loop thread
  threadId,    \* m_threadId
  quit,        \* m_quit
  calling,     \* m_callingPendingFunctors
  wakeFd,      \* the eventfd is readable
  woken,       \* the wakeup channel is in m_activeChannels, not yet handled
  other,       \* so are channels other than the wakeup channel
  deadline,    \* when the current Poll times out
  now,         \* steady_clock
  caller,      \* control state of each foreign thread
  pending,     \* m_pendingFunctors
  batch,       \* the functors DoPendingFunctors swapped out, not yet run
  timers,      \* keys of m_timers
  heap,        \* ids in m_delayed_tasks
  ready,       \* ready_tasks of ProcessDelayedTasks, not yet settled
  cur,         \* the ready task being processed
  expire,      \* TimerTask::expire_time
  interval,    \* TimerTask::interval, 0 for a one-shot timer
  cancelled,   \* TimerTask::cancelled
  nextId,      \* m_next_timer_id
  \* History, read by the properties only.
  nPosted,     \* functors queued so far; the k-th one queued is functor k
  nRun,        \* functors taken from the queue and run so far
  origin,      \* where functor k was queued from
  ranOn,       \* threads that have run a functor
  fired,       \* calls of each timer's callback
  loopCancelled \* timers the loop thread itself cancelled

loopVars    == <<pc, threadId, quit, calling>>
pollVars    == <<wakeFd, woken, other, deadline, now>>
queueVars   == <<pending, batch, nPosted, nRun, origin>>
timerVars   == <<timers, heap, ready, cur, expire, interval, cancelled,
                 nextId, fired, loopCancelled>>
vars == <<loopVars, pollVars, caller, queueVars, timerVars, ranOn>>

Callbacks == {"handler", "functor", "timercb"}

LoopType ==
  /\ pc \in {"new", "born", "top", "poll", "io", "pending", "collect",
             "timers", "call", "settle", "exit"} \cup Callbacks
  /\ threadId \in Callers \cup {LoopThread}
  /\ quit \in BOOLEAN /\ calling \in BOOLEAN
  /\ caller \in [Callers -> {"idle", "post", "signal", "destroy", "join", "gone"}]
  /\ ranOn \in SUBSET (Callers \cup {LoopThread})

PollType ==
  /\ wakeFd \in BOOLEAN /\ woken \in BOOLEAN /\ other \in BOOLEAN
  /\ deadline \in Nat /\ now \in Nat

QueueType ==
  /\ pending \in Seq(Posts) /\ batch \in Seq(Posts)
  /\ nPosted \in 0..MaxPosts /\ nRun \in 0..MaxPosts
  /\ origin \in [Posts -> {"none", "other", "new"} \cup Callbacks]

TimerType ==
  /\ timers \in SUBSET TimerIds /\ heap \in SUBSET TimerIds
  /\ ready \in SUBSET TimerIds /\ cur \in TimerIds \cup {NoTimer}
  /\ expire \in [TimerIds -> Nat] /\ interval \in [TimerIds -> Nat]
  /\ cancelled \in [TimerIds -> BOOLEAN]
  /\ nextId \in 1..(MaxTimers + 1)
  /\ fired \in [TimerIds -> Nat]
  /\ loopCancelled \in SUBSET TimerIds

\* Every variable has its type; in particular nothing is run that was not
\* queued, and no task is settled but the current one.
TypeOK == LoopType /\ PollType /\ QueueType /\ TimerType

Init ==
  /\ pc = "new"
  /\ threadId = (IF AutoStart THEN Creator ELSE LoopThread)
  /\ quit = FALSE /\ calling = FALSE
  /\ wakeFd = FALSE /\ woken = FALSE /\ other = FALSE
  /\ deadline = 0 /\ now = 0
  /\ caller = [t \in Callers |-> "idle"]
  /\ pending = <<>> /\ batch = <<>>
  /\ timers = {} /\ heap = {} /\ ready = {} /\ cur = NoTimer
  /\ expire = [i \in TimerIds |-> 0] /\ interval = [i \in TimerIds |-> 0]
  /\ cancelled = [i \in TimerIds |-> FALSE]
  /\ nextId = 1 /\ nPosted = 0 /\ nRun = 0
  /\ origin = [k \in Posts |-> "none"]
  /\ ranOn = {} /\ fired = [i \in TimerIds |-> 0] /\ loopCancelled = {}

-----------------------------------------------------------------------------
(* Operations, as the effect they have under m_mutex.                      *)

IsInLoopThread(t) == threadId = t

PushFunctor(from) ==
  /\ nPosted < MaxPosts
  /\ nPosted' = nPosted + 1
  /\ pending' = Append(pending, nPosted + 1)
  /\ origin' = [origin EXCEPT ![nPosted + 1] = from]
  /\ UNCHANGED <<batch, nRun>>

\* RunAfter clips a negative delay to 0; RunEvery replaces an interval that
\* is not positive by 1 ms.
ClampDelay(d)    == IF d < 0 THEN 0 ELSE d
ClampInterval(d) == IF d <= 0 THEN 1 ELSE d

PushTimer(d, repeat) ==
  /\ nextId <= MaxTimers
  /\ nextId' = nextId + 1
  /\ timers' = timers \cup {nextId}
  /\ heap' = heap \cup {nextId}
  /\ expire' = [expire EXCEPT ![nextId] =
                  now + (IF repeat THEN ClampInterval(d) ELSE ClampDelay(d))]
  /\ interval' = [interval EXCEPT ![nextId] =
                    IF repeat THEN ClampInterval(d) ELSE 0]
  /\ UNCHANGED <<ready, cur, cancelled, fired, loopCancelled>>

\* Cancel of an id that is not in m_timers returns false and changes nothing.
CancelTimer(i) ==
  /\ i \in timers
  /\ cancelled' = [cancelled EXCEPT ![i] = TRUE]
  /\ timers' = timers \ {i}
  /\ UNCHANGED <<heap, ready, cur, expire, interval, nextId, fired>>

-----------------------------------------------------------------------------
(* Foreign threads.                                                        *)

\* The destructor has not begun: a caller may still use the object.
Alive == caller[Creator] \notin {"destroy", "join", "gone"}

CallerIdle(t) == caller[t] = "idle" /\ Alive

QueueInLoop(t) ==
  /\ CallerIdle(t)
  /\ PushFunctor(IF IsInLoopThread(t) THEN "new" ELSE "other")
  /\ caller' = [caller EXCEPT ![t] = "post"]
  /\ UNCHANGED <<loopVars, pollVars, timerVars, ranOn>>

\* RunInLoop by a thread that IsInLoopThread takes for the loop thread runs
\* the functor on the spot; by any other thread it is QueueInLoop.
RunInLoop(t) ==
  /\ CallerIdle(t) /\ IsInLoopThread(t)
  /\ ranOn' = ranOn \cup {t}
  /\ UNCHANGED <<loopVars, pollVars, caller, queueVars, timerVars>>

RunTimer(t, d, repeat) ==
  /\ CallerIdle(t)
  /\ PushTimer(d, repeat)
  /\ caller' = [caller EXCEPT ![t] = "post"]
  /\ UNCHANGED <<loopVars, pollVars, queueVars, ranOn>>

Cancel(t, i) ==
  /\ CallerIdle(t)
  /\ CancelTimer(i)
  /\ caller' = [caller EXCEPT ![t] = "signal"]
  /\ UNCHANGED <<loopVars, pollVars, queueVars, loopCancelled, ranOn>>

\* Mutant: Quit only sets the flag and does not wake the loop.
QuitWithoutWakeup(t) ==
  /\ CallerIdle(t)
  /\ quit' = TRUE
  /\ UNCHANGED <<pc, threadId, calling, pollVars, caller, queueVars, timerVars, ranOn>>

Quit(t) ==
  /\ CallerIdle(t)
  /\ quit' = TRUE
  /\ caller' = [caller EXCEPT ![t] = "signal"]
  /\ UNCHANGED <<pc, threadId, calling, pollVars, queueVars, timerVars, ranOn>>

\* ~EventLoop of a loop with its own thread: Quit, then join.  Nobody else
\* is inside a member function when an object is destroyed.
Destroy ==
  /\ AutoStart
  /\ \A t \in Callers : caller[t] = "idle"
  /\ quit' = TRUE
  /\ caller' = [caller EXCEPT ![Creator] = "destroy"]
  /\ UNCHANGED <<pc, threadId, calling, pollVars, queueVars, timerVars, ranOn>>

\* Mutant: && in place of || in QueueInLoop and RunAt.
WakeupOnlyIfCalling(t) ==
  /\ caller[t] \in {"post", "signal", "destroy"}
  /\ wakeFd' = (wakeFd \/ (~IsInLoopThread(t) /\ (caller[t] = "post" => calling)))
  /\ caller' = [caller EXCEPT ![t] = IF @ = "destroy" THEN "join" ELSE "idle"]
  /\ UNCHANGED <<loopVars, woken, other, deadline, now, queueVars, timerVars, ranOn>>

\* The tail of QueueInLoop, RunAt and RunEvery ("post"), of Cancel and Quit
\* ("signal") and of the destructor's Quit: wake the loop if it is needed.
Wakeup(t) ==
  /\ caller[t] \in {"post", "signal", "destroy"}
  /\ wakeFd' = \/ wakeFd
               \/ ~IsInLoopThread(t)
               \/ caller[t] = "post" /\ calling
  /\ caller' = [caller EXCEPT ![t] = IF @ = "destroy" THEN "join" ELSE "idle"]
  /\ UNCHANGED <<loopVars, woken, other, deadline, now, queueVars, timerVars, ranOn>>

Join ==
  /\ caller[Creator] = "join"
  /\ pc = "exit"
  /\ caller' = [caller EXCEPT ![Creator] = "gone"]
  /\ UNCHANGED <<loopVars, pollVars, queueVars, timerVars, ranOn>>

ForeignCall(t) ==
  \/ QueueInLoop(t)
  \/ RunInLoop(t)
  \/ \E d \in Delays, repeat \in BOOLEAN : RunTimer(t, d, repeat)
  \/ \E i \in TimerIds : Cancel(t, i)
  \/ Quit(t)

-----------------------------------------------------------------------------
(* What the loop thread may call on its own loop: before Loop() if it is   *)
(* the thread that constructed it, and inside any callback.                *)

OnLoopThread == pc \in Callbacks \/ (pc = "new" /\ ~AutoStart)

\* Mutant: QueueInLoop never wakes its own thread.
LoopQueueNoWakeup ==
  /\ OnLoopThread
  /\ PushFunctor(pc)
  /\ UNCHANGED <<loopVars, pollVars, caller, timerVars, ranOn>>

LoopQueueInLoop ==
  /\ OnLoopThread
  /\ PushFunctor(pc)
  /\ wakeFd' = (wakeFd \/ calling)
  /\ UNCHANGED <<loopVars, woken, other, deadline, now, caller, timerVars, ranOn>>

LoopRunTimer(d, repeat) ==
  /\ OnLoopThread
  /\ PushTimer(d, repeat)
  /\ wakeFd' = (wakeFd \/ calling)
  /\ UNCHANGED <<loopVars, woken, other, deadline, now, caller, queueVars, ranOn>>

LoopCancel(i) ==
  /\ OnLoopThread
  /\ CancelTimer(i)
  /\ loopCancelled' = loopCancelled \cup {i}
  /\ UNCHANGED <<loopVars, pollVars, caller, queueVars, ranOn>>

LoopQuit ==
  /\ OnLoopThread
  /\ quit' = TRUE
  /\ UNCHANGED <<pc, threadId, calling, pollVars, caller, queueVars, timerVars, ranOn>>

LoopCall ==
  \/ LoopQueueInLoop
  \/ \E d \in Delays, repeat \in BOOLEAN : LoopRunTimer(d, repeat)
  \/ \E i \in TimerIds : LoopCancel(i)
  \/ LoopQuit

-----------------------------------------------------------------------------
(* The loop thread.                                                        *)

\* The lambda the constructor starts a thread with, up to its call of Loop.
ThreadStart ==
  /\ AutoStart /\ pc = "new"
  /\ threadId' = LoopThread
  /\ pc' = "born"
  /\ UNCHANGED <<quit, calling, pollVars, caller, queueVars, timerVars, ranOn>>

\* Loop() up to its while.
EnterLoop ==
  /\ pc = (IF AutoStart THEN "born" ELSE "new")
  /\ IsInLoopThread(LoopThread)
  /\ quit' = FALSE
  /\ pc' = "top"
  /\ UNCHANGED <<threadId, calling, pollVars, caller, queueVars, timerVars, ranOn>>

ExitLoop ==
  /\ pc = "top" /\ quit
  /\ pc' = "exit"
  /\ UNCHANGED <<threadId, quit, calling, pollVars, caller, queueVars, timerVars, ranOn>>

Active(i) == i \in timers /\ ~cancelled[i]

\* GetPollTimeoutMs drops dead tasks from the top of the heap until it meets
\* a live one; among equal expiry times the heap's order is arbitrary.
DeadOnTop(S) ==
  /\ S \subseteq {i \in heap : ~Active(i)}
  /\ \A i \in {j \in heap : ~Active(j)} :
       /\ (\A j \in heap : Active(j) => expire[i] < expire[j]) => i \in S
       /\ i \in S => \A j \in heap : Active(j) => expire[i] <= expire[j]

\* Mutant: Poll always sleeps for the longest timeout.
PollTimeoutFixed(d) == d = now + PollCap

\* now + the timeout: 0 if a live task is due, at most PollCap, otherwise the
\* time left to the earliest live task.
PollTimeout(d) ==
  /\ d \in now..(now + PollCap)
  /\ \A i \in heap : Active(i) => d <= expire[i] \/ d = now
  /\ \/ d = now + PollCap
     \/ \E i \in heap : Active(i) /\ d = (IF expire[i] <= now THEN now ELSE expire[i])

GetPollTimeoutMs ==
  /\ pc = "top" /\ ~quit
  /\ \E S \in SUBSET heap : DeadOnTop(S) /\ heap' = heap \ S
  /\ \E d \in now..(now + PollCap) : PollTimeout(d) /\ deadline' = d
  /\ pc' = "poll"
  /\ UNCHANGED <<threadId, quit, calling, wakeFd, woken, other, now, caller, queueVars,
                 timers, ready, cur, expire, interval, cancelled, nextId, fired,
                 loopCancelled, ranOn>>

PollReturns ==
  /\ pc' = "io"
  /\ woken' = wakeFd
  /\ other' \in BOOLEAN
  /\ deadline' = 0
  /\ UNCHANGED <<threadId, quit, calling, wakeFd, now, caller, queueVars, timerVars, ranOn>>

\* epoll_wait must return: the eventfd is readable or the timeout is over.
PollWakes == pc = "poll" /\ (wakeFd \/ now >= deadline) /\ PollReturns

\* epoll_wait may return: another channel is ready, or EINTR.
PollEvent == pc = "poll" /\ PollReturns

HandleWakeupRead ==
  /\ pc = "io" /\ woken
  /\ woken' = FALSE
  /\ wakeFd' = FALSE
  /\ UNCHANGED <<loopVars, other, deadline, now, caller, queueVars, timerVars, ranOn>>

\* Channel::HandleEvent of the other active channels; what several handlers
\* do in a row is what one of them may do.
EnterHandler ==
  /\ pc = "io" /\ other
  /\ other' = FALSE
  /\ pc' = "handler"
  /\ UNCHANGED <<threadId, quit, calling, wakeFd, woken, deadline, now, caller,
                 queueVars, timerVars, ranOn>>

LeaveHandler ==
  /\ pc = "handler"
  /\ pc' = "io"
  /\ UNCHANGED <<threadId, quit, calling, pollVars, caller, queueVars, timerVars, ranOn>>

\* DoPendingFunctors up to its loop.
SwapPending ==
  /\ pc = "io" /\ ~woken /\ ~other
  /\ calling' = TRUE
  /\ batch' = pending
  /\ pending' = <<>>
  /\ pc' = "pending"
  /\ UNCHANGED <<threadId, quit, pollVars, caller, nPosted, nRun, origin, timerVars, ranOn>>

\* Mutant: the functors are taken from the back.
RunFunctorFromBack ==
  /\ pc = "pending" /\ batch # <<>>
  /\ batch' = SubSeq(batch, 1, Len(batch) - 1)
  /\ nRun' = nRun + 1
  /\ ranOn' = ranOn \cup {LoopThread}
  /\ pc' = "functor"
  /\ UNCHANGED <<threadId, quit, calling, pollVars, caller, pending, nPosted, origin, timerVars>>

RunFunctor ==
  /\ pc = "pending" /\ batch # <<>>
  /\ batch' = Tail(batch)
  /\ nRun' = nRun + 1
  /\ ranOn' = ranOn \cup {LoopThread}
  /\ pc' = "functor"
  /\ UNCHANGED <<threadId, quit, calling, pollVars, caller, pending, nPosted, origin, timerVars>>

LeaveFunctor ==
  /\ pc = "functor"
  /\ pc' = "pending"
  /\ UNCHANGED <<threadId, quit, calling, pollVars, caller, queueVars, timerVars, ranOn>>

FinishPending ==
  /\ pc = "pending" /\ batch = <<>>
  /\ calling' = FALSE
  /\ pc' = "collect"
  /\ UNCHANGED <<threadId, quit, pollVars, caller, queueVars, timerVars, ranOn>>

\* ProcessDelayedTasks, first critical section: pop what is due, keep what
\* is still live.
CollectExpired ==
  /\ pc = "collect"
  /\ LET due == {i \in heap : expire[i] <= now}
     IN  /\ heap' = heap \ due
         /\ ready' = {i \in due : Active(i)}
  /\ pc' = "timers"
  /\ UNCHANGED <<threadId, quit, calling, pollVars, caller, queueVars, timers, cur,
                 expire, interval, cancelled, nextId, fired, loopCancelled, ranOn>>

\* Mutant: a ready task is called without a look at its cancelled flag.
CheckTimerBlindly(i) ==
  /\ pc = "timers"
  /\ i \in ready
  /\ \A j \in ready : expire[i] <= expire[j]
  /\ cur' = i
  /\ pc' = "call"
  /\ UNCHANGED <<threadId, quit, calling, pollVars, caller, queueVars, timers, heap,
                 ready, expire, interval, cancelled, nextId, fired, loopCancelled, ranOn>>

\* task->cancelled is read without the mutex, before the callback is called.
CheckTimer(i) ==
  /\ pc = "timers"
  /\ i \in ready
  /\ \A j \in ready : expire[i] <= expire[j]
  /\ cur' = i
  /\ pc' = (IF cancelled[i] THEN "settle" ELSE "call")
  /\ UNCHANGED <<threadId, quit, calling, pollVars, caller, queueVars, timers, heap,
                 ready, expire, interval, cancelled, nextId, fired, loopCancelled, ranOn>>

CallTimer ==
  /\ pc = "call"
  /\ fired' = [fired EXCEPT ![cur] = @ + 1]
  /\ pc' = "timercb"
  /\ UNCHANGED <<threadId, quit, calling, pollVars, caller, queueVars, timers, heap,
                 ready, cur, expire, interval, cancelled, nextId, loopCancelled, ranOn>>

LeaveTimer ==
  /\ pc = "timercb"
  /\ pc' = "settle"
  /\ UNCHANGED <<threadId, quit, calling, pollVars, caller, queueVars, timerVars, ranOn>>

\* Mutant: a one-shot task is not erased from m_timers.
SettleTimerKeepsOneShot ==
  /\ pc = "settle"
  /\ IF interval[cur] > 0 /\ Active(cur)
     THEN /\ expire' = [expire EXCEPT ![cur] = now + interval[cur]]
          /\ heap' = heap \cup {cur}
     ELSE UNCHANGED <<expire, heap>>
  /\ ready' = ready \ {cur}
  /\ cur' = NoTimer
  /\ pc' = "timers"
  /\ UNCHANGED <<threadId, quit, calling, pollVars, caller, queueVars, timers, interval,
                 cancelled, nextId, fired, loopCancelled, ranOn>>

\* Mutant: every live task goes back to the heap, repeating or not.
SettleTimerRepeatsAll ==
  /\ pc = "settle"
  /\ IF Active(cur)
     THEN /\ expire' = [expire EXCEPT ![cur] = now + interval[cur]]
          /\ heap' = heap \cup {cur}
     ELSE UNCHANGED <<expire, heap>>
  /\ ready' = ready \ {cur}
  /\ cur' = NoTimer
  /\ pc' = "timers"
  /\ UNCHANGED <<threadId, quit, calling, pollVars, caller, queueVars, timers, interval,
                 cancelled, nextId, fired, loopCancelled, ranOn>>

\* The critical section after the callback: a live repeating task goes back
\* to the heap, a one-shot task leaves m_timers.
SettleTimer ==
  /\ pc = "settle"
  /\ IF interval[cur] > 0
     THEN /\ timers' = timers
          /\ IF Active(cur)
             THEN /\ expire' = [expire EXCEPT ![cur] = now + interval[cur]]
                  /\ heap' = heap \cup {cur}
             ELSE UNCHANGED <<expire, heap>>
     ELSE /\ timers' = timers \ {cur}
          /\ UNCHANGED <<expire, heap>>
  /\ ready' = ready \ {cur}
  /\ cur' = NoTimer
  /\ pc' = "timers"
  /\ UNCHANGED <<threadId, quit, calling, pollVars, caller, queueVars, interval,
                 cancelled, nextId, fired, loopCancelled, ranOn>>

FinishTimers ==
  /\ pc = "timers" /\ ready = {}
  /\ pc' = "top"
  /\ UNCHANGED <<threadId, quit, calling, pollVars, caller, queueVars, timerVars, ranOn>>

\* The steps the loop thread takes by itself once it is scheduled.
LoopStep ==
  \/ ThreadStart \/ EnterLoop \/ ExitLoop
  \/ GetPollTimeoutMs \/ PollWakes
  \/ HandleWakeupRead \/ EnterHandler \/ LeaveHandler
  \/ SwapPending \/ RunFunctor \/ LeaveFunctor \/ FinishPending
  \/ CollectExpired \/ (\E i \in TimerIds : CheckTimer(i))
  \/ CallTimer \/ LeaveTimer \/ SettleTimer \/ FinishTimers

Tick ==
  /\ now < MaxTime
  /\ now' = now + 1
  /\ UNCHANGED <<loopVars, wakeFd, woken, other, deadline, caller, queueVars, timerVars, ranOn>>

Next ==
  \/ \E t \in Callers : ForeignCall(t) \/ Wakeup(t)
  \/ Destroy \/ Join
  \/ LoopCall
  \/ LoopStep
  \/ PollEvent
  \/ Tick

Spec == Init /\ [][Next]_vars

\* The scheduler runs every thread: the loop thread goes on whenever it is
\* not blocked in Poll, a foreign thread finishes the call it has begun.
FairSpec ==
  /\ Spec
  /\ WF_vars(LoopStep)
  /\ \A t \in Callers : WF_vars(Wakeup(t))
  /\ WF_vars(Join)

-----------------------------------------------------------------------------
(* Properties.                                                             *)

\* A foreign thread is about to write the eventfd.
WakeupComing ==
  \E t \in Callers : caller[t] \in {"post", "signal", "destroy"} /\ ~IsInLoopThread(t)

\* The loop sits in Poll and only a timeout, an IO event or a Wakeup that has
\* not been written yet can bring it back.
Asleep == pc = "poll" /\ ~wakeFd /\ now < deadline

\* Every functor handed to QueueInLoop runs exactly once and in the order of
\* the calls, across the swap DoPendingFunctors makes and whatever the running
\* functors queue: the batch and then m_pendingFunctors are the functors
\* nRun + 1, nRun + 2, ... up to the last one queued.
FunctorsInOrder ==
  /\ \A i \in 1..Len(batch) : batch[i] = nRun + i
  /\ \A i \in 1..Len(pending) : pending[i] = nRun + Len(batch) + i
  /\ nPosted = nRun + Len(batch) + Len(pending)

\* The loop never goes to sleep over a functor that another thread, an IO
\* handler or a running functor has queued, unless the thread that will wake
\* it is on its way (QueueInLoop's two wakeup cases and the order of push and
\* write, of drain and swap).
NoLostWakeup ==
  Asleep => \/ WakeupComing
            \/ \A k \in 1..Len(pending) : origin[pending[k]] \in {"new", "timercb"}

\* The loop never sleeps past the expiry of a live timer, whoever created it
\* and whenever: GetPollTimeoutMs looked at it, or its creator will wake the loop.
NeverOversleeps ==
  Asleep => \/ WakeupComing
            \/ \A i \in heap : Active(i) => deadline <= expire[i]

\* A timer registered in m_timers is never forgotten: it waits in the heap or
\* is among the ready tasks, and never both, so that no round can run it twice.
NoTimerLost ==
  /\ timers \subseteq heap \cup ready
  /\ heap \cap ready = {}

\* The callback of a RunAfter timer is called at most once, whatever Cancel
\* and the ready tasks of one round do to it in the meantime.
OneShotOnce == \A i \in TimerIds : interval[i] = 0 => fired[i] <= 1

\* Once the loop thread itself has cancelled a timer, its callback is never
\* called again, even if the timer is already among the ready tasks.
LoopCancelIsFinal ==
  [][\A i \in TimerIds : fired'[i] # fired[i] => i \notin loopCancelled]_vars

\* A timer that is due while the loop runs is dealt with: it fires and is
\* rescheduled or dropped, or it is cancelled, or the loop quits.
DueTimerRuns ==
  \A i \in TimerIds :
    (i \in timers /\ expire[i] <= now /\ pc # "new")
      ~> (i \notin timers \/ expire[i] > now \/ pc = "exit")

\* A functor queued by another thread runs without the help of a timeout,
\* unless the loop quits first.
QueuedFunctorRuns ==
  \A k \in Posts : origin[k] = "other" ~> (nRun >= k \/ pc = "exit")

\* Quit on a running loop makes it leave Loop() without waiting for a timeout.
QuitEndsLoop == (quit /\ pc \notin {"new", "born"}) ~> pc = "exit"

\* RunInLoop: "让回调在Loop所在线程执行" (src/include/eventloop.h:41), the
\* callback runs in the thread of the loop.
RunsInLoopThread == ranOn \subseteq {LoopThread}

\* ~EventLoop: "先请求退出并唤醒，避免析构时线程仍阻塞在Poll" (src/src/eventloop.cpp:149),
\* after the request to quit the join comes back.
DestructorReturns == caller[Creator] = "join" ~> caller[Creator] = "gone"

\* QueueInLoop: "需要唤醒的两种情况" (src/src/eventloop.cpp:265), the two cases
\* listed there are all in which a wakeup is needed: the loop never sleeps
\* over a queued functor.
NeverSleepsOnFunctor == Asleep => WakeupComing \/ pending = <<>>

\* Cancel: "取消定时器，成功取消返回true" (src/include/eventloop.h:64), a timer
\* whose Cancel returned true is not called any more.
CancelIsFinal ==
  [][\A i \in TimerIds : fired'[i] # fired[i] => ~cancelled[i]]_vars

-----------------------------------------------------------------------------
(* The inductive invariant behind the safety properties.                   *)

\* Where the loop thread is fixes its id, the m_callingPendingFunctors flag and
\* whether it has functors left of the batch it swapped out.
LoopInv ==
  /\ pc # "new" => threadId = LoopThread
  /\ threadId # LoopThread => AutoStart
  /\ calling <=> pc \in {"pending", "functor"}
  /\ ~calling => batch = <<>>

\* A functor that deserves a wakeup has one written, coming, or is about to be
\* swapped out in this very round.
WakeInv ==
  \/ pc \in {"io", "handler"}
  \/ wakeFd
  \/ WakeupComing
  \/ \A k \in 1..Len(pending) : origin[pending[k]] \in {"new", "timercb"}

\* The timeout Poll was called with still covers every live timer.
SleepInv ==
  pc = "poll" => \/ wakeFd
                 \/ WakeupComing
                 \/ deadline <= now
                 \/ \A i \in heap : Active(i) => deadline <= expire[i]

\* Ids not handed out yet are fresh, a cancelled timer has left m_timers, and
\* the ready tasks exist only while they are being processed.
TimerInv ==
  /\ NoTimerLost
  /\ \A i \in TimerIds : i >= nextId =>
       i \notin timers \cup heap \cup ready /\ ~cancelled[i] /\ fired[i] = 0
  /\ \A i \in timers : ~cancelled[i]
  /\ pc \in {"call", "timercb", "settle"} => cur \in ready
  /\ pc \notin {"timers", "call", "timercb", "settle"} => ready = {}

\* A one-shot timer that has fired waits nowhere to fire again.
OneShotInv ==
  \A i \in TimerIds : interval[i] = 0 =>
    /\ fired[i] <= 1
    /\ fired[i] > 0 => /\ i \notin heap
                       /\ i \in ready => i = cur /\ pc \in {"timercb", "settle"}

\* What the loop thread cancelled is cancelled, and is not about to be called.
CancelInv ==
  /\ \A i \in loopCancelled : cancelled[i]
  /\ pc = "call" => cur \notin loopCancelled

IInv ==
  /\ TypeOK /\ LoopInv /\ FunctorsInOrder /\ WakeInv /\ SleepInv
  /\ TimerInv /\ OneShotInv /\ CancelInv
=============================================================================
