------------------------------- MODULE Logger -------------------------------
(***************************************************************************)
(* TcFrame::Logger (src/src/logger.cpp): threads queue events under        *)
(* m_queue_mtx, one writer thread takes them out and hands each to three   *)
(* appenders with the mutex released, and the owner (main) calls Init and  *)
(* Shutdown, possibly several times.                                       *)
(*                                                                         *)
(* Text, time stamps and formats are left out of an event: it is its level *)
(* and the day it was built on.  The printf overloads differ from the ones *)
(* for strings in how they build the text.  As in ThreadPool, the writer   *)
(* holds the mutex between the predicate of m_cv.wait and the block        *)
(* ("checked"), and Shutdown stores its flag and notifies without it.      *)
(***************************************************************************)
EXTENDS Integers, Sequences, FiniteSets

CONSTANTS
  Threads,   \* threads that log
  Levels,    \* levels in use, as numbers
  ErrorLevel, \* LogLevel::ERROR
  MaxEvents, \* bound: events logged in a behaviour
  MaxInits,  \* bound: calls of Init
  MaxDay,    \* bound: days the clock may show
  MaxFailures \* bound: log files that cannot be opened

ASSUME LoggerAssumption ==
  /\ IsFiniteSet(Threads)
  /\ Levels \subseteq Nat /\ ErrorLevel \in Nat
  /\ MaxEvents \in Nat /\ MaxInits \in Nat /\ MaxDay \in Nat
  /\ MaxFailures \in Nat

Files     == {"file", "error"}            \* FileAppender, ErrorFileAppender
Appenders == <<"console", "file", "error">> \* m_appenders in order, after Init
Names     == Files \cup {"console"}

VARIABLES
  running,  \* m_is_running
  minLevel, \* m_min_level
  queue,    \* m_log_queue
  writer,   \* control state of the thread in LogLoop
  hand,     \* the event the writer has taken, and
  turn,     \* the position in m_appenders it goes to next
  caller,   \* control state of each logging thread, with the event it builds
  owner,    \* control state of the thread that calls Init and Shutdown
  date,     \* m_current_date of the two file appenders
  isOpen,   \* m_ofs.is_open() of the two file appenders
  lines,    \* lines in each output, with the date of the file they went to
  dirty,    \* outputs with lines that are not flushed
  day,      \* the date of the system clock
  \* History, read by the properties only.
  logged,   \* events begun
  pushed,   \* events queued so far; the k-th one queued is event k
  inits,    \* calls of Init
  atStop,   \* while Shutdown runs: events queued when the flag was cleared
  dropped,  \* events Shutdown has thrown away
  failed    \* log files that could not be opened

outVars  == <<date, isOpen, lines, dirty, failed>>
histVars == <<inits, atStop, dropped>>
vars == <<running, minLevel, queue, writer, hand, turn, caller, owner, outVars, day,
          logged, pushed, histVars>>

Event == [id : 0..MaxEvents, level : Levels \cup {0}, day : 0..MaxDay]
None  == [id |-> 0, level |-> 0, day |-> 0]
At(op) == [op |-> op, event |-> None]

Line  == [event : Event, date : 0..MaxDay]

FlowType ==
  /\ queue \in Seq(Event)
  /\ hand \in Event /\ turn \in 1..4
  /\ caller \in [Threads -> [op : {"idle", "push", "notify"}, event : Event]]

StateType ==
  /\ running \in BOOLEAN /\ minLevel \in Nat
  /\ writer \in {"none", "top", "checked", "waiting", "append", "exit"}
  /\ owner \in {"off", "starting", "up", "notifyAll", "join", "clear"}

OutType ==
  /\ date \in [Files -> 0..MaxDay] /\ isOpen \in [Files -> BOOLEAN]
  /\ lines \in [Names -> Seq(Line)]
  /\ dirty \in [Names -> BOOLEAN]
  /\ day \in 0..MaxDay /\ failed \in 0..MaxFailures

CountType ==
  /\ logged \in 0..MaxEvents /\ pushed \in 0..MaxEvents /\ inits \in 0..MaxInits
  /\ atStop \in 0..MaxEvents /\ dropped \subseteq 1..MaxEvents

TypeOK == FlowType /\ StateType /\ OutType /\ CountType

Init ==
  /\ running = FALSE /\ minLevel = 0
  /\ queue = <<>>
  /\ writer = "none" /\ hand = None /\ turn = 1
  /\ caller = [t \in Threads |-> At("idle")]
  /\ owner = "off"
  /\ date = [f \in Files |-> 0] /\ isOpen = [f \in Files |-> FALSE]
  /\ lines = [a \in Names |-> <<>>] /\ dirty = [a \in Names |-> FALSE]
  /\ day = 0
  /\ logged = 0 /\ pushed = 0 /\ inits = 0 /\ atStop = 0 /\ dropped = {} /\ failed = 0

MutexFree == writer # "checked"

-----------------------------------------------------------------------------
(* Debug, Info, Warn, Error and Fatal.                                     *)

\* An event bears the time of the call.  It is numbered when it is queued.
BuildLogMeta(level) == [id |-> 0, level |-> level, day |-> day]

\* The unlocked test of m_is_running and the level, and BuildLogMeta.  A call
\* that fails the test returns and changes nothing.
Log(t, level) ==
  /\ caller[t].op = "idle" /\ logged < MaxEvents
  /\ running /\ level >= minLevel
  /\ logged' = logged + 1
  /\ caller' = [caller EXCEPT ![t] = [op |-> "push", event |-> BuildLogMeta(level)]]
  /\ UNCHANGED <<running, minLevel, queue, writer, hand, turn, owner, outVars, day,
                 pushed, histVars>>

Numbered(e, n) == [id |-> n, level |-> e.level, day |-> e.day]

Push(t) ==
  /\ caller[t].op = "push" /\ MutexFree
  /\ pushed' = pushed + 1
  /\ queue' = Append(queue, Numbered(caller[t].event, pushed + 1))
  /\ caller' = [caller EXCEPT ![t] = At("notify")]
  /\ UNCHANGED <<running, minLevel, writer, hand, turn, owner, outVars, day,
                 logged, histVars>>

WakeWriter == writer' = IF writer = "waiting" THEN "top" ELSE writer

\* Mutant: the notification is forgotten.
NotifyNobody(t) ==
  /\ caller[t].op = "notify"
  /\ caller' = [caller EXCEPT ![t] = At("idle")]
  /\ UNCHANGED <<running, minLevel, queue, writer, hand, turn, owner, outVars, day,
                 logged, pushed, histVars>>

Notify(t) ==
  /\ caller[t].op = "notify"
  /\ WakeWriter
  /\ caller' = [caller EXCEPT ![t] = At("idle")]
  /\ UNCHANGED <<running, minLevel, queue, hand, turn, owner, outVars, day,
                 logged, pushed, histVars>>

-----------------------------------------------------------------------------
(* FileAppender.                                                           *)

\* OpenNewLogFile may fail; then lines are not written until the next day.
Opens(fs) ==
  \E bad \in SUBSET fs :
    /\ failed + Cardinality(bad) <= MaxFailures
    /\ failed' = failed + Cardinality(bad)
    /\ isOpen' = [f \in Files |-> IF f \in fs THEN f \notin bad ELSE isOpen[f]]

\* The constructors of both files, their destructors, and Flush of every appender.
OpenFiles  == date' = [f \in Files |-> day] /\ Opens(Files)
CloseFiles == isOpen' = [f \in Files |-> FALSE] /\ date' = [f \in Files |-> 0]
Flush      == dirty' = [a \in Names |-> FALSE]

WriteLine(a, d) ==
  /\ lines' = [lines EXCEPT ![a] = Append(@, [event |-> hand, date |-> d])]
  /\ dirty' = [dirty EXCEPT ![a] = TRUE]

\* Mutant: the file of the day it was opened is kept.
AppendNoRollOver(f) ==
  /\ IF isOpen[f] THEN WriteLine(f, date[f]) ELSE UNCHANGED <<lines, dirty>>
  /\ UNCHANGED <<date, isOpen, failed>>

\* CheckRollOver, which also closes and so flushes the file of the day before,
\* and the line.
AppendToFile(f) ==
  /\ IF day # date[f]
     THEN date' = [date EXCEPT ![f] = day] /\ Opens({f})
     ELSE UNCHANGED <<date, isOpen, failed>>
  /\ IF isOpen'[f]
     THEN WriteLine(f, day)
     ELSE dirty' = [dirty EXCEPT ![f] = FALSE] /\ UNCHANGED lines

\* ErrorFileAppender::Append passes on errors only.
Wants(a) == a # "error" \/ hand.level >= ErrorLevel

\* One turn of the loop over m_appenders, without the mutex.
AppendEvent ==
  /\ writer = "append" /\ turn <= Len(Appenders)
  /\ turn' = turn + 1
  /\ CASE Appenders[turn] = "console" ->
            WriteLine("console", day) /\ UNCHANGED <<date, isOpen, failed>>
       [] Appenders[turn] \in Files /\ Wants(Appenders[turn]) -> AppendToFile(Appenders[turn])
       [] OTHER -> UNCHANGED outVars
  /\ UNCHANGED <<running, minLevel, queue, writer, hand, caller, owner, day,
                 logged, pushed, histVars>>

-----------------------------------------------------------------------------
(* LogLoop.                                                                *)

\* At the top of the loop, or back from the appenders with the mutex.
Looks == writer = "top" \/ (writer = "append" /\ turn > Len(Appenders))

\* Mutant: front() without pop().
TakeWithoutPop ==
  /\ Looks /\ queue # <<>>
  /\ hand' = Head(queue)
  /\ turn' = 1 /\ writer' = "append"
  /\ UNCHANGED <<running, minLevel, queue, caller, owner, outVars, day, logged, pushed,
                 histVars>>

TakeEvent ==
  /\ Looks /\ queue # <<>>
  /\ hand' = Head(queue) /\ queue' = Tail(queue)
  /\ turn' = 1 /\ writer' = "append"
  /\ UNCHANGED <<running, minLevel, caller, owner, outVars, day, logged, pushed, histVars>>

\* Mutant: the writer goes to sleep without a flush.
DrainedNoFlush ==
  /\ writer = "append" /\ turn > Len(Appenders) /\ queue = <<>>
  /\ writer' = "top" /\ hand' = None /\ turn' = 1
  /\ UNCHANGED <<running, minLevel, queue, caller, owner, outVars, day,
                 logged, pushed, histVars>>

\* The queue is empty again: flush every appender, the mutex still held.
Drained ==
  /\ writer = "append" /\ turn > Len(Appenders) /\ queue = <<>>
  /\ writer' = "top" /\ hand' = None /\ turn' = 1
  /\ Flush
  /\ UNCHANGED <<running, minLevel, queue, caller, owner, date, isOpen, lines, failed,
                 day, logged, pushed, histVars>>

CheckWait ==
  /\ writer = "top" /\ queue = <<>> /\ running
  /\ writer' = "checked"
  /\ UNCHANGED <<running, minLevel, queue, hand, turn, caller, owner, outVars, day,
                 logged, pushed, histVars>>

Block ==
  /\ writer = "checked"
  /\ writer' = "waiting"
  /\ UNCHANGED <<running, minLevel, queue, hand, turn, caller, owner, outVars, day,
                 logged, pushed, histVars>>

\* Mutant: the writer ends as soon as it sees the flag.
ExitAtOnce ==
  /\ Looks /\ ~running
  /\ writer' = "exit"
  /\ UNCHANGED <<running, minLevel, queue, hand, turn, caller, owner, outVars, day,
                 logged, pushed, histVars>>

WriterExit ==
  /\ writer = "top" /\ queue = <<>> /\ ~running
  /\ writer' = "exit"
  /\ UNCHANGED <<running, minLevel, queue, hand, turn, caller, owner, outVars, day,
                 logged, pushed, histVars>>

\* A condition variable may wake a waiting thread for no reason.
SpuriousWakeup ==
  /\ writer = "waiting" /\ WakeWriter
  /\ UNCHANGED <<running, minLevel, queue, hand, turn, caller, owner, outVars, day,
                 logged, pushed, histVars>>

WriterStep == TakeEvent \/ AppendEvent \/ Drained \/ CheckWait \/ Block \/ WriterExit

-----------------------------------------------------------------------------
(* Init and Shutdown.                                                      *)

\* Logger::Init up to the flag: from here on events are queued.
InitLogger(level) ==
  /\ owner = "off" /\ inits < MaxInits
  /\ inits' = inits + 1
  /\ minLevel' = level /\ running' = TRUE
  /\ owner' = "starting"
  /\ UNCHANGED <<queue, writer, hand, turn, caller, outVars, day, logged, pushed,
                 atStop, dropped>>

\* The rest of it: the appenders, whose constructors open their files, and the
\* writer thread.
StartWriter ==
  /\ owner = "starting"
  /\ owner' = "up" /\ writer' = "top"
  /\ OpenFiles
  /\ UNCHANGED <<running, minLevel, queue, hand, turn, caller, lines, dirty, day,
                 logged, pushed, histVars>>

SetMinLevel(level) ==
  /\ owner = "up" /\ level # minLevel
  /\ minLevel' = level
  /\ UNCHANGED <<running, queue, writer, hand, turn, caller, owner, outVars, day,
                 logged, pushed, histVars>>

\* Shutdown by the owner, and once more by the destructor of the singleton.
Shutdown ==
  /\ owner \in {"up", "off"}
  /\ running' = FALSE
  /\ atStop' = (IF owner = "up" THEN pushed ELSE 0)
  /\ owner' = "notifyAll"
  /\ UNCHANGED <<minLevel, queue, writer, hand, turn, caller, outVars, day,
                 logged, pushed, inits, dropped>>

NotifyAll ==
  /\ owner = "notifyAll"
  /\ WakeWriter
  /\ owner' = "join"
  /\ UNCHANGED <<running, minLevel, queue, hand, turn, caller, outVars, day,
                 logged, pushed, histVars>>

\* The join, if there is a thread, and the flush after it.
Join ==
  /\ owner = "join" /\ writer \in {"exit", "none"}
  /\ writer' = "none" /\ hand' = None /\ turn' = 1
  /\ owner' = "clear"
  /\ Flush
  /\ UNCHANGED <<running, minLevel, queue, caller, date, isOpen, lines, failed, day,
                 logged, pushed, histVars>>

\* What was queued late is thrown away; the appenders go, their files close.
Clear ==
  /\ owner = "clear"
  /\ owner' = "off"
  /\ dropped' = dropped \cup {queue[i].id : i \in 1..Len(queue)}
  /\ queue' = <<>>
  /\ CloseFiles
  /\ atStop' = 0
  /\ UNCHANGED <<running, minLevel, writer, hand, turn, caller, lines, dirty, failed,
                 day, logged, pushed, inits>>

\* Midnight.
NextDay ==
  /\ day < MaxDay /\ day' = day + 1
  /\ UNCHANGED <<running, minLevel, queue, writer, hand, turn, caller, owner, outVars,
                 logged, pushed, histVars>>

-----------------------------------------------------------------------------
OwnerStep == StartWriter \/ NotifyAll \/ Join \/ Clear

Next ==
  \/ \E t \in Threads : Push(t) \/ Notify(t) \/ \E level \in Levels : Log(t, level)
  \/ WriterStep \/ SpuriousWakeup
  \/ OwnerStep \/ Shutdown
  \/ \E level \in Levels : InitLogger(level) \/ SetMinLevel(level)
  \/ NextDay

Spec == Init /\ [][Next]_vars

\* The scheduler runs the writer, and threads finish what they began.
Fairness ==
  /\ WF_vars(WriterStep) /\ WF_vars(OwnerStep)
  /\ \A t \in Threads : WF_vars(Push(t)) /\ WF_vars(Notify(t))

FairSpec == Spec /\ Fairness

-----------------------------------------------------------------------------
Ids(a) == {lines[a][i].event.id : i \in 1..Len(lines[a])}

\* The events on their way through the logger, oldest first: printed, in the
\* writer's hand and not yet printed, queued.
Trail ==
  [i \in 1..Len(lines["console"]) |-> lines["console"][i].event]
    \o (IF writer = "append" /\ turn = 1 THEN <<hand>> ELSE <<>>)
    \o queue

\* Every event that was queued is printed, under way or thrown away by a
\* Shutdown, once, and events are printed in the order they were queued, across
\* restarts of the logger too.
EventsInOrder ==
  /\ \A i, j \in 1..Len(Trail) : i < j => Trail[i].id < Trail[j].id
  /\ {Trail[i].id : i \in 1..Len(Trail)} \cup dropped = 1..pushed
  /\ {Trail[i].id : i \in 1..Len(Trail)} \cap dropped = {}

\* Once Shutdown has joined the writer, everything queued while the logger ran
\* is printed: the writer leaves only with an empty queue.
StopWritesAll == owner = "clear" => 1..atStop \subseteq Ids("console") \cup dropped

\* Whenever the writer rests, every output is flushed: what a crash of the
\* process can lose is what was logged since.
FlushedAtRest ==
  writer \in {"checked", "waiting", "exit", "none"} => \A a \in Names : ~dirty[a]

\* No line is in the file of a day before its event, and the file of a day gets
\* no line after that of the next day was begun.
LinesOfTheDay ==
  \A f \in Files : \A i \in 1..Len(lines[f]) :
    /\ lines[f][i].event.day <= lines[f][i].date
    /\ i > 1 => lines[f][i - 1].date <= lines[f][i].date

\* An event that is queued while the logger runs is printed, whatever Shutdown
\* does meanwhile.
QueuedIsPrinted ==
  \A k \in 1..MaxEvents : (pushed >= k /\ running) ~> (k \in Ids("console") \cup dropped)

\* Shutdown comes back.  It does not: see README.
ShutdownReturns == (owner = "join") ~> (owner = "off")

\* Nothing that was queued is thrown away.  It is: see README.
NothingDropped == dropped = {}
=============================================================================
