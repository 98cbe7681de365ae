---------------------------- MODULE LoggerProofs ----------------------------
(***************************************************************************)
(* Proofs of the safety properties of Logger for any set of threads and    *)
(* levels and any number of events, calls of Init, days and failures.      *)
(***************************************************************************)
EXTENDS Logger, FiniteSetTheorems, SequenceTheorems, TLAPS

USE DEF outVars, histVars, vars

-----------------------------------------------------------------------------
(* The inductive invariant.                                                *)

\* Where the writer can be while the owner is in Init or Shutdown; the writer
\* leaves only when everything queued before the flag was cleared is printed.
WriterInv ==
  /\ running <=> owner \in {"starting", "up"}
  /\ owner \in {"off", "starting", "clear"} => writer = "none"
  /\ owner = "up" => writer \notin {"none", "exit"}
  /\ owner \in {"notifyAll", "join"} /\ writer = "none" => atStop = 0
  /\ writer = "exit" \/ owner = "clear" => 1..atStop \subseteq Ids("console") \cup dropped
  /\ atStop <= pushed

\* The threads between BuildLogMeta and the push have logged what is not queued.
Pushing  == {t \in Threads : caller[t].op = "push"}
CountInv == pushed + Cardinality(Pushing) <= logged

\* Only while it works on the queue does the writer leave lines unflushed.
FlushInv == writer # "append" => \A a \in Names : ~dirty[a]

\* No event and no line is from a day that has not come yet.
DayInv ==
  /\ hand.day <= day
  /\ \A i \in 1..Len(queue) : queue[i].day <= day
  /\ \A t \in Threads : caller[t].event.day <= day
  /\ \A f \in Files : \A i \in 1..Len(lines[f]) : lines[f][i].date <= day

IInv ==
  /\ TypeOK /\ WriterInv /\ CountInv /\ FlushInv /\ DayInv
  /\ EventsInOrder /\ LinesOfTheDay

-----------------------------------------------------------------------------
(* Sequences of events.                                                    *)

Ordered(s) == \A i, j \in 1..Len(s) : i < j => s[i].id < s[j].id
IdsOf(s)   == {s[i].id : i \in 1..Len(s)}

\* An event with the next number keeps the order.
LEMMA AppendOrdered ==
  ASSUME NEW s \in Seq(Event), NEW e \in Event, NEW n \in Nat,
         Ordered(s), IdsOf(s) \subseteq 1..n, e.id = n + 1
  PROVE  Ordered(Append(s, e)) /\ IdsOf(Append(s, e)) = IdsOf(s) \cup {n + 1}
<1> DEFINE t == Append(s, e)
<1>1. /\ Len(s) \in Nat /\ Len(t) = Len(s) + 1 /\ t[Len(s) + 1] = e
      /\ \A i \in 1..Len(s) : t[i] = s[i]
  OBVIOUS
<1>2. \A i \in 1..Len(s) : s[i].id \in 1..n
  BY DEF IdsOf
<1>3. Ordered(t)
  <2> SUFFICES ASSUME NEW i \in 1..Len(t), NEW j \in 1..Len(t), i < j PROVE t[i].id < t[j].id
    BY DEF Ordered
  <2>1. i \in 1..Len(s)
    BY <1>1
  <2>2. CASE j \in 1..Len(s)
    BY <1>1, <2>1, <2>2 DEF Ordered
  <2>3. CASE j = Len(s) + 1
    <3>1. t[i].id = s[i].id /\ t[j].id = n + 1
      BY <1>1, <2>1, <2>3
    <3>2. s[i].id \in 1..n
      BY <1>2, <2>1
    <3> QED BY <3>1, <3>2
  <2> QED BY <1>1, <2>2, <2>3
<1>4. IdsOf(t) = IdsOf(s) \cup {n + 1}
  <2>1. 1..Len(t) = 1..Len(s) \cup {Len(s) + 1}
    BY <1>1
  <2>2. IdsOf(t) = {t[i].id : i \in 1..Len(s)} \cup {t[Len(s) + 1].id}
    BY <2>1 DEF IdsOf
  <2>3. {t[i].id : i \in 1..Len(s)} = IdsOf(s)
    BY <1>1 DEF IdsOf
  <2> QED BY <1>1, <2>2, <2>3
<1> QED BY <1>3, <1>4

\* The beginning of an ordered sequence is ordered and has no number of the rest.
LEMMA ConcatOrdered ==
  ASSUME NEW s \in Seq(Event), NEW t \in Seq(Event), Ordered(s \o t)
  PROVE  Ordered(s) /\ IdsOf(s \o t) = IdsOf(s) \cup IdsOf(t) /\ IdsOf(s) \cap IdsOf(t) = {}
<1>1. /\ Len(s) \in Nat /\ Len(t) \in Nat /\ Len(s \o t) = Len(s) + Len(t)
      /\ \A i \in 1..Len(s) : i \in 1..Len(s \o t) /\ (s \o t)[i] = s[i]
      /\ \A i \in 1..Len(t) : Len(s) + i \in 1..Len(s \o t) /\ (s \o t)[Len(s) + i] = t[i]
  BY ConcatProperties
<1>2. Ordered(s)
  BY <1>1 DEF Ordered
<1>3. IdsOf(s) \cup IdsOf(t) \subseteq IdsOf(s \o t)
  BY <1>1 DEF IdsOf
<1>4. IdsOf(s \o t) \subseteq IdsOf(s) \cup IdsOf(t)
  <2> SUFFICES ASSUME NEW k \in 1..Len(s \o t)
               PROVE  (s \o t)[k].id \in IdsOf(s) \cup IdsOf(t)
    BY DEF IdsOf
  <2>1. CASE k <= Len(s)
    BY <1>1, <2>1 DEF IdsOf
  <2>2. CASE k > Len(s)
    <3>1. k - Len(s) \in 1..Len(t) /\ Len(s) + (k - Len(s)) = k
      BY <1>1, <2>2
    <3> QED BY <1>1, <3>1 DEF IdsOf
  <2> QED BY <1>1, <2>1, <2>2
<1>5. IdsOf(s) \cap IdsOf(t) = {}
  <2> SUFFICES ASSUME NEW i \in 1..Len(s), NEW j \in 1..Len(t), s[i].id = t[j].id PROVE FALSE
    BY DEF IdsOf
  <2>1. i < Len(s) + j
    BY <1>1
  <2>2. s[i].id < t[j].id
    BY <1>1, <2>1 DEF Ordered
  <2>3. s[i].id \in Nat
    <3>1. s[i] \in Event
      BY ElementOfSeq
    <3> QED BY <3>1, LoggerAssumption, SMTT(30) DEF Event
  <2> QED BY <2>2, <2>3
<1> QED BY <1>2, <1>3, <1>4, <1>5

-----------------------------------------------------------------------------
(* The events on their way.                                                *)

Printed == [i \in 1..Len(lines["console"]) |-> lines["console"][i].event]
InHand  == IF writer = "append" /\ turn = 1 THEN <<hand>> ELSE <<>>

\* The way of the events: printed, in the hand of the writer, queued.
LEMMA TrailParts ==
  ASSUME TypeOK
  PROVE  /\ Trail = (Printed \o InHand) \o queue
         /\ Printed \in Seq(Event) /\ InHand \in Seq(Event) /\ queue \in Seq(Event)
         /\ Trail \in Seq(Event)
         /\ Len(Printed) = Len(lines["console"])
         /\ Ids("console") = IdsOf(Printed)
<1>1. lines["console"] \in Seq(Line)
  BY DEF TypeOK, OutType, Names
<1>2. /\ Printed \in Seq(Event) /\ Len(Printed) = Len(lines["console"])
      /\ \A i \in 1..Len(lines["console"]) : Printed[i] = lines["console"][i].event
  <2>1. Len(lines["console"]) \in Nat
    BY <1>1
  <2>2. \A i \in 1..Len(lines["console"]) : lines["console"][i].event \in Event
    <3>1. \A i \in 1..Len(lines["console"]) : lines["console"][i] \in Line
      BY <1>1, ElementOfSeq
    <3> QED BY <3>1 DEF Line
  <2>3. \A i \in 1..Len(lines["console"]) : Printed[i] = lines["console"][i].event
    BY DEF Printed
  <2>4. Printed \in Seq(Event) /\ Len(Printed) = Len(lines["console"])
    BY <2>1, <2>2 DEF Printed
  <2> QED BY <2>3, <2>4
<1>3. queue \in Seq(Event) /\ hand \in Event
  BY DEF TypeOK, FlowType
<1>4. InHand \in Seq(Event)
  BY <1>3 DEF InHand
<1>5. Trail = (Printed \o InHand) \o queue
  BY DEF Trail, Printed, InHand
<1>6. Trail \in Seq(Event)
  BY <1>2, <1>3, <1>4, <1>5, ConcatProperties
<1>7. Ids("console") = IdsOf(Printed)
  BY <1>2 DEF Ids, IdsOf
<1> QED BY <1>2, <1>3, <1>4, <1>5, <1>6, <1>7

\* A step of the writer that is not AppendEvent, of the owner or of a thread
\* prints nothing; one that neither takes nor queues an event moves nothing.
LEMMA TrailSame ==
  ASSUME lines'["console"] = lines["console"], queue' = queue, InHand' = InHand
  PROVE  Trail' = Trail
  BY DEF Trail, InHand

\* The writer moves the head of the queue into its hand.
LEMMA TakeMoves ==
  ASSUME TypeOK, TakeEvent PROVE Trail' = Trail
<1>1. /\ queue \in Seq(Event) /\ queue # <<>> /\ InHand = <<>> /\ UNCHANGED lines
      /\ InHand' = <<Head(queue)>> /\ queue' = Tail(queue)
  BY DEF TypeOK, FlowType, TakeEvent, Looks, InHand, Appenders
<1>2. Head(queue) \in Event /\ Tail(queue) \in Seq(Event) /\ queue = <<Head(queue)>> \o Tail(queue)
  BY <1>1
<1>3. Printed \in Seq(Event) /\ Trail = (Printed \o InHand) \o queue
  BY TrailParts
<1>4. Printed \o InHand = Printed
  BY <1>1, <1>3, ConcatEmptySeq
<1>5. Trail' = (Printed \o <<Head(queue)>>) \o Tail(queue)
  BY <1>1 DEF Trail, Printed, InHand
<1>6. (Printed \o <<Head(queue)>>) \o Tail(queue) = Printed \o (<<Head(queue)>> \o Tail(queue))
  <2>1. <<Head(queue)>> \in Seq(Event)
    BY <1>2
  <2> QED BY <1>2, <1>3, <2>1, ConcatAssociative
<1> QED BY <1>2, <1>3, <1>4, <1>5, <1>6

\* The console appender prints the event in the writer's hand, the others print
\* to the files.
LEMMA AppendPrints ==
  ASSUME TypeOK, AppendEvent
  PROVE  Trail' = Trail /\ UNCHANGED queue /\ Ids("console") \subseteq Ids("console")'
<1>1. /\ lines["console"] \in Seq(Line) /\ hand \in Event /\ day \in 0..MaxDay
      /\ lines \in [Names -> Seq(Line)] /\ "console" \in Names /\ turn \in 1..3
      /\ turn' = turn + 1 /\ UNCHANGED <<writer, hand, queue>> /\ writer = "append"
  BY DEF TypeOK, OutType, FlowType, Names, AppendEvent, Appenders
<1>2. CASE turn = 1
  <2>0. Appenders[turn] = "console"
    BY <1>2 DEF Appenders
  <2>1. lines'["console"] = Append(lines["console"], [event |-> hand, date |-> day])
    <3>1. WriteLine("console", day)
      BY <2>0 DEF AppendEvent, Files
    <3> QED BY <1>1, <3>1 DEF WriteLine
  <2> DEFINE l == lines["console"]
             n == Len(lines["console"])
  <2>2. /\ n \in Nat /\ Len(lines'["console"]) = n + 1
        /\ lines'["console"][n + 1] = [event |-> hand, date |-> day]
        /\ \A i \in 1..n : lines'["console"][i] = l[i]
    BY <1>1, <2>1
  <2>3. Printed' = [i \in 1..(n + 1) |-> IF i = n + 1 THEN hand ELSE l[i].event]
    BY <2>2, SMTT(30) DEF Printed
  <2>4. Printed \in Seq(Event) /\ Len(Printed) = n
    BY TrailParts
  <2>5. \A i \in 1..n : Printed[i] = l[i].event
    BY DEF Printed
  <2>6. Printed' = Append(Printed, hand)
    <3>1. /\ Append(Printed, hand) \in Seq(Event) /\ Len(Append(Printed, hand)) = n + 1
          /\ Append(Printed, hand)[n + 1] = hand
          /\ \A i \in 1..n : Append(Printed, hand)[i] = Printed[i]
      BY <1>1, <2>2, <2>4
    <3>2. \A i \in 1..(n + 1) : (IF i = n + 1 THEN hand ELSE l[i].event) \in Event
      <4>1. \A i \in 1..n : l[i].event \in Event
        BY <2>4, <2>5, ElementOfSeq
      <4> QED BY <1>1, <2>2, <4>1
    <3>3. Printed' \in Seq(Event) /\ Len(Printed') = n + 1
      BY <2>2, <2>3, <3>2
    <3>4. \A i \in 1..(n + 1) : Printed'[i] = Append(Printed, hand)[i]
      BY <2>2, <2>3, <2>5, <3>1
    <3> QED BY <3>1, <3>3, <3>4, SeqEqual
  <2>7. InHand = <<hand>> /\ InHand' = <<>>
    BY <1>1, <1>2 DEF InHand
  <2>8. Append(Printed, hand) \in Seq(Event) /\ Append(Printed, hand) = Printed \o <<hand>>
    BY <1>1, <2>4
  <2>9. Printed' \o InHand' = Printed \o InHand
    BY <2>6, <2>7, <2>8, ConcatEmptySeq
  <2>10. Trail' = (Printed' \o InHand') \o queue'
    BY DEF Trail, Printed, InHand
  <2>11. Trail = (Printed \o InHand) \o queue
    BY TrailParts
  <2>12. Ids("console") \subseteq Ids("console")'
    BY <2>2 DEF Ids
  <2> QED BY <1>1, <2>9, <2>10, <2>11, <2>12
<1>3. CASE turn # 1
  <2>0. Appenders[turn] \in Files /\ "console" # Appenders[turn] /\ Appenders[turn] # "console"
    BY <1>1, <1>3 DEF Appenders, Files
  <2>1. lines'["console"] = lines["console"]
    BY <1>1, <2>0 DEF AppendEvent, AppendToFile, WriteLine
  <2>2. InHand' = InHand
    BY <1>1, <1>3 DEF InHand
  <2> QED BY <1>1, <2>1, <2>2, TrailSame DEF Ids
<1> QED BY <1>2, <1>3

\* A thread queues the event with the next number.
LEMMA PushAppends ==
  ASSUME TypeOK, NEW t \in Threads, Push(t), Numbered(caller[t].event, pushed + 1) \in Event
  PROVE  Trail' = Append(Trail, Numbered(caller[t].event, pushed + 1))
<1> DEFINE e == Numbered(caller[t].event, pushed + 1)
<1>1. queue' = Append(queue, e) /\ UNCHANGED <<lines, writer, turn, hand>>
  BY DEF Push
<1>2. /\ Trail = (Printed \o InHand) \o queue /\ Printed \in Seq(Event)
      /\ InHand \in Seq(Event) /\ queue \in Seq(Event)
  BY TrailParts
<1>3. Trail' = (Printed \o InHand) \o Append(queue, e)
  BY <1>1 DEF Trail, Printed, InHand
<1> HIDE DEF e
<1>4. Append(queue, e) = queue \o <<e>> /\ <<e>> \in Seq(Event)
  <2>1. e \in Event
    BY DEF e
  <2> QED BY <1>2, <2>1
<1>5. Printed \o InHand \in Seq(Event)
  BY <1>2, ConcatProperties
<1>6. (Printed \o InHand) \o (queue \o <<e>>) = Trail \o <<e>>
  <2>1. ((Printed \o InHand) \o queue) \o <<e>> = (Printed \o InHand) \o (queue \o <<e>>)
    BY ONLY <1>2, <1>4, <1>5, ConcatAssociative, SMTT(30)
  <2> QED BY <1>2, <2>1
<1>7. Trail \o <<e>> = Append(Trail, e)
  <2>1. Trail \in Seq(Event) /\ e \in Event
    BY TrailParts DEF e
  <2> QED BY <2>1
<1> QED BY <1>3, <1>4, <1>6, <1>7 DEF e

\* Shutdown throws the queue away.
LEMMA ClearDrops ==
  ASSUME TypeOK, WriterInv, Clear
  PROVE  Trail' = Printed /\ Trail = Printed \o queue /\ dropped' = dropped \cup IdsOf(queue)
<1>1. writer = "none" /\ UNCHANGED <<lines, writer, turn, hand>> /\ queue' = <<>>
  BY DEF WriterInv, Clear
<1>2. Trail = (Printed \o InHand) \o queue /\ Printed \in Seq(Event)
  BY TrailParts
<1>3. InHand = <<>>
  BY <1>1 DEF InHand
<1>4. Printed \o InHand = Printed /\ Printed \o <<>> = Printed
  BY <1>2, <1>3, ConcatEmptySeq
<1>5. Trail' = (Printed \o InHand) \o <<>>
  BY <1>1 DEF Trail, Printed, InHand
<1>6. dropped' = dropped \cup IdsOf(queue)
  BY DEF Clear, IdsOf
<1> QED BY <1>2, <1>4, <1>5, <1>6

\* Every other step leaves the events where they are.
LEMMA RestStays ==
  ASSUME WriterInv, [Next]_vars,
         ~TakeEvent, ~AppendEvent, ~Clear, \A t \in Threads : ~Push(t)
  PROVE  Trail' = Trail /\ UNCHANGED <<pushed, dropped, lines, queue>>
<1>1. UNCHANGED <<pushed, dropped, lines, queue>> /\ InHand' = InHand
  <2>1. CASE Drained
    BY <2>1 DEF Drained, InHand, Appenders
  <2>2. CASE \E t \in Threads : Notify(t)
    BY <2>2 DEF Notify, WakeWriter, InHand
  <2>3. CASE \E t \in Threads : \E level \in Levels : Log(t, level)
    BY <2>3 DEF Log, InHand
  <2>4. CASE CheckWait \/ Block \/ WriterExit \/ SpuriousWakeup
    BY <2>4 DEF CheckWait, Block, WriterExit, SpuriousWakeup, WakeWriter, InHand
  <2>5. CASE Shutdown \/ NextDay \/ \E level \in Levels : InitLogger(level) \/ SetMinLevel(level)
    BY <2>5 DEF Shutdown, NextDay, InitLogger, SetMinLevel, InHand
  <2>6. CASE NotifyAll \/ Join
    BY <2>6 DEF NotifyAll, Join, WakeWriter, InHand
  <2>7. CASE StartWriter
    BY <2>7 DEF StartWriter, InHand, WriterInv
  <2>8. CASE UNCHANGED vars
    BY <2>8 DEF InHand
  <2> QED BY <2>1, <2>2, <2>3, <2>4, <2>5, <2>6, <2>7, <2>8 DEF Next, WriterStep, OwnerStep
<1> QED BY <1>1, TrailSame

-----------------------------------------------------------------------------
(* The parts of the invariant.                                             *)

\* What a step may do to the counters of events.
LEMMA CountSteps ==
  ASSUME TypeOK, [Next]_vars
  PROVE  \/ UNCHANGED <<logged, pushed, Pushing>>
         \/ \E t \in Threads \ Pushing : /\ logged < MaxEvents /\ logged' = logged + 1
                                         /\ Pushing' = Pushing \cup {t} /\ UNCHANGED pushed
         \/ \E t \in Pushing : /\ Push(t) /\ pushed' = pushed + 1 /\ UNCHANGED logged
                               /\ Pushing' = Pushing \ {t}
<1>a. caller \in [Threads -> [op : {"idle", "push", "notify"}, event : Event]]
  BY DEF TypeOK, FlowType
<1>b. UNCHANGED caller => UNCHANGED Pushing
  BY DEF Pushing
<1>1. ASSUME NEW t \in Threads, Push(t)
      PROVE  t \in Pushing /\ pushed' = pushed + 1 /\ UNCHANGED logged /\ Pushing' = Pushing \ {t}
  BY <1>1, <1>a DEF Push, Pushing, At
<1>2. ASSUME NEW t \in Threads, Notify(t) PROVE UNCHANGED <<logged, pushed, Pushing>>
  BY <1>2, <1>a DEF Notify, Pushing, At
<1>3. ASSUME NEW t \in Threads, NEW level \in Levels, Log(t, level)
      PROVE  /\ t \notin Pushing /\ logged < MaxEvents /\ logged' = logged + 1
             /\ Pushing' = Pushing \cup {t} /\ UNCHANGED pushed
  BY <1>3, <1>a DEF Log, Pushing
<1>4. CASE WriterStep \/ SpuriousWakeup \/ OwnerStep \/ Shutdown \/ NextDay \/ UNCHANGED vars
  <2>1. UNCHANGED <<logged, pushed, caller>>
    BY <1>4 DEF WriterStep, TakeEvent, AppendEvent, Drained, CheckWait, Block, WriterExit,
                SpuriousWakeup, OwnerStep, StartWriter, NotifyAll, Join, Clear, Shutdown, NextDay
  <2> QED BY <1>b, <2>1
<1>5. ASSUME NEW level \in Levels, InitLogger(level) \/ SetMinLevel(level)
      PROVE  UNCHANGED <<logged, pushed, Pushing>>
  BY <1>5, <1>b DEF InitLogger, SetMinLevel
<1> QED BY <1>1, <1>2, <1>3, <1>4, <1>5 DEF Next

\* What is queued was logged.
LEMMA CountStep ==
  TypeOK /\ CountInv /\ [Next]_vars => CountInv' /\ logged' \in 0..MaxEvents /\ pushed' \in 0..MaxEvents
<1> SUFFICES ASSUME TypeOK, CountInv, [Next]_vars
             PROVE  CountInv' /\ logged' \in 0..MaxEvents /\ pushed' \in 0..MaxEvents
  OBVIOUS
<1>a. /\ logged \in 0..MaxEvents /\ pushed \in 0..MaxEvents /\ MaxEvents \in Nat
      /\ pushed + Cardinality(Pushing) <= logged
  BY LoggerAssumption DEF TypeOK, CountType, CountInv
<1>b. IsFiniteSet(Pushing) /\ Cardinality(Pushing) \in Nat
  BY LoggerAssumption, FS_Subset, FS_CardinalityType DEF Pushing
<1>1. CASE UNCHANGED <<logged, pushed, Pushing>>
  BY <1>1, <1>a DEF CountInv
<1>2. ASSUME NEW t \in Threads \ Pushing, logged < MaxEvents, logged' = logged + 1,
             Pushing' = Pushing \cup {t}, UNCHANGED pushed
      PROVE  CountInv' /\ logged' \in 0..MaxEvents /\ pushed' \in 0..MaxEvents
  <2>1. Cardinality(Pushing') = Cardinality(Pushing) + 1
    BY <1>2, <1>b, FS_AddElement
  <2> QED BY <1>2, <1>a, <1>b, <2>1 DEF CountInv
<1>3. ASSUME NEW t \in Pushing, pushed' = pushed + 1, UNCHANGED logged, Pushing' = Pushing \ {t}
      PROVE  CountInv' /\ logged' \in 0..MaxEvents /\ pushed' \in 0..MaxEvents
  <2>1. Cardinality(Pushing') = Cardinality(Pushing) - 1 /\ Cardinality(Pushing') \in Nat
    <3>1. IsFiniteSet(Pushing') /\ Cardinality(Pushing') = Cardinality(Pushing) - 1
      BY <1>3, <1>b, FS_RemoveElement
    <3> QED BY <3>1, FS_CardinalityType
  <2> QED BY <1>3, <1>a, <1>b, <2>1 DEF CountInv
<1> QED BY <1>1, <1>2, <1>3, CountSteps

\* An event that is queued has a number.
LEMMA PushedFits ==
  ASSUME TypeOK, CountInv, NEW t \in Threads, Push(t)
  PROVE  pushed + 1 \in 1..MaxEvents /\ Numbered(caller[t].event, pushed + 1) \in Event
<1>1. pushed' = pushed + 1 /\ pushed \in 0..MaxEvents /\ [Next]_vars
  BY DEF TypeOK, CountType, Push, Next
<1>2. pushed + 1 \in 1..MaxEvents
  BY <1>1, CountStep, LoggerAssumption
<1>3. caller[t].event \in Event
  BY DEF TypeOK, FlowType
<1> QED BY <1>2, <1>3 DEF Numbered, Event

\* Events are printed in the order they were queued, and none gets lost.
LEMMA OrderStep ==
  TypeOK /\ WriterInv /\ CountInv /\ EventsInOrder /\ [Next]_vars => EventsInOrder'
<1> SUFFICES ASSUME TypeOK, WriterInv, CountInv, EventsInOrder, [Next]_vars PROVE EventsInOrder'
  OBVIOUS
<1>a. /\ Ordered(Trail) /\ IdsOf(Trail) \cup dropped = 1..pushed
      /\ IdsOf(Trail) \cap dropped = {}
  BY DEF EventsInOrder, Ordered, IdsOf
<1>b. Trail \in Seq(Event) /\ pushed \in Nat
  BY TrailParts, LoggerAssumption DEF TypeOK, CountType
<1>c. ASSUME Ordered(Trail'), IdsOf(Trail') \cup dropped' = 1..pushed',
             IdsOf(Trail') \cap dropped' = {}
      PROVE  EventsInOrder'
  BY <1>c DEF EventsInOrder, Ordered, IdsOf
<1>1. CASE Trail' = Trail /\ UNCHANGED <<pushed, dropped>>
  BY <1>1, <1>a, <1>c
<1>2. CASE TakeEvent \/ AppendEvent
  <2>1. UNCHANGED <<pushed, dropped>>
    BY <1>2 DEF TakeEvent, AppendEvent
  <2> QED BY <1>1, <1>2, <2>1, TakeMoves, AppendPrints
<1>3. ASSUME NEW t \in Threads, Push(t) PROVE EventsInOrder'
  <2> DEFINE e == Numbered(caller[t].event, pushed + 1)
  <2>1. e \in Event /\ e.id = pushed + 1
    BY <1>3, PushedFits DEF Numbered
  <2>2. Trail' = Append(Trail, e) /\ pushed' = pushed + 1 /\ dropped' = dropped
    BY <1>3, <2>1, PushAppends DEF Push
  <2> HIDE DEF e
  <2>3. Ordered(Append(Trail, e)) /\ IdsOf(Append(Trail, e)) = IdsOf(Trail) \cup {pushed + 1}
    BY <1>a, <1>b, <2>1, AppendOrdered
  <2>4. 1..(pushed + 1) = 1..pushed \cup {pushed + 1} /\ pushed + 1 \notin 1..pushed
    BY <1>b
  <2>5. dropped \subseteq 1..pushed
    BY <1>a
  <2> QED BY <1>a, <1>c, <2>2, <2>3, <2>4, <2>5
<1>4. CASE Clear
  <2>1. Trail' = Printed /\ Trail = Printed \o queue /\ dropped' = dropped \cup IdsOf(queue)
    BY <1>4, ClearDrops
  <2>2. Printed \in Seq(Event) /\ queue \in Seq(Event)
    BY TrailParts
  <2>3. /\ Ordered(Printed) /\ IdsOf(Trail) = IdsOf(Printed) \cup IdsOf(queue)
        /\ IdsOf(Printed) \cap IdsOf(queue) = {}
    BY <1>a, <2>1, <2>2, ConcatOrdered
  <2>4. UNCHANGED pushed
    BY <1>4 DEF Clear
  <2> QED BY <1>a, <1>c, <2>1, <2>3, <2>4
<1>5. CASE ~TakeEvent /\ ~AppendEvent /\ ~Clear /\ \A t \in Threads : ~Push(t)
  BY <1>1, <1>5, RestStays
<1> QED BY <1>2, <1>3, <1>4, <1>5

\* Where the owner and the writer are, and what the writer has done by then.
LEMMA WriterInvStep ==
  TypeOK /\ WriterInv /\ CountInv /\ EventsInOrder /\ [Next]_vars => WriterInv'
<1> SUFFICES ASSUME TypeOK, WriterInv, CountInv, EventsInOrder, [Next]_vars PROVE WriterInv'
  OBVIOUS
<1> DEFINE Done == Ids("console") \cup dropped
<1>a. pushed \in Nat /\ atStop \in Nat /\ atStop <= pushed
  BY LoggerAssumption DEF TypeOK, CountType, WriterInv
<1>b. Done \subseteq Done'
  <2>1. CASE AppendEvent
    <3>1. UNCHANGED dropped
      BY <2>1 DEF AppendEvent
    <3> QED BY <2>1, <3>1, AppendPrints
  <2>2. CASE Clear
    BY <2>2 DEF Clear, Ids
  <2>3. CASE TakeEvent \/ \E t \in Threads : Push(t)
    BY <2>3 DEF TakeEvent, Push, Ids
  <2>4. CASE ~TakeEvent /\ ~AppendEvent /\ ~Clear /\ \A t \in Threads : ~Push(t)
    BY <2>4, RestStays DEF Ids
  <2> QED BY <2>1, <2>2, <2>3, <2>4
<1>c. pushed' \in Nat /\ pushed <= pushed'
  BY <1>a, CountSteps
<1>d. ASSUME UNCHANGED <<running, owner, writer, atStop>> PROVE WriterInv'
  <2>1. atStop' <= pushed'
    BY <1>a, <1>c, <1>d
  <2>2. writer' = "exit" \/ owner' = "clear" => 1..atStop' \subseteq Done'
    BY <1>b, <1>d DEF WriterInv
  <2> QED BY <1>d, <2>1, <2>2 DEF WriterInv
<1>e. ASSUME UNCHANGED <<running, owner, atStop>>,
             writer' # writer => writer \notin {"none", "exit"} /\ writer' \notin {"none", "exit"}
      PROVE  WriterInv'
  <2>1. atStop' <= pushed'
    BY <1>a, <1>c, <1>e
  <2>2. writer' = "exit" \/ owner' = "clear" => 1..atStop' \subseteq Done'
    BY <1>b, <1>e DEF WriterInv
  <2> QED BY <1>e, <2>1, <2>2 DEF WriterInv
<1>1. CASE TakeEvent \/ Drained \/ CheckWait \/ Block \/ SpuriousWakeup
  BY <1>1, <1>e DEF TakeEvent, Looks, Drained, CheckWait, Block, SpuriousWakeup, WakeWriter
<1>2. CASE AppendEvent \/ NextDay \/ UNCHANGED vars
  BY <1>2, <1>d DEF AppendEvent, NextDay
<1>3. ASSUME NEW t \in Threads, Push(t) \/ Notify(t) PROVE WriterInv'
  BY <1>3, <1>e DEF Push, Notify, WakeWriter
<1>4. ASSUME NEW t \in Threads, NEW level \in Levels, Log(t, level) PROVE WriterInv'
  BY <1>4, <1>d DEF Log
<1>5. CASE WriterExit
  <2>1. /\ writer = "top" /\ queue = <<>> /\ ~running /\ writer' = "exit"
        /\ UNCHANGED <<running, owner, atStop, lines, dropped, pushed>>
    BY <1>5 DEF WriterExit
  <2>2. InHand = <<>>
    BY <2>1 DEF InHand
  <2>3. Trail = Printed /\ Ids("console") = IdsOf(Printed)
    BY <2>1, <2>2, TrailParts, ConcatEmptySeq
  <2>4. Done = 1..pushed
    BY <2>3 DEF EventsInOrder, IdsOf
  <2>5. 1..atStop' \subseteq Done'
    BY <1>a, <1>b, <2>1, <2>4
  <2>6. atStop' <= pushed'
    BY <1>a, <2>1
  <2> QED BY <2>1, <2>5, <2>6 DEF WriterInv
<1>6. ASSUME NEW level \in Levels, InitLogger(level) \/ SetMinLevel(level) PROVE WriterInv'
  <2>1. CASE InitLogger(level)
    <3>1. writer' = "none" /\ owner' = "starting" /\ running' = TRUE /\ UNCHANGED <<atStop, pushed>>
      BY <2>1 DEF InitLogger, WriterInv
    <3> QED BY <1>a, <3>1 DEF WriterInv
  <2>2. CASE SetMinLevel(level)
    BY <1>d, <2>2 DEF SetMinLevel
  <2> QED BY <1>6, <2>1, <2>2
<1>7. CASE StartWriter
  <2>1. /\ writer' = "top" /\ owner' = "up" /\ UNCHANGED <<running, atStop, pushed>>
        /\ owner = "starting"
    BY <1>7 DEF StartWriter
  <2> QED BY <2>1 DEF WriterInv
<1>8. CASE Shutdown
  <2>1. /\ owner \in {"up", "off"} /\ running' = FALSE /\ owner' = "notifyAll"
        /\ UNCHANGED <<writer, pushed>> /\ writer # "exit"
    BY <1>8 DEF Shutdown, WriterInv
  <2>2. CASE owner = "up"
    <3>1. atStop' = pushed /\ writer # "none"
      BY <1>8, <2>2 DEF Shutdown, WriterInv
    <3> QED BY <1>a, <2>1, <3>1 DEF WriterInv
  <2>3. CASE owner = "off"
    <3>1. atStop' = 0
      BY <1>8, <2>3 DEF Shutdown
    <3> QED BY <1>a, <2>1, <3>1 DEF WriterInv
  <2> QED BY <2>1, <2>2, <2>3
<1>9. CASE NotifyAll
  <2>1. /\ owner = "notifyAll" /\ owner' = "join" /\ UNCHANGED <<running, atStop, pushed>>
        /\ writer' = "exit" <=> writer = "exit"
        /\ writer' = "none" <=> writer = "none"
    BY <1>9 DEF NotifyAll, WakeWriter
  <2>2. writer' = "exit" => 1..atStop' \subseteq Done'
    BY <1>b, <2>1 DEF WriterInv
  <2> QED BY <1>a, <2>1, <2>2 DEF WriterInv
<1>10. CASE Join
  <2>1. /\ owner = "join" /\ writer \in {"exit", "none"} /\ writer' = "none" /\ owner' = "clear"
        /\ UNCHANGED <<running, atStop, pushed>>
    BY <1>10 DEF Join
  <2>2. 1..atStop \subseteq Done
    <3>1. CASE writer = "exit"
      BY <3>1 DEF WriterInv
    <3>2. CASE writer = "none"
      <4>1. atStop = 0
        BY <2>1, <3>2 DEF WriterInv
      <4> QED BY <4>1
    <3> QED BY <2>1, <3>1, <3>2
  <2>3. 1..atStop' \subseteq Done'
    BY <1>b, <2>1, <2>2
  <2> QED BY <1>a, <2>1, <2>3 DEF WriterInv
<1>11. CASE Clear
  <2>1. /\ owner = "clear" /\ owner' = "off" /\ atStop' = 0 /\ UNCHANGED <<running, writer, pushed>>
        /\ writer = "none"
    BY <1>11 DEF Clear, WriterInv
  <2> QED BY <1>a, <2>1 DEF WriterInv
<1> QED BY <1>1, <1>2, <1>3, <1>4, <1>5, <1>6, <1>7, <1>8, <1>9, <1>10, <1>11
        DEF Next, WriterStep, OwnerStep

\* Opening some of the files keeps the types, also if some cannot be opened.
LEMMA OpensType ==
  ASSUME OutType, NEW fs \in SUBSET Files, Opens(fs)
  PROVE  isOpen' \in [Files -> BOOLEAN] /\ failed' \in 0..MaxFailures
<1>1. PICK bad \in SUBSET fs :
        /\ failed + Cardinality(bad) <= MaxFailures
        /\ failed' = failed + Cardinality(bad)
        /\ isOpen' = [f \in Files |-> IF f \in fs THEN f \notin bad ELSE isOpen[f]]
  BY DEF Opens
<1>2. isOpen' \in [Files -> BOOLEAN]
  BY <1>1 DEF OutType
<1>3. IsFiniteSet(Files)
  <2>1. Files = ({} \cup {"file"}) \cup {"error"}
    BY DEF Files
  <2> QED BY <2>1, FS_EmptySet, FS_AddElement
<1>4. Cardinality(bad) \in Nat
  BY <1>3, FS_Subset, FS_CardinalityType
<1> QED BY <1>1, <1>2, <1>4, LoggerAssumption DEF OutType

\* An appender writes the line of the event in hand under today's date, or none.
LEMMA AppendEffect ==
  ASSUME TypeOK, AppendEvent
  PROVE  /\ \A a \in Names : \/ lines'[a] = lines[a]
                             \/ lines'[a] = Append(lines[a], [event |-> hand, date |-> day])
         /\ OutType' /\ UNCHANGED day
<1>a. /\ hand \in Event /\ day \in 0..MaxDay /\ lines \in [Names -> Seq(Line)]
      /\ dirty \in [Names -> BOOLEAN] /\ date \in [Files -> 0..MaxDay] /\ turn \in 1..3
      /\ Files \subseteq Names /\ "console" \in Names
  BY DEF TypeOK, FlowType, OutType, Names, AppendEvent, Appenders
<1>b. UNCHANGED day
  BY DEF AppendEvent
<1>c. ASSUME NEW a \in Names, WriteLine(a, day)
      PROVE  /\ \A b \in Names : \/ lines'[b] = lines[b]
                                 \/ lines'[b] = Append(lines[b], [event |-> hand, date |-> day])
             /\ lines' \in [Names -> Seq(Line)] /\ dirty' \in [Names -> BOOLEAN]
  <2>1. [event |-> hand, date |-> day] \in Line
    BY <1>a DEF Line
  <2>2. lines[a] \in Seq(Line)
    BY <1>a
  <2>3. Append(lines[a], [event |-> hand, date |-> day]) \in Seq(Line)
    BY ONLY <2>1, <2>2
  <2>4. /\ lines' = [lines EXCEPT ![a] = Append(lines[a], [event |-> hand, date |-> day])]
        /\ dirty' = [dirty EXCEPT ![a] = TRUE]
    BY <1>c DEF WriteLine
  <2> QED BY <1>a, <2>3, <2>4
<1>1. CASE turn = 1
  <2>1. WriteLine("console", day) /\ UNCHANGED <<date, isOpen, failed>>
    BY <1>1 DEF AppendEvent, Appenders, Files
  <2> QED BY <1>a, <1>b, <1>c, <2>1 DEF TypeOK, OutType
<1>2. CASE turn # 1
  <2>1. PICK f \in Files : AppendToFile(f) \/ UNCHANGED outVars
    BY <1>a, <1>2 DEF AppendEvent, Appenders, Files
  <2>2. CASE UNCHANGED outVars
    BY <1>a, <1>b, <2>2 DEF TypeOK, OutType
  <2>3. CASE AppendToFile(f)
    <3>1. /\ date' \in [Files -> 0..MaxDay] /\ isOpen' \in [Files -> BOOLEAN]
          /\ failed' \in 0..MaxFailures
      <4>1. CASE day # date[f]
        <5>1. date' = [date EXCEPT ![f] = day] /\ Opens({f})
          BY <2>3, <4>1 DEF AppendToFile
        <5> QED BY <1>a, <5>1, OpensType DEF TypeOK
      <4>2. CASE day = date[f]
        BY <2>3, <4>2 DEF AppendToFile, TypeOK, OutType
      <4> QED BY <4>1, <4>2
    <3>2. CASE isOpen'[f]
      <4>1. WriteLine(f, day)
        BY <2>3, <3>2 DEF AppendToFile
      <4> QED BY <1>a, <1>b, <1>c, <3>1, <4>1 DEF TypeOK, OutType
    <3>3. CASE ~isOpen'[f]
      <4>1. dirty' = [dirty EXCEPT ![f] = FALSE] /\ UNCHANGED lines
        BY <2>3, <3>3 DEF AppendToFile
      <4> QED BY <1>a, <1>b, <3>1, <4>1 DEF TypeOK, OutType
    <3> QED BY <3>2, <3>3
  <2> QED BY <2>1, <2>2, <2>3
<1> QED BY <1>1, <1>2

\* Before it rests the writer flushes.
LEMMA FlushStep == WriterInv /\ FlushInv /\ [Next]_vars => FlushInv'
<1> SUFFICES ASSUME WriterInv, FlushInv, [Next]_vars PROVE FlushInv'
  OBVIOUS
<1>1. CASE TakeEvent \/ AppendEvent
  BY <1>1 DEF TakeEvent, AppendEvent, FlushInv
<1>2. CASE Drained \/ Join
  BY <1>2 DEF Drained, Join, Flush, FlushInv
<1>3. CASE CheckWait \/ Block \/ WriterExit \/ SpuriousWakeup \/ Shutdown \/ NextDay
             \/ NotifyAll \/ Clear \/ UNCHANGED vars
  BY <1>3 DEF CheckWait, Block, WriterExit, SpuriousWakeup, WakeWriter, Shutdown, NextDay,
              NotifyAll, Clear, FlushInv
<1>4. CASE StartWriter
  BY <1>4 DEF StartWriter, FlushInv, WriterInv
<1>5. ASSUME NEW t \in Threads, Push(t) \/ Notify(t) PROVE FlushInv'
  BY <1>5 DEF Push, Notify, WakeWriter, FlushInv
<1>6. ASSUME NEW t \in Threads, NEW level \in Levels, Log(t, level) PROVE FlushInv'
  BY <1>6 DEF Log, FlushInv
<1>7. ASSUME NEW level \in Levels, InitLogger(level) \/ SetMinLevel(level) PROVE FlushInv'
  BY <1>7 DEF InitLogger, SetMinLevel, FlushInv
<1> QED BY <1>1, <1>2, <1>3, <1>4, <1>5, <1>6, <1>7 DEF Next, WriterStep, OwnerStep

\* What a step may do to an event under way: it keeps the one in hand, takes the
\* head of the queue or lets go of it; it keeps, shortens or empties the queue,
\* or queues what a caller has built; a caller builds an event of today.
LEMMA EventSteps ==
  ASSUME TypeOK, WriterInv, [Next]_vars
  PROVE  /\ \/ hand' = hand \/ hand' = None
            \/ queue # <<>> /\ hand' = Head(queue)
         /\ \/ queue' = queue \/ queue' = <<>>
            \/ queue # <<>> /\ queue' = Tail(queue)
            \/ \E t \in Threads : Push(t) /\ queue' = Append(queue, Numbered(caller[t].event, pushed + 1))
         /\ \/ caller' = caller
            \/ \E t \in Threads : caller' = [caller EXCEPT ![t] = At("idle")]
            \/ \E t \in Threads : caller' = [caller EXCEPT ![t] = At("notify")]
            \/ \E t \in Threads, level \in Levels :
                 caller' = [caller EXCEPT ![t] = [op |-> "push", event |-> BuildLogMeta(level)]]
         /\ turn' \in {turn, 1} \/ (turn <= 3 /\ turn' = turn + 1)
         /\ AppendEvent \/ UNCHANGED lines
         /\ day' = day \/ (day < MaxDay /\ day' = day + 1)
<1>1. ASSUME NEW t \in Threads, Push(t) \/ Notify(t)
      PROVE  /\ UNCHANGED <<hand, turn, day, lines>>
             /\ \/ queue' = queue
                \/ Push(t) /\ queue' = Append(queue, Numbered(caller[t].event, pushed + 1))
             /\ \/ caller' = [caller EXCEPT ![t] = At("idle")]
                \/ caller' = [caller EXCEPT ![t] = At("notify")]
  BY <1>1 DEF Push, Notify
<1>2. ASSUME NEW t \in Threads, NEW level \in Levels, Log(t, level)
      PROVE  /\ UNCHANGED <<hand, turn, day, lines, queue>>
             /\ caller' = [caller EXCEPT ![t] = [op |-> "push", event |-> BuildLogMeta(level)]]
  BY <1>2 DEF Log
<1>3. ASSUME NEW level \in Levels, InitLogger(level) \/ SetMinLevel(level)
      PROVE  UNCHANGED <<hand, turn, day, lines, queue, caller>>
  BY <1>3 DEF InitLogger, SetMinLevel
<1>4. CASE TakeEvent \/ AppendEvent \/ Drained
  BY <1>4 DEF TakeEvent, AppendEvent, Drained, Appenders
<1>5. CASE CheckWait \/ Block \/ WriterExit \/ SpuriousWakeup \/ UNCHANGED vars
             \/ StartWriter \/ NotifyAll \/ Shutdown
  <2>1. UNCHANGED <<hand, turn, day, lines, queue, caller>>
    BY <1>5 DEF CheckWait, Block, WriterExit, SpuriousWakeup, StartWriter, NotifyAll, Shutdown
  <2> QED BY <2>1
<1>6. CASE Join \/ Clear
  BY <1>6 DEF Join, Clear
<1>7. CASE NextDay
  BY <1>7 DEF NextDay
<1>8. CASE \E t \in Threads : Push(t) \/ Notify(t)
  BY <1>1, <1>8
<1>9. CASE \E t \in Threads, level \in Levels : Log(t, level)
  BY <1>2, <1>9
<1> QED BY <1>3, <1>4, <1>5, <1>6, <1>7, <1>8, <1>9 DEF Next, WriterStep, OwnerStep

\* Nothing is from the future, and the files hold the lines of their day.
LEMMA DayStep ==
  TypeOK /\ WriterInv /\ DayInv /\ LinesOfTheDay /\ [Next]_vars => DayInv' /\ LinesOfTheDay'
<1> SUFFICES ASSUME TypeOK, WriterInv, DayInv, LinesOfTheDay, [Next]_vars
             PROVE  DayInv' /\ LinesOfTheDay'
  OBVIOUS
<1>a. /\ hand \in Event /\ queue \in Seq(Event)
      /\ caller \in [Threads -> [op : {"idle", "push", "notify"}, event : Event]]
      /\ day \in Nat /\ day' \in Nat /\ day <= day'
      /\ lines \in [Names -> Seq(Line)] /\ Files \subseteq Names
  BY EventSteps, LoggerAssumption DEF TypeOK, FlowType, OutType, Names
<1>b. \A e \in Event : e.day \in Nat
  BY LoggerAssumption DEF Event
<1>c. /\ hand.day <= day
      /\ \A i \in 1..Len(queue) : queue[i].day <= day
      /\ \A t \in Threads : caller[t].event.day <= day
  BY DEF DayInv
<1>d. None.day <= day'
  BY <1>a DEF None
<1>e. ASSUME NEW e \in Event, e.day <= day PROVE e.day <= day'
  BY <1>a, <1>b, <1>e
<1>f. \A i \in 1..Len(queue) : queue[i] \in Event
  BY <1>a, ElementOfSeq
<1>1. hand'.day <= day'
  <2>1. CASE queue # <<>> /\ hand' = Head(queue)
    <3>1. 1 \in 1..Len(queue) /\ Head(queue) = queue[1]
      BY <1>a, <2>1
    <3> QED BY <1>c, <1>e, <1>f, <2>1, <3>1
  <2>2. CASE hand' \in {hand, None}
    BY <1>a, <1>c, <1>d, <1>e, <2>2
  <2> QED BY <2>1, <2>2, EventSteps
<1>2. \A i \in 1..Len(queue') : queue'[i].day <= day'
  <2>1. CASE queue' = queue
    BY <1>c, <1>e, <1>f, <2>1
  <2>2. CASE queue' = <<>>
    BY <2>2
  <2>3. CASE queue # <<>> /\ queue' = Tail(queue)
    <3>1. \A i \in 1..Len(queue') : i + 1 \in 1..Len(queue) /\ queue'[i] = queue[i + 1]
      BY <1>a, <2>3
    <3> QED BY <1>c, <1>e, <1>f, <3>1
  <2>4. ASSUME NEW t \in Threads, queue' = Append(queue, Numbered(caller[t].event, pushed + 1))
        PROVE  \A i \in 1..Len(queue') : queue'[i].day <= day'
    <3>1. /\ Len(queue) \in Nat /\ Len(queue') = Len(queue) + 1
          /\ queue'[Len(queue) + 1] = Numbered(caller[t].event, pushed + 1)
          /\ \A i \in 1..Len(queue) : queue'[i] = queue[i]
      BY <1>a, <2>4
    <3>2. caller[t].event \in Event /\ caller[t].event.day <= day'
      BY <1>a, <1>c, <1>e
    <3>3. queue'[Len(queue) + 1].day <= day'
      BY <3>1, <3>2 DEF Numbered
    <3>4. \A i \in 1..Len(queue) : queue'[i].day <= day'
      BY <1>c, <1>e, <1>f, <3>1
    <3> QED BY <3>1, <3>3, <3>4
  <2> QED BY <2>1, <2>2, <2>3, <2>4, EventSteps
<1>3. \A t \in Threads : caller'[t].event.day <= day'
  <2>0. \A t \in Threads : caller[t].event \in Event /\ caller[t].event.day <= day'
    BY <1>a, <1>c, <1>e
  <2>1. ASSUME NEW t \in Threads, NEW r, r.event.day <= day', caller' = [caller EXCEPT ![t] = r]
        PROVE  \A u \in Threads : caller'[u].event.day <= day'
    BY <1>a, <2>0, <2>1
  <2>2. At("idle").event.day <= day' /\ At("notify").event.day <= day'
    BY <1>d DEF At
  <2>3. ASSUME NEW level PROVE [op |-> "push", event |-> BuildLogMeta(level)].event.day <= day'
    BY <1>a DEF BuildLogMeta
  <2> QED BY <2>0, <2>1, <2>2, <2>3, EventSteps
<1>4. ASSUME NEW f \in Files
      PROVE  \A i \in 1..Len(lines'[f]) :
               /\ lines'[f][i].date <= day'
               /\ lines'[f][i].event.day <= lines'[f][i].date
               /\ i > 1 => lines'[f][i - 1].date <= lines'[f][i].date
  <2>1. /\ lines[f] \in Seq(Line)
        /\ \A i \in 1..Len(lines[f]) :
             /\ lines[f][i] \in Line /\ lines[f][i].date <= day
             /\ lines[f][i].event.day <= lines[f][i].date
             /\ i > 1 => lines[f][i - 1].date <= lines[f][i].date
    BY <1>a, ElementOfSeq DEF DayInv, LinesOfTheDay
  <2>2. \A i \in 1..Len(lines[f]) : lines[f][i].date \in Nat /\ lines[f][i].date <= day'
    <3>1. \A i \in 1..Len(lines[f]) : lines[f][i].date \in Nat
      BY <2>1, LoggerAssumption DEF Line
    <3> QED BY <1>a, <2>1, <3>1
  <2>3. CASE lines'[f] = lines[f]
    BY <2>1, <2>2, <2>3
  <2>4. CASE lines'[f] = Append(lines[f], [event |-> hand, date |-> day])
    <3> DEFINE n == Len(lines[f])
    <3>1. /\ n \in Nat /\ Len(lines'[f]) = n + 1
          /\ lines'[f][n + 1] = [event |-> hand, date |-> day]
          /\ \A i \in 1..n : lines'[f][i] = lines[f][i]
      BY <2>1, <2>4
    <3>2. lines'[f][n + 1].date = day /\ lines'[f][n + 1].event.day = hand.day
      BY <3>1
    <3> SUFFICES ASSUME NEW i \in 1..(n + 1)
                 PROVE  /\ lines'[f][i].date <= day'
                        /\ lines'[f][i].event.day <= lines'[f][i].date
                        /\ i > 1 => lines'[f][i - 1].date <= lines'[f][i].date
      BY <3>1
    <3>3. CASE i \in 1..n
      <4>1. lines'[f][i] = lines[f][i]
        BY <3>1, <3>3
      <4>2. i > 1 => i - 1 \in 1..n /\ lines'[f][i - 1] = lines[f][i - 1]
        BY <3>1, <3>3
      <4> QED BY <2>1, <2>2, <3>3, <4>1, <4>2
    <3>4. CASE i = n + 1
      <4>1. i > 1 => i - 1 \in 1..n
        BY <3>1, <3>4
      <4>2. i > 1 => lines'[f][i - 1].date <= day
        BY <2>1, <3>1, <4>1
      <4> QED BY <1>a, <1>c, <3>2, <3>4, <4>2
    <3> QED BY <3>1, <3>3, <3>4
  <2>5. f \in Names /\ (UNCHANGED lines \/ AppendEvent)
    BY <1>a, EventSteps
  <2> QED BY <2>3, <2>4, <2>5, AppendEffect
<1>5. DayInv'
  BY <1>1, <1>2, <1>3, <1>4 DEF DayInv
<1>6. LinesOfTheDay'
  BY <1>4 DEF LinesOfTheDay
<1> QED BY <1>5, <1>6

\* Types.
LEMMA TypeStep ==
  TypeOK /\ WriterInv /\ CountInv /\ EventsInOrder /\ [Next]_vars => TypeOK'
<1> SUFFICES ASSUME TypeOK, WriterInv, CountInv, EventsInOrder, [Next]_vars PROVE TypeOK'
  OBVIOUS
<1>a. FlowType /\ StateType /\ OutType /\ CountType
  BY DEF TypeOK
<1>b. None \in Event
  BY LoggerAssumption DEF None, Event
<1>1. FlowType'
  <2>a. /\ hand \in Event /\ queue \in Seq(Event) /\ turn \in 1..4
        /\ caller \in [Threads -> [op : {"idle", "push", "notify"}, event : Event]]
    BY <1>a DEF FlowType
  <2>1. hand' \in Event
    <3>1. queue # <<>> => Head(queue) \in Event
      BY <2>a
    <3> QED BY <1>b, <2>a, <3>1, EventSteps
  <2>2. queue' \in Seq(Event)
    <3>1. queue # <<>> => Tail(queue) \in Seq(Event)
      BY <2>a
    <3>2. \A e \in Event : Append(queue, e) \in Seq(Event)
      BY <2>a
    <3>3. \A t \in Threads : Push(t) => Numbered(caller[t].event, pushed + 1) \in Event
      BY PushedFits
    <3>4. <<>> \in Seq(Event)
      OBVIOUS
    <3> QED BY <2>a, <3>1, <3>2, <3>3, <3>4, EventSteps
  <2>3. caller' \in [Threads -> [op : {"idle", "push", "notify"}, event : Event]]
    <3>1. \A level \in Levels : BuildLogMeta(level) \in Event
      BY <1>a, LoggerAssumption DEF BuildLogMeta, Event, OutType
    <3> DEFINE Caller == [op : {"idle", "push", "notify"}, event : Event]
    <3>2. /\ At("idle") \in Caller /\ At("notify") \in Caller
          /\ \A level \in Levels : [op |-> "push", event |-> BuildLogMeta(level)] \in Caller
      BY <1>b, <3>1 DEF At
    <3> HIDE DEF Caller
    <3>3. caller \in [Threads -> Caller]
      BY <2>a DEF Caller
    <3>4. caller' \in [Threads -> Caller]
      BY <3>2, <3>3, EventSteps
    <3> QED BY <3>4 DEF Caller
  <2>4. turn' \in 1..4
    BY <2>a, EventSteps
  <2> QED BY <2>1, <2>2, <2>3, <2>4 DEF FlowType
<1>2. StateType'
  <2>1. ASSUME NEW t \in Threads, Push(t) \/ Notify(t) \/ \E level \in Levels : Log(t, level)
        PROVE  StateType'
    BY <1>a, <2>1 DEF StateType, Push, Notify, WakeWriter, Log
  <2>2. ASSUME NEW level \in Levels, InitLogger(level) \/ SetMinLevel(level) PROVE StateType'
    BY <1>a, <2>2, LoggerAssumption DEF StateType, InitLogger, SetMinLevel
  <2>3. CASE WriterStep \/ SpuriousWakeup
    BY <1>a, <2>3 DEF StateType, WriterStep, TakeEvent, AppendEvent, Drained, CheckWait, Block,
                      WriterExit, SpuriousWakeup, WakeWriter
  <2>4. CASE OwnerStep \/ Shutdown \/ NextDay \/ UNCHANGED vars
    BY <1>a, <2>4 DEF StateType, OwnerStep, StartWriter, NotifyAll, WakeWriter, Join, Clear,
                      Shutdown, NextDay
  <2> QED BY <2>1, <2>2, <2>3, <2>4 DEF Next
<1>3. OutType'
  <2>1. CASE AppendEvent
    BY <2>1, AppendEffect
  <2>2. CASE StartWriter
    <3>1. Opens(Files) /\ date' = [f \in Files |-> day] /\ UNCHANGED <<lines, dirty, day>>
      BY <2>2 DEF StartWriter, OpenFiles
    <3>2. isOpen' \in [Files -> BOOLEAN] /\ failed' \in 0..MaxFailures
      BY <1>a, <3>1, OpensType
    <3> QED BY <1>a, <3>1, <3>2 DEF OutType
  <2>3. CASE Clear
    BY <1>a, <2>3, LoggerAssumption DEF Clear, CloseFiles, OutType
  <2>4. CASE Drained \/ Join
    BY <1>a, <2>4 DEF Drained, Join, Flush, OutType
  <2>5. CASE NextDay
    BY <1>a, <2>5, LoggerAssumption DEF NextDay, OutType
  <2>6. CASE UNCHANGED <<outVars, day>>
    BY <1>a, <2>6 DEF OutType
  <2>7. ASSUME NEW t \in Threads, Push(t) \/ Notify(t) \/ \E level \in Levels : Log(t, level)
        PROVE  UNCHANGED <<outVars, day>>
    BY <2>7 DEF Push, Notify, Log
  <2>8. ASSUME NEW level \in Levels, InitLogger(level) \/ SetMinLevel(level)
        PROVE  UNCHANGED <<outVars, day>>
    BY <2>8 DEF InitLogger, SetMinLevel
  <2>9. CASE TakeEvent \/ CheckWait \/ Block \/ WriterExit \/ SpuriousWakeup \/ NotifyAll \/ Shutdown
    <3>1. UNCHANGED <<outVars, day>>
      BY <2>9 DEF TakeEvent, CheckWait, Block, WriterExit, SpuriousWakeup, NotifyAll, Shutdown
    <3> QED BY <2>6, <3>1
  <2>10. CASE UNCHANGED vars
    BY <2>6, <2>10
  <2> QED BY <2>1, <2>2, <2>3, <2>4, <2>5, <2>6, <2>7, <2>8, <2>9, <2>10
          DEF Next, WriterStep, OwnerStep
<1>4. CountType'
  <2>1. logged' \in 0..MaxEvents /\ pushed' \in 0..MaxEvents
    BY CountStep
  <2>2. dropped' \subseteq 1..MaxEvents
    <3>1. EventsInOrder'
      BY OrderStep
    <3>2. dropped' \subseteq 1..pushed'
      BY <3>1 DEF EventsInOrder
    <3>3. 1..pushed' \subseteq 1..MaxEvents
      BY <2>1, LoggerAssumption
    <3> QED BY <3>2, <3>3
  <2>3. inits' \in 0..MaxInits /\ atStop' \in 0..MaxEvents
    <3>a. /\ inits \in 0..MaxInits /\ atStop \in 0..MaxEvents /\ pushed \in 0..MaxEvents
          /\ MaxInits \in Nat /\ MaxEvents \in Nat
      BY <1>a, LoggerAssumption DEF CountType
    <3>1. ASSUME NEW level \in Levels, InitLogger(level) \/ SetMinLevel(level)
          PROVE  /\ inits' = inits \/ (inits < MaxInits /\ inits' = inits + 1)
                 /\ UNCHANGED atStop
      BY <3>1 DEF InitLogger, SetMinLevel
    <3>2. ASSUME NEW t \in Threads, Push(t) \/ Notify(t) \/ \E level \in Levels : Log(t, level)
          PROVE  UNCHANGED <<inits, atStop>>
      BY <3>2 DEF Push, Notify, Log
    <3>3. CASE Shutdown \/ Clear
      BY <3>3, <3>a DEF Shutdown, Clear
    <3>4. CASE WriterStep \/ SpuriousWakeup \/ NextDay \/ StartWriter \/ NotifyAll \/ Join
                 \/ UNCHANGED vars
      <4>1. UNCHANGED <<inits, atStop>>
        BY <3>4 DEF WriterStep, TakeEvent, AppendEvent, Drained, CheckWait, Block, WriterExit,
                    SpuriousWakeup, NextDay, StartWriter, NotifyAll, Join
      <4> QED BY <3>a, <4>1
    <3> QED BY <3>a, <3>1, <3>2, <3>3, <3>4 DEF Next, OwnerStep
  <2> QED BY <2>1, <2>2, <2>3 DEF CountType
<1> QED BY <1>1, <1>2, <1>3, <1>4 DEF TypeOK

-----------------------------------------------------------------------------
(* The theorems.                                                           *)

\* The invariant holds before the first Init of the logger.
LEMMA IInvInit == Init => IInv
<1> SUFFICES ASSUME Init PROVE IInv
  OBVIOUS
<1>1. None \in Event
  BY LoggerAssumption DEF None, Event
<1>2. TypeOK
  <2>1. FlowType
    BY <1>1 DEF Init, FlowType, At
  <2>2. StateType
    BY DEF Init, StateType
  <2>3. <<>> \in Seq(Line)
    OBVIOUS
  <2>4. OutType
    BY <2>3, LoggerAssumption DEF Init, OutType
  <2>5. CountType
    BY LoggerAssumption DEF Init, CountType
  <2> QED BY <2>1, <2>2, <2>4, <2>5 DEF TypeOK
<1>3. WriterInv
  BY DEF Init, WriterInv
<1>4. CountInv
  <2>1. Pushing = {}
    BY DEF Init, Pushing, At
  <2>2. pushed = 0 /\ logged = 0 /\ Cardinality({}) = 0
    BY FS_EmptySet DEF Init
  <2> QED BY <2>1, <2>2 DEF CountInv
<1>5. FlushInv
  BY DEF Init, FlushInv
<1>6. DayInv /\ LinesOfTheDay
  BY DEF Init, DayInv, LinesOfTheDay, None, At, Names
<1>7. EventsInOrder
  <2>1. InHand = <<>> /\ queue = <<>> /\ Len(lines["console"]) = 0
    BY DEF Init, InHand, Names
  <2>2. Printed \in Seq(Event) /\ Len(Printed) = 0 /\ Trail = (Printed \o InHand) \o queue
    BY <1>2, <2>1, TrailParts
  <2>3. Trail = Printed
    BY <2>1, <2>2, ConcatEmptySeq
  <2> QED BY <2>2, <2>3 DEF Init, EventsInOrder
<1> QED BY <1>2, <1>3, <1>4, <1>5, <1>6, <1>7 DEF IInv

\* The inductive invariant: the owner, the writer, the threads that log, the
\* events under way and the files agree after every step.
THEOREM IInvHolds == Spec => []IInv
<1>1. IInv /\ [Next]_vars => IInv'
  BY TypeStep, WriterInvStep, CountStep, FlushStep, DayStep, OrderStep DEF IInv
<1> QED BY <1>1, IInvInit, PTL DEF Spec

\* Type correctness.
THEOREM TypeCorrect == Spec => []TypeOK
<1>1. IInv => TypeOK
  BY DEF IInv
<1> QED BY <1>1, IInvHolds, PTL

\* Every event that was queued is printed, under way or thrown away, exactly
\* one of the three, and the console has them in the order they were queued.
THEOREM InOrder == Spec => []EventsInOrder
<1>1. IInv => EventsInOrder
  BY DEF IInv
<1> QED BY <1>1, IInvHolds, PTL

\* When Shutdown has joined the writer thread, everything that was queued while
\* the logger ran has been printed.
THEOREM WrittenAtStop == Spec => []StopWritesAll
<1>1. IInv => StopWritesAll
  BY DEF IInv, WriterInv, StopWritesAll
<1> QED BY <1>1, IInvHolds, PTL

\* A writer that rests, waits or has left has flushed every appender.
THEOREM RestIsFlushed == Spec => []FlushedAtRest
<1>1. IInv => FlushedAtRest
  BY DEF IInv, FlushInv, FlushedAtRest
<1> QED BY <1>1, IInvHolds, PTL

\* CheckRollOver keeps the lines of a day together, in its own file.
THEOREM RollOver == Spec => []LinesOfTheDay
<1>1. IInv => LinesOfTheDay
  BY DEF IInv
<1> QED BY <1>1, IInvHolds, PTL
=============================================================================
