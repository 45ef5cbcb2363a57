--------------------------- MODULE SchedulerProofs ---------------------------
(***************************************************************************)
(* Proofs about Scheduler: its types, that it does not panic before it is  *)
(* told to stop, and that every report task has one fate, for any number   *)
(* of firings and subscribers and channels of any size.                    *)
(***************************************************************************)
EXTENDS Scheduler, TLAPS

-----------------------------------------------------------------------------
(* Channels as sequences *)

Distinct(s) == \A i, j \in 1 .. Len(s) : s[i] = s[j] => i = j

LEMMA Sent ==
  ASSUME NEW S, NEW s \in Seq(S), NEW x \in S
  PROVE  /\ Append(s, x) \in Seq(S) /\ Len(Append(s, x)) = Len(s) + 1
         /\ ToSet(Append(s, x)) = ToSet(s) \cup {x}
         /\ Distinct(s) /\ x \notin ToSet(s) => Distinct(Append(s, x))
<1>1. ToSet(Append(s, x)) = ToSet(s) \cup {x}
  <2>1. \A i \in 1 .. Len(s) : Append(s, x)[i] = s[i]
    OBVIOUS
  <2>2. Append(s, x)[Len(s) + 1] = x
    OBVIOUS
  <2>3. DOMAIN Append(s, x) = DOMAIN s \cup {Len(s) + 1}
    OBVIOUS
  <2>4. DOMAIN s = 1 .. Len(s)
    OBVIOUS
  <2>. QED  BY <2>1, <2>2, <2>3, <2>4 DEF ToSet
<1>2. Distinct(s) /\ x \notin ToSet(s) => Distinct(Append(s, x))
  BY DEF Distinct, ToSet
<1>. QED  BY <1>1, <1>2

LEMMA Taken ==
  ASSUME NEW S, NEW s \in Seq(S), s # <<>>
  PROVE  /\ Head(s) \in S /\ Tail(s) \in Seq(S) /\ Len(Tail(s)) = Len(s) - 1
         /\ ToSet(s) = {Head(s)} \cup ToSet(Tail(s))
         /\ Distinct(s) => Distinct(Tail(s)) /\ Head(s) \notin ToSet(Tail(s))
<1>1. /\ Head(s) = s[1] /\ Len(Tail(s)) = Len(s) - 1 /\ Len(s) \in Nat \ {0}
      /\ \A i \in 1 .. Len(s) - 1 : Tail(s)[i] = s[i + 1]
      /\ DOMAIN s = 1 .. Len(s) /\ DOMAIN Tail(s) = 1 .. Len(s) - 1
  OBVIOUS
<1>2. ToSet(s) = {Head(s)} \cup ToSet(Tail(s))
  <2>1. ASSUME NEW i \in 1 .. Len(s)  PROVE s[i] \in {Head(s)} \cup ToSet(Tail(s))
    <3>1. CASE i = 1
      BY <1>1, <3>1
    <3>2. CASE i # 1
      <4>1. i - 1 \in 1 .. Len(s) - 1 /\ Tail(s)[i - 1] = s[i]
        BY <1>1, <3>2
      <4>. QED  BY <1>1, <4>1 DEF ToSet
    <3>. QED  BY <3>1, <3>2
  <2>2. ASSUME NEW i \in 1 .. Len(s) - 1  PROVE Tail(s)[i] \in ToSet(s)
    <3>1. i + 1 \in 1 .. Len(s) /\ Tail(s)[i] = s[i + 1]
      BY <1>1
    <3>. QED  BY <1>1, <3>1 DEF ToSet
  <2>3. Head(s) \in ToSet(s)
    BY <1>1 DEF ToSet
  <2>. QED  BY <1>1, <2>1, <2>2, <2>3 DEF ToSet
<1>3. ASSUME Distinct(s)  PROVE Distinct(Tail(s)) /\ Head(s) \notin ToSet(Tail(s))
  BY <1>1, <1>3 DEF Distinct, ToSet
<1>. QED  BY <1>1, <1>2, <1>3

-----------------------------------------------------------------------------
(* Types, and what may happen before the signal *)

\* Closed channels, panics and a main goroutine on its way out come after the signal.
OnlyAfterSignal ==
  /\ eventsClosed => cancelled
  /\ queueClosed => cancelled
  /\ process = "panicked" => cancelled
  /\ main # "serving" => cancelled

LEMMA TypesAndSignal ==
  ASSUME TypeOK, OnlyAfterSignal, [Next]_vars
  PROVE  TypeOK' /\ OnlyAfterSignal'
<1>. USE DEF Up, Panic, channelVars, dispatchVars, taskVars
<1>1. CASE UNCHANGED vars
  BY <1>1 DEF vars, TypeOK, OnlyAfterSignal
<1>2. CASE StartStep
  BY <1>2 DEF StartStep, StartWorker, StartDispatcher, StartCron, TypeOK, OnlyAfterSignal
<1>3. ASSUME NEW f \in Firings, Fire(f) \/ SendEvent(f)  PROVE TypeOK' /\ OnlyAfterSignal'
  <2>1. CASE Fire(f)
    BY <2>1 DEF Fire, TypeOK, OnlyAfterSignal
  <2>2. CASE SendEvent(f)
    <3>1. events' \in Seq(Firings) /\ Len(events') <= EventCapacity
      <4>1. \/ events' = events
            \/ Len(events) < EventCapacity /\ events' = Append(events, f)
        BY <2>2 DEF SendEvent, EventRoom
      <4>2. events \in Seq(Firings) /\ Len(events) \in Nat /\ Len(events) <= EventCapacity
        BY DEF TypeOK
      <4>3. Append(events, f) \in Seq(Firings) /\ Len(Append(events, f)) = Len(events) + 1
        BY <4>2, Sent
      <4>. QED  BY <4>1, <4>2, <4>3, SchedulerAssumption
    <3>. QED  BY <2>2, <3>1 DEF SendEvent, TypeOK, OnlyAfterSignal
  <2>. QED  BY <1>3, <2>1, <2>2
<1>4. CASE StopperRuns
  <2>1. /\ cancelled /\ cancelled' = cancelled /\ cron' \in {cron, "stopped"}
        /\ stopper' = "done" /\ process' \in {process, "panicked"} /\ eventsClosed' \in BOOLEAN
        /\ UNCHANGED <<start, job, events, queue, queueClosed, dispatchVars, taskVars, main>>
    BY <1>4 DEF StopperRuns, StopperDue, StopCron, TypeOK
  <2>2. TypeOK'
    BY <2>1 DEF TypeOK
  <2>. QED  BY <2>1, <2>2 DEF OnlyAfterSignal
<1>5. CASE Receive
  <2>1. events' \in Seq(Firings) /\ Len(events') <= EventCapacity /\ event' \in Firings
    <3>1. \/ events' = events /\ event' = event
          \/ events # <<>> /\ events' = Tail(events) /\ event' = Head(events)
      BY <1>5 DEF Receive
    <3>2. events \in Seq(Firings) /\ Len(events) \in Nat /\ Len(events) <= EventCapacity
      BY DEF TypeOK
    <3>3. CASE events # <<>> /\ events' = Tail(events) /\ event' = Head(events)
      <4>1. /\ Head(events) \in Firings /\ Tail(events) \in Seq(Firings)
            /\ Len(Tail(events)) = Len(events) - 1
        BY <3>2, <3>3, Taken
      <4>. QED  BY <3>2, <3>3, <4>1, SchedulerAssumption
    <3>. QED  BY <3>1, <3>3 DEF TypeOK
  <2>. QED  BY <1>5, <2>1 DEF Receive, TypeOK, OnlyAfterSignal
<1>6. CASE Query
  BY <1>6 DEF Query, AfterQueryError, Tasks, TypeOK, OnlyAfterSignal
<1>7. ASSUME NEW t \in Tasks, Enqueue(t)  PROVE TypeOK' /\ OnlyAfterSignal'
  <2>1. queue' \in Seq(Tasks) /\ Len(queue') <= QueueCapacity
    <3>1. \/ queue' = queue
          \/ Len(queue) < QueueCapacity /\ queue' = Append(queue, t)
      BY <1>7 DEF Enqueue
    <3>2. queue \in Seq(Tasks) /\ Len(queue) \in Nat /\ Len(queue) <= QueueCapacity
      BY DEF TypeOK
    <3>3. Append(queue, t) \in Seq(Tasks) /\ Len(Append(queue, t)) = Len(queue) + 1
      BY <3>2, Sent
    <3>. QED  BY <3>1, <3>2, <3>3, SchedulerAssumption
  <2>. QED  BY <1>7, <2>1 DEF Enqueue, TypeOK, OnlyAfterSignal
<1>8. CASE BatchDone
  BY <1>8 DEF BatchDone, TypeOK, OnlyAfterSignal
<1>9. CASE Dequeue
  <2>1. /\ queue' \in Seq(Tasks) /\ Len(queue') <= QueueCapacity
        /\ running' \subseteq Tasks
    <3>1. \/ queue' = queue /\ running' = running
          \/ queue # <<>> /\ queue' = Tail(queue) /\ running' = running \cup {Head(queue)}
      BY <1>9 DEF Dequeue
    <3>2. queue \in Seq(Tasks) /\ Len(queue) \in Nat /\ Len(queue) <= QueueCapacity
      BY DEF TypeOK
    <3>3. CASE queue # <<>> /\ queue' = Tail(queue) /\ running' = running \cup {Head(queue)}
      <4>1. /\ Head(queue) \in Tasks /\ Tail(queue) \in Seq(Tasks)
            /\ Len(Tail(queue)) = Len(queue) - 1
        BY <3>2, <3>3, Taken
      <4>. QED  BY <3>2, <3>3, <4>1, SchedulerAssumption DEF TypeOK
    <3>. QED  BY <3>1, <3>3 DEF TypeOK
  <2>. QED  BY <1>9, <2>1 DEF Dequeue, TypeOK, OnlyAfterSignal
<1>10. ASSUME NEW t \in Tasks, TaskEnds(t)  PROVE TypeOK' /\ OnlyAfterSignal'
  BY <1>10 DEF TaskEnds, TypeOK, OnlyAfterSignal
<1>11. CASE Signal
  BY <1>11 DEF Signal, MainGoes, TypeOK, OnlyAfterSignal
<1>12. CASE MainStep
  BY <1>12 DEF MainStep, MainGoes, StopServer, AwaitWorker, MainStopsCron, CloseQueue, Return,
               StopCron, TypeOK, OnlyAfterSignal
<1>. QED
  BY <1>1, <1>2, <1>3, <1>4, <1>5, <1>6, <1>7, <1>8, <1>9, <1>10, <1>11, <1>12
  DEF Next, DispatcherStep, Ended

LEMMA SignalInvariant == Spec => [](TypeOK /\ OnlyAfterSignal)
<1>1. Init => TypeOK /\ OnlyAfterSignal
  <2>1. <<>> \in Seq(Firings) /\ <<>> \in Seq(Tasks) /\ Len(<<>>) = 0
    OBVIOUS
  <2>2. 0 <= EventCapacity /\ 0 <= QueueCapacity
    BY SchedulerAssumption
  <2>. QED  BY <2>1, <2>2 DEF Init, TypeOK, OnlyAfterSignal
<1>2. (TypeOK /\ OnlyAfterSignal) /\ [Next]_vars => (TypeOK /\ OnlyAfterSignal)'
  BY TypesAndSignal
<1>. QED  BY <1>1, <1>2, PTL DEF Spec

\* The scheduler keeps its types, and its two channels their capacity.
THEOREM SchedulerTypes == Spec => []TypeOK
BY SignalInvariant, PTL

\* Whatever the order in which goroutines start, send and wait, none panics before the
\* signal: the closing of both channels is behind it.
THEOREM NoPanicWhileServingHolds == Spec => []NoPanicWhileServing
<1>1. OnlyAfterSignal => NoPanicWhileServing
  BY DEF OnlyAfterSignal, NoPanicWhileServing
<1>. QED  BY <1>1, SignalInvariant, PTL

-----------------------------------------------------------------------------
(* Where a firing and a task are *)

Untouched(f) == \A s \in Subscribers : <<f, s>> \notin Created

\* A firing is sent once, and has no task before the dispatcher reads its subscribers.
FiringOnce ==
  /\ \A f \in Firings : job[f] # "sent" => f \notin ToSet(events) /\ Untouched(f)
  /\ \A f \in ToSet(events) : Untouched(f)
  /\ dispatcher = "query" =>
        job[event] = "sent" /\ event \notin ToSet(events) /\ Untouched(event)
  /\ Distinct(events)

\* A task is in one place.
TaskOnce ==
  /\ start \in {"worker", "dispatcher"} => dispatcher = "off"
  /\ dispatcher # "enqueue" => batch = {}
  /\ Distinct(queue)
  /\ batch \cap (ToSet(queue) \cup running \cup attempted \cup dropped) = {}
  /\ ToSet(queue) \cap (running \cup attempted \cup dropped) = {}
  /\ running \cap (attempted \cup dropped) = {}
  /\ attempted \cap dropped = {}

placeVars == <<job, events, batch, queue, running, attempted, dropped>>

\* The steps that move no firing and no task.
LEMMA OtherSteps ==
  ASSUME \/ StartStep \/ StopperRuns \/ MainStep \/ Signal \/ BatchDone \/ UNCHANGED vars,
         TaskOnce
  PROVE  /\ UNCHANGED placeVars
         /\ \/ UNCHANGED <<dispatcher, event>>
            \/ dispatcher' = "receive" /\ batch = {}
         /\ start' \in {"worker", "dispatcher"} =>
               start \in {"worker", "dispatcher"} /\ dispatcher' = "off"
<1>. USE DEF placeVars, channelVars, dispatchVars, taskVars, TaskOnce
<1>1. CASE StartStep
  BY <1>1 DEF StartStep, StartWorker, StartDispatcher, StartCron
<1>2. CASE StopperRuns
  BY <1>2 DEF StopperRuns
<1>3. CASE MainStep
  BY <1>3 DEF MainStep, StopServer, AwaitWorker, MainStopsCron, CloseQueue, Return
<1>4. CASE Signal
  BY <1>4 DEF Signal
<1>5. CASE BatchDone
  BY <1>5 DEF BatchDone
<1>6. CASE UNCHANGED vars
  BY <1>6 DEF vars
<1>. QED  BY <1>1, <1>2, <1>3, <1>4, <1>5, <1>6

\* What a step of a queue does to the places of a task.
LEMMA Placed ==
  ASSUME TypeOK, FiringOnce, Created' = Created, UNCHANGED <<job, events>>,
         dispatcher' = "query" => dispatcher = "query" /\ event' = event
  PROVE  FiringOnce'
BY DEF FiringOnce, Untouched

LEMMA FiringsStayOnce ==
  ASSUME TypeOK, FiringOnce, TaskOnce, [Next]_vars
  PROVE  FiringOnce'
<1>. USE DEF channelVars, dispatchVars, taskVars
<1>1. CASE StartStep \/ StopperRuns \/ MainStep \/ Signal \/ BatchDone \/ UNCHANGED vars
  <2>1. Created' = Created
    BY <1>1, OtherSteps DEF placeVars, Created, Waiting, ToSet
  <2>. QED  BY <1>1, <2>1, OtherSteps, Placed DEF placeVars
<1>2. ASSUME NEW f \in Firings, Fire(f)  PROVE FiringOnce'
  <2>1. Created' = Created /\ UNCHANGED <<events, dispatcher, event>>
    BY <1>2 DEF Fire, Created, Waiting, ToSet
  <2>2. \A g \in Firings : job'[g] # "sent" => job[g] # "sent"
    BY <1>2 DEF Fire, TypeOK
  <2>3. dispatcher = "query" => job'[event] = "sent"
    BY <1>2 DEF Fire, FiringOnce, TypeOK
  <2>. QED  BY <2>1, <2>2, <2>3 DEF FiringOnce, Untouched
<1>3. ASSUME NEW f \in Firings, SendEvent(f)  PROVE FiringOnce'
  <2>1. Created' = Created /\ UNCHANGED <<dispatcher, event>> /\ job[f] = "sending"
    BY <1>3 DEF SendEvent, Created, Waiting, ToSet
  <2>2. f \notin ToSet(events) /\ Untouched(f) /\ (dispatcher = "query" => event # f)
    BY <2>1 DEF FiringOnce
  <2>3. CASE events' = Append(events, f) /\ job' = [job EXCEPT ![f] = "sent"]
    <3>1. ToSet(events') = ToSet(events) \cup {f} /\ Distinct(events')
      BY <2>2, <2>3, Sent DEF FiringOnce, TypeOK
    <3>. QED  BY <2>1, <2>2, <2>3, <3>1 DEF FiringOnce, Untouched, TypeOK
  <2>4. CASE events' = events /\ (job' = job \/ job' = [job EXCEPT ![f] = "cancelled"])
    <3>1. \A g \in Firings : job'[g] # "sent" => job[g] # "sent"
      BY <2>1, <2>4 DEF TypeOK
    <3>2. dispatcher = "query" => job'[event] = "sent"
      BY <2>2, <2>4 DEF FiringOnce, TypeOK
    <3>. QED  BY <2>1, <2>4, <3>1, <3>2 DEF FiringOnce, Untouched
  <2>. QED  BY <1>3, <2>3, <2>4 DEF SendEvent
<1>4. CASE Receive
  <2>1. Created' = Created /\ job' = job
    BY <1>4 DEF Receive, Created, Waiting, ToSet
  <2>2. CASE dispatcher' = "done" /\ UNCHANGED <<events, event>>
    BY <2>1, <2>2, Placed
  <2>3. CASE events # <<>> /\ event' = Head(events) /\ events' = Tail(events)
    <3>1. /\ event' \in Firings /\ ToSet(events) = {event'} \cup ToSet(events')
          /\ Distinct(events') /\ event' \notin ToSet(events')
      BY <2>3, Taken DEF TypeOK, FiringOnce
    <3>2. job[event'] = "sent" /\ Untouched(event')
      BY <3>1 DEF FiringOnce
    <3>. QED  BY <2>1, <3>1, <3>2 DEF FiringOnce, Untouched
  <2>. QED  BY <1>4, <2>2, <2>3 DEF Receive
<1>5. CASE Query
  <2>1. UNCHANGED <<job, events, event>> /\ dispatcher' # "query"
    BY <1>5 DEF Query, AfterQueryError
  <2>2. \A f \in Firings \ {event} : Untouched(f) => Untouched(f)'
    BY <1>5 DEF Query, Untouched, Created, Waiting, ToSet
  <2>3. \A f \in Firings : job[f] # "sent" \/ f \in ToSet(events) => f # event
    BY <1>5 DEF Query, FiringOnce
  <2>4. ToSet(events) \subseteq Firings
    BY DEF TypeOK, ToSet
  <2>. QED  BY <2>1, <2>2, <2>3, <2>4 DEF FiringOnce
<1>6. ASSUME NEW t \in Tasks, Enqueue(t)  PROVE FiringOnce'
  <2>1. ToSet(Append(queue, t)) = ToSet(queue) \cup {t}
    BY Sent DEF TypeOK
  <2>2. Created' = Created
    BY <1>6, <2>1 DEF Enqueue, Created, Waiting
  <2>. QED  BY <1>6, <2>2, Placed DEF Enqueue
<1>7. CASE Dequeue
  <2>1. queue # <<>> => ToSet(queue) = {Head(queue)} \cup ToSet(Tail(queue))
    BY Taken DEF TypeOK
  <2>2. Created' = Created
    BY <1>7, <2>1 DEF Dequeue, Created, Waiting
  <2>. QED  BY <1>7, <2>2, Placed DEF Dequeue
<1>8. ASSUME NEW t \in Tasks, TaskEnds(t)  PROVE FiringOnce'
  <2>1. Created' = Created
    BY <1>8 DEF TaskEnds, Created, Waiting, ToSet
  <2>. QED  BY <1>8, <2>1, Placed DEF TaskEnds
<1>. QED
  BY <1>1, <1>2, <1>3, <1>4, <1>5, <1>6, <1>7, <1>8 DEF Next, DispatcherStep, Ended

LEMMA TasksStayOnce ==
  ASSUME TypeOK, FiringOnce, TaskOnce, [Next]_vars
  PROVE  TaskOnce'
<1>. USE DEF channelVars, dispatchVars, taskVars
<1>1. CASE StartStep \/ StopperRuns \/ MainStep \/ Signal \/ BatchDone \/ UNCHANGED vars
  BY <1>1, OtherSteps DEF placeVars, TaskOnce, Distinct, ToSet
<1>2. ASSUME NEW f \in Firings, Fire(f) \/ SendEvent(f)  PROVE TaskOnce'
  BY <1>2 DEF Fire, SendEvent, TaskOnce, Distinct, ToSet
<1>3. CASE Receive
  BY <1>3 DEF Receive, TaskOnce, Distinct, ToSet
<1>4. CASE Query
  <2>1. UNCHANGED <<queue, running, attempted, dropped, start>> /\ dispatcher = "query"
    BY <1>4 DEF Query
  <2>2. \/ batch' = {} /\ dispatcher' = "receive"
        \/ dispatcher' = "enqueue" /\ batch' \subseteq {event} \X Subscribers
    BY <1>4 DEF Query, AfterQueryError, TaskOnce
  <2>3. ({event} \X Subscribers) \cap Created = {}
    BY <2>1 DEF FiringOnce, Untouched
  <2>. QED  BY <2>1, <2>2, <2>3 DEF TaskOnce, Created, Waiting, Distinct, ToSet
<1>5. ASSUME NEW t \in Tasks, Enqueue(t)  PROVE TaskOnce'
  <2>1. /\ ToSet(Append(queue, t)) = ToSet(queue) \cup {t}
        /\ t \in batch /\ t \notin ToSet(queue) /\ Distinct(Append(queue, t))
    BY <1>5, Sent DEF TypeOK, TaskOnce, Enqueue
  <2>2. CASE queue' = Append(queue, t) /\ batch' = batch \ {t}
    BY <1>5, <2>1, <2>2 DEF Enqueue, TaskOnce
  <2>3. CASE queue' = queue
    BY <1>5, <2>1, <2>3 DEF Enqueue, TaskOnce
  <2>. QED  BY <1>5, <2>2, <2>3 DEF Enqueue
<1>6. CASE Dequeue
  <2>1. queue # <<>> => /\ ToSet(queue) = {Head(queue)} \cup ToSet(Tail(queue))
                        /\ Distinct(Tail(queue)) /\ Head(queue) \notin ToSet(Tail(queue))
    BY Taken DEF TypeOK, TaskOnce
  <2>. QED  BY <1>6, <2>1 DEF Dequeue, TaskOnce
<1>7. ASSUME NEW t \in Tasks, TaskEnds(t)  PROVE TaskOnce'
  BY <1>7 DEF TaskEnds, TaskOnce, Distinct, ToSet
<1>. QED
  BY <1>1, <1>2, <1>3, <1>4, <1>5, <1>6, <1>7 DEF Next, DispatcherStep, Ended

-----------------------------------------------------------------------------
(* The scheduler implements the promise of TaskFlow *)

Inv == TypeOK /\ OnlyAfterSignal /\ FiringOnce /\ TaskOnce

LEMMA SchedulerInvariant == Spec => []Inv
<1>1. Init => FiringOnce /\ TaskOnce
  BY DEF Init, FiringOnce, TaskOnce, Untouched, Created, Waiting, ToSet, Distinct
<1>2. (TypeOK /\ FiringOnce /\ TaskOnce) /\ [Next]_vars => (FiringOnce /\ TaskOnce)'
  BY FiringsStayOnce, TasksStayOnce
<1>. QED  BY <1>1, <1>2, SignalInvariant, PTL DEF Spec, Inv

\* The steps that leave every fate as it is.
LEMMA SameFate ==
  ASSUME UNCHANGED <<attempted, dropped>>, Waiting' = Waiting
  PROVE  [t \in Tasks |-> Fate(t)]' = [t \in Tasks |-> Fate(t)]
BY DEF Fate

LEMMA StepKeepsPromise ==
  ASSUME Inv, [Next]_vars
  PROVE  [Promise!Next]_<<[t \in Tasks |-> Fate(t)], cancelled>>
<1>. USE DEF Inv, channelVars, dispatchVars, taskVars
<1>1. CASE StartStep \/ StopperRuns \/ MainStep \/ BatchDone \/ UNCHANGED vars
  <2>1. cancelled' = cancelled
    BY <1>1 DEF StartStep, StartWorker, StartDispatcher, StartCron, StopperRuns, MainStep,
         StopServer, AwaitWorker, MainStopsCron, CloseQueue, Return, BatchDone, vars
  <2>2. Waiting' = Waiting /\ UNCHANGED <<attempted, dropped>>
    BY <1>1, OtherSteps DEF placeVars, Waiting, ToSet
  <2>. QED  BY <2>1, <2>2, SameFate
<1>2. CASE Signal
  <2>1. Waiting' = Waiting /\ UNCHANGED <<attempted, dropped>> /\ cancelled' = TRUE
    BY <1>2 DEF Signal, Waiting, ToSet
  <2>. QED  BY <2>1, SameFate DEF Promise!Next, Promise!Stop
<1>3. ASSUME NEW f \in Firings, Fire(f) \/ SendEvent(f)
      PROVE  [Promise!Next]_<<[t \in Tasks |-> Fate(t)], cancelled>>
  <2>1. Waiting' = Waiting /\ UNCHANGED <<attempted, dropped, cancelled>>
    BY <1>3 DEF Fire, SendEvent, Waiting, ToSet
  <2>. QED  BY <2>1, SameFate
<1>4. CASE Receive
  <2>1. Waiting' = Waiting /\ UNCHANGED <<attempted, dropped, cancelled>>
    BY <1>4 DEF Receive, Waiting, ToSet
  <2>. QED  BY <2>1, SameFate
<1>5. CASE Query
  <2>1. UNCHANGED <<queue, running, attempted, dropped, cancelled>> /\ batch = {}
    BY <1>5 DEF Query, TaskOnce
  <2>2. batch' \subseteq Tasks /\ batch' \cap Created = {}
    BY <1>5, <2>1 DEF Query, FiringOnce, Untouched, TypeOK, Tasks
  <2>3. Waiting' = Waiting \cup batch'
    BY <2>1 DEF Waiting, ToSet
  <2>4. CASE batch' = {}
    BY <2>1, <2>3, <2>4, SameFate
  <2>5. CASE batch' # {}
    <3>1. Promise!CreateTasks(batch')
      BY <2>1, <2>2, <2>3, <2>5 DEF Promise!CreateTasks, Promise!Move, Fate, Created
    <3>. QED  BY <2>2, <3>1 DEF Promise!Next
  <2>. QED  BY <2>4, <2>5
<1>6. ASSUME NEW t \in Tasks, Enqueue(t)
      PROVE  [Promise!Next]_<<[u \in Tasks |-> Fate(u)], cancelled>>
  <2>1. /\ UNCHANGED <<running, attempted, cancelled>> /\ t \in batch
        /\ ToSet(Append(queue, t)) = ToSet(queue) \cup {t}
    BY <1>6, Sent DEF Enqueue, TypeOK
  <2>2. CASE dropped' = dropped
    <3>1. Waiting' = Waiting
      BY <1>6, <2>1, <2>2 DEF Enqueue, Waiting, ToSet, TaskOnce
    <3>. QED  BY <2>1, <2>2, <3>1, SameFate
  <2>3. CASE cancelled /\ queue' = queue /\ batch' = batch \ {t} /\ dropped' = dropped \cup {t}
    <3>1. Waiting' = Waiting \ {t} /\ t \in Waiting /\ t \notin attempted \cup dropped
      BY <2>1, <2>3 DEF Waiting, ToSet, TaskOnce
    <3>2. Promise!Drop({t})
      BY <2>1, <2>3, <3>1 DEF Promise!Drop, Promise!Move, Fate
    <3>. QED  BY <3>2 DEF Promise!Next
  <2>. QED  BY <1>6, <2>2, <2>3 DEF Enqueue, EnqueueGivesUp
<1>7. CASE Dequeue
  <2>1. queue # <<>> => ToSet(queue) = {Head(queue)} \cup ToSet(Tail(queue))
    BY Taken DEF TypeOK
  <2>2. Waiting' = Waiting /\ UNCHANGED <<attempted, dropped, cancelled>>
    BY <1>7, <2>1 DEF Dequeue, Waiting
  <2>. QED  BY <2>2, SameFate
<1>8. ASSUME NEW t \in Tasks, TaskEnds(t)
      PROVE  [Promise!Next]_<<[u \in Tasks |-> Fate(u)], cancelled>>
  <2>1. /\ UNCHANGED <<batch, queue, dropped, cancelled>> /\ t \in running
        /\ running' = running \ {t} /\ attempted' = attempted \cup {t}
    BY <1>8 DEF TaskEnds
  <2>2. Waiting' = Waiting \ {t} /\ t \in Waiting /\ t \notin dropped
    BY <2>1 DEF Waiting, ToSet, TaskOnce
  <2>3. Promise!Attempt(t)
    BY <2>1, <2>2 DEF Promise!Attempt, Promise!Move, Fate
  <2>. QED  BY <2>3 DEF Promise!Next
<1>. QED
  BY <1>1, <1>2, <1>3, <1>4, <1>5, <1>6, <1>7, <1>8 DEF Next, DispatcherStep, Ended

\* Through channels, batch, queue and goroutines of any size and number a report task is
\* created once, attempted at most once and dropped only after the signal.
THEOREM SchedulerKeepsPromise == Spec => KeepsPromise
<1>1. Init => Promise!Init
  BY DEF Init, Promise!Init, Fate, Waiting, ToSet
<1>2. Inv /\ [Next]_vars => [Promise!Next]_<<[t \in Tasks |-> Fate(t)], cancelled>>
  BY StepKeepsPromise
<1>. QED  BY <1>1, <1>2, SchedulerInvariant, PTL DEF Spec, KeepsPromise, Promise!Spec

-----------------------------------------------------------------------------
(* The shutdown and a start that lags behind it *)

\* Nothing that could become a task is on its way.
Quiet ==
  /\ events = <<>> /\ queue = <<>> /\ batch = {}
  /\ \A f \in Firings : job[f] \in {"idle", "skipped"}
  /\ dispatcher \in {"off", "receive", "done"}

\* Start gets to the worker, the dispatcher and cron in this order, and nothing is on its
\* way before it got to cron.
StartOrder ==
  /\ worker = "off" <=> start = "worker"
  /\ start # "done" => /\ cron = "off" /\ stopper = "off" /\ Quiet
                       /\ \A f \in Firings : job[f] = "idle"

\* A worker that Stop did not wait for finds nothing to start.
WorkerWaitedFor == main \in {"cron", "queue", "close"} => worker = "done" \/ Quiet

\* The stopper's close and the main goroutine's: a process that did both has panicked.
ClosedByOne ==
  /\ start = "done" => stopper # "off"
  /\ stopper = "done" /\ process # "panicked" => eventsClosed
  /\ main \in {"queue", "close"} => eventsClosed
  /\ main \in {"queue", "close"} /\ process # "panicked" => stopper # "done"
  /\ queueClosed => main \in {"close", "returned"} /\ eventsClosed
  /\ queueClosed /\ process = "exited" => stopper # "done"
  /\ main = "returned" => process # "up"

ShutdownInv == StartOrder /\ WorkerWaitedFor /\ ClosedByOne

\* After the signal, what is quiet stays so.
LEMMA QuietStays ==
  ASSUME TypeOK, Quiet, [Next]_vars, cancelled \/ start # "done", StartOrder
  PROVE  Quiet' /\ running' \ running = {}
<1>. USE DEF Quiet, channelVars, dispatchVars, taskVars
<1>1. CASE StartStep \/ StopperRuns \/ MainStep \/ Signal \/ BatchDone \/ UNCHANGED vars
  <2>1. UNCHANGED <<events, queue, batch, job, running>> /\ dispatcher' \in {dispatcher, "receive"}
    BY <1>1 DEF StartStep, StartWorker, StartDispatcher, StartCron, StopperRuns, MainStep,
                StopServer, AwaitWorker, MainStopsCron, CloseQueue, Return, Signal, BatchDone, vars
  <2>. QED  BY <2>1
<1>2. ASSUME NEW f \in Firings, Fire(f) \/ SendEvent(f)  PROVE Quiet' /\ running' \ running = {}
  <2>1. ~SendEvent(f)
    BY DEF SendEvent
  <2>2. UNCHANGED <<events, queue, batch, dispatcher, running>>
    BY <1>2, <2>1 DEF Fire
  <2>3. cancelled /\ job' = [job EXCEPT ![f] = "skipped"]
    BY <1>2, <2>1 DEF Fire, StartOrder
  <2>. QED  BY <2>2, <2>3 DEF TypeOK
<1>3. CASE Receive
  BY <1>3 DEF Receive
<1>4. CASE Query \/ \E t \in Tasks : Enqueue(t)
  BY <1>4 DEF Query, Enqueue
<1>5. CASE Dequeue
  BY <1>5 DEF Dequeue
<1>6. ASSUME NEW t \in Tasks, TaskEnds(t)  PROVE Quiet' /\ running' \ running = {}
  BY <1>6 DEF TaskEnds
<1>. QED  BY <1>1, <1>2, <1>3, <1>4, <1>5, <1>6 DEF Next, DispatcherStep, Ended

LEMMA StartOrderStays ==
  ASSUME TypeOK, OnlyAfterSignal, StartOrder, [Next]_vars
  PROVE  StartOrder'
<1>. USE DEF channelVars, dispatchVars, taskVars
<1>1. worker' = "off" <=> start' = "worker"
  <2>1. CASE StartStep \/ Dequeue
    BY <2>1 DEF StartStep, StartWorker, StartDispatcher, StartCron, Dequeue, StartOrder
  <2>2. CASE ~(StartStep \/ Dequeue)
    <3>1. UNCHANGED <<worker, start>>
      BY <2>2 DEF Next, DispatcherStep, Receive, Query, BatchDone, Enqueue, StopperRuns, MainStep,
                  StopServer, AwaitWorker, MainStopsCron, CloseQueue, Return, Fire, SendEvent,
                  TaskEnds, Signal, Ended, vars
    <3>. QED  BY <3>1 DEF StartOrder
  <2>. QED  BY <2>1, <2>2
<1>2. ASSUME start' # "done"
      PROVE  cron' = "off" /\ stopper' = "off" /\ Quiet' /\ \A f \in Firings : job'[f] = "idle"
  <2>1. start # "done"
    BY <1>2 DEF Next, DispatcherStep, Receive, Query, BatchDone, Enqueue, StopperRuns, MainStep,
                StopServer, AwaitWorker, MainStopsCron, CloseQueue, Return, Fire, SendEvent, Dequeue,
                TaskEnds, Signal, Ended, StartStep, StartWorker, StartDispatcher, StartCron, vars
  <2>2. cron = "off" /\ stopper = "off" /\ Quiet /\ \A f \in Firings : job[f] = "idle"
    BY <2>1 DEF StartOrder
  <2>3. cron' = "off" /\ stopper' = "off" /\ job' = job
    BY <1>2, <2>2 DEF Next, DispatcherStep, Receive, Query, BatchDone, Enqueue, StopperRuns,
                MainStep, StopServer, AwaitWorker, MainStopsCron, CloseQueue, Return, StopCron, Fire,
                SendEvent, Dequeue, TaskEnds, Signal, Ended, StartStep, StartWorker,
                StartDispatcher, StartCron, vars
  <2>. QED  BY <2>1, <2>2, <2>3, QuietStays
<1>. QED  BY <1>1, <1>2 DEF StartOrder

\* After the wait a worker that runs is one that Start got to later.
LEMMA WorkerStaysWaitedFor ==
  ASSUME TypeOK, OnlyAfterSignal, StartOrder, WorkerWaitedFor, [Next]_vars
  PROVE  WorkerWaitedFor'
<1>. USE DEF channelVars, dispatchVars, taskVars
<1>. SUFFICES ASSUME main' \in {"cron", "queue", "close"}  PROVE worker' = "done" \/ Quiet'
  BY DEF WorkerWaitedFor
<1>1. CASE main \in {"cron", "queue", "close"}
  <2>1. cancelled
    BY <1>1 DEF OnlyAfterSignal
  <2>2. CASE Quiet
    BY <2>1, <2>2, QuietStays
  <2>3. CASE worker = "done"
    <3>1. start # "worker"
      BY <2>3 DEF StartOrder
    <3>2. worker' = "done"
      BY <2>3, <3>1 DEF Next, DispatcherStep, Receive, Query, BatchDone, Enqueue, StopperRuns,
                MainStep, StopServer, AwaitWorker, MainStopsCron, CloseQueue, Return, Fire,
                SendEvent, Dequeue, TaskEnds, Signal, Ended, StartStep, StartWorker,
                StartDispatcher, StartCron, vars
    <3>. QED  BY <3>2
  <2>. QED  BY <1>1, <2>2, <2>3 DEF WorkerWaitedFor
<1>2. CASE main \notin {"cron", "queue", "close"}
  <2>1. AwaitWorker
    BY <1>2 DEF Next, DispatcherStep, Receive, Query, BatchDone, Enqueue, StopperRuns,
                MainStep, MainGoes, StopServer, MainStopsCron, CloseQueue, Return, Fire,
                SendEvent, Dequeue, TaskEnds, Signal, Ended, StartStep, StartWorker,
                StartDispatcher, StartCron, vars
  <2>2. worker # "running" /\ worker' = worker
    BY <2>1 DEF AwaitWorker
  <2>3. CASE worker = "off"
    BY <2>1, <2>3 DEF StartOrder, Quiet, AwaitWorker
  <2>. QED  BY <2>2, <2>3 DEF TypeOK
<1>. QED  BY <1>1, <1>2

LEMMA ClosedByOneStays ==
  ASSUME TypeOK, OnlyAfterSignal, StartOrder, ClosedByOne, [Next]_vars
  PROVE  ClosedByOne'
<1>. USE DEF ClosedByOne, Up, Panic, channelVars, dispatchVars, taskVars
<1>1. CASE UNCHANGED <<process, start, eventsClosed, queueClosed, stopper, main>>
  BY <1>1
<1>2. CASE StartStep
  BY <1>2 DEF StartStep, StartWorker, StartDispatcher, StartCron, StartOrder
<1>3. CASE StopperRuns
  BY <1>3 DEF StopperRuns, StopCron
<1>4. CASE StopServer \/ AwaitWorker \/ CloseQueue \/ Return \/ Signal
  BY <1>4 DEF StopServer, AwaitWorker, CloseQueue, Return, Signal, MainGoes
<1>5. CASE MainStopsCron
  BY <1>5 DEF MainStopsCron, MainGoes, StopCron
<1>6. ASSUME UNCHANGED <<start, eventsClosed, queueClosed, stopper, main>>, Up,
             process' = "panicked"
      PROVE  ClosedByOne'
  BY <1>6
<1>7. ASSUME NEW f \in Firings, SendEvent(f)  PROVE ClosedByOne'
  BY <1>1, <1>6, <1>7 DEF SendEvent
<1>8. ASSUME NEW t \in Tasks, Enqueue(t)  PROVE ClosedByOne'
  BY <1>1, <1>6, <1>8 DEF Enqueue
<1>9. ASSUME \/ Receive \/ Query \/ BatchDone \/ Dequeue \/ Ended \/ UNCHANGED vars
             \/ (\E f \in Firings : Fire(f)) \/ (\E t \in Tasks : TaskEnds(t))
      PROVE  ClosedByOne'
  BY <1>1, <1>9 DEF Receive, Query, BatchDone, Dequeue, Ended, Fire, TaskEnds, vars
<1>. QED  BY <1>2, <1>3, <1>4, <1>5, <1>7, <1>8, <1>9 DEF Next, DispatcherStep, MainStep

LEMMA ShutdownInvariant == Spec => []ShutdownInv
<1>1. Init => ShutdownInv
  BY DEF Init, ShutdownInv, StartOrder, WorkerWaitedFor, ClosedByOne, Quiet
<1>2. (TypeOK /\ OnlyAfterSignal) /\ ShutdownInv /\ [Next]_vars => ShutdownInv'
  BY StartOrderStays, WorkerStaysWaitedFor, ClosedByOneStays DEF ShutdownInv
<1>. QED  BY <1>1, <1>2, SignalInvariant, PTL DEF Spec

\* No report task begins behind Stop's wait for the worker, however late Start is.
THEOREM NoTaskBeginsAfterTheWait == Spec => NoTaskAfterTheWait
<1>1. Inv /\ ShutdownInv /\ [Next]_vars =>
        [running' \ running # {} => main \in {"serving", "http", "wait"}]_vars
  <2>. SUFFICES ASSUME Inv, ShutdownInv, Next, running' \ running # {}
                PROVE  main \in {"serving", "http", "wait"}
    BY DEF vars
  <2>. USE DEF Inv
  <2>1. Dequeue /\ worker = "running"
    BY DEF Next, DispatcherStep, Receive, Query, BatchDone, Enqueue, StopperRuns, MainStep,
           StopServer, AwaitWorker, MainStopsCron, CloseQueue, Return, Fire, SendEvent, TaskEnds,
           Signal, Ended, StartStep, StartWorker, StartDispatcher, StartCron, Dequeue, vars,
           channelVars, dispatchVars, taskVars
  <2>2. main \notin {"cron", "queue", "close"}
    <3>1. SUFFICES ASSUME main \in {"cron", "queue", "close"}  PROVE FALSE
      OBVIOUS
    <3>2. cancelled /\ Quiet
      BY <2>1, <3>1 DEF OnlyAfterSignal, ShutdownInv, WorkerWaitedFor
    <3>. QED  BY <3>2, QuietStays DEF ShutdownInv
  <2>3. main # "returned"
    BY <2>1 DEF Dequeue, Up, ShutdownInv, ClosedByOne
  <2>. QED  BY <2>2, <2>3 DEF TypeOK
<1>. QED  BY <1>1, SchedulerInvariant, ShutdownInvariant, PTL DEF Spec, NoTaskAfterTheWait

\* Why "Shutdown complete" is luck: a shutdown gets through Stop without a panic only while
\* the stopper, which waits for the same signal, has not been given the processor; had it
\* run, before or after, one of the two closes would have panicked.
THEOREM StopOutrunsTheStopper ==
  Spec => [](queueClosed /\ process # "panicked" /\ start = "done"
               => stopper = "waiting" /\ cancelled /\ eventsClosed)
<1>1. Inv /\ ShutdownInv =>
        (queueClosed /\ process # "panicked" /\ start = "done"
           => stopper = "waiting" /\ cancelled /\ eventsClosed)
  BY DEF Inv, OnlyAfterSignal, ShutdownInv, ClosedByOne, TypeOK
<1>. QED  BY <1>1, SchedulerInvariant, ShutdownInvariant, PTL
=============================================================================
