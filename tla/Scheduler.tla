------------------------------ MODULE Scheduler ------------------------------
(***************************************************************************)
(* The weather report scheduler of the subscription service, from its      *)
(* start to the end of the process: cron jobs put an event on a channel,   *)
(* the dispatcher turns an event into tasks on the local queue, the worker *)
(* starts a goroutine per task.  On a signal the main goroutine cancels    *)
(* the context and stops the parts one after the other.                    *)
(*                                                                         *)
(* Each goroutine is a process; an action is one channel operation, call   *)
(* or wait.  A select with several ready cases takes any of them.          *)
(***************************************************************************)
EXTENDS Integers, Sequences, FiniteSets

CONSTANTS
  Firings,         \* times the cron expressions match, each once
  Subscribers,     \* who may be due when a firing is dispatched
  EventCapacity,   \* buffer of the events channel (10)
  QueueCapacity    \* buffer of the local queue (100)

VARIABLES
  process,         \* "up", "exited" or "panicked"
  cancelled,       \* the root context is done
  start,           \* what Scheduler.Start does next
  cron,            \* the cron engine: "off", "running" or "stopped"
  job,             \* firing -> the state of its cron job
  events, eventsClosed,
  dispatcher,      \* "off", "receive", "query", "enqueue" or "done"
  event,           \* the firing the dispatcher works on
  batch,           \* its tasks not yet enqueued
  queue, queueClosed,
  worker,          \* "off", "running" or "done"
  running,         \* tasks in goroutines of their own
  attempted,       \* tasks whose goroutine ended by itself
  dropped,         \* tasks that Enqueue gave back with an error, only logged
  unqueried,       \* firings whose subscribers could not be read, only logged
  stopper,         \* the goroutine that stops cron when the context is done
  main             \* the main goroutine

channelVars == <<events, eventsClosed, queue, queueClosed>>
dispatchVars == <<dispatcher, event, batch, dropped, unqueried>>
taskVars == <<worker, running, attempted>>
vars == <<process, cancelled, start, cron, job, channelVars, dispatchVars,
          taskVars, stopper, main>>

Tasks == Firings \X Subscribers

ASSUME SchedulerAssumption ==
  /\ EventCapacity \in Nat \ {0}
  /\ QueueCapacity \in Nat \ {0}

ToSet(s) == {s[i] : i \in DOMAIN s}

Up == process = "up"
Panic == process' = "panicked"

-----------------------------------------------------------------------------
(* WeatherScheduler.Start, in its own goroutine *)

StartWorker ==
  /\ Up /\ start = "worker"
  /\ worker' = "running" /\ start' = "dispatcher"
  /\ UNCHANGED <<process, cancelled, cron, job, channelVars, dispatchVars,
                 running, attempted, stopper, main>>

StartDispatcher ==
  /\ Up /\ start = "dispatcher"
  /\ dispatcher' = "receive" /\ start' = "cron"
  /\ UNCHANGED <<process, cancelled, cron, job, channelVars, event, batch, dropped,
                 unqueried, taskVars, stopper, main>>

StartCron ==
  /\ Up /\ start = "cron"
  /\ cron' = "running" /\ stopper' = "waiting" /\ start' = "done"
  /\ UNCHANGED <<process, cancelled, job, channelVars, dispatchVars, taskVars, main>>

-----------------------------------------------------------------------------
(* Cron *)

\* The job looks at the context once, then waits in its select.
Fire(f) ==
  /\ Up /\ cron = "running" /\ job[f] = "idle"
  /\ job' = [job EXCEPT ![f] = IF cancelled THEN "skipped" ELSE "sending"]
  /\ UNCHANGED <<process, cancelled, start, cron, channelVars, dispatchVars,
                 taskVars, stopper, main>>

\* Mutated form of EventRoom: one event too many.
EventRoomOffByOne == Len(events) <= EventCapacity

EventRoom == Len(events) < EventCapacity

\* A send on a closed channel panics; the job does not recover.
SendEvent(f) ==
  /\ Up /\ job[f] = "sending"
  /\ \/ /\ eventsClosed /\ Panic /\ UNCHANGED <<job, events>>
     \/ /\ ~eventsClosed /\ EventRoom
        /\ events' = Append(events, f)
        /\ job' = [job EXCEPT ![f] = "sent"]
        /\ UNCHANGED process
     \/ /\ cancelled /\ job' = [job EXCEPT ![f] = "cancelled"]
        /\ UNCHANGED <<process, events>>
  /\ UNCHANGED <<cancelled, start, cron, eventsClosed, queue, queueClosed,
                 dispatchVars, taskVars, stopper, main>>

\* CronEventSource.Stop: closing a closed channel panics.
StopCron == /\ cron' = IF cron = "running" THEN "stopped" ELSE cron
            /\ IF eventsClosed THEN Panic /\ UNCHANGED eventsClosed
                               ELSE eventsClosed' = TRUE /\ UNCHANGED process

\* Mutated form of StopperDue: the goroutine does not wait for the context.
StopperDueAtOnce == TRUE

StopperDue == cancelled

StopperRuns ==
  /\ Up /\ stopper = "waiting" /\ StopperDue
  /\ StopCron
  /\ stopper' = "done"
  /\ UNCHANGED <<cancelled, start, job, events, queue, queueClosed, dispatchVars,
                 taskVars, main>>

-----------------------------------------------------------------------------
(* Dispatcher *)

Receive ==
  /\ Up /\ dispatcher = "receive"
  /\ \/ /\ cancelled \/ (eventsClosed /\ events = <<>>)
        /\ dispatcher' = "done"
        /\ UNCHANGED <<events, event>>
     \/ /\ events # <<>>
        /\ event' = Head(events) /\ events' = Tail(events)
        /\ dispatcher' = "query"
  /\ UNCHANGED <<process, cancelled, start, cron, job, eventsClosed, queue, queueClosed,
                 batch, dropped, unqueried, taskVars, stopper, main>>

\* Mutated form of AfterQueryError: the dispatcher's loop ends.
AfterQueryErrorExit == "done"

AfterQueryError == "receive"

\* GenerateWeatherReportTasks; when it fails the event is over.
Query ==
  /\ Up /\ dispatcher = "query"
  /\ \/ /\ \E due \in SUBSET Subscribers : batch' = {event} \X due
        /\ dispatcher' = "enqueue" /\ UNCHANGED unqueried
     \/ /\ unqueried' = unqueried \cup {event}
        /\ dispatcher' = AfterQueryError /\ UNCHANGED batch
  /\ UNCHANGED <<process, cancelled, start, cron, job, channelVars, event, dropped,
                 taskVars, stopper, main>>

\* Mutated form of EnqueueGivesUp: a full queue refuses the task.
EnqueueGivesUpWhenFull == cancelled \/ Len(queue) = QueueCapacity

EnqueueGivesUp == cancelled

\* Enqueue waits for room in the queue or for the context, task by task.
Enqueue(t) ==
  /\ Up /\ dispatcher = "enqueue" /\ t \in batch
  /\ \/ /\ queueClosed /\ Panic /\ UNCHANGED <<queue, batch, dropped>>
     \/ /\ ~queueClosed /\ Len(queue) < QueueCapacity
        /\ queue' = Append(queue, t)
        /\ batch' = batch \ {t}
        /\ UNCHANGED <<process, dropped>>
     \/ /\ EnqueueGivesUp /\ batch' = batch \ {t} /\ dropped' = dropped \cup {t}
        /\ UNCHANGED <<process, queue>>
  /\ UNCHANGED <<cancelled, start, cron, job, events, eventsClosed, queueClosed,
                 dispatcher, event, unqueried, taskVars, stopper, main>>

BatchDone ==
  /\ Up /\ dispatcher = "enqueue" /\ batch = {}
  /\ dispatcher' = "receive"
  /\ UNCHANGED <<process, cancelled, start, cron, job, channelVars, event, batch,
                 dropped, unqueried, taskVars, stopper, main>>

-----------------------------------------------------------------------------
(* Worker and task goroutines *)

\* Mutated forms of WorkerLeaves: at an empty queue; not at the end of the context.
WorkerLeavesWhenEmpty  == cancelled \/ queue = <<>>
WorkerLeavesOnlyAtEOF  == queueClosed /\ queue = <<>>

WorkerLeaves == cancelled \/ (queueClosed /\ queue = <<>>)

Dequeue ==
  /\ Up /\ worker = "running"
  /\ \/ /\ WorkerLeaves
        /\ worker' = "done"
        /\ UNCHANGED <<queue, running>>
     \/ /\ queue # <<>>
        /\ running' = running \cup {Head(queue)} /\ queue' = Tail(queue)
        /\ UNCHANGED worker
  /\ UNCHANGED <<process, cancelled, start, cron, job, events, eventsClosed, queueClosed,
                 dispatchVars, attempted, stopper, main>>

\* ProcessWeatherReportTask ends within its 30 seconds, having published or failed.
TaskEnds(t) ==
  /\ Up /\ t \in running
  /\ running' = running \ {t} /\ attempted' = attempted \cup {t}
  /\ UNCHANGED <<process, cancelled, start, cron, job, channelVars, dispatchVars,
                 worker, stopper, main>>

-----------------------------------------------------------------------------
(* The main goroutine: Run, App.Shutdown and WeatherScheduler.Stop *)

MainGoes(from, to) == Up /\ main = from /\ main' = to

Signal ==
  /\ MainGoes("serving", "http") /\ cancelled' = TRUE
  /\ UNCHANGED <<process, start, cron, job, channelVars, dispatchVars, taskVars, stopper>>

\* Server.Shutdown; when it runs out of time, Run returns behind its deferred DB.Close, whose
\* effect, a query that fails, Query has anyway; nothing else is stopped.
StopServer ==
  /\ \/ MainGoes("http", "wait") /\ UNCHANGED process
     \/ MainGoes("http", "returned") /\ process' = "exited"
  /\ UNCHANGED <<cancelled, start, cron, job, channelVars, dispatchVars, taskVars, stopper>>

\* Mutated form of AwaitWorker: nothing is waited for.
AwaitNobody ==
  /\ MainGoes("wait", "cron")
  /\ UNCHANGED <<process, cancelled, start, cron, job, channelVars, dispatchVars,
                 taskVars, stopper>>

\* wg.Wait counts the worker only, and only if Start got to it.
AwaitWorker ==
  /\ MainGoes("wait", "cron") /\ worker # "running"
  /\ UNCHANGED <<process, cancelled, start, cron, job, channelVars, dispatchVars,
                 taskVars, stopper>>

MainStopsCron ==
  /\ MainGoes("cron", "queue") /\ StopCron
  /\ UNCHANGED <<cancelled, start, job, events, queue, queueClosed, dispatchVars,
                 taskVars, stopper>>

CloseQueue ==
  /\ MainGoes("queue", "close") /\ queueClosed' = TRUE
  /\ UNCHANGED <<process, cancelled, start, cron, job, events, eventsClosed, queue,
                 dispatchVars, taskVars, stopper>>

\* Broker, weather client and database are closed; Run returns and takes every
\* goroutine that is left with it.
Return ==
  /\ MainGoes("close", "returned") /\ process' = "exited"
  /\ UNCHANGED <<cancelled, start, cron, job, channelVars, dispatchVars, taskVars, stopper>>

Ended == ~Up /\ UNCHANGED vars

-----------------------------------------------------------------------------

Init ==
  /\ process = "up" /\ cancelled = FALSE /\ start = "worker" /\ cron = "off"
  /\ job = [f \in Firings |-> "idle"]
  /\ events = <<>> /\ eventsClosed = FALSE /\ queue = <<>> /\ queueClosed = FALSE
  /\ dispatcher = "off" /\ event \in Firings /\ batch = {}
  /\ worker = "off" /\ running = {} /\ attempted = {} /\ dropped = {} /\ unqueried = {}
  /\ stopper = "off" /\ main = "serving"

StartStep == StartWorker \/ StartDispatcher \/ StartCron
DispatcherStep == Receive \/ Query \/ BatchDone \/ \E t \in Tasks : Enqueue(t)
MainStep == StopServer \/ AwaitWorker \/ MainStopsCron \/ CloseQueue \/ Return

Next ==
  \/ StartStep \/ DispatcherStep \/ Dequeue \/ StopperRuns \/ MainStep
  \/ \E f \in Firings : Fire(f) \/ SendEvent(f)
  \/ \E t \in Tasks : TaskEnds(t)
  \/ Signal
  \/ Ended

Spec == Init /\ [][Next]_vars

\* Every goroutine that can run does; the signal and the firings come or do not.
Fairness ==
  /\ WF_vars(StartStep) /\ WF_vars(DispatcherStep) /\ WF_vars(Dequeue)
  /\ WF_vars(StopperRuns) /\ WF_vars(MainStep)
  /\ \A f \in Firings : WF_vars(SendEvent(f))
  /\ \A t \in Tasks : WF_vars(TaskEnds(t))

FairSpec == Spec /\ Fairness

-----------------------------------------------------------------------------
(* Properties *)

\* Every variable has its type, and no channel holds more than its buffer.
TypeOK ==
  /\ process \in {"up", "exited", "panicked"}
  /\ cancelled \in BOOLEAN /\ eventsClosed \in BOOLEAN /\ queueClosed \in BOOLEAN
  /\ start \in {"worker", "dispatcher", "cron", "done"}
  /\ cron \in {"off", "running", "stopped"}
  /\ job \in [Firings -> {"idle", "skipped", "sending", "sent", "cancelled"}]
  /\ events \in Seq(Firings) /\ Len(events) <= EventCapacity
  /\ dispatcher \in {"off", "receive", "query", "enqueue", "done"}
  /\ event \in Firings
  /\ queue \in Seq(Tasks) /\ Len(queue) <= QueueCapacity
  /\ worker \in {"off", "running", "done"}
  /\ batch \subseteq Tasks /\ running \subseteq Tasks /\ attempted \subseteq Tasks
  /\ dropped \subseteq Tasks /\ unqueried \subseteq Firings
  /\ stopper \in {"off", "waiting", "done"}
  /\ main \in {"serving", "http", "wait", "cron", "queue", "close", "returned"}

Waiting == batch \cup ToSet(queue) \cup running
Created == Waiting \cup attempted \cup dropped

Fate(t) == IF t \in Waiting THEN "waiting"
           ELSE IF t \in attempted THEN "attempted"
           ELSE IF t \in dropped THEN "dropped" ELSE "none"

Promise == INSTANCE TaskFlow WITH fate <- [t \in Tasks |-> Fate(t)], stopping <- cancelled

\* Through channel, batch, queue and goroutine a task is in one place at a time: it is
\* created once, attempted at most once, and dropped only after the signal.
KeepsPromise == Promise!Spec

\* Channels are closed only after the signal and sends are only in danger then: a
\* service that has not been told to stop does not panic.
NoPanicWhileServing == process = "panicked" => cancelled

\* No report task begins once Stop has waited for the worker and goes on to close what
\* tasks use, although wg.Wait returns at once when Start has not got to the worker yet and
\* starts it behind the shutdown's back (di/sheduler.go:61, app.go:190).
NoTaskAfterTheWait ==
  [][running' \ running # {} => main \in {"serving", "http", "wait"}]_vars

\* A full channel makes jobs and the dispatcher wait, it loses nothing: unless the
\* service is told to stop, a firing reaches the dispatcher and a task its goroutine.
FiringsArrive ==
  \A f \in Firings : job[f] = "sending" ~>
                        ((job[f] = "sent" /\ f \notin ToSet(events)) \/ cancelled)
TasksAttempted == \A t \in Tasks : t \in Waiting ~> (t \in attempted \/ cancelled)

\* No goroutine keeps another from ending: after the signal the process ends.
ShutdownEnds == cancelled ~> ~Up

(* What the log says of the shutdown and the code does not keep *)

\* "Shutdown complete" (app.go:207): the process ends by returning.  But the stopper's
\* goroutine closes the channel that a cron job may be sending on, and Stop closes it too
\* (cron.go:62, :76, :33).
NoPanic == process # "panicked"
=============================================================================
