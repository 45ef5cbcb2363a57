------------------------------ MODULE Deployment ------------------------------
(***************************************************************************)
(* The four applications, three as docker-compose runs them and the        *)
(* gateway, which is not in it, beside them: how each starts and stops     *)
(* around the resources it opens, what the broker knows by then, and the   *)
(* requests that are on their way through them meanwhile.                  *)
(*                                                                         *)
(* A start or a shutdown is a list of calls, one action each.  A failed    *)
(* call at the start ends the process, and "restart: on-failure" begins    *)
(* again.  Requests advance one call out of a process at a time, and the   *)
(* deadlines they run under may pass at any point.  A weather report task  *)
(* is a request made by the scheduler; the email service's own endpoint is *)
(* called by a client, since no service here uses it.                      *)
(***************************************************************************)
EXTENDS RequestPath, Naturals, Sequences

CONSTANTS
  Requests,         \* slots for requests and report tasks in flight
  MaxTroubles       \* bound: outages, crashes and applications told to stop

VARIABLES
  grpc,             \* USE_GRPC
  up,               \* which of postgres, redis and broker answer
  phase,            \* application -> the call its start or shutdown is at, or its state
  link,             \* application -> its AMQP connection
  exchange, bound,  \* broker, durable: the exchange; the routing keys of the queue
  troubles,         \* how many of those there were
  ask,              \* request -> who asks for what
  pc,               \* request -> its next step, "idle" when the slot is free
  waits,            \* request -> who waits for the subscription service's answer
  stored,           \* request -> whether its row may have been written
  mail,             \* request -> what became of its publication or email
  answer            \* request -> the status its client got

outsideVars == <<up, exchange, bound>>
appVars == <<phase, link>>
requestVars == <<ask, pc, waits, stored, mail, answer>>
vars == <<grpc, outsideVars, appVars, troubles, requestVars>>

ASSUME DeploymentAssumption == MaxTroubles \in Nat

Apps == {"gateway", "subscription", "email", "weather"}
Outside == {"postgres", "redis", "broker"}
Keys == {"email.confirmation", "email.weather_report"}

\* The calls of Run and NewApp that need something outside, in their order.
GatewayStart      == <<"Load", "serving">>
SubscriptionStart == <<"NewGorm", "NewConnection", "VerifyExchange", "serving">>
EmailStart        == <<"NewRedisClient", "NewConnection", "ExchangeDeclare", "QueueDeclare",
                       "email.confirmation", "email.weather_report", "serving">>
WeatherStart      == <<"NewCacheClient", "serving">>

Starting == [gateway |-> GatewayStart, subscription |-> SubscriptionStart,
             email |-> EmailStart, weather |-> WeatherStart]

\* Mutated form of SubscriptionShutdown: the broker is left before the server is shut down.
BrokerFirst == <<"RabbitMQConn.Close", "Server.Shutdown", "Scheduler.Stop",
                 "WeatherClient.Close", "DB.Close", "return", "stopped">>

\* The calls of Shutdown in theirs; DB.Close is also what Run has deferred, and the
\* process is still there when it returns.
GatewayShutdown      == <<"Server.Shutdown", "stopped">>
SubscriptionShutdown == <<"Server.Shutdown", "Scheduler.Stop", "RabbitMQConn.Close",
                          "WeatherClient.Close", "DB.Close", "return", "stopped">>
EmailShutdown        == <<"Server.Shutdown", "RabbitMQConn.Close", "stopped">>
WeatherShutdown      == <<"Redis.Close", "Server.Shutdown", "GracefulStop", "stopped">>

Stopping == [gateway |-> GatewayShutdown, subscription |-> SubscriptionShutdown,
             email |-> EmailShutdown, weather |-> WeatherShutdown]

\* The calls of a list end with the state they lead to.
Places(list) == 1..(Len(list) - 1)
Calls(list) == {list[n] : n \in Places(list)}

IsStarting(a) == phase[a] \in Calls(Starting[a])
IsStopping(a) == phase[a] \in Calls(Stopping[a])
Runs(a) == phase[a] = "serving" \/ IsStopping(a)

\* Who takes a new request: the weather service's gRPC server does so until GracefulStop.
Listens(a) ==
  \/ phase[a] = "serving"
  \/ a = "weather" /\ grpc /\ phase[a] \in {"Redis.Close", "Server.Shutdown"}

-----------------------------------------------------------------------------
(* Requests *)

Asks ==
  [op : Ops, via : {"gateway", "link"}]
    \cup {[op |-> "GetWeather", via |-> "scheduler"], [op |-> "SendEmail", via |-> "endpoint"]}
NoAsk == [op |-> "none", via |-> "none"]

Steps == {"idle", "city", "weather", "read", "save", "publish", "send", "reply",
          "over"}

Op(r) == ask[r].op
ByScheduler(r) == ask[r].via = "scheduler"

\* The applications that work on a request.
InHandler(r) == pc[r] \notin {"idle", "over"}
AtEmail(r) == pc[r] \in {"send", "reply"}
AtSubscription(r) == InHandler(r) /\ ~AtEmail(r)
InFlight(r, a) ==
  CASE a = "gateway"      -> waits[r] = "gateway"
    [] a = "subscription" -> AtSubscription(r) /\ ~ByScheduler(r)
    [] a = "weather"      -> pc[r] = "weather"
    [] a = "email"        -> AtEmail(r)

\* The context ends with the connection of a request, with the signal for a task.
Cancelled(r) == IF ByScheduler(r) THEN phase["subscription"] # "serving" ELSE waits[r] = "nobody"

Goto(r, step) == pc' = [pc EXCEPT ![r] = step]
Waits(r, who) == waits' = [waits EXCEPT ![r] = who]
Told(r, seen) == answer' = [answer EXCEPT ![r] = seen]

\* What the one who waits makes of the status: the gateway may be too late for its client.
Seen(r, status) ==
  CASE waits[r] = "gateway" -> {HandleServiceError(status), "cut"}
    [] waits[r] = "client"  -> {status}
    [] waits[r] = "nobody"  -> {answer[r]}

\* The handler goes on to its next call, or has its answer.
GoesOn(r, step) == Goto(r, step) /\ UNCHANGED <<waits, answer>>
Ends(r, status) == /\ \E seen \in Seen(r, status) : Told(r, seen)
                   /\ Goto(r, "over") /\ Waits(r, "nobody")

\* The subscription service's handlers up to their first call; links in emails lead there.
Handle(r, op, form) ==
  LET refusal == HandlerRefusal(op, form) IN
  IF refusal # "none" THEN Goto(r, "over") /\ Told(r, refusal)
  ELSE Goto(r, IF op \in CityOps THEN "city" ELSE "read") /\ UNCHANGED answer

Visit(r) ==
  /\ pc[r] = "idle" /\ Listens("subscription")
  /\ \E op \in Ops, form \in Forms :
       /\ ask' = [ask EXCEPT ![r] = [op |-> op, via |-> "link"]]
       /\ Handle(r, op, form)
       /\ Waits(r, IF HandlerRefusal(op, form) = "none" THEN "client" ELSE "nobody")
  /\ UNCHANGED <<stored, mail>>

\* Nobody listens while a container starts or stops; without one its name may have no address.
Unreachable(a) ==
  IF phase[a] \in {"exited", "stopped"} THEN {"connectionRefused", "noSuchHost"}
                                        ELSE {"connectionRefused"}

\* The gateway's handlers up to the subscription service's first call.
Forward(r) ==
  /\ pc[r] = "idle" /\ Listens("gateway")
  /\ \E op \in Ops, form \in Forms :
       /\ ask' = [ask EXCEPT ![r] = [op |-> op, via |-> "gateway"]]
       /\ \/ /\ GatewayRefusal(op, form) # "none"
             /\ Goto(r, "over") /\ Told(r, GatewayRefusal(op, form)) /\ Waits(r, "nobody")
          \/ /\ GatewayRefusal(op, form) = "none" /\ ~Listens("subscription")
             /\ \E e \in Unreachable("subscription") : Told(r, HandleServiceError(e))
             /\ Goto(r, "over") /\ Waits(r, "nobody")
          \/ /\ GatewayRefusal(op, form) = "none" /\ Listens("subscription")
             /\ Handle(r, op, form)
             /\ Waits(r, IF HandlerRefusal(op, form) = "none" THEN "gateway" ELSE "nobody")
  /\ UNCHANGED <<stored, mail>>

\* A task of the scheduler.
Report(r) ==
  /\ pc[r] = "idle" /\ phase["subscription"] = "serving"
  /\ ask' = [ask EXCEPT ![r] = [op |-> "GetWeather", via |-> "scheduler"]]
  /\ GoesOn(r, "city") /\ UNCHANGED <<stored, mail>>

\* EmailHandler.Send up to the use case.
Post(r) ==
  /\ pc[r] = "idle" /\ Listens("email")
  /\ ask' = [ask EXCEPT ![r] = [op |-> "SendEmail", via |-> "endpoint"]]
  /\ \E form \in Forms :
       \/ /\ EmailRefusal(form) # "none" /\ Told(r, EmailRefusal(form))
          /\ Goto(r, "over") /\ UNCHANGED waits
       \/ /\ EmailRefusal(form) = "none" /\ UNCHANGED answer
          /\ Goto(r, "send") /\ Waits(r, "client")
  /\ UNCHANGED <<stored, mail>>

\* Whoever waits hangs up: a client that goes, the gateway with it or after its
\* REQUEST_TIMEOUT; with a shorter WRITE_TIMEOUT its own client's connection is closed then.
HangUp(r) ==
  /\ waits[r] # "nobody" /\ Waits(r, "nobody")
  /\ \/ Told(r, "cut")
     \/ waits[r] = "gateway" /\ Told(r, HandleServiceError("deadlineExceeded"))
  /\ UNCHANGED <<ask, pc, stored, mail>>

\* What the handler does with the weather client's answer.
GotWeather(r, outcome) ==
  IF outcome # "nil" THEN Ends(r, HandlerStatus(Op(r), outcome))
  ELSE IF ByScheduler(r) THEN GoesOn(r, "publish")
  ELSE IF Op(r) = "Subscribe" THEN GoesOn(r, "read")
  ELSE Ends(r, "OK")

\* The HTTP client's answer; a route that the mux does not know waits for no handler.
HTTPAnswers(r) ==
  \E status \in WeatherStatuses(Op(r)) : GotWeather(r, OverHTTP(Op(r), status))

\* The gRPC client is closed behind the broker's connection; there is no HTTP one to close,
\* and a shutdown that ran out of time has closed neither.
WeatherClientClosed ==
  grpc /\ link["subscription"] = "none" /\ phase["subscription"] \in {"DB.Close", "return"}

\* Mutated form of CallWeather: the gRPC call waits until the service is there.
CallWeatherWhenReady(r) ==
  /\ pc[r] = "city" /\ Listens("weather")
  /\ \/ ~grpc /\ HTTPAnswers(r)
     \/ grpc /\ GoesOn(r, "weather")
  /\ UNCHANGED <<ask, stored, mail>>

\* CityIsValid or GetWeather.
CallWeather(r) ==
  /\ pc[r] = "city"
  /\ \/ (~Listens("weather") \/ Cancelled(r) \/ WeatherClientClosed) /\ GotWeather(r, "error")
     \/ Listens("weather") /\ ~grpc /\ HTTPAnswers(r)
     \/ Listens("weather") /\ grpc /\ ~WeatherClientClosed /\ GoesOn(r, "weather")
  /\ UNCHANGED <<ask, stored, mail>>

WeatherAnswers(r) ==
  /\ pc[r] = "weather"
  /\ \/ /\ ~WeatherClientClosed
        /\ \E says \in {"report", "ErrCityNotFound", "error"} : GotWeather(r, OverGRPC(says))
     \/ (Cancelled(r) \/ WeatherClientClosed) /\ GotWeather(r, "error")
  /\ UNCHANGED <<ask, stored, mail>>

DatabaseWorks == "postgres" \in up /\ phase["subscription"] # "return"

\* What Parse and GetByEmail may lead to besides going on with the row.
Found(op) ==
  IF op = "Subscribe" THEN {"ErrEmailAlreadyExists"}
                      ELSE {"ErrInvalidToken", "ErrSubscriptionNotFound", "nil"}

GetByEmail(r) ==
  /\ pc[r] = "read"
  /\ \/ DatabaseWorks /\ GoesOn(r, "save")
     \/ DatabaseWorks /\ \E found \in Found(Op(r)) : Ends(r, HandlerStatus(Op(r), found))
     \/ (~DatabaseWorks \/ Cancelled(r)) /\ Ends(r, HandlerStatus(Op(r), "error"))
  /\ UNCHANGED <<ask, stored, mail>>

\* Create or Update; one that fails may still have been applied.
Save(r) ==
  /\ pc[r] = "save"
  /\ \/ /\ DatabaseWorks /\ stored' = [stored EXCEPT ![r] = TRUE]
        /\ IF Op(r) = "Subscribe" THEN GoesOn(r, "publish") ELSE Ends(r, "OK")
     \/ /\ ~DatabaseWorks \/ Cancelled(r)
        /\ \E applied \in BOOLEAN : stored' = [stored EXCEPT ![r] = applied]
        /\ Ends(r, HandlerStatus(Op(r), "error"))
  /\ UNCHANGED <<ask, mail>>

RoutingKey(r) == IF ByScheduler(r) THEN "email.weather_report" ELSE "email.confirmation"

\* A message no queue is bound for is dropped, since it is not mandatory; a connection
\* that broke may take one and lose it, since nothing is confirmed.
Fates(key) ==
  CASE link["subscription"] = "open" /\ key \in bound    -> {"queued"}
    [] link["subscription"] = "open" /\ key \notin bound -> {"unroutable"}
    [] link["subscription"] = "stale"                    -> {"lost", "failed"}
    [] link["subscription"] = "none"                     -> {"failed"}

\* The service logs a failed publication and goes on.
Publish(r) ==
  /\ pc[r] = "publish"
  /\ \E fate \in Fates(RoutingKey(r)) : mail' = [mail EXCEPT ![r] = fate]
  /\ Ends(r, "OK")
  /\ UNCHANGED <<ask, stored>>

\* Render and the SMTP dialogue, which does not look at the context.
SendEmail(r) ==
  /\ pc[r] = "send"
  /\ \/ /\ mail' = [mail EXCEPT ![r] = "sent"] /\ GoesOn(r, "reply")
     \/ /\ \E status \in EmailStatuses(FALSE) : Ends(r, status)
        /\ UNCHANGED mail
  /\ UNCHANGED <<ask, stored>>

Reply(r) ==
  /\ pc[r] = "reply" /\ \E status \in EmailStatuses(TRUE) : Ends(r, status)
  /\ UNCHANGED <<ask, stored, mail>>

\* The slot is free again.
Leave(r) ==
  /\ pc[r] = "over" /\ Goto(r, "idle") /\ Told(r, "none")
  /\ ask' = [ask EXCEPT ![r] = NoAsk] /\ stored' = [stored EXCEPT ![r] = FALSE]
  /\ mail' = [mail EXCEPT ![r] = "none"] /\ UNCHANGED waits

RequestStep(r) ==
  \/ CallWeather(r) \/ WeatherAnswers(r) \/ GetByEmail(r) \/ Save(r) \/ Publish(r)
  \/ SendEmail(r) \/ Reply(r) \/ Leave(r)

-----------------------------------------------------------------------------
(* Applications *)

Becomes(a, p) == phase' = [phase EXCEPT ![a] = p]
LinkBecomes(a, l) == link' = [link EXCEPT ![a] = l]

\* What a request's client sees when a process ends: its own connection closed, or what
\* the next process on the way back makes of that.
SeenOfEnd(r, a) ==
  CASE a = "gateway" /\ InFlight(r, a)                       -> {"cut"}
    [] a = "email" /\ AtEmail(r) /\ waits[r] = "client"                -> {"cut"}
    [] a = "subscription" /\ AtSubscription(r) /\ waits[r] = "client"  -> {"cut"}
    [] a = "subscription" /\ AtSubscription(r) /\ waits[r] = "gateway" -> {HandleServiceError("EOF")}
    [] a = "weather" /\ pc[r] = "weather" -> Seen(r, HandlerStatus(Op(r), "error"))
    [] OTHER -> {answer[r]}

\* A process ends, and with it what it had in flight.
Dies(a, p) ==
  LET ends(r) == \/ a = "subscription" /\ AtSubscription(r)
                 \/ a = "weather" /\ pc[r] = "weather"
                 \/ a = "email" /\ AtEmail(r) IN
  /\ Becomes(a, p) /\ LinkBecomes(a, "none")
  /\ pc' = [r \in Requests |-> IF ends(r) THEN "over" ELSE pc[r]]
  /\ waits' = [r \in Requests |-> IF ends(r) \/ InFlight(r, a) THEN "nobody" ELSE waits[r]]
  /\ answer' \in {f \in [Requests -> Statuses \cup {"none", "cut"}] :
                    \A r \in Requests : f[r] \in SeenOfEnd(r, a)}
  /\ UNCHANGED <<ask, stored, mail>>

NewGorm        == "postgres" \in up
NewRedisClient == "redis" \in up
NewCacheClient == "redis" \in up
NewConnection  == "broker" \in up

\* The gateway's config.yaml is part of its image.
Load == TRUE

\* Mutated form of VerifyExchange: the exchange is not looked for.
NothingVerified(a) == link[a] = "open"

VerifyExchange(a) == link[a] = "open" /\ exchange

\* Mutated form of ExchangeDeclare: the email service, too, only looks for the exchange.
ExchangeDeclarePassive(a) == link[a] = "open" /\ exchange

ExchangeDeclare(a) == link[a] = "open"

\* Whether the call that an application is at succeeds; QueueDeclare and QueueBind do what
\* ExchangeDeclare does.
Works(a) ==
  CASE phase[a] = "NewGorm"         -> NewGorm
    [] phase[a] = "NewRedisClient"  -> NewRedisClient
    [] phase[a] = "NewCacheClient"  -> NewCacheClient
    [] phase[a] = "NewConnection"   -> NewConnection
    [] phase[a] = "VerifyExchange"  -> VerifyExchange(a)
    [] phase[a] = "ExchangeDeclare" -> ExchangeDeclare(a)
    [] phase[a] = "Load"            -> Load
    [] OTHER                        -> link[a] = "open"

\* Mutated form of Binds: the queue's configuration has lost a routing key.
BindsOne(call) == {call} \cap {"email.confirmation"}

Binds(call) == {call} \cap Keys

StartCall(a) ==
  /\ Works(a)
  /\ \E n \in Places(Starting[a]) :
       phase[a] = Starting[a][n] /\ Becomes(a, Starting[a][n + 1])
  /\ IF phase[a] = "NewConnection" THEN LinkBecomes(a, "open") ELSE UNCHANGED link
  /\ exchange' = (exchange \/ phase[a] = "ExchangeDeclare")
  /\ bound' = bound \cup Binds(phase[a])
  /\ UNCHANGED <<grpc, up, troubles, requestVars>>

\* An error or, in the email service, a panic on the module that is missing; both end the
\* process with a code that restarts it.
StartFails(a) ==
  /\ IsStarting(a) /\ ~Works(a)
  /\ Dies(a, "exited")
  /\ UNCHANGED <<grpc, outsideVars, troubles>>

Restart(a) ==
  /\ phase[a] = "exited" /\ Becomes(a, Head(Starting[a]))
  /\ UNCHANGED <<grpc, outsideVars, link, troubles, requestVars>>

Trouble == troubles < MaxTroubles /\ troubles' = troubles + 1

\* SIGTERM of docker stop; nobody catches it before the application serves.
Signal(a) ==
  /\ Trouble
  /\ ~IsStopping(a) /\ phase[a] # "stopped"
  /\ IF phase[a] = "serving"
     THEN Becomes(a, Head(Stopping[a])) /\ UNCHANGED <<link, requestVars>>
     ELSE Dies(a, "stopped")
  /\ UNCHANGED <<grpc, outsideVars>>

\* Server.Shutdown and GracefulStop wait for what is in flight; the weather service's own
\* Server.Shutdown for its HTTP requests, which nobody here makes.
Awaits(a) == phase[a] = (IF a = "weather" THEN "GracefulStop" ELSE "Server.Shutdown")

StopCall(a) ==
  /\ Awaits(a) => \A r \in Requests : ~InFlight(r, a)
  /\ \E n \in Places(Stopping[a]) :
       /\ phase[a] = Stopping[a][n]
       /\ \/ Stopping[a][n + 1] = "stopped" /\ Dies(a, "stopped")
          \/ /\ Stopping[a][n + 1] # "stopped" /\ Becomes(a, Stopping[a][n + 1])
             /\ IF phase[a] = "RabbitMQConn.Close" THEN LinkBecomes(a, "none") ELSE UNCHANGED link
             /\ UNCHANGED requestVars
  /\ UNCHANGED <<grpc, outsideVars, troubles>>

\* Their five seconds are over, for these requests or for others.  The subscription
\* service's Run returns then, through the DB.Close it deferred and nothing else.
StopTimesOut(a) ==
  /\ Awaits(a)
  /\ IF a = "subscription" THEN Becomes(a, "DB.Close") /\ UNCHANGED <<link, requestVars>>
                           ELSE Dies(a, "stopped")
  /\ UNCHANGED <<grpc, outsideVars, troubles>>

AppStep(a) == StartCall(a) \/ StartFails(a) \/ Restart(a) \/ StopCall(a) \/ StopTimesOut(a)

-----------------------------------------------------------------------------
(* Faults *)

Crash(a) ==
  /\ Trouble
  /\ phase[a] \notin {"exited", "stopped"} /\ Dies(a, "exited")
  /\ UNCHANGED <<grpc, outsideVars>>

\* Nothing opens an AMQP connection again that the broker left.
Outage(s) ==
  /\ Trouble
  /\ s \in up /\ up' = up \ {s}
  /\ link' = [a \in Apps |-> IF s = "broker" /\ link[a] = "open" THEN "stale" ELSE link[a]]
  /\ UNCHANGED <<grpc, exchange, bound, phase, requestVars>>

Recovery(s) ==
  /\ s \in Outside \ up /\ up' = up \cup {s}
  /\ UNCHANGED <<grpc, exchange, bound, appVars, troubles, requestVars>>

-----------------------------------------------------------------------------

\* docker compose up on an empty broker: nothing waits for anything to be healthy.
Init ==
  /\ grpc \in BOOLEAN /\ up \in SUBSET Outside
  /\ phase = [a \in Apps |-> Head(Starting[a])] /\ link = [a \in Apps |-> "none"]
  /\ exchange = FALSE /\ bound = {} /\ troubles = 0
  /\ ask = [r \in Requests |-> NoAsk] /\ pc = [r \in Requests |-> "idle"]
  /\ waits = [r \in Requests |-> "nobody"]
  /\ stored = [r \in Requests |-> FALSE] /\ mail = [r \in Requests |-> "none"]
  /\ answer = [r \in Requests |-> "none"]

Next ==
  \/ /\ \E r \in Requests :
          Visit(r) \/ Forward(r) \/ Report(r) \/ Post(r) \/ HangUp(r) \/ RequestStep(r)
     /\ UNCHANGED <<grpc, outsideVars, appVars, troubles>>
  \/ \E a \in Apps : AppStep(a) \/ Signal(a) \/ Crash(a)
  \/ \E s \in Outside : Outage(s) \/ Recovery(s)

Spec == Init /\ [][Next]_vars

\* Processes go on, containers are restarted, and outages end.
Fairness ==
  /\ \A r \in Requests : WF_vars(RequestStep(r) /\ UNCHANGED <<grpc, outsideVars, appVars, troubles>>)
  /\ \A a \in Apps : WF_vars(AppStep(a))
  /\ WF_vars(\E s \in Outside : Recovery(s))

FairSpec == Spec /\ Fairness

-----------------------------------------------------------------------------
(* Properties *)

Phases(a) == Calls(Starting[a]) \cup Calls(Stopping[a]) \cup {"serving", "exited", "stopped"}

TypeOK ==
  /\ grpc \in BOOLEAN /\ up \subseteq Outside /\ exchange \in BOOLEAN /\ bound \subseteq Keys
  /\ troubles \in 0..MaxTroubles
  /\ phase \in [Apps -> UNION {Phases(a) : a \in Apps}] /\ \A a \in Apps : phase[a] \in Phases(a)
  /\ link \in [Apps -> {"none", "open", "stale"}]
  /\ ask \in [Requests -> Asks \cup {NoAsk}] /\ pc \in [Requests -> Steps]
  /\ waits \in [Requests -> {"gateway", "client", "nobody"}]
  /\ stored \in [Requests -> BOOLEAN]
  /\ mail \in [Requests -> {"none", "queued", "unroutable", "lost", "failed", "sent"}]
  /\ answer \in [Requests -> Statuses \cup {"none", "cut"}]

\* What a client is told is true whatever happened on the way: after OK to a Subscribe its
\* row was written and its email given to the publisher, after OK to a SendEmail the email
\* was sent, and after a refusal or "service unavailable" nothing was written or sent
\* (gateway handler.go:135, subscribe.go:52, service.go:67, email handler.go:44).
AnswersAreTrue ==
  \A r \in Requests :
    /\ answer[r] = "OK" /\ Op(r) = "Subscribe" => stored[r] /\ mail[r] # "none"
    /\ answer[r] = "OK" /\ Op(r) = "SendEmail" => mail[r] = "sent"
    /\ answer[r] \in Refusals \cup {"ServiceUnavailable"} => ~stored[r] /\ mail[r] = "none"

\* The subscription service does not take requests before the email service declared the
\* exchange, or its first publication would close the channel (app.go:95, setup.go:15).
ExchangeBeforeMail == Runs("subscription") => exchange

\* While the email service is up no publication is dropped as unroutable: every key that
\* is published was bound before it serves (publisher.go:41, setup.go:41).
DroppedOnlyBeforeSetup ==
  [][\A r \in Requests : mail'[r] = "unroutable" /\ mail[r] # "unroutable"
                           => ~Runs("email")]_vars

\* No handler of the subscription service meets a broker connection that its own shutdown
\* has closed.  When the drain runs out of time handlers go on, and nothing but the
\* database is closed under them (app.go:183, :190, :54).
HandlersKeepBroker ==
  \A r \in Requests : InFlight(r, "subscription") => link["subscription"] # "none"

\* However the four start and whatever fails for a time, each comes to serve unless it is
\* stopped; the subscription service alone needs another one, the email service, to have
\* been there once (app.go:95, queue.go:31, docker-compose's restart).
EventuallyServing ==
  \A a \in Apps :
    \/ <>[](phase[a] = "serving") \/ <>[](phase[a] = "stopped")
    \/ a = "subscription" /\ []~exchange

\* A request comes to its end, also while the services behind it are gone
\* (client.go:118, weathergrpc/client.go:50).
EveryRequestEnds == \A r \in Requests : pc[r] # "idle" ~> pc[r] = "idle"
=============================================================================
