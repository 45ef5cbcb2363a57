--------------------------- MODULE DeploymentProofs ---------------------------
(***************************************************************************)
(* Proofs about Deployment: its types and its safety properties, for any   *)
(* number of requests, outages, crashes and applications told to stop.     *)
(***************************************************************************)
EXTENDS Deployment, TLAPS

-----------------------------------------------------------------------------
(* The lists of calls *)

\* Each call of a start leads to the next one of its list.
LEMMA StartMoves ==
  ASSUME NEW a \in Apps, NEW n \in Places(Starting[a])
  PROVE  <<a, Starting[a][n], Starting[a][n + 1]>> \in
           {<<"gateway", "Load", "serving">>,
            <<"subscription", "NewGorm", "NewConnection">>,
            <<"subscription", "NewConnection", "VerifyExchange">>,
            <<"subscription", "VerifyExchange", "serving">>,
            <<"email", "NewRedisClient", "NewConnection">>,
            <<"email", "NewConnection", "ExchangeDeclare">>,
            <<"email", "ExchangeDeclare", "QueueDeclare">>,
            <<"email", "QueueDeclare", "email.confirmation">>,
            <<"email", "email.confirmation", "email.weather_report">>,
            <<"email", "email.weather_report", "serving">>,
            <<"weather", "NewCacheClient", "serving">>}
<1>1. CASE a = "gateway"
  <2>1. n = 1  BY <1>1 DEF Places, Starting, GatewayStart
  <2>. QED  BY <1>1, <2>1 DEF Starting, GatewayStart
<1>2. CASE a = "subscription"
  <2>1. n \in {1, 2, 3}  BY <1>2 DEF Places, Starting, SubscriptionStart
  <2>. QED  BY <1>2, <2>1 DEF Starting, SubscriptionStart
<1>3. CASE a = "email"
  <2>1. n \in {1, 2, 3, 4, 5, 6}  BY <1>3 DEF Places, Starting, EmailStart
  <2>. QED  BY <1>3, <2>1 DEF Starting, EmailStart
<1>4. CASE a = "weather"
  <2>1. n = 1  BY <1>4 DEF Places, Starting, WeatherStart
  <2>. QED  BY <1>4, <2>1 DEF Starting, WeatherStart
<1>. QED  BY <1>1, <1>2, <1>3, <1>4 DEF Apps

\* Each call of a shutdown leads to the next one of its list.
LEMMA StopMoves ==
  ASSUME NEW a \in Apps, NEW n \in Places(Stopping[a])
  PROVE  <<a, Stopping[a][n], Stopping[a][n + 1]>> \in
           {<<"gateway", "Server.Shutdown", "stopped">>,
            <<"subscription", "Server.Shutdown", "Scheduler.Stop">>,
            <<"subscription", "Scheduler.Stop", "RabbitMQConn.Close">>,
            <<"subscription", "RabbitMQConn.Close", "WeatherClient.Close">>,
            <<"subscription", "WeatherClient.Close", "DB.Close">>,
            <<"subscription", "DB.Close", "return">>,
            <<"subscription", "return", "stopped">>,
            <<"email", "Server.Shutdown", "RabbitMQConn.Close">>,
            <<"email", "RabbitMQConn.Close", "stopped">>,
            <<"weather", "Redis.Close", "Server.Shutdown">>,
            <<"weather", "Server.Shutdown", "GracefulStop">>,
            <<"weather", "GracefulStop", "stopped">>}
<1>1. CASE a = "gateway"
  <2>1. n = 1  BY <1>1 DEF Places, Stopping, GatewayShutdown
  <2>. QED  BY <1>1, <2>1 DEF Stopping, GatewayShutdown
<1>2. CASE a = "subscription"
  <2>1. n \in {1, 2, 3, 4, 5, 6}  BY <1>2 DEF Places, Stopping, SubscriptionShutdown
  <2>. QED  BY <1>2, <2>1 DEF Stopping, SubscriptionShutdown
<1>3. CASE a = "email"
  <2>1. n \in {1, 2}  BY <1>3 DEF Places, Stopping, EmailShutdown
  <2>. QED  BY <1>3, <2>1 DEF Stopping, EmailShutdown
<1>4. CASE a = "weather"
  <2>1. n \in {1, 2, 3}  BY <1>4 DEF Places, Stopping, WeatherShutdown
  <2>. QED  BY <1>4, <2>1 DEF Stopping, WeatherShutdown
<1>. QED  BY <1>1, <1>2, <1>3, <1>4 DEF Apps

StartCalls ==
  [gateway      |-> {"Load"},
   subscription |-> {"NewGorm", "NewConnection", "VerifyExchange"},
   email        |-> {"NewRedisClient", "NewConnection", "ExchangeDeclare", "QueueDeclare",
                     "email.confirmation", "email.weather_report"},
   weather      |-> {"NewCacheClient"}]

StopCalls ==
  [gateway      |-> {"Server.Shutdown"},
   subscription |-> {"Server.Shutdown", "Scheduler.Stop", "RabbitMQConn.Close",
                     "WeatherClient.Close", "DB.Close", "return"},
   email        |-> {"Server.Shutdown", "RabbitMQConn.Close"},
   weather      |-> {"Redis.Close", "Server.Shutdown", "GracefulStop"}]

\* The calls of each list.
LEMMA CallsOfLists ==
  ASSUME NEW a \in Apps
  PROVE  Calls(Starting[a]) = StartCalls[a] /\ Calls(Stopping[a]) = StopCalls[a]
<1>1. CASE a = "gateway"
  <2>1. Places(Starting[a]) = {1} /\ Places(Stopping[a]) = {1}
    BY <1>1 DEF Places, Starting, GatewayStart, Stopping, GatewayShutdown
  <2>. QED  BY <1>1, <2>1 DEF Calls, Starting, GatewayStart, Stopping, GatewayShutdown,
                    StartCalls, StopCalls
<1>2. CASE a = "subscription"
  <2>1. Places(Starting[a]) = {1, 2, 3} /\ Places(Stopping[a]) = {1, 2, 3, 4, 5, 6}
    BY <1>2 DEF Places, Starting, SubscriptionStart, Stopping, SubscriptionShutdown
  <2>. QED  BY <1>2, <2>1 DEF Calls, Starting, SubscriptionStart, Stopping, SubscriptionShutdown,
                    StartCalls, StopCalls
<1>3. CASE a = "email"
  <2>1. Places(Starting[a]) = {1, 2, 3, 4, 5, 6} /\ Places(Stopping[a]) = {1, 2}
    BY <1>3 DEF Places, Starting, EmailStart, Stopping, EmailShutdown
  <2>. QED  BY <1>3, <2>1 DEF Calls, Starting, EmailStart, Stopping, EmailShutdown,
                    StartCalls, StopCalls
<1>4. CASE a = "weather"
  <2>1. Places(Starting[a]) = {1} /\ Places(Stopping[a]) = {1, 2, 3}
    BY <1>4 DEF Places, Starting, WeatherStart, Stopping, WeatherShutdown
  <2>. QED  BY <1>4, <2>1 DEF Calls, Starting, WeatherStart, Stopping, WeatherShutdown,
                    StartCalls, StopCalls
<1>. QED  BY <1>1, <1>2, <1>3, <1>4 DEF Apps

\* Where each list begins.
LEMMA Heads ==
  ASSUME NEW a \in Apps
  PROVE  /\ Head(Starting[a]) \in StartCalls[a] /\ Head(Stopping[a]) \in StopCalls[a]
         /\ a = "email" => Head(Starting[a]) = "NewRedisClient"
         /\ a = "subscription" => Head(Starting[a]) = "NewGorm"
         /\ a = "subscription" => Head(Stopping[a]) = "Server.Shutdown"
BY DEF Apps, Starting, Stopping, StartCalls, StopCalls, GatewayStart, SubscriptionStart,
       EmailStart, WeatherStart, GatewayShutdown, SubscriptionShutdown, EmailShutdown,
       WeatherShutdown

-----------------------------------------------------------------------------
(* The inductive invariant *)

StatesOf(a) == StartCalls[a] \cup StopCalls[a] \cup {"serving", "exited", "stopped"}

Types ==
  /\ grpc \in BOOLEAN /\ up \subseteq Outside /\ exchange \in BOOLEAN /\ bound \subseteq Keys
  /\ troubles \in 0..MaxTroubles
  /\ phase \in [Apps -> UNION {StatesOf(a) : a \in Apps}]
  /\ \A a \in Apps : phase[a] \in StatesOf(a)
  /\ link \in [Apps -> {"none", "open", "stale"}]

RequestTypes ==
  /\ ask \in [Requests -> Asks \cup {NoAsk}] /\ pc \in [Requests -> Steps]
  /\ waits \in [Requests -> {"gateway", "client", "nobody"}]
  /\ stored \in [Requests -> BOOLEAN]
  /\ mail \in [Requests -> {"none", "queued", "unroutable", "lost", "failed", "sent"}]
  /\ answer \in [Requests -> Statuses \cup {"none", "cut"}]

UpStates(a) == StopCalls[a] \cup {"serving"}

\* The email service has set up at the broker what is behind its next call.
SetUpSoFar ==
  /\ phase["email"] \in {"QueueDeclare", "email.confirmation", "email.weather_report"}
                        \cup UpStates("email") => exchange
  /\ phase["email"] \in {"email.weather_report"} \cup UpStates("email")
       => "email.confirmation" \in bound
  /\ phase["email"] \in UpStates("email") => "email.weather_report" \in bound

\* The subscription service has seen the exchange.
Verified == phase["subscription"] \in UpStates("subscription") => exchange

\* Its shutdown goes on when its handlers have ended, and the broker's connection, which it
\* has from NewConnection on, is closed behind that; a drain that ran out of time leaves it.
Drained ==
  /\ phase["subscription"] \in {"Scheduler.Stop", "RabbitMQConn.Close", "WeatherClient.Close"}
       => \A r \in Requests : ~InFlight(r, "subscription")
  /\ phase["subscription"] \in {"VerifyExchange", "serving", "Server.Shutdown",
                              "Scheduler.Stop", "RabbitMQConn.Close"}
       => link["subscription"] # "none"
  /\ link["subscription"] = "none" => \A r \in Requests : ~InFlight(r, "subscription")

\* What is known of a request at its step.
Progress(r) ==
  /\ pc[r] \in {"idle", "city", "weather", "read", "save", "send"} => ~stored[r] /\ mail[r] = "none"
  /\ pc[r] = "reply" => mail[r] = "sent"
  /\ AtEmail(r) => Op(r) = "SendEmail"
  /\ Op(r) = "SendEmail" => ~AtSubscription(r)
  /\ pc[r] = "publish" =>
       (Op(r) = "Subscribe" /\ stored[r]) \/ (ByScheduler(r) /\ Op(r) = "GetWeather")
  /\ pc[r] = "idle" => answer[r] = "none"
  /\ ~InHandler(r) => waits[r] = "nobody"
  /\ InHandler(r) => answer[r] \in {"none", "cut", "GatewayTimeout"}
  /\ answer[r] = "OK" /\ Op(r) = "Subscribe" => stored[r] /\ mail[r] # "none"
  /\ answer[r] = "OK" /\ Op(r) = "SendEmail" => mail[r] = "sent"
  /\ answer[r] \in Refusals \cup {"ServiceUnavailable"} => ~stored[r] /\ mail[r] = "none"

Inv ==
  /\ Types /\ RequestTypes /\ SetUpSoFar /\ Verified /\ Drained
  /\ \A r \in Requests : Progress(r)

-----------------------------------------------------------------------------
(* Steps of requests *)

\* The service's own statuses reach the client as they are.
LEMMA StatusGoesThrough ==
  ASSUME NEW status \in Statuses
  PROVE  HandleServiceError(status) = status
BY DEF HandleServiceError, Statuses

\* Handlers answer with statuses.
LEMMA HandlersAnswer ==
  ASSUME NEW op, NEW form, NEW outcome
  PROVE  /\ HandlerStatus(op, outcome) \in Statuses
         /\ GatewayRefusal(op, form) \in Refusals \cup {"none"}
         /\ HandlerRefusal(op, form) \in Refusals \cup {"none"}
BY DEF HandlerStatus, GatewayRefusal, HandlerRefusal, Statuses, Refusals

\* A step of one request leaves the others alone.
Alone(r) ==
  \A q \in Requests \ {r} :
    /\ ask'[q] = ask[q] /\ pc'[q] = pc[q] /\ waits'[q] = waits[q]
    /\ stored'[q] = stored[q] /\ mail'[q] = mail[q] /\ answer'[q] = answer[q]

\* What every step of a request does: the others stay, its own variables keep their types
\* and its progress, and it is a handler's only if it was one or the service takes requests.
Fine(r) ==
  /\ RequestTypes' /\ Alone(r) /\ Progress(r)'
  /\ InFlight(r, "subscription")' => InFlight(r, "subscription") \/ phase["subscription"] = "serving"

\* A handler that has its answer tells it to whoever waits.
LEMMA EndsTells ==
  ASSUME NEW r \in Requests, NEW status \in Statuses, RequestTypes, Ends(r, status)
  PROVE  /\ pc' = [pc EXCEPT ![r] = "over"] /\ waits' = [waits EXCEPT ![r] = "nobody"]
         /\ \E seen \in {status, "cut", answer[r]} : answer' = [answer EXCEPT ![r] = seen]
BY StatusGoesThrough DEF Ends, Seen, Told, Goto, Waits, RequestTypes

\* A request that ends with a status other than OK, before anything was stored or after a
\* failure to store, or with OK when it is done, makes progress.
LEMMA EndsIsFine ==
  ASSUME NEW r \in Requests, NEW status \in Statuses, RequestTypes, Progress(r),
         InHandler(r), Ends(r, status), ask' = ask,
         stored' \in [Requests -> BOOLEAN], \A q \in Requests \ {r} : stored'[q] = stored[q],
         mail' \in [Requests -> {"none", "queued", "unroutable", "lost", "failed", "sent"}],
         \A q \in Requests \ {r} : mail'[q] = mail[q],
         status = "OK" /\ Op(r) = "Subscribe" => stored'[r] /\ mail'[r] # "none",
         status = "OK" /\ Op(r) = "SendEmail" => mail'[r] = "sent",
         status \in Refusals \cup {"ServiceUnavailable"} => ~stored'[r] /\ mail'[r] = "none"
  PROVE  Fine(r)
<1>1. PICK seen \in {status, "cut", answer[r]} : answer' = [answer EXCEPT ![r] = seen]
  BY EndsTells
<1>2. pc' = [pc EXCEPT ![r] = "over"] /\ waits' = [waits EXCEPT ![r] = "nobody"]
  BY EndsTells
<1>3. answer[r] \in {"none", "cut", "GatewayTimeout"}
  BY DEF Progress
<1>4. seen \in Statuses \cup {"none", "cut"}
  BY <1>3 DEF Statuses
<1>5. RequestTypes'
  BY <1>1, <1>2, <1>4 DEF RequestTypes, Steps
<1>6. pc'[r] = "over" /\ waits'[r] = "nobody" /\ answer'[r] = seen
  BY <1>1, <1>2 DEF RequestTypes
<1>7. Alone(r)
  BY <1>1, <1>2 DEF Alone, RequestTypes
<1>8. Progress(r)'
  BY <1>3, <1>6 DEF Progress, InHandler, AtSubscription, AtEmail, Op, ByScheduler, Refusals
<1>9. ~InFlight(r, "subscription")'
  BY <1>6 DEF InFlight, AtSubscription, InHandler
<1>. QED  BY <1>5, <1>7, <1>8, <1>9 DEF Fine

\* A request whose handler only goes on to its next call makes progress.
LEMMA GoesOnIsFine ==
  ASSUME NEW r \in Requests, NEW step \in Steps \ {"idle", "over"}, RequestTypes, Progress(r),
         AtSubscription(r), step \notin {"send", "reply"}, GoesOn(r, step), ask' = ask,
         stored' \in [Requests -> BOOLEAN], \A q \in Requests \ {r} : stored'[q] = stored[q],
         mail' = mail,
         step # "publish" => ~stored'[r] /\ mail[r] = "none",
         step = "publish" => \/ Op(r) = "Subscribe" /\ stored'[r]
                             \/ ByScheduler(r) /\ Op(r) = "GetWeather"
  PROVE  Fine(r)
<1>1. pc' = [pc EXCEPT ![r] = step] /\ waits' = waits /\ answer' = answer
  BY DEF GoesOn, Goto
<1>2. RequestTypes' /\ Alone(r)
  BY <1>1 DEF RequestTypes, Alone
<1>3. pc'[r] = step
  BY <1>1 DEF RequestTypes
<1>4. Progress(r)'
  BY <1>1, <1>3 DEF Progress, InHandler, AtSubscription, AtEmail, Op, ByScheduler, Refusals
<1>5. InFlight(r, "subscription")' => InFlight(r, "subscription")
  BY <1>1 DEF InFlight, ByScheduler
<1>. QED  BY <1>2, <1>4, <1>5 DEF Fine

\* A new request.
LEMMA HandleIsFine ==
  ASSUME NEW r \in Requests, NEW op \in Ops, NEW form \in Forms, NEW via \in {"gateway", "link"},
         NEW who \in {"gateway", "client"}, RequestTypes, Progress(r), pc[r] = "idle",
         phase["subscription"] = "serving",
         ask' = [ask EXCEPT ![r] = [op |-> op, via |-> via]], Handle(r, op, form),
         Waits(r, IF HandlerRefusal(op, form) = "none" THEN who ELSE "nobody"),
         stored' = stored, mail' = mail
  PROVE  Fine(r)
<1>1. ask'[r] = [op |-> op, via |-> via] /\ ask' \in [Requests -> Asks \cup {NoAsk}]
  BY DEF RequestTypes, Asks
<1>2. \E step \in {"over", "city", "read"}, seen \in Refusals \cup {"none"},
         w \in {who, "nobody"} :
        /\ pc' = [pc EXCEPT ![r] = step] /\ answer' = [answer EXCEPT ![r] = seen]
        /\ waits' = [waits EXCEPT ![r] = w]
        /\ step = "over" => w = "nobody"
        /\ step # "over" => seen = "none"
  <2>1. CASE HandlerRefusal(op, form) # "none"
    BY <2>1, HandlersAnswer DEF Handle, Goto, Told, Waits
  <2>2. CASE HandlerRefusal(op, form) = "none"
    <3>1. answer' = answer /\ answer[r] = "none"
      BY <2>2 DEF Handle, Progress
    <3>2. answer' = [answer EXCEPT ![r] = "none"]
      BY <3>1 DEF RequestTypes
    <3>. QED  BY <2>2, <3>2 DEF Handle, Goto, Waits
  <2>. QED  BY <2>1, <2>2
<1>3. PICK step \in {"over", "city", "read"}, seen \in Refusals \cup {"none"},
           w \in {who, "nobody"} :
        /\ pc' = [pc EXCEPT ![r] = step] /\ answer' = [answer EXCEPT ![r] = seen]
        /\ waits' = [waits EXCEPT ![r] = w]
        /\ step = "over" => w = "nobody"
        /\ step # "over" => seen = "none"
  BY <1>2
<1>4. RequestTypes' /\ Alone(r)
  BY <1>1, <1>3 DEF RequestTypes, Alone, Steps, Statuses, Refusals
<1>5. pc'[r] = step /\ answer'[r] = seen /\ waits'[r] = w
  BY <1>3 DEF RequestTypes
<1>6. Progress(r)'
  BY <1>1, <1>3, <1>5 DEF Progress, InHandler, AtSubscription, AtEmail, Op, Ops, ByScheduler, Refusals
<1>. QED  BY <1>4, <1>6 DEF Fine

\* An answer of the gateway's own.
LEMMA AnsweredAtOnce ==
  ASSUME NEW r \in Requests, NEW op \in Ops,
         NEW status \in Refusals \cup {"ServiceUnavailable", "InternalServerError"},
         RequestTypes, Progress(r), pc[r] = "idle",
         ask' = [ask EXCEPT ![r] = [op |-> op, via |-> "gateway"]],
         Goto(r, "over"), Told(r, status), Waits(r, "nobody"), stored' = stored, mail' = mail
  PROVE  Fine(r)
<1>1. RequestTypes' /\ Alone(r)
  BY DEF RequestTypes, Alone, Steps, Statuses, Refusals, Asks, Goto, Told, Waits
<1>2. pc'[r] = "over" /\ answer'[r] = status /\ waits'[r] = "nobody"
  BY DEF RequestTypes, Goto, Told, Waits
<1>3. Progress(r)'
  BY <1>2 DEF Progress, InHandler, AtSubscription, AtEmail, Op, ByScheduler, Refusals
<1>4. ~InFlight(r, "subscription")'
  BY <1>2 DEF InFlight, AtSubscription, InHandler
<1>. QED  BY <1>1, <1>3, <1>4 DEF Fine

\* Requests that begin.
LEMMA BeginningsAreFine ==
  ASSUME NEW r \in Requests, RequestTypes, Progress(r),
         Visit(r) \/ Forward(r) \/ Report(r) \/ Post(r)
  PROVE  Fine(r)
<1>1. CASE Visit(r)
  BY <1>1, HandleIsFine DEF Visit, Listens
<1>2. CASE Forward(r)
  <2>1. PICK op \in Ops, form \in Forms :
          /\ ask' = [ask EXCEPT ![r] = [op |-> op, via |-> "gateway"]]
          /\ \/ /\ GatewayRefusal(op, form) # "none"
                /\ Goto(r, "over") /\ Told(r, GatewayRefusal(op, form)) /\ Waits(r, "nobody")
             \/ /\ GatewayRefusal(op, form) = "none" /\ ~Listens("subscription")
                /\ \E e \in Unreachable("subscription") : Told(r, HandleServiceError(e))
                /\ Goto(r, "over") /\ Waits(r, "nobody")
             \/ /\ GatewayRefusal(op, form) = "none" /\ Listens("subscription")
                /\ Handle(r, op, form)
                /\ Waits(r, IF HandlerRefusal(op, form) = "none" THEN "gateway" ELSE "nobody")
    BY <1>2 DEF Forward
  <2>2. pc[r] = "idle" /\ stored' = stored /\ mail' = mail
    BY <1>2 DEF Forward
  <2>3. CASE GatewayRefusal(op, form) # "none"
    BY <2>1, <2>2, <2>3, HandlersAnswer, AnsweredAtOnce
  <2>4. CASE GatewayRefusal(op, form) = "none" /\ ~Listens("subscription")
    <3>1. PICK e \in Unreachable("subscription") : Told(r, HandleServiceError(e))
      BY <2>1, <2>4
    <3>2. HandleServiceError(e) \in {"ServiceUnavailable", "InternalServerError"}
      BY DEF Unreachable, HandleServiceError
    <3>. QED  BY <2>1, <2>2, <2>4, <3>1, <3>2, AnsweredAtOnce
  <2>5. CASE GatewayRefusal(op, form) = "none" /\ Listens("subscription")
    BY <2>1, <2>2, <2>5, HandleIsFine DEF Listens
  <2>. QED  BY <2>3, <2>4, <2>5
<1>3. CASE Report(r)
  <2>1. /\ ask' = [ask EXCEPT ![r] = [op |-> "GetWeather", via |-> "scheduler"]]
        /\ pc' = [pc EXCEPT ![r] = "city"]
        /\ UNCHANGED <<waits, answer, stored, mail>> /\ pc[r] = "idle"
    BY <1>3 DEF Report, GoesOn, Goto
  <2>2. RequestTypes' /\ Alone(r)
    BY <2>1 DEF RequestTypes, Alone, Steps, Asks
  <2>3. pc'[r] = "city" /\ ask'[r].via = "scheduler" /\ ask'[r].op = "GetWeather"
    BY <2>1 DEF RequestTypes
  <2>4. Progress(r)'
    BY <2>1, <2>3 DEF Progress, InHandler, AtSubscription, AtEmail, Op, ByScheduler, Refusals
  <2>5. ~InFlight(r, "subscription")'
    BY <2>3 DEF InFlight, ByScheduler
  <2>. QED  BY <2>2, <2>4, <2>5 DEF Fine
<1>4. CASE Post(r)
  <2>1. /\ ask' = [ask EXCEPT ![r] = [op |-> "SendEmail", via |-> "endpoint"]]
        /\ UNCHANGED <<stored, mail>> /\ pc[r] = "idle"
        /\ ~stored[r] /\ mail[r] = "none" /\ waits[r] = "nobody" /\ answer[r] = "none"
    BY <1>4 DEF Post, Progress, InHandler
  <2>2. \E step \in {"over", "send"}, who \in {"nobody", "client"},
           seen \in {"none", "BadRequest"} :
          /\ pc' = [pc EXCEPT ![r] = step] /\ waits' = [waits EXCEPT ![r] = who]
          /\ answer' = [answer EXCEPT ![r] = seen]
          /\ (step = "over" => who = "nobody") /\ (step = "send" => seen = "none")
    <3>1. (answer' = answer => answer' = [answer EXCEPT ![r] = "none"])
          /\ (waits' = waits => waits' = [waits EXCEPT ![r] = "nobody"])
      BY <2>1 DEF RequestTypes
    <3>. QED  BY <1>4, <3>1 DEF Post, EmailRefusal, Goto, Waits, Told
  <2>3. PICK step \in {"over", "send"}, who \in {"nobody", "client"},
           seen \in {"none", "BadRequest"} :
          /\ pc' = [pc EXCEPT ![r] = step] /\ waits' = [waits EXCEPT ![r] = who]
          /\ answer' = [answer EXCEPT ![r] = seen]
          /\ (step = "over" => who = "nobody") /\ (step = "send" => seen = "none")
    BY <2>2
  <2>4. RequestTypes' /\ Alone(r)
    BY <2>1, <2>3 DEF RequestTypes, Alone, Steps, Statuses, Asks
  <2>5. pc'[r] = step /\ waits'[r] = who /\ answer'[r] = seen /\ ask'[r].op = "SendEmail"
    BY <2>1, <2>3 DEF RequestTypes
  <2>6. Progress(r)'
    BY <2>1, <2>3, <2>5 DEF Progress, InHandler, AtSubscription, AtEmail, Op, ByScheduler, Refusals
  <2>7. ~InFlight(r, "subscription")'
    BY <2>5 DEF InFlight, AtSubscription, AtEmail, InHandler
  <2>. QED  BY <2>4, <2>6, <2>7 DEF Fine
<1>. QED  BY <1>1, <1>2, <1>3, <1>4

\* Whoever waited is gone.
LEMMA HangUpIsFine ==
  ASSUME NEW r \in Requests, RequestTypes, Progress(r), HangUp(r)
  PROVE  Fine(r)
<1>1. PICK seen \in {"cut", "GatewayTimeout"} : answer' = [answer EXCEPT ![r] = seen]
  BY DEF HangUp, Told, HandleServiceError
<1>2. waits' = [waits EXCEPT ![r] = "nobody"] /\ UNCHANGED <<ask, pc, stored, mail>>
  BY DEF HangUp, Waits
<1>3. InHandler(r)
  BY DEF HangUp, Progress
<1>4. RequestTypes' /\ Alone(r)
  BY <1>1, <1>2 DEF RequestTypes, Alone, Statuses
<1>5. answer'[r] = seen
  BY <1>1 DEF RequestTypes
<1>6. Progress(r)'
  BY <1>2, <1>3, <1>5 DEF Progress, InHandler, AtSubscription, AtEmail, Op, ByScheduler, Refusals
<1>7. InFlight(r, "subscription")' => InFlight(r, "subscription")
  BY <1>2 DEF InFlight, AtSubscription, AtEmail, InHandler, ByScheduler
<1>. QED  BY <1>4, <1>6, <1>7 DEF Fine

\* The weather client's answer, with nothing stored so far.
LEMMA GotWeatherIsFine ==
  ASSUME NEW r \in Requests, NEW outcome \in {"nil", "error", "ErrCityNotFound"},
         RequestTypes, Progress(r), pc[r] \in {"city", "weather"},
         outcome = "nil" /\ ByScheduler(r) => Op(r) = "GetWeather",
         outcome = "ErrCityNotFound" => Op(r) = "GetWeather",
         GotWeather(r, outcome), UNCHANGED <<ask, stored, mail>>
  PROVE  Fine(r)
<1>1. /\ InHandler(r) /\ AtSubscription(r) /\ Op(r) # "SendEmail"
      /\ ~stored[r] /\ mail[r] = "none" /\ stored' = stored /\ mail' = mail /\ ask' = ask
  BY DEF InHandler, AtSubscription, AtEmail, Progress
<1>2. stored \in [Requests -> BOOLEAN]
      /\ mail \in [Requests -> {"none", "queued", "unroutable", "lost", "failed", "sent"}]
  BY DEF RequestTypes
<1>3. CASE outcome # "nil"
  <2>1. Ends(r, HandlerStatus(Op(r), outcome)) /\ HandlerStatus(Op(r), outcome) = "InternalServerError"
    BY <1>3 DEF GotWeather, HandlerStatus
  <2>. QED  BY <1>1, <1>2, <2>1, EndsIsFine DEF Statuses, Refusals
<1>4. CASE outcome = "nil" /\ ByScheduler(r)
  BY <1>1, <1>2, <1>4, GoesOnIsFine DEF GotWeather, Steps
<1>5. CASE outcome = "nil" /\ ~ByScheduler(r) /\ Op(r) = "Subscribe"
  BY <1>1, <1>2, <1>5, GoesOnIsFine DEF GotWeather, Steps
<1>6. CASE outcome = "nil" /\ ~ByScheduler(r) /\ Op(r) # "Subscribe"
  BY <1>1, <1>2, <1>6, EndsIsFine DEF GotWeather, Statuses, Refusals
<1>. QED  BY <1>3, <1>4, <1>5, <1>6

\* A task asks for a report.
LEMMA TasksGetWeather ==
  ASSUME NEW r \in Requests, RequestTypes, ByScheduler(r)
  PROVE  Op(r) = "GetWeather"
BY DEF RequestTypes, ByScheduler, Op, Asks, NoAsk

\* Steps of a handler.
LEMMA StepsAreFine ==
  ASSUME NEW r \in Requests, RequestTypes, Progress(r), RequestStep(r),
         link["subscription"] \in {"none", "open", "stale"}
  PROVE  Fine(r)
<1>. DEFINE Fates6 == {"none", "queued", "unroutable", "lost", "failed", "sent"}
<1>1. stored \in [Requests -> BOOLEAN] /\ mail \in [Requests -> Fates6]
  BY DEF RequestTypes
<1>2. CASE CallWeather(r)
  <2>1. pc[r] = "city" /\ AtSubscription(r) /\ UNCHANGED <<ask, stored, mail>>
        /\ ~stored[r] /\ mail[r] = "none"
    BY <1>2 DEF CallWeather, AtSubscription, AtEmail, InHandler, Progress
  <2>2. CASE GotWeather(r, "error")
    BY <2>1, <2>2, GotWeatherIsFine
  <2>3. CASE HTTPAnswers(r)
    <3>1. PICK outcome \in {"error", "ErrCityNotFound"} :
            GotWeather(r, outcome) /\ (outcome = "ErrCityNotFound" => Op(r) = "GetWeather")
      BY <2>3 DEF HTTPAnswers, OverHTTP, WeatherStatuses, RouteAsked, RegisteredRoutes
    <3>. QED  BY <2>1, <3>1, GotWeatherIsFine
  <2>4. CASE GoesOn(r, "weather")
    BY <1>1, <2>1, <2>4, GoesOnIsFine DEF Steps
  <2>. QED  BY <1>2, <2>2, <2>3, <2>4 DEF CallWeather
<1>3. CASE WeatherAnswers(r)
  <2>1. pc[r] = "weather" /\ UNCHANGED <<ask, stored, mail>>
    BY <1>3 DEF WeatherAnswers
  <2>2. PICK outcome \in {"nil", "error"} : GotWeather(r, outcome)
    BY <1>3 DEF WeatherAnswers, OverGRPC
  <2>. QED  BY <2>1, <2>2, TasksGetWeather, GotWeatherIsFine
<1>4. CASE GetByEmail(r)
  <2>1. /\ InHandler(r) /\ AtSubscription(r) /\ Op(r) # "SendEmail"
        /\ UNCHANGED <<ask, stored, mail>> /\ ~stored[r] /\ mail[r] = "none"
    BY <1>4 DEF GetByEmail, InHandler, AtSubscription, AtEmail, Progress
  <2>2. CASE GoesOn(r, "save")
    BY <1>1, <2>1, <2>2, GoesOnIsFine DEF Steps
  <2>3. ASSUME NEW found \in Found(Op(r)) \cup {"error"}, Ends(r, HandlerStatus(Op(r), found))
        PROVE  Fine(r)
    <3>1. HandlerStatus(Op(r), found) = "OK" => Op(r) # "Subscribe"
      BY <2>3 DEF HandlerStatus, Found
    <3>. QED  BY <1>1, <2>1, <2>3, <3>1, HandlersAnswer, EndsIsFine
  <2>. QED  BY <1>4, <2>2, <2>3 DEF GetByEmail
<1>5. CASE Save(r)
  <2>1. /\ InHandler(r) /\ AtSubscription(r) /\ Op(r) # "SendEmail"
        /\ UNCHANGED <<ask, mail>> /\ mail[r] = "none"
    BY <1>5 DEF Save, InHandler, AtSubscription, AtEmail, Progress
  <2>2. PICK applied \in BOOLEAN : stored' = [stored EXCEPT ![r] = applied]
    BY <1>5 DEF Save
  <2>3. /\ stored' \in [Requests -> BOOLEAN] /\ \A q \in Requests \ {r} : stored'[q] = stored[q]
        /\ stored'[r] = applied
    BY <1>1, <2>2
  <2>4. CASE Ends(r, HandlerStatus(Op(r), "error"))
    <3>1. HandlerStatus(Op(r), "error") = "InternalServerError"
      BY DEF HandlerStatus
    <3>. QED  BY <1>1, <2>1, <2>3, <2>4, <3>1, EndsIsFine DEF Statuses, Refusals
  <2>5. CASE stored' = [stored EXCEPT ![r] = TRUE] /\ Op(r) = "Subscribe" /\ GoesOn(r, "publish")
    <3>1. stored'[r]
      BY <1>1, <2>5
    <3>. QED  BY <1>1, <2>1, <2>3, <2>5, <3>1, GoesOnIsFine DEF Steps
  <2>6. CASE Op(r) # "Subscribe" /\ Ends(r, "OK")
    BY <1>1, <2>1, <2>3, <2>6, EndsIsFine DEF Statuses, Refusals
  <2>. QED  BY <1>5, <2>4, <2>5, <2>6 DEF Save
<1>6. CASE Publish(r)
  <2>1. pc[r] = "publish" /\ InHandler(r) /\ Op(r) # "SendEmail"
        /\ UNCHANGED <<ask, stored>> /\ Ends(r, "OK")
    BY <1>6 DEF Publish, InHandler, AtSubscription, AtEmail, Progress
  <2>2. PICK fate \in Fates(RoutingKey(r)) : mail' = [mail EXCEPT ![r] = fate]
    BY <1>6 DEF Publish
  <2>3. fate \in Fates6 \ {"none"}
    BY <2>2 DEF Fates
  <2>4. /\ mail' \in [Requests -> Fates6] /\ \A q \in Requests \ {r} : mail'[q] = mail[q]
        /\ mail'[r] # "none"
    BY <1>1, <2>2, <2>3
  <2>5. Op(r) = "Subscribe" => stored[r]
    BY <2>1 DEF Progress
  <2>. QED  BY <1>1, <2>1, <2>4, <2>5, EndsIsFine DEF Statuses, Refusals
<1>7. CASE Leave(r)
  <2>1. /\ pc[r] = "over" /\ pc' = [pc EXCEPT ![r] = "idle"]
        /\ ask' = [ask EXCEPT ![r] = NoAsk] /\ waits' = waits
        /\ stored' = [stored EXCEPT ![r] = FALSE] /\ mail' = [mail EXCEPT ![r] = "none"]
        /\ answer' = [answer EXCEPT ![r] = "none"]
    BY <1>7 DEF Leave, Goto, Told
  <2>2. RequestTypes' /\ Alone(r)
    BY <2>1 DEF RequestTypes, Alone, Steps
  <2>3. pc'[r] = "idle" /\ ~stored'[r] /\ mail'[r] = "none" /\ answer'[r] = "none"
    BY <2>1 DEF RequestTypes
  <2>4. Progress(r)'
    BY <2>1, <2>3 DEF Progress, InHandler, AtSubscription, AtEmail, Op, ByScheduler, Refusals
  <2>5. ~InFlight(r, "subscription")'
    BY <2>3 DEF InFlight, AtSubscription, InHandler
  <2>. QED  BY <2>2, <2>4, <2>5 DEF Fine
<1>8. CASE SendEmail(r)
  <2>1. /\ pc[r] = "send" /\ InHandler(r) /\ UNCHANGED <<ask, stored>>
        /\ ~stored[r] /\ mail[r] = "none"
    BY <1>8 DEF SendEmail, InHandler, Progress
  <2>2. CASE mail' = [mail EXCEPT ![r] = "sent"] /\ GoesOn(r, "reply")
    <3>1. /\ pc' = [pc EXCEPT ![r] = "reply"] /\ waits' = waits /\ answer' = answer
          /\ mail' = [mail EXCEPT ![r] = "sent"] /\ ask' = ask /\ stored' = stored
      BY <2>1, <2>2 DEF GoesOn, Goto
    <3>2. RequestTypes' /\ Alone(r)
      BY <3>1 DEF RequestTypes, Alone, Steps
    <3>3. pc'[r] = "reply" /\ mail'[r] = "sent"
      BY <3>1 DEF RequestTypes
    <3>4. Progress(r)'
      BY <2>1, <3>1, <3>3 DEF Progress, InHandler, AtSubscription, AtEmail, Op, ByScheduler, Refusals
    <3>5. ~InFlight(r, "subscription")'
      BY <3>3 DEF InFlight, AtSubscription, AtEmail
    <3>. QED  BY <3>2, <3>4, <3>5 DEF Fine
  <2>3. CASE Ends(r, "InternalServerError") /\ mail' = mail
    BY <1>1, <2>1, <2>3, EndsIsFine DEF Statuses, Refusals
  <2>. QED  BY <1>8, <2>2, <2>3 DEF SendEmail, EmailStatuses
<1>9. CASE Reply(r)
  <2>1. /\ pc[r] = "reply" /\ InHandler(r) /\ UNCHANGED <<ask, stored, mail>> /\ mail[r] = "sent"
    BY <1>9 DEF Reply, InHandler, Progress
  <2>2. PICK status \in {"OK", "InternalServerError"} : Ends(r, status)
    BY <1>9 DEF Reply, EmailStatuses
  <2>3. Op(r) # "Subscribe"
    BY <2>1 DEF Progress, AtEmail
  <2>. QED  BY <1>1, <2>1, <2>2, <2>3, EndsIsFine DEF Statuses, Refusals
<1>. QED  BY <1>2, <1>3, <1>4, <1>5, <1>6, <1>7, <1>8, <1>9 DEF RequestStep

-----------------------------------------------------------------------------
(* Steps of applications *)

\* When a process ends, the requests keep their types and their progress, and no handler
\* begins.
LEMMA DeathIsFine ==
  ASSUME NEW a \in Apps, NEW p, RequestTypes, \A r \in Requests : Progress(r), Dies(a, p)
  PROVE  /\ RequestTypes' /\ \A r \in Requests : Progress(r)'
         /\ \A r \in Requests : InFlight(r, "subscription")' => InFlight(r, "subscription")
         /\ a = "subscription" => \A r \in Requests : ~InFlight(r, "subscription")'
         /\ phase' = [phase EXCEPT ![a] = p] /\ link' = [link EXCEPT ![a] = "none"]
         /\ mail' = mail
<1>. DEFINE ends(r) == \/ a = "subscription" /\ AtSubscription(r)
                       \/ a = "weather" /\ pc[r] = "weather"
                       \/ a = "email" /\ AtEmail(r)
<1>1. /\ pc' = [r \in Requests |-> IF ends(r) THEN "over" ELSE pc[r]]
      /\ waits' = [r \in Requests |-> IF ends(r) \/ InFlight(r, a) THEN "nobody" ELSE waits[r]]
      /\ answer' \in [Requests -> Statuses \cup {"none", "cut"}]
      /\ \A r \in Requests : answer'[r] \in SeenOfEnd(r, a)
      /\ UNCHANGED <<ask, stored, mail>>
  BY DEF Dies
<1>2. RequestTypes'
  BY <1>1 DEF RequestTypes, Steps
<1>3. ASSUME NEW r \in Requests
      PROVE  /\ Progress(r)' /\ (InFlight(r, "subscription")' => InFlight(r, "subscription"))
             /\ a = "subscription" => ~InFlight(r, "subscription")'
  <2>1. /\ pc'[r] = (IF ends(r) THEN "over" ELSE pc[r])
        /\ waits'[r] = (IF ends(r) \/ InFlight(r, a) THEN "nobody" ELSE waits[r])
        /\ ask'[r] = ask[r] /\ stored'[r] = stored[r] /\ mail'[r] = mail[r] /\ Progress(r)
    BY <1>1
  <2>2. answer'[r] \in {answer[r]} \/ (answer'[r] \in {"cut", "InternalServerError"} /\ InHandler(r))
    <3>1. HandlerStatus(Op(r), "error") = "InternalServerError"
          /\ HandleServiceError("InternalServerError") = "InternalServerError"
          /\ HandleServiceError("EOF") = "InternalServerError"
      BY DEF HandlerStatus, HandleServiceError
    <3>2. answer'[r] \in SeenOfEnd(r, a)
      BY <1>1
    <3>3. waits[r] \in {"gateway", "client", "nobody"}
      BY DEF RequestTypes
    <3>4. waits[r] # "nobody" => InHandler(r)
      BY <2>1 DEF Progress
    <3>5. CASE a = "gateway"
      BY <3>2, <3>4, <3>5 DEF SeenOfEnd, InFlight
    <3>6. CASE a = "subscription"
      BY <3>1, <3>2, <3>3, <3>6 DEF SeenOfEnd, AtSubscription
    <3>7. CASE a = "weather" /\ pc[r] = "weather"
      <4>1. answer'[r] \in Seen(r, "InternalServerError")
        BY <3>1, <3>2, <3>7 DEF SeenOfEnd
      <4>. QED  BY <3>1, <3>3, <3>7, <4>1 DEF Seen, InHandler
    <3>8. CASE a = "email" \/ (a = "weather" /\ pc[r] # "weather")
      BY <3>2, <3>8 DEF SeenOfEnd, AtEmail, InHandler
    <3>. QED  BY <3>5, <3>6, <3>7, <3>8 DEF Apps
  <2>3. ends(r) => InHandler(r)
    BY DEF AtSubscription, AtEmail, InHandler
  <2>4. InHandler(r)' <=> InHandler(r) /\ ~ends(r)
    BY <2>1, <2>3 DEF InHandler
  <2>5. InHandler(r)' => answer'[r] \in {answer[r], "cut"}
    <3>1. SUFFICES ASSUME InHandler(r), ~ends(r)  PROVE answer'[r] \in {answer[r], "cut"}
      BY <2>4
    <3>2. /\ answer'[r] \in SeenOfEnd(r, a) /\ (a = "subscription" => ~AtSubscription(r))
          /\ (a = "weather" => pc[r] # "weather") /\ (a = "email" => ~AtEmail(r))
      BY <1>1, <3>1
    <3>. QED  BY <3>2 DEF SeenOfEnd, Apps
  <2>6. Progress(r)'
    <3>1. /\ pc[r] \in {"idle", "city", "weather", "read", "save", "send"}
               => ~stored[r] /\ mail[r] = "none"
          /\ pc[r] = "reply" => mail[r] = "sent"
          /\ AtEmail(r) => Op(r) = "SendEmail"
          /\ Op(r) = "SendEmail" => ~AtSubscription(r)
          /\ answer[r] = "OK" /\ Op(r) = "Subscribe" => stored[r] /\ mail[r] # "none"
          /\ answer[r] = "OK" /\ Op(r) = "SendEmail" => mail[r] = "sent"
          /\ answer[r] \in Refusals \cup {"ServiceUnavailable"} => ~stored[r] /\ mail[r] = "none"
          /\ InHandler(r) => answer[r] \in {"none", "cut", "GatewayTimeout"}
          /\ ~InHandler(r) => waits[r] = "nobody"
          /\ pc[r] = "idle" => answer[r] = "none"
          /\ pc[r] = "publish" => \/ Op(r) = "Subscribe" /\ stored[r]
                                  \/ ByScheduler(r) /\ Op(r) = "GetWeather"
      BY <2>1 DEF Progress
    <3>2. Op(r)' = Op(r) /\ ByScheduler(r)' = ByScheduler(r)
      BY <2>1 DEF Op, ByScheduler
    <3>3. pc[r] = "idle" => ~InHandler(r)
      BY DEF InHandler
    <3>4. (pc'[r] = "over" \/ pc'[r] = pc[r]) /\ (ends(r) => pc'[r] = "over")
      BY <2>1
    <3>5. (AtEmail(r)' => AtEmail(r)) /\ (AtSubscription(r)' => AtSubscription(r))
      BY <2>1, <2>4 DEF AtEmail, AtSubscription
    <3>. QED  BY <2>1, <2>2, <2>3, <2>4, <2>5, <3>1, <3>2, <3>3, <3>4, <3>5 DEF Progress, Refusals
  <2>7. InFlight(r, "subscription")' => InFlight(r, "subscription")
    BY <2>1, <2>4 DEF InFlight, AtSubscription, AtEmail, ByScheduler
  <2>8. a = "subscription" => ~InFlight(r, "subscription")'
    BY <2>1, <2>4 DEF InFlight, AtSubscription, AtEmail
  <2>. QED  BY <2>6, <2>7, <2>8
<1>. QED  BY <1>1, <1>2, <1>3 DEF Dies, Becomes, LinkBecomes

\* A process that ends leaves the invariant as it is, whatever it was at.
LEMMA DeathKeepsInv ==
  ASSUME NEW a \in Apps, NEW p \in {"exited", "stopped"}, Inv, Dies(a, p),
         UNCHANGED <<grpc, outsideVars>>, troubles' \in 0..MaxTroubles
  PROVE  Inv'
<1>. USE DEF Inv, outsideVars
<1>1. /\ RequestTypes' /\ \A r \in Requests : Progress(r)'
      /\ \A r \in Requests : InFlight(r, "subscription")' => InFlight(r, "subscription")
      /\ a = "subscription" => \A r \in Requests : ~InFlight(r, "subscription")'
      /\ phase' = [phase EXCEPT ![a] = p] /\ link' = [link EXCEPT ![a] = "none"]
  BY DeathIsFine
<1>2. \A b \in Apps : phase'[b] = (IF b = a THEN p ELSE phase[b])
  BY <1>1 DEF Types
<1>3. Types'
  <2>1. p \in StatesOf(a)
    BY DEF StatesOf
  <2>2. link' \in [Apps -> {"none", "open", "stale"}]
    BY <1>1 DEF Types
  <2>. QED  BY <1>1, <1>2, <2>1, <2>2 DEF Types
<1>4. SetUpSoFar'
  BY <1>2 DEF SetUpSoFar, UpStates, StopCalls, Apps
<1>5. Verified'
  BY <1>2 DEF Verified, UpStates, StopCalls, Apps
<1>6. Drained'
  <2>1. CASE a = "subscription"
    BY <1>1, <1>2, <2>1 DEF Drained, Apps
  <2>2. CASE a # "subscription"
    <3>1. phase'["subscription"] = phase["subscription"]
          /\ link'["subscription"] = link["subscription"]
      BY <1>1, <1>2, <2>2 DEF Types, Apps
    <3>. QED  BY <1>1, <3>1 DEF Drained
  <2>. QED  BY <2>1, <2>2
<1>. QED  BY <1>1, <1>3, <1>4, <1>5, <1>6

\* A step that leaves the requests alone keeps what is known of them.
LEMMA RequestsStay ==
  ASSUME RequestTypes, \A r \in Requests : Progress(r), UNCHANGED requestVars
  PROVE  /\ RequestTypes' /\ \A r \in Requests : Progress(r)'
         /\ \A r \in Requests : InFlight(r, "subscription")' <=> InFlight(r, "subscription")
<1>1. \A r \in Requests : Progress(r)'
  BY DEF Progress, InHandler, AtSubscription, AtEmail, Op, ByScheduler, requestVars
<1>. QED  BY <1>1 DEF RequestTypes, InFlight, AtSubscription, AtEmail, InHandler, ByScheduler,
                      requestVars

\* A call of a start.
LEMMA StartCallKeepsInv ==
  ASSUME NEW a \in Apps, Inv, StartCall(a)
  PROVE  Inv'
<1>. USE DEF Inv
<1>1. PICK n \in Places(Starting[a]) :
        phase[a] = Starting[a][n] /\ phase' = [phase EXCEPT ![a] = Starting[a][n + 1]]
  BY DEF StartCall, Becomes
<1>. DEFINE from == Starting[a][n]
            to == Starting[a][n + 1]
<1>2. <<a, from, to>> \in
           {<<"gateway", "Load", "serving">>,
            <<"subscription", "NewGorm", "NewConnection">>,
            <<"subscription", "NewConnection", "VerifyExchange">>,
            <<"subscription", "VerifyExchange", "serving">>,
            <<"email", "NewRedisClient", "NewConnection">>,
            <<"email", "NewConnection", "ExchangeDeclare">>,
            <<"email", "ExchangeDeclare", "QueueDeclare">>,
            <<"email", "QueueDeclare", "email.confirmation">>,
            <<"email", "email.confirmation", "email.weather_report">>,
            <<"email", "email.weather_report", "serving">>,
            <<"weather", "NewCacheClient", "serving">>}
  BY StartMoves
<1>3. /\ phase[a] = from
      /\ \A b \in Apps : phase'[b] = (IF b = a THEN to ELSE phase[b])
  BY <1>1 DEF Types
<1>4. /\ UNCHANGED <<grpc, up, troubles>> /\ UNCHANGED requestVars
      /\ link' = (IF from = "NewConnection" THEN [link EXCEPT ![a] = "open"] ELSE link)
      /\ exchange' = (exchange \/ from = "ExchangeDeclare")
      /\ bound' = bound \cup ({from} \cap Keys) /\ Works(a)
  BY <1>3 DEF StartCall, Binds, LinkBecomes
<1>5. Types'
  <2>1. to \in StatesOf(a)
    BY <1>2 DEF StatesOf, StartCalls
  <2>2. link' \in [Apps -> {"none", "open", "stale"}]
    BY <1>4 DEF Types
  <2>3. phase' \in [Apps -> UNION {StatesOf(b) : b \in Apps}]
    BY <1>1, <2>1 DEF Types
  <2>4. exchange' \in BOOLEAN
    BY <1>4 DEF Types
  <2>. QED  BY <1>3, <1>4, <2>1, <2>2, <2>3, <2>4 DEF Types
<1>6. SetUpSoFar'
  <2>1. CASE a = "email"
    <3>1. phase'["email"] = to /\ phase["email"] = from
      BY <1>3, <2>1 DEF Apps
    <3>2. SetUpSoFar
      OBVIOUS
    <3>3. CASE to \in {"NewConnection", "ExchangeDeclare"}
      BY <3>1, <3>3 DEF SetUpSoFar, UpStates, StopCalls
    <3>4. CASE from = "ExchangeDeclare"
      BY <1>2, <1>4, <2>1, <3>1, <3>4 DEF SetUpSoFar, UpStates, StopCalls
    <3>5. CASE from = "QueueDeclare"
      BY <1>2, <1>4, <2>1, <3>1, <3>2, <3>5 DEF SetUpSoFar, UpStates, StopCalls
    <3>6. CASE from = "email.confirmation"
      BY <1>2, <1>4, <2>1, <3>1, <3>2, <3>6 DEF SetUpSoFar, UpStates, StopCalls, Keys
    <3>7. CASE from = "email.weather_report"
      BY <1>2, <1>4, <2>1, <3>1, <3>2, <3>7 DEF SetUpSoFar, UpStates, StopCalls, Keys
    <3>. QED  BY <1>2, <2>1, <3>3, <3>4, <3>5, <3>6, <3>7
  <2>2. CASE a # "email"
    BY <1>3, <1>4, <2>2 DEF SetUpSoFar, Apps
  <2>. QED  BY <2>1, <2>2
<1>7. Verified'
  <2>1. CASE a = "subscription"
    <3>1. CASE from = "VerifyExchange"
      BY <1>3, <1>4, <3>1 DEF Works, VerifyExchange, Verified
    <3>2. CASE from # "VerifyExchange"
      BY <1>2, <1>3, <2>1, <3>2 DEF Verified, UpStates, StopCalls, Apps
    <3>. QED  BY <3>1, <3>2
  <2>2. CASE a # "subscription"
    BY <1>3, <1>4, <2>2 DEF Verified, Apps
  <2>. QED  BY <2>1, <2>2
<1>8. Drained'
  <2>1. CASE a = "subscription" /\ from = "NewConnection"
    <3>1. phase'["subscription"] = "VerifyExchange" /\ link'["subscription"] = "open"
      BY <1>2, <1>3, <1>4, <2>1 DEF Types, Apps
    <3>. QED  BY <3>1 DEF Drained
  <2>2. CASE a = "subscription" /\ from # "NewConnection"
    <3>1. /\ phase["subscription"] = from /\ phase'["subscription"] = to /\ link' = link
      BY <1>3, <1>4, <2>2
    <3>2. \/ to = "NewConnection"
          \/ from = "VerifyExchange" /\ to = "serving"
      BY <1>2, <2>2
    <3>. QED  BY <1>4, <3>1, <3>2, RequestsStay DEF Drained
  <2>3. CASE a # "subscription"
    <3>1. phase'["subscription"] = phase["subscription"]
          /\ link'["subscription"] = link["subscription"]
      BY <1>3, <1>4, <2>3 DEF Types, Apps
    <3>. QED  BY <1>4, <3>1, RequestsStay DEF Drained
  <2>. QED  BY <2>1, <2>2, <2>3
<1>. QED  BY <1>4, <1>5, <1>6, <1>7, <1>8, RequestsStay

\* A call of a shutdown.
LEMMA StopCallKeepsInv ==
  ASSUME NEW a \in Apps, Inv, StopCall(a)
  PROVE  Inv'
<1>. USE DEF Inv
<1>1. PICK n \in Places(Stopping[a]) :
        /\ phase[a] = Stopping[a][n]
        /\ \/ Stopping[a][n + 1] = "stopped" /\ Dies(a, "stopped")
           \/ /\ Stopping[a][n + 1] # "stopped"
              /\ phase' = [phase EXCEPT ![a] = Stopping[a][n + 1]]
              /\ link' = (IF phase[a] = "RabbitMQConn.Close" THEN [link EXCEPT ![a] = "none"]
                                                            ELSE link)
              /\ UNCHANGED requestVars
  BY DEF StopCall, Becomes, LinkBecomes
<1>2. UNCHANGED <<grpc, outsideVars, troubles>>
      /\ (Awaits(a) => \A r \in Requests : ~InFlight(r, a))
  BY DEF StopCall
<1>. DEFINE from == Stopping[a][n]
            to == Stopping[a][n + 1]
<1>3. <<a, from, to>> \in
           {<<"gateway", "Server.Shutdown", "stopped">>,
            <<"subscription", "Server.Shutdown", "Scheduler.Stop">>,
            <<"subscription", "Scheduler.Stop", "RabbitMQConn.Close">>,
            <<"subscription", "RabbitMQConn.Close", "WeatherClient.Close">>,
            <<"subscription", "WeatherClient.Close", "DB.Close">>,
            <<"subscription", "DB.Close", "return">>,
            <<"subscription", "return", "stopped">>,
            <<"email", "Server.Shutdown", "RabbitMQConn.Close">>,
            <<"email", "RabbitMQConn.Close", "stopped">>,
            <<"weather", "Redis.Close", "Server.Shutdown">>,
            <<"weather", "Server.Shutdown", "GracefulStop">>,
            <<"weather", "GracefulStop", "stopped">>}
  BY StopMoves
<1>4. CASE Dies(a, "stopped")
  BY <1>2, <1>4, DeathKeepsInv DEF Types
<1>5. CASE to # "stopped" /\ ~Dies(a, "stopped")
  <2>1. /\ phase' = [phase EXCEPT ![a] = to] /\ UNCHANGED requestVars
        /\ link' = (IF from = "RabbitMQConn.Close" THEN [link EXCEPT ![a] = "none"] ELSE link)
    BY <1>1, <1>5
  <2>2. \A b \in Apps : phase'[b] = (IF b = a THEN to ELSE phase[b])
    BY <2>1 DEF Types
  <2>3. from \in UpStates(a) /\ to \in UpStates(a)
    BY <1>3, <1>5 DEF UpStates, StopCalls
  <2>4. Types'
    <3>1. to \in StatesOf(a)
      BY <2>3 DEF StatesOf, UpStates
    <3>2. link' \in [Apps -> {"none", "open", "stale"}]
      BY <2>1 DEF Types
    <3>3. phase' \in [Apps -> UNION {StatesOf(b) : b \in Apps}]
      BY <2>1, <3>1 DEF Types
    <3>. QED  BY <1>2, <2>2, <3>1, <3>2, <3>3 DEF Types, outsideVars
  <2>5. SetUpSoFar'
    BY <1>1, <1>2, <2>2, <2>3 DEF SetUpSoFar, Apps, outsideVars
  <2>6. Verified'
    BY <1>1, <1>2, <2>2, <2>3 DEF Verified, Apps, outsideVars
  <2>7. Drained'
    <3>1. CASE a = "subscription" /\ from = "Server.Shutdown"
      <4>1. \A r \in Requests : ~InFlight(r, "subscription")
        BY <1>1, <1>2, <3>1 DEF Awaits
      <4>2. link["subscription"] # "none" /\ link' = link
        BY <1>1, <2>1, <3>1 DEF Drained
      <4>. QED  BY <2>1, <4>1, <4>2, RequestsStay DEF Drained
    <3>2. CASE a = "subscription" /\ from \in {"Scheduler.Stop", "RabbitMQConn.Close"}
      <4>1. /\ \A r \in Requests : ~InFlight(r, "subscription")
            /\ link["subscription"] # "none"
        BY <1>1, <3>2 DEF Drained
      <4>2. to \in {"RabbitMQConn.Close", "WeatherClient.Close"}
            /\ phase'["subscription"] = to
            /\ (to = "RabbitMQConn.Close" => link' = link)
        BY <1>3, <2>1, <2>2, <3>2 DEF Apps
      <4>. QED  BY <2>1, <4>1, <4>2, RequestsStay DEF Drained
    <3>3. CASE a = "subscription" /\ from \notin {"Server.Shutdown", "Scheduler.Stop", "RabbitMQConn.Close"}
      <4>1. phase'["subscription"] \in {"DB.Close", "return"} /\ link' = link
        BY <1>3, <1>5, <2>1, <2>2, <3>3 DEF Apps
      <4>. QED  BY <2>1, <4>1, RequestsStay DEF Drained
    <3>4. CASE a # "subscription"
      <4>1. phase'["subscription"] = phase["subscription"]
            /\ link'["subscription"] = link["subscription"]
        BY <2>1, <2>2, <3>4 DEF Types, Apps
      <4>. QED  BY <2>1, <4>1, RequestsStay DEF Drained
    <3>. QED  BY <3>1, <3>2, <3>3, <3>4
  <2>. QED  BY <2>1, <2>4, <2>5, <2>6, <2>7, RequestsStay
<1>. QED  BY <1>1, <1>4, <1>5

\* A signal: the shutdown begins, or the process just ends.
LEMMA SignalKeepsInv ==
  ASSUME NEW a \in Apps, Inv, Signal(a)
  PROVE  Inv'
<1>. USE DEF Inv
<1>1. troubles' \in 0..MaxTroubles /\ UNCHANGED <<grpc, outsideVars>>
  BY DeploymentAssumption DEF Signal, Trouble, Types
<1>2. CASE phase[a] # "serving"
  BY <1>1, <1>2, DeathKeepsInv DEF Signal
<1>3. CASE phase[a] = "serving"
  <2>. DEFINE to == Head(Stopping[a])
  <2>1. phase' = [phase EXCEPT ![a] = to] /\ UNCHANGED <<link, requestVars>>
    BY <1>3 DEF Signal, Becomes
  <2>2. \A b \in Apps : phase'[b] = (IF b = a THEN to ELSE phase[b])
    BY <2>1 DEF Types
  <2>3. phase[a] \in UpStates(a) /\ to \in UpStates(a)
    BY <1>3, Heads DEF UpStates
  <2>4. Types'
    <3>1. to \in StatesOf(a)
      BY Heads DEF StatesOf
    <3>2. phase' \in [Apps -> UNION {StatesOf(b) : b \in Apps}]
      BY <2>1, <3>1 DEF Types
    <3>. QED  BY <1>1, <2>1, <2>2, <3>1, <3>2 DEF Types, outsideVars
  <2>5. SetUpSoFar'
    BY <1>1, <2>2, <2>3 DEF SetUpSoFar, Apps, outsideVars
  <2>6. Verified'
    BY <1>1, <2>2, <2>3 DEF Verified, Apps, outsideVars
  <2>7. Drained'
    <3>1. a = "subscription" => to = "Server.Shutdown"
      BY Heads
    <3>2. link' = link
      BY <2>1
    <3>3. CASE a = "subscription"
      BY <1>3, <2>1, <2>2, <3>1, <3>2, <3>3, RequestsStay DEF Drained
    <3>4. CASE a # "subscription"
      BY <2>1, <2>2, <3>2, <3>4, RequestsStay DEF Drained, Apps
    <3>. QED  BY <3>3, <3>4
  <2>. QED  BY <2>1, <2>4, <2>5, <2>6, <2>7, RequestsStay
<1>. QED  BY <1>2, <1>3

\* A container that starts again.
LEMMA RestartKeepsInv ==
  ASSUME NEW a \in Apps, Inv, Restart(a)
  PROVE  Inv'
<1>. USE DEF Inv
<1>. DEFINE to == Head(Starting[a])
<1>1. phase' = [phase EXCEPT ![a] = to] /\ UNCHANGED <<grpc, outsideVars, link, troubles>>
      /\ UNCHANGED requestVars
  BY DEF Restart, Becomes
<1>2. \A b \in Apps : phase'[b] = (IF b = a THEN to ELSE phase[b])
  BY <1>1 DEF Types
<1>3. Types'
  <2>1. to \in StatesOf(a)
    BY Heads DEF StatesOf
  <2>2. phase' \in [Apps -> UNION {StatesOf(b) : b \in Apps}]
    BY <1>1, <2>1 DEF Types
  <2>. QED  BY <1>1, <1>2, <2>1, <2>2 DEF Types, outsideVars
<1>4. SetUpSoFar' /\ Verified'
  BY <1>1, <1>2, Heads DEF SetUpSoFar, Verified, UpStates, StopCalls, Apps, outsideVars
<1>5. Drained'
  <2>1. phase'["subscription"] \in {phase["subscription"], "NewGorm"} /\ link' = link
    BY <1>1, <1>2, Heads DEF Apps
  <2>. QED  BY <1>1, <2>1, RequestsStay DEF Drained
<1>. QED  BY <1>1, <1>3, <1>4, <1>5, RequestsStay

\* A drain that runs out of time: the subscription service goes on to its deferred call
\* with its handlers and its connection as they are, the others end.
LEMMA StopTimesOutKeepsInv ==
  ASSUME NEW a \in Apps, Inv, StopTimesOut(a)
  PROVE  Inv'
<1>. USE DEF Inv
<1>1. UNCHANGED <<grpc, outsideVars, troubles>>
  BY DEF StopTimesOut
<1>2. CASE a # "subscription"
  BY <1>1, <1>2, DeathKeepsInv DEF StopTimesOut, Types
<1>3. CASE a = "subscription"
  <2>1. /\ phase' = [phase EXCEPT !["subscription"] = "DB.Close"]
        /\ UNCHANGED link /\ UNCHANGED requestVars /\ phase["subscription"] = "Server.Shutdown"
    BY <1>3 DEF StopTimesOut, Becomes, Awaits
  <2>2. \A b \in Apps : phase'[b] = (IF b = "subscription" THEN "DB.Close" ELSE phase[b])
    BY <2>1 DEF Types
  <2>3. Types'
    <3>1. "DB.Close" \in StatesOf("subscription") /\ "subscription" \in Apps
      BY DEF StatesOf, StopCalls, Apps
    <3>2. phase' \in [Apps -> UNION {StatesOf(b) : b \in Apps}]
      BY <2>1, <3>1 DEF Types
    <3>. QED  BY <1>1, <2>1, <2>2, <3>1, <3>2 DEF Types, outsideVars
  <2>4. SetUpSoFar'
    BY <1>1, <2>2 DEF SetUpSoFar, UpStates, StopCalls, Apps, outsideVars
  <2>5. Verified'
    BY <1>1, <2>1, <2>2 DEF Verified, UpStates, StopCalls, Apps, outsideVars
  <2>6. Drained'
    BY <2>1, <2>2, RequestsStay DEF Drained, Apps
  <2>. QED  BY <2>1, <2>3, <2>4, <2>5, <2>6, RequestsStay
<1>. QED  BY <1>2, <1>3

\* Whatever an application does, by itself or to its end.
LEMMA ApplicationsKeepInv ==
  ASSUME NEW a \in Apps, Inv, AppStep(a) \/ Signal(a) \/ Crash(a)
  PROVE  Inv'
<1>1. StartFails(a) => Inv'
  BY DeathKeepsInv DEF StartFails, Inv, Types
<1>2. Crash(a) => Inv'
  <2>1. Crash(a) => troubles' \in 0..MaxTroubles
    BY DeploymentAssumption DEF Crash, Trouble, Inv, Types
  <2>. QED  BY <2>1, DeathKeepsInv DEF Crash
<1>. QED
  BY <1>1, <1>2, StartCallKeepsInv, StopCallKeepsInv, StopTimesOutKeepsInv, SignalKeepsInv,
     RestartKeepsInv DEF AppStep

\* Whatever happens to what the applications use.
LEMMA OutsideKeepsInv ==
  ASSUME Inv, NEW s \in Outside, Outage(s) \/ Recovery(s)
  PROVE  Inv'
<1>. USE DEF Inv
<1>1. UNCHANGED <<grpc, exchange, bound, phase>> /\ UNCHANGED requestVars
  BY DEF Outage, Recovery, appVars
<1>2. Types'
  <2>1. up' \subseteq Outside /\ troubles' \in 0..MaxTroubles
    BY DeploymentAssumption DEF Outage, Recovery, Trouble, Types
  <2>2. link' \in [Apps -> {"none", "open", "stale"}]
    BY DEF Outage, Recovery, appVars, Types
  <2>. QED  BY <1>1, <2>1, <2>2 DEF Types
<1>3. SetUpSoFar' /\ Verified'
  BY <1>1 DEF SetUpSoFar, Verified
<1>4. Drained'
  <2>1. link'["subscription"] = "none" <=> link["subscription"] = "none"
    BY DEF Outage, Recovery, appVars, Apps
  <2>. QED  BY <1>1, <2>1, RequestsStay DEF Drained
<1>. QED  BY <1>1, <1>2, <1>3, <1>4, RequestsStay

\* A step of one request.
LEMMA RequestsKeepInv ==
  ASSUME Inv, NEW r \in Requests, UNCHANGED <<grpc, outsideVars, appVars, troubles>>,
         Visit(r) \/ Forward(r) \/ Report(r) \/ Post(r) \/ HangUp(r) \/ RequestStep(r)
  PROVE  Inv'
<1>. USE DEF Inv
<1>1. link["subscription"] \in {"none", "open", "stale"}
  BY DEF Types, Apps
<1>2. Fine(r)
  BY <1>1, BeginningsAreFine, HangUpIsFine, StepsAreFine
<1>3. \A q \in Requests \ {r} : Progress(q)' /\ (InFlight(q, "subscription")' <=> InFlight(q, "subscription"))
  BY <1>2 DEF Fine, Alone, Progress, InFlight, InHandler, AtSubscription, AtEmail, Op, ByScheduler
<1>4. Types' /\ SetUpSoFar' /\ Verified'
  BY DEF Types, SetUpSoFar, Verified, outsideVars, appVars
<1>5. Drained'
  <2>1. UNCHANGED <<phase, link>>
    BY DEF appVars
  <2>2. phase["subscription"] = "serving" => link["subscription"] # "none"
    BY DEF Drained
  <2>. QED  BY <1>2, <1>3, <2>1, <2>2 DEF Fine, Drained
<1>. QED  BY <1>2, <1>3, <1>4, <1>5 DEF Fine

-----------------------------------------------------------------------------
(* Theorems *)

LEMMA InitHolds == Init => Inv
<1>. SUFFICES ASSUME Init  PROVE Inv
  OBVIOUS
<1>1. \A a \in Apps : phase[a] = Head(Starting[a]) /\ phase[a] \in StatesOf(a)
  BY Heads DEF Init, StatesOf
<1>2. Types
  <2>1. phase \in [Apps -> UNION {StatesOf(a) : a \in Apps}]
    BY <1>1 DEF Init
  <2>2. link \in [Apps -> {"none", "open", "stale"}]
    BY DEF Init
  <2>3. grpc \in BOOLEAN /\ up \subseteq Outside /\ exchange \in BOOLEAN /\ bound \subseteq Keys
    BY Zenon DEF Init
  <2>4. troubles \in 0..MaxTroubles
    <3>1. troubles = 0
      BY DEF Init
    <3>. QED  BY <3>1, DeploymentAssumption
  <2>. QED  BY <1>1, <2>1, <2>2, <2>3, <2>4 DEF Types
<1>3. RequestTypes
  BY DEF Init, RequestTypes, Steps
<1>4. SetUpSoFar /\ Verified
  BY <1>1, Heads DEF SetUpSoFar, Verified, UpStates, StopCalls, Apps
<1>6. Drained
  <2>1. phase["subscription"] = "NewGorm" /\ \A r \in Requests : ~InFlight(r, "subscription")
    BY <1>1, Heads DEF Apps, Init, InFlight, AtSubscription, InHandler
  <2>. QED  BY <2>1 DEF Drained
<1>5. \A r \in Requests : Progress(r)
  BY DEF Init, Progress, InHandler, AtSubscription, AtEmail, Op, NoAsk, Refusals
<1>. QED  BY <1>2, <1>3, <1>4, <1>5, <1>6 DEF Inv

LEMMA StutterHolds ==
  ASSUME Inv, UNCHANGED vars  PROVE Inv'
<1>. USE DEF Inv, vars
<1>1. UNCHANGED <<grpc, outsideVars, appVars, troubles>> /\ UNCHANGED requestVars
  OBVIOUS
<1>2. Types' /\ SetUpSoFar' /\ Verified'
  BY <1>1 DEF Types, SetUpSoFar, Verified, outsideVars, appVars
<1>3. Drained'
  BY <1>1, RequestsStay DEF Drained, appVars
<1>. QED  BY <1>1, <1>2, <1>3, RequestsStay

\* The invariant: what each application has set up or seen before its next call, and what
\* each request has done before its own.
THEOREM DeploymentInvariant == Spec => []Inv
<1>1. Inv /\ [Next]_vars => Inv'
  <2>. SUFFICES ASSUME Inv, Next \/ UNCHANGED vars  PROVE Inv'
    OBVIOUS
  <2>1. ASSUME NEW r \in Requests, UNCHANGED <<grpc, outsideVars, appVars, troubles>>,
               Visit(r) \/ Forward(r) \/ Report(r) \/ Post(r) \/ HangUp(r) \/ RequestStep(r)
        PROVE  Inv'
    BY <2>1, RequestsKeepInv
  <2>2. ASSUME NEW a \in Apps, AppStep(a) \/ Signal(a) \/ Crash(a)  PROVE Inv'
    BY <2>2, ApplicationsKeepInv
  <2>3. ASSUME NEW s \in Outside, Outage(s) \/ Recovery(s)  PROVE Inv'
    BY <2>3, OutsideKeepsInv
  <2>. QED  BY <2>1, <2>2, <2>3, StutterHolds DEF Next
<1>. QED  BY <1>1, InitHolds, PTL DEF Spec

\* Variables keep their types, and each application is at a call or state of its own.
THEOREM DeploymentTypes == Spec => []TypeOK
<1>1. Inv => TypeOK
  <2>1. \A a \in Apps : Phases(a) = StatesOf(a)
    BY CallsOfLists DEF Phases, StatesOf
  <2>. QED  BY <2>1 DEF Inv, Types, RequestTypes, TypeOK
<1>. QED  BY <1>1, DeploymentInvariant, PTL

\* However requests are cut off, outlive who asked, or meet failures on their way, OK to a
\* Subscribe means a written row and an email given away, and a refusal that none is.
THEOREM AnswersStayTrue == Spec => []AnswersAreTrue
<1>1. Inv => AnswersAreTrue
  BY DEF Inv, Progress, AnswersAreTrue
<1>. QED  BY <1>1, DeploymentInvariant, PTL

\* The subscription service takes requests only after the exchange is there, in whatever
\* order the containers start, fail and start again.
THEOREM ExchangeComesFirst == Spec => []ExchangeBeforeMail
<1>1. Inv => ExchangeBeforeMail
  BY CallsOfLists DEF Inv, Verified, UpStates, ExchangeBeforeMail, Runs, IsStopping, Apps
<1>. QED  BY <1>1, DeploymentInvariant, PTL

\* However requests, time-outs, signals and crashes meet, a handler of the subscription
\* service has a broker connection that its own process did not close, also when the drain
\* ran out of time and the database goes under it.
THEOREM HandlersKeepTheBroker == Spec => []HandlersKeepBroker
<1>1. Inv => HandlersKeepBroker
  BY DEF Inv, Drained, HandlersKeepBroker
<1>. QED  BY <1>1, DeploymentInvariant, PTL

\* While the email service is up the broker drops no publication.
THEOREM NothingDroppedOnceSetUp == Spec => DroppedOnlyBeforeSetup
<1>. DEFINE Dropped(r) == mail'[r] = "unroutable" /\ mail[r] # "unroutable"
<1>1. Inv /\ [Next]_vars => [\A r \in Requests : Dropped(r) => ~Runs("email")]_vars
  <2>. SUFFICES ASSUME Inv, Next, NEW r \in Requests, Dropped(r)
                PROVE  ~Runs("email")
    BY DEF vars
  <2>. USE DEF Inv
  <2>1. PICK q \in Requests : Publish(q)
    <3>1. ASSUME NEW a \in Apps, AppStep(a) \/ Signal(a) \/ Crash(a)  PROVE mail' = mail
      BY <3>1 DEF AppStep, Signal, Crash, StartCall, StartFails, Restart, StopCall,
                  StopTimesOut, Dies, requestVars
    <3>2. ASSUME NEW s \in Outside, Outage(s) \/ Recovery(s)  PROVE mail' = mail
      BY <3>2 DEF Outage, Recovery, requestVars
    <3>3. ASSUME NEW q \in Requests,
                 \/ Visit(q) \/ Forward(q) \/ Report(q) \/ HangUp(q) \/ CallWeather(q)
                 \/ WeatherAnswers(q) \/ GetByEmail(q) \/ Save(q) \/ Post(q) \/ Reply(q)
          PROVE  mail' = mail
      BY <3>3 DEF Visit, Forward, Report, HangUp, CallWeather, WeatherAnswers, GetByEmail, Save,
                  Post, Reply
    <3>4. ASSUME NEW q \in Requests, Leave(q) \/ SendEmail(q)
          PROVE  mail'[r] \in {mail[r], "none", "sent"}
      BY <3>4 DEF Leave, SendEmail, RequestTypes
    <3>. QED  BY <3>1, <3>2, <3>3, <3>4 DEF Next, RequestStep
  <2>2. PICK fate \in Fates(RoutingKey(q)) : mail' = [mail EXCEPT ![q] = fate]
    BY <2>1 DEF Publish
  <2>3. fate = "unroutable"
    BY <2>2 DEF RequestTypes
  <2>4. link["subscription"] \in {"none", "open", "stale"}
    BY DEF Types, Apps
  <2>5. RoutingKey(q) \notin bound
    BY <2>2, <2>3, <2>4 DEF Fates
  <2>6. phase["email"] \notin UpStates("email")
    BY <2>5 DEF SetUpSoFar, RoutingKey
  <2>. QED  BY <2>6, CallsOfLists DEF UpStates, Runs, IsStopping, Apps
<1>. QED  BY <1>1, DeploymentInvariant, PTL DEF Spec, DroppedOnlyBeforeSetup

-----------------------------------------------------------------------------
(* A bounded number of calls *)

\* Calls that a request at a step has before it at most, the step itself and Leave included.
Left(step) ==
  CASE step = "city"    -> 6 [] step = "weather" -> 5 [] step = "read"  -> 4
    [] step = "save"    -> 3 [] step = "send"    -> 3 [] step = "publish" -> 2
    [] step = "reply"   -> 2 [] step = "over"    -> 1 [] step = "idle" -> 0

\* What a step does to where a request is.
MovesOn(r) == pc'[r] = pc[r] \/ pc[r] = "idle" \/ Left(pc'[r]) < Left(pc[r])

\* A handler that ends is over, one that goes on is at its next call.
LEMMA WhereItGoes ==
  ASSUME NEW r \in Requests, NEW status, NEW step, RequestTypes
  PROVE  (Ends(r, status) => pc'[r] = "over") /\ (GoesOn(r, step) => pc'[r] = step)
BY DEF Ends, GoesOn, Goto, RequestTypes

\* So each call of a handler brings it nearer to its end.
LEMMA GotWeatherMovesOn ==
  ASSUME NEW r \in Requests, NEW outcome, RequestTypes, pc[r] \in {"city", "weather"},
         GotWeather(r, outcome)
  PROVE  Left(pc'[r]) < Left(pc[r])
<1>1. pc'[r] \in {"over", "publish", "read"}
  BY WhereItGoes DEF GotWeather
<1>. QED  BY <1>1 DEF Left

LEMMA StepsMoveOn ==
  ASSUME NEW r \in Requests, RequestTypes, RequestStep(r)
  PROVE  Left(pc'[r]) < Left(pc[r])
<1>1. CASE CallWeather(r)
  <2>1. CASE GoesOn(r, "weather")
    BY <1>1, <2>1, WhereItGoes DEF CallWeather, Left
  <2>2. CASE ~GoesOn(r, "weather")
    <3>1. PICK outcome : GotWeather(r, outcome)
      BY <1>1, <2>2 DEF CallWeather, HTTPAnswers
    <3>. QED  BY <1>1, <3>1, GotWeatherMovesOn DEF CallWeather
  <2>. QED  BY <2>1, <2>2
<1>2. CASE WeatherAnswers(r)
  <2>1. PICK outcome : GotWeather(r, outcome)
    BY <1>2 DEF WeatherAnswers
  <2>. QED  BY <1>2, <2>1, GotWeatherMovesOn DEF WeatherAnswers
<1>3. CASE GetByEmail(r)
  <2>1. pc'[r] \in {"save", "over"}
    BY <1>3, WhereItGoes DEF GetByEmail
  <2>. QED  BY <1>3, <2>1 DEF GetByEmail, Left
<1>4. CASE Save(r)
  <2>1. pc'[r] \in {"publish", "over"}
    BY <1>4, WhereItGoes DEF Save
  <2>. QED  BY <1>4, <2>1 DEF Save, Left
<1>5. CASE Publish(r)
  BY <1>5, WhereItGoes DEF Publish, Left
<1>6. CASE SendEmail(r)
  <2>1. pc'[r] \in {"reply", "over"}
    BY <1>6, WhereItGoes DEF SendEmail
  <2>. QED  BY <1>6, <2>1 DEF SendEmail, Left
<1>7. CASE Reply(r)
  BY <1>7, WhereItGoes DEF Reply, Left
<1>8. CASE Leave(r)
  BY <1>8 DEF Leave, Goto, RequestTypes, Left
<1>. QED  BY <1>1, <1>2, <1>3, <1>4, <1>5, <1>6, <1>7, <1>8 DEF RequestStep

\* A process that ends takes requests to their end, or leaves them where they are.
LEMMA DeathMovesOn ==
  ASSUME NEW a \in Apps, NEW p, RequestTypes, Dies(a, p), NEW r \in Requests
  PROVE  MovesOn(r)
<1>. DEFINE ends == \/ a = "subscription" /\ AtSubscription(r)
                    \/ a = "weather" /\ pc[r] = "weather"
                    \/ a = "email" /\ AtEmail(r)
<1>1. pc'[r] = (IF ends THEN "over" ELSE pc[r])
  BY DEF Dies
<1>2. ends => pc[r] \in {"city", "weather", "read", "save", "publish", "send", "reply"}
  BY DEF AtSubscription, AtEmail, InHandler, RequestTypes, Steps
<1>. QED  BY <1>1, <1>2 DEF MovesOn, Left

\* What any step does to any request.
LEMMA EveryStepMovesOn ==
  ASSUME Inv, [Next]_vars, NEW r \in Requests
  PROVE  MovesOn(r)
<1>. USE DEF Inv
<1>1. CASE UNCHANGED requestVars
  BY <1>1 DEF requestVars, MovesOn
<1>2. ASSUME NEW a \in Apps, AppStep(a) \/ Signal(a) \/ Crash(a)
      PROVE  MovesOn(r)
  BY <1>1, <1>2, DeathMovesOn DEF AppStep, Signal, Crash, StartCall, StartFails, Restart,
                                  StopCall, StopTimesOut
<1>3. ASSUME NEW q \in Requests, UNCHANGED <<grpc, outsideVars, appVars, troubles>>,
             Visit(q) \/ Forward(q) \/ Report(q) \/ Post(q) \/ HangUp(q) \/ RequestStep(q)
      PROVE  MovesOn(r)
  <2>1. CASE r # q
    <3>1. Fine(q)
      <4>1. link["subscription"] \in {"none", "open", "stale"}
        BY DEF Types, Apps
      <4>. QED  BY <1>3, <4>1, BeginningsAreFine, HangUpIsFine, StepsAreFine
    <3>. QED  BY <2>1, <3>1 DEF Fine, Alone, MovesOn
  <2>2. CASE r = q /\ RequestStep(q)
    BY <2>2, StepsMoveOn DEF MovesOn
  <2>3. CASE r = q /\ HangUp(q)
    BY <2>3 DEF HangUp, MovesOn
  <2>4. CASE r = q /\ (Visit(q) \/ Forward(q) \/ Report(q) \/ Post(q))
    BY <2>4 DEF Visit, Forward, Report, Post, MovesOn
  <2>. QED  BY <1>3, <2>1, <2>2, <2>3, <2>4
<1>4. ASSUME NEW o \in Outside, Outage(o) \/ Recovery(o)  PROVE MovesOn(r)
  BY <1>1, <1>4 DEF Outage, Recovery
<1>. QED  BY <1>1, <1>2, <1>3, <1>4 DEF Next, vars

\* A request's way has no loop, through outages and restarts too: at most six calls after
\* it was taken on its slot is free again, if the calls come back.
THEOREM RequestsMoveOn == Spec => [][\A r \in Requests : MovesOn(r)]_vars
<1>1. Inv /\ [Next]_vars => [\A r \in Requests : MovesOn(r)]_vars
  BY EveryStepMovesOn
<1>. QED  BY <1>1, DeploymentInvariant, PTL DEF Spec

-----------------------------------------------------------------------------
(* Nothing outlives its process *)

\* The processes that a request is in, the gateway's while it waits there, are up.
Hosted(r) ==
  /\ AtSubscription(r)     => phase["subscription"] \in UpStates("subscription")
  /\ AtEmail(r)            => phase["email"] \in UpStates("email")
  /\ pc[r] = "weather"     => phase["weather"] \in UpStates("weather")
  /\ waits[r] = "gateway"  => phase["gateway"] \in UpStates("gateway")

\* A process that ends takes its own requests with it.
LEMMA DeathLeavesHosted ==
  ASSUME NEW a \in Apps, NEW p, Inv, Dies(a, p), NEW r \in Requests, Hosted(r)
  PROVE  Hosted(r)'
<1>1. /\ pc'[r] = (IF \/ a = "subscription" /\ AtSubscription(r)
                      \/ a = "weather" /\ pc[r] = "weather"
                      \/ a = "email" /\ AtEmail(r) THEN "over" ELSE pc[r])
      /\ waits'[r] \in {waits[r], "nobody"}
      /\ a = "gateway" => waits'[r] # "gateway"
  <2>1. waits'[r] = (IF \/ \/ a = "subscription" /\ AtSubscription(r)
                           \/ a = "weather" /\ pc[r] = "weather"
                           \/ a = "email" /\ AtEmail(r)
                        \/ InFlight(r, a) THEN "nobody" ELSE waits[r])
    BY DEF Dies
  <2>2. a = "gateway" => (InFlight(r, a) <=> waits[r] = "gateway")
    BY DEF InFlight
  <2>. QED  BY <2>1, <2>2 DEF Dies
<1>2. \A b \in Apps : phase'[b] = (IF b = a THEN p ELSE phase[b])
  BY DEF Dies, Becomes, Inv, Types
<1>3. /\ AtSubscription(r)' => AtSubscription(r) /\ a # "subscription"
      /\ AtEmail(r)' => AtEmail(r) /\ a # "email"
      /\ pc'[r] = "weather" => pc[r] = "weather" /\ a # "weather"
      /\ waits'[r] = "gateway" => waits[r] = "gateway" /\ a # "gateway"
  BY <1>1 DEF AtSubscription, AtEmail, InHandler
<1>. QED  BY <1>2, <1>3 DEF Hosted, UpStates, StopCalls, Apps

\* An application that was up and has not died is up.
LEMMA AppsStayUp ==
  ASSUME NEW a \in Apps, Inv, AppStep(a) \/ Signal(a) \/ Crash(a), ~ \E p : Dies(a, p)
  PROVE  /\ UNCHANGED requestVars
         /\ \A b \in Apps : phase[b] \in UpStates(b) => phase'[b] \in UpStates(b)
<1>. USE DEF Inv
<1>1. UNCHANGED requestVars
  BY DEF AppStep, StartCall, StartFails, Restart, StopCall, StopTimesOut, Signal, Crash
<1>2. \/ phase[a] \notin UpStates(a)
      \/ \E p \in UpStates(a) : phase' = [phase EXCEPT ![a] = p]
  <2>1. CASE StartCall(a)
    <3>1. phase[a] \in Calls(Starting[a])
      BY <2>1 DEF StartCall, Calls
    <3>. QED  BY <3>1, CallsOfLists DEF UpStates, StartCalls, StopCalls, Apps
  <2>2. CASE Restart(a)
    BY <2>2 DEF Restart, UpStates, StopCalls, Apps
  <2>3. CASE StopCall(a)
    <3>1. PICK n \in Places(Stopping[a]) :
            Stopping[a][n + 1] # "stopped" /\ phase' = [phase EXCEPT ![a] = Stopping[a][n + 1]]
      BY <2>3 DEF StopCall, Becomes
    <3>2. Stopping[a][n + 1] \in UpStates(a)
      BY <3>1, StopMoves DEF UpStates, StopCalls
    <3>. QED  BY <3>1, <3>2
  <2>4. CASE Signal(a)
    BY <2>4, Heads DEF Signal, Becomes, UpStates
  <2>5. CASE StopTimesOut(a)
    <3>1. a = "subscription" /\ phase' = [phase EXCEPT ![a] = "DB.Close"]
      BY <2>5 DEF StopTimesOut, Becomes
    <3>. QED  BY <3>1 DEF UpStates, StopCalls
  <2>. QED  BY <2>1, <2>2, <2>3, <2>4, <2>5 DEF AppStep, StartFails, Crash
<1>3. \A b \in Apps \ {a} : phase'[b] = phase[b]
  BY DEF AppStep, StartCall, StartFails, Restart, StopCall, StopTimesOut, Signal, Crash, Becomes,
         Types
<1>. QED  BY <1>1, <1>2, <1>3 DEF Types

\* A request enters a process only when that takes it.
LEMMA RequestsEnterUp ==
  ASSUME NEW r \in Requests, Inv, Hosted(r), phase' = phase,
         Visit(r) \/ Forward(r) \/ Report(r) \/ Post(r) \/ HangUp(r) \/ RequestStep(r)
  PROVE  Hosted(r)'
<1>. USE DEF Inv, RequestTypes
<1>1. CASE Visit(r)
  <2>1. pc'[r] \in {"over", "city", "read"} /\ waits'[r] # "gateway"
    BY <1>1 DEF Visit, Handle, Goto, Waits
  <2>. QED  BY <1>1, <2>1 DEF Visit, Listens, Hosted, UpStates, AtSubscription, AtEmail, InHandler
<1>2. CASE Forward(r)
  <2>1. /\ pc'[r] \in {"over", "city", "read"} /\ Listens("gateway")
        /\ pc'[r] = "over" \/ Listens("subscription")
    BY <1>2 DEF Forward, Handle, Goto
  <2>. QED  BY <2>1 DEF Listens, Hosted, UpStates, AtSubscription, AtEmail, InHandler
<1>3. CASE Report(r)
  <2>1. pc'[r] = "city" /\ phase["subscription"] = "serving" /\ waits' = waits
    BY <1>3 DEF Report, GoesOn, Goto
  <2>. QED  BY <2>1 DEF Hosted, UpStates, AtSubscription, AtEmail, InHandler
<1>4. CASE Post(r)
  <2>1. pc'[r] \in {"over", "send"} /\ phase["email"] = "serving" /\ waits'[r] \in {waits[r], "client"}
    BY <1>4 DEF Post, Listens, Goto, Waits
  <2>. QED  BY <2>1 DEF Hosted, UpStates, AtSubscription, AtEmail, InHandler
<1>5. CASE HangUp(r)
  <2>1. pc' = pc /\ waits'[r] = "nobody"
    BY <1>5 DEF HangUp, Waits
  <2>. QED  BY <2>1 DEF Hosted, AtSubscription, AtEmail, InHandler
<1>6. CASE RequestStep(r)
  <2>1. waits'[r] \in {waits[r], "nobody"}
    BY <1>6 DEF RequestStep, CallWeather, HTTPAnswers, WeatherAnswers, GotWeather, GetByEmail,
                Save, Publish, SendEmail, Reply, Leave, GoesOn, Ends, Waits
  <2>2. \/ pc'[r] \in {"over", "idle"}
        \/ AtSubscription(r) /\ pc'[r] \in {"read", "save", "publish"}
        \/ AtSubscription(r) /\ Listens("weather") /\ pc'[r] = "weather"
        \/ AtEmail(r) /\ pc'[r] = "reply"
    BY <1>6 DEF RequestStep, CallWeather, HTTPAnswers, WeatherAnswers, GotWeather, GetByEmail,
                Save, Publish, SendEmail, Reply, Leave, GoesOn, Ends, Goto, AtSubscription,
                AtEmail, InHandler
  <2>3. Listens("weather") => phase["weather"] \in UpStates("weather")
    BY DEF Listens, UpStates, StopCalls
  <2>. QED  BY <2>1, <2>2, <2>3 DEF Hosted, AtSubscription, AtEmail, InHandler
<1>. QED  BY <1>1, <1>2, <1>3, <1>4, <1>5, <1>6

LEMMA EveryStepHosted ==
  ASSUME Inv, \A r \in Requests : Hosted(r), [Next]_vars
  PROVE  \A r \in Requests : Hosted(r)'
<1>. SUFFICES ASSUME NEW r \in Requests  PROVE Hosted(r)'
  OBVIOUS
<1>. USE DEF Inv
<1>1. CASE UNCHANGED <<appVars, requestVars>>
  BY <1>1 DEF appVars, requestVars, Hosted, AtSubscription, AtEmail, InHandler
<1>2. ASSUME NEW a \in Apps, AppStep(a) \/ Signal(a) \/ Crash(a)  PROVE Hosted(r)'
  <2>1. CASE \E p : Dies(a, p)
    BY <2>1, DeathLeavesHosted
  <2>2. CASE ~ \E p : Dies(a, p)
    <3>1. /\ UNCHANGED requestVars
          /\ \A b \in Apps : phase[b] \in UpStates(b) => phase'[b] \in UpStates(b)
      BY <1>2, <2>2, AppsStayUp
    <3>. QED  BY <3>1 DEF requestVars, Hosted, AtSubscription, AtEmail, InHandler, Apps
  <2>. QED  BY <2>1, <2>2
<1>3. ASSUME NEW s \in Outside, Outage(s) \/ Recovery(s)  PROVE Hosted(r)'
  BY <1>3 DEF Outage, Recovery, appVars, requestVars, Hosted, AtSubscription, AtEmail, InHandler
<1>4. ASSUME NEW q \in Requests, UNCHANGED <<grpc, outsideVars, appVars, troubles>>,
             Visit(q) \/ Forward(q) \/ Report(q) \/ Post(q) \/ HangUp(q) \/ RequestStep(q)
      PROVE  Hosted(r)'
  <2>1. CASE q = r
    BY <1>4, <2>1, RequestsEnterUp DEF appVars
  <2>2. CASE q # r
    <3>1. Fine(q)
      <4>1. link["subscription"] \in {"none", "open", "stale"}
        BY DEF Types, Apps
      <4>. QED  BY <1>4, <4>1, BeginningsAreFine, HangUpIsFine, StepsAreFine
    <3>2. pc'[r] = pc[r] /\ waits'[r] = waits[r] /\ phase' = phase
      BY <1>4, <2>2, <3>1 DEF Fine, Alone, appVars
    <3>. QED  BY <3>2 DEF Hosted, AtSubscription, AtEmail, InHandler
  <2>. QED  BY <2>1, <2>2
<1>. QED  BY <1>1, <1>2, <1>3, <1>4 DEF Next, vars

\* A request is only in processes that are up: one that ends, by a signal, a crash or a
\* shutdown that runs out of time, leaves no handler and nobody waiting behind.
THEOREM RequestsHaveTheirProcess == Spec => [](\A r \in Requests : Hosted(r))
<1>1. Init => \A r \in Requests : Hosted(r)
  BY DEF Init, Hosted, AtSubscription, AtEmail, InHandler
<1>2. Inv /\ (\A r \in Requests : Hosted(r)) /\ [Next]_vars => (\A r \in Requests : Hosted(r))'
  BY EveryStepHosted
<1>. QED  BY <1>1, <1>2, DeploymentInvariant, PTL DEF Spec

-----------------------------------------------------------------------------
(* Failures have a reason *)

\* The states of an application that come after its connection to the broker.
Connected(a) ==
  CASE a = "subscription" -> {"VerifyExchange", "serving"}
    [] a = "email"        -> {"ExchangeDeclare", "QueueDeclare", "email.confirmation",
                              "email.weather_report", "serving"}
    [] OTHER              -> {}

\* Before the first outage, crash or stop every connection opened is open, no shutdown has
\* begun, and no email has been lost.
Untroubled ==
  troubles = 0 =>
    /\ \A a \in Apps : link[a] # "stale" /\ phase[a] \notin StopCalls[a]
    /\ \A a \in Apps : phase[a] \in Connected(a) => link[a] = "open"
    /\ \A r \in Requests : mail[r] \notin {"lost", "failed"}

\* What ends a process before the first trouble.
Reason(a) == up # Outside \/ (a = "subscription" /\ ~exchange)

\* A start call fails for want of what it asks for.
LEMMA StartFailsForWant ==
  ASSUME NEW a \in Apps, Inv, Untroubled, troubles = 0, IsStarting(a), ~Works(a)
  PROVE  Reason(a)
<1>1. phase[a] \in StartCalls[a]
  BY CallsOfLists DEF IsStarting
<1>2. CASE phase[a] \in {"NewGorm", "NewRedisClient", "NewCacheClient", "NewConnection", "Load"}
  BY <1>2 DEF Works, NewGorm, NewRedisClient, NewCacheClient, NewConnection, Load, Reason, Outside
<1>3. CASE phase[a] = "VerifyExchange"
  <2>1. a = "subscription"
    BY <1>1, <1>3 DEF StartCalls, Apps
  <2>2. link[a] = "open"
    BY <1>3, <2>1 DEF Untroubled, Connected
  <2>. QED  BY <1>3, <2>1, <2>2 DEF Works, VerifyExchange, Reason
<1>4. CASE phase[a] \in {"ExchangeDeclare", "QueueDeclare", "email.confirmation",
                         "email.weather_report"}
  <2>1. a = "email"
    BY <1>1, <1>4 DEF StartCalls, Apps
  <2>2. link[a] = "open"
    BY <1>4, <2>1 DEF Untroubled, Connected
  <2>. QED  BY <1>4, <2>2 DEF Works, ExchangeDeclare
<1>. QED  BY <1>1, <1>2, <1>3, <1>4 DEF StartCalls, Apps

\* The application's own steps, before the first trouble.
LEMMA UntroubledSteps ==
  ASSUME NEW a \in Apps, Inv, Untroubled, AppStep(a)
  PROVE  Untroubled'
<1>. USE DEF Inv
<1>1. troubles' = troubles /\ mail' = mail
  BY DEF AppStep, StartCall, StartFails, Restart, StopCall, StopTimesOut, Dies, requestVars
<1>. SUFFICES ASSUME troubles = 0  PROVE Untroubled'
  BY <1>1 DEF Untroubled
<1>2. \A b \in Apps : /\ link[b] # "stale" /\ phase[b] \notin StopCalls[b]
                      /\ phase[b] \in Connected(b) => link[b] = "open"
  BY DEF Untroubled
<1>3. CASE StartCall(a)
  <2>1. PICK n \in Places(Starting[a]) :
          phase[a] = Starting[a][n] /\ phase' = [phase EXCEPT ![a] = Starting[a][n + 1]]
    BY <1>3 DEF StartCall, Becomes
  <2>. DEFINE from == Starting[a][n]
              to == Starting[a][n + 1]
  <2>2. <<a, from, to>> \in
           {<<"gateway", "Load", "serving">>,
            <<"subscription", "NewGorm", "NewConnection">>,
            <<"subscription", "NewConnection", "VerifyExchange">>,
            <<"subscription", "VerifyExchange", "serving">>,
            <<"email", "NewRedisClient", "NewConnection">>,
            <<"email", "NewConnection", "ExchangeDeclare">>,
            <<"email", "ExchangeDeclare", "QueueDeclare">>,
            <<"email", "QueueDeclare", "email.confirmation">>,
            <<"email", "email.confirmation", "email.weather_report">>,
            <<"email", "email.weather_report", "serving">>,
            <<"weather", "NewCacheClient", "serving">>}
    BY StartMoves
  <2>3. \A b \in Apps : phase'[b] = (IF b = a THEN to ELSE phase[b])
    BY <2>1 DEF Types
  <2>4. \A b \in Apps : link'[b] = (IF b = a /\ from = "NewConnection" THEN "open" ELSE link[b])
    BY <1>3, <2>1 DEF StartCall, LinkBecomes, Types
  <2>5. to \notin StopCalls[a]
    BY <2>2 DEF StopCalls
  <2>6. to \in Connected(a) => from = "NewConnection" \/ from \in Connected(a)
    BY <2>2 DEF Connected
  <2>. QED  BY <1>1, <1>2, <2>1, <2>3, <2>4, <2>5, <2>6 DEF Untroubled
<1>4. CASE StartFails(a)
  <2>1. /\ phase' = [phase EXCEPT ![a] = "exited"] /\ link' = [link EXCEPT ![a] = "none"]
    BY <1>4 DEF StartFails, Dies, Becomes, LinkBecomes
  <2>2. "exited" \notin StopCalls[a] /\ "exited" \notin Connected(a)
    BY DEF StopCalls, Connected, Apps
  <2>3. \A b \in Apps : /\ phase'[b] = (IF b = a THEN "exited" ELSE phase[b])
                        /\ link'[b] = (IF b = a THEN "none" ELSE link[b])
    BY <2>1 DEF Types
  <2>. QED  BY <1>1, <1>2, <2>2, <2>3 DEF Untroubled
<1>5. CASE Restart(a)
  <2>1. phase' = [phase EXCEPT ![a] = Head(Starting[a])] /\ link' = link
    BY <1>5 DEF Restart, Becomes
  <2>2. Head(Starting[a]) \notin StopCalls[a] /\ Head(Starting[a]) \notin Connected(a)
    BY Heads DEF StartCalls, StopCalls, Connected, Apps
  <2>3. \A b \in Apps : phase'[b] = (IF b = a THEN Head(Starting[a]) ELSE phase[b])
    BY <2>1 DEF Types
  <2>. QED  BY <1>1, <1>2, <2>1, <2>2, <2>3 DEF Untroubled
<1>6. CASE StopCall(a) \/ StopTimesOut(a)
  <2>1. phase[a] \notin StopCalls[a]
    BY <1>2
  <2>2. CASE StopCall(a)
    <3>1. phase[a] \in Calls(Stopping[a])
      BY <2>2 DEF StopCall, Calls
    <3>. QED  BY <2>1, <3>1, CallsOfLists
  <2>3. CASE StopTimesOut(a)
    <3>1. phase[a] \in StatesOf(a) /\ phase[a] \in {"Server.Shutdown", "GracefulStop"}
      BY <2>3 DEF StopTimesOut, Awaits, Types
    <3>2. phase[a] \in StopCalls[a]
      BY <3>1 DEF StatesOf, StartCalls, StopCalls, Apps
    <3>. QED  BY <2>1, <3>2
  <2>. QED  BY <1>6, <2>2, <2>3
<1>. QED  BY <1>3, <1>4, <1>5, <1>6 DEF AppStep

LEMMA EveryStepUntroubled ==
  ASSUME Inv, Untroubled, \A r \in Requests : Hosted(r), [Next]_vars
  PROVE  Untroubled'
<1>. USE DEF Inv
<1>1. CASE UNCHANGED vars
  BY <1>1 DEF vars, appVars, requestVars, Untroubled
<1>2. ASSUME NEW a \in Apps, Signal(a) \/ Crash(a)  PROVE Untroubled'
  <2>1. troubles' # 0
    BY <1>2 DEF Signal, Crash, Trouble, Types
  <2>. QED  BY <2>1 DEF Untroubled
<1>3. ASSUME NEW s \in Outside, Outage(s) \/ Recovery(s)  PROVE Untroubled'
  <2>1. Outage(s) => troubles' # 0
    BY DEF Outage, Trouble, Types
  <2>2. Recovery(s) => UNCHANGED <<troubles, phase, link, mail>>
    BY DEF Recovery, appVars, requestVars
  <2>. QED  BY <1>3, <2>1, <2>2 DEF Untroubled
<1>4. ASSUME NEW q \in Requests, UNCHANGED <<grpc, outsideVars, appVars, troubles>>,
             Visit(q) \/ Forward(q) \/ Report(q) \/ Post(q) \/ HangUp(q) \/ RequestStep(q)
      PROVE  Untroubled'
  <2>. SUFFICES ASSUME troubles = 0  PROVE \A r \in Requests : mail'[r] \notin {"lost", "failed"}
    BY <1>4 DEF Untroubled, appVars
  <2>1. \A r \in Requests : mail[r] \notin {"lost", "failed"}
    BY DEF Untroubled
  <2>2. CASE Publish(q)
    <3>1. PICK fate \in Fates(RoutingKey(q)) : mail' = [mail EXCEPT ![q] = fate]
      BY <2>2 DEF Publish
    <3>2. phase["subscription"] = "serving" => link["subscription"] = "open"
      BY DEF Untroubled, Connected, Apps
    <3>3. link["subscription"] = "open"
      <4>1. AtSubscription(q)
        BY <2>2 DEF Publish, AtSubscription, AtEmail, InHandler
      <4>2. phase["subscription"] \notin StopCalls["subscription"]
        BY DEF Untroubled, Apps
      <4>. QED  BY <3>2, <4>1, <4>2 DEF Hosted, UpStates
    <3>4. fate \in {"queued", "unroutable"}
      BY <3>1, <3>3 DEF Fates
    <3>. QED  BY <2>1, <3>1, <3>4 DEF RequestTypes
  <2>3. CASE Visit(q) \/ Forward(q) \/ Report(q) \/ HangUp(q) \/ CallWeather(q)
             \/ WeatherAnswers(q) \/ GetByEmail(q) \/ Save(q) \/ Post(q) \/ Reply(q)
    <3>1. mail' = mail
      BY <2>3 DEF Visit, Forward, Report, HangUp, CallWeather, WeatherAnswers, GetByEmail, Save,
                  Post, Reply
    <3>. QED  BY <2>1, <3>1
  <2>4. CASE Leave(q) \/ SendEmail(q)
    <3>1. \A r \in Requests : mail'[r] \in {mail[r], "none", "sent"}
      BY <2>4 DEF Leave, SendEmail, RequestTypes
    <3>. QED  BY <2>1, <3>1
  <2>. QED  BY <1>4, <2>2, <2>3, <2>4 DEF RequestStep
<1>. QED  BY <1>1, <1>2, <1>3, <1>4, UntroubledSteps DEF Next

LEMMA UntroubledInvariant == Spec => []Untroubled
<1>1. Init => Untroubled
  <2>1. ASSUME NEW a \in Apps  PROVE Head(Starting[a]) \notin StopCalls[a] \cup Connected(a)
    BY Heads DEF StartCalls, StopCalls, Connected, Apps
  <2>. QED  BY <2>1 DEF Init, Untroubled
<1>2. (Inv /\ \A r \in Requests : Hosted(r)) /\ Untroubled /\ [Next]_vars => Untroubled'
  BY EveryStepUntroubled
<1>. QED  BY <1>1, <1>2, DeploymentInvariant, RequestsHaveTheirProcess, PTL DEF Spec

\* No publication is refused or lost before the first outage, crash or stop: the service
\* takes requests only with an open connection, and keeps it while it does.
THEOREM MailIsLostForAReason ==
  Spec => [](\A r \in Requests : mail[r] \in {"lost", "failed"} => troubles > 0)
<1>1. Inv /\ Untroubled => \A r \in Requests : mail[r] \in {"lost", "failed"} => troubles > 0
  BY DEF Inv, Types, Untroubled
<1>. QED  BY <1>1, DeploymentInvariant, UntroubledInvariant, PTL

\* Before the first trouble a process ends only for want of something outside or, the
\* subscription service's, of the exchange that the email service declares: in particular
\* nothing but the subscription service ends while postgres, redis and broker answer.
THEOREM ProcessesEndForAReason ==
  Spec => [][\A a \in Apps :
               phase[a] # "exited" /\ phase'[a] = "exited" => troubles' > 0 \/ Reason(a)]_vars
<1>1. Inv /\ Untroubled /\ [Next]_vars =>
        [\A a \in Apps :
           phase[a] # "exited" /\ phase'[a] = "exited" => troubles' > 0 \/ Reason(a)]_vars
  <2>. SUFFICES ASSUME Inv, Untroubled, Next, NEW a \in Apps, phase[a] # "exited",
                       phase'[a] = "exited"
                PROVE  troubles' > 0 \/ Reason(a)
    BY DEF vars
  <2>. USE DEF Inv
  <2>1. PICK b \in Apps : AppStep(b) \/ Signal(b) \/ Crash(b)
    BY DEF Next, appVars, Outage, Recovery
  <2>2. CASE Signal(b) \/ Crash(b)
    BY <2>2 DEF Signal, Crash, Trouble, Types
  <2>3. CASE AppStep(b)
    <3>1. a = b
      BY <2>3 DEF AppStep, StartCall, StartFails, Restart, StopCall, StopTimesOut, Dies, Becomes,
                  Types
    <3>2. ~StartCall(b)
      <4>1. SUFFICES ASSUME NEW n \in Places(Starting[b]),
                            phase' = [phase EXCEPT ![b] = Starting[b][n + 1]]
                     PROVE  FALSE
        BY DEF StartCall, Becomes
      <4>2. Starting[b][n + 1] # "exited"
        BY StartMoves
      <4>. QED  BY <3>1, <4>1, <4>2 DEF Types
    <3>3. ~Restart(b)
      BY <3>1 DEF Restart
    <3>4. ~StopCall(b) /\ ~StopTimesOut(b)
      <4>1. ASSUME NEW n \in Places(Stopping[b])  PROVE Stopping[b][n + 1] # "exited"
        BY StopMoves
      <4>. QED  BY <3>1, <4>1 DEF StopCall, StopTimesOut, Dies, Becomes, Types
    <3>5. StartFails(b) /\ troubles' = troubles
      BY <2>3, <3>2, <3>3, <3>4 DEF AppStep, StartFails
    <3>6. CASE troubles = 0
      BY <3>1, <3>5, <3>6, StartFailsForWant DEF StartFails
    <3>7. CASE troubles # 0
      BY <3>5, <3>7 DEF Types
    <3>. QED  BY <3>6, <3>7
  <2>. QED  BY <2>1, <2>2, <2>3
<1>. QED  BY <1>1, DeploymentInvariant, UntroubledInvariant, PTL DEF Spec

-----------------------------------------------------------------------------
(* Unknown cities *)

\* What a request's client may be told from a weather call on, besides what it was told.
WeatherTells(r) == answer'[r] \in {answer[r], "OK", "InternalServerError", "GatewayTimeout", "cut"}

\* The weather client's answer never becomes a refusal: over gRPC its error is not the one
\* the handlers know, over HTTP Subscribe does not look for it, and GetWeather's handler
\* knows another one.
LEMMA WeatherOutcomes ==
  ASSUME NEW r \in Requests, RequestTypes, Progress(r), CallWeather(r) \/ WeatherAnswers(r)
  PROVE  WeatherTells(r)
<1>1. ASSUME NEW outcome \in {"nil", "error", "ErrCityNotFound"}, GotWeather(r, outcome),
             outcome = "ErrCityNotFound" => Op(r) = "GetWeather"
      PROVE  WeatherTells(r)
  <2>1. CASE \E step : GoesOn(r, step)
    BY <2>1 DEF GoesOn, WeatherTells
  <2>2. CASE ~ \E step : GoesOn(r, step)
    <3>1. PICK status \in {"OK", "InternalServerError"} : Ends(r, status)
      BY <1>1, <2>2 DEF GotWeather, HandlerStatus
    <3>2. \E seen \in {status, "cut", answer[r]} : answer' = [answer EXCEPT ![r] = seen]
      BY <3>1, EndsTells DEF Statuses
    <3>. QED  BY <3>1, <3>2 DEF WeatherTells, RequestTypes
  <2>. QED  BY <2>1, <2>2
<1>2. CASE HTTPAnswers(r)
  <2>1. PICK outcome \in {"error", "ErrCityNotFound"} :
          GotWeather(r, outcome) /\ (outcome = "ErrCityNotFound" => Op(r) = "GetWeather")
    BY <1>2 DEF HTTPAnswers, OverHTTP, WeatherStatuses, RouteAsked, RegisteredRoutes
  <2>. QED  BY <1>1, <2>1
<1>3. CASE GoesOn(r, "weather")
  BY <1>3 DEF GoesOn, WeatherTells
<1>4. CASE GotWeather(r, "error")
  BY <1>1, <1>4
<1>5. CASE WeatherAnswers(r)
  <2>1. PICK outcome \in {"nil", "error"} : GotWeather(r, outcome)
    BY <1>5 DEF WeatherAnswers, OverGRPC
  <2>. QED  BY <1>1, <2>1
<1>. QED  BY <1>2, <1>3, <1>4, <1>5 DEF CallWeather

\* The end of a process shows as a lost connection or as a server error.
LEMMA DeathTells ==
  ASSUME NEW a \in Apps, NEW p, RequestTypes, Dies(a, p), NEW r \in Requests
  PROVE  WeatherTells(r)
<1>1. answer'[r] \in SeenOfEnd(r, a)
  BY DEF Dies
<1>2. HandlerStatus(Op(r), "error") = "InternalServerError"
      /\ HandleServiceError("InternalServerError") = "InternalServerError"
      /\ HandleServiceError("EOF") = "InternalServerError"
  BY DEF HandlerStatus, HandleServiceError
<1>3. waits[r] \in {"gateway", "client", "nobody"}
  BY DEF RequestTypes
<1>4. CASE a = "weather" /\ pc[r] = "weather"
  <2>1. answer'[r] \in Seen(r, "InternalServerError")
    BY <1>1, <1>2, <1>4 DEF SeenOfEnd
  <2>. QED  BY <1>2, <1>3, <2>1 DEF Seen, WeatherTells
<1>5. CASE ~(a = "weather" /\ pc[r] = "weather")
  BY <1>1, <1>2, <1>5 DEF SeenOfEnd, WeatherTells, Apps
<1>. QED  BY <1>4, <1>5

\* Nobody is ever told that a city does not exist: whatever the weather service finds, a
\* Subscribe or GetWeather that got as far as asking it is answered OK, with a server error,
\* or with a time-out or a lost connection.
THEOREM UnknownCitiesAreServerErrors ==
  Spec => [][\A r \in Requests : pc[r] \in {"city", "weather"} => WeatherTells(r)]_vars
<1>1. Inv /\ [Next]_vars => [\A r \in Requests : pc[r] \in {"city", "weather"} => WeatherTells(r)]_vars
  <2>. SUFFICES ASSUME Inv, Next, NEW r \in Requests, pc[r] \in {"city", "weather"}
                PROVE  WeatherTells(r)
    BY DEF vars
  <2>. USE DEF Inv
  <2>1. CASE UNCHANGED answer
    BY <2>1 DEF WeatherTells
  <2>2. ASSUME NEW a \in Apps, AppStep(a) \/ Signal(a) \/ Crash(a)  PROVE WeatherTells(r)
    BY <2>1, <2>2, DeathTells
       DEF AppStep, Signal, Crash, StartCall, StartFails, Restart, StopCall, StopTimesOut, requestVars
  <2>3. ASSUME NEW q \in Requests, UNCHANGED <<grpc, outsideVars, appVars, troubles>>,
               Visit(q) \/ Forward(q) \/ Report(q) \/ Post(q) \/ HangUp(q) \/ RequestStep(q)
        PROVE  WeatherTells(r)
    <3>1. CASE q # r
      <4>1. Fine(q)
        <5>1. link["subscription"] \in {"none", "open", "stale"}
          BY DEF Types, Apps
        <5>. QED  BY <2>3, <5>1, BeginningsAreFine, HangUpIsFine, StepsAreFine
      <4>. QED  BY <3>1, <4>1 DEF Fine, Alone, WeatherTells
    <3>2. CASE q = r /\ HangUp(q)
      BY <3>2 DEF HangUp, Told, HandleServiceError, WeatherTells, RequestTypes
    <3>3. CASE q = r /\ RequestStep(q)
      <4>1. CallWeather(r) \/ WeatherAnswers(r)
        BY <3>3 DEF RequestStep, GetByEmail, Save, Publish, SendEmail, Reply, Leave
      <4>. QED  BY <4>1, WeatherOutcomes
    <3>. QED  BY <2>3, <3>1, <3>2, <3>3 DEF Visit, Forward, Report, Post
  <2>4. ASSUME NEW o \in Outside, Outage(o) \/ Recovery(o)  PROVE WeatherTells(r)
    BY <2>1, <2>4 DEF Outage, Recovery, requestVars
  <2>. QED  BY <2>2, <2>3, <2>4 DEF Next
<1>. QED  BY <1>1, DeploymentInvariant, PTL DEF Spec
=============================================================================
