---------------------------- MODULE WeatherService ----------------------------
(***************************************************************************)
(* The weather service: requests that run side by side through the cache   *)
(* reader, the chain of providers with a cache writer each, and Redis.  A  *)
(* slot holds one request at a time, so any number of requests pass, as    *)
(* many at once as there are slots.                                        *)
(*                                                                         *)
(* Every call to Redis or to a provider is an action of its own, so        *)
(* requests interleave and time passes between them.  There is no clock: a *)
(* tick makes every statement older and every cache entry's rest shorter,  *)
(* so time has no bound.  Any call to Redis may fail; during a shutdown,   *)
(* which closes the client first, they all do.                             *)
(***************************************************************************)
EXTENDS Integers

CONSTANTS
  Requests,        \* slots for requests in flight
  Spellings, City, \* how clients write a city; the city normalizeCity makes of it
  Depth, Kind,     \* length of the chain; provider -> one of Kinds
  ReportTTL,       \* provider -> how many ticks Redis keeps its reports
  NotFoundTTL,     \* how many ticks Redis keeps a refusal
  Patience         \* bound: ticks between getting a statement and using it

VARIABLES
  cached,          \* whether there is a cache
  reports,         \* Redis: weather:report:<city>:<provider>
  unknown,         \* Redis: weather:notfound:<city>:<provider>
  ask,             \* request -> its operation and city
  pc,              \* request -> its next step, "idle" between requests
  node,            \* request -> the provider it is at
  held,            \* request -> the statement at hand, if any
  waited,          \* request -> ticks since it got that statement
  failed, refused  \* request -> providers that failed it; those that knew no such city

cacheVars == <<reports, unknown>>
chainVars == <<node, held, waited, failed, refused>>
vars == <<cached, cacheVars, ask, pc, chainVars>>

Providers == 1..Depth
Kinds == {"WeatherAPI", "TomorrowIO", "OpenWeatherMap", "Benchmark"}

ASSUME WeatherAssumption ==
  /\ Depth \in Nat \ {0} /\ Kind \in [Providers -> Kinds]
  /\ ReportTTL \in [Providers -> Nat \ {0}] /\ NotFoundTTL \in Nat \ {0}
  /\ Patience \in Nat

Ask == [op : {"GetWeather", "CityIsValid"}, spelling : Spellings]
NoAsk == [op |-> "none", spelling |-> "none"]

Cities == {City[s] : s \in Spellings}

\* What a provider said of a city, and how many ticks ago.
Statement == [by : Providers, says : {"ok", "notFound"}, city : Cities, age : Nat]
Entry == [by : Providers, city : Cities, holds : Statement, left : Nat \ {0}]

Steps == {"idle", "lookup", "consult", "call", "store", "mark", "reply"}
InFlight(r) == pc[r] # "idle"

-----------------------------------------------------------------------------
(* Redis *)

\* key and notFoundKey: makeKey normalises the city; the provider gets the spelling.
Key(e, p, s) == e.by = p /\ e.city = City[s]

\* Mutated form of NotFoundKey: the refusals of all providers share a key.
NotFoundKeyShared(e, p, s) == e.city = City[s]

NotFoundKey(e, p, s) == Key(e, p, s)

\* SET with an expiry replaces the entry.
Written(entries, p, s, statement, ttl) ==
  {e \in entries : ~Key(e, p, s)} \cup
  {[by |-> p, city |-> City[s], holds |-> statement, left |-> ttl]}

\* A refusal that is found; one is written the way a report is.
GetCityNotFound(r) == {e \in unknown : NotFoundKey(e, node[r], ask[r].spelling)}
SetCityNotFound(r, refusal) ==
  unknown' = Written(unknown, node[r], ask[r].spelling, refusal, NotFoundTTL)

\* Any entry may be lost, with a Redis restart or under its memory limit.
RedisLoses ==
  /\ \/ \E e \in reports : reports' = reports \ {e} /\ UNCHANGED unknown
     \/ \E e \in unknown : unknown' = unknown \ {e} /\ UNCHANGED reports
  /\ UNCHANGED <<cached, ask, pc, chainVars>>

-----------------------------------------------------------------------------
(* Providers *)

\* What comes back: a report, the API's own "no such place", another error body, a body
\* that is no JSON (with a good status), or nothing in time.
Responses == {"report", "noPlace", "apiError", "garbage", "nothing"}

\* weatherapi.Provider looks at the body alone: GetWeather decodes another error's body
\* to a report of zeros, CityIsValid takes any other body for a yes.
WeatherAPI(op, response) ==
  CASE response \in {"report", "apiError"} -> "ok"
    [] response = "noPlace"  -> "notFound"
    [] response = "garbage"  -> IF op = "GetWeather" THEN "error" ELSE "ok"
    [] response = "nothing"  -> "error"

\* tomorrowio.Provider takes a status from 400 on for an error.
TomorrowIO(op, response) ==
  CASE response = "report"   -> "ok"
    [] response = "noPlace"  -> "notFound"
    [] response = "garbage"  -> IF op = "GetWeather" THEN "error" ELSE "ok"
    [] response \in {"apiError", "nothing"} -> "error"

\* openweathermap.Provider, which BuildProviders does not use, does so too; a body
\* without a description is another error.
OpenWeatherMap(op, response) == TomorrowIO(op, response)

\* benchmark.Provider asks nobody.
Benchmark == "ok"

Says(p, op, response) ==
  CASE Kind[p] = "WeatherAPI"     -> WeatherAPI(op, response)
    [] Kind[p] = "TomorrowIO"     -> TomorrowIO(op, response)
    [] Kind[p] = "OpenWeatherMap" -> OpenWeatherMap(op, response)
    [] Kind[p] = "Benchmark"      -> Benchmark

\* CACHE_ENABLED; BENCHMARK_MODE runs without a cache.
CacheSettings == IF \E p \in Providers : Kind[p] = "Benchmark" THEN {FALSE} ELSE BOOLEAN

-----------------------------------------------------------------------------
(* A request *)

Goto(r, step) == pc' = [pc EXCEPT ![r] = step]
At(r, p) == node' = [node EXCEPT ![r] = p]
Gets(r, statements, since) == /\ held' = [held EXCEPT ![r] = statements]
                              /\ waited' = [waited EXCEPT ![r] = since]

\* Only GetWeather goes through the cache; CityIsValid passes reader and writers by.
ThroughCache(a) == cached /\ a.op = "GetWeather"

\* The handlers hand the city on as it was written.
Accept(r) ==
  /\ pc[r] = "idle"
  /\ \E a \in Ask : /\ ask' = [ask EXCEPT ![r] = a]
                    /\ Goto(r, IF ThroughCache(a) THEN "lookup" ELSE "call")
  /\ UNCHANGED <<cached, cacheVars, chainVars>>

\* Mutated form of AfterLookupError: the error of Redis ends the request.
AfterLookupErrorFail == "reply"

\* Mutated form of AfterLookupError: the reader starts over.
AfterLookupErrorRetry == "lookup"

AfterLookupError == "consult"

\* Reader.GetWeather: the caches of all providers in order, until a hit or an error.
Lookup(r) ==
  /\ pc[r] = "lookup"
  /\ \/ \E e \in reports : /\ Key(e, node[r], ask[r].spelling)
                           /\ Gets(r, {e.holds}, 0) /\ Goto(r, "reply") /\ UNCHANGED node
     \/ /\ \A e \in reports : ~Key(e, node[r], ask[r].spelling)
        /\ IF node[r] < Depth THEN At(r, node[r] + 1) /\ UNCHANGED pc
                              ELSE At(r, 1) /\ Goto(r, "consult")
        /\ UNCHANGED <<held, waited>>
     \/ At(r, 1) /\ Goto(r, AfterLookupError) /\ UNCHANGED <<held, waited>>
  /\ UNCHANGED <<cached, cacheVars, ask, failed, refused>>

\* Mutated form of HasNext: one node too many.
HasNextOffByOne(p) == p <= Depth

HasNext(p) == p < Depth

\* Node.GetWeather and CityIsValid: after any error the next provider is asked, and only
\* the last one's refusal stays at hand.
FallThrough(r, refusal, since) ==
  /\ failed' = [failed EXCEPT ![r] = @ \cup {node[r]}]
  /\ refused' = [refused EXCEPT ![r] = @ \cup {s.by : s \in refusal}]
  /\ IF HasNext(node[r])
     THEN /\ At(r, node[r] + 1) /\ Gets(r, {}, 0)
          /\ Goto(r, IF ThroughCache(ask[r]) THEN "consult" ELSE "call")
     ELSE UNCHANGED node /\ Gets(r, refusal, since) /\ Goto(r, "reply")

\* Writer.GetWeather: GetCityNotFound.  A miss and an error of Redis lead to the provider.
Consult(r) ==
  /\ pc[r] = "consult"
  /\ \/ \E e \in GetCityNotFound(r) : FallThrough(r, {e.holds}, 0)
     \/ Goto(r, "call") /\ UNCHANGED chainVars
  /\ UNCHANGED <<cached, cacheVars, ask>>

\* The provider's client returns, at the latest after its time-out of five seconds.
Call(r) ==
  /\ pc[r] = "call"
  /\ \E response \in Responses :
       LET says == Says(node[r], ask[r].op, response)
           said == {[by |-> node[r], says |-> says, city |-> City[ask[r].spelling],
                      age |-> 0]}
           toCache == ThroughCache(ask[r])
       IN  \/ /\ says = "ok" /\ Gets(r, said, 0)
              /\ Goto(r, IF toCache THEN "store" ELSE "reply")
              /\ UNCHANGED <<node, failed, refused>>
           \/ /\ says = "notFound" /\ toCache /\ Gets(r, said, 0) /\ Goto(r, "mark")
              /\ UNCHANGED <<node, failed, refused>>
           \/ says = "notFound" /\ ~toCache /\ FallThrough(r, said, 0)
           \/ says = "error" /\ FallThrough(r, {}, 0)
  /\ UNCHANGED <<cached, cacheVars, ask>>

\* Mutated form of TTL: the first provider's for every provider.
TTLOfFirst(p) == ReportTTL[1]

TTL(p) == ReportTTL[p]

\* Writer: Set after a report.  Its error is only logged, and after a time-out Redis may
\* have carried it out all the same.
Store(r) ==
  /\ pc[r] = "store"
  /\ \/ \E s \in held[r] :
          reports' = Written(reports, node[r], ask[r].spelling, s, TTL(node[r]))
     \/ UNCHANGED reports
  /\ Goto(r, "reply")
  /\ UNCHANGED <<cached, unknown, ask, chainVars>>

\* Writer: SetCityNotFound after a refusal, likewise; then the chain goes on.
Mark(r) ==
  /\ pc[r] = "mark"
  /\ (\E s \in held[r] : SetCityNotFound(r, s)) \/ UNCHANGED unknown
  /\ FallThrough(r, held[r], waited[r])
  /\ UNCHANGED <<cached, reports, ask>>

\* GetWeather ends with the last provider's error; CityIsValid joins the errors of all.
Refused(r) == IF ask[r].op = "GetWeather" THEN Depth \in refused[r] ELSE refused[r] # {}

\* Service and handler: 200, 404 or 500 over HTTP; over gRPC both errors have code Unknown.
Outcome(r) == IF \E s \in held[r] : s.says = "ok" THEN "ok"
              ELSE IF Refused(r) THEN "notFound" ELSE "failed"

\* The slots are free again.
Freed(S) ==
  /\ ask' = [r \in Requests |-> IF r \in S THEN NoAsk ELSE ask[r]]
  /\ pc' = [r \in Requests |-> IF r \in S THEN "idle" ELSE pc[r]]
  /\ node' = [r \in Requests |-> IF r \in S THEN 1 ELSE node[r]]
  /\ held' = [r \in Requests |-> IF r \in S THEN {} ELSE held[r]]
  /\ waited' = [r \in Requests |-> IF r \in S THEN 0 ELSE waited[r]]
  /\ failed' = [r \in Requests |-> IF r \in S THEN {} ELSE failed[r]]
  /\ refused' = [r \in Requests |-> IF r \in S THEN {} ELSE refused[r]]

\* The answer, which is Outcome(r), leaves.
Reply(r) ==
  /\ pc[r] = "reply" /\ Freed({r})
  /\ UNCHANGED <<cached, cacheVars>>

\* The process ends with whatever is in flight; the next one finds what is in Redis.
Exit ==
  /\ Freed(Requests)
  /\ UNCHANGED <<cached, cacheVars>>

-----------------------------------------------------------------------------
(* Time *)

Older(s) == [s EXCEPT !.age = @ + 1]

OneTickOn(e) == [e EXCEPT !.left = @ - 1, !.holds = Older(@)]

\* Redis drops what has expired.
Aged(entries) == {OneTickOn(e) : e \in {d \in entries : d.left > 1}}

Using(r) == pc[r] \in {"store", "mark", "reply"}

\* A request does not sit on a statement for longer than Patience: after it come one
\* call to Redis and the reply.
Tick ==
  /\ \A r \in Requests : Using(r) => waited[r] < Patience
  /\ reports' = Aged(reports) /\ unknown' = Aged(unknown)
  /\ held' = [r \in Requests |-> {Older(s) : s \in held[r]}]
  /\ waited' = [r \in Requests |-> IF Using(r) THEN waited[r] + 1 ELSE 0]
  /\ UNCHANGED <<cached, ask, pc, node, failed, refused>>

-----------------------------------------------------------------------------
Init ==
  /\ cached \in CacheSettings /\ reports = {} /\ unknown = {}
  /\ ask = [r \in Requests |-> NoAsk]
  /\ pc = [r \in Requests |-> "idle"]
  /\ node = [r \in Requests |-> 1]
  /\ held = [r \in Requests |-> {}] /\ waited = [r \in Requests |-> 0]
  /\ failed = [r \in Requests |-> {}] /\ refused = [r \in Requests |-> {}]

Step(r) == Lookup(r) \/ Consult(r) \/ Call(r) \/ Store(r) \/ Mark(r) \/ Reply(r)

Next ==
  \/ \E r \in Requests : Accept(r) \/ Step(r)
  \/ Exit \/ RedisLoses \/ Tick

Spec == Init /\ [][Next]_vars

-----------------------------------------------------------------------------
(* Properties *)

\* Every variable has its type, and a slot in use holds a request.
TypeOK ==
  /\ cached \in BOOLEAN
  /\ reports \subseteq Entry /\ unknown \subseteq Entry
  /\ ask \in [Requests -> Ask \cup {NoAsk}] /\ pc \in [Requests -> Steps]
  /\ node \in [Requests -> Providers]
  /\ held \in [Requests -> SUBSET Statement] /\ waited \in [Requests -> Nat]
  /\ failed \in [Requests -> SUBSET Providers] /\ refused \in [Requests -> SUBSET Providers]
  /\ \A r \in Requests : InFlight(r) => ask[r] \in Ask

SameCity(r, s) == s.city = City[ask[r].spelling]
Replies(r, kind) == pc[r] = "reply" /\ Outcome(r) = kind

\* A report that goes out is about the city asked for, under whatever spelling it was
\* fetched, and less than the provider's TTL and twice Patience old: once for the late
\* Set, which gives an old report its full TTL, and once for the reply.
ReportsAreRecent ==
  \A r \in Requests : Replies(r, "ok") =>
    \E s \in held[r] : SameCity(r, s) /\ s.age < ReportTTL[s.by] + 2 * Patience

\* A weather request ends with "not found" only on a refusal of that city by the last
\* provider itself, less than the not-found TTL and twice Patience old.
NotFoundIsFounded ==
  \A r \in Requests : Replies(r, "notFound") /\ ask[r].op = "GetWeather" =>
    \E s \in held[r] : /\ s.says = "notFound" /\ s.by = Depth /\ SameCity(r, s)
                       /\ s.age < NotFoundTTL + 2 * Patience

\* No request fails, with Redis down, closed or cold, before every provider has failed it.
NothingLeftToAsk ==
  \A r \in Requests : Replies(r, "notFound") \/ Replies(r, "failed") => failed[r] = Providers

\* The calls a request has ahead of it at most, the reply included: one read for each
\* provider's report, then a read, a call and a write for each provider.
Ahead(r) == CASE pc[r] = "idle"    -> 0
              [] pc[r] = "lookup"  -> 4 * Depth - node[r] + 2
              [] pc[r] = "consult" -> 3 * (Depth - node[r]) + 4
              [] pc[r] = "call"    -> 3 * (Depth - node[r]) + 3
              [] pc[r] \in {"store", "mark"} -> 3 * (Depth - node[r]) + 2
              [] pc[r] = "reply"   -> 1

\* No error, miss or refusal sends a request back: every call brings it closer to its
\* reply, none is made twice, and 4 * Depth + 1 are enough whatever Redis and the
\* providers do in between.
AlwaysForward ==
  [][\A r \in Requests :
        /\ pc[r] = "idle" => Ahead(r)' <= 4 * Depth + 1
        /\ pc[r] # "idle" => Ahead(r)' < Ahead(r) \/ UNCHANGED <<pc[r], node[r]>>]_vars
=============================================================================
