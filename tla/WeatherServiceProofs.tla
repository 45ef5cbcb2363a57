------------------------- MODULE WeatherServiceProofs -------------------------
(***************************************************************************)
(* Proofs about the weather service for any number of requests, cities,    *)
(* providers in the chain, and for all TTLs.                               *)
(***************************************************************************)
EXTENDS WeatherService, TLAPS

USE DEF cacheVars, chainVars

-----------------------------------------------------------------------------
(* The inductive invariant *)

\* A cache entry holds what its provider said of its city.  What has passed since then
\* and what is left of its time add up to no more than its TTL and one late Set.
EntryOK(e, says, ttl) ==
  /\ e.holds.by = e.by /\ e.holds.city = e.city /\ e.holds.says = says
  /\ e.left + e.holds.age <= ttl + Patience

CachesOK == /\ \A e \in reports : EntryOK(e, "ok", ReportTTL[e.by])
            /\ \A e \in unknown : EntryOK(e, "notFound", NotFoundTTL)

\* Just said, by the provider the request is at, of its city.
Fresh(r, says) == \A s \in held[r] : /\ s.by = node[r] /\ s.says = says /\ SameCity(r, s)
                                     /\ s.age = waited[r]

\* What a reply may say.
Sound(r, s) ==
  /\ SameCity(r, s)
  /\ s.says = "ok" => s.age < ReportTTL[s.by] + Patience + waited[r]
  /\ s.says = "notFound" => s.by = Depth /\ s.age < NotFoundTTL + Patience + waited[r]

\* Before the reply, exactly the nodes before the current one have failed the request.
ChainOK(r) ==
  /\ pc[r] \in {"idle", "lookup"} => failed[r] = {}
  /\ pc[r] \in {"consult", "call", "store", "mark"} => failed[r] = 1..(node[r] - 1)
  /\ pc[r] # "reply" => refused[r] \subseteq failed[r]
  /\ pc[r] = "idle" => node[r] = 1

HoldsOK(r) ==
  /\ waited[r] <= Patience
  /\ ~Using(r) => held[r] = {} /\ waited[r] = 0
  /\ pc[r] = "store" => held[r] # {} /\ Fresh(r, "ok")
  /\ pc[r] = "mark" => held[r] # {} /\ Fresh(r, "notFound")

ReplyOK(r) ==
  pc[r] = "reply" =>
    /\ \A s \in held[r] : Sound(r, s)
    /\ (\E s \in held[r] : s.says = "ok") \/ failed[r] = Providers
    /\ Depth \in refused[r] => held[r] # {}

RequestOK(r) == ChainOK(r) /\ HoldsOK(r) /\ ReplyOK(r)

Inv == TypeOK /\ CachesOK /\ \A r \in Requests : RequestOK(r)

-----------------------------------------------------------------------------
(* Lemmas *)

\* The invariant speaks of each request by itself.
LEMMA Untouched ==
  ASSUME NEW q \in Requests, RequestOK(q),
         ask'[q] = ask[q], pc'[q] = pc[q], node'[q] = node[q], held'[q] = held[q],
         waited'[q] = waited[q], failed'[q] = failed[q], refused'[q] = refused[q]
  PROVE  RequestOK(q)'
  BY DEF RequestOK, ChainOK, HoldsOK, ReplyOK, Fresh, Sound, SameCity, Using

\* A slot set free is as good as new.
LEMMA FreedOK ==
  ASSUME Inv, NEW S \in SUBSET Requests, Freed(S), UNCHANGED cached, CachesOK',
         reports' \subseteq Entry, unknown' \subseteq Entry
  PROVE  Inv'
<1>1. TypeOK'
  BY WeatherAssumption DEF Inv, TypeOK, Freed, Providers, Steps, InFlight
<1>2. ASSUME NEW q \in Requests PROVE RequestOK(q)'
  <2>1. CASE q \in S
    BY <2>1, WeatherAssumption
       DEF Freed, RequestOK, ChainOK, HoldsOK, ReplyOK, Using
  <2>2. CASE q \notin S
    BY <2>2, Untouched DEF Inv, Freed
  <2>3. QED
    BY <2>1, <2>2
<1>3. QED
  BY <1>1, <1>2 DEF Inv

\* What the last provider's refusal, if it is one, must be like when it is taken along.
RefusalOK(r, refusal, age) ==
  /\ refusal \subseteq Statement /\ age \in Nat /\ age <= Patience
  /\ \A s \in refusal : /\ s.by = node[r] /\ s.says = "notFound" /\ SameCity(r, s)
                        /\ s.age < NotFoundTTL + Patience + age

\* A provider's failure keeps the request in order.
LEMMA FallThroughOK ==
  ASSUME Inv, NEW r \in Requests, pc[r] \in {"consult", "call", "mark"},
         NEW refusal, NEW age, RefusalOK(r, refusal, age), FallThrough(r, refusal, age),
         UNCHANGED <<cached, ask>>, CachesOK', reports' \subseteq Entry, unknown' \subseteq Entry
  PROVE  Inv'
<1>. USE WeatherAssumption
<1>1. /\ node[r] \in Providers /\ failed[r] = 1..(node[r] - 1)
      /\ refused[r] \subseteq failed[r] /\ ask[r] \in Ask
  BY DEF Inv, TypeOK, RequestOK, ChainOK, InFlight
<1>2. {s.by : s \in refusal} \subseteq {node[r]}
  BY DEF RefusalOK
<1>3. CASE HasNext(node[r])
  <2>1. /\ node' = [node EXCEPT ![r] = node[r] + 1] /\ node[r] + 1 \in Providers
        /\ held' = [held EXCEPT ![r] = {}] /\ waited' = [waited EXCEPT ![r] = 0]
        /\ failed' = [failed EXCEPT ![r] = @ \cup {node[r]}]
        /\ refused' = [refused EXCEPT ![r] = @ \cup {s.by : s \in refusal}]
        /\ \/ pc' = [pc EXCEPT ![r] = "consult"]
           \/ pc' = [pc EXCEPT ![r] = "call"]
    BY <1>1, <1>3 DEF FallThrough, HasNext, At, Gets, Goto, Providers
  <2>2. TypeOK'
    BY <1>1, <1>2, <2>1 DEF Inv, TypeOK, Steps, InFlight
  <2>3. RequestOK(r)'
    <3>1. failed'[r] = 1..(node'[r] - 1)
      BY <1>1, <2>1 DEF Inv, TypeOK, Providers
    <3>2. refused'[r] \subseteq failed'[r]
      BY <1>1, <1>2, <2>1 DEF Inv, TypeOK
    <3>3. ChainOK(r)'
      BY <2>1, <3>1, <3>2 DEF Inv, TypeOK, ChainOK
    <3>4. HoldsOK(r)' /\ ReplyOK(r)'
      BY <2>1 DEF Inv, TypeOK, HoldsOK, ReplyOK, Using
    <3>5. QED
      BY <3>3, <3>4 DEF RequestOK
  <2>4. ASSUME NEW q \in Requests, q # r PROVE RequestOK(q)'
    BY <2>1, <2>4, Untouched DEF Inv, TypeOK
  <2>5. QED
    BY <2>2, <2>3, <2>4 DEF Inv
<1>4. CASE ~HasNext(node[r])
  <2>1. /\ node' = node /\ node[r] = Depth
        /\ held' = [held EXCEPT ![r] = refusal] /\ waited' = [waited EXCEPT ![r] = age]
        /\ failed' = [failed EXCEPT ![r] = @ \cup {node[r]}]
        /\ refused' = [refused EXCEPT ![r] = @ \cup {s.by : s \in refusal}]
        /\ pc' = [pc EXCEPT ![r] = "reply"]
    BY <1>1, <1>4 DEF FallThrough, HasNext, Gets, Goto, Providers
  <2>2. TypeOK'
    BY <1>1, <1>2, <2>1 DEF Inv, TypeOK, Steps, InFlight, RefusalOK
  <2>3. RequestOK(r)'
    <3>1. ChainOK(r)'
      BY <2>1 DEF Inv, TypeOK, ChainOK
    <3>2. HoldsOK(r)'
      BY <2>1 DEF Inv, TypeOK, HoldsOK, Using, RefusalOK
    <3>3. \A s \in held'[r] : Sound(r, s)'
      BY <2>1 DEF Inv, TypeOK, Sound, RefusalOK, SameCity
    <3>4. failed'[r] = Providers
      BY <1>1, <2>1 DEF Inv, TypeOK, Providers
    <3>5. Depth \in refused'[r] => held'[r] # {}
      <4>1. Depth \notin refused[r]
        BY <1>1, <2>1 DEF Providers
      <4>2. QED
        BY <2>1, <4>1 DEF Inv, TypeOK
    <3>6. QED
      BY <2>1, <3>1, <3>2, <3>3, <3>4, <3>5 DEF RequestOK, ReplyOK
  <2>4. ASSUME NEW q \in Requests, q # r PROVE RequestOK(q)'
    BY <2>1, <2>4, Untouched DEF Inv, TypeOK
  <2>5. QED
    BY <2>2, <2>3, <2>4 DEF Inv
<1>5. QED
  BY <1>3, <1>4

-----------------------------------------------------------------------------
(* Steps *)

\* A request begins, looks for a report in the cache, and for a refusal.
LEMMA CacheReadsOK ==
  ASSUME Inv, NEW r \in Requests, Accept(r) \/ Lookup(r) \/ Consult(r)
  PROVE  Inv'
<1>. USE WeatherAssumption
<1>1. CASE Accept(r)
  <2>1. TypeOK'
    BY <1>1 DEF Accept, Goto, Inv, TypeOK, Steps, InFlight
  <2>2. CachesOK'
    BY <1>1 DEF Accept, Inv, CachesOK
  <2>3. RequestOK(r)'
    <3>1. pc[r] = "idle" /\ pc'[r] \in {"lookup", "call"}
      BY <1>1 DEF Accept, Goto, Inv, TypeOK
    <3>2. node[r] = 1 /\ failed[r] = 1..(node[r] - 1) /\ refused[r] \subseteq failed[r]
      <4>1. node[r] = 1 /\ failed[r] = {} /\ refused[r] \subseteq failed[r]
        BY <3>1 DEF Inv, TypeOK, RequestOK, ChainOK
      <4>2. 1..(1 - 1) = {}
        OBVIOUS
      <4>3. QED
        BY <4>1, <4>2
    <3>3. ChainOK(r)'
      BY <1>1, <3>1, <3>2 DEF Accept, Inv, RequestOK, ChainOK
    <3>4. HoldsOK(r)' /\ ReplyOK(r)'
      BY <1>1, <3>1 DEF Accept, Inv, RequestOK, HoldsOK, ReplyOK, Using
    <3>5. QED
      BY <3>3, <3>4 DEF RequestOK
  <2>4. ASSUME NEW q \in Requests, q # r PROVE RequestOK(q)'
    BY <1>1, <2>4, Untouched DEF Accept, Goto, Inv, TypeOK
  <2>5. QED
    BY <2>1, <2>2, <2>3, <2>4 DEF Inv
<1>2. CASE Lookup(r)
  <2>1. pc[r] = "lookup" /\ ask[r] \in Ask /\ UNCHANGED <<cached, cacheVars, ask, failed, refused>>
    BY <1>2 DEF Lookup, Inv, TypeOK, InFlight
  <2>2. CachesOK'
    BY <2>1 DEF Inv, CachesOK
  <2>3. ASSUME NEW e \in reports, Key(e, node[r], ask[r].spelling),
               Gets(r, {e.holds}, 0), Goto(r, "reply"), UNCHANGED node
        PROVE  Inv'
    <3>1. TypeOK'
      BY <2>1, <2>3 DEF Gets, Goto, Inv, TypeOK, Steps, InFlight, Entry
    <3>2. EntryOK(e, "ok", ReportTTL[e.by]) /\ e \in Entry
      BY DEF Inv, CachesOK, TypeOK
    <3>3. Sound(r, e.holds)'
      BY <2>1, <2>3, <3>2
         DEF Sound, EntryOK, SameCity, Gets, Key, Entry, Statement, Inv, TypeOK
    <3>4. /\ pc'[r] = "reply" /\ held'[r] = {e.holds} /\ waited'[r] = 0 /\ e.holds.says = "ok"
      BY <2>3, <3>2 DEF Gets, Goto, Inv, TypeOK, EntryOK
    <3>5. RequestOK(r)'
      BY <3>3, <3>4 DEF RequestOK, ChainOK, HoldsOK, ReplyOK, Using
    <3>6. ASSUME NEW q \in Requests, q # r PROVE RequestOK(q)'
      BY <2>1, <2>3, <3>6, Untouched DEF Gets, Goto, Inv, TypeOK
    <3>7. QED
      BY <2>2, <3>1, <3>5, <3>6 DEF Inv
  <2>4. ASSUME \/ node[r] < Depth /\ At(r, node[r] + 1) /\ UNCHANGED pc
               \/ At(r, 1) /\ Goto(r, "consult"),
               UNCHANGED <<held, waited>>
        PROVE  Inv'
    <3>1. \/ node' = [node EXCEPT ![r] = node[r] + 1] /\ node[r] + 1 \in Providers /\ pc' = pc
          \/ node' = [node EXCEPT ![r] = 1] /\ 1 \in Providers
             /\ pc' = [pc EXCEPT ![r] = "consult"]
      BY <2>4 DEF At, Goto, Inv, TypeOK, Providers
    <3>2. TypeOK'
      BY <2>1, <2>4, <3>1 DEF Inv, TypeOK, Steps, InFlight
    <3>3. ChainOK(r)'
      <4>1. failed[r] = {} /\ refused[r] = {}
        BY <2>1 DEF Inv, TypeOK, RequestOK, ChainOK
      <4>2. \/ pc'[r] = "lookup"
            \/ pc'[r] = "consult" /\ node'[r] = 1
        BY <2>1, <3>1 DEF Inv, TypeOK
      <4>3. 1..(1 - 1) = {}
        OBVIOUS
      <4>4. QED
        BY <2>1, <4>1, <4>2, <4>3 DEF ChainOK
    <3>4. HoldsOK(r)' /\ ReplyOK(r)'
      BY <2>1, <2>4, <3>1 DEF Inv, TypeOK, RequestOK, HoldsOK, ReplyOK, Using
    <3>5. ASSUME NEW q \in Requests, q # r PROVE RequestOK(q)'
      BY <2>1, <2>4, <3>1, <3>5, Untouched DEF Inv, TypeOK
    <3>6. QED
      BY <2>2, <3>2, <3>3, <3>4, <3>5 DEF Inv, RequestOK
  <2>5. QED
    BY <1>2, <2>3, <2>4 DEF Lookup, AfterLookupError
<1>3. CASE Consult(r)
  <2>1. /\ pc[r] = "consult" /\ ask[r] \in Ask /\ UNCHANGED <<cached, cacheVars, ask>>
        /\ waited[r] = 0
    BY <1>3 DEF Consult, Inv, TypeOK, InFlight, RequestOK, HoldsOK, Using
  <2>2. CachesOK' /\ reports' \subseteq Entry /\ unknown' \subseteq Entry
    BY <2>1 DEF Inv, CachesOK, TypeOK
  <2>3. ASSUME NEW e \in GetCityNotFound(r), FallThrough(r, {e.holds}, 0)
        PROVE  Inv'
    <3>1. EntryOK(e, "notFound", NotFoundTTL) /\ e \in Entry
      BY DEF GetCityNotFound, Inv, CachesOK, TypeOK
    <3>2. RefusalOK(r, {e.holds}, 0)
      BY <2>1, <3>1
         DEF GetCityNotFound, RefusalOK, EntryOK, SameCity, NotFoundKey, Key, Entry, Statement
    <3>3. QED
      BY <2>1, <2>2, <2>3, <3>2, FallThroughOK
  <2>4. ASSUME Goto(r, "call"), UNCHANGED chainVars PROVE Inv'
    <3>1. TypeOK'
      BY <2>1, <2>4 DEF Goto, Inv, TypeOK, Steps, InFlight
    <3>2. RequestOK(r)'
      BY <2>1, <2>4
         DEF Goto, Inv, TypeOK, RequestOK, ChainOK, HoldsOK, ReplyOK, Using
    <3>3. ASSUME NEW q \in Requests, q # r PROVE RequestOK(q)'
      BY <2>1, <2>4, <3>3, Untouched DEF Goto, Inv, TypeOK
    <3>4. QED
      BY <2>2, <3>1, <3>2, <3>3 DEF Inv
  <2>5. QED
    BY <1>3, <2>3, <2>4 DEF Consult
<1>4. QED
  BY <1>1, <1>2, <1>3

\* A provider answers.
LEMMA CallOK ==
  ASSUME Inv, NEW r \in Requests, Call(r)
  PROVE  Inv'
<1>. USE WeatherAssumption
<1>1. /\ pc[r] = "call" /\ ask[r] \in Ask /\ UNCHANGED <<cached, cacheVars, ask>>
      /\ waited[r] = 0 /\ held[r] = {} /\ node[r] \in Providers
  BY DEF Call, Inv, TypeOK, InFlight, RequestOK, HoldsOK, Using
<1>2. CachesOK' /\ reports' \subseteq Entry /\ unknown' \subseteq Entry
  BY <1>1 DEF Inv, CachesOK, TypeOK
<1>3. PICK says \in {"ok", "notFound", "error"} :
        LET said == [by |-> node[r], says |-> says, city |-> City[ask[r].spelling], age |-> 0]
        IN  \/ /\ says = "ok" /\ Gets(r, {said}, 0)
               /\ Goto(r, IF ThroughCache(ask[r]) THEN "store" ELSE "reply")
               /\ UNCHANGED <<node, failed, refused>>
            \/ /\ says = "notFound" /\ Gets(r, {said}, 0) /\ Goto(r, "mark")
               /\ UNCHANGED <<node, failed, refused>>
            \/ says = "notFound" /\ FallThrough(r, {said}, 0)
            \/ FallThrough(r, {}, 0)
  BY DEF Call
<1>. DEFINE said == [by |-> node[r], says |-> says, city |-> City[ask[r].spelling], age |-> 0]
<1>4. said.by = node[r] /\ said.says = says /\ said.age = 0 /\ SameCity(r, said)
  BY DEF SameCity
<1>5. says # "error" => said \in Statement
  BY <1>1 DEF Statement, Cities, Ask
<1>. HIDE DEF said
<1>6. ASSUME says \in {"ok", "notFound"}, Gets(r, {said}, 0), UNCHANGED <<node, failed, refused>>,
             \/ Goto(r, "store") /\ says = "ok"
             \/ Goto(r, "reply") /\ says = "ok"
             \/ Goto(r, "mark") /\ says = "notFound"
      PROVE  Inv'
  <2>1. /\ held' = [held EXCEPT ![r] = {said}] /\ waited' = [waited EXCEPT ![r] = 0]
        /\ \/ pc' = [pc EXCEPT ![r] = "store"] /\ says = "ok"
           \/ pc' = [pc EXCEPT ![r] = "reply"] /\ says = "ok"
           \/ pc' = [pc EXCEPT ![r] = "mark"] /\ says = "notFound"
    BY <1>6 DEF Gets, Goto
  <2>2. TypeOK'
    BY <1>1, <1>5, <1>6, <2>1 DEF Inv, TypeOK, Steps, InFlight
  <2>3. ChainOK(r)'
    BY <1>1, <1>6, <2>1 DEF Inv, TypeOK, RequestOK, ChainOK
  <2>4. HoldsOK(r)'
    BY <1>1, <1>4, <1>6, <2>1 DEF Inv, TypeOK, HoldsOK, Using, Fresh, SameCity
  <2>5. ReplyOK(r)'
    BY <1>1, <1>4, <1>6, <2>1 DEF Inv, TypeOK, ReplyOK, Sound, SameCity
  <2>6. ASSUME NEW q \in Requests, q # r PROVE RequestOK(q)'
    BY <1>1, <1>6, <2>1, <2>6, Untouched DEF Inv, TypeOK
  <2>7. QED
    BY <1>2, <2>2, <2>3, <2>4, <2>5, <2>6 DEF Inv, RequestOK
<1>7. ASSUME FallThrough(r, {said}, 0), says = "notFound" PROVE Inv'
  <2>1. RefusalOK(r, {said}, 0)
    BY <1>4, <1>5, <1>7 DEF RefusalOK
  <2>2. QED
    BY <1>1, <1>2, <1>7, <2>1, FallThroughOK
<1>8. ASSUME FallThrough(r, {}, 0) PROVE Inv'
  <2>1. RefusalOK(r, {}, 0)
    BY DEF RefusalOK
  <2>2. QED
    BY <1>1, <1>2, <1>8, <2>1, FallThroughOK
<1>9. QED
  BY <1>3, <1>6, <1>7, <1>8 DEF said

\* What is written to a cache keeps the caches in order.
LEMMA WrittenOK ==
  ASSUME NEW entries \in SUBSET Entry, NEW p \in Providers, NEW spelling \in Spellings,
         NEW s \in Statement, NEW ttl \in Nat \ {0}, NEW says,
         \A e \in entries : EntryOK(e, says, ttl) \/ e.by # p,
         s.by = p, s.city = City[spelling], s.says = says, s.age <= Patience
  PROVE  /\ Written(entries, p, spelling, s, ttl) \subseteq Entry
         /\ \A e \in Written(entries, p, spelling, s, ttl) :
              e \in entries \/ (e.by = p /\ EntryOK(e, says, ttl))
<1>. DEFINE new == [by |-> p, city |-> City[spelling], holds |-> s, left |-> ttl]
<1>1. new \in Entry /\ EntryOK(new, says, ttl) /\ new.by = p
  BY WeatherAssumption DEF Entry, EntryOK, Statement, Cities
<1>2. Written(entries, p, spelling, s, ttl) \subseteq entries \cup {new}
  BY DEF Written
<1>. HIDE DEF new
<1>3. QED
  BY <1>1, <1>2

\* A report is stored.
LEMMA StoreOK ==
  ASSUME Inv, NEW r \in Requests, Store(r)
  PROVE  Inv'
<1>. USE WeatherAssumption
<1>1. /\ pc[r] = "store" /\ ask[r] \in Ask /\ UNCHANGED <<cached, unknown, ask, chainVars>>
      /\ pc' = [pc EXCEPT ![r] = "reply"] /\ node[r] \in Providers
      /\ held[r] \subseteq Statement /\ held[r] # {} /\ Fresh(r, "ok") /\ waited[r] <= Patience
  BY DEF Store, Goto, Inv, TypeOK, InFlight, RequestOK, HoldsOK, Using
<1>2. reports' \subseteq Entry /\ \A e \in reports' : EntryOK(e, "ok", ReportTTL[e.by])
  <2>1. CASE UNCHANGED reports
    BY <2>1 DEF Inv, TypeOK, CachesOK
  <2>2. ASSUME NEW s \in held[r],
               reports' = Written(reports, node[r], ask[r].spelling, s, ReportTTL[node[r]])
        PROVE  reports' \subseteq Entry /\ \A e \in reports' : EntryOK(e, "ok", ReportTTL[e.by])
    <3>1. /\ s \in Statement /\ s.by = node[r] /\ s.city = City[ask[r].spelling]
          /\ s.says = "ok" /\ s.age <= Patience /\ ask[r].spelling \in Spellings
      BY <1>1, <2>2 DEF Fresh, SameCity, Ask
    <3>2. /\ reports \in SUBSET Entry /\ ReportTTL[node[r]] \in Nat \ {0}
          /\ \A e \in reports : EntryOK(e, "ok", ReportTTL[node[r]]) \/ e.by # node[r]
      BY <1>1 DEF Inv, TypeOK, CachesOK
    <3>3. /\ reports' \subseteq Entry
          /\ \A e \in reports' : \/ e \in reports
                                 \/ e.by = node[r] /\ EntryOK(e, "ok", ReportTTL[node[r]])
      BY <1>1, <2>2, <3>1, <3>2, WrittenOK
    <3>4. QED
      BY <3>3 DEF Inv, CachesOK
  <2>3. QED
    BY <2>1, <2>2 DEF Store, TTL
<1>3. TypeOK' /\ CachesOK'
  BY <1>1, <1>2 DEF Inv, TypeOK, CachesOK, Steps, InFlight
<1>4. RequestOK(r)'
  <2>1. \A s \in held[r] : /\ s.says = "ok" /\ SameCity(r, s)
                           /\ s.age < ReportTTL[s.by] + Patience + waited[r]
    BY <1>1 DEF Fresh, Inv, TypeOK, Statement
  <2>2. ChainOK(r)' /\ HoldsOK(r)'
    BY <1>1 DEF Inv, TypeOK, RequestOK, ChainOK, HoldsOK, Using
  <2>3. ReplyOK(r)'
    BY <1>1, <2>1 DEF ReplyOK, Sound, SameCity
  <2>4. QED
    BY <2>2, <2>3 DEF RequestOK
<1>5. ASSUME NEW q \in Requests, q # r PROVE RequestOK(q)'
  BY <1>1, <1>5, Untouched DEF Inv, TypeOK
<1>6. QED
  BY <1>3, <1>4, <1>5 DEF Inv

\* A refusal is stored, or not, and the chain goes on.
LEMMA MarkOK ==
  ASSUME Inv, NEW r \in Requests, Mark(r)
  PROVE  Inv'
<1>. USE WeatherAssumption
<1>1. /\ pc[r] = "mark" /\ ask[r] \in Ask /\ UNCHANGED <<cached, reports, ask>>
      /\ node[r] \in Providers /\ FallThrough(r, held[r], waited[r])
      /\ held[r] \subseteq Statement /\ Fresh(r, "notFound")
      /\ waited[r] \in Nat /\ waited[r] <= Patience
  BY DEF Mark, Inv, TypeOK, InFlight, RequestOK, HoldsOK, Using
<1>2. unknown' \subseteq Entry /\ \A e \in unknown' : EntryOK(e, "notFound", NotFoundTTL)
  <2>1. CASE UNCHANGED unknown
    BY <2>1 DEF Inv, TypeOK, CachesOK
  <2>2. ASSUME NEW s \in held[r], SetCityNotFound(r, s)
        PROVE  unknown' \subseteq Entry /\ \A e \in unknown' : EntryOK(e, "notFound", NotFoundTTL)
    <3>1. /\ s \in Statement /\ s.by = node[r] /\ s.city = City[ask[r].spelling]
          /\ s.says = "notFound" /\ s.age <= Patience /\ ask[r].spelling \in Spellings
      BY <1>1, <2>2 DEF Fresh, SameCity, Ask
    <3>2. /\ unknown \in SUBSET Entry
          /\ \A e \in unknown : EntryOK(e, "notFound", NotFoundTTL) \/ e.by # node[r]
      BY DEF Inv, TypeOK, CachesOK
    <3>3. /\ unknown' \subseteq Entry
          /\ \A e \in unknown' : e \in unknown \/ EntryOK(e, "notFound", NotFoundTTL)
      BY <1>1, <2>2, <3>1, <3>2, WrittenOK DEF SetCityNotFound
    <3>4. QED
      BY <3>3 DEF Inv, CachesOK
  <2>3. QED
    BY <2>1, <2>2 DEF Mark
<1>3. CachesOK' /\ reports' \subseteq Entry
  BY <1>1, <1>2 DEF Inv, TypeOK, CachesOK
<1>4. RefusalOK(r, held[r], waited[r])
  BY <1>1 DEF RefusalOK, Fresh, Statement
<1>5. QED
  BY <1>1, <1>2, <1>3, <1>4, FallThroughOK

\* A reply, the end of the process and a lost key.
LEMMA LossesOK ==
  ASSUME Inv, (\E r \in Requests : Reply(r)) \/ Exit \/ RedisLoses
  PROVE  Inv'
<1>1. ASSUME NEW r \in Requests, Reply(r) PROVE Inv'
  <2>1. /\ Freed({r}) /\ UNCHANGED cached
        /\ CachesOK' /\ reports' \subseteq Entry /\ unknown' \subseteq Entry
    BY <1>1 DEF Reply, Inv, TypeOK, CachesOK
  <2>2. QED
    BY <2>1, FreedOK
<1>2. ASSUME Exit PROVE Inv'
  <2>1. /\ Freed(Requests) /\ UNCHANGED cached
        /\ CachesOK' /\ reports' \subseteq Entry /\ unknown' \subseteq Entry
    BY <1>2 DEF Exit, Inv, TypeOK, CachesOK
  <2>2. QED
    BY <2>1, FreedOK
<1>3. ASSUME RedisLoses PROVE Inv'
  <2>1. /\ UNCHANGED <<cached, ask, pc, chainVars>>
        /\ reports' \subseteq reports /\ unknown' \subseteq unknown
    BY <1>3 DEF RedisLoses
  <2>2. TypeOK' /\ CachesOK'
    BY <2>1 DEF Inv, TypeOK, CachesOK, InFlight
  <2>3. ASSUME NEW q \in Requests PROVE RequestOK(q)'
    BY <2>1, Untouched DEF Inv
  <2>4. QED
    BY <2>2, <2>3 DEF Inv
<1>4. QED
  BY <1>1, <1>2, <1>3

\* Entries that have aged.
LEMMA AgedOK ==
  ASSUME NEW entries \in SUBSET Entry
  PROVE  /\ Aged(entries) \subseteq Entry
         /\ \A e \in Aged(entries) : \E d \in entries :
              /\ e.by = d.by /\ e.city = d.city
              /\ e.holds.by = d.holds.by /\ e.holds.says = d.holds.says
              /\ e.holds.city = d.holds.city
              /\ e.left + e.holds.age = d.left + d.holds.age
<1>1. ASSUME NEW d \in entries, d.left > 1, NEW e,
             e = OneTickOn(d)
      PROVE  /\ e \in Entry
             /\ e.by = d.by /\ e.city = d.city
             /\ e.holds.by = d.holds.by /\ e.holds.says = d.holds.says
             /\ e.holds.city = d.holds.city
             /\ e.left + e.holds.age = d.left + d.holds.age
  <2>1. /\ d \in Entry /\ d.holds \in Statement /\ d.left \in Nat \ {0}
        /\ d.by \in Providers /\ d.city \in Cities
    BY DEF Entry
  <2>2. /\ Older(d.holds) \in Statement /\ Older(d.holds).age = d.holds.age + 1
        /\ Older(d.holds).by = d.holds.by /\ Older(d.holds).says = d.holds.says
        /\ Older(d.holds).city = d.holds.city
    BY <2>1 DEF Older, Statement
  <2>3. e = [by |-> d.by, city |-> d.city, holds |-> Older(d.holds), left |-> d.left - 1]
    BY <1>1, <2>1 DEF Entry, OneTickOn
  <2>4. d.left - 1 \in Nat \ {0}
    BY <1>1, <2>1
  <2>5. e \in Entry
    BY <2>1, <2>2, <2>3, <2>4 DEF Entry
  <2>6. e.left + e.holds.age = d.left + d.holds.age
    <3>1. e.left = d.left - 1 /\ e.holds.age = d.holds.age + 1 /\ d.holds.age \in Nat
      BY <2>1, <2>2, <2>3 DEF Statement
    <3>2. QED
      BY <2>1, <3>1
  <2>7. QED
    BY <2>2, <2>3, <2>5, <2>6
<1>2. ASSUME NEW e \in Aged(entries)
      PROVE  \E d \in entries : d.left > 1 /\ e = OneTickOn(d)
  BY <1>2 DEF Aged
<1>3. ASSUME NEW e \in Aged(entries)
      PROVE  /\ e \in Entry
             /\ \E d \in entries :
                  /\ e.by = d.by /\ e.city = d.city
                  /\ e.holds.by = d.holds.by /\ e.holds.says = d.holds.says
                  /\ e.holds.city = d.holds.city
                  /\ e.left + e.holds.age = d.left + d.holds.age
  <2>1. PICK d \in entries : d.left > 1 /\ e = OneTickOn(d)
    BY <1>2
  <2>2. QED
    BY <1>1, <2>1
<1>4. QED
  BY <1>3

\* Time passes.
LEMMA TickOK ==
  ASSUME Inv, Tick
  PROVE  Inv'
<1>. USE WeatherAssumption
<1>1. /\ UNCHANGED <<cached, ask, pc, node, failed, refused>>
      /\ reports' = Aged(reports) /\ unknown' = Aged(unknown)
      /\ held' = [r \in Requests |-> {Older(s) : s \in held[r]}]
      /\ waited' = [r \in Requests |-> IF Using(r) THEN waited[r] + 1 ELSE 0]
  BY DEF Tick
<1>2. reports' \subseteq Entry /\ unknown' \subseteq Entry
  BY <1>1, AgedOK DEF Inv, TypeOK
<1>3. CachesOK'
  <2>1. ASSUME NEW e \in reports' PROVE EntryOK(e, "ok", ReportTTL[e.by])
    BY <1>1, AgedOK DEF Inv, TypeOK, CachesOK, EntryOK
  <2>2. ASSUME NEW e \in unknown' PROVE EntryOK(e, "notFound", NotFoundTTL)
    BY <1>1, AgedOK DEF Inv, TypeOK, CachesOK, EntryOK
  <2>3. QED
    BY <2>1, <2>2 DEF CachesOK
<1>4. ASSUME NEW s \in Statement
      PROVE  /\ Older(s) \in Statement /\ Older(s).by = s.by /\ Older(s).says = s.says
             /\ Older(s).city = s.city /\ Older(s).age = s.age + 1
  BY DEF Older, Statement
<1>5. TypeOK'
  <2>1. held' \in [Requests -> SUBSET Statement]
    BY <1>1, <1>4 DEF Inv, TypeOK
  <2>2. waited' \in [Requests -> Nat]
    BY <1>1 DEF Inv, TypeOK
  <2>3. QED
    BY <1>1, <1>2, <2>1, <2>2 DEF Inv, TypeOK, InFlight
<1>6. ASSUME NEW r \in Requests PROVE RequestOK(r)'
  <2>1. /\ RequestOK(r) /\ held[r] \in SUBSET Statement /\ waited[r] \in Nat
        /\ Using(r) => waited[r] < Patience
    BY DEF Inv, TypeOK, Tick
  <2>2. CASE ~Using(r)
    <3>1. held'[r] = {} /\ waited'[r] = 0
      BY <1>1, <2>1, <2>2 DEF RequestOK, HoldsOK
    <3>2. QED
      BY <1>1, <2>1, <2>2, <3>1 DEF RequestOK, ChainOK, HoldsOK, ReplyOK, Using
  <2>3. CASE Using(r)
    <3>1. /\ waited'[r] = waited[r] + 1 /\ held'[r] = {Older(s) : s \in held[r]}
          /\ pc'[r] = pc[r]
      BY <1>1, <2>3
    <3>2. ChainOK(r)'
      BY <1>1, <2>1 DEF RequestOK, ChainOK
    <3>3. (held[r] # {} => held'[r] # {}) /\ \A t \in held'[r] : \E s \in held[r] : t = Older(s)
      BY <3>1
    <3>4. HoldsOK(r)'
      <4>1. ASSUME NEW says, Fresh(r, says) PROVE Fresh(r, says)'
        BY <1>1, <1>4, <2>1, <3>1, <3>3, <4>1 DEF Fresh, SameCity
      <4>2. waited'[r] <= Patience
        BY <2>1, <2>3, <3>1
      <4>3. QED
        BY <2>1, <2>3, <3>1, <3>3, <4>1, <4>2 DEF RequestOK, HoldsOK, Using
    <3>5. ReplyOK(r)'
      <4>1. ASSUME NEW s \in held[r], Sound(r, s) PROVE Sound(r, Older(s))'
        <5>1. /\ s \in Statement /\ s.age \in Nat /\ s.by \in Providers
              /\ Older(s).by = s.by /\ Older(s).says = s.says
              /\ Older(s).city = s.city /\ Older(s).age = s.age + 1
          BY <1>4, <2>1 DEF Statement
        <5>2. ReportTTL[s.by] \in Nat
          BY <5>1
        <5>3. QED
          BY <1>1, <2>1, <3>1, <4>1, <5>1, <5>2 DEF Sound, SameCity
      <4>2. (\E s \in held[r] : s.says = "ok") => \E t \in held'[r] : t.says = "ok"
        BY <1>4, <2>1, <3>1
      <4>3. QED
        BY <1>1, <2>1, <3>1, <3>3, <4>1, <4>2 DEF RequestOK, ReplyOK
    <3>6. QED
      BY <3>2, <3>4, <3>5 DEF RequestOK
  <2>4. QED
    BY <2>2, <2>3
<1>7. QED
  BY <1>3, <1>5, <1>6 DEF Inv

-----------------------------------------------------------------------------
(* Theorems *)

\* The invariant holds at the start.
LEMMA InitOK == Init => Inv
<1>1. CacheSettings \subseteq BOOLEAN
  BY DEF CacheSettings
<1>2. QED
  BY <1>1, WeatherAssumption
     DEF Init, Inv, TypeOK, CachesOK, RequestOK, ChainOK, HoldsOK, ReplyOK, Using,
         InFlight, Steps, Providers

\* Every step keeps it.
LEMMA NextOK == Inv /\ [Next]_vars => Inv'
<1>. SUFFICES ASSUME Inv, [Next]_vars PROVE Inv'
  OBVIOUS
<1>1. CASE UNCHANGED vars
  <2>1. TypeOK' /\ CachesOK'
    BY <1>1 DEF vars, Inv, TypeOK, CachesOK, InFlight
  <2>2. ASSUME NEW q \in Requests PROVE RequestOK(q)'
    BY <1>1, Untouched DEF vars, Inv
  <2>3. QED
    BY <2>1, <2>2 DEF Inv
<1>2. ASSUME NEW r \in Requests, Accept(r) \/ Step(r) PROVE Inv'
  BY <1>2, CacheReadsOK, CallOK, StoreOK, MarkOK, LossesOK DEF Step
<1>3. CASE Exit \/ RedisLoses
  BY <1>3, LossesOK
<1>4. CASE Tick
  BY <1>4, TickOK
<1>5. QED
  BY <1>1, <1>2, <1>3, <1>4 DEF Next

\* The invariant always holds.
THEOREM WeatherInvariant == Spec => []Inv
  BY InitOK, NextOK, PTL DEF Spec

\* Variables keep their types, and a slot in use holds a request.
THEOREM WeatherTypes == Spec => []TypeOK
<1>1. Inv => TypeOK
  BY DEF Inv
<1>2. QED
  BY <1>1, WeatherInvariant, PTL

\* No weather report goes out for another city, or later than its TTL and two waits
\* after its provider made it, whichever requests overlapped when it was stored.
THEOREM ReportsStayRecent == Spec => []ReportsAreRecent
<1>1. Inv => ReportsAreRecent
  <2>. SUFFICES ASSUME Inv, NEW r \in Requests, Replies(r, "ok")
                PROVE  \E s \in held[r] : /\ SameCity(r, s)
                                          /\ s.age < ReportTTL[s.by] + 2 * Patience
    BY DEF ReportsAreRecent
  <2>1. PICK s \in held[r] : s.says = "ok"
    BY DEF Replies, Outcome
  <2>2. /\ Sound(r, s) /\ s \in Statement /\ waited[r] \in Nat /\ waited[r] <= Patience
    BY <2>1 DEF Inv, TypeOK, RequestOK, HoldsOK, ReplyOK, Replies
  <2>3. s.age \in Nat /\ ReportTTL[s.by] \in Nat /\ Patience \in Nat
    BY <2>2, WeatherAssumption DEF Statement
  <2>4. QED
    BY <2>1, <2>2, <2>3 DEF Sound
<1>2. QED
  BY <1>1, WeatherInvariant, PTL

\* "City not found" goes out only on the last provider's own, recent refusal of it.
THEOREM NotFoundStaysFounded == Spec => []NotFoundIsFounded
<1>1. Inv => NotFoundIsFounded
  <2>. SUFFICES ASSUME Inv, NEW r \in Requests, Replies(r, "notFound"), ask[r].op = "GetWeather"
                PROVE  \E s \in held[r] :
                         /\ s.says = "notFound" /\ s.by = Depth /\ SameCity(r, s)
                         /\ s.age < NotFoundTTL + 2 * Patience
    BY DEF NotFoundIsFounded
  <2>1. Depth \in refused[r] /\ \A s \in held[r] : s.says # "ok"
    BY DEF Replies, Outcome, Refused
  <2>2. PICK s \in held[r] : TRUE
    BY <2>1 DEF Inv, RequestOK, ReplyOK, Replies
  <2>3. /\ Sound(r, s) /\ s \in Statement /\ waited[r] \in Nat /\ waited[r] <= Patience
    BY <2>2 DEF Inv, TypeOK, RequestOK, HoldsOK, ReplyOK, Replies
  <2>4. s.says = "notFound" /\ s.age \in Nat /\ NotFoundTTL \in Nat /\ Patience \in Nat
    BY <2>1, <2>3, WeatherAssumption DEF Statement
  <2>5. QED
    BY <2>2, <2>3, <2>4 DEF Sound
<1>2. QED
  BY <1>1, WeatherInvariant, PTL

\* A request fails only when every provider of the chain has failed it.
THEOREM ChainIsExhausted == Spec => []NothingLeftToAsk
<1>1. Inv => NothingLeftToAsk
  <2>. SUFFICES ASSUME Inv, NEW r \in Requests, Replies(r, "notFound") \/ Replies(r, "failed")
                PROVE  failed[r] = Providers
    BY DEF NothingLeftToAsk
  <2>1. pc[r] = "reply" /\ \A s \in held[r] : s.says # "ok"
    BY DEF Replies, Outcome
  <2>2. QED
    BY <2>1 DEF Inv, RequestOK, ReplyOK
<1>2. QED
  BY <1>1, WeatherInvariant, PTL

-----------------------------------------------------------------------------
(* The way to the reply *)

\* A provider's failure leads to the next one or to the reply.
LEMMA FallThroughForward ==
  ASSUME Inv, NEW r \in Requests, pc[r] \in {"consult", "call", "mark"},
         NEW refusal, NEW age, FallThrough(r, refusal, age)
  PROVE  Ahead(r)' < Ahead(r)
<1>. USE WeatherAssumption
<1>1. node[r] \in 1..Depth
  BY DEF Inv, TypeOK, Providers
<1>2. CASE HasNext(node[r])
  <2>1. node'[r] = node[r] + 1 /\ pc'[r] \in {"consult", "call"}
    BY <1>2 DEF FallThrough, At, Goto, Inv, TypeOK
  <2>2. node[r] < Depth
    BY <1>2 DEF HasNext
  <2>. QED  BY <1>1, <2>1, <2>2 DEF Ahead
<1>3. CASE ~HasNext(node[r])
  <2>1. pc'[r] = "reply"
    BY <1>3 DEF FallThrough, Goto, Inv, TypeOK
  <2>. QED  BY <1>1, <2>1 DEF Ahead
<1>. QED  BY <1>2, <1>3

\* Whatever Redis and the providers answer, a request's own step moves it on.
LEMMA StepForward ==
  ASSUME Inv, NEW r \in Requests, Step(r)
  PROVE  Ahead(r)' < Ahead(r)
<1>. USE WeatherAssumption DEF Goto, At, Gets
<1>1. node[r] \in 1..Depth
  BY DEF Inv, TypeOK, Providers
<1>2. CASE Lookup(r)
  <2>1. CASE pc'[r] = "reply"
    BY <1>1, <1>2, <2>1 DEF Lookup, Ahead
  <2>2. CASE pc'[r] = "consult"
    <3>1. node'[r] = 1
      BY <1>2, <2>2 DEF Lookup, AfterLookupError, Inv, TypeOK
    <3>. QED  BY <1>1, <1>2, <2>2, <3>1 DEF Lookup, Ahead
  <2>3. CASE pc'[r] \notin {"reply", "consult"}
    <3>1. pc'[r] = "lookup" /\ node'[r] = node[r] + 1 /\ node[r] < Depth
      BY <1>1, <1>2, <2>3 DEF Lookup, AfterLookupError, Inv, TypeOK, Steps
    <3>. QED  BY <1>1, <1>2, <3>1 DEF Lookup, Ahead
  <2>. QED  BY <2>1, <2>2, <2>3
<1>3. CASE Consult(r)
  <2>1. ASSUME NEW e \in GetCityNotFound(r), FallThrough(r, {e.holds}, 0)
        PROVE  Ahead(r)' < Ahead(r)
    BY <1>3, <2>1, FallThroughForward DEF Consult
  <2>2. CASE Goto(r, "call") /\ UNCHANGED chainVars
    BY <1>1, <1>3, <2>2 DEF Consult, Ahead, Inv, TypeOK
  <2>. QED  BY <1>3, <2>1, <2>2 DEF Consult
<1>4. CASE Call(r)
  <2>1. ASSUME NEW said, FallThrough(r, said, 0) PROVE Ahead(r)' < Ahead(r)
    BY <1>4, <2>1, FallThroughForward DEF Call
  <2>2. CASE pc'[r] \in {"store", "reply", "mark"} /\ UNCHANGED node
    BY <1>1, <1>4, <2>2 DEF Call, Ahead
  <2>. QED  BY <1>4, <2>1, <2>2 DEF Call, Inv, TypeOK
<1>5. CASE Store(r)
  BY <1>1, <1>5 DEF Store, Ahead, Inv, TypeOK
<1>6. CASE Mark(r)
  BY <1>6, FallThroughForward DEF Mark
<1>7. CASE Reply(r)
  BY <1>1, <1>7 DEF Reply, Freed, Ahead
<1>. QED  BY <1>2, <1>3, <1>4, <1>5, <1>6, <1>7 DEF Step

\* A request makes no call twice and ends after 4 * Depth + 1 of them, whatever fails.
THEOREM RequestsMoveForward == Spec => AlwaysForward
<1>. USE WeatherAssumption
<1>. DEFINE Forward(r) ==
              /\ pc[r] = "idle" => Ahead(r)' <= 4 * Depth + 1
              /\ pc[r] # "idle" => Ahead(r)' < Ahead(r) \/ UNCHANGED <<pc[r], node[r]>>
<1>1. ASSUME Inv, [Next]_vars, NEW r \in Requests PROVE Forward(r)
  <2>1. node[r] \in 1..Depth /\ pc[r] \in Steps /\ Depth \in Nat \ {0}
    BY <1>1 DEF Inv, TypeOK, Providers
  <2>2. pc[r] = "idle" => node[r] = 1
    BY <1>1 DEF Inv, RequestOK, ChainOK
  <2>3. pc[r] # "idle" => Ahead(r) > 0
    BY <2>1 DEF Ahead, Steps
  <2>4. ASSUME pc'[r] = pc[r], node'[r] = node[r] PROVE Forward(r)
    BY <2>1, <2>4 DEF Ahead
  <2>5. ASSUME pc'[r] = "idle" PROVE Forward(r)
    <3>1. Ahead(r)' = 0
      BY <2>5 DEF Ahead
    <3>. QED  BY <2>1, <2>3, <3>1
  <2>6. CASE Accept(r)
    <3>1. pc[r] = "idle" /\ pc'[r] \in {"lookup", "call"} /\ node' = node
      BY <1>1, <2>6 DEF Accept, Goto, Inv, TypeOK
    <3>2. node'[r] = 1
      BY <2>2, <3>1
    <3>3. Ahead(r)' <= 4 * Depth + 1
      BY <2>1, <3>1, <3>2 DEF Ahead
    <3>. QED  BY <3>1, <3>3
  <2>7. CASE Step(r)
    <3>1. Ahead(r)' < Ahead(r) /\ pc[r] # "idle"
      BY <1>1, <2>7, StepForward
         DEF Step, Lookup, Consult, Call, Store, Mark, Reply
    <3>. QED  BY <3>1
  <2>8. ASSUME NEW q \in Requests \ {r}, Accept(q) \/ Step(q) PROVE Forward(r)
    <3>1. pc'[r] = pc[r] /\ node'[r] = node[r]
      BY <1>1, <2>8 DEF Accept, Step, Lookup, Consult, Call, Store, Mark, Reply, Freed,
                        FallThrough, Goto, At, Inv, TypeOK
    <3>. QED  BY <2>4, <3>1
  <2>9. CASE Exit
    <3>1. pc'[r] = "idle"
      BY <2>9 DEF Exit, Freed
    <3>. QED  BY <2>5, <3>1
  <2>10. CASE RedisLoses \/ Tick \/ UNCHANGED vars
    BY <2>4, <2>10 DEF RedisLoses, Tick, vars
  <2>. QED  BY <1>1, <2>6, <2>7, <2>8, <2>9, <2>10 DEF Next
<1>2. Inv /\ [Next]_vars => [\A r \in Requests :
        /\ pc[r] = "idle" => Ahead(r)' <= 4 * Depth + 1
        /\ pc[r] # "idle" => Ahead(r)' < Ahead(r) \/ UNCHANGED <<pc[r], node[r]>>]_vars
  BY <1>1
<1>. QED  BY <1>2, WeatherInvariant, PTL DEF Spec, AlwaysForward

-----------------------------------------------------------------------------
(* One entry per key *)

Unique(entries) ==
  \A e, f \in entries : e.by = f.by /\ e.city = f.city => e = f

LEMMA WrittenUnique ==
  ASSUME NEW entries, Unique(entries), NEW p, NEW s, NEW statement, NEW ttl
  PROVE  Unique(Written(entries, p, s, statement, ttl))
BY DEF Unique, Written, Key

LEMMA AgedUnique ==
  ASSUME NEW entries \in SUBSET Entry, Unique(entries)
  PROVE  Unique(Aged(entries))
<1>1. ASSUME NEW e \in entries PROVE OneTickOn(e).by = e.by /\ OneTickOn(e).city = e.city
  BY DEF OneTickOn, Entry
<1>. QED  BY <1>1 DEF Unique, Aged

OneEntryPerKey == Unique(reports) /\ Unique(unknown)

\* A key never has two entries, so what the reader and the writers find is one answer,
\* the one written last.
THEOREM RedisHoldsOneEntryPerKey == Spec => []OneEntryPerKey
<1>1. Init => OneEntryPerKey
  BY DEF Init, Unique, OneEntryPerKey
<1>2. ASSUME Inv, OneEntryPerKey, [Next]_vars PROVE OneEntryPerKey'
  <2>. USE DEF OneEntryPerKey
  <2>1. CASE reports' = reports /\ unknown' = unknown
    BY <1>2, <2>1 DEF Unique
  <2>2. ASSUME NEW r \in Requests, Store(r) PROVE OneEntryPerKey'
    <3>1. Unique(reports)' /\ unknown' = unknown
      BY <1>2, <2>2, WrittenUnique DEF Store
    <3>. QED  BY <1>2, <3>1 DEF Unique
  <2>3. ASSUME NEW r \in Requests, Mark(r) PROVE OneEntryPerKey'
    <3>1. Unique(unknown)' /\ reports' = reports
      BY <1>2, <2>3, WrittenUnique DEF Mark, SetCityNotFound
    <3>. QED  BY <1>2, <3>1 DEF Unique
  <2>4. CASE RedisLoses
    BY <1>2, <2>4 DEF RedisLoses, Unique
  <2>5. CASE Tick
    BY <1>2, <2>5, AgedUnique DEF Tick, Inv, TypeOK
  <2>. QED  BY <1>2, <2>1, <2>2, <2>3, <2>4, <2>5
            DEF Next, Accept, Step, Lookup, Consult, Call, Reply, Exit, vars
<1>. QED  BY <1>1, <1>2, WeatherInvariant, PTL DEF Spec
=============================================================================
