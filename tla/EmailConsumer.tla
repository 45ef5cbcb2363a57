---------------------------- MODULE EmailConsumer ----------------------------
(***************************************************************************)
(* The email service's queue consumer: instances of the service take       *)
(* deliveries of one broker queue, use Redis to recognise a message id     *)
(* they have seen, send the email and acknowledge.                         *)
(*                                                                         *)
(* One instance handles one delivery at a time, in the order of the Redis, *)
(* provider and broker calls that handle and processIdempotently make; an  *)
(* action is one such call.  Instances interleave, Redis may drop a key,   *)
(* and calls, connections and processes may fail at every step.            *)
(***************************************************************************)
EXTENDS Integers, FiniteSets

CONSTANTS
  Messages,        \* publications in the queue
  Ids,             \* message ids (idempotency keys)
  NoId,            \* the empty message id
  Id,              \* publication -> its id or NoId; publications may share one
  Sendable,        \* publications whose body decodes and whose template renders
  Consumers,       \* instances of the email service
  NoMessage,       \* an instance that handles nothing
  BreakerLimit,    \* the breaker's maxFailures
  MaxRefusals,     \* bound: sends the provider refuses
  MaxEvictions,    \* bound: keys Redis drops (TTL, allkeys-lru, restart)
  MaxFaults,       \* bound: failed Redis calls, lost answers, lost connections, crashes
  SentCap          \* bound: emails counted per publication

VARIABLES
  place,           \* publication -> "ready", "settled", or who holds it unacknowledged
  connected,       \* instance -> its delivery channel is open
  at,              \* instance -> the publication it handles
  pc,              \* instance -> the call it makes next
  ok,              \* instance -> processIdempotently returns nil
  failures, mode,  \* instance -> its circuit breaker
  redis,           \* id -> "none", "processing" or "done"
  sent,            \* publication -> emails sent while handling it
  refusals, evictions, faults

breakerVars == <<failures, mode>>
budgetVars  == <<refusals, evictions, faults>>
vars == <<place, connected, at, pc, ok, breakerVars, redis, sent, budgetVars>>

Steps == {"idle", "check", "mark", "send", "store", "clear", "settle"}

ASSUME ConsumerAssumption ==
  /\ Id \in [Messages -> Ids \cup {NoId}] /\ NoId \notin Ids
  /\ Sendable \subseteq Messages
  /\ {"ready", "settled"} \cap Consumers = {}
  /\ NoMessage \notin Messages
  /\ BreakerLimit \in Nat \ {0}
  /\ MaxRefusals \in Nat /\ MaxEvictions \in Nat /\ MaxFaults \in Nat
  /\ SentCap \in Nat \ {0, 1}

-----------------------------------------------------------------------------
(* The circuit breaker of an instance: simpleCB with openUntil reduced to "zero",
   "in the future" and "in the past" *)

\* Mutated form of CanExecute: nothing brings a breaker back.
CanExecuteOnlyClosed(c) == mode[c] = "closed"

CanExecute(c) == mode[c] # "open"

\* Mutated form of Recovered: the failures are not reset.
RecoveredWithoutReset(c) == mode' = [mode EXCEPT ![c] = "closed"] /\ UNCHANGED failures

\* CanExecute resets a breaker whose time is over.
Recovered(c) == /\ mode' = [mode EXCEPT ![c] = "closed"]
                /\ failures' = [failures EXCEPT ![c] = IF mode[c] = "elapsed" THEN 0 ELSE @]

RecordSuccess(c) == /\ mode' = [mode EXCEPT ![c] = "closed"]
                    /\ failures' = [failures EXCEPT ![c] = 0]

\* Mutated form of RecordFailure: it opens one failure late.
RecordFailureLate(c) ==
  /\ failures' = [failures EXCEPT ![c] = @ + 1]
  /\ mode' = [mode EXCEPT ![c] = IF failures[c] + 1 > BreakerLimit THEN "open" ELSE @]

RecordFailure(c) ==
  /\ failures' = [failures EXCEPT ![c] = @ + 1]
  /\ mode' = [mode EXCEPT ![c] = IF failures[c] + 1 >= BreakerLimit THEN "open" ELSE @]

\* Time passes beyond openUntil.
BreakerElapses(c) ==
  /\ mode[c] = "open"
  /\ mode' = [mode EXCEPT ![c] = "elapsed"]
  /\ UNCHANGED <<place, connected, at, pc, ok, failures, redis, sent, budgetVars>>

-----------------------------------------------------------------------------
(* The broker's side *)

Held(c) == {m \in Messages : place[m] = c}

\* There is no prefetch limit: the broker pushes everything it has to open channels.
Deliver(m, c) ==
  /\ place[m] = "ready" /\ connected[c]
  /\ place' = [place EXCEPT ![m] = c]
  /\ UNCHANGED <<connected, at, pc, ok, breakerVars, redis, sent, budgetVars>>

\* Mutated forms of Ack and NackRequeue: the requeue flag is the wrong way round.
AckRequeues(m, c) == place' = [place EXCEPT ![m] = IF @ = c THEN "ready" ELSE @]
NackDrops(m, c)   == place' = [place EXCEPT ![m] = IF @ = c THEN "settled" ELSE @]

\* An answer counts only while the broker still knows the delivery as this instance's.
Ack(m, c) == place' = [place EXCEPT ![m] = IF @ = c THEN "settled" ELSE @]
NackRequeue(m, c) == place' = [place EXCEPT ![m] = IF @ = c THEN "ready" ELSE @]

-----------------------------------------------------------------------------
(* The handler *)

Goto(c, s) == pc' = [pc EXCEPT ![c] = s]
GotoWith(c, s, result) == Goto(c, s) /\ ok' = [ok EXCEPT ![c] = result]
Fault == faults < MaxFaults /\ faults' = faults + 1
MyId(c) == Id[at[c]]

\* A message without an id is dropped; an open breaker gives the message back.
DropNoId(c, m) ==
  /\ pc[c] = "idle" /\ m \in Held(c) /\ Id[m] = NoId
  /\ Ack(m, c)
  /\ UNCHANGED <<connected, at, pc, ok, breakerVars, redis, sent, budgetVars>>

Reject(c, m) ==
  /\ pc[c] = "idle" /\ m \in Held(c) /\ Id[m] # NoId
  /\ ~CanExecute(c)
  /\ NackRequeue(m, c)
  /\ UNCHANGED <<connected, at, pc, ok, breakerVars, redis, sent, budgetVars>>

\* Mutated form of Take: the id is not looked at.
TakeWithoutIdCheck(c, m) ==
  /\ pc[c] = "idle" /\ m \in Held(c)
  /\ CanExecute(c) /\ Recovered(c)
  /\ at' = [at EXCEPT ![c] = m]
  /\ Goto(c, "check")
  /\ UNCHANGED <<place, connected, ok, redis, sent, budgetVars>>

Take(c, m) ==
  /\ pc[c] = "idle" /\ m \in Held(c) /\ Id[m] # NoId
  /\ CanExecute(c) /\ Recovered(c)
  /\ at' = [at EXCEPT ![c] = m]
  /\ Goto(c, "check")
  /\ UNCHANGED <<place, connected, ok, redis, sent, budgetVars>>

\* IsProcessed; a failed call counts as "not processed".
Done(i) == redis[i] = "done"

IsProcessed(c) ==
  /\ pc[c] = "check"
  /\ \/ /\ IF Done(MyId(c)) THEN GotoWith(c, "settle", TRUE)
                                     ELSE Goto(c, "mark") /\ UNCHANGED ok
        /\ UNCHANGED faults
     \/ Fault /\ Goto(c, "mark") /\ UNCHANGED ok
  /\ UNCHANGED <<place, connected, at, breakerVars, redis, sent, refusals, evictions>>

\* Mutated form of Free: the key of another instance at work is taken over.
FreeUnlessDone(i) == redis[i] # "done"

\* SetNX; a failed call, applied or not, counts as "may process".
Free(i) == redis[i] = "none"
SetNX(i) == redis' = [redis EXCEPT ![i] = IF @ = "none" THEN "processing" ELSE @]

MarkAsProcessing(c) ==
  /\ pc[c] = "mark"
  /\ \/ /\ IF Free(MyId(c)) THEN Goto(c, "send") /\ UNCHANGED ok
                            ELSE GotoWith(c, "settle", TRUE)
        /\ SetNX(MyId(c))
        /\ UNCHANGED faults
     \/ /\ Fault /\ Goto(c, "send") /\ UNCHANGED ok
        /\ SetNX(MyId(c)) \/ UNCHANGED redis
  /\ UNCHANGED <<place, connected, at, breakerVars, sent, refusals, evictions>>

\* A body that does not decode, or that Store.Render has no template for, fails every time.
Render(c) == at[c] \in Sendable

\* The provider takes the email.
CountSent(c) == sent' = [sent EXCEPT ![at[c]] = IF @ < SentCap THEN @ + 1 ELSE @]

\* Service.Send without an error, and with one: rendering fails, the provider refuses, or
\* its answer is lost after it took the email.
Sends(c) == Render(c) /\ CountSent(c) /\ UNCHANGED <<refusals, faults>>
SendFails(c) ==
  \/ ~Render(c) /\ UNCHANGED <<sent, refusals, faults>>
  \/ /\ Render(c) /\ refusals < MaxRefusals /\ refusals' = refusals + 1
     /\ UNCHANGED <<sent, faults>>
  \/ Render(c) /\ Fault /\ CountSent(c) /\ UNCHANGED refusals

Send(c) ==
  /\ pc[c] = "send"
  /\ \/ Sends(c) /\ Goto(c, "store") /\ UNCHANGED ok
     \/ SendFails(c) /\ GotoWith(c, "clear", FALSE)
  /\ UNCHANGED <<place, connected, at, breakerVars, redis, evictions>>

\* SET replaces whatever is there.
SetDone(i) == redis' = [redis EXCEPT ![i] = "done"]

\* The failure of MarkAsProcessed is only logged.
MarkAsProcessed(c) ==
  /\ pc[c] = "store"
  /\ \/ SetDone(MyId(c)) /\ UNCHANGED faults
     \/ UNCHANGED redis /\ Fault
  /\ GotoWith(c, "clear", TRUE)
  /\ UNCHANGED <<place, connected, at, breakerVars, sent, refusals, evictions>>

\* Mutated form of Cleared: the key stays.
ClearedNothing(i) == UNCHANGED redis

\* The deferred ClearProcessing deletes the key, whatever its value and whoever set it.
Cleared(i) == redis' = [redis EXCEPT ![i] = "none"]

ClearProcessing(c) ==
  /\ pc[c] = "clear"
  /\ \/ Cleared(MyId(c)) /\ UNCHANGED faults
     \/ UNCHANGED redis /\ Fault
  /\ Goto(c, "settle")
  /\ UNCHANGED <<place, connected, at, ok, breakerVars, sent, refusals, evictions>>

\* The breaker learns the outcome and the broker gets its answer.
Settle(c) ==
  /\ pc[c] = "settle"
  /\ IF ok[c] THEN RecordSuccess(c) /\ Ack(at[c], c)
              ELSE RecordFailure(c) /\ NackRequeue(at[c], c)
  /\ at' = [at EXCEPT ![c] = NoMessage]
  /\ GotoWith(c, "idle", FALSE)
  /\ UNCHANGED <<connected, redis, sent, budgetVars>>

-----------------------------------------------------------------------------
(* Environment *)

Requeued(c) == place' = [m \in Messages |-> IF place[m] = c THEN "ready" ELSE place[m]]

\* Redis drops a key: its 24 hours are over, memory is short, or Redis restarted.
Evict(i) ==
  /\ redis[i] # "none" /\ evictions < MaxEvictions
  /\ redis' = [redis EXCEPT ![i] = "none"]
  /\ evictions' = evictions + 1
  /\ UNCHANGED <<place, connected, at, pc, ok, breakerVars, sent, refusals, faults>>

\* The broker gives an instance's deliveries to others; the delivery channel closes,
\* Start returns, and nothing opens it again.  The call under way still ends.
LoseConnection(c) ==
  /\ connected[c] /\ Fault
  /\ connected' = [connected EXCEPT ![c] = FALSE]
  /\ Requeued(c)
  /\ UNCHANGED <<at, pc, ok, breakerVars, redis, sent, refusals, evictions>>

\* An instance is killed and started again.
Restart(c) ==
  /\ Fault
  /\ Requeued(c)
  /\ connected' = [connected EXCEPT ![c] = TRUE]
  /\ at' = [at EXCEPT ![c] = NoMessage]
  /\ GotoWith(c, "idle", FALSE)
  /\ RecordSuccess(c)
  /\ UNCHANGED <<redis, sent, refusals, evictions>>

Init ==
  /\ place = [m \in Messages |-> "ready"]
  /\ connected = [c \in Consumers |-> TRUE]
  /\ at = [c \in Consumers |-> NoMessage]
  /\ pc = [c \in Consumers |-> "idle"]
  /\ ok = [c \in Consumers |-> FALSE]
  /\ failures = [c \in Consumers |-> 0]
  /\ mode = [c \in Consumers |-> "closed"]
  /\ redis = [i \in Ids |-> "none"]
  /\ sent = [m \in Messages |-> 0]
  /\ refusals = 0 /\ evictions = 0 /\ faults = 0

Handle(c) ==
  \/ \E m \in Messages : DropNoId(c, m) \/ Reject(c, m) \/ Take(c, m)
  \/ IsProcessed(c) \/ MarkAsProcessing(c) \/ Send(c)
  \/ MarkAsProcessed(c) \/ ClearProcessing(c) \/ Settle(c)

Next ==
  \/ \E c \in Consumers : \/ Handle(c) \/ BreakerElapses(c)
                          \/ LoseConnection(c) \/ Restart(c)
                          \/ \E m \in Messages : Deliver(m, c)
  \/ \E i \in Ids : Evict(i)

Spec == Init /\ [][Next]_vars

\* The handler's goroutine runs, time passes, and the broker pushes what is ready;
\* nothing makes Redis, connections or processes fail or recover.
Fairness ==
  /\ \A c \in Consumers : WF_vars(Handle(c)) /\ WF_vars(BreakerElapses(c))
  /\ \A m \in Messages : WF_vars(\E c \in Consumers : Deliver(m, c))

FairSpec == Spec /\ Fairness

-----------------------------------------------------------------------------
(* Properties *)

\* Every variable has its type; an instance holds a publication exactly while it works.
TypeOK ==
  /\ place \in [Messages -> {"ready", "settled"} \cup Consumers]
  /\ connected \in [Consumers -> BOOLEAN]
  /\ at \in [Consumers -> Messages \cup {NoMessage}]
  /\ pc \in [Consumers -> Steps]
  /\ ok \in [Consumers -> BOOLEAN]
  /\ failures \in [Consumers -> Nat]
  /\ mode \in [Consumers -> {"closed", "open", "elapsed"}]
  /\ redis \in [Ids -> {"none", "processing", "done"}]
  /\ sent \in [Messages -> Nat]
  /\ refusals \in Nat /\ evictions \in Nat /\ faults \in Nat
  /\ \A c \in Consumers : pc[c] # "idle" => at[c] \in Messages /\ Id[at[c]] \in Ids

Working(c) == pc[c] \in {"send", "store", "clear"}

Promise == INSTANCE AtLeastOnce WITH
  open   <- {m \in Messages : place[m] # "settled"},
  mailed <- {Id[m] : m \in {n \in Messages : sent[n] > 0}}

\* An id nobody answers for any more, whose email never went out.
Lost(i) == /\ \E m \in Messages : Id[m] = i
           /\ \A m \in Messages : Id[m] = i => place[m] = "settled" /\ sent[m] = 0

\* A "processing" key that no instance at work stands behind: until Redis drops it, every
\* publication with that id is acknowledged unread.
Blocked(i) == /\ redis[i] = "processing"
              /\ \A c \in Consumers : ~(Working(c) /\ MyId(c) = i)

\* A failed call, a lost connection or a crash costs one message id at most: whatever else
\* waits, is at work or is about to be skipped at the instance it hits comes through.
OneIdPerFault == Cardinality({i \in Ids : Lost(i) \/ Blocked(i)}) <= faults

\* Without faults every step is one of the publisher's view: an acknowledgement that skips
\* a message another instance works on is covered by that instance's own copy.
KeepsPromise == Promise!Spec

\* A publication is sent again only after a fault, and once per fault at most: refusals,
\* skips and races over the key never make a second email of one publication.
ResendsNeedFaults == \A m \in Messages : sent[m] <= 1 + faults

\* SetNX keeps two instances from working on one id, until a fault or a dropped key.
OneWorkerPerId ==
  faults = 0 /\ evictions = 0 =>
    \A c, d \in {b \in Consumers : Working(b)} : c = d \/ MyId(c) # MyId(d)

\* An instance at work has a closed breaker that is below its limit, so BreakerLimit
\* failures in a row always stop it until openUntil has passed.
BreakerGuards ==
  \A c \in Consumers : /\ failures[c] <= BreakerLimit
                       /\ mode[c] = "closed" => failures[c] < BreakerLimit
                       /\ pc[c] # "idle" => mode[c] = "closed"

\* The breaker of an instance is a circuit breaker: `failures` and `mode` only move as
\* CanExecute, RecordSuccess, RecordFailure and the clock move them.
Breaker(c) == INSTANCE BreakerModes WITH
  Limit <- BreakerLimit, failures <- failures[c], mode <- mode[c]
BreakersKeepTheirModes ==
  /\ \A c \in Consumers : Breaker(c)!Init
  /\ [][\A c \in Consumers : Breaker(c)!Next \/ UNCHANGED <<failures[c], mode[c]>>]_vars

\* Every publication is settled in the end: refusals trip the breaker and requeue
\* messages, but a breaker that opened lets messages through again.
Drains == <>(\A m \in Messages : place[m] = "settled")

(* What the code says of itself or a document says of it, and it does not keep *)

\* "Message already processed, skipping": one email per message id.
OneEmailPerId ==
  \A m, n \in Messages : Id[m] = Id[n] /\ sent[m] > 0 /\ sent[n] > 0 => m = n

\* "Email confirmations and deliveries must be reliable": no email is lost, whatever
\* happened to an instance.
ReliableDelivery == Promise!NothingLost
=============================================================================
