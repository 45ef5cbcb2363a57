------------------------- MODULE EmailConsumerProofs -------------------------
(***************************************************************************)
(* Proofs about the email consumer for all publications, ids, instances    *)
(* and bounds.                                                             *)
(***************************************************************************)
EXTENDS EmailConsumer, FiniteSetTheorems, TLAPS

USE DEF breakerVars, budgetVars

-----------------------------------------------------------------------------
(* Types *)

\* The initial state is well typed.
LEMMA InitTypes == Init => TypeOK
  BY ConsumerAssumption DEF Init, TypeOK, Steps

\* The broker's and the clock's steps keep the types.
LEMMA OuterTypes ==
  ASSUME TypeOK, NEW c \in Consumers,
         \/ \E m \in Messages : Deliver(m, c)
         \/ BreakerElapses(c) \/ LoseConnection(c) \/ Restart(c)
         \/ \E i \in Ids : Evict(i)
  PROVE  TypeOK'
<1>. USE ConsumerAssumption DEF TypeOK, Steps
<1>1. ASSUME NEW m \in Messages, Deliver(m, c) PROVE TypeOK'
  BY <1>1 DEF Deliver
<1>2. ASSUME BreakerElapses(c) PROVE TypeOK'
  BY <1>2 DEF BreakerElapses
<1>3. ASSUME LoseConnection(c) PROVE TypeOK'
  BY <1>3 DEF LoseConnection, Fault, Requeued
<1>4. ASSUME Restart(c) PROVE TypeOK'
  <2>1. /\ place' \in [Messages -> {"ready", "settled"} \cup Consumers]
        /\ connected' \in [Consumers -> BOOLEAN]
    BY <1>4 DEF Restart, Requeued
  <2>2. /\ at' \in [Consumers -> Messages \cup {NoMessage}]
        /\ pc' \in [Consumers -> Steps] /\ ok' \in [Consumers -> BOOLEAN]
        /\ \A d \in Consumers : pc'[d] # "idle" => at'[d] \in Messages /\ Id[at'[d]] \in Ids
    BY <1>4 DEF Restart, GotoWith, Goto
  <2>3. /\ failures' \in [Consumers -> Nat]
        /\ mode' \in [Consumers -> {"closed", "open", "elapsed"}]
    BY <1>4 DEF Restart, RecordSuccess
  <2>4. QED
    BY <1>4, <2>1, <2>2, <2>3 DEF Restart, Fault
<1>5. ASSUME NEW i \in Ids, Evict(i) PROVE TypeOK'
  BY <1>5 DEF Evict
<1>6. QED
  BY <1>1, <1>2, <1>3, <1>4, <1>5

\* The handler's steps keep the types.
LEMMA HandlerTypes ==
  ASSUME TypeOK, NEW c \in Consumers, Handle(c)
  PROVE  TypeOK'
<1>. USE ConsumerAssumption DEF TypeOK, Steps, Goto, GotoWith, Fault, MyId
<1>1. ASSUME NEW m \in Messages, DropNoId(c, m) PROVE TypeOK'
  BY <1>1 DEF DropNoId, Ack
<1>2. ASSUME NEW m \in Messages, Reject(c, m) PROVE TypeOK'
  BY <1>2 DEF Reject, NackRequeue
<1>3. ASSUME NEW m \in Messages, Take(c, m) PROVE TypeOK'
  BY <1>3 DEF Take, Recovered
<1>4. ASSUME IsProcessed(c) PROVE TypeOK'
  <2>1. /\ pc' \in [Consumers -> Steps] /\ ok' \in [Consumers -> BOOLEAN] /\ at' = at
        /\ \A d \in Consumers : pc'[d] # "idle" => pc[d] # "idle"
    <3>1. /\ pc[c] = "check" /\ at' = at
          /\ ok' = ok \/ ok' = [ok EXCEPT ![c] = TRUE]
      BY <1>4 DEF IsProcessed
    <3>2. PICK s \in {"mark", "settle"} : pc' = [pc EXCEPT ![c] = s]
      BY <1>4 DEF IsProcessed
    <3>. QED  BY <3>1, <3>2
  <2>2. QED
    BY <1>4, <2>1 DEF IsProcessed
<1>5. ASSUME MarkAsProcessing(c) PROVE TypeOK'
  <2>1. redis' \in [Ids -> {"none", "processing", "done"}]
    BY <1>5 DEF MarkAsProcessing, SetNX
  <2>2. /\ pc' \in [Consumers -> Steps] /\ ok' \in [Consumers -> BOOLEAN] /\ at' = at
        /\ \A d \in Consumers : pc'[d] # "idle" => pc[d] # "idle"
    <3>1. /\ pc[c] = "mark" /\ at' = at
          /\ ok' = ok \/ ok' = [ok EXCEPT ![c] = TRUE]
      BY <1>5 DEF MarkAsProcessing
    <3>2. PICK s \in {"send", "settle"} : pc' = [pc EXCEPT ![c] = s]
      BY <1>5 DEF MarkAsProcessing
    <3>. QED  BY <3>1, <3>2
  <2>3. QED
    BY <1>5, <2>1, <2>2 DEF MarkAsProcessing
<1>6. ASSUME Send(c) PROVE TypeOK'
  <2>1. sent' \in [Messages -> Nat] /\ refusals' \in Nat /\ faults' \in Nat
    BY <1>6 DEF Send, CountSent, Sends, SendFails
  <2>2. /\ pc' \in [Consumers -> Steps] /\ ok' \in [Consumers -> BOOLEAN] /\ at' = at
        /\ \A d \in Consumers : pc'[d] # "idle" => pc[d] # "idle"
    BY <1>6 DEF Send
  <2>3. QED
    BY <1>6, <2>1, <2>2 DEF Send
<1>7. ASSUME MarkAsProcessed(c) PROVE TypeOK'
  BY <1>7 DEF MarkAsProcessed, SetDone
<1>8. ASSUME ClearProcessing(c) PROVE TypeOK'
  BY <1>8 DEF ClearProcessing, Cleared
<1>9. ASSUME Settle(c) PROVE TypeOK'
  BY <1>9 DEF Settle, RecordSuccess, RecordFailure, Ack, NackRequeue
<1>10. QED
  BY <1>1, <1>2, <1>3, <1>4, <1>5, <1>6, <1>7, <1>8, <1>9 DEF Handle

\* Every step keeps the types.
LEMMA StepTypes == TypeOK /\ [Next]_vars => TypeOK'
<1>. SUFFICES ASSUME TypeOK, [Next]_vars PROVE TypeOK'
  OBVIOUS
<1>1. CASE UNCHANGED vars
  BY <1>1 DEF vars, TypeOK
<1>2. ASSUME NEW i \in Ids, Evict(i) PROVE TypeOK'
  BY <1>2 DEF TypeOK, Evict
<1>3. ASSUME NEW c \in Consumers, Handle(c) PROVE TypeOK'
  BY <1>3, HandlerTypes
<1>4. ASSUME NEW c \in Consumers,
             \/ \E m \in Messages : Deliver(m, c)
             \/ BreakerElapses(c) \/ LoseConnection(c) \/ Restart(c)
      PROVE  TypeOK'
  BY <1>4, OuterTypes
<1>5. QED
  BY <1>1, <1>2, <1>3, <1>4 DEF Next

\* Variables keep their types, and an instance that handles something holds a
\* publication with an id.
THEOREM ConsumerTypes == Spec => []TypeOK
  BY InitTypes, StepTypes, PTL DEF Spec

-----------------------------------------------------------------------------
(* The inductive invariant *)

\* The email of an id has been sent while handling one of its publications.
Mailed(i) == \E m \in Messages : Id[m] = i /\ sent[m] > 0

\* An instance about to store "done", or finished after a send, has sent the email; and
\* "done" is stored for such an id only.
DoneMeansMailed ==
  /\ \A c \in Consumers : pc[c] = "store" \/ (pc[c] = "clear" /\ ok[c]) => sent[at[c]] > 0
  /\ \A i \in Ids : redis[i] = "done" => Mailed(i)

\* The broker counts the deliveries that are handled for id i as their handlers'.
HandlersHold(i) ==
  \A c \in Consumers : pc[c] # "idle" /\ MyId(c) = i => place[at[c]] = c

KeyFounded(i) ==
  redis[i] = "processing" => \E c \in Consumers : Working(c) /\ MyId(c) = i

\* The instance is about to acknowledge m.
Acking(c, m) == pc[c] = "settle" /\ ok[c] /\ at[c] = m

\* A publication of id i the service still answers for and nobody is about to let go.
LiveCopy(i, m) ==
  /\ Id[m] = i /\ place[m] # "settled"
  /\ \A c \in Consumers : ~Acking(c, m)

\* The email of id i went out, or a live copy is left.  That some publication is merely
\* unsettled would not be inductive: two instances might both be about to acknowledge,
\* each relying on the other's copy.
Answered(i) == \/ \A m \in Messages : Id[m] # i
               \/ Mailed(i)
               \/ \E m \in Messages : LiveCopy(i, m)

\* An id that no fault has hurt.
Healthy(i) == HandlersHold(i) /\ KeyFounded(i) /\ Answered(i)

Hurt == {i \in Ids : ~Healthy(i)}

\* Each fault hurts one id at most.
HurtBounded == IsFiniteSet(Hurt) /\ Cardinality(Hurt) <= faults

\* The instance sent m, or skipped it, and is going to acknowledge it.
Finished(c, m) ==
  at[c] = m /\ (pc[c] = "store" \/ (pc[c] \in {"clear", "settle"} /\ ok[c]))

\* Who may still send m although the broker has taken it away.
Stray(m) == {c \in Consumers : /\ at[c] = m /\ place[m] # c
                               /\ pc[c] \in {"check", "mark", "send"}}

\* Whether the one the broker counts m as still may lead to an email of m.
Chance(m) == IF \/ place[m] = "settled"
                \/ \E c \in Consumers : place[m] = c /\ Finished(c, m)
             THEN 0 ELSE 1

\* The emails of m that were sent or may yet be, without another fault.
SendsBounded(m) ==
  /\ IsFiniteSet(Stray(m))
  /\ sent[m] + Cardinality(Stray(m)) + Chance(m) <= 1 + faults

\* Without faults and dropped keys, the key of an instance at work is taken.
WorkerHasKey ==
  faults = 0 /\ evictions = 0 =>
    \A c \in Consumers : Working(c) => redis[MyId(c)] # "none"

-----------------------------------------------------------------------------
(* Sent emails stay sent *)

\* No step takes an email back.
LEMMA SentGrows ==
  ASSUME TypeOK, [Next]_vars
  PROVE  \A m \in Messages : sent'[m] \in Nat /\ sent'[m] >= sent[m]
<1>. USE DEF TypeOK
<1>1. ASSUME NEW c \in Consumers, Send(c)
      PROVE  \A m \in Messages : sent'[m] \in Nat /\ sent'[m] >= sent[m]
  <2>1. CASE CountSent(c)
    BY <2>1, ConsumerAssumption DEF CountSent
  <2>2. CASE UNCHANGED sent
    BY <2>2
  <2>3. QED
    BY <1>1, <2>1, <2>2 DEF Send, Sends, SendFails
<1>2. CASE UNCHANGED sent
  BY <1>2
<1>3. Next => UNCHANGED sent \/ \E c \in Consumers : Send(c)
  BY DEF Next, Handle, DropNoId, Reject, Take, IsProcessed, MarkAsProcessing,
         MarkAsProcessed, ClearProcessing, Settle, BreakerElapses, LoseConnection,
         Restart, Deliver, Evict
<1>4. QED
  BY <1>1, <1>2, <1>3 DEF vars

LEMMA MailedStays ==
  ASSUME TypeOK, [Next]_vars, NEW i, Mailed(i)
  PROVE  Mailed(i)'
<1>1. PICK m \in Messages : Id[m] = i /\ sent[m] > 0
  BY DEF Mailed
<1>2. sent'[m] > 0
  BY <1>1, SentGrows DEF TypeOK
<1>3. QED
  BY <1>1, <1>2 DEF Mailed

\* Faults and dropped keys are only counted up.
LEMMA FaultsStay ==
  ASSUME TypeOK, [Next]_vars
  PROVE  /\ faults' = faults \/ faults' = faults + 1
         /\ evictions' = evictions \/ evictions' = evictions + 1
  BY DEF TypeOK, Next, Handle, DropNoId, Reject, Take, IsProcessed, MarkAsProcessing, Send,
         MarkAsProcessed, ClearProcessing, Settle, BreakerElapses, LoseConnection,
         Restart, Deliver, Evict, Fault, Goto, GotoWith, vars, Sends, SendFails, SetDone

-----------------------------------------------------------------------------
(* The parts of the invariant, one lemma each: what a step does to it *)

LEMMA StepDoneMeansMailed ==
  ASSUME TypeOK, DoneMeansMailed, [Next]_vars
  PROVE  DoneMeansMailed'
<1>. USE ConsumerAssumption DEF TypeOK, Goto, GotoWith, MyId
<1>. DEFINE Storing(c) == pc[c] = "store" \/ (pc[c] = "clear" /\ ok[c])
            Owed == \A c \in Consumers : Storing(c) => sent[at[c]] > 0
            Kept == \A i \in Ids : redis[i] = "done" => Mailed(i)
<1>1. ASSUME \A i \in Ids : redis'[i] = "done" => redis[i] = "done" PROVE Kept'
  BY <1>1, MailedStays DEF DoneMeansMailed
<1>2. ASSUME \A c \in Consumers : Storing(c)' => Storing(c) /\ at'[c] = at[c] PROVE Owed'
  <2>. SUFFICES ASSUME NEW c \in Consumers, Storing(c)' PROVE sent'[at'[c]] > 0
    OBVIOUS
  <2>1. at[c] \in Messages /\ at'[c] = at[c] /\ sent[at[c]] > 0
    BY <1>2 DEF DoneMeansMailed
  <2>2. QED
    BY <2>1, SentGrows
<1>3. ASSUME NEW c \in Consumers, Send(c) PROVE Owed' /\ Kept'
  <2>1. Kept'
    BY <1>1, <1>3 DEF Send
  <2>2. ASSUME NEW d \in Consumers, d # c, Storing(d)' PROVE sent'[at'[d]] > 0
    <3>1. Storing(d) /\ at'[d] = at[d]
      BY <1>3, <2>2 DEF Send
    <3>2. QED
      BY <3>1, SentGrows DEF DoneMeansMailed
  <2>3. ASSUME Storing(c)' PROVE sent'[at'[c]] > 0
    <3>1. at[c] \in Messages /\ at'[c] = at[c]
      BY <1>3 DEF Send
    <3>2. CountSent(c)
      BY <1>3, <2>3 DEF Send, Sends, SendFails
    <3>3. QED
      BY <3>1, <3>2 DEF CountSent
  <2>4. QED
    BY <2>1, <2>2, <2>3
<1>4. ASSUME NEW c \in Consumers, MarkAsProcessed(c) PROVE Owed' /\ Kept'
  <2>1. at[c] \in Messages /\ sent[at[c]] > 0 /\ sent' = sent /\ at' = at
    BY <1>4 DEF MarkAsProcessed, DoneMeansMailed
  <2>2. Owed'
    BY <1>4, <2>1 DEF MarkAsProcessed, DoneMeansMailed
  <2>3. Mailed(MyId(c))'
    BY <2>1 DEF Mailed
  <2>4. ASSUME NEW i \in Ids, redis'[i] = "done", i # MyId(c) PROVE Mailed(i)'
    <3>1. redis[i] = "done"
      BY <1>4, <2>4 DEF MarkAsProcessed, SetDone
    <3>2. QED
      BY <3>1, MailedStays DEF DoneMeansMailed
  <2>5. ASSUME NEW i \in Ids, redis'[i] = "done" PROVE Mailed(i)'
    <3>1. CASE i = MyId(c)
      BY <2>3, <3>1, <1>4 DEF MarkAsProcessed, Mailed
    <3>2. CASE i # MyId(c)
      BY <2>4, <2>5, <3>2
    <3>3. QED
      BY <3>1, <3>2
  <2>6. QED
    BY <2>2, <2>5
<1>5. ASSUME NEW c \in Consumers, MarkAsProcessing(c) PROVE Owed' /\ Kept'
  <2>1. \A i \in Ids : redis'[i] = "done" => redis[i] = "done"
    BY <1>5 DEF MarkAsProcessing, SetNX
  <2>2. \A d \in Consumers : Storing(d)' => Storing(d) /\ at'[d] = at[d]
    BY <1>5 DEF MarkAsProcessing
  <2>3. QED
    BY <2>1, <2>2, <1>1, <1>2
<1>6. ASSUME NEW c \in Consumers, ClearProcessing(c) PROVE Owed' /\ Kept'
  <2>1. \A i \in Ids : redis'[i] = "done" => redis[i] = "done"
    BY <1>6 DEF ClearProcessing, Cleared
  <2>2. \A d \in Consumers : Storing(d)' => Storing(d) /\ at'[d] = at[d]
    BY <1>6 DEF ClearProcessing
  <2>3. QED
    BY <2>1, <2>2, <1>1, <1>2
<1>7. ASSUME NEW c \in Consumers, NEW m \in Messages,
             DropNoId(c, m) \/ Reject(c, m) \/ Take(c, m) \/ Deliver(m, c)
      PROVE  Owed' /\ Kept'
  <2>1. redis' = redis /\ \A d \in Consumers : Storing(d)' => Storing(d) /\ at'[d] = at[d]
    BY <1>7 DEF DropNoId, Reject, Take, Deliver
  <2>2. QED
    BY <2>1, <1>1, <1>2
<1>8. ASSUME NEW c \in Consumers,
             IsProcessed(c) \/ Settle(c) \/ BreakerElapses(c) \/ LoseConnection(c) \/ Restart(c)
      PROVE  Owed' /\ Kept'
  <2>1. redis' = redis
    BY <1>8 DEF IsProcessed, Settle, BreakerElapses, LoseConnection, Restart
  <2>2. \A d \in Consumers : Storing(d)' => Storing(d) /\ at'[d] = at[d]
    BY <1>8 DEF IsProcessed, Settle, BreakerElapses, LoseConnection, Restart
  <2>3. QED
    BY <2>1, <2>2, <1>1, <1>2
<1>9. ASSUME NEW i \in Ids, Evict(i) PROVE Owed' /\ Kept'
  BY <1>9, <1>1, <1>2 DEF Evict
<1>10. ASSUME UNCHANGED vars PROVE Owed' /\ Kept'
  BY <1>10, <1>1, <1>2 DEF vars
<1>11. Owed' /\ Kept'
  BY <1>3, <1>4, <1>5, <1>6, <1>7, <1>8, <1>9, <1>10 DEF Next, Handle
<1>12. QED
  BY <1>11 DEF DoneMeansMailed

\* A step of one instance, its breaker's clock and its connection included.
Step(c) == \/ Handle(c) \/ BreakerElapses(c) \/ LoseConnection(c) \/ Restart(c)
           \/ \E m \in Messages : Deliver(m, c)

\* If the step fails, it is not while its instance handles a publication of id i.
Spares(c, i) == faults' = faults \/ pc[c] = "idle" \/ MyId(c) # i

LEMMA StepHandlersHold ==
  ASSUME TypeOK, NEW i \in Ids, HandlersHold(i), NEW c \in Consumers, Step(c), Spares(c, i)
  PROVE  HandlersHold(i)'
<1>. USE ConsumerAssumption DEF TypeOK, Goto, GotoWith, Fault, MyId
<1>. SUFFICES ASSUME NEW d \in Consumers, pc'[d] # "idle", Id[at'[d]] = i
              PROVE  place'[at'[d]] = d
  BY DEF HandlersHold
<1>1. ASSUME NEW m \in Messages, DropNoId(c, m) \/ Reject(c, m) \/ Deliver(m, c)
      PROVE  place'[at'[d]] = d
  <2>1. pc[d] # "idle" /\ at' = at /\ at[d] \in Messages /\ place[at[d]] = d
    BY <1>1 DEF DropNoId, Reject, Deliver, HandlersHold
  <2>2. at[d] # m
    BY <1>1, <2>1 DEF DropNoId, Reject, Deliver, Held
  <2>. QED  BY <1>1, <2>1, <2>2 DEF DropNoId, Reject, Deliver, Ack, NackRequeue
<1>2. ASSUME NEW m \in Messages, Take(c, m) PROVE place'[at'[d]] = d
  BY <1>2 DEF Take, Held, HandlersHold
<1>3. ASSUME \/ IsProcessed(c) \/ MarkAsProcessing(c) \/ Send(c) \/ MarkAsProcessed(c)
             \/ ClearProcessing(c) \/ BreakerElapses(c)
      PROVE  place'[at'[d]] = d
  <2>1. place' = place /\ at' = at
    BY <1>3 DEF IsProcessed, MarkAsProcessing, Send, MarkAsProcessed, ClearProcessing,
                BreakerElapses
  <2>2. pc[d] # "idle"
    BY <1>3 DEF IsProcessed, MarkAsProcessing, Send, MarkAsProcessed, ClearProcessing,
                BreakerElapses
  <2>. QED  BY <2>1, <2>2 DEF HandlersHold
<1>4. ASSUME Settle(c) PROVE place'[at'[d]] = d
  <2>1. d # c /\ at'[d] = at[d] /\ pc[d] # "idle" /\ at[c] \in Messages /\ at[d] \in Messages
    BY <1>4 DEF Settle
  <2>2. place[at[d]] = d
    BY <2>1 DEF HandlersHold
  <2>3. place'[at[d]] = place[at[d]]
    BY <1>4, <2>1, <2>2 DEF Settle, Ack, NackRequeue
  <2>. QED  BY <2>1, <2>2, <2>3
<1>5. ASSUME LoseConnection(c) \/ Restart(c) PROVE place'[at'[d]] = d
  <2>1. pc[c] = "idle" \/ Id[at[c]] # i
    BY <1>5 DEF LoseConnection, Restart, Spares
  <2>2. d # c /\ pc[d] # "idle" /\ at'[d] = at[d] /\ at[d] \in Messages
    BY <1>5, <2>1 DEF LoseConnection, Restart
  <2>3. place[at[d]] = d
    BY <2>2 DEF HandlersHold
  <2>. QED  BY <1>5, <2>2, <2>3 DEF LoseConnection, Restart, Requeued
<1>. QED  BY <1>1, <1>2, <1>3, <1>4, <1>5 DEF Step, Handle

LEMMA StepKeyFounded ==
  ASSUME TypeOK, NEW i \in Ids, KeyFounded(i), NEW c \in Consumers, Step(c), Spares(c, i)
  PROVE  KeyFounded(i)'
<1>. USE ConsumerAssumption DEF TypeOK, Goto, GotoWith, Fault, MyId, Working, Steps
<1>. SUFFICES ASSUME redis'[i] = "processing"
              PROVE  \E d \in Consumers : Working(d)' /\ Id[at'[d]] = i
  BY DEF KeyFounded
<1>1. ASSUME redis[i] = "processing",
             \A d \in Consumers : Working(d) /\ Id[at[d]] = i => Working(d)' /\ at'[d] = at[d]
      PROVE  \E d \in Consumers : Working(d)' /\ Id[at'[d]] = i
  BY <1>1 DEF KeyFounded
<1>2. ASSUME NEW m \in Messages,
             DropNoId(c, m) \/ Reject(c, m) \/ Take(c, m) \/ Deliver(m, c)
      PROVE  \E d \in Consumers : Working(d)' /\ Id[at'[d]] = i
  <2>1. redis' = redis
    BY <1>2 DEF DropNoId, Reject, Take, Deliver
  <2>2. \A d \in Consumers : Working(d) => pc'[d] = pc[d] /\ at'[d] = at[d]
    BY <1>2 DEF DropNoId, Reject, Take, Deliver
  <2>. QED  BY <1>1, <2>1, <2>2
<1>3. ASSUME \/ IsProcessed(c) \/ Send(c) \/ Settle(c) \/ BreakerElapses(c)
             \/ LoseConnection(c) \/ Restart(c)
      PROVE  \E d \in Consumers : Working(d)' /\ Id[at'[d]] = i
  <2>1. redis' = redis
    BY <1>3 DEF IsProcessed, Send, Settle, BreakerElapses, LoseConnection, Restart
  <2>2. CASE Restart(c)
    <3>1. ~(Working(c) /\ Id[at[c]] = i)
      BY <2>2 DEF Restart, Spares
    <3>. QED  BY <1>1, <2>1, <2>2, <3>1 DEF Restart
  <2>3. CASE ~Restart(c)
    <3>1. \A d \in Consumers : Working(d) => Working(d)' /\ at'[d] = at[d]
      BY <1>3, <2>3 DEF IsProcessed, Send, Settle, BreakerElapses, LoseConnection
    <3>. QED  BY <1>1, <2>1, <3>1
  <2>. QED  BY <2>2, <2>3
<1>4. ASSUME MarkAsProcessing(c)
      PROVE  \E d \in Consumers : Working(d)' /\ Id[at'[d]] = i
  <2>1. at' = at /\ \A d \in Consumers : Working(d) => Working(d)'
    BY <1>4 DEF MarkAsProcessing
  <2>2. CASE redis[i] = "processing"
    BY <1>1, <2>1, <2>2
  <2>3. CASE redis[i] # "processing"
    <3>1. i = Id[at[c]] /\ redis[i] = "none"
      BY <1>4, <2>3 DEF MarkAsProcessing, SetNX
    <3>2. Working(c)'
      BY <1>4, <3>1 DEF MarkAsProcessing, Spares, Free
    <3>. QED  BY <2>1, <3>1, <3>2
  <2>. QED  BY <2>2, <2>3
<1>5. ASSUME MarkAsProcessed(c)
      PROVE  \E d \in Consumers : Working(d)' /\ Id[at'[d]] = i
  <2>1. redis[i] = "processing"
    BY <1>5 DEF MarkAsProcessed, SetDone
  <2>2. at' = at /\ \A d \in Consumers : Working(d) => Working(d)'
    BY <1>5 DEF MarkAsProcessed
  <2>. QED  BY <1>1, <2>1, <2>2
<1>6. ASSUME ClearProcessing(c)
      PROVE  \E d \in Consumers : Working(d)' /\ Id[at'[d]] = i
  <2>1. redis[i] = "processing" /\ i # Id[at[c]]
    BY <1>6 DEF ClearProcessing, Cleared, Spares
  <2>2. at' = at /\ \A d \in Consumers : Working(d) /\ d # c => Working(d)'
    BY <1>6 DEF ClearProcessing
  <2>. QED  BY <1>1, <2>1, <2>2
<1>. QED  BY <1>2, <1>3, <1>4, <1>5, <1>6 DEF Step, Handle

LEMMA StepAnswered ==
  ASSUME TypeOK, DoneMeansMailed, NEW i \in Ids, Healthy(i), NEW c \in Consumers, Step(c),
         [Next]_vars, Spares(c, i)
  PROVE  Answered(i)'
<1>. USE ConsumerAssumption DEF TypeOK, Goto, GotoWith, Fault, MyId, Steps
<1>1. CASE \A m \in Messages : Id[m] # i
  BY <1>1 DEF Answered
<1>2. CASE Mailed(i)
  BY <1>2, MailedStays DEF Answered
<1>3. CASE ~Mailed(i) /\ \E m \in Messages : Id[m] = i
  <2>1. PICK m \in Messages : LiveCopy(i, m)
    BY <1>3 DEF Healthy, Answered
  <2>2. Id[m] = i /\ place[m] # "settled" /\ sent[m] = 0
    BY <1>3, <2>1 DEF LiveCopy, Mailed
  <2>3. redis[i] # "done"
    BY <1>3 DEF DoneMeansMailed
  \* It is enough that nothing lets go of m or decides to.
  <2>4. ASSUME place'[m] # "settled",
               \A d \in Consumers : Acking(d, m)' => Acking(d, m)
        PROVE  Answered(i)'
    BY <2>1, <2>4 DEF LiveCopy, Answered
  <2>5. ASSUME NEW k \in Messages,
               DropNoId(c, k) \/ Reject(c, k) \/ Take(c, k) \/ Deliver(k, c)
        PROVE  Answered(i)'
    <3>1. place'[m] # "settled"
      BY <2>2, <2>5 DEF DropNoId, Reject, Take, Deliver, Ack, NackRequeue
    <3>2. \A d \in Consumers : Acking(d, m)' => Acking(d, m)
      BY <2>5 DEF DropNoId, Reject, Take, Deliver, Acking
    <3>. QED  BY <2>4, <3>1, <3>2
  <2>6. ASSUME LoseConnection(c) \/ Restart(c) PROVE Answered(i)'
    <3>1. place'[m] # "settled"
      BY <2>2, <2>6 DEF LoseConnection, Restart, Requeued
    <3>2. \A d \in Consumers : Acking(d, m)' => Acking(d, m)
      BY <2>6 DEF LoseConnection, Restart, Acking
    <3>. QED  BY <2>4, <3>1, <3>2
  <2>7. ASSUME IsProcessed(c) \/ Send(c) \/ MarkAsProcessed(c) \/ BreakerElapses(c)
        PROVE  Answered(i)'
    <3>1. place' = place
      BY <2>7 DEF IsProcessed, Send, MarkAsProcessed, BreakerElapses
    <3>2. \A d \in Consumers : Acking(d, m)' => Acking(d, m)
      <4>1. CASE IsProcessed(c)
        BY <2>2, <2>3, <4>1 DEF IsProcessed, Done, Acking, Spares
      <4>2. CASE Send(c)
        BY <4>2 DEF Send, Acking
      <4>3. CASE MarkAsProcessed(c)
        BY <4>3 DEF MarkAsProcessed, Acking
      <4>4. CASE BreakerElapses(c)
        BY <4>4 DEF BreakerElapses, Acking
      <4>. QED  BY <2>7, <4>1, <4>2, <4>3, <4>4
    <3>. QED  BY <2>2, <2>4, <3>1, <3>2
  <2>8. ASSUME ClearProcessing(c) PROVE Answered(i)'
    <3>1. place' = place /\ at' = at /\ ok' = ok
      BY <2>8 DEF ClearProcessing
    <3>2. ~(ok[c] /\ at[c] = m)
      BY <2>2, <2>8 DEF ClearProcessing, DoneMeansMailed
    <3>3. \A d \in Consumers : Acking(d, m)' => Acking(d, m)
      BY <3>1, <3>2, <2>8 DEF ClearProcessing, Acking
    <3>. QED  BY <2>2, <2>4, <3>1, <3>3
  <2>9. ASSUME Settle(c) PROVE Answered(i)'
    <3>1. ~(ok[c] /\ at[c] = m)
      BY <2>1, <2>9 DEF Settle, LiveCopy, Acking
    <3>2. place'[m] # "settled"
      BY <2>2, <2>9, <3>1 DEF Settle, Ack, NackRequeue
    <3>3. \A d \in Consumers : Acking(d, m)' => Acking(d, m)
      BY <2>9 DEF Settle, Acking
    <3>. QED  BY <2>4, <3>2, <3>3
  <2>10. ASSUME MarkAsProcessing(c) PROVE Answered(i)'
    <3>1. place' = place /\ at' = at
      BY <2>10 DEF MarkAsProcessing
    <3>2. \A d \in Consumers : d # c => pc'[d] = pc[d] /\ ok'[d] = ok[d]
      BY <2>10 DEF MarkAsProcessing
    <3>3. CASE ~Acking(c, m)'
      <4>1. \A d \in Consumers : Acking(d, m)' => Acking(d, m)
        BY <3>1, <3>2, <3>3 DEF Acking
      <4>. QED  BY <2>2, <2>4, <3>1, <4>1
    \* c is about to skip m: the instance at work on the id holds another copy.
    <3>4. CASE Acking(c, m)'
      <4>1. at[c] = m /\ redis[i] = "processing"
        BY <2>2, <2>3, <2>10, <3>1, <3>4 DEF MarkAsProcessing, Acking, Free, Spares
      <4>2. PICK d \in Consumers : Working(d) /\ Id[at[d]] = i
        BY <4>1 DEF Healthy, KeyFounded
      <4>3. d # c /\ at[d] \in Messages /\ place[at[d]] = d /\ pc'[d] # "settle"
        BY <2>10, <3>2, <4>2 DEF Working, MarkAsProcessing, Healthy, HandlersHold
      <4>4. \A e \in Consumers : pc'[e] = "settle" /\ Id[at[e]] = i => place[at[e]] = e
        BY <2>10, <3>2 DEF MarkAsProcessing, Healthy, HandlersHold
      <4>5. \A e \in Consumers : ~Acking(e, at[d])'
        BY <3>1, <4>2, <4>3, <4>4 DEF Acking
      <4>6. LiveCopy(i, at[d])'
        BY <3>1, <4>2, <4>3, <4>5 DEF LiveCopy, Acking
      <4>. QED  BY <3>1, <4>3, <4>6 DEF Answered
    <3>. QED  BY <3>3, <3>4
  <2>. QED  BY <2>5, <2>6, <2>7, <2>8, <2>9, <2>10 DEF Step, Handle
<1>. QED  BY <1>1, <1>2, <1>3

\* A dropped key hurts nobody.
LEMMA EvictHurtsNobody ==
  ASSUME TypeOK, NEW i \in Ids, Healthy(i), NEW j \in Ids, Evict(j)
  PROVE  Healthy(i)'
BY DEF Evict, Healthy, HandlersHold, KeyFounded, Answered, LiveCopy, Acking, Mailed, Working,
       MyId, TypeOK

\* A step that fails hurts the id its instance is handling at most; another hurts none.
LEMMA StepHurtBounded ==
  ASSUME TypeOK, DoneMeansMailed, HurtBounded, [Next]_vars
  PROVE  HurtBounded'
<1>1. faults \in Nat /\ faults' \in Nat /\ (faults' = faults \/ faults' = faults + 1)
  BY FaultsStay DEF TypeOK
<1>2. IsFiniteSet(Hurt) /\ Cardinality(Hurt) \in Nat /\ Cardinality(Hurt) <= faults
  BY FS_CardinalityType DEF HurtBounded
<1>3. ASSUME Hurt' \subseteq Hurt PROVE HurtBounded'
  <2>1. /\ IsFiniteSet(Hurt') /\ Cardinality(Hurt') <= Cardinality(Hurt)
        /\ Cardinality(Hurt') \in Nat
    BY <1>2, <1>3, FS_Subset, FS_CardinalityType
  <2>2. Cardinality(Hurt') <= faults'
    BY <1>1, <1>2, <2>1
  <2>. QED  BY <2>1, <2>2 DEF HurtBounded
<1>4. CASE UNCHANGED vars
  <2>1. Hurt' \subseteq Hurt
    BY <1>4 DEF Hurt, vars, Healthy, HandlersHold, KeyFounded, Answered, LiveCopy, Acking,
                Mailed, Working, MyId
  <2>. QED  BY <1>3, <2>1
<1>5. ASSUME NEW j \in Ids, Evict(j) PROVE HurtBounded'
  <2>1. Hurt' \subseteq Hurt
    BY <1>5, EvictHurtsNobody DEF Hurt
  <2>. QED  BY <1>3, <2>1
<1>6. ASSUME NEW c \in Consumers, Step(c) PROVE HurtBounded'
  <2>1. ASSUME NEW i \in Ids, Healthy(i), Spares(c, i) PROVE Healthy(i)'
    BY <1>6, <2>1, StepHandlersHold, StepKeyFounded, StepAnswered DEF Healthy
  <2>2. CASE faults' = faults
    <3>1. Hurt' \subseteq Hurt
      BY <2>1, <2>2 DEF Hurt, Spares
    <3>. QED  BY <1>3, <3>1
  <2>3. CASE faults' = faults + 1
    <3>1. Hurt' \subseteq Hurt \cup {MyId(c)}
      BY <2>1 DEF Hurt, Spares
    <3>2. /\ IsFiniteSet(Hurt \cup {MyId(c)})
          /\ Cardinality(Hurt \cup {MyId(c)}) <= Cardinality(Hurt) + 1
      BY <1>2, FS_AddElement
    <3>3. /\ IsFiniteSet(Hurt') /\ Cardinality(Hurt') \in Nat
          /\ Cardinality(Hurt \cup {MyId(c)}) \in Nat
          /\ Cardinality(Hurt') <= Cardinality(Hurt \cup {MyId(c)})
      BY <3>1, <3>2, FS_Subset, FS_CardinalityType
    <3>4. Cardinality(Hurt') <= faults'
      BY <1>1, <1>2, <2>3, <3>2, <3>3
    <3>. QED  BY <3>3, <3>4 DEF HurtBounded
  <2>. QED  BY <1>1, <2>2, <2>3
<1>. QED  BY <1>4, <1>5, <1>6 DEF Next, Step

\* Before the first fault every id is healthy.
LEMMA AllHealthy ==
  ASSUME HurtBounded, faults = 0, NEW i \in Ids
  PROVE  Healthy(i)
<1>1. Cardinality(Hurt) = 0 /\ IsFiniteSet(Hurt)
  BY FS_CardinalityType DEF HurtBounded
<1>2. Hurt = {}
  BY <1>1, FS_EmptySet
<1>. QED  BY <1>2 DEF Hurt

-----------------------------------------------------------------------------
(* Emails per publication *)

\* The three ways the count may move.
LEMMA SendsStayBounded ==
  ASSUME TypeOK, TypeOK', NEW m \in Messages, SendsBounded(m), NEW c \in Consumers,
         \/ /\ Stray(m)' \subseteq Stray(m)
            /\ sent'[m] + Chance(m)' + faults <= sent[m] + Chance(m) + faults'
         \/ /\ c \in Stray(m) /\ Stray(m)' \subseteq Stray(m) \ {c}
            /\ sent'[m] + Chance(m)' + faults <= sent[m] + Chance(m) + faults' + 1
         \/ /\ Stray(m)' \subseteq Stray(m) \cup {c}
            /\ sent'[m] + Chance(m)' + faults + 1 <= sent[m] + Chance(m) + faults'
  PROVE  SendsBounded(m)'
<1>. DEFINE old == Stray(m)
            new == Stray(m)'
<1>1. /\ sent[m] \in Nat /\ sent'[m] \in Nat /\ faults \in Nat /\ faults' \in Nat
      /\ Chance(m) \in {0, 1} /\ Chance(m)' \in {0, 1}
  BY DEF TypeOK, Chance
<1>2. /\ IsFiniteSet(old) /\ Cardinality(old) \in Nat
      /\ sent[m] + Cardinality(old) + Chance(m) <= 1 + faults
  BY FS_CardinalityType DEF SendsBounded
<1>3. ASSUME IsFiniteSet(new), Cardinality(new) \in Nat,
             sent'[m] + Cardinality(new) + Chance(m)' <= 1 + faults'
      PROVE  SendsBounded(m)'
  BY <1>3 DEF SendsBounded
<1>. HIDE DEF old, new
<1>4. CASE /\ new \subseteq old
           /\ sent'[m] + Chance(m)' + faults <= sent[m] + Chance(m) + faults'
  <2>1. IsFiniteSet(new) /\ Cardinality(new) \in Nat /\ Cardinality(new) <= Cardinality(old)
    BY <1>2, <1>4, FS_Subset, FS_CardinalityType
  <2>. QED  BY <1>1, <1>2, <1>3, <1>4, <2>1
<1>5. CASE /\ c \in old /\ new \subseteq old \ {c}
           /\ sent'[m] + Chance(m)' + faults <= sent[m] + Chance(m) + faults' + 1
  <2>1. IsFiniteSet(old \ {c}) /\ Cardinality(old \ {c}) = Cardinality(old) - 1
    BY <1>2, <1>5, FS_RemoveElement
  <2>2. /\ IsFiniteSet(new) /\ Cardinality(new) \in Nat
        /\ Cardinality(new) <= Cardinality(old \ {c})
    BY <1>5, <2>1, FS_Subset, FS_CardinalityType
  <2>. QED  BY <1>1, <1>2, <1>3, <1>5, <2>1, <2>2
<1>6. CASE /\ new \subseteq old \cup {c}
           /\ sent'[m] + Chance(m)' + faults + 1 <= sent[m] + Chance(m) + faults'
  <2>1. /\ IsFiniteSet(old \cup {c}) /\ Cardinality(old \cup {c}) \in Nat
        /\ Cardinality(old \cup {c}) <= Cardinality(old) + 1
    <3>1. /\ IsFiniteSet(old \cup {c})
          /\ Cardinality(old \cup {c}) = IF c \in old THEN Cardinality(old)
                                                     ELSE Cardinality(old) + 1
      BY <1>2, FS_AddElement
    <3>. QED  BY <1>2, <3>1
  <2>2. /\ IsFiniteSet(new) /\ Cardinality(new) \in Nat
        /\ Cardinality(new) <= Cardinality(old \cup {c})
    BY <1>6, <2>1, FS_Subset, FS_CardinalityType
  <2>. QED  BY <1>1, <1>2, <1>3, <1>6, <2>1, <2>2
<1>. QED  BY <1>4, <1>5, <1>6 DEF old, new

\* What an instance does to the publication it is at, and to the ones it holds.
LEMMA HandlerSendsBounded ==
  ASSUME TypeOK, TypeOK', NEW m \in Messages, SendsBounded(m), NEW c \in Consumers,
         Handle(c), faults' = faults \/ faults' = faults + 1
  PROVE  SendsBounded(m)'
<1>. USE ConsumerAssumption DEF TypeOK, Goto, GotoWith
<1>. DEFINE Calm == /\ Stray(m)' \subseteq Stray(m) /\ Chance(m)' <= Chance(m)
                    /\ sent'[m] = sent[m]
<1>1. /\ sent[m] \in Nat /\ sent'[m] \in Nat /\ faults \in Nat /\ faults' \in Nat
      /\ Chance(m) \in {0, 1} /\ Chance(m)' \in {0, 1}
  BY DEF Chance
<1>2. ASSUME Calm PROVE SendsBounded(m)'
  BY <1>1, <1>2, SendsStayBounded
<1>3. ASSUME NEW k \in Messages, DropNoId(c, k) \/ Reject(c, k) PROVE Calm
  <2>1. /\ sent' = sent /\ at' = at /\ pc' = pc /\ ok' = ok /\ pc[c] = "idle"
        /\ place[k] = c /\ (k # m => place'[m] = place[m])
    BY <1>3 DEF DropNoId, Reject, Held, Ack, NackRequeue
  <2>2. Stray(m)' \subseteq Stray(m)
    BY <2>1 DEF Stray
  <2>3. Chance(m)' <= Chance(m)
    <3>1. CASE k # m
      BY <2>1, <3>1 DEF Chance, Finished
    <3>2. CASE k = m
      BY <2>1, <3>2 DEF Chance, Finished
    <3>. QED  BY <3>1, <3>2
  <2>. QED  BY <2>1, <2>2, <2>3
<1>4. ASSUME NEW k \in Messages, Take(c, k) PROVE Calm
  <2>1. /\ sent' = sent /\ place' = place /\ ok' = ok /\ pc[c] = "idle" /\ place[k] = c
        /\ at' = [at EXCEPT ![c] = k] /\ pc' = [pc EXCEPT ![c] = "check"]
    BY <1>4 DEF Take, Held
  <2>2. Stray(m)' \subseteq Stray(m)
    BY <2>1 DEF Stray
  <2>3. Chance(m)' <= Chance(m)
    BY <2>1 DEF Chance, Finished
  <2>. QED  BY <2>1, <2>2, <2>3
<1>5. ASSUME IsProcessed(c) \/ MarkAsProcessing(c) PROVE Calm
  <2>1. /\ sent' = sent /\ place' = place /\ at' = at /\ pc[c] \in {"check", "mark"}
        /\ \A d \in Consumers \ {c} : pc'[d] = pc[d] /\ ok'[d] = ok[d]
    BY <1>5 DEF IsProcessed, MarkAsProcessing
  <2>2. Stray(m)' \subseteq Stray(m)
    BY <2>1 DEF Stray
  <2>3. Chance(m)' <= Chance(m)
    BY <2>1 DEF Chance, Finished
  <2>. QED  BY <2>1, <2>2, <2>3
<1>6. ASSUME MarkAsProcessed(c) \/ ClearProcessing(c) PROVE Calm
  <2>1. /\ sent' = sent /\ place' = place /\ at' = at
        /\ \A d \in Consumers : /\ Finished(d, m) => Finished(d, m)'
                                /\ pc'[d] \in {"check", "mark", "send"} => pc'[d] = pc[d]
    BY <1>6 DEF MarkAsProcessed, ClearProcessing, Finished
  <2>2. Stray(m)' \subseteq Stray(m)
    BY <2>1 DEF Stray
  <2>3. Chance(m)' <= Chance(m)
    BY <2>1 DEF Chance
  <2>. QED  BY <2>1, <2>2, <2>3
<1>7. ASSUME Settle(c) PROVE Calm
  <2>1. /\ sent' = sent /\ pc[c] = "settle" /\ at[c] \in Messages
        /\ at' = [at EXCEPT ![c] = NoMessage] /\ pc' = [pc EXCEPT ![c] = "idle"]
        /\ ok' = [ok EXCEPT ![c] = FALSE]
        /\ place[m] # c \/ at[c] # m => place'[m] = place[m]
        /\ place[m] = c /\ at[c] = m => place'[m] = IF ok[c] THEN "settled" ELSE "ready"
    BY <1>7 DEF Settle, Ack, NackRequeue
  <2>2. Stray(m)' \subseteq Stray(m)
    BY <2>1 DEF Stray
  <2>3. CASE place[m] = c /\ at[c] = m
    <3>1. Chance(m)' <= Chance(m)
      <4>1. CASE ok[c]
        BY <2>1, <2>3, <4>1, <1>1 DEF Chance
      <4>2. CASE ~ok[c]
        BY <2>1, <2>3, <4>2, <1>1 DEF Chance, Finished
      <4>. QED  BY <4>1, <4>2
    <3>. QED  BY <2>1, <2>2, <3>1
  <2>4. CASE ~(place[m] = c /\ at[c] = m)
    <3>1. \A d \in Consumers : place[m] = d => (Finished(d, m)' <=> Finished(d, m))
      BY <2>1, <2>4 DEF Finished
    <3>2. Chance(m)' <= Chance(m)
      BY <2>1, <2>4, <3>1 DEF Chance
    <3>. QED  BY <2>1, <2>2, <3>2
  <2>. QED  BY <2>3, <2>4
<1>8. ASSUME Send(c) PROVE SendsBounded(m)'
  <2>1. /\ place' = place /\ at' = at /\ pc[c] = "send" /\ at[c] \in Messages
        /\ \/ pc' = [pc EXCEPT ![c] = "store"] /\ ok' = ok
           \/ pc' = [pc EXCEPT ![c] = "clear"] /\ ok' = [ok EXCEPT ![c] = FALSE]
    BY <1>8 DEF Send
  <2>2. Stray(m)' \subseteq Stray(m) \ {c}
    BY <2>1 DEF Stray
  <2>3. CASE sent'[m] = sent[m]
    <3>1. Chance(m)' <= Chance(m)
      BY <2>1 DEF Chance, Finished
    <3>. QED  BY <1>2, <2>2, <2>3, <3>1
  <2>4. CASE sent'[m] # sent[m]
    <3>1. at[c] = m /\ sent'[m] = sent[m] + 1
      BY <1>8, <2>1, <2>4 DEF Send, Sends, SendFails, CountSent
    <3>2. CASE place[m] # c
      <4>1. c \in Stray(m)
        BY <2>1, <3>1, <3>2 DEF Stray
      <4>2. Chance(m)' <= Chance(m)
        BY <2>1, <3>1, <3>2 DEF Chance, Finished
      <4>3. sent'[m] + Chance(m)' + faults <= sent[m] + Chance(m) + faults' + 1
        BY <1>1, <3>1, <4>2
      <4>. QED  BY <2>2, <4>1, <4>3, SendsStayBounded
    <3>3. CASE place[m] = c
      <4>1. Chance(m) = 1
        BY <2>1, <3>3 DEF Chance, Finished
      <4>2. \/ pc'[c] = "store"
            \/ faults' = faults + 1
        BY <1>8, <2>4 DEF Send, SendFails, Fault
      <4>3. sent'[m] + Chance(m)' + faults <= sent[m] + Chance(m) + faults'
        <5>1. CASE pc'[c] = "store"
          <6>1. Finished(c, m)'
            BY <2>1, <3>1, <5>1 DEF Finished
          <6>2. Chance(m)' = 0
            BY <2>1, <3>3, <6>1 DEF Chance
          <6>. QED  BY <1>1, <3>1, <4>1, <6>2
        <5>2. CASE faults' = faults + 1
          BY <1>1, <3>1, <4>1, <5>2
        <5>. QED  BY <4>2, <5>1, <5>2
      <4>4. Stray(m)' \subseteq Stray(m)
        BY <2>2
      <4>. QED  BY <4>3, <4>4, SendsStayBounded
    <3>. QED  BY <3>2, <3>3
  <2>. QED  BY <2>3, <2>4
<1>. QED  BY <1>2, <1>3, <1>4, <1>5, <1>6, <1>7, <1>8 DEF Handle

LEMMA StepSendsBounded ==
  ASSUME TypeOK, TypeOK', [Next]_vars, NEW m \in Messages, SendsBounded(m)
  PROVE  SendsBounded(m)'
<1>. USE ConsumerAssumption DEF TypeOK
<1>1. /\ sent[m] \in Nat /\ sent'[m] \in Nat /\ faults \in Nat /\ faults' \in Nat
      /\ Chance(m) \in {0, 1} /\ Chance(m)' \in {0, 1}
  BY DEF Chance
<1>2. faults' = faults \/ faults' = faults + 1
  BY FaultsStay
<1>3. ASSUME UNCHANGED <<place, at, pc, ok, sent, faults>> PROVE SendsBounded(m)'
  BY <1>3 DEF SendsBounded, Stray, Chance, Finished
<1>4. ASSUME NEW c \in Consumers, Handle(c) PROVE SendsBounded(m)'
  BY <1>2, <1>4, HandlerSendsBounded
<1>5. ASSUME NEW c \in Consumers, NEW k \in Messages, Deliver(k, c) PROVE SendsBounded(m)'
  <2>1. /\ sent' = sent /\ at' = at /\ pc' = pc /\ ok' = ok /\ faults' = faults
        /\ place' = [place EXCEPT ![k] = c] /\ place[k] = "ready"
    BY <1>5 DEF Deliver
  <2>2. Stray(m)' \subseteq Stray(m)
    BY <2>1 DEF Stray
  <2>3. Chance(m)' <= Chance(m)
    BY <2>1, <1>1 DEF Chance, Finished
  <2>. QED  BY <1>1, <2>1, <2>2, <2>3, SendsStayBounded
<1>6. ASSUME NEW c \in Consumers, LoseConnection(c) \/ Restart(c) PROVE SendsBounded(m)'
  <2>1. /\ sent' = sent /\ faults' = faults + 1
        /\ place'[m] = IF place[m] = c THEN "ready" ELSE place[m]
        /\ \A d \in Consumers \ {c} : at'[d] = at[d] /\ pc'[d] = pc[d] /\ ok'[d] = ok[d]
        /\ pc'[c] = "idle" \/ (at'[c] = at[c] /\ pc'[c] = pc[c])
    BY <1>6 DEF LoseConnection, Restart, Fault, Requeued, Goto, GotoWith
  <2>2. CASE place[m] # c
    <3>1. Stray(m)' \subseteq Stray(m)
      BY <2>1, <2>2 DEF Stray
    <3>2. Chance(m)' <= Chance(m)
      BY <2>1, <2>2 DEF Chance, Finished
    <3>. QED  BY <1>1, <2>1, <3>1, <3>2, SendsStayBounded
  <2>3. CASE place[m] = c
    <3>1. CASE Stray(m)' \subseteq Stray(m)
      BY <1>1, <2>1, <3>1, SendsStayBounded
    <3>2. CASE ~(Stray(m)' \subseteq Stray(m))
      <4>1. Stray(m)' \subseteq Stray(m) \cup {c}
        BY <2>1 DEF Stray
      <4>2. pc[c] \in {"check", "mark", "send"}
        BY <2>1, <3>2 DEF Stray
      <4>3. Chance(m) = 1
        BY <2>3, <4>2 DEF Chance, Finished
      <4>4. sent'[m] + Chance(m)' + faults + 1 <= sent[m] + Chance(m) + faults'
        BY <1>1, <2>1, <4>3
      <4>. QED  BY <4>1, <4>4, SendsStayBounded
    <3>. QED  BY <3>1, <3>2
  <2>. QED  BY <2>2, <2>3
<1>7. ASSUME NEW c \in Consumers, BreakerElapses(c) PROVE SendsBounded(m)'
  BY <1>3, <1>7 DEF BreakerElapses
<1>8. ASSUME NEW i \in Ids, Evict(i) PROVE SendsBounded(m)'
  BY <1>3, <1>8 DEF Evict
<1>9. CASE UNCHANGED vars
  BY <1>3, <1>9 DEF vars
<1>. QED  BY <1>4, <1>5, <1>6, <1>7, <1>8, <1>9 DEF Next

-----------------------------------------------------------------------------
(* One worker per id, and the breakers *)

LEMMA StepOneWorkerPerId ==
  ASSUME TypeOK, WorkerHasKey, OneWorkerPerId, [Next]_vars
  PROVE  WorkerHasKey' /\ OneWorkerPerId'
<1>. USE ConsumerAssumption DEF TypeOK, Goto, GotoWith, Fault, MyId, Working, Steps
<1>. SUFFICES ASSUME faults' = 0, evictions' = 0
              PROVE  /\ \A c \in Consumers : Working(c)' => redis'[Id[at'[c]]] # "none"
                     /\ \A c, d \in Consumers :
                          Working(c)' /\ Working(d)' => c = d \/ Id[at'[c]] # Id[at'[d]]
  BY DEF WorkerHasKey, OneWorkerPerId
<1>1. faults = 0 /\ evictions = 0
  BY FaultsStay
<1>. DEFINE Goal == /\ \A c \in Consumers : Working(c)' => redis'[Id[at'[c]]] # "none"
                    /\ \A c, d \in Consumers :
                         Working(c)' /\ Working(d)' => c = d \/ Id[at'[c]] # Id[at'[d]]
<1>2. /\ \A c \in Consumers : Working(c) => redis[Id[at[c]]] # "none"
      /\ \A c, d \in Consumers :
           Working(c) /\ Working(d) => c = d \/ Id[at[c]] # Id[at[d]]
  BY <1>1 DEF WorkerHasKey, OneWorkerPerId
<1>3. ASSUME \A c \in Consumers : Working(c)' => Working(c) /\ at'[c] = at[c],
             \A i \in Ids : redis[i] # "none" => redis'[i] # "none"
      PROVE  Goal
  BY <1>2, <1>3
<1>4. CASE UNCHANGED vars
  BY <1>3, <1>4 DEF vars
<1>5. ASSUME NEW i \in Ids, Evict(i) PROVE FALSE
  BY <1>5 DEF Evict
<1>6. ASSUME NEW c \in Consumers, LoseConnection(c) \/ Restart(c) PROVE FALSE
  BY <1>6 DEF LoseConnection, Restart
<1>7. ASSUME NEW c \in Consumers, NEW k \in Messages,
             DropNoId(c, k) \/ Reject(c, k) \/ Take(c, k) \/ Deliver(k, c)
      PROVE  Goal
  <2>1. redis' = redis /\ \A d \in Consumers : Working(d)' => Working(d) /\ at'[d] = at[d]
    BY <1>7 DEF DropNoId, Reject, Take, Deliver
  <2>2. QED
    BY <1>3, <2>1
<1>8. ASSUME NEW c \in Consumers,
             IsProcessed(c) \/ Send(c) \/ Settle(c) \/ BreakerElapses(c)
      PROVE  Goal
  <2>1. redis' = redis /\ \A d \in Consumers : Working(d)' => Working(d) /\ at'[d] = at[d]
    BY <1>8 DEF IsProcessed, Send, Settle, BreakerElapses
  <2>2. QED
    BY <1>3, <2>1
<1>9. ASSUME NEW c \in Consumers, MarkAsProcessed(c) PROVE Goal
  <2>1. \A i \in Ids : redis[i] # "none" => redis'[i] # "none"
    BY <1>9 DEF MarkAsProcessed, SetDone
  <2>2. \A d \in Consumers : Working(d)' => Working(d) /\ at'[d] = at[d]
    BY <1>9 DEF MarkAsProcessed
  <2>3. QED
    BY <1>3, <2>1, <2>2
<1>10. ASSUME NEW c \in Consumers, ClearProcessing(c) PROVE Goal
  <2>1. at' = at /\ Working(c) /\ ~ Working(c)'
        /\ \A d \in Consumers : Working(d)' => Working(d) /\ d # c
    BY <1>10 DEF ClearProcessing
  <2>2. \A i \in Ids : i # Id[at[c]] => redis'[i] = redis[i]
    BY <1>10 DEF ClearProcessing, Cleared
  <2>3. QED
    BY <1>2, <2>1, <2>2
<1>11. ASSUME NEW c \in Consumers, MarkAsProcessing(c) PROVE Goal
  <2>1. at' = at /\ \A d \in Consumers : d # c /\ Working(d)' => Working(d)
    BY <1>11 DEF MarkAsProcessing
  <2>2. \A i \in Ids : redis[i] # "none" => redis'[i] # "none"
    BY <1>11 DEF MarkAsProcessing, SetNX
  <2>3. CASE Working(c)'
    <3>1. redis[Id[at[c]]] = "none" /\ redis'[Id[at[c]]] # "none" /\ at[c] \in Messages
      BY <1>1, <1>11, <2>3 DEF MarkAsProcessing, Free, SetNX
    <3>2. \A d \in Consumers : d # c /\ Working(d)' => Id[at[d]] # Id[at[c]]
      BY <1>2, <2>1, <3>1
    <3>3. QED
      BY <1>2, <2>1, <2>2, <3>1, <3>2
  <2>4. CASE ~ Working(c)'
    BY <1>3, <2>1, <2>2, <2>4
  <2>5. QED
    BY <2>3, <2>4
<1>12. QED
  BY <1>4, <1>5, <1>6, <1>7, <1>8, <1>9, <1>10, <1>11 DEF Next, Handle

LEMMA StepBreakerGuards ==
  ASSUME TypeOK, BreakerGuards, [Next]_vars
  PROVE  BreakerGuards'
<1>. USE ConsumerAssumption DEF TypeOK, Goto, GotoWith, Fault, Steps
<1>. SUFFICES ASSUME NEW d \in Consumers
              PROVE  /\ failures'[d] <= BreakerLimit
                     /\ mode'[d] = "closed" => failures'[d] < BreakerLimit
                     /\ pc'[d] # "idle" => mode'[d] = "closed"
  BY DEF BreakerGuards
<1>. DEFINE Goal == /\ failures'[d] <= BreakerLimit
                    /\ mode'[d] = "closed" => failures'[d] < BreakerLimit
                    /\ pc'[d] # "idle" => mode'[d] = "closed"
<1>1. /\ failures[d] <= BreakerLimit
      /\ mode[d] = "closed" => failures[d] < BreakerLimit
      /\ pc[d] # "idle" => mode[d] = "closed"
  BY DEF BreakerGuards
<1>2. ASSUME failures' = failures, mode' = mode, pc'[d] # "idle" => pc[d] # "idle"
      PROVE  Goal
  BY <1>1, <1>2
<1>3. ASSUME NEW c \in Consumers, NEW m \in Messages,
             DropNoId(c, m) \/ Reject(c, m) \/ Deliver(m, c)
      PROVE  Goal
  BY <1>2, <1>3 DEF DropNoId, Reject, Deliver
<1>4. ASSUME NEW c \in Consumers, NEW m \in Messages, Take(c, m) PROVE Goal
  BY <1>1, <1>4 DEF Take, Recovered, CanExecute
<1>5. ASSUME NEW c \in Consumers,
             \/ IsProcessed(c) \/ MarkAsProcessing(c) \/ Send(c) \/ MarkAsProcessed(c)
             \/ ClearProcessing(c) \/ LoseConnection(c)
      PROVE  Goal
  <2>1. failures' = failures /\ mode' = mode
    BY <1>5 DEF IsProcessed, MarkAsProcessing, Send, MarkAsProcessed, ClearProcessing,
                LoseConnection
  <2>2. pc'[d] # "idle" => pc[d] # "idle"
    BY <1>5 DEF IsProcessed, MarkAsProcessing, Send, MarkAsProcessed, ClearProcessing,
                LoseConnection
  <2>3. QED
    BY <1>2, <2>1, <2>2
<1>6. ASSUME NEW c \in Consumers, Settle(c) PROVE Goal
  BY <1>1, <1>6 DEF Settle, RecordSuccess, RecordFailure, BreakerGuards
<1>7. ASSUME NEW c \in Consumers, Restart(c) PROVE Goal
  BY <1>1, <1>7 DEF Restart, RecordSuccess
<1>8. ASSUME NEW c \in Consumers, BreakerElapses(c) PROVE Goal
  BY <1>1, <1>8 DEF BreakerElapses, BreakerGuards
<1>9. ASSUME NEW i \in Ids, Evict(i) PROVE Goal
  BY <1>2, <1>9 DEF Evict
<1>10. CASE UNCHANGED vars
  BY <1>2, <1>10 DEF vars
<1>11. QED
  BY <1>3, <1>4, <1>5, <1>6, <1>7, <1>8, <1>9, <1>10 DEF Next, Handle

-----------------------------------------------------------------------------
(* The invariant as a whole *)

ConsumerInv ==
  /\ TypeOK /\ DoneMeansMailed /\ HurtBounded /\ \A m \in Messages : SendsBounded(m)
  /\ WorkerHasKey /\ OneWorkerPerId /\ BreakerGuards

LEMMA InitConsumerInv == Init => ConsumerInv
<1>. SUFFICES ASSUME Init PROVE ConsumerInv
  OBVIOUS
<1>. USE ConsumerAssumption DEF Init
<1>1. TypeOK
  BY InitTypes
<1>2. DoneMeansMailed /\ WorkerHasKey /\ OneWorkerPerId /\ BreakerGuards
  BY DEF DoneMeansMailed, WorkerHasKey, OneWorkerPerId, Working, BreakerGuards
<1>3. HurtBounded
  <2>1. ASSUME NEW i \in Ids PROVE Healthy(i)
    BY DEF Healthy, HandlersHold, KeyFounded, Answered, LiveCopy, Acking
  <2>2. Hurt = {}
    BY <2>1 DEF Hurt
  <2>. QED  BY <2>2, FS_EmptySet DEF HurtBounded
<1>4. ASSUME NEW m \in Messages PROVE SendsBounded(m)
  <2>1. Stray(m) = {} /\ Chance(m) = 1 /\ sent[m] = 0
    BY DEF Stray, Chance, Finished
  <2>. QED  BY <2>1, FS_EmptySet DEF SendsBounded
<1>5. QED
  BY <1>1, <1>2, <1>3, <1>4 DEF ConsumerInv

LEMMA StepConsumerInv == ConsumerInv /\ [Next]_vars => ConsumerInv'
<1>. SUFFICES ASSUME ConsumerInv, [Next]_vars PROVE ConsumerInv'
  OBVIOUS
<1>1. TypeOK' /\ DoneMeansMailed' /\ HurtBounded'
  BY StepTypes, StepDoneMeansMailed, StepHurtBounded DEF ConsumerInv
<1>2. ASSUME NEW m \in Messages PROVE SendsBounded(m)'
  BY <1>1, StepSendsBounded DEF ConsumerInv
<1>3. WorkerHasKey' /\ OneWorkerPerId' /\ BreakerGuards'
  BY StepOneWorkerPerId, StepBreakerGuards DEF ConsumerInv
<1>. QED  BY <1>1, <1>2, <1>3 DEF ConsumerInv

THEOREM ConsumerInvariant == Spec => []ConsumerInv
  BY InitConsumerInv, StepConsumerInv, PTL DEF Spec

\* A publication's email is sent again only after faults, once per fault at most.
THEOREM ConsumerResendsNeedFaults == Spec => []ResendsNeedFaults
<1>1. ASSUME ConsumerInv, NEW m \in Messages PROVE sent[m] <= 1 + faults
  <2>1. /\ sent[m] \in Nat /\ faults \in Nat /\ Cardinality(Stray(m)) \in Nat
        /\ Chance(m) \in {0, 1}
        /\ sent[m] + Cardinality(Stray(m)) + Chance(m) <= 1 + faults
    BY <1>1, FS_CardinalityType DEF ConsumerInv, SendsBounded, TypeOK, Chance
  <2>. QED  BY <2>1
<1>2. ConsumerInv => ResendsNeedFaults
  BY <1>1 DEF ResendsNeedFaults
<1>. QED  BY <1>2, ConsumerInvariant, PTL

\* A fault loses or blocks one message id at most.
THEOREM ConsumerOneIdPerFault == Spec => []OneIdPerFault
<1>1. ASSUME ConsumerInv PROVE OneIdPerFault
  <2>. DEFINE harmed == {i \in Ids : Lost(i) \/ Blocked(i)}
  <2>1. ASSUME NEW i \in Ids, Healthy(i) PROVE ~Lost(i) /\ ~Blocked(i)
    <3>1. ~Blocked(i)
      BY <2>1 DEF Healthy, KeyFounded, Blocked
    <3>2. ~Lost(i)
      BY <1>1, <2>1 DEF Healthy, Answered, LiveCopy, Mailed, Lost, ConsumerInv, TypeOK
    <3>. QED  BY <3>1, <3>2
  <2>2. harmed \subseteq Hurt
    BY <2>1 DEF Hurt
  <2>3. /\ IsFiniteSet(Hurt) /\ Cardinality(Hurt) \in Nat /\ Cardinality(Hurt) <= faults
        /\ faults \in Nat
    BY <1>1, FS_CardinalityType DEF ConsumerInv, HurtBounded, TypeOK
  <2>4. IsFiniteSet(harmed) /\ Cardinality(harmed) <= Cardinality(Hurt)
    BY <2>2, <2>3, FS_Subset
  <2>5. Cardinality(harmed) \in Nat
    BY <2>4, FS_CardinalityType
  <2>6. Cardinality(harmed) <= faults
    BY <2>3, <2>4, <2>5
  <2>. QED  BY <2>6 DEF OneIdPerFault
<1>. QED  BY <1>1, ConsumerInvariant, PTL

\* A "done" key is never wrong, whatever failed: the skips that trust it lose no email.
THEOREM ConsumerDoneIsMailed ==
  Spec => [](\A i \in Ids : Done(i) => \E m \in Messages : Id[m] = i /\ sent[m] > 0)
<1>1. ConsumerInv => \A i \in Ids : Done(i) => \E m \in Messages : Id[m] = i /\ sent[m] > 0
  BY DEF ConsumerInv, DoneMeansMailed, Done, Mailed
<1>. QED  BY <1>1, ConsumerInvariant, PTL

\* Without faults and dropped keys one instance at most works on an id.
THEOREM ConsumerExclusion == Spec => []OneWorkerPerId
<1>1. ConsumerInv => OneWorkerPerId
  BY DEF ConsumerInv
<1>2. QED
  BY <1>1, ConsumerInvariant, PTL

\* Whatever fails, an instance at work has a closed breaker below its limit.
THEOREM ConsumerBreakerGuards == Spec => []BreakerGuards
<1>1. ConsumerInv => BreakerGuards
  BY DEF ConsumerInv
<1>2. QED
  BY <1>1, ConsumerInvariant, PTL

-----------------------------------------------------------------------------
(* No email is lost, and the publisher's view *)

\* The documents' promise, as far as it goes: until something fails, no email is lost.
THEOREM ConsumerReliableUntilAFault == Spec => [](faults = 0 => ReliableDelivery)
<1>1. ASSUME ConsumerInv, faults = 0 PROVE ReliableDelivery
  <2>. SUFFICES ASSUME NEW m \in Messages, Id[m] # NoId
                PROVE  \/ Id[m] \in {Id[n] : n \in {n \in Messages : sent[n] > 0}}
                       \/ \E o \in {n \in Messages : place[n] # "settled"} : Id[o] = Id[m]
    BY DEF ReliableDelivery, Promise!NothingLost
  <2>1. Id[m] \in Ids
    BY ConsumerAssumption
  <2>2. Answered(Id[m])
    BY <1>1, <2>1, AllHealthy DEF ConsumerInv, Healthy
  <2>. QED  BY <2>2 DEF Answered, Mailed, LiveCopy
<1>. QED  BY <1>1, ConsumerInvariant, PTL

\* As long as no call can fail, every step is one of the publisher's view: publications
\* are let go only for an email that was sent or in favour of another copy.
THEOREM ConsumerKeepsPromise ==
  ASSUME MaxFaults = 0
  PROVE  Spec => KeepsPromise
<1>. DEFINE open == {m \in Messages : place[m] # "settled"}
            mailed == {Id[m] : m \in {n \in Messages : sent[n] > 0}}
            Safe == ConsumerInv /\ faults = 0
<1>1. Init => Promise!Init
  BY ConsumerAssumption DEF Init, Promise!Init
<1>2. Init => Safe
  BY InitConsumerInv DEF Init
<1>3. Safe /\ [Next]_vars => Safe'
  <2>1. faults = 0 /\ [Next]_vars => faults' = 0
    BY DEF Next, Handle, DropNoId, Reject, Take, IsProcessed, MarkAsProcessing, Send,
           MarkAsProcessed, ClearProcessing, Settle, BreakerElapses, LoseConnection,
           Restart, Deliver, Evict, Fault, Goto, GotoWith, vars, Sends, SendFails, SetDone
  <2>2. QED
    BY <2>1, StepConsumerInv
<1>4. Safe /\ [Next]_vars => [Promise!Next]_<<open, mailed>>
  <2>. SUFFICES ASSUME Safe, [Next]_vars
                PROVE  Promise!Next \/ (open' = open /\ mailed' = mailed)
    OBVIOUS
  <2>. USE ConsumerAssumption DEF ConsumerInv, TypeOK, Goto, GotoWith, Steps
  <2>0. ASSUME NEW c \in Consumers, pc[c] # "idle" PROVE place[at[c]] = c
    BY <2>0, AllHealthy DEF Healthy, HandlersHold, MyId
  <2>1. ASSUME UNCHANGED <<place, sent>> PROVE open' = open /\ mailed' = mailed
    BY <2>1
  <2>2. ASSUME NEW c \in Consumers, NEW m \in Messages, DropNoId(c, m) PROVE Promise!Next
    <3>1. m \in open /\ open' = open \ {m} /\ mailed' = mailed /\ Id[m] = NoId
      BY <2>2 DEF DropNoId, Ack, Held
    <3>2. QED
      BY <3>1 DEF Promise!Next, Promise!Settle
  <2>3. ASSUME NEW c \in Consumers, NEW m \in Messages, Reject(c, m) \/ Deliver(m, c)
        PROVE  open' = open /\ mailed' = mailed
    BY <2>3 DEF Reject, Deliver, Held, NackRequeue
  <2>4. ASSUME NEW c \in Consumers, Send(c)
        PROVE  Promise!Next \/ (open' = open /\ mailed' = mailed)
    <3>1. CASE CountSent(c)
      <4>1. at[c] \in open /\ at[c] \in Messages /\ place' = place
        BY <2>0, <2>4 DEF Send
      <4>2. sent'[at[c]] > 0 /\ \A n \in Messages : n # at[c] => sent'[n] = sent[n]
        BY <3>1, <4>1 DEF CountSent
      <4>3. mailed' = mailed \cup {Id[at[c]]}
        BY <4>1, <4>2, SentGrows
      <4>4. QED
        BY <4>1, <4>3 DEF Promise!Next, Promise!Mail
    <3>2. CASE ~ CountSent(c)
      BY <2>1, <2>4, <3>2 DEF Send, Sends, SendFails
    <3>3. QED
      BY <3>1, <3>2
  <2>5. ASSUME NEW c \in Consumers, Settle(c)
        PROVE  Promise!Next \/ (open' = open /\ mailed' = mailed)
    <3>1. place[at[c]] = c /\ at[c] \in Messages /\ sent' = sent /\ Id[at[c]] \in Ids
      BY <2>0, <2>5 DEF Settle
    <3>2. CASE ok[c]
      <4>1. at[c] \in open /\ open' = open \ {at[c]} /\ mailed' = mailed
        BY <2>5, <3>1, <3>2 DEF Settle, Ack
      <4>2. Acking(c, at[c])
        BY <2>5, <3>2 DEF Settle, Acking
      <4>3. Mailed(Id[at[c]]) \/ \E m \in Messages : LiveCopy(Id[at[c]], m)
        BY <3>1, AllHealthy DEF Healthy, Answered
      <4>4. Id[at[c]] \in mailed \/ \E m \in open \ {at[c]} : Id[m] = Id[at[c]]
        BY <4>2, <4>3 DEF Mailed, LiveCopy
      <4>5. QED
        BY <3>1, <4>1, <4>4 DEF Promise!Next, Promise!Settle
    <3>3. CASE ~ ok[c]
      BY <2>5, <3>1, <3>3 DEF Settle, NackRequeue
    <3>4. QED
      BY <3>2, <3>3
  <2>6. ASSUME NEW c \in Consumers, LoseConnection(c) \/ Restart(c) PROVE FALSE
    BY <2>6 DEF LoseConnection, Restart, Fault
  <2>7. ASSUME NEW c \in Consumers,
               \/ \E m \in Messages : Take(c, m)
               \/ IsProcessed(c) \/ MarkAsProcessing(c) \/ MarkAsProcessed(c)
               \/ ClearProcessing(c) \/ BreakerElapses(c) \/ \E i \in Ids : Evict(i)
        PROVE  open' = open /\ mailed' = mailed
    <3>1. UNCHANGED <<place, sent>>
      BY <2>7 DEF Take, IsProcessed, MarkAsProcessing, MarkAsProcessed, ClearProcessing,
                  BreakerElapses, Evict
    <3>2. QED
      BY <2>1, <3>1
  <2>8. ASSUME NEW i \in Ids, Evict(i) PROVE open' = open /\ mailed' = mailed
    BY <2>1, <2>8 DEF Evict
  <2>9. CASE UNCHANGED vars
    BY <2>1, <2>9 DEF vars
  <2>10. QED
    BY <2>2, <2>3, <2>4, <2>5, <2>6, <2>7, <2>8, <2>9 DEF Next, Handle
<1>5. QED
  BY <1>1, <1>2, <1>3, <1>4, PTL DEF Spec, KeepsPromise, Promise!Spec

\* Every instance's breaker is a circuit breaker.
THEOREM ConsumerBreakersKeepTheirModes == Spec => BreakersKeepTheirModes
<1>. USE ConsumerAssumption
<1>1. Init => \A c \in Consumers : Breaker(c)!Init
  BY DEF Init, Breaker!Init
<1>2. TypeOK /\ [Next]_vars
        => \A c \in Consumers : Breaker(c)!Next \/ UNCHANGED <<failures[c], mode[c]>>
  <2>. SUFFICES ASSUME TypeOK, [Next]_vars, NEW d \in Consumers
                PROVE  Breaker(d)!Next \/ (failures'[d] = failures[d] /\ mode'[d] = mode[d])
    OBVIOUS
  <2>. USE DEF TypeOK
  <2>1. CASE failures' = failures /\ mode' = mode
    BY <2>1
  <2>2. ASSUME NEW c \in Consumers, NEW m \in Messages, Take(c, m)
        PROVE  Breaker(d)!Next \/ (failures'[d] = failures[d] /\ mode'[d] = mode[d])
    BY <2>2 DEF Take, CanExecute, Recovered, Breaker!Next, Breaker!Admit
  <2>3. ASSUME NEW c \in Consumers, BreakerElapses(c)
        PROVE  Breaker(d)!Next \/ (failures'[d] = failures[d] /\ mode'[d] = mode[d])
    BY <2>3 DEF BreakerElapses, Breaker!Next, Breaker!Elapse
  <2>4. ASSUME NEW c \in Consumers, RecordSuccess(c)
        PROVE  Breaker(d)!Next \/ (failures'[d] = failures[d] /\ mode'[d] = mode[d])
    BY <2>4 DEF RecordSuccess, Breaker!Next, Breaker!Success
  <2>5. ASSUME NEW c \in Consumers, RecordFailure(c)
        PROVE  Breaker(d)!Next \/ (failures'[d] = failures[d] /\ mode'[d] = mode[d])
    BY <2>5 DEF RecordFailure, Breaker!Next, Breaker!Failure
  <2>6. \/ UNCHANGED breakerVars
        \/ \E c \in Consumers : \/ \E m \in Messages : Take(c, m)
                                \/ BreakerElapses(c) \/ RecordSuccess(c) \/ RecordFailure(c)
    BY DEF Next, Handle, DropNoId, Reject, IsProcessed, MarkAsProcessing, Send,
           MarkAsProcessed, ClearProcessing, Settle, LoseConnection, Restart, Deliver,
           Evict, vars
  <2>7. QED
    BY <2>1, <2>2, <2>3, <2>4, <2>5, <2>6
<1>3. QED
  BY <1>1, <1>2, ConsumerTypes, PTL DEF Spec, BreakersKeepTheirModes
=============================================================================
