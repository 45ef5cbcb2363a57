---------------------------- MODULE Subscription ----------------------------
(***************************************************************************)
(* The subscription service: the HTTP requests POST /subscribe,            *)
(* GET /confirm/:token and GET /unsubscribe/:token, the subscriptions      *)
(* table they share, and the two scheduler entry points that read it.      *)
(*                                                                         *)
(* Every request runs in a goroutine of its own and touches the database   *)
(* in separate calls with no transaction around them, so a request is a    *)
(* small process: one action per call that leaves the process (weather     *)
(* service, database, broker), with the code between two calls folded into *)
(* the first of them.  What GetByEmail returned is kept in `pending` until *)
(* the Save that writes it back.  The answer is a step of its own: other   *)
(* requests may save between a handler's last call and its answer.         *)
(***************************************************************************)
EXTENDS Integers, FiniteSets

CONSTANTS
  Emails,          \* addresses
  Cities,          \* city names
  Frequencies,     \* "daily" and "hourly"
  Requests,        \* HTTP requests the server may get; each runs once
  MaxInFlight,     \* bound: requests the clients keep in flight together
  TokenLifetime,   \* the 24 hours of a link, in ticks of the clock
  TicksPerHour,    \* ticks of the clock in one hour
  MaxTime,         \* bound on the clock
  NoRow,           \* "no such record", in the table and in a handler
  NoCall           \* a request that has not arrived yet

VARIABLES
  rows,            \* the subscriptions table: email -> its row or NoRow
  call,            \* request -> what it asks for
  stage,           \* request -> the call its handler is about to make, or its answer
  pending,         \* request -> the record its handler is about to save
  reply,           \* request -> how it is answered, or is about to be
  tasks,           \* report tasks generated and not yet processed
  mail,            \* messages handed to the broker
  now              \* the clock

requestVars == <<call, stage, pending, reply>>
vars == <<rows, call, stage, pending, reply, tasks, mail, now>>

Token   == [email : Emails, exp : Nat]
Row     == [city : Cities, freq : Frequencies, token : Token,
            confirmed : BOOLEAN, unsubscribed : BOOLEAN]
Task    == [email : Emails, city : Cities, token : Token]
SubscribeCall == [op : {"subscribe"}, email : Emails, city : Cities, freq : Frequencies]
LinkCall      == [op : {"confirm", "unsubscribe"}, email : Emails, token : Token]
Confirmation  == [kind : {"confirmation"}, to : Emails, token : Token]
Report  == [kind : {"report"}, to : Emails, city : Cities, token : Token, hour : Nat]
Message == Confirmation \cup Report
Stages  == {"idle", "read", "create", "update", "publish", "answer", "done"}
Replies == {"none", "ok", "exists", "city_not_found", "invalid_token",
            "not_found", "failed", "lost"}

ASSUME SubscriptionAssumption ==
  /\ MaxInFlight \in Nat
  /\ TokenLifetime \in Nat
  /\ TicksPerHour \in Nat \ {0}
  /\ MaxTime \in Nat
  /\ NoRow \notin Row
  /\ NoCall \notin SubscribeCall \cup LinkCall

-----------------------------------------------------------------------------
(* Tokens and rows *)

\* Mutated form of NewToken: the lifetime is taken from the time of issue.
NewTokenInThePast(e) == [email |-> e, exp |-> now - TokenLifetime]

NewToken(e) == [email |-> e, exp |-> now + TokenLifetime]

\* jwt.Parse: the signature of an issued token is right, so only `exp` decides.
Expired(t) == now >= t.exp

\* Mutated form of GetByEmail: the Where clause is lost, any row will do.
GetByEmailAnyRow(e) ==
  IF \E d \in Emails : rows[d] # NoRow THEN rows[CHOOSE d \in Emails : rows[d] # NoRow]
                                     ELSE NoRow

GetByEmail(e) == rows[e]

\* Mutated form of Active: the negation is lost.
ActiveUnnegated(row) == row.confirmed /\ row.unsubscribed

Active(row) == row.confirmed /\ ~row.unsubscribed

\* Mutated form of FreshRow: stored as confirmed.
FreshRowConfirmed(c, t) ==
  [city |-> c.city, freq |-> c.freq, token |-> t,
   confirmed |-> TRUE, unsubscribed |-> FALSE]

\* The record a Subscribe stores, whatever was there before.
FreshRow(c, t) ==
  [city |-> c.city, freq |-> c.freq, token |-> t,
   confirmed |-> FALSE, unsubscribed |-> FALSE]

\* What Confirm and Unsubscribe find already done, and what they change.
AlreadyDone(op, row) == IF op = "confirm" THEN row.confirmed ELSE row.unsubscribed

\* Mutated form of LinkEdit: Unsubscribe clears the confirmation instead.
LinkEditUnconfirms(op, row) == [row EXCEPT !.confirmed = op = "confirm"]

\* Mutated form of LinkEdit: Confirm also clears the opt-out.
LinkEditReopens(op, row) ==
  IF op = "confirm" THEN [row EXCEPT !.confirmed = TRUE, !.unsubscribed = FALSE]
                    ELSE [row EXCEPT !.unsubscribed = TRUE]

LinkEdit(op, row) == IF op = "confirm" THEN [row EXCEPT !.confirmed = TRUE]
                                       ELSE [row EXCEPT !.unsubscribed = TRUE]

\* Mutated form of Saved: an update that leaves a column out.
SavedWithoutFrequency(old, new) == [new EXCEPT !.freq = old.freq]

\* gorm's Save writes every column of the record it is given.
Saved(old, new) == new

\* Mutated form of FirstWrite: the link is mailed without an insert.
FirstWriteSkipped(existing) == IF existing = NoRow THEN "publish" ELSE "update"

\* A Subscribe that found no row inserts, the others update.
FirstWrite(existing) == IF existing = NoRow THEN "create" ELSE "update"

-----------------------------------------------------------------------------
(* Requests *)

InFlight == {r \in Requests : stage[r] \notin {"idle", "done"}}

\* The handler has nothing left to do but to answer.
Answer(r, a) == /\ stage' = [stage EXCEPT ![r] = "answer"]
                /\ reply' = [reply EXCEPT ![r] = a]

Goto(r, s) == stage' = [stage EXCEPT ![r] = s] /\ UNCHANGED reply

Arrives(r, c) == /\ stage[r] = "idle"
                 /\ Cardinality(InFlight) < MaxInFlight
                 /\ call' = [call EXCEPT ![r] = c]
                 /\ UNCHANGED <<rows, pending, tasks, mail, now>>

\* Subscribe up to the answer of the weather service: CityIsValid's boolean is
\* dropped, only its error stops the request.
BeginSubscribe(r) ==
  /\ \E c \in SubscribeCall : Arrives(r, c)
  /\ \/ Goto(r, "read")
     \/ \E a \in {"city_not_found", "failed"} : Answer(r, a)

\* Confirm and Unsubscribe up to Parse.  People hold the tokens that were mailed to them,
\* and either route takes any of these; a token is not looked at again after Parse.
BeginLink(r) ==
  /\ \E m \in mail, op \in {"confirm", "unsubscribe"} :
        /\ Arrives(r, [op |-> op, email |-> m.token.email, token |-> m.token])
        /\ IF Expired(m.token) THEN Answer(r, "invalid_token") ELSE Goto(r, "read")

\* GetByEmail and what follows it up to the next call, per operation.
ReadForSubscribe(r) ==
  LET c == call[r]
      existing == GetByEmail(c.email)
  IN /\ stage[r] = "read" /\ c.op = "subscribe"
     /\ IF existing # NoRow /\ Active(existing)
        THEN Answer(r, "exists") /\ UNCHANGED pending
        ELSE /\ pending' = [pending EXCEPT ![r] = FreshRow(c, NewToken(c.email))]
             /\ Goto(r, FirstWrite(existing))
     /\ UNCHANGED <<rows, call, tasks, mail, now>>

ReadForLink(r) ==
  LET c == call[r]
      existing == GetByEmail(c.email)
  IN /\ stage[r] = "read" /\ c.op # "subscribe"
     /\ IF existing = NoRow THEN Answer(r, "not_found") /\ UNCHANGED pending
        ELSE IF AlreadyDone(c.op, existing) THEN Answer(r, "ok") /\ UNCHANGED pending
        ELSE /\ pending' = [pending EXCEPT ![r] = LinkEdit(c.op, existing)]
             /\ Goto(r, "update")
     /\ UNCHANGED <<rows, call, tasks, mail, now>>

\* A write that was applied still fails for the caller when the request's context
\* ends or the connection breaks before the database's answer arrives.
AfterWrite(r) == \/ IF call[r].op = "subscribe" THEN Goto(r, "publish") ELSE Answer(r, "ok")
                 \/ Answer(r, "failed")

\* The insert: the unique index on email refuses a second row.
Create(r) ==
  LET e == call[r].email
  IN /\ stage[r] = "create"
     /\ IF rows[e] = NoRow
        THEN rows' = [rows EXCEPT ![e] = pending[r]] /\ AfterWrite(r)
        ELSE Answer(r, "failed") /\ UNCHANGED rows
     /\ UNCHANGED <<call, pending, tasks, mail, now>>

\* The update: the whole record as it was read, whatever happened to the row since.
Update(r) ==
  LET e == call[r].email
  IN /\ stage[r] = "update"
     /\ rows' = [rows EXCEPT ![e] = Saved(rows[e], pending[r])]
     /\ AfterWrite(r)
     /\ UNCHANGED <<call, pending, tasks, mail, now>>

\* A repository call that fails without effect.
RepoFails(r) ==
  /\ stage[r] \in {"read", "create", "update"}
  /\ Answer(r, "failed")
  /\ UNCHANGED <<rows, call, pending, tasks, mail, now>>

\* SendConfirmationEmail; its failure is only logged.
Publish(r) ==
  /\ stage[r] = "publish"
  /\ \/ mail' = mail \cup {[kind |-> "confirmation", to |-> call[r].email,
                            token |-> pending[r].token]}
     \/ UNCHANGED mail
  /\ Answer(r, "ok")
  /\ UNCHANGED <<rows, call, pending, tasks, now>>

\* The client is told.
Respond(r) ==
  /\ stage[r] = "answer"
  /\ stage' = [stage EXCEPT ![r] = "done"]
  /\ UNCHANGED <<rows, call, pending, reply, tasks, mail, now>>

-----------------------------------------------------------------------------
(* Scheduler entry points *)

Due(f) == {e \in Emails : rows[e] # NoRow /\ Active(rows[e]) /\ rows[e].freq = f}

GenerateWeatherReportTasks(f) ==
  /\ tasks' = tasks \cup {[email |-> e, city |-> rows[e].city, token |-> rows[e].token]
                           : e \in Due(f)}
  /\ UNCHANGED <<rows, call, stage, pending, reply, mail, now>>

ReportFor(t) == [kind |-> "report", to |-> t.email, city |-> t.city,
                 token |-> t.token, hour |-> now \div TicksPerHour]

\* The task is gone whether its report was published or GetWeather or Publish failed.
ProcessWeatherReportTask(t) ==
  /\ t \in tasks
  /\ tasks' = tasks \ {t}
  /\ mail' \in {mail, mail \cup {ReportFor(t)}}
  /\ UNCHANGED <<rows, call, stage, pending, reply, now>>

-----------------------------------------------------------------------------
(* Environment *)

Tick == now < MaxTime /\ now' = now + 1 /\ UNCHANGED <<rows, requestVars, tasks, mail>>

\* The process stops and starts again: requests under way get no answer, queued
\* tasks are gone, the table and the broker keep what they have.
Restart ==
  /\ InFlight # {} \/ tasks # {}
  /\ stage' = [r \in Requests |-> IF r \in InFlight THEN "done" ELSE stage[r]]
  /\ reply' = [r \in Requests |-> IF r \in InFlight THEN "lost" ELSE reply[r]]
  /\ tasks' = {}
  /\ UNCHANGED <<rows, call, pending, mail, now>>

Init ==
  /\ rows = [e \in Emails |-> NoRow]
  /\ call = [r \in Requests |-> NoCall]
  /\ stage = [r \in Requests |-> "idle"]
  /\ pending = [r \in Requests |-> NoRow]
  /\ reply = [r \in Requests |-> "none"]
  /\ tasks = {} /\ mail = {} /\ now = 0

Handler(r) ==
  \/ BeginSubscribe(r) \/ BeginLink(r)
  \/ ReadForSubscribe(r) \/ ReadForLink(r)
  \/ Create(r) \/ Update(r) \/ RepoFails(r) \/ Publish(r) \/ Respond(r)

Next ==
  \/ \E r \in Requests : Handler(r)
  \/ \E f \in Frequencies : GenerateWeatherReportTasks(f)
  \/ \E t \in tasks : ProcessWeatherReportTask(t)
  \/ Tick
  \/ Restart

Spec == Init /\ [][Next]_vars

-----------------------------------------------------------------------------
(* Properties *)

\* Every variable has its type; a handler that is about to write holds a record.
TypeOK ==
  /\ rows \in [Emails -> Row \cup {NoRow}]
  /\ call \in [Requests -> SubscribeCall \cup LinkCall \cup {NoCall}]
  /\ stage \in [Requests -> Stages]
  /\ pending \in [Requests -> Row \cup {NoRow}]
  /\ reply \in [Requests -> Replies]
  /\ tasks \subseteq Task
  /\ mail \subseteq Message
  /\ now \in Nat

\* The owner of the address followed a confirm link that was still valid.
Consented(e) ==
  \E r \in Requests : /\ call[r] # NoCall /\ call[r].op = "confirm"
                      /\ call[r].email = e /\ reply[r] # "invalid_token"

\* Double opt-in: no address is active, has a report task or was sent a report before
\* its owner followed a valid confirm link, in any interleaving of read and save.
Consent ==
  /\ \A e \in Emails : rows[e] # NoRow /\ rows[e].confirmed => Consented(e)
  /\ \A t \in tasks : Consented(t.email)
  /\ \A m \in mail : m.kind = "report" => Consented(m.to)

\* A link mailed to one address confirms or unsubscribes that address only: the email
\* inside every token that is stored, queued or mailed is the recipient's own.
LinksActOnAddressee ==
  /\ \A e \in Emails : rows[e] # NoRow => rows[e].token.email = e
  /\ \A t \in tasks : t.token.email = t.email
  /\ \A m \in mail : m.token.email = m.to

\* The Subscribe request whose form a record's city, frequency and token came from.
From(r, e, row) ==
  /\ call[r] # NoCall /\ call[r].op = "subscribe" /\ call[r].email = e
  /\ pending[r] # NoRow
  /\ row.city = pending[r].city /\ row.freq = pending[r].freq /\ row.token = pending[r].token

\* Racing saves lose updates but never mix them: city, frequency and token of a stored
\* row all come from one Subscribe request, since Save writes the whole record.
RowFromOneSubscribe ==
  \A e \in Emails : rows[e] # NoRow => \E r \in Requests : From(r, e, rows[e])

\* The row is stored before its link is mailed and is never deleted, so a mailed link
\* always finds its subscription: "not found" is answered to nobody who was sent one.
LinksNeverDangle ==
  /\ \A m \in mail : rows[m.to] # NoRow
  /\ \A r \in Requests : reply[r] # "not_found"

IsActive(e) == rows[e] # NoRow /\ Active(rows[e])

\* Whatever stale record is saved, only a Confirm makes an address active: neither a
\* repeated Subscribe nor an Unsubscribe can switch reports on.
OnlyConfirmActivates ==
  [][\A e \in Emails : ~IsActive(e) /\ IsActive(e)' =>
        \E r \in Requests : /\ stage[r] = "update" /\ stage'[r] = "answer"
                            /\ call[r].op = "confirm" /\ call[r].email = e]_vars

\* When Confirm or Unsubscribe answers success, the row says so.  Only requests that do
\* not overlap keep this: a save that read the row before may come before the answer.
AnswersMatchTheRow ==
  [][\A r \in Requests :
        stage[r] = "answer" /\ stage'[r] = "done" /\ reply'[r] = "ok" =>
          CASE call[r].op = "confirm"     -> rows[call[r].email].confirmed
            [] call[r].op = "unsubscribe" -> rows[call[r].email].unsubscribed
            [] OTHER                      -> TRUE]_vars

\* An opt-out has settled once no save that read the row before it and no report task
\* made before it is left.
OptOutSettled(e) ==
  /\ rows[e] # NoRow /\ rows[e].unsubscribed
  /\ \A r \in Requests : stage[r] = "update" /\ call[r].email = e => pending[r].unsubscribed
  /\ \A t \in tasks : t.email # e

ReportsTo(e) == {m \in mail : m.kind = "report" /\ m.to = e}

\* Overlapping saves and queued tasks can delay an opt-out but not more: a settled one
\* stays so, and sends no report, until a new Subscribe of the address has read the row,
\* whatever confirm link, retry, report round or restart comes.
OptOutsLast ==
  [][\A e \in Emails : OptOutSettled(e) =>
        /\ ReportsTo(e)' = ReportsTo(e)
        /\ \/ OptOutSettled(e)'
           \/ \E r \in Requests : /\ stage[r] = "read" /\ stage'[r] = "update"
                                  /\ call[r].op = "subscribe" /\ call[r].email = e]_vars

\* The abstract lifecycle of each address, read off its row.
Status(row) == IF row = NoRow THEN "absent"
               ELSE IF row.unsubscribed THEN "ended"
               ELSE IF row.confirmed THEN "active" ELSE "pending"

Abstract == INSTANCE Lifecycle WITH status <- [e \in Emails |-> Status(rows[e])]

\* Requests that do not overlap keep the lifecycle: pending, active, ended, and back
\* only by subscribing again; each handler's reads and saves amount to one atomic step.
ImplementsLifecycle == Abstract!Spec

(* What a document says of the service and the code does not keep *)

\* "Unsubscribed users are excluded from future emails": an unsubscribed row stays so
\* until its owner subscribes again.
UnsubscribedStaysOut ==
  [][\A e \in Emails : rows[e] # NoRow /\ rows[e].unsubscribed /\ ~rows'[e].unsubscribed =>
        \E r \in Requests : /\ stage[r] = "update" /\ stage'[r] # "update"
                            /\ call[r].op = "subscribe" /\ call[r].email = e]_vars
=============================================================================
