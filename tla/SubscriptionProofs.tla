-------------------------- MODULE SubscriptionProofs --------------------------
(***************************************************************************)
(* Proofs about Subscription: its types and its safety properties, for any *)
(* number of requests, addresses and ticks of the clock.                   *)
(***************************************************************************)
EXTENDS Subscription, FiniteSetTheorems, TLAPS

-----------------------------------------------------------------------------
(* The inductive invariant *)

\* What holds of every record of an address, stored or about to be: its link is the
\* address's own, its owner confirmed if it says so, and one Subscribe is its origin.
Sound(e, row) ==
  /\ row \in Row /\ row.token.email = e
  /\ row.confirmed => Consented(e)
  /\ \E q \in Requests : From(q, e, row)

\* What a request has behind it at its stage.
Known(r) ==
  /\ stage[r] = "idle" <=> call[r] = NoCall
  /\ stage[r] \in {"idle", "read"} => pending[r] = NoRow
  /\ stage[r] \notin {"answer", "done"} => reply[r] = "none"
  /\ reply[r] # "not_found"
  /\ stage[r] \in {"create", "publish"} => call[r].op = "subscribe"
  /\ stage[r] \in {"create", "update", "publish"} => pending[r] # NoRow
  /\ stage[r] = "publish" => rows[call[r].email] # NoRow
  /\ call[r] \in LinkCall => rows[call[r].email] # NoRow

\* What the record that a request saves is.
Held(r) ==
  pending[r] # NoRow =>
    /\ call[r] # NoCall /\ Sound(call[r].email, pending[r])
    /\ call[r].op = "subscribe"   => ~pending[r].confirmed
    /\ call[r].op = "confirm"     => pending[r].confirmed
    /\ call[r].op = "unsubscribe" => pending[r].unsubscribed

SoundTask(t) == t.token.email = t.email /\ Consented(t.email) /\ rows[t.email] # NoRow

SoundMail(m) == /\ m.token.email = m.to /\ rows[m.to] # NoRow
                /\ m.kind = "report" => Consented(m.to)

Inv ==
  /\ TypeOK
  /\ \A r \in Requests : Known(r) /\ Held(r)
  /\ \A e \in Emails : rows[e] # NoRow => Sound(e, rows[e])
  /\ \A t \in tasks : SoundTask(t)
  /\ \A m \in mail : SoundMail(m)

-----------------------------------------------------------------------------
(* What no step takes back *)

\* A request that came stays what it is, and refused or not; a record that is held stays
\* held; a row that was written stays there.
Steady ==
  /\ \A q \in Requests :
       /\ call[q] # NoCall => call'[q] = call[q]
       /\ call[q] # NoCall /\ reply[q] # "invalid_token" => reply'[q] # "invalid_token"
       /\ pending[q] # NoRow => pending'[q] = pending[q]
  /\ \A e \in Emails : rows[e] # NoRow => rows'[e] # NoRow

LEMMA ConsentLasts ==
  ASSUME Steady, NEW e, Consented(e)
  PROVE  Consented(e)'
BY DEF Steady, Consented

LEMMA SoundLasts ==
  ASSUME Steady, NEW e, NEW row, Sound(e, row)
  PROVE  Sound(e, row)'
BY ConsentLasts DEF Steady, Sound, From

LEMMA TasksLast ==
  ASSUME Steady, TypeOK, NEW t \in Task, SoundTask(t)
  PROVE  SoundTask(t)'
BY ConsentLasts DEF Steady, SoundTask, Task

LEMMA MailLasts ==
  ASSUME Steady, TypeOK, NEW m \in Message, SoundMail(m)
  PROVE  SoundMail(m)'
BY ConsentLasts DEF Steady, SoundMail, Message, Confirmation, Report

LEMMA EmailOfCall ==
  ASSUME TypeOK, NEW r \in Requests, call[r] # NoCall
  PROVE  call[r] \in SubscribeCall \cup LinkCall /\ call[r].email \in Emails
BY DEF TypeOK, SubscribeCall, LinkCall

\* A request that does nothing in a step.
Rests(q) == /\ call'[q] = call[q] /\ stage'[q] = stage[q]
            /\ pending'[q] = pending[q] /\ reply'[q] = reply[q]

LEMMA RestingStays ==
  ASSUME Steady, TypeOK, NEW q \in Requests, Rests(q), Known(q), Held(q)
  PROVE  Known(q)' /\ Held(q)'
<1>1. call[q] # NoCall => call[q].email \in Emails
  BY EmailOfCall
<1>2. Known(q)'
  BY <1>1, SubscriptionAssumption DEF Known, Rests, Steady
<1>3. Held(q)'
  BY SoundLasts DEF Held, Rests
<1>. QED  BY <1>2, <1>3

\* A step of one request keeps the invariant when what it changes is sound.
LEMMA OneRequest ==
  ASSUME Inv, Steady, TypeOK', NEW r \in Requests, \A q \in Requests \ {r} : Rests(q),
         Known(r)', Held(r)',
         \A e \in Emails : rows'[e] = rows[e] \/ Sound(e, rows[e])',
         tasks' = tasks, \A m \in mail' : m \in mail \/ SoundMail(m)'
  PROVE  Inv'
<1>. USE DEF Inv
<1>1. \A q \in Requests : Known(q)' /\ Held(q)'
  BY RestingStays
<1>2. ASSUME NEW e \in Emails, rows'[e] # NoRow  PROVE Sound(e, rows[e])'
  <2>1. CASE rows'[e] = rows[e]
    BY <1>2, <2>1, SoundLasts
  <2>. QED  BY <2>1
<1>3. \A t \in tasks' : SoundTask(t)'
  BY TasksLast DEF TypeOK
<1>4. \A m \in mail' : SoundMail(m)'
  BY MailLasts DEF TypeOK
<1>. QED  BY <1>1, <1>2, <1>3, <1>4

-----------------------------------------------------------------------------
(* Steps of requests *)

LEMMA Moved ==
  ASSUME TypeOK, NEW r \in Requests, NEW s \in Stages, Goto(r, s)
  PROVE  /\ stage' \in [Requests -> Stages] /\ reply' = reply /\ stage'[r] = s
         /\ \A q \in Requests \ {r} : stage'[q] = stage[q]
BY DEF Goto, TypeOK

LEMMA Answered ==
  ASSUME TypeOK, NEW r \in Requests, NEW a \in Replies, Answer(r, a)
  PROVE  /\ stage' \in [Requests -> Stages] /\ reply' \in [Requests -> Replies]
         /\ stage'[r] = "answer" /\ reply'[r] = a
         /\ \A q \in Requests \ {r} : stage'[q] = stage[q] /\ reply'[q] = reply[q]
BY DEF Answer, TypeOK, Stages

\* A request that comes, up to its first call or its answer.
LEMMA ArrivalKeepsInv ==
  ASSUME Inv, NEW r \in Requests, NEW c \in SubscribeCall \cup LinkCall, Arrives(r, c),
         c \in LinkCall => rows[c.email] # NoRow,
         \/ Goto(r, "read")
         \/ \E a \in Replies \ {"none", "not_found"} : Answer(r, a)
  PROVE  Inv'
<1>. USE DEF Inv
<1>1. /\ stage[r] = "idle" /\ call' = [call EXCEPT ![r] = c]
      /\ UNCHANGED <<rows, pending, tasks, mail, now>>
  BY DEF Arrives
<1>2. call[r] = NoCall /\ pending[r] = NoRow /\ reply[r] = "none"
  BY <1>1 DEF Known
<1>3. /\ stage' \in [Requests -> Stages] /\ reply' \in [Requests -> Replies]
      /\ \A q \in Requests \ {r} : stage'[q] = stage[q] /\ reply'[q] = reply[q]
      /\ \/ stage'[r] = "read" /\ reply'[r] = "none"
         \/ stage'[r] = "answer" /\ reply'[r] # "not_found"
  <2>1. CASE Goto(r, "read")
    BY <1>2, <2>1, Moved DEF Stages, TypeOK
  <2>2. ASSUME NEW a \in Replies \ {"none", "not_found"}, Answer(r, a)
        PROVE  /\ stage' \in [Requests -> Stages] /\ reply' \in [Requests -> Replies]
               /\ \A q \in Requests \ {r} : stage'[q] = stage[q] /\ reply'[q] = reply[q]
               /\ stage'[r] = "answer" /\ reply'[r] # "not_found"
    BY <2>2, Answered
  <2>. QED  BY <2>1, <2>2
<1>4. call' \in [Requests -> SubscribeCall \cup LinkCall \cup {NoCall}] /\ call'[r] = c
      /\ \A q \in Requests \ {r} : call'[q] = call[q]
  BY <1>1 DEF TypeOK
<1>5. TypeOK'
  BY <1>1, <1>3, <1>4 DEF TypeOK
<1>6. Steady
  BY <1>1, <1>2, <1>3, <1>4 DEF Steady
<1>7. Known(r)' /\ Held(r)'
  BY <1>1, <1>2, <1>3, <1>4, SubscriptionAssumption DEF Known, Held
<1>. QED  BY <1>1, <1>3, <1>4, <1>5, <1>6, <1>7, OneRequest DEF Rests

LEMMA BeginningsKeepInv ==
  ASSUME Inv, NEW r \in Requests, BeginSubscribe(r) \/ BeginLink(r)
  PROVE  Inv'
<1>1. CASE BeginSubscribe(r)
  <2>1. PICK c \in SubscribeCall : Arrives(r, c)
    BY <1>1 DEF BeginSubscribe
  <2>2. c \notin LinkCall
    BY DEF SubscribeCall, LinkCall
  <2>3. Goto(r, "read") \/ \E a \in Replies \ {"none", "not_found"} : Answer(r, a)
    BY <1>1 DEF BeginSubscribe, Replies
  <2>. QED  BY <2>1, <2>2, <2>3, ArrivalKeepsInv
<1>2. CASE BeginLink(r)
  <2>1. PICK m \in mail, op \in {"confirm", "unsubscribe"} :
          /\ Arrives(r, [op |-> op, email |-> m.token.email, token |-> m.token])
          /\ IF Expired(m.token) THEN Answer(r, "invalid_token") ELSE Goto(r, "read")
    BY <1>2 DEF BeginLink
  <2>. DEFINE c == [op |-> op, email |-> m.token.email, token |-> m.token]
  <2>2. m \in Message /\ SoundMail(m)
    BY DEF Inv, TypeOK
  <2>3. c \in LinkCall
    <3>1. m.token \in Token /\ m.token.email \in Emails
      BY <2>2 DEF Message, Confirmation, Report, Token
    <3>. QED  BY <3>1 DEF LinkCall
  <2>4. rows[c.email] # NoRow
    BY <2>2 DEF SoundMail
  <2>5. Goto(r, "read") \/ \E a \in Replies \ {"none", "not_found"} : Answer(r, a)
    BY <2>1 DEF Replies
  <2>. QED  BY <2>1, <2>3, <2>4, <2>5, ArrivalKeepsInv
<1>. QED  BY <1>1, <1>2

\* A request that is on its way and is answered without holding or writing anything new.
LEMMA AnswerKeepsInv ==
  ASSUME Inv, NEW r \in Requests, stage[r] \notin {"idle", "answer", "done"},
         NEW a \in Replies \ {"not_found"},
         Answer(r, a), UNCHANGED <<rows, call, pending, tasks, mail, now>>,
         a # "invalid_token"
  PROVE  Inv'
<1>. USE DEF Inv
<1>1. /\ stage' \in [Requests -> Stages] /\ reply' \in [Requests -> Replies]
      /\ stage'[r] = "answer" /\ reply'[r] = a
      /\ \A q \in Requests \ {r} : stage'[q] = stage[q] /\ reply'[q] = reply[q]
  BY Answered
<1>2. TypeOK'
  BY <1>1 DEF TypeOK
<1>3. Steady
  BY <1>1 DEF Steady
<1>4. Known(r)'
  BY <1>1 DEF Known
<1>5. Held(r)'
  BY <1>3, SoundLasts DEF Held
<1>. QED  BY <1>1, <1>2, <1>3, <1>4, <1>5, OneRequest DEF Rests

\* A request that now holds the record it is about to save.
LEMMA HoldingKeepsInv ==
  ASSUME Inv, NEW r \in Requests, stage[r] = "read", NEW row, NEW s \in {"create", "update"},
         pending' = [pending EXCEPT ![r] = row], Goto(r, s),
         UNCHANGED <<rows, call, tasks, mail, now>>,
         row \in Row, row.token.email = call[r].email,
         row.confirmed => Consented(call[r].email),
         \E q \in Requests : From(q, call[r].email, row)',
         call[r].op = "subscribe"   => ~row.confirmed,
         call[r].op = "confirm"     => row.confirmed,
         call[r].op = "unsubscribe" => row.unsubscribed,
         s = "create" => call[r].op = "subscribe"
  PROVE  Inv'
<1>. USE DEF Inv
<1>1. /\ stage' \in [Requests -> Stages] /\ reply' = reply /\ stage'[r] = s
      /\ \A q \in Requests \ {r} : stage'[q] = stage[q]
  BY Moved DEF Stages
<1>2. pending' \in [Requests -> Row \cup {NoRow}] /\ pending'[r] = row
      /\ \A q \in Requests \ {r} : pending'[q] = pending[q]
  BY DEF TypeOK
<1>3. pending[r] = NoRow /\ call[r] # NoCall /\ reply[r] = "none"
  BY DEF Known
<1>4. TypeOK'
  BY <1>1, <1>2 DEF TypeOK
<1>5. Steady
  BY <1>1, <1>2, <1>3 DEF Steady
<1>6. Known(r)'
  BY <1>1, <1>2, <1>3, SubscriptionAssumption DEF Known
<1>7. Held(r)'
  BY <1>2, <1>3, <1>5, ConsentLasts DEF Held, Sound
<1>. QED  BY <1>1, <1>2, <1>4, <1>5, <1>6, <1>7, OneRequest DEF Rests

\* What GetByEmail finds, and the record made of it.
LEMMA ReadingsKeepInv ==
  ASSUME Inv, NEW r \in Requests, ReadForSubscribe(r) \/ ReadForLink(r)
  PROVE  Inv'
<1>. USE DEF Inv
<1>. DEFINE c == call[r]
            existing == rows[c.email]
<1>1. /\ stage[r] = "read" /\ UNCHANGED <<rows, call, tasks, mail, now>>
      /\ c # NoCall /\ c.email \in Emails /\ c \in SubscribeCall \cup LinkCall
  BY EmailOfCall DEF ReadForSubscribe, ReadForLink, Known
<1>2. existing # NoRow => Sound(c.email, existing) /\ existing \in Row
  BY <1>1 DEF Sound
<1>3. CASE ReadForSubscribe(r)
  <2>1. c.op = "subscribe" /\ c \in SubscribeCall
    BY <1>1, <1>3 DEF ReadForSubscribe, LinkCall
  <2>2. CASE Answer(r, "exists") /\ UNCHANGED pending
    BY <1>1, <2>2, AnswerKeepsInv DEF Replies
  <2>3. CASE /\ pending' = [pending EXCEPT ![r] = FreshRow(c, NewToken(c.email))]
             /\ Goto(r, FirstWrite(existing))
    <3>1. PICK row \in Row : /\ row = FreshRow(c, NewToken(c.email)) /\ ~row.confirmed
                            /\ row.token.email = c.email
      <4>1. NewToken(c.email) \in Token /\ NewToken(c.email).email = c.email
        BY <1>1, SubscriptionAssumption DEF NewToken, Token, TypeOK
      <4>2. c.city \in Cities /\ c.freq \in Frequencies
        BY <2>1 DEF SubscribeCall
      <4>3. FreshRow(c, NewToken(c.email)) \in Row
        BY <4>1, <4>2 DEF FreshRow, Row
      <4>. QED  BY <4>1, <4>3 DEF FreshRow
    <3>2. From(r, call[r].email, row)'
      <4>1. pending'[r] = row /\ row # NoRow
        BY <2>3, <3>1, SubscriptionAssumption DEF TypeOK
      <4>. QED  BY <1>1, <2>1, <4>1 DEF From
    <3>3. FirstWrite(existing) \in {"create", "update"}
      BY DEF FirstWrite
    <3>. QED  BY <1>1, <2>1, <2>3, <3>1, <3>2, <3>3, HoldingKeepsInv
  <2>. QED  BY <1>3, <2>2, <2>3 DEF ReadForSubscribe, GetByEmail
<1>4. CASE ReadForLink(r)
  <2>1. c.op \in {"confirm", "unsubscribe"} /\ c \in LinkCall
    BY <1>1, <1>4 DEF ReadForLink, SubscribeCall, LinkCall
  <2>2. existing # NoRow
    BY <2>1 DEF Known
  <2>3. CASE Answer(r, "ok") /\ UNCHANGED pending
    BY <1>1, <2>3, AnswerKeepsInv DEF Replies
  <2>4. CASE pending' = [pending EXCEPT ![r] = LinkEdit(c.op, existing)] /\ Goto(r, "update")
    <3>. DEFINE row == LinkEdit(c.op, existing)
    <3>1. /\ row \in Row /\ row.token = existing.token
          /\ row.city = existing.city /\ row.freq = existing.freq
          /\ c.op = "confirm" => row.confirmed
          /\ c.op = "unsubscribe" => row.unsubscribed /\ row.confirmed = existing.confirmed
      BY <1>2, <2>1, <2>2 DEF LinkEdit, Row
    <3>2. row.confirmed => Consented(c.email)
      <4>1. c.op = "confirm" => Consented(c.email)
        BY <1>1 DEF Consented, Known
      <4>. QED  BY <1>2, <2>1, <2>2, <3>1, <4>1 DEF Sound
    <3>3. \E q \in Requests : From(q, c.email, row)'
      <4>1. PICK q \in Requests : From(q, c.email, existing)
        BY <1>2, <2>2 DEF Sound
      <4>2. q # r /\ pending'[q] = pending[q]
        BY <1>1, <2>4, <4>1 DEF From, Known, TypeOK
      <4>. QED  BY <1>1, <3>1, <4>1, <4>2 DEF From
    <3>4. row.token.email = c.email
      BY <1>2, <2>2, <3>1 DEF Sound
    <3>. QED  BY <1>1, <2>1, <2>4, <3>1, <3>2, <3>3, <3>4, HoldingKeepsInv
  <2>. QED  BY <1>4, <2>2, <2>3, <2>4 DEF ReadForLink, GetByEmail
<1>. QED  BY <1>3, <1>4

\* A save that the database applied, whatever the handler is told.
LEMMA WritingKeepsInv ==
  ASSUME Inv, NEW r \in Requests, stage[r] \in {"create", "update"}, AfterWrite(r),
         rows' = [rows EXCEPT ![call[r].email] = pending[r]],
         UNCHANGED <<call, pending, tasks, mail, now>>
  PROVE  Inv'
<1>. USE DEF Inv
<1>1. call[r] # NoCall /\ pending[r] # NoRow /\ reply[r] = "none"
  BY DEF Known
<1>2. PICK e \in Emails, row \in Row : e = call[r].email /\ row = pending[r]
  BY <1>1, EmailOfCall DEF TypeOK
<1>3. row # NoRow /\ Sound(e, row)
  BY <1>1, <1>2 DEF Held
<1>4. /\ rows' \in [Emails -> Row \cup {NoRow}] /\ rows'[e] = row
      /\ \A d \in Emails \ {e} : rows'[d] = rows[d]
  BY <1>2 DEF TypeOK
<1>5. /\ stage' \in [Requests -> Stages] /\ reply' \in [Requests -> Replies]
      /\ \A q \in Requests \ {r} : stage'[q] = stage[q] /\ reply'[q] = reply[q]
      /\ \/ stage'[r] = "publish" /\ reply'[r] = "none" /\ call[r].op = "subscribe"
         \/ stage'[r] = "answer" /\ reply'[r] \in {"ok", "failed"}
  <2>1. CASE call[r].op = "subscribe" /\ Goto(r, "publish")
    BY <1>1, <2>1, Moved DEF Stages, TypeOK
  <2>2. ASSUME NEW a \in {"ok", "failed"}, Answer(r, a)
        PROVE  /\ stage' \in [Requests -> Stages] /\ reply' \in [Requests -> Replies]
               /\ \A q \in Requests \ {r} : stage'[q] = stage[q] /\ reply'[q] = reply[q]
               /\ stage'[r] = "answer" /\ reply'[r] = a
    BY <2>2, Answered DEF Replies
  <2>. QED  BY <2>1, <2>2 DEF AfterWrite
<1>6. TypeOK'
  BY <1>4, <1>5 DEF TypeOK
<1>7. Steady
  BY <1>3, <1>4, <1>5 DEF Steady
<1>8. Known(r)'
  BY <1>1, <1>2, <1>3, <1>4, <1>5, EmailOfCall DEF Known
<1>9. Held(r)'
  BY <1>2, <1>3, <1>7, SoundLasts DEF Held
<1>10. \A d \in Emails : rows'[d] = rows[d] \/ Sound(d, rows[d])'
  <2>1. Sound(e, row)'
    BY <1>3, <1>7, SoundLasts
  <2>. QED  BY <1>4, <2>1
<1>. QED  BY <1>5, <1>6, <1>7, <1>8, <1>9, <1>10, OneRequest DEF Rests

\* The confirmation mail goes to the address that subscribed, with its own link.
LEMMA PublishKeepsInv ==
  ASSUME Inv, NEW r \in Requests, Publish(r)
  PROVE  Inv'
<1>. USE DEF Inv
<1>. DEFINE msg == [kind |-> "confirmation", to |-> call[r].email, token |-> pending[r].token]
<1>1. /\ stage[r] = "publish" /\ Answer(r, "ok") /\ mail' \in {mail, mail \cup {msg}}
      /\ UNCHANGED <<rows, call, pending, tasks, now>>
  BY DEF Publish
<1>2. call[r] # NoCall /\ call[r].email \in Emails /\ rows[call[r].email] # NoRow
  BY <1>1, EmailOfCall DEF Known
<1>3. pending[r].token \in Token /\ pending[r].token.email = call[r].email
  BY <1>1 DEF Known, Held, Sound, Row
<1>4. PICK m \in Message : m = msg /\ SoundMail(m)
  <2>1. msg \in Message
    BY <1>2, <1>3 DEF Message, Confirmation
  <2>2. SoundMail(msg)
    BY <1>2, <1>3 DEF SoundMail
  <2>. QED  BY <2>1, <2>2
<1>5. /\ stage' \in [Requests -> Stages] /\ reply' \in [Requests -> Replies]
      /\ stage'[r] = "answer" /\ reply'[r] = "ok"
      /\ \A q \in Requests \ {r} : stage'[q] = stage[q] /\ reply'[q] = reply[q]
  BY <1>1, Answered DEF Replies
<1>6. TypeOK'
  BY <1>1, <1>4, <1>5 DEF TypeOK
<1>7. Steady
  BY <1>1, <1>5 DEF Steady
<1>8. Known(r)'
  BY <1>1, <1>2, <1>5 DEF Known
<1>9. Held(r)'
  BY <1>1, <1>7, SoundLasts DEF Held
<1>10. \A n \in mail' : n \in mail \/ SoundMail(n)'
  BY <1>1, <1>4, <1>7, MailLasts
<1>. QED  BY <1>1, <1>5, <1>6, <1>7, <1>8, <1>9, <1>10, OneRequest DEF Rests

\* The client is told what the handler has decided.
LEMMA RespondKeepsInv ==
  ASSUME Inv, NEW r \in Requests, Respond(r)
  PROVE  Inv'
<1>. USE DEF Inv
<1>1. /\ stage[r] = "answer" /\ stage' = [stage EXCEPT ![r] = "done"]
      /\ UNCHANGED <<rows, call, pending, reply, tasks, mail, now>>
  BY DEF Respond
<1>2. /\ stage' \in [Requests -> Stages] /\ stage'[r] = "done"
      /\ \A q \in Requests \ {r} : stage'[q] = stage[q]
  BY <1>1 DEF TypeOK, Stages
<1>3. TypeOK'
  BY <1>1, <1>2 DEF TypeOK
<1>4. Steady
  BY <1>1 DEF Steady
<1>5. Known(r)'
  BY <1>1, <1>2 DEF Known
<1>6. Held(r)'
  BY <1>1, <1>4, SoundLasts DEF Held
<1>. QED  BY <1>1, <1>2, <1>3, <1>4, <1>5, <1>6, OneRequest DEF Rests

LEMMA HandlerKeepsInv ==
  ASSUME Inv, NEW r \in Requests, Handler(r)
  PROVE  Inv'
<1>1. CASE Create(r)
  <2>1. CASE Answer(r, "failed") /\ UNCHANGED rows
    BY <1>1, <2>1, AnswerKeepsInv DEF Create, Replies
  <2>2. CASE rows' = [rows EXCEPT ![call[r].email] = pending[r]] /\ AfterWrite(r)
    BY <1>1, <2>2, WritingKeepsInv DEF Create
  <2>. QED  BY <1>1, <2>1, <2>2 DEF Create
<1>2. CASE Update(r)
  BY <1>2, WritingKeepsInv DEF Update, Saved
<1>3. CASE RepoFails(r)
  BY <1>3, AnswerKeepsInv DEF RepoFails, Replies
<1>. QED  BY <1>1, <1>2, <1>3, BeginningsKeepInv, ReadingsKeepInv, PublishKeepsInv,
             RespondKeepsInv DEF Handler

-----------------------------------------------------------------------------
(* Steps of the scheduler and of the environment *)

\* A step in which no request, no row and no time moves keeps the invariant when the
\* tasks and messages it adds are sound.
LEMMA OthersKeepInv ==
  ASSUME Inv, UNCHANGED <<rows, call, stage, pending, reply>>, now' \in Nat,
         \A t \in tasks' : t \in tasks \/ (t \in Task /\ SoundTask(t)),
         \A m \in mail' : m \in mail \/ (m \in Message /\ SoundMail(m))
  PROVE  Inv'
<1>. USE DEF Inv
<1>1. Steady
  BY DEF Steady
<1>2. TypeOK'
  BY DEF TypeOK
<1>3. \A r \in Requests : Known(r)' /\ Held(r)'
  BY <1>1, RestingStays DEF Rests
<1>4. ASSUME NEW e \in Emails, rows'[e] # NoRow  PROVE Sound(e, rows[e])'
  BY <1>1, <1>4, SoundLasts
<1>5. \A t \in tasks' : SoundTask(t)'
  BY <1>1, TasksLast DEF TypeOK
<1>6. \A m \in mail' : SoundMail(m)'
  BY <1>1, MailLasts DEF TypeOK
<1>. QED  BY <1>2, <1>3, <1>4, <1>5, <1>6

LEMMA GenerateKeepsInv ==
  ASSUME Inv, NEW f \in Frequencies, GenerateWeatherReportTasks(f)
  PROVE  Inv'
<1>1. ASSUME NEW e \in Due(f)
      PROVE  LET t == [email |-> e, city |-> rows[e].city, token |-> rows[e].token]
             IN t \in Task /\ SoundTask(t)
  <2>1. e \in Emails /\ rows[e] # NoRow /\ rows[e].confirmed
    BY DEF Due, Active
  <2>2. rows[e] \in Row /\ rows[e].token.email = e /\ Consented(e)
    BY <2>1 DEF Inv, Sound
  <2>3. rows[e].city \in Cities /\ rows[e].token \in Token
    BY <2>2 DEF Row
  <2>4. [email |-> e, city |-> rows[e].city, token |-> rows[e].token] \in Task
    BY <2>1, <2>3 DEF Task
  <2>. QED  BY <2>1, <2>2, <2>4 DEF SoundTask
<1>2. \A t \in tasks' : t \in tasks \/ (t \in Task /\ SoundTask(t))
  BY <1>1 DEF GenerateWeatherReportTasks
<1>. QED  BY <1>2, OthersKeepInv DEF GenerateWeatherReportTasks, Inv, TypeOK

LEMMA ProcessKeepsInv ==
  ASSUME Inv, NEW t \in tasks, ProcessWeatherReportTask(t)
  PROVE  Inv'
<1>1. t \in Task /\ SoundTask(t)
  BY DEF Inv, TypeOK
<1>2. t.email \in Emails /\ t.city \in Cities /\ t.token \in Token
  BY <1>1 DEF Task
<1>3. now \div TicksPerHour \in Nat
  BY SubscriptionAssumption DEF Inv, TypeOK
<1>4. ReportFor(t) \in Message
  BY <1>2, <1>3 DEF ReportFor, Message, Report
<1>5. SoundMail(ReportFor(t))
  BY <1>1 DEF SoundTask, SoundMail, ReportFor
<1>6. \A m \in mail' : m \in mail \/ (m \in Message /\ SoundMail(m))
  BY <1>4, <1>5 DEF ProcessWeatherReportTask
<1>. QED  BY <1>6, OthersKeepInv DEF ProcessWeatherReportTask, Inv, TypeOK

\* A restart ends the requests in flight and drops the tasks; the table stays.
LEMMA RestartKeepsInv ==
  ASSUME Inv, Restart
  PROVE  Inv'
<1>. USE DEF Inv
<1>1. /\ stage' = [r \in Requests |-> IF r \in InFlight THEN "done" ELSE stage[r]]
      /\ reply' = [r \in Requests |-> IF r \in InFlight THEN "lost" ELSE reply[r]]
      /\ tasks' = {} /\ UNCHANGED <<rows, call, pending, mail, now>>
  BY DEF Restart
<1>2. TypeOK'
  BY <1>1 DEF TypeOK, Stages, Replies
<1>3. Steady
  BY <1>1 DEF Steady
<1>4. ASSUME NEW r \in Requests  PROVE Known(r)' /\ Held(r)'
  <2>1. CASE r \in InFlight
    <3>1. stage[r] \notin {"idle", "done"} /\ stage'[r] = "done" /\ reply'[r] = "lost"
      BY <1>1, <2>1 DEF InFlight
    <3>2. Known(r)'
      BY <1>1, <3>1 DEF Known
    <3>3. Held(r)'
      BY <1>1, <1>3, SoundLasts DEF Held
    <3>. QED  BY <3>2, <3>3
  <2>2. CASE r \notin InFlight
    BY <1>1, <1>3, <2>2, RestingStays DEF Rests
  <2>. QED  BY <2>1, <2>2
<1>5. ASSUME NEW e \in Emails, rows'[e] # NoRow  PROVE Sound(e, rows[e])'
  BY <1>1, <1>3, <1>5, SoundLasts
<1>6. \A m \in mail' : SoundMail(m)'
  BY <1>1, <1>3, MailLasts DEF TypeOK
<1>. QED  BY <1>1, <1>2, <1>4, <1>5, <1>6

LEMMA StepKeepsInv ==
  ASSUME Inv, [Next]_vars
  PROVE  Inv'
<1>1. CASE Tick
  BY <1>1, OthersKeepInv DEF Tick, requestVars, Inv, TypeOK
<1>2. CASE UNCHANGED vars
  BY <1>2, OthersKeepInv DEF vars, Inv, TypeOK
<1>. QED
  BY <1>1, <1>2, HandlerKeepsInv, GenerateKeepsInv, ProcessKeepsInv, RestartKeepsInv DEF Next

-----------------------------------------------------------------------------
(* The theorems *)

\* In every state the service can reach, the types are right, each request has behind it
\* what its stage says, and every record stored or held, every task and every message is
\* sound: table, handlers and mailed links agree whatever the interleaving.
THEOREM SubscriptionInvariant == Spec => []Inv
<1>1. ASSUME Init  PROVE Inv
  <2>1. TypeOK
    BY <1>1 DEF Init, TypeOK, Stages, Replies
  <2>2. \A r \in Requests : Known(r) /\ Held(r)
    BY <1>1, SubscriptionAssumption DEF Init, Known, Held
  <2>. QED  BY <1>1, <2>1, <2>2 DEF Init, Inv
<1>2. Inv /\ [Next]_vars => Inv'
  BY StepKeepsInv
<1>. QED  BY <1>1, <1>2, PTL DEF Spec

\* The state of the service keeps its types.
THEOREM SubscriptionTypes == Spec => []TypeOK
BY SubscriptionInvariant, PTL DEF Inv

\* Double opt-in for any number of racing requests: nobody is active, queued or sent a
\* report without a confirm link followed while it was valid.
THEOREM ConsentHolds == Spec => []Consent
<1>1. Inv => Consent
  BY DEF Inv, Sound, SoundTask, SoundMail, Consent
<1>. QED  BY <1>1, SubscriptionInvariant, PTL

\* A mailed, queued or stored link carries the address of the one it is for.
THEOREM LinksActOnAddresseeHolds == Spec => []LinksActOnAddressee
<1>1. Inv => LinksActOnAddressee
  BY DEF Inv, Sound, SoundTask, SoundMail, LinksActOnAddressee
<1>. QED  BY <1>1, SubscriptionInvariant, PTL

\* No interleaving of saves mixes the forms of two Subscribe requests in one row.
THEOREM RowFromOneSubscribeHolds == Spec => []RowFromOneSubscribe
<1>1. Inv => RowFromOneSubscribe
  BY DEF Inv, Sound, RowFromOneSubscribe
<1>. QED  BY <1>1, SubscriptionInvariant, PTL

\* Nobody who was sent a link is answered that the subscription does not exist.
THEOREM LinksNeverDangleHolds == Spec => []LinksNeverDangle
<1>1. Inv => LinksNeverDangle
  BY DEF Inv, Known, SoundMail, LinksNeverDangle
<1>. QED  BY <1>1, SubscriptionInvariant, PTL

\* Only the two saves change the table.
LEMMA WhoWrites ==
  ASSUME Inv, [Next]_vars, NEW e \in Emails, rows'[e] # rows[e]
  PROVE  \E r \in Requests : /\ Create(r) \/ Update(r)
                             /\ call[r].email = e /\ rows'[e] = pending[r]
<1>1. PICK r \in Requests : Create(r) \/ Update(r)
  BY DEF Next, vars, requestVars, Handler, BeginSubscribe, BeginLink, Arrives,
         ReadForSubscribe, ReadForLink, RepoFails, Publish, Respond,
         GenerateWeatherReportTasks, ProcessWeatherReportTask, Tick, Restart
<1>2. rows' = [rows EXCEPT ![call[r].email] = pending[r]]
  BY <1>1 DEF Create, Update, Saved
<1>. QED  BY <1>1, <1>2 DEF Inv, TypeOK

\* A handler's step is no other request's.
LEMMA OthersRest ==
  ASSUME TypeOK, NEW q \in Requests, Handler(q), NEW r \in Requests \ {q}
  PROVE  Rests(r)
BY DEF TypeOK, Handler, BeginSubscribe, BeginLink, Arrives, ReadForSubscribe, ReadForLink,
       Create, Update, RepoFails, Publish, Respond, AfterWrite, Answer, Goto, Rests

\* A request that stays before its save keeps what it asked for and the record it holds.
LEMMA AwaitsItsSave ==
  ASSUME Inv, [Next]_vars, NEW r \in Requests, stage[r] = "update", stage'[r] = "update"
  PROVE  call'[r] = call[r] /\ pending'[r] = pending[r]
<1>. USE DEF Inv, TypeOK
<1>1. ASSUME NEW q \in Requests, Handler(q)  PROVE call'[r] = call[r] /\ pending'[r] = pending[r]
  <2>1. CASE q = r
    BY <1>1, <2>1 DEF Handler, BeginSubscribe, BeginLink, Arrives, ReadForSubscribe,
       ReadForLink, Create, Update, RepoFails, Publish, Respond, AfterWrite, Answer, Goto
  <2>2. CASE q # r
    BY <1>1, <2>2, OthersRest DEF Rests
  <2>. QED  BY <2>1, <2>2
<1>. QED  BY <1>1 DEF Next, vars, requestVars, GenerateWeatherReportTasks,
               ProcessWeatherReportTask, Tick, Restart

\* Only its own read brings a request before its save.
LEMMA WhoReads ==
  ASSUME Inv, [Next]_vars, NEW r \in Requests, stage[r] # "update", stage'[r] = "update"
  PROVE  ReadForSubscribe(r) \/ ReadForLink(r)
<1>. USE DEF Inv, TypeOK
<1>1. ASSUME NEW q \in Requests, Handler(q)  PROVE ReadForSubscribe(r) \/ ReadForLink(r)
  <2>1. q = r
    BY <1>1 DEF Handler, BeginSubscribe, BeginLink, ReadForSubscribe, ReadForLink, Create,
       Update, RepoFails, Publish, Respond, AfterWrite, Answer, Goto
  <2>. QED  BY <1>1, <2>1 DEF Handler, BeginSubscribe, BeginLink, Create, Update, RepoFails,
               Publish, Respond, AfterWrite, Answer, Goto
<1>. QED  BY <1>1 DEF Next, vars, requestVars, GenerateWeatherReportTasks,
               ProcessWeatherReportTask, Tick, Restart, InFlight

\* However stale the record a handler saves, the step that makes an address active is
\* the save of a Confirm of that address.
THEOREM OnlyConfirmActivatesHolds == Spec => OnlyConfirmActivates
<1>1. ASSUME Inv, [Next]_vars, NEW e \in Emails, ~IsActive(e), IsActive(e)'
      PROVE  \E r \in Requests : /\ stage[r] = "update" /\ stage'[r] = "answer"
                                 /\ call[r].op = "confirm" /\ call[r].email = e
  <2>1. rows'[e] # rows[e]
    BY <1>1 DEF IsActive, Active
  <2>2. PICK r \in Requests : /\ Create(r) \/ Update(r)
                             /\ call[r].email = e /\ rows'[e] = pending[r]
    BY <1>1, <2>1, WhoWrites
  <2>3. pending[r] # NoRow /\ pending[r].confirmed /\ ~pending[r].unsubscribed
    BY <1>1, <2>2 DEF IsActive, Active
  <2>4. call[r].op = "confirm"
    <3>1. call[r] # NoCall /\ call[r].op # "subscribe" /\ call[r].op # "unsubscribe"
      BY <1>1, <2>3 DEF Inv, Held
    <3>. QED  BY <1>1, <3>1, EmailOfCall DEF Inv, SubscribeCall, LinkCall
  <2>5. stage[r] = "update" /\ AfterWrite(r)
    BY <1>1, <2>2, <2>4 DEF Create, Update, Inv, Known
  <2>6. stage'[r] = "answer"
    BY <1>1, <2>4, <2>5 DEF AfterWrite, Answer, Inv, TypeOK
  <2>. QED  BY <2>2, <2>4, <2>5, <2>6
<1>2. Inv /\ [Next]_vars => [\A e \in Emails : ~IsActive(e) /\ IsActive(e)' =>
        \E r \in Requests : /\ stage[r] = "update" /\ stage'[r] = "answer"
                            /\ call[r].op = "confirm" /\ call[r].email = e]_vars
  BY <1>1
<1>. QED  BY <1>2, SubscriptionInvariant, PTL DEF Spec, OnlyConfirmActivates

\* A settled opt-out: no save that is on its way ends it, no round makes a task of it and
\* no task sends a report, so only the read of a new Subscribe can unsettle it.
THEOREM OptOutsLastHolds == Spec => OptOutsLast
<1>. DEFINE Reread(e) == \E r \in Requests : /\ stage[r] = "read" /\ stage'[r] = "update"
                                             /\ call[r].op = "subscribe" /\ call[r].email = e
<1>1. ASSUME Inv, [Next]_vars, NEW e \in Emails, OptOutSettled(e)
      PROVE  ReportsTo(e)' = ReportsTo(e) /\ (OptOutSettled(e)' \/ Reread(e))
  <2>. USE DEF Inv, TypeOK
  <2>1. rows[e] \in Row /\ rows[e].unsubscribed
    BY <1>1 DEF OptOutSettled
  <2>2. ReportsTo(e)' = ReportsTo(e)
    <3>1. \A m \in mail' : m \in mail \/ m.kind # "report" \/ m.to # e
      <4>1. ASSUME NEW t \in tasks, ProcessWeatherReportTask(t)
            PROVE  \A m \in mail' : m \in mail \/ m.to # e
        BY <1>1, <4>1 DEF ProcessWeatherReportTask, ReportFor, OptOutSettled
      <4>2. ASSUME NEW r \in Requests, Publish(r)
            PROVE  \A m \in mail' : m \in mail \/ m.kind # "report"
        BY <4>2 DEF Publish
      <4>. QED  BY <1>1, <4>1, <4>2 DEF Next, vars, requestVars, Handler, BeginSubscribe,
             BeginLink, Arrives, ReadForSubscribe, ReadForLink, Create, Update, RepoFails,
             Respond, GenerateWeatherReportTasks, Tick, Restart
    <3>2. mail \subseteq mail'
      BY <1>1 DEF Next, vars, requestVars, Handler, BeginSubscribe, BeginLink, Arrives,
             ReadForSubscribe, ReadForLink, Create, Update, RepoFails, Publish, Respond,
             GenerateWeatherReportTasks, ProcessWeatherReportTask, Tick, Restart
    <3>. QED  BY <3>1, <3>2 DEF ReportsTo
  <2>3. rows'[e] # NoRow /\ rows'[e].unsubscribed
    <3>1. SUFFICES ASSUME rows'[e] # rows[e]
                   PROVE  rows'[e] # NoRow /\ rows'[e].unsubscribed
      BY <1>1 DEF OptOutSettled
    <3>2. PICK r \in Requests : /\ Create(r) \/ Update(r)
                               /\ call[r].email = e /\ rows'[e] = pending[r]
      BY <1>1, <3>1, WhoWrites
    <3>3. stage[r] = "update"
      BY <1>1, <3>1, <3>2 DEF Create, Update, OptOutSettled
    <3>. QED  BY <1>1, <3>2, <3>3 DEF OptOutSettled, Known
  <2>4. \A t \in tasks' : t.email # e
    <3>1. ASSUME NEW f \in Frequencies, GenerateWeatherReportTasks(f)
          PROVE  \A t \in tasks' : t.email # e
      <4>1. e \notin Due(f)
        BY <2>1 DEF Due, Active
      <4>. QED  BY <1>1, <3>1, <4>1 DEF GenerateWeatherReportTasks, OptOutSettled
    <3>2. CASE tasks' \subseteq tasks
      BY <1>1, <3>2 DEF OptOutSettled
    <3>. QED  BY <1>1, <3>1, <3>2 DEF Next, vars, requestVars, Handler, BeginSubscribe,
           BeginLink, Arrives, ReadForSubscribe, ReadForLink, Create, Update, RepoFails,
           Publish, Respond, ProcessWeatherReportTask, Tick, Restart
  <2>5. ASSUME NEW r \in Requests, stage'[r] = "update", call'[r].email = e, ~Reread(e)
        PROVE  pending'[r].unsubscribed
    <3>1. CASE stage[r] = "update"
      <4>1. call'[r] = call[r] /\ pending'[r] = pending[r]
        BY <1>1, <2>5, <3>1, AwaitsItsSave
      <4>. QED  BY <1>1, <2>5, <3>1, <4>1 DEF OptOutSettled
    <3>2. CASE stage[r] # "update"
      <4>1. ReadForSubscribe(r) \/ ReadForLink(r)
        BY <1>1, <2>5, <3>2, WhoReads
      <4>2. call[r].email = e /\ stage[r] = "read"
        BY <2>5, <4>1 DEF ReadForSubscribe, ReadForLink
      <4>3. ReadForLink(r)
        BY <2>5, <4>1, <4>2 DEF ReadForSubscribe
      <4>4. pending'[r] = LinkEdit(call[r].op, rows[e])
        <5>1. ~ \E a \in Replies : Answer(r, a)
          BY <1>1, <2>5, Answered
        <5>2. pending' = [pending EXCEPT ![r] = LinkEdit(call[r].op, rows[e])]
          BY <4>2, <4>3, <5>1 DEF ReadForLink, GetByEmail, Replies
        <5>. QED  BY <1>1, <5>2
      <4>. QED  BY <2>1, <4>4 DEF LinkEdit, Row
    <3>. QED  BY <3>1, <3>2
  <2>. QED  BY <2>2, <2>3, <2>4, <2>5 DEF OptOutSettled
<1>2. Inv /\ [Next]_vars => [\A e \in Emails : OptOutSettled(e) =>
        /\ ReportsTo(e)' = ReportsTo(e)
        /\ \/ OptOutSettled(e)'
           \/ \E r \in Requests : /\ stage[r] = "read" /\ stage'[r] = "update"
                                  /\ call[r].op = "subscribe" /\ call[r].email = e]_vars
  BY <1>1
<1>. QED  BY <1>2, SubscriptionInvariant, PTL DEF Spec, OptOutsLast

-----------------------------------------------------------------------------
(* The lifecycle, of requests that do not come between another's read and save *)

\* A request that has read the row of its address and has not saved it yet.
Writing(r) == stage[r] \in {"create", "update"}

\* What a lock on the row from the read to the save would give, and the code does not
\* take: no two requests are between read and save of the same address.
OneWriter ==
  \A q, r \in Requests : Writing(q) /\ Writing(r) /\ call[q].email = call[r].email => q = r

\* What a request holds for its save is what the row still is, edited.
UpToDate(r) ==
  LET c == call[r]
      row == rows[c.email]
  IN Writing(r) =>
       /\ c \in SubscribeCall \cup LinkCall
       /\ c.op = "subscribe" =>
            /\ pending[r] # NoRow /\ ~pending[r].unsubscribed /\ ~pending[r].confirmed
            /\ row = NoRow \/ ~Active(row)
       /\ c.op # "subscribe" =>
            /\ stage[r] = "update" /\ row # NoRow
            /\ ~AlreadyDone(c.op, row) /\ pending[r] = LinkEdit(c.op, row)

Fresh == \A r \in Requests : UpToDate(r)

LEMMA RestingStaysUpToDate ==
  ASSUME NEW r \in Requests, Rests(r), UpToDate(r),
         Writing(r) => rows'[call[r].email] = rows[call[r].email]
  PROVE  UpToDate(r)'
BY DEF Rests, UpToDate, Writing

\* Where a record to be saved comes from: the read just before, of the row as it is.
LEMMA ReadIsUpToDate ==
  ASSUME Inv, NEW r \in Requests, ReadForSubscribe(r) \/ ReadForLink(r)
  PROVE  UpToDate(r)'
<1>. USE DEF Inv, TypeOK
<1>1. call[r] \in SubscribeCall \cup LinkCall /\ call[r].email \in Emails
  BY EmailOfCall DEF Known, ReadForSubscribe, ReadForLink
<1>2. rows' = rows /\ call' = call
  BY DEF ReadForSubscribe, ReadForLink
<1>3. CASE ReadForSubscribe(r)
  <2>1. CASE stage'[r] = "answer"
    BY <2>1 DEF UpToDate, Writing
  <2>2. CASE stage'[r] # "answer"
    <3>1. ~(rows[call[r].email] # NoRow /\ Active(rows[call[r].email]))
      BY <1>3, <2>2 DEF ReadForSubscribe, GetByEmail, Answer
    <3>2. pending'[r] = FreshRow(call[r], NewToken(call[r].email))
      BY <1>3, <3>1 DEF ReadForSubscribe, GetByEmail
    <3>3. pending'[r] \in [city : Cities, freq : Frequencies, token : Token,
                           confirmed : BOOLEAN, unsubscribed : BOOLEAN]
      <4>1. call[r] \in SubscribeCall
        BY <1>1, <1>3 DEF ReadForSubscribe, LinkCall
      <4>2. NewToken(call[r].email) \in Token
        BY <1>1, SubscriptionAssumption DEF NewToken, Token
      <4>. QED  BY <3>2, <4>1, <4>2 DEF FreshRow, SubscribeCall
    <3>4. pending'[r] # NoRow
      BY <3>3, SubscriptionAssumption DEF Row
    <3>5. ~pending'[r].confirmed /\ ~pending'[r].unsubscribed
      BY <3>2 DEF FreshRow
    <3>. QED  BY <1>1, <1>2, <1>3, <3>1, <3>4, <3>5 DEF UpToDate, ReadForSubscribe
  <2>. QED  BY <2>1, <2>2
<1>4. CASE ReadForLink(r)
  BY <1>1, <1>2, <1>4 DEF ReadForLink, GetByEmail, Answer, Goto, UpToDate, Writing
<1>. QED  BY <1>3, <1>4

\* Nobody's save comes between the read and the save of another request, so what every
\* request holds stays what the row is.
LEMMA StepKeepsFresh ==
  ASSUME Inv, OneWriter, Fresh, [Next]_vars
  PROVE  Fresh'
<1>. USE DEF Inv, TypeOK
<1>1. ASSUME NEW q \in Requests, Handler(q), NEW r \in Requests \ {q}  PROVE UpToDate(r)'
  <2>1. Rests(r)
    BY <1>1, OthersRest
  <2>2. ASSUME Writing(r), rows'[call[r].email] # rows[call[r].email]  PROVE FALSE
    <3>1. Create(q) \/ Update(q)
      BY <1>1, <2>2 DEF Handler, BeginSubscribe, BeginLink, Arrives, ReadForSubscribe,
                        ReadForLink, RepoFails, Publish, Respond
    <3>2. Writing(q) /\ rows' = [rows EXCEPT ![call[q].email] = pending[q]]
      BY <2>2, <3>1 DEF Create, Update, Saved, Writing
    <3>3. call[r].email \in Emails
      BY <2>2, EmailOfCall DEF Writing, Known
    <3>4. call[q].email = call[r].email
      BY <2>2, <3>2, <3>3
    <3>. QED  BY <2>2, <3>2, <3>4 DEF OneWriter
  <2>. QED  BY <2>1, <2>2, RestingStaysUpToDate DEF Fresh
<1>2. ASSUME NEW q \in Requests, Handler(q)  PROVE UpToDate(q)'
  <2>1. CASE ReadForSubscribe(q) \/ ReadForLink(q)
    BY <2>1, ReadIsUpToDate
  <2>2. CASE ~(ReadForSubscribe(q) \/ ReadForLink(q))
    <3>1. ~Writing(q)'
      BY <1>2, <2>2 DEF Handler, BeginSubscribe, BeginLink, Create, Update, RepoFails,
                        Publish, Respond, AfterWrite, Answer, Goto, Writing
    <3>. QED  BY <3>1 DEF UpToDate
  <2>. QED  BY <2>1, <2>2
<1>3. CASE Restart
  <2>1. \A r \in Requests : ~Writing(r)'
    BY <1>3 DEF Restart, InFlight, Writing
  <2>. QED  BY <2>1 DEF Fresh, UpToDate
<1>4. ASSUME UNCHANGED <<rows, requestVars>>  PROVE Fresh'
  BY <1>4 DEF requestVars, Fresh, UpToDate, Writing
<1>5. ASSUME NEW q \in Requests, Handler(q)  PROVE Fresh'
  BY <1>1, <1>2, <1>5 DEF Fresh
<1>. QED  BY <1>3, <1>4, <1>5 DEF Next, vars, requestVars, GenerateWeatherReportTasks,
               ProcessWeatherReportTask, Tick

\* A save of an up to date record is the step of the lifecycle its request asks for.
LEMMA SaveIsAMove ==
  ASSUME Inv, Fresh, NEW r \in Requests, Create(r) \/ Update(r),
         rows' # rows
  PROVE  LET e    == call[r].email
             from == Status(rows[e])
             to   == Status(rows'[e])
         IN /\ e \in Emails /\ rows' = [rows EXCEPT ![e] = rows'[e]]
            /\ \/ from \in {"absent", "ended"} /\ to = "pending"
               \/ from = "pending" /\ to = "active"
               \/ from \in {"pending", "active"} /\ to = "ended"
               \/ from = to
<1>. USE DEF Inv, TypeOK
<1>. DEFINE e == call[r].email
<1>1. Writing(r) /\ UpToDate(r)
  BY DEF Create, Update, Writing, Fresh
<1>2. call[r] \in SubscribeCall \cup LinkCall /\ e \in Emails
  BY <1>1 DEF UpToDate, SubscribeCall, LinkCall
<1>3. rows' = [rows EXCEPT ![e] = pending[r]]
  BY DEF Create, Update, Saved
<1>4. rows'[e] = pending[r]
  BY <1>2, <1>3
<1>5. CASE call[r].op = "subscribe"
  <2>1. Status(pending[r]) = "pending"
    BY <1>1, <1>5 DEF UpToDate, Status
  <2>2. Status(rows[e]) # "active"
    BY <1>1, <1>5 DEF UpToDate, Status, Active
  <2>3. Status(rows[e]) \in {"absent", "ended", "pending"}
    BY <2>2 DEF Status
  <2>. QED  BY <1>2, <1>3, <1>4, <2>1, <2>3
<1>6. CASE call[r].op # "subscribe"
  <2>1. /\ rows[e] \in Row /\ ~AlreadyDone(call[r].op, rows[e])
        /\ pending[r] = LinkEdit(call[r].op, rows[e]) /\ pending[r] # NoRow
    BY <1>1, <1>2, <1>6 DEF UpToDate, Known, Writing
  <2>2. call[r].op \in {"confirm", "unsubscribe"}
    BY <1>2, <1>6 DEF SubscribeCall, LinkCall
  <2>3. /\ pending[r].confirmed = (call[r].op = "confirm" \/ rows[e].confirmed)
        /\ pending[r].unsubscribed = (call[r].op = "unsubscribe" \/ rows[e].unsubscribed)
    BY <2>1, <2>2 DEF LinkEdit, Row, AlreadyDone
  <2>4. rows[e] # NoRow
    BY <2>1, SubscriptionAssumption
  <2>. QED  BY <1>2, <1>3, <1>4, <2>1, <2>2, <2>3, <2>4 DEF AlreadyDone, Status
<1>. QED  BY <1>5, <1>6

\* With one writer of an address at a time, the reads and saves of the three handlers
\* amount to the atomic steps of the lifecycle, however the requests interleave otherwise.
THEOREM OneWriterImplementsLifecycle == Spec /\ []OneWriter => ImplementsLifecycle
<1>1. Init => Abstract!Init
  BY DEF Init, Abstract!Init, Status
<1>2. Init => Fresh
  BY DEF Init, Fresh, UpToDate, Writing
<1>3. ASSUME Inv, Fresh, [Next]_vars
      PROVE  [Abstract!Next]_([e \in Emails |-> Status(rows[e])])
  <2>1. CASE rows' = rows
    BY <2>1
  <2>2. CASE rows' # rows
    <3>1. PICK r \in Requests : Create(r) \/ Update(r)
      BY <1>3, <2>2 DEF Next, vars, requestVars, Handler, BeginSubscribe, BeginLink, Arrives,
             ReadForSubscribe, ReadForLink, RepoFails, Publish, Respond,
             GenerateWeatherReportTasks, ProcessWeatherReportTask, Tick, Restart
    <3>. DEFINE e == call[r].email
                before == [d \in Emails |-> Status(rows[d])]
                after  == [d \in Emails |-> Status(rows'[d])]
    <3>2. /\ e \in Emails /\ rows' = [rows EXCEPT ![e] = rows'[e]]
          /\ \/ before[e] \in {"absent", "ended"} /\ after[e] = "pending"
             \/ before[e] = "pending" /\ after[e] = "active"
             \/ before[e] \in {"pending", "active"} /\ after[e] = "ended"
             \/ before[e] = after[e]
      BY <1>3, <2>2, <3>1, SaveIsAMove
    <3>3. after = [before EXCEPT ![e] = after[e]]
      BY <1>3, <3>2 DEF Inv, TypeOK
    <3>4. CASE before[e] = after[e]
      BY <3>2, <3>3, <3>4
    <3>5. CASE before[e] # after[e]
      BY <3>2, <3>3, <3>5 DEF Abstract!Next, Abstract!Subscribe, Abstract!Confirm,
                              Abstract!Unsubscribe, Abstract!Move
    <3>. QED  BY <3>4, <3>5
  <2>. QED  BY <2>1, <2>2
<1>4. Inv /\ OneWriter /\ Fresh /\ [Next]_vars => Fresh'
  BY StepKeepsFresh
<1>. QED  BY <1>1, <1>2, <1>3, <1>4, SubscriptionInvariant, PTL
          DEF Spec, ImplementsLifecycle, Abstract!Spec

\* The finding about opt-outs has this one cause: with one writer of an address at a
\* time, an unsubscribed address stays so until its owner subscribes again.
THEOREM OneWriterKeepsOptOuts == Spec /\ []OneWriter => UnsubscribedStaysOut
<1>1. Init => Fresh
  BY DEF Init, Fresh, UpToDate, Writing
<1>2. ASSUME Inv, Fresh, [Next]_vars, NEW e \in Emails,
             rows[e] # NoRow, rows[e].unsubscribed, ~rows'[e].unsubscribed
      PROVE  \E r \in Requests : /\ stage[r] = "update" /\ stage'[r] # "update"
                                 /\ call[r].op = "subscribe" /\ call[r].email = e
  <2>1. PICK r \in Requests : /\ Create(r) \/ Update(r)
                             /\ call[r].email = e /\ rows'[e] = pending[r]
    BY <1>2, WhoWrites
  <2>2. Update(r)
    BY <1>2, <2>1 DEF Create
  <2>3. stage[r] = "update" /\ stage'[r] # "update"
    BY <1>2, <2>2 DEF Update, AfterWrite, Goto, Answer, Inv, TypeOK
  <2>4. UpToDate(r) /\ rows[e] \in Row
    BY <1>2 DEF Fresh, Inv, TypeOK
  <2>5. call[r].op = "subscribe"
    <3>1. SUFFICES ASSUME call[r].op # "subscribe"  PROVE FALSE
      OBVIOUS
    <3>2. pending[r] = LinkEdit(call[r].op, rows[e])
      BY <2>1, <2>3, <2>4, <3>1 DEF UpToDate, Writing
    <3>. QED  BY <1>2, <2>1, <2>4, <3>2 DEF LinkEdit, Row
  <2>. QED  BY <2>1, <2>3, <2>5
<1>3. Inv /\ Fresh /\ [Next]_vars =>
        [\A e \in Emails : rows[e] # NoRow /\ rows[e].unsubscribed /\ ~rows'[e].unsubscribed =>
        \E r \in Requests : /\ stage[r] = "update" /\ stage'[r] # "update"
                            /\ call[r].op = "subscribe" /\ call[r].email = e]_vars
  BY <1>2
<1>4. Inv /\ OneWriter /\ Fresh /\ [Next]_vars => Fresh'
  BY StepKeepsFresh
<1>. QED  BY <1>1, <1>3, <1>4, SubscriptionInvariant, PTL DEF Spec, UnsubscribedStaysOut

-----------------------------------------------------------------------------
(* The answers, of requests that do not come between another's read and answer *)

\* A request past the read of its row, or refused before it, and not answered yet.
Acting(r) == stage[r] \in {"create", "update", "publish", "answer"}

\* What a lock on the address from the read to the answer would give, and the code does
\* not take.
OneAtATime ==
  \A q, r \in Requests : Acting(q) /\ Acting(r) /\ call[q].email = call[r].email => q = r

\* What the answer that is about to be given says is what the row says.
Founded(r) ==
  LET row == rows[call[r].email]
  IN stage[r] = "answer" /\ reply[r] = "ok" =>
       /\ call[r].op = "confirm" => row.confirmed
       /\ call[r].op = "unsubscribe" => row.unsubscribed

AnswersFounded == \A r \in Requests : Founded(r)

\* A handler comes to its answer through a read that found the work done, or its save.
LEMMA DecisionIsFounded ==
  ASSUME Inv, NEW r \in Requests, Handler(r)
  PROVE  Founded(r)'
<1>. USE DEF Inv, TypeOK
<1>1. SUFFICES ASSUME stage'[r] = "answer", reply'[r] = "ok",
                      call'[r].op \in {"confirm", "unsubscribe"}
               PROVE  AlreadyDone(call'[r].op, rows'[call'[r].email])
  BY DEF Founded, AlreadyDone
<1>2. ReadForLink(r) \/ Update(r)
  BY <1>1 DEF Handler, BeginSubscribe, BeginLink, Arrives, ReadForSubscribe, Create,
              RepoFails, Publish, Respond, AfterWrite, Answer, Goto, Known
<1>3. /\ call' = call /\ call[r] # NoCall /\ call[r].email \in Emails
      /\ call[r].op \in {"confirm", "unsubscribe"}
  BY <1>1, <1>2, EmailOfCall DEF ReadForLink, Update, Known
<1>4. CASE ReadForLink(r)
  BY <1>1, <1>3, <1>4 DEF ReadForLink, GetByEmail, Answer, Goto, Known
<1>5. CASE Update(r)
  <2>1. rows'[call[r].email] = pending[r]
    BY <1>3, <1>5 DEF Update, Saved
  <2>2. pending[r] # NoRow /\ Held(r)
    BY <1>5 DEF Update, Known
  <2>. QED  BY <1>3, <2>1, <2>2 DEF Held, AlreadyDone
<1>. QED  BY <1>2, <1>4, <1>5

LEMMA StepKeepsAnswersFounded ==
  ASSUME Inv, OneAtATime, AnswersFounded, [Next]_vars
  PROVE  AnswersFounded'
<1>. USE DEF Inv, TypeOK
<1>1. ASSUME NEW q \in Requests, Handler(q), NEW r \in Requests \ {q}  PROVE Founded(r)'
  <2>1. Rests(r)
    BY <1>1, OthersRest
  <2>2. ASSUME stage[r] = "answer", rows'[call[r].email] # rows[call[r].email]  PROVE FALSE
    <3>1. Create(q) \/ Update(q)
      BY <1>1, <2>2 DEF Handler, BeginSubscribe, BeginLink, Arrives, ReadForSubscribe,
                        ReadForLink, RepoFails, Publish, Respond
    <3>2. Acting(q) /\ rows' = [rows EXCEPT ![call[q].email] = pending[q]]
      BY <2>2, <3>1 DEF Create, Update, Saved, Acting
    <3>3. call[r].email \in Emails
      BY <2>2, EmailOfCall DEF Known
    <3>4. call[q].email = call[r].email
      BY <2>2, <3>2, <3>3
    <3>. QED  BY <2>2, <3>2, <3>4 DEF OneAtATime, Acting
  <2>. QED  BY <2>1, <2>2 DEF AnswersFounded, Founded, Rests
<1>2. CASE Restart
  <2>1. \A r \in Requests : stage'[r] # "answer"
    BY <1>2 DEF Restart, InFlight
  <2>. QED  BY <2>1 DEF AnswersFounded, Founded
<1>3. ASSUME UNCHANGED <<rows, requestVars>>  PROVE AnswersFounded'
  BY <1>3 DEF requestVars, AnswersFounded, Founded
<1>4. ASSUME NEW q \in Requests, Handler(q)  PROVE AnswersFounded'
  BY <1>1, <1>4, DecisionIsFounded DEF AnswersFounded
<1>. QED  BY <1>2, <1>3, <1>4 DEF Next, vars, requestVars, GenerateWeatherReportTasks,
               ProcessWeatherReportTask, Tick

\* With one request of an address at a time, a success told to the one who confirmed or
\* unsubscribed is what the table says when it is told, whatever other addresses do.
THEOREM OneAtATimeAnswersMatchTheRow == Spec /\ []OneAtATime => AnswersMatchTheRow
<1>1. Init => AnswersFounded
  BY DEF Init, AnswersFounded, Founded
<1>2. Inv /\ OneAtATime /\ AnswersFounded /\ [Next]_vars => AnswersFounded'
  BY StepKeepsAnswersFounded
<1>3. ASSUME AnswersFounded, [Next]_vars, NEW r \in Requests, Inv,
             stage[r] = "answer", stage'[r] = "done", reply'[r] = "ok"
      PROVE  CASE call[r].op = "confirm"     -> rows[call[r].email].confirmed
               [] call[r].op = "unsubscribe" -> rows[call[r].email].unsubscribed
               [] OTHER                      -> TRUE
  <2>1. reply[r] = "ok"
    <3>1. ~Restart
      BY <1>3 DEF Restart, InFlight
    <3>2. ASSUME NEW q \in Requests, Handler(q)  PROVE reply'[r] = reply[r]
      BY <1>3, <3>2, OthersRest DEF Rests, Handler, BeginSubscribe, BeginLink, Arrives,
         ReadForSubscribe, ReadForLink, Create, Update, RepoFails, Publish, Respond, Inv
    <3>. QED  BY <1>3, <3>1, <3>2 DEF Next, vars, requestVars, GenerateWeatherReportTasks,
              ProcessWeatherReportTask, Tick
  <2>. QED  BY <1>3, <2>1 DEF AnswersFounded, Founded
<1>4. Inv /\ AnswersFounded /\ [Next]_vars => [\A r \in Requests :
        stage[r] = "answer" /\ stage'[r] = "done" /\ reply'[r] = "ok" =>
          CASE call[r].op = "confirm"     -> rows[call[r].email].confirmed
            [] call[r].op = "unsubscribe" -> rows[call[r].email].unsubscribed
            [] OTHER                      -> TRUE]_vars
  BY <1>3
<1>. QED  BY <1>1, <1>2, <1>4, SubscriptionInvariant, PTL DEF Spec, AnswersMatchTheRow

-----------------------------------------------------------------------------
(* The bound on requests in flight *)

\* The bound on overlap holds, whatever the number of requests.
Bounded == IsFiniteSet(InFlight) /\ Cardinality(InFlight) <= MaxInFlight

LEMMA FewerInFlight ==
  ASSUME Bounded, NEW S \in SUBSET InFlight
  PROVE  IsFiniteSet(S) /\ Cardinality(S) <= MaxInFlight
BY FS_Subset, FS_CardinalityType, SubscriptionAssumption DEF Bounded

LEMMA StepKeepsBounded ==
  ASSUME Inv, Bounded, [Next]_vars
  PROVE  Bounded'
<1>. USE DEF Inv, TypeOK
<1>1. ASSUME InFlight' \subseteq InFlight  PROVE Bounded'
  <2>1. IsFiniteSet(InFlight') /\ Cardinality(InFlight') <= MaxInFlight
    BY <1>1, FewerInFlight
  <2>. QED  BY <2>1 DEF Bounded
<1>2. ASSUME NEW r \in Requests, Handler(r)  PROVE Bounded'
  <2>1. InFlight' \subseteq InFlight \cup {r}
    BY <1>2 DEF Handler, BeginSubscribe, BeginLink, ReadForSubscribe, ReadForLink, Create,
                Update, RepoFails, Publish, Respond, AfterWrite, Answer, Goto, InFlight
  <2>2. CASE stage[r] = "idle"
    <3>1. Cardinality(InFlight) < MaxInFlight
      BY <1>2, <2>2 DEF Handler, BeginSubscribe, BeginLink, Arrives, ReadForSubscribe,
                        ReadForLink, Create, Update, RepoFails, Publish, Respond
    <3>2. /\ IsFiniteSet(InFlight \cup {r})
          /\ Cardinality(InFlight \cup {r}) <= Cardinality(InFlight) + 1
          /\ Cardinality(InFlight) \in Nat
      <4>1. /\ IsFiniteSet(InFlight) /\ Cardinality(InFlight) \in Nat
        BY FS_CardinalityType DEF Bounded
      <4>2. r \in Requests /\ r \notin InFlight
        BY <2>2 DEF InFlight
      <4>3. /\ IsFiniteSet(InFlight \cup {r})
            /\ Cardinality(InFlight \cup {r}) = Cardinality(InFlight) + 1
        BY <4>1, <4>2, FS_AddElement
      <4>. QED  BY <4>1, <4>3
    <3>3. /\ IsFiniteSet(InFlight')
          /\ Cardinality(InFlight') <= Cardinality(InFlight \cup {r})
          /\ Cardinality(InFlight') \in Nat /\ Cardinality(InFlight \cup {r}) \in Nat
      BY <2>1, <3>2, FS_Subset, FS_CardinalityType
    <3>4. Cardinality(InFlight') <= MaxInFlight
      BY <3>1, <3>2, <3>3, SubscriptionAssumption
    <3>. QED  BY <3>3, <3>4 DEF Bounded
  <2>3. CASE stage[r] # "idle"
    <3>1. InFlight' \subseteq InFlight
      BY <1>2, <2>1, <2>3 DEF Handler, BeginSubscribe, BeginLink, Arrives, ReadForSubscribe,
           ReadForLink, Create, Update, RepoFails, Publish, Respond, InFlight
    <3>. QED  BY <3>1, <1>1
  <2>. QED  BY <2>2, <2>3
<1>3. CASE Restart
  <2>1. InFlight' \subseteq InFlight
    BY <1>3 DEF Restart, InFlight
  <2>. QED  BY <2>1, <1>1
<1>4. CASE UNCHANGED stage
  <2>1. InFlight' \subseteq InFlight
    BY <1>4 DEF InFlight
  <2>. QED  BY <2>1, <1>1
<1>. QED  BY <1>2, <1>3, <1>4 DEF Next, vars, requestVars, GenerateWeatherReportTasks,
               ProcessWeatherReportTask, Tick

LEMMA BoundHolds == Spec => []Bounded
<1>1. Init => Bounded
  <2>1. Init => InFlight = {}
    BY DEF Init, InFlight
  <2>. QED  BY <2>1, FS_EmptySet, SubscriptionAssumption DEF Bounded
<1>2. Inv /\ Bounded /\ [Next]_vars => Bounded'
  BY StepKeepsBounded
<1>. QED  BY <1>1, <1>2, SubscriptionInvariant, PTL DEF Spec

\* Where one request is in flight at a time, no two are.
LEMMA SerialRequestsAreAlone ==
  ASSUME MaxInFlight = 1, Bounded, NEW q \in InFlight, NEW r \in InFlight
  PROVE  q = r
<1>1. SUFFICES ASSUME q # r  PROVE FALSE
  OBVIOUS
<1>2. Cardinality({q, r}) = 2
  <2>1. IsFiniteSet({q}) /\ Cardinality({q}) = 1
    BY FS_Singleton
  <2>2. {q, r} = {q} \cup {r} /\ r \notin {q}
    BY <1>1
  <2>. QED  BY <2>1, <2>2, FS_AddElement
<1>. QED  BY <1>2, FewerInFlight

\* Requests that come one at a time never find a row changed between read and save, so
\* the service keeps the lifecycle.
THEOREM SerialRequestsImplementLifecycle ==
  ASSUME MaxInFlight = 1
  PROVE  Spec => ImplementsLifecycle
<1>1. Bounded => OneWriter
  BY SerialRequestsAreAlone DEF OneWriter, Writing, InFlight
<1>. QED  BY <1>1, BoundHolds, OneWriterImplementsLifecycle, PTL

\* Requests that come one at a time find nothing changed between their last call and
\* their answer either, so a success they are told is what the table says.
THEOREM SerialAnswersMatchTheRow ==
  ASSUME MaxInFlight = 1
  PROVE  Spec => AnswersMatchTheRow
<1>1. Bounded => OneAtATime
  BY SerialRequestsAreAlone DEF OneAtATime, Acting, InFlight
<1>. QED  BY <1>1, BoundHolds, OneAtATimeAnswersMatchTheRow, PTL
=============================================================================
