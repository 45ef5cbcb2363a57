----------------------------- MODULE AtLeastOnce -----------------------------
(***************************************************************************)
(* What a publisher expects of the email service: a publication is held    *)
(* until the email its message id stands for has gone out.  It may be let  *)
(* go earlier only in favour of another publication with the same id, and  *)
(* a publication without an id may be dropped.                             *)
(***************************************************************************)
CONSTANTS Messages, Id, NoId
VARIABLES open,     \* publications the service still answers for
          mailed    \* message ids whose email has been sent

Init == open = Messages /\ mailed = {}

Mail(m) == m \in open /\ mailed' = mailed \cup {Id[m]} /\ UNCHANGED open

Settle(m) ==
  /\ m \in open
  /\ \/ Id[m] = NoId
     \/ Id[m] \in mailed
     \/ \E other \in open \ {m} : Id[other] = Id[m]
  /\ open' = open \ {m}
  /\ UNCHANGED mailed

Next == \E m \in Messages : Mail(m) \/ Settle(m)

Spec == Init /\ [][Next]_<<open, mailed>>

\* No email is lost: every id was mailed or is still held by some publication.
NothingLost == \A m \in Messages : \/ Id[m] = NoId
                                   \/ Id[m] \in mailed
                                   \/ \E other \in open : Id[other] = Id[m]
=============================================================================
