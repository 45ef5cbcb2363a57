------------------------------ MODULE Lifecycle ------------------------------
(***************************************************************************)
(* What a subscription goes through, as a person sees it: subscribing      *)
(* makes it pending, confirming makes it active, unsubscribing ends it,    *)
(* and only subscribing again leaves the ended state.                      *)
(***************************************************************************)
CONSTANT Emails
VARIABLE status

Statuses == {"absent", "pending", "active", "ended"}

Init == status = [e \in Emails |-> "absent"]

Move(e, from, to) == status[e] \in from /\ status' = [status EXCEPT ![e] = to]

\* An active subscription is refused a second Subscribe.
Subscribe(e)   == Move(e, {"absent", "ended"}, "pending")
Confirm(e)     == Move(e, {"pending"}, "active")
Unsubscribe(e) == Move(e, {"pending", "active"}, "ended")

Next == \E e \in Emails : Subscribe(e) \/ Confirm(e) \/ Unsubscribe(e)

Spec == Init /\ [][Next]_status
=============================================================================
