---------------------------- MODULE BreakerModes ----------------------------
(***************************************************************************)
(* A circuit breaker without its clock: closed, open, or open with its     *)
(* time elapsed.  Open lets nothing through, elapsed lets a caller through *)
(* and starts counting again.                                              *)
(***************************************************************************)
EXTENDS Naturals

CONSTANT Limit
VARIABLES failures, mode

Init == failures = 0 /\ mode = "closed"

Admit == /\ mode # "open"
         /\ mode' = "closed"
         /\ failures' = IF mode = "elapsed" THEN 0 ELSE failures

Success == mode' = "closed" /\ failures' = 0

Failure == /\ failures' = failures + 1
           /\ mode' = IF failures + 1 >= Limit THEN "open" ELSE mode

Elapse == mode = "open" /\ mode' = "elapsed" /\ UNCHANGED failures

Next == Admit \/ Success \/ Failure \/ Elapse

Spec == Init /\ [][Next]_<<failures, mode>>
=============================================================================
