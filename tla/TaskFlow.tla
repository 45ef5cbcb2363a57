------------------------------ MODULE TaskFlow ------------------------------
(***************************************************************************)
(* What the scheduler promises of the report tasks of a firing: each one   *)
(* that was created is attempted exactly once; tasks are given up only     *)
(* when the service has been told to stop.                                 *)
(***************************************************************************)
CONSTANT Tasks
VARIABLES fate,      \* task -> "none", "waiting", "attempted" or "dropped"
          stopping   \* the service has been told to stop

Init == fate = [t \in Tasks |-> "none"] /\ stopping = FALSE

Move(from, to, some) ==
  /\ some # {} /\ \A t \in some : fate[t] = from
  /\ fate' = [t \in Tasks |-> IF t \in some THEN to ELSE fate[t]]
  /\ UNCHANGED stopping

CreateTasks(some) == Move("none", "waiting", some)
Attempt(t)        == Move("waiting", "attempted", {t})
Drop(some)        == stopping /\ Move("waiting", "dropped", some)
Stop              == stopping' = TRUE /\ UNCHANGED fate

Next == \/ \E some \in SUBSET Tasks : CreateTasks(some) \/ Drop(some)
        \/ \E t \in Tasks : Attempt(t)
        \/ Stop

Spec == Init /\ [][Next]_<<fate, stopping>>
=============================================================================
