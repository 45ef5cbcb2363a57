--------------------------- MODULE CircuitBreaker ---------------------------
(***************************************************************************)
(* simpleCB, the circuit breaker of the email consumer, with its clock.    *)
(* The type is guarded by a mutex, so each method is one step; a caller    *)
(* that CanExecute let through reports its outcome later, and others may   *)
(* have called in between.  The consumer is a single caller; the           *)
(* properties say which of them hold for more.                             *)
(***************************************************************************)
EXTENDS Integers, FiniteSets

CONSTANTS
  Callers,
  maxFailures,
  openDuration,    \* in ticks of the clock
  MaxTime          \* bound on the clock

VARIABLES
  failures,
  openUntil,       \* a time, or ZeroTime
  now,
  inside           \* callers let through that have not reported yet

vars == <<failures, openUntil, now, inside>>

ASSUME BreakerAssumption ==
  /\ IsFiniteSet(Callers)
  /\ maxFailures \in Nat \ {0}
  /\ openDuration \in Nat \ {0}
  /\ MaxTime \in Nat

ZeroTime == 0

\* Mutated form of reset: the counter keeps its value.
resetDeadlineOnly == openUntil' = ZeroTime /\ UNCHANGED failures

reset == failures' = 0 /\ openUntil' = ZeroTime

Admits == now >= openUntil

\* A call that is refused changes nothing.
CanExecute(c) ==
  /\ c \notin inside
  /\ Admits
  /\ IF openUntil # ZeroTime THEN reset ELSE UNCHANGED <<failures, openUntil>>
  /\ inside' = inside \cup {c}
  /\ UNCHANGED now

\* Mutated form of RecordSuccess: a success takes one failure back.
RecordSuccessLeaks(c) ==
  /\ c \in inside
  /\ failures' = failures - 1
  /\ inside' = inside \ {c}
  /\ UNCHANGED <<openUntil, now>>

RecordSuccess(c) ==
  /\ c \in inside
  /\ reset
  /\ inside' = inside \ {c}
  /\ UNCHANGED now

\* Mutated form of RecordFailure: it opens one failure late.
RecordFailureLate(c) ==
  /\ c \in inside
  /\ failures' = failures + 1
  /\ openUntil' = IF failures + 1 > maxFailures THEN now + openDuration ELSE openUntil
  /\ inside' = inside \ {c}
  /\ UNCHANGED now

RecordFailure(c) ==
  /\ c \in inside
  /\ failures' = failures + 1
  /\ openUntil' = IF failures + 1 >= maxFailures THEN now + openDuration ELSE openUntil
  /\ inside' = inside \ {c}
  /\ UNCHANGED now

Tick == now < MaxTime /\ now' = now + 1 /\ UNCHANGED <<failures, openUntil, inside>>

\* The clock is past ZeroTime.
Init == failures = 0 /\ openUntil = ZeroTime /\ now = 1 /\ inside = {}

Next == \/ \E c \in Callers : CanExecute(c) \/ RecordSuccess(c) \/ RecordFailure(c)
        \/ Tick

Spec == Init /\ [][Next]_vars

-----------------------------------------------------------------------------

\* Every variable has its type.
TypeOK ==
  /\ failures \in Nat
  /\ openUntil \in Nat
  /\ now \in Nat \ {0}
  /\ inside \subseteq Callers

\* The breaker has been opened exactly when the limit of failures is reached: counter
\* and deadline are set and reset together, for any number of callers.
OpenedAtLimit == openUntil # ZeroTime <=> failures >= maxFailures

\* Failures beyond the limit can only come from callers that were let through before:
\* the counter never runs away.
FailuresBounded == failures <= maxFailures - 1 + Cardinality(Callers)

\* A breaker that has opened stays open for its whole duration.  It holds when the callers
\* come one at a time, as the consumer does: nobody is inside whose late success could
\* close it early (proved in CircuitBreakerProofs).
StaysOpen == [][now < openUntil => openUntil' = openUntil]_vars

Mode == IF openUntil = ZeroTime THEN "closed" ELSE IF now < openUntil THEN "open" ELSE "elapsed"

Modes == INSTANCE BreakerModes WITH Limit <- maxFailures, mode <- Mode

\* The clock can be abstracted away: the breaker moves between the modes closed, open
\* and elapsed as the consumer's model of it does.
ImplementsModes == Modes!Spec
=============================================================================
