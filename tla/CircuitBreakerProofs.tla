------------------------ MODULE CircuitBreakerProofs ------------------------
(***************************************************************************)
(* Proofs about the circuit breaker for every number of callers, every     *)
(* limit and every duration.                                               *)
(***************************************************************************)
EXTENDS CircuitBreaker, FiniteSetTheorems, TLAPS

\* Past the limit, every caller still inside can add one failure and none can be added
\* to them: CanExecute first resets the counter.
NoMoreThanInside ==
  failures >= maxFailures =>
    failures + Cardinality(inside) <= maxFailures - 1 + Cardinality(Callers)

BreakerInv == TypeOK /\ OpenedAtLimit /\ NoMoreThanInside

\* The initial state satisfies the invariant.
LEMMA InitBreakerInv == Init => BreakerInv
  BY BreakerAssumption DEF Init, BreakerInv, TypeOK, OpenedAtLimit, NoMoreThanInside, ZeroTime

\* A caller that reports was inside, and leaves one place fewer to fill.
LEMMA Leaving ==
  ASSUME TypeOK, NEW c \in inside
  PROVE  /\ Cardinality(inside) \in Nat /\ Cardinality(Callers) \in Nat
         /\ Cardinality(inside \ {c}) = Cardinality(inside) - 1
         /\ Cardinality(inside) <= Cardinality(Callers)
<1>1. inside \subseteq Callers /\ IsFiniteSet(Callers)
  BY BreakerAssumption DEF TypeOK
<1>2. IsFiniteSet(inside) /\ Cardinality(inside) <= Cardinality(Callers)
  BY <1>1, FS_Subset
<1>3. Cardinality(inside \ {c}) = Cardinality(inside) - 1
  BY <1>2, FS_RemoveElement
<1>4. QED
  BY <1>1, <1>2, <1>3, FS_CardinalityType

\* Every step of the breaker preserves the invariant.
LEMMA StepBreakerInv == BreakerInv /\ [Next]_vars => BreakerInv'
<1>. SUFFICES ASSUME BreakerInv, [Next]_vars PROVE BreakerInv'
  OBVIOUS
<1>. USE BreakerAssumption DEF BreakerInv, TypeOK, OpenedAtLimit, NoMoreThanInside, ZeroTime
<1>1. ASSUME NEW c \in Callers, CanExecute(c) PROVE BreakerInv'
  <2>1. failures' < maxFailures /\ openUntil' = ZeroTime /\ failures' \in Nat
    BY <1>1 DEF CanExecute, Admits, reset
  <2>2. QED
    BY <1>1, <2>1 DEF CanExecute
<1>2. ASSUME NEW c \in Callers, RecordSuccess(c) PROVE BreakerInv'
  BY <1>2 DEF RecordSuccess, reset
<1>3. ASSUME NEW c \in Callers, RecordFailure(c) PROVE BreakerInv'
  <2>1. TypeOK'
    BY <1>3 DEF RecordFailure
  <2>2. OpenedAtLimit'
    BY <1>3 DEF RecordFailure
  <2>3. NoMoreThanInside'
    <3>1. inside' = inside \ {c} /\ c \in inside /\ failures' = failures + 1
      BY <1>3 DEF RecordFailure
    <3>2. /\ Cardinality(inside) \in Nat /\ Cardinality(Callers) \in Nat
          /\ Cardinality(inside') = Cardinality(inside) - 1
          /\ Cardinality(inside) <= Cardinality(Callers)
      BY <3>1, Leaving
    <3>3. QED
      BY <3>1, <3>2
  <2>4. QED
    BY <2>1, <2>2, <2>3
<1>4. ASSUME Tick PROVE BreakerInv'
  BY <1>4 DEF Tick
<1>5. ASSUME UNCHANGED vars PROVE BreakerInv'
  BY <1>5 DEF vars
<1>6. QED
  BY <1>1, <1>2, <1>3, <1>4, <1>5 DEF Next

LEMMA BreakerInvariant == Spec => []BreakerInv
  BY InitBreakerInv, StepBreakerInv, PTL DEF Spec

\* Variables keep their types.
THEOREM BreakerTypes == Spec => []TypeOK
  BY BreakerInvariant, PTL DEF BreakerInv

\* Counter and deadline agree on whether the breaker has been opened.
THEOREM BreakerOpensAtLimit == Spec => []OpenedAtLimit
  BY BreakerInvariant, PTL DEF BreakerInv

\* The counter never exceeds the limit by more than the callers that were inside.
THEOREM BreakerFailuresBounded == Spec => []FailuresBounded
<1>1. BreakerInv => FailuresBounded
  <2>. SUFFICES ASSUME BreakerInv PROVE FailuresBounded
    OBVIOUS
  <2>1. IsFiniteSet(inside) /\ Cardinality(inside) \in Nat /\ Cardinality(Callers) \in Nat
    BY BreakerAssumption, FS_Subset, FS_CardinalityType DEF BreakerInv, TypeOK
  <2>2. QED
    BY <2>1, BreakerAssumption DEF BreakerInv, TypeOK, NoMoreThanInside, FailuresBounded
<1>2. QED
  BY <1>1, BreakerInvariant, PTL

\* The breaker with a clock implements the breaker with modes that the consumer's model
\* contains: a refused call and a tick that ends nothing are stutters.
THEOREM BreakerImplementsModes == Spec => ImplementsModes
<1>. USE BreakerAssumption DEF ZeroTime
<1>1. Init => Modes!Init
  BY DEF Init, Modes!Init, Mode
<1>2. BreakerInv /\ [Next]_vars => [Modes!Next]_<<failures, Mode>>
  <2>. SUFFICES ASSUME BreakerInv, [Next]_vars
                PROVE  Modes!Next \/ UNCHANGED <<failures, Mode>>
    OBVIOUS
  <2>. USE DEF BreakerInv, TypeOK, OpenedAtLimit
  <2>1. ASSUME NEW c \in Callers, CanExecute(c) PROVE Modes!Admit
    BY <2>1 DEF CanExecute, Admits, reset, Modes!Admit, Mode
  <2>2. ASSUME NEW c \in Callers, RecordSuccess(c) PROVE Modes!Success
    BY <2>2 DEF RecordSuccess, reset, Modes!Success, Mode
  <2>3. ASSUME NEW c \in Callers, RecordFailure(c) PROVE Modes!Failure
    BY <2>3 DEF RecordFailure, Modes!Failure, Mode
  <2>4. ASSUME Tick PROVE Modes!Elapse \/ UNCHANGED <<failures, Mode>>
    BY <2>4 DEF Tick, Modes!Elapse, Mode
  <2>5. ASSUME UNCHANGED vars PROVE UNCHANGED <<failures, Mode>>
    BY <2>5 DEF vars, Mode
  <2>6. QED
    BY <2>1, <2>2, <2>3, <2>4, <2>5 DEF Next, Modes!Next
<1>3. QED
  BY <1>1, <1>2, BreakerInvariant, PTL DEF Spec, ImplementsModes, Modes!Spec

\* However late callers report, an opened breaker lets somebody through again at the latest
\* one duration from now.
THEOREM BreakerReadmits == Spec => [](openUntil <= now + openDuration)
<1>. DEFINE Soon == openUntil <= now + openDuration
<1>. USE BreakerAssumption DEF BreakerInv, TypeOK, ZeroTime
<1>1. Init => Soon
  BY DEF Init
<1>2. BreakerInv /\ Soon /\ [Next]_vars => Soon'
  BY DEF Next, CanExecute, RecordSuccess, RecordFailure, reset, Tick, vars
<1>. QED  BY <1>1, <1>2, BreakerInvariant, PTL DEF Spec

\* With one caller an opened breaker cannot be closed before its time: nobody is inside
\* who could report a success.
THEOREM BreakerStaysOpen ==
  ASSUME NEW sole, Callers = {sole}
  PROVE  Spec => StaysOpen
<1>. DEFINE NobodyInside == now < openUntil => inside = {}
<1>. USE BreakerAssumption DEF BreakerInv, TypeOK, ZeroTime
<1>1. Init => NobodyInside
  BY DEF Init
<1>2. BreakerInv /\ NobodyInside /\ [Next]_vars
        => NobodyInside' /\ (now < openUntil => openUntil' = openUntil)
  <2>. SUFFICES ASSUME BreakerInv, NobodyInside, [Next]_vars
                PROVE  NobodyInside' /\ (now < openUntil => openUntil' = openUntil)
    OBVIOUS
  <2>1. ASSUME NEW c \in Callers, CanExecute(c)
        PROVE  NobodyInside' /\ (now < openUntil => openUntil' = openUntil)
    BY <2>1 DEF CanExecute, Admits, reset
  <2>2. ASSUME NEW c \in Callers, RecordSuccess(c) \/ RecordFailure(c)
        PROVE  NobodyInside' /\ (now < openUntil => openUntil' = openUntil)
    <3>1. inside = {c} /\ inside' = {} /\ ~(now < openUntil)
      BY <2>2 DEF RecordSuccess, RecordFailure
    <3>2. QED
      BY <3>1
  <2>3. ASSUME Tick
        PROVE  NobodyInside' /\ (now < openUntil => openUntil' = openUntil)
    BY <2>3 DEF Tick
  <2>4. ASSUME UNCHANGED vars
        PROVE  NobodyInside' /\ (now < openUntil => openUntil' = openUntil)
    BY <2>4 DEF vars
  <2>5. QED
    BY <2>1, <2>2, <2>3, <2>4 DEF Next
<1>3. QED
  BY <1>1, <1>2, BreakerInvariant, PTL DEF Spec, StaysOpen
=============================================================================
