CONSTANTS
  Callers = {c1, c2, c3}
  maxFailures = 2
  openDuration = 2
  MaxTime = 8
SPECIFICATION Spec
CHECK_DEADLOCK FALSE
SYMMETRY CallerSymmetry
INVARIANTS TypeOK OpenedAtLimit FailuresBounded
PROPERTY ImplementsModes
