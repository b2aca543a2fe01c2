\* Executors that raise and requests that die.
SPECIFICATION Spec
CONSTANTS
  Approval = {a1, a2}
  Client = {c1, c2, c3}
  NoReport = NoReport
  Faults = {"raise", "crash"}
SYMMETRY Symmetry
INVARIANTS
  TypeOK
  ClaimIsExclusive
  ExecutedIffSucceeded
  FailedRunHasFailure
PROPERTY
  DecisionIsFinal
\* Requests are finitely many: the system rests when all have been answered.
CHECK_DEADLOCK FALSE
