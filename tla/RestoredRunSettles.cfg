\* A claim that is given back after the other approvals have been decided.
SPECIFICATION Spec
CONSTANTS
  Approval = {a1, a2}
  Client = {c1, c2, c3}
  NoReport = NoReport
  Faults = {"raise"}
INVARIANT DerivedStateSettles
CHECK_DEADLOCK FALSE
