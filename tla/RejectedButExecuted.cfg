\* A claim that is given back while a real execution is under way.
SPECIFICATION Spec
CONSTANTS
  Approval = {a1}
  Client = {c1, c2, c3}
  NoReport = NoReport
  Faults = {"raise"}
PROPERTY EffectsNeedApproval
CHECK_DEADLOCK FALSE
