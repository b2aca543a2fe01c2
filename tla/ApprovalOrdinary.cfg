\* Executors that always return a result; requests may still die.
SPECIFICATION Spec
CONSTANTS
  Approval = {a1, a2}
  Client = {c1, c2}
  NoReport = NoReport
  NoClient = NoClient
  Faults = {"crash"}
INVARIANTS
  DerivedStateSettles
  EffectsAreAudited
PROPERTIES
  EffectsNeedApproval
  ImplementsLedger
  ClaimsAreSettled
CHECK_DEADLOCK FALSE
