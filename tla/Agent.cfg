\* A diagnosis on seven machines: two tools may fail or hang, the LLM may answer
\* with nine plans and any report, the connection may fail at any point.
SPECIFICATION Spec
CONSTANTS
  MaxRetries = 1
  MaxChunks = 2
  DangerousTool <- Dangerous
  ProcessLimit = 2
  Machine <- Machines
  Setup <- Setups
  Candidate <- Candidates
  UnknownTool <- Unknown
  FlakyTool <- Flaky
  Retry = 1
INVARIANTS
  AgentTypeOK
  OnlyValidPlansRun
  FindingsAreTraceable
  PlanTreeSettles
  EveryApprovalIsReported
  MatchedIsFound
  RequestsAreBounded
  ShownTextIsOneAnswer
PROPERTY
  EveryDiagnosisReports
\* A diagnosis ends with its report.
CHECK_DEADLOCK FALSE
