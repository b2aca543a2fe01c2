\* The report job and two deciding requests write the same files.
SPECIFICATION Spec
CONSTANTS
  Client = {c1, c2}
  Job = Job
  Nobody = Nobody
  File = {"report", "metadata", "context", "remediation"}
  Missing = Missing
  Empty = Empty
  Partial = Partial
INVARIANTS
  TypeOK
  RefreshIsExact
PROPERTIES
  ReportIsNotRecalled
  StoredReportIsWritten
\* All writers have ended.
CHECK_DEADLOCK FALSE
