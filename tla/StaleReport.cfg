\* An approval decided between the job's read of the trace and its write.
SPECIFICATION RunSpec
CONSTANTS
  Approval = {a1}
  Client = {c1, c2}
  NoReport = NoReport
  Faults = {}
  MaxStops = 0
INVARIANT ReportMatchesTrace
CHECK_DEADLOCK FALSE
