\* More report jobs than pool threads, none of them faster than its submission.
SPECIFICATION PoolSpec
CONSTANTS
  Run = {r1, r2, r3, r4}
  Workers = 2
  Fast = {}
  Nobody = Nobody
INVARIANTS
  PoolTypeOK
  LiveJobsAreRegistered
PROPERTIES
  DiagnoseIsAnswered
  JobsAreForgotten
\* All jobs have ended.
CHECK_DEADLOCK FALSE
