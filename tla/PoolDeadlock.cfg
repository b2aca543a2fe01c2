\* A report job that has ended when its callback is attached.
SPECIFICATION PoolSpec
CONSTANTS
  Run = {r1, r2}
  Workers = 2
  Fast = {r1}
  Nobody = Nobody
PROPERTY DiagnoseIsAnswered
CHECK_DEADLOCK FALSE
