\* A diagnosis that asks for no approval: its run is never closed.
SPECIFICATION RunSpec
CONSTANTS
  Approval = {}
  Client = {}
  NoReport = NoReport
  Faults = {}
  MaxStops = 0
INVARIANT PublishedRunSettles
CHECK_DEADLOCK FALSE
