\* The report job and API restarts next to two requests.
SPECIFICATION RunSpec
CONSTANTS
  Approval = {a1, a2}
  Client = {c1, c2}
  NoReport = NoReport
  Faults = {}
  MaxStops = 1
SYMMETRY Symmetry
INVARIANTS
  RunTypeOK
  ReportNeverInvents
  ReportStatusAgrees
  DerivedStateSettles
  GeneratingHasAJob
PROPERTY
  PublishedStaysServed
\* Everything stops once requests and job have ended and the API is up.
CHECK_DEADLOCK FALSE
