\* Two executions on a host of two processes and two pids.
SPECIFICATION Spec
CONSTANTS
  Call = {c1, c2}
  u1 = u1
  r1 = r1
  pid1 = pid1
  pid7 = pid7
  Process <- Processes
  Guarded = {r1}
  Pid = {pid1, pid7}
  ProtectedPid = {pid1}
  Nice = {0, 1}
  Request <- Requests
  Setting <- Settings
  NoProcess = NoProcess
  NoPid = NoPid
INVARIANTS
  TypeOK
  OnlyAuthorisedEffects
  SuccessIsReal
PROPERTY
  ExecutionsAnswer
\* Everything stops once all calls have answered and all processes ended.
CHECK_DEADLOCK FALSE
