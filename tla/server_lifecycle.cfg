SPECIFICATION Spec
CONSTANTS
  Pids = {p1, p2}
  c1 = c1
  c2 = c2
  c3 = c3
  Cmds = {c1, c2, c3}
  Kinds <- KindsPerCommand
  NoState = NoState
  Torn = Torn
  NoPid = NoPid
  MaxCrashes = 1
INVARIANTS TypeOK StoppedLeavesNothing StopMeansStopped HelpersRecorded
PROPERTIES StopEndsServer
CHECK_DEADLOCK FALSE
