SPECIFICATION MCLagSpec
CONSTANTS
  Threads = {1, 2, 3}
  ClientOf <- MCClientOf
  Fds = {4, 5}
  Builds = {"futex", "pthread"}
  ValidAge = 1
  KeepAge = 1
  MaxTime = 2
  MaxLog = 2
INVARIANTS
  LagTypeOK
  OneAtATime
  NoLostWakeup
  LogsAreOrdered
PROPERTIES
  ClearIsComplete
  OwnMessageIsParsed
  CallsReturn
