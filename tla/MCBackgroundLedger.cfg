SPECIFICATION BesideSpec
CONSTANTS
  t1 = t1
  t2 = t2
  s1 = s1
  s2 = s2
  Tasks = {t1}
  Sessions = {s1, s2}
  MaxAttempts = 2
  MaxGeneration = 2
  MaxRestarts = 1
  MaxFailures = 1
  Chats = {"c"}
  MaxHooked = 3
  MaxTracked = 1
  MaxAudited = 1
  MaxHookTurns = 2
  MaxTools = 2
  MaxHookFaults = 1
INVARIANTS
  AuditLossIsVisible
  NoEarlierResult
  RunningIsOfThisConnection
PROPERTIES
  EndedRunsAreClosed
  ReattachedAfterReconnect
CHECK_DEADLOCK FALSE
