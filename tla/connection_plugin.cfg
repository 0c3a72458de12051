SPECIFICATION Spec
CONSTANTS
  p = p
  q = q
  Systems = {1, 2}
  Plugins = {p}
  Home <- OneHome
  Timeout = 2
  QueueLimit = 2
  MaxHeartbeats = 2
  AlwaysSend = TRUE
INVARIANTS
  NotEnabledAfterDeinit
\* The heartbeats may be used up and the plugins gone.
CHECK_DEADLOCK FALSE
