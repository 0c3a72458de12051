SPECIFICATION FairSpec
CONSTANTS
  p = p
  q = q
  Systems = {1, 2}
  Plugins = {p}
  Home <- OneHome
  Timeout = 2
  QueueLimit = 2
  MaxHeartbeats = 3
  AlwaysSend = TRUE
INVARIANTS
  TypeOK
  Watched
  PluginsFollow
  UserKnows
PROPERTIES
  LostAfterSilence
  LossNoticed
\* The heartbeats may be used up and the plugins gone.
CHECK_DEADLOCK FALSE
