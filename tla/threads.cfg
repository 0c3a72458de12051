SPECIFICATION FairSpec
CONSTANTS
  Items = {"item"}
  Owners = {"item", "heartbeats", "watchdog"}
  Addresses = {1, 2, 3, 4}
  Nobody = "nobody"
  Null = 0
  Callbacks <- MCCallbacks
  NoCallback = NoCallback
  Callers = {"receive", "work"}
  QueueLimit = 1
  Seqs = {0, 1}
  MaxEvents = 3
INVARIANTS
  TimeoutsKept
  QueueBounded
  LastProgressIsShown
PROPERTIES
  DestructorEnds
  CallbacksRun
\* The program may have ended.
CHECK_DEADLOCK FALSE
