SPECIFICATION Spec
CONSTANTS
  a = a
  b = b
  Commands = {a, b}
  Retries = 2
  SendOutcomes = {TRUE, FALSE}
  MaxDuplicates = 0
  MaxCalls = 1
  MaxCancels = 1
  MaxProgress = 1
  MaxInbox = 1
  MaxDisturbed = 1
  MaxOrphans = 0
INVARIANTS
  PromiseSetOnce
\* The user may be done and the queues empty.
CHECK_DEADLOCK FALSE
