SPECIFICATION FairSpec
CONSTANTS
  a = a
  b = b
  Commands = {a}
  Retries = 2
  SendOutcomes = {TRUE, FALSE}
  MaxDuplicates = 1
  MaxCalls = 2
  MaxCancels = 1
  MaxProgress = 1
  MaxInbox = 1
  MaxDisturbed = 1
  MaxOrphans = 0
INVARIANTS
  TypeOK
  ReportedOnce
  NothingWedged
  RetriesRespected
  SuccessIsForThisCall
PROPERTIES
  CommandIsOneShot
  CommandEnds
\* The user may be done and the queues empty.
CHECK_DEADLOCK FALSE
