SPECIFICATION Spec
CONSTANTS
  a = a
  b = b
  Names <- MCNames
  Lists <- MCLists
  Retries = 2
  SeqRange = 3
  SendOutcomes = {TRUE, FALSE}
  MaxDuplicates = 0
  MaxDownloads = 1
  MaxCancels = 1
  MaxOffers = 1
  MaxUploads = 1
  MaxHolds = 1
  MaxDisturbed = 1
  MaxAgain = 0
INVARIANTS
  TypeOK
  ReportedOnce
  NothingWedged
  RetriesRespected
  SuccessMeansAllSent
  SuccessWithoutRepeatsIsExact
\* The users may be done and the queues empty.
CHECK_DEADLOCK FALSE
