SPECIFICATION Spec
CONSTANTS
  a = a
  b = b
  Plans <- MCPlans
  Names <- MCNames
  Lists <- AllLists
  SeqRange = 3
  MaxLength = 4
  Retries = 2
  SendOutcomes = {TRUE, FALSE}
  MaxDuplicates = 0
  UserAcks = {"Accepted"}
  MaxUploads = 2
  MaxDownloads = 2
  MaxTransfers = 1
  MaxCancels = 1
  MaxOffers = 1
  MaxServed = 1
  MaxHolds = 0
  MaxGiven = 1
  MaxDisturbed = 1
INVARIANTS
  ReportedOnce
  NothingWedged
  RetriesRespected
  SuccessMeansAllSent
  AcceptedMeansDelivered
  DownloadIsExact
\* The users may be done and the queues empty.
CHECK_DEADLOCK FALSE
