SPECIFICATION FairSpec
CONSTANTS
  a = a
  b = b
  Plans <- MCPlans
  Names = {a}
  Lists <- OneOrNone
  SeqRange = 3
  MaxLength = 4
  Retries = 1
  SendOutcomes = {TRUE}
  MaxDuplicates = 1
  UserAcks = {"Accepted"}
  MaxUploads = 2
  MaxDownloads = 2
  MaxTransfers = 2
  MaxCancels = 0
  MaxOffers = 1
  MaxServed = 2
  MaxHolds = 1
  MaxGiven = 2
  MaxDisturbed = 1
PROPERTIES
  StationCallsAreOneShot
  VehicleCallsAreOneShot
  StationTransfersEnd
  VehicleTransfersEnd
\* The users may be done and the queues empty.
CHECK_DEADLOCK FALSE
