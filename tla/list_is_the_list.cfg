SPECIFICATION Spec
CONSTANTS
  a = a
  b = b
  Names <- MCNames
  Lists <- GoodLists
  Retries = 2
  SeqRange = 3
  SendOutcomes = {TRUE}
  MaxDuplicates = 0
  MaxDownloads = 1
  MaxCancels = 0
  MaxOffers = 1
  MaxUploads = 1
  MaxHolds = 0
  MaxDisturbed = 0
  MaxAgain = 0
INVARIANT DownloadIsTheList
CHECK_DEADLOCK FALSE
