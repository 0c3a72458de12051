SPECIFICATION FairSpec
CONSTANTS
  a = a
  b = b
  Names = {a}
  Lists <- ShortLists
  Retries = 2
  SeqRange = 2
  SendOutcomes = {TRUE}
  MaxDuplicates = 1
  MaxDownloads = 2
  MaxCancels = 0
  MaxOffers = 1
  MaxUploads = 2
  MaxHolds = 1
  MaxDisturbed = 1
  MaxAgain = 1
PROPERTIES
  DownloadIsOneShot
  UploadIsOneShot
  DownloadEnds
  UploadEnds
\* The users may be done and the queues empty.
CHECK_DEADLOCK FALSE
