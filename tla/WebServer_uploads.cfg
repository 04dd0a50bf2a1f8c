CONSTANTS
  Stall = 1
  Takeover = 2
  MaxXfer = 1
  MaxPending = 1
  Chunks = 2
  MaxRequests = 3
  MaxUploads = 2
SPECIFICATION FairSpec
INVARIANT UploadsSafe
PROPERTIES DeedsOfTheWhole BackToWork Served
CHECK_DEADLOCK FALSE
