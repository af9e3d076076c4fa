CONSTANTS
  SizeOf <- MCSizeOf
  IsoSize <- MCSizeOf
  Offers <- MCOffers
  Devices <- MCDevices
  FileOptions <- MCFileOptions
  DownloadOptions <- MCDownloadOptions
  EsdImages <- MCEsdImages
  EsdQueries <- MCEsdQueries
  OwnRecords <- MCOwnRecords
  MaxRequests = 3
  MaxOutside = 1
  Callers = {c1, c2}
  Requests <- MCRequests
  Pages <- MCPages
  SkuLists <- MCSkuLists
  Links <- MCLinks
  skuInfoMaxAttempts = 3
  MaxCalls = 2
  MaxTime = 2
SPECIFICATION Spec
INVARIANT WholeIsAccepted
CHECK_DEADLOCK FALSE
