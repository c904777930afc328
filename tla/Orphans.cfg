SPECIFICATION Spec
CONSTANTS
  Configs <- MCConfigs
  Downloads <- MCDownloads
  Items <- MCItems
  Strays <- MCStrays
  Partial <- MCPartial
  EventMax = 2
INVARIANTS ScanIsExact
PROPERTIES DeletedIsNobodys
CHECK_DEADLOCK FALSE
