SPECIFICATION Spec
CONSTANTS
  Configs <- MCConfigs
  Downloads <- MCDownloads
  Items <- MCItems
  Strays <- MCStrays
  Partial <- MCPartial
  EventMax = 2
PROPERTIES UnfinishedIsKept
CHECK_DEADLOCK FALSE
