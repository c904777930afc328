SPECIFICATION Spec
CONSTANTS
  Hashes = {h1, h2}
  Slash <- MCSlash
  Paths <- MCPaths
  Torrents <- MCTorrents
  Libraries <- MCLibraries
  MinSeedDays = 1
  Grace = 0
  Limit = 2
  UnimportedMax = 0
  EventMax = 0
SYMMETRY MCSymmetry
PROPERTIES RemovedTogether
CHECK_DEADLOCK FALSE
