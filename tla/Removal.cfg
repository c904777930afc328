SPECIFICATION Spec
CONSTANTS
  Hashes = {h1, h2, h3}
  Slash <- MCSlash
  Paths <- MCPaths
  Torrents <- MCTorrents
  Libraries <- MCLibraries
  MinSeedDays = 1
  Grace = 0
  Limit = 2
  UnimportedMax = 1
  EventMax = 1
SYMMETRY MCSymmetry
INVARIANTS ClustersExact EveryTrackerSatisfied ConfirmedOnly LogIsTrue
PROPERTIES OnlyItsOwnFiles
CHECK_DEADLOCK FALSE
