SPECIFICATION FairSpec
CONSTANTS
  Entries = {1, 2, 3}
  Paths <- MCPaths
  Disks <- MCDisks
  Disk <- MCDisk
  Limit <- MCLimit
  Occupied <- MCOccupied
  Plans <- MCPlans
  Options <- MCOptions
  DriftMax = 1
  CrossMax = 1
CHECK_DEADLOCK FALSE
INVARIANTS OneWriterPerDisk PhaseGate NothingSilentlyDropped FollowedUpOnce RoomForWhatMayBeWritten
PROPERTIES KeepsPromise RunEnds
