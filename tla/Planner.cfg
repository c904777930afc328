SPECIFICATION Spec
CONSTANTS
  Drives <- MCDrives
  Libraries <- MCLibraries
  Threshold = 1
INVARIANTS PhaseFits LargestReclaims NoneForgotten ReplanIsEmpty
PROPERTIES HotBoundFirst
CHECK_DEADLOCK FALSE
