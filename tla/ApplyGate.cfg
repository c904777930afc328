SPECIFICATION FairSpec
CONSTANTS
  Nobody = Nobody
  Attempts <- Everyone
  Kind <- EveryoneKind
  RunMax = 2
  CrashMax = 1
INVARIANTS OneAtATime NoOverlapMissed NoFalseAdmission
PROPERTY LockFreed
CHECK_DEADLOCK FALSE
