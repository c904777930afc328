SPECIFICATION Spec
CONSTANTS
  Tasks = {"scan_cutoffs", "run_plan"}
  DayLength = 3
  Schedules <- MCSchedules
  OmitChoices = {{}, {1, 2}}
  Starts <- MCStarts
  Horizon = 8
  EventMax = 2
INVARIANTS NotOnTheSpot OncePerSlot NothingLeftDue LastRanIsTrue
PROPERTIES RestartKeepsNextRun
CHECK_DEADLOCK FALSE
