SPECIFICATION Spec
CONSTANTS
  Hot = {"hotA", "hotB"}
  Cold = {"coldA", "coldB"}
  Slash <- MCSlash
  Disk <- MCDisk
  Total <- MCTotal
  Target <- MCTarget
  Max_ <- MCMax
  Names <- MCNames
  Size <- MCSize
  Rules <- MCRules
  SeedLabel = "seed"
  Connected = {"sonarr"}
  AllowDisablingAutoTMM = TRUE
  SettleDays = 1
  Worlds <- MCNamesakes
  Arrivals <- MCArrivals
  Horizon = 2
  EventMax = 0
INVARIANTS NeverOntoExisting
CHECK_DEADLOCK FALSE
