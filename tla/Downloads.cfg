SPECIFICATION Spec
CONSTANTS
  Hot = {"hotA"}
  Cold = {"coldA", "coldB"}
  Slash <- MCSlash
  Disk <- MCDisk
  Total <- MCTotal
  Target <- MCTarget
  Max_ <- MCMax
  Names <- MCNames
  Size <- MCSize
  Rules <- MCRules
  SeedLabel = "seed"
  Connected = {"sonarr"}
  AllowDisablingAutoTMM = TRUE
  SettleDays = 1
  Worlds <- MCWorlds
  Arrivals <- MCArrivals
  Horizon = 2
  EventMax = 2
INVARIANTS MovedTogether ImportsUnbroken  NoneForgotten SeedLabelTrue
CHECK_DEADLOCK FALSE
