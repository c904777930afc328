SPECIFICATION SettleSpec
CONSTANTS
  Size = 3
  StableTarget = 3
  UnseenLimit = 3
  NoiseMax = 1
INVARIANTS LandedIsWhole PromptlyConfirmed FailedForGood
CHECK_DEADLOCK FALSE
