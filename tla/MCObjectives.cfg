CONSTANTS
  Objective = "throughput"
  Ceiling = 2
  FloorPercent = 50
  NoisePercent = 10
  PowerLossPercent = 30
  Trials <- MCTrials
  Levels <- MCLevels
  Den = 4
  MaxTrials = 3
  MaxLevels = 3
  MaxSamples = 5
  Confidences = {50, 75, 95}
SPECIFICATION Spec
CHECK_DEADLOCK FALSE
INVARIANTS
  WinnerNearBest
  CapEarnsItsPlace
  EnoughSettles
  VerdictsHold
