CONSTANTS
  Objective = "balanced"
  Ceiling = 2
  FloorPercent = 50
  NoisePercent = 2
  PowerLossPercent = 2
  Grid <- MCGrid
  Keys <- MCKeys
  Reserving <- MCReserving
  Unfit <- MCUnfit
  VariantStages <- MCVariantStages
  Offers <- MCOffers
  Ladder <- MCLadder
  Settings <- MCSettings
  TopQuants = 2
  MemoryTrials = 3
  SpecBeam = 2
  ConfirmTop = 2
  MaxCombinations = 4
  ExploreMin = 1
  Outcomes <- MCOutcomes
  MaxSurprises = 2
SPECIFICATION Spec
INVARIANTS
  TriedOnce
  SomethingWins
  LeaderKept
  BudgetKept
  ChosenOnFreshRuns
