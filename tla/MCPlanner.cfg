SPECIFICATION SpecPlanner
CONSTANTS
  GgufQuants <- MCGgufQuants
  Machines <- MCMachines
  Models <- MCModels
  Asked <- MCAsked
  SizeErrors = {90, 115}
INVARIANTS
  PlannedWhatFits
  NamesTellServersApart
  WeightsInPlace
CHECK_DEADLOCK FALSE
