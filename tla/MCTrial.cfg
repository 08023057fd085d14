SPECIFICATION Spec
CONSTANTS
  MaxPrompts = 4
  MaxClients = 2
  MaxDeaths = 2
  MinLevelRequests = 2
  TolerancePercent = 50
  Calls <- MCCalls
INVARIANTS
  Reported
  LoadAsAsked
PROPERTIES
  FreshWhereRoom
  TrialEnds
CHECK_DEADLOCK FALSE
