\* Two runs, one after the other or at once, of a phased command.
CONSTANTS
  Runs = {r1, r2}
  Engines <- MCEngines
  Quants <- MCQuants
  Requests <- MCPhasedRequests
  Gpus = {2}
  MaxChanges = 0
  MaxKills = 0
SPECIFICATION Spec
PROPERTIES
  FoundAgain
CHECK_DEADLOCK FALSE
