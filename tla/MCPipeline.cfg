\* Two runs, one upgrade or removal, one run killed while it saves.
CONSTANTS
  Runs = {r1, r2}
  Engines <- MCEngines
  Quants <- MCQuants
  Requests <- MCRequests
  Gpus = {1, 2}
  MaxChanges = 1
  MaxKills = 1
SYMMETRY MCSymmetry
SPECIFICATION Spec
INVARIANTS
  ServedForRequest
  ServedIsCurrent
  OnlyARaceTears
PROPERTIES
  UnphasedFoundAgain
\* The runs end.
CHECK_DEADLOCK FALSE
