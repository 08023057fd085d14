\* Either front end, five requests.
CONSTANTS
  Requests = {q1, q2, q3, q4, q5}
  N = 2
  Window = 3
  MinRequests = 2
  Top = 1
SYMMETRY MCSymmetry
SPECIFICATION Spec
INVARIANTS
  Accounted
PROPERTIES
  BalancedUnlessLost
  WarnsOfRealDrift
\* Every request is handled once.
CHECK_DEADLOCK FALSE
