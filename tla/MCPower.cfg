CONSTANTS
  r1 = r1
  r2 = r2
  r3 = r3
  g1 = g1
  Runs = {r1, r2, r3}
  GPUs = {g1}
  GpuOf <- OneGpu
  MaxLive = 1
  MaxStretches = 2
SPECIFICATION Spec
SYMMETRY RunsAlike
CHECK_DEADLOCK FALSE
INVARIANTS
  RecordedWhenServing
  AppliedIsSet
  CleanExit
  OriginalTrue
