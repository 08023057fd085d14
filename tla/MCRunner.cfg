\* Two jobs of a program, two faults.
CONSTANTS
  NGpus = 2
  Setting = {"default", "cap", "clock"}
  Jobs <- MCJobs
  MaxJobs = 2
  MaxFaults = 2
SPECIFICATION Spec
INVARIANTS
  NothingLeftRunning
  MeasuredUnderItsSetting
  EverySettingReported
\* The program ends.
CHECK_DEADLOCK FALSE
