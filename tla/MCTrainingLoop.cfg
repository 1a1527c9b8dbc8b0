SPECIFICATION Spec
CONSTANTS
  Jobs <- MCJobs
  MaxRestarts = 2
  MaxSkips = 1
INVARIANTS
  TrainingTypeOK
  EachBatchOnce
  BrakeStops
  ScalerKept
PROPERTIES
  StepsTakeMeans
  RunEnds
