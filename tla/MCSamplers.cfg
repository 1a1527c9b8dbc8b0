SPECIFICATION Spec
CONSTANTS
  Trainings <- MCTrainings
  Epochs = 2
INVARIANTS
  SamplersTypeOK
  EpochCovered
  SameBucket
PROPERTIES
  EpochsEnd
