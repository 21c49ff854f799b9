SPECIFICATION FairSpec
CONSTANTS
  Invoices = {i1}
  Sweeps = {s1, s2}
  MaxSteps = 3
  StepInterval = 2
  MaxCrashes = 1
INVARIANTS
  AttemptsFollowSteps
PROPERTIES
  ImplementsCaseLife
CHECK_DEADLOCK FALSE
