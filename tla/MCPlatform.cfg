SPECIFICATION Spec
CONSTANTS
  b1 = b1
  b2 = b2
  r1 = r1
  r2 = r2
  Bills = {b1, b2}
  Requests = {r1, r2}
  Month = 1
  TrialDays = 1
  LastDay = 3
INVARIANTS
  SeatsHeld
  PaidPlanHasPayment
SYMMETRY Alike
PROPERTY
  AccessLostOnlyByStaleReader
