SPECIFICATION FairSpec
CONSTANTS
  Nobody = Nobody
  Subs = {s1}
  CancellationRequests = {q1}
  Resolvers = {r1, r2}
  Offers = {"pause", "discount"}
  Sweeps = {cron, again}
  DaysAfter = 1
  MaxFailedCalls = 1
  MaxCrashes = 1
INVARIANTS
  ReturnChargedOnce
PROPERTIES
  ResolvedAgainByStaleReader
  LeaverGetsOffer
