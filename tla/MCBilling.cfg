SPECIFICATION FairSpec
CONSTANTS
  c = c
  d = d
  s = s
  cron = cron
  owner = owner
  payment = payment
  Clients = {c, d}
  Subscriptions = {s}
  Runs = {cron, owner}
  Requests = {payment}
  PayerOf <- OnePayer
  Gross <- TwoUnits
  Referrals <- OneReferral
  Reward = 1
  LastMonth = 2
  MaxRefusals = 1
  MaxFailures = 1
INVARIANTS
  CreditIsKept
  ChargedOnce
  NoMonthSkipped
PROPERTIES
  EveryMonthReached
CHECK_DEADLOCK FALSE
