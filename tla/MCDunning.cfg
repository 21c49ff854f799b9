SPECIFICATION ReguaFairSpec
CONSTANTS
  i1 = i1
  cron = cron
  owner = owner
  Invoices = {i1}
  Delinquent = {i1}
  Runs = {cron, owner}
  Limit = 1
  NoList = NoList
  MaxCrashes = 1
  Offsets <- BeforeAndAfter
  FirstDay <- TheDayBefore
INVARIANTS
  RemindersBounded
PROPERTIES
  RecoveryOwnsCommunication
  SettledIsLeftAlone
  EveryStepSent
