SPECIFICATION PortfolioFairSpec
CONSTANTS
  f1 = f1
  None = None
  Instants <- MCInstants
  MaxInvoices = 3
  Past <- MCPast
  PastPayments <- MCPastPayments
  Typed <- MCTyped
  Plan <- MCPlan
  FirstRules <- Generous
  RuleSets <- MCRules
  Month = 60
  Followers = {f1}
  MaxEvents = 1
  MaxChanges = 1
INVARIANTS
  ViewsAgree
  ForecastCountsOnce
PROPERTIES
  ShownTermsAreHeld
  ScoreCatchesUp
CHECK_DEADLOCK FALSE
