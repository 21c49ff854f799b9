SPECIFICATION Spec
CONSTANTS
  i1 = i1
  n1 = n1
  n2 = n2
  h1 = h1
  h2 = h2
  h3 = h3
  evA = evA
  evB = evB
  evC = evC
  evN = evN
  None = None
  Invoices = {i1, n1}
  Issued = {i1}
  EventIds = {evA, evB, evC, evN}
  Events <- UniqueIdEvents
  Handlers = {h1, h2, h3}
INVARIANTS
  MoneyIsBooked
  DebtNeverVanishes
  AckedPaymentAccounted
PROPERTIES
  LedgerKeptUnlessOutOfDate
CHECK_DEADLOCK FALSE
