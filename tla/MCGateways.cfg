SPECIFICATION FairSpec
CONSTANTS
  t1 = t1
  t2 = t2
  h1 = h1
  h2 = h2
  None = None
  Offered = {"mercadopago", "infinitepay", "mock", "asaas", "pagbank", "efi", "stripe", "pagarme"}
  Others = {"mercadopago", "stripe"}
  Tries = {t1, t2}
  Handlers = {h1, h2}
  Words <- MCWords
INVARIANTS
  PaidWasApproved
  ConfirmationIsKept
PROPERTY
  ConfirmationArrives
CHECK_DEADLOCK FALSE
