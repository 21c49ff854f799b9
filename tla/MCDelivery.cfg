SPECIFICATION DeliveryFairSpec
CONSTANTS
  i1 = i1
  m1 = m1
  m2 = m2
  w1 = w1
  w2 = w2
  Messages = {m1, m2}
  Malformed = {m2}
  Invoices = {i1}
  InvoiceOf <- MCInvoiceOf
  Workers = {w1, w2}
  DeliveryLimit = 1
  WhatsappSettings <- MCWhatsappSettings
  EmailProvider = "smtp"
  MaxFailures = 2
INVARIANTS
  MessagesAccountedFor
  CopiesBounded
PROPERTY
  MessageEnds
CHECK_DEADLOCK FALSE
