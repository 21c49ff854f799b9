--------------------------- MODULE InvoiceStatus ---------------------------
(***************************************************************************)
(* The state machine of an invoice: src/src/domain/status.ts.              *)
(* Pure: no variables.  Every module that moves an invoice uses it.        *)
(***************************************************************************)

InvoiceStatuses == {"PENDING", "PAID", "OVERDUE", "FAILED", "RENEGOTIATED"}

(* The table INVOICE_TRANSITIONS as a relation.  PAID and RENEGOTIATED have  *)
(* no successor.                                                             *)
InvoiceTransitions ==
  {<<"PENDING", "PAID">>, <<"PENDING", "OVERDUE">>, <<"PENDING", "FAILED">>,
   <<"PENDING", "RENEGOTIATED">>,
   <<"OVERDUE", "PAID">>, <<"OVERDUE", "FAILED">>, <<"OVERDUE", "RENEGOTIATED">>,
   <<"FAILED", "PENDING">>, <<"FAILED", "PAID">>}

(* Staying in the same status is always allowed: the guard of a repeated     *)
(* webhook, and also of a second renegotiation of a RENEGOTIATED invoice.    *)
CanTransitionInvoice(from, to) ==
  \/ from = to
  \/ <<from, to>> \in InvoiceTransitions

(* Mutants of ShouldRecordGatewayPayment: reconfirmations are booked too;     *)
(* the payment of an overdue invoice is forgotten.                            *)
RecordEveryConfirmation(previous, new) == new = "PAID"

RecordWhenPendingOnly(previous, new) == new = "PAID" /\ previous = "PENDING"

(* A gateway Payment row is written only on an effective move to PAID, as    *)
(* judged from the status the transaction has read.                          *)
ShouldRecordGatewayPayment(previous, new) ==
  /\ new = "PAID"
  /\ previous # "PAID"

(* domain/negotiation.ts: an open invoice may be offered relief.             *)
IsReliefEligibleStatus(s) == s \in {"PENDING", "OVERDUE"}
=============================================================================
