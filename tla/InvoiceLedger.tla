--------------------------- MODULE InvoiceLedger ---------------------------
(***************************************************************************)
(* What the billing system promises about an invoice and its money, with   *)
(* no request, transaction or process in sight: an invoice moves only      *)
(* along its state machine, it becomes PAID together with its one receipt, *)
(* and nothing else writes a receipt.                                      *)
(***************************************************************************)
EXTENDS InvoiceStatus

CONSTANTS Invoices, Issued, Receipts

VARIABLES status, receipts

vars == <<status, receipts>>

Init ==
  /\ status = [i \in Invoices |-> IF i \in Issued THEN "PENDING" ELSE "ABSENT"]
  /\ receipts = [i \in Invoices |-> {}]

Issue(i) ==
  /\ status[i] = "ABSENT"
  /\ status' = [status EXCEPT ![i] = "PENDING"]
  /\ UNCHANGED receipts

(* An invoice that no one was charged for is withdrawn.                      *)
Withdraw(i) ==
  /\ status[i] = "PENDING"
  /\ status' = [status EXCEPT ![i] = "ABSENT"]
  /\ UNCHANGED receipts

Settle(i, r) ==
  /\ status[i] \in InvoiceStatuses \ {"PAID"}
  /\ CanTransitionInvoice(status[i], "PAID")
  /\ receipts[i] = {}
  /\ status' = [status EXCEPT ![i] = "PAID"]
  /\ receipts' = [receipts EXCEPT ![i] = {r}]

Move(S, new) ==
  /\ new # "PAID"
  /\ \A i \in S : status[i] \in InvoiceStatuses /\ CanTransitionInvoice(status[i], new)
  /\ status' = [i \in Invoices |-> IF i \in S THEN new ELSE status[i]]
  /\ UNCHANGED receipts

Next ==
  \/ \E i \in Invoices : Issue(i) \/ Withdraw(i)
  \/ \E i \in Invoices, r \in Receipts : Settle(i, r)
  \/ \E S \in SUBSET Invoices, new \in InvoiceStatuses : Move(S, new)

Spec == Init /\ [][Next]_vars

(* An invoice has a receipt exactly when it is PAID, and never two.          *)
PaidOnce ==
  \A i \in Invoices :
    IF status[i] = "PAID" THEN \E r \in Receipts : receipts[i] = {r}
                          ELSE receipts[i] = {}
=============================================================================
