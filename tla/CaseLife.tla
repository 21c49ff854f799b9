------------------------------ MODULE CaseLife ------------------------------
(***************************************************************************)
(* What the recovery engine promises to the rest of the system about the   *)
(* case of an invoice, whatever its sweeps, payments and owners do:        *)
(*                                                                         *)
(*   a case is opened, and opened again, only while a sweep is at work;    *)
(*   only an invoice that is past due has one, and it never goes away;     *)
(*   a sweep marks an invoice OVERDUE only when it has a case;             *)
(*   sweeps end, and so does every case, for good.                         *)
(*                                                                         *)
(* Recovery implements it (see RecoveryProperties); Dunning is built on    *)
(* it.                                                                     *)
(***************************************************************************)
EXTENDS InvoiceStatus

CONSTANT Invoices

VARIABLES
  invoice,  \* Invoice.status
  pastDue,  \* invoices with dueDate < now
  case,     \* none; active: open or recovering; over: recovered, lost or cancelled
  busy      \* a sweep is at work

vars == <<invoice, pastDue, case, busy>>

TypeOK ==
  /\ invoice \in [Invoices -> InvoiceStatuses]
  /\ pastDue \subseteq Invoices
  /\ case \in [Invoices -> {"none", "active", "over"}]
  /\ busy \in BOOLEAN

Init ==
  /\ invoice = [i \in Invoices |-> "PENDING"]
  /\ pastDue = {}
  /\ case = [i \in Invoices |-> "none"]
  /\ busy = FALSE

BeginSweep ==
  /\ ~busy
  /\ busy' = TRUE
  /\ UNCHANGED <<invoice, pastDue, case>>

EndSweep ==
  /\ busy
  /\ busy' = FALSE
  /\ UNCHANGED <<invoice, pastDue, case>>

OpenCase(i) ==
  /\ busy
  /\ i \in pastDue
  /\ case[i] # "active"
  /\ case' = [case EXCEPT ![i] = "active"]
  /\ UNCHANGED <<invoice, pastDue, busy>>

MarkOverdue(I) ==
  /\ busy
  /\ \A i \in I : invoice[i] = "PENDING" /\ case[i] # "none"
  /\ invoice' = [i \in Invoices |-> IF i \in I THEN "OVERDUE" ELSE invoice[i]]
  /\ UNCHANGED <<pastDue, case, busy>>

EndCase(i) ==
  /\ case[i] = "active"
  /\ case' = [case EXCEPT ![i] = "over"]
  /\ UNCHANGED <<invoice, pastDue, busy>>

(* A payment, an agreement, or another report of a gateway.                  *)
Move(i, new) ==
  /\ CanTransitionInvoice(invoice[i], new)
  /\ invoice' = [invoice EXCEPT ![i] = new]
  /\ UNCHANGED <<pastDue, case, busy>>

NextDay(newlyDue) ==
  /\ ~busy
  /\ pastDue' = pastDue \cup newlyDue
  /\ UNCHANGED <<invoice, case, busy>>

Step ==
  \/ BeginSweep \/ EndSweep
  \/ \E i \in Invoices : OpenCase(i) \/ EndCase(i)
  \/ \E I \in SUBSET Invoices : MarkOverdue(I)
  \/ \E i \in Invoices, new \in InvoiceStatuses : Move(i, new)

Next == Step \/ \E newlyDue \in SUBSET Invoices : NextDay(newlyDue)

Spec == Init /\ [][Next]_vars

(* A case may be opened again by a sweep that is stale, but not for ever.    *)
EndsForGood(i) == <>[](case[i] # "active")

FairSpec ==
  /\ Spec
  /\ WF_vars(EndSweep)
  /\ \A i \in Invoices : EndsForGood(i)

=============================================================================
