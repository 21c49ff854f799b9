------------------------ MODULE SettlementProperties ------------------------
(* What must be true of Settlement, and what the repository's documents say  *)
(* of it.                                                                    *)
EXTENDS Settlement

PaidFor(i) == \E p \in payments : p.invoice = i

Renegotiated(i) == \E n \in Invoices : original[n] = i

-----------------------------------------------------------------------------
(* Properties that hold however requests interleave, fail and are resent.    *)

(* A gateway notification books money at most once, however often and        *)
(* however concurrently it is delivered (RN-P3: the primary key of           *)
(* WebhookEvent is the lock, and it lives and dies with the transaction).    *)
OnePaymentPerEvent ==
  \A p, q \in payments : p.id # None /\ p.id = q.id => p = q

(* A PAID invoice always has a Payment row, whichever path paid it and       *)
(* however stale the status was that the paying transaction had read: the    *)
(* transaction that skips the Payment because it read PAID relies on         *)
(* another one having written it.                                            *)
PaidHasPayment ==
  \A i \in Invoices : status[i] = "PAID" => PaidFor(i)

(* The books are right in both respects.                                      *)
MoneyIsBooked == OnePaymentPerEvent /\ PaidHasPayment

(* An invoice leaves collection as RENEGOTIATED only when a replacement      *)
(* exists that the payer can pay: it was charged at the gateway, and it is   *)
(* not deleted afterwards (accept charges before it finalizes).              *)
DebtNeverVanishes ==
  \A i \in Invoices : status[i] = "RENEGOTIATED" =>
    \E n \in Invoices : original[n] = i /\ n \in charged /\ status[n] # "ABSENT"

(* An agreement is ACCEPTED only when its new invoice was paid through the   *)
(* gateway (RN-NEG6).                                                        *)
AcceptedAgreementPaid ==
  \A n \in Invoices : agreement[n] = "ACCEPTED" =>
    \E p \in payments : p.invoice = n /\ p.source = "gateway"

(* A confirmation answered with 200 is accounted for: its invoice has a      *)
(* Payment, or was replaced by an agreement.  The gateway will not send it   *)
(* again, so a crash between the event row and the payment must not be       *)
(* possible.  It needs the gateway to use a new id for every notification;   *)
(* Stripe and Pagar.me do.                                                   *)
AckedPaymentAccounted ==
  \A e \in acked : e.status = "PAID" => PaidFor(e.invoice) \/ Renegotiated(e.invoice)

UniqueEventIds ==
  \A e, f \in Events : e.id # None /\ e.id = f.id => e = f

(* h will write i without having seen it PAID: its transaction has read an    *)
(* earlier status, or h is about to undo its own reservation of i.            *)
StaleWriter(h, i) ==
  \/ /\ local[h].target = i
     /\ pc[h] \in {"webhookTx", "finalizeTx"}
     /\ local[h].seen # "PAID"
  \/ local[h].reserved = i /\ pc[h] = "reserved"

(* PAID is never left by a transaction that could see it: the read inside     *)
(* the transaction (the "backstop") leaves only the writers that read before  *)
(* the payment committed.                                                     *)
PaidLeftOnlyByStaleWriter ==
  [][\A i \in Invoices : status[i] = "PAID" /\ status'[i] # "PAID" =>
       \E h \in Handlers : StaleWriter(h, i)]_vars

-----------------------------------------------------------------------------
(* Why they hold: an inductive invariant, part by part.                      *)

Accounted(i) == PaidFor(i) \/ Renegotiated(i)

(* A charged invoice is never deleted.                                       *)
ChargedExists == \A n \in charged : status[n] # "ABSENT"

Reserving == {"reserved", "charged", "finalizeTx"}

(* Each renegotiation works on a new invoice of its own, which belongs to no  *)
(* agreement yet and can be deleted only until it is charged.                 *)
Reservations ==
  \A h \in Handlers : pc[h] \in Reserving =>
    /\ local[h].reserved \in Invoices
    /\ status[local[h].reserved] # "ABSENT"
    /\ original[local[h].reserved] = None
    /\ local[h].reserved \in charged <=> pc[h] # "reserved"
    /\ \A g \in Handlers : g # h /\ pc[g] \in Reserving =>
         local[g].reserved # local[h].reserved

(* Agreements join charged invoices, and only they have a status.             *)
Agreements ==
  \A n \in Invoices :
    /\ original[n] # None => n \in charged
    /\ agreement[n] # "NONE" => original[n] # None

(* What a suspended request works on.                                         *)
Targets ==
  \A h \in Handlers :
    /\ pc[h] \in {"checked", "webhookTx"} =>
         /\ local[h].event \in Events
         /\ local[h].target = local[h].event.invoice
         /\ local[h].target \in charged
    /\ pc[h] \in {"manual", "accepting"} \cup Reserving =>
         /\ local[h].event = None
         /\ local[h].target \in Invoices

(* An open webhook transaction: what it read has its evidence in the tables,  *)
(* and nobody else has recorded or holds its event id.                        *)
OpenTransactions ==
  \A h \in Handlers : pc[h] = "webhookTx" =>
    /\ local[h].seen \in InvoiceStatuses
    /\ local[h].seen = "PAID" => PaidFor(local[h].target)
    /\ local[h].seen = "RENEGOTIATED" => Renegotiated(local[h].target)
    /\ local[h].event.id # None =>
         /\ local[h].event.id \notin webhookEvents
         /\ \A g \in Handlers : g # h => ~HoldsEvent(g, local[h].event.id)

(* A renegotiation that is about to commit has seen an original that may be   *)
(* renegotiated.                                                              *)
FinalizeRead ==
  \A h \in Handlers :
    pc[h] = "finalizeTx" => CanTransitionInvoice(local[h].seen, "RENEGOTIATED")

RecordedEvents ==
  \A p \in payments : p.id # None => p.id \in webhookEvents

(* A confirmation that is recorded, answered or about to be answered is       *)
(* accounted for.                                                             *)
Settled(e) ==
  \/ e.id \in webhookEvents
  \/ e \in acked
  \/ \E h \in Handlers : pc[h] = "followUp" /\ local[h].event = e

Accounting ==
  UniqueEventIds =>
    \A e \in Events : e.status = "PAID" /\ Settled(e) =>
      e.invoice \in charged /\ Accounted(e.invoice)

IInv ==
  /\ TypeOK
  /\ ChargedExists
  /\ Reservations
  /\ Agreements
  /\ Targets
  /\ OpenTransactions
  /\ FinalizeRead
  /\ RecordedEvents
  /\ OnePaymentPerEvent
  /\ PaidHasPayment
  /\ DebtNeverVanishes
  /\ AcceptedAgreementPaid
  /\ Accounting

-----------------------------------------------------------------------------
(* The ledger: an invoice becomes PAID with its one receipt, and stays so.   *)

Ledger == INSTANCE InvoiceLedger WITH
            Receipts <- Payments,
            receipts <- [i \in Invoices |-> {p \in payments : p.invoice = i}]

(* What h has read of the invoice it is about to write no longer holds.       *)
OutOfDate(h) ==
  \/ /\ pc[h] \in {"webhookTx", "finalizeTx"}
     /\ status[local[h].target] # local[h].seen
  \/ /\ pc[h] = "manual"
     /\ \/ status[local[h].target] = "PAID"
        \/ ~CanTransitionInvoice(status[local[h].target], "PAID")
  \/ /\ pc[h] = "reserved"
     /\ status[local[h].reserved] # "PENDING"

(* Settlement implements the ledger but for one kind of step: while the       *)
(* books are right, every change of an invoice or of its payments is a step  *)
(* of the ledger, or is written by a request that had read an earlier status *)
(* (applyWebhookAtomic, settleManually, finalize and deleteById, which take  *)
(* no lock between their read and their write).  Repeated and reordered      *)
(* notifications and crashes do no harm by themselves.                       *)
LedgerKeptUnlessOutOfDate ==
  /\ Ledger!Init
  /\ [][Ledger!PaidOnce =>
          \/ Ledger!Next
          \/ \E h \in Handlers : OutOfDate(h) /\ pc'[h] # pc[h]]_<<status, payments>>
=============================================================================
