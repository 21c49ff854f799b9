----------------------------- MODULE Settlement -----------------------------
(***************************************************************************)
(* How an invoice is settled: gateway webhooks, manual payments,           *)
(* renegotiation by the payer and the sweep that marks invoices overdue,   *)
(* all running concurrently over the same PostgreSQL tables.               *)
(*                                                                         *)
(* Requests run in Node processes; every `await` lets another request in.  *)
(* The database runs at READ COMMITTED (no isolation level and no row lock *)
(* is asked for anywhere), so an interactive transaction is modelled as    *)
(* the step of its last read, which fills local[h].seen, followed by one   *)
(* step that makes all its writes visible.  What it read may be stale by   *)
(* the time it writes: that is the point of this module.                   *)
(***************************************************************************)
EXTENDS InvoiceStatus, Naturals, FiniteSets

CONSTANTS
  Invoices,   \* every invoice id that may exist
  Issued,     \* the invoices charged before the model starts
  EventIds,   \* the ids a gateway puts on its notifications (eventId)
  Events,     \* the notifications a gateway may deliver
  Handlers,   \* the HTTP requests; each one runs at most once
  None        \* "no value": an absent eventId, an empty local

GatewayStatuses == {"PENDING", "PAID", "OVERDUE", "FAILED"}

ASSUME SettlementAssumption ==
  /\ Issued \subseteq Invoices
  /\ Events \subseteq [id : EventIds \cup {None}, invoice : Invoices,
                       status : GatewayStatuses]
  /\ None \notin EventIds
  /\ None \notin Events
  /\ None \notin Invoices
  /\ None \notin InvoiceStatuses

VARIABLES
  status,        \* Invoice.status; "ABSENT" while the row does not exist
  charged,       \* invoices whose gatewayId is attached: a webhook finds them
  payments,      \* Payment rows
  webhookEvents, \* WebhookEvent primary keys: ids already processed
  original,      \* Agreement.originalInvoiceId, keyed by its newInvoiceId
  agreement,     \* Agreement.status, keyed by its newInvoiceId (@unique)
  pc,            \* where each request is suspended
  local,         \* what each request holds in memory
  acked          \* events answered with 200: the gateway stops resending them

vars == <<status, charged, payments, webhookEvents, original, agreement,
          pc, local, acked>>

tables == <<status, charged, payments, webhookEvents, original, agreement>>

Locals == [event : Events \cup {None}, target : Invoices \cup {None},
           reserved : Invoices \cup {None},
           seen : InvoiceStatuses \cup {None}]

NoLocal == [event |-> None, target |-> None, reserved |-> None, seen |-> None]

Labels == {"idle", "checked", "webhookTx", "manual", "accepting", "reserved",
           "charged", "finalizeTx", "followUp", "done"}

Payments == [invoice : Invoices, source : {"gateway", "manual"},
             id : EventIds \cup {None}, by : Handlers]

TypeOK ==
  /\ status \in [Invoices -> InvoiceStatuses \cup {"ABSENT"}]
  /\ charged \subseteq Invoices
  /\ payments \subseteq Payments
  /\ webhookEvents \subseteq EventIds
  /\ original \in [Invoices -> Invoices \cup {None}]
  /\ agreement \in [Invoices -> {"NONE", "PENDING", "ACCEPTED"}]
  /\ pc \in [Handlers -> Labels]
  /\ local \in [Handlers -> Locals]
  /\ acked \subseteq Events

Init ==
  /\ status = [i \in Invoices |-> IF i \in Issued THEN "PENDING" ELSE "ABSENT"]
  /\ charged = Issued
  /\ payments = {}
  /\ webhookEvents = {}
  /\ original = [n \in Invoices |-> None]
  /\ agreement = [n \in Invoices |-> "NONE"]
  /\ pc = [h \in Handlers |-> "idle"]
  /\ local = [h \in Handlers |-> NoLocal]
  /\ acked = {}

InFlight(h) == pc[h] \notin {"idle", "done"}

Suspend(h, label, l) ==
  /\ pc' = [pc EXCEPT ![h] = label]
  /\ local' = [local EXCEPT ![h] = l]

Finish(h) == Suspend(h, "done", NoLocal)

Payment(h, source, id) ==
  [invoice |-> local[h].target, source |-> source, id |-> id, by |-> h]

-----------------------------------------------------------------------------
(***************************************************************************)
(* Gateway webhooks: invoice.service.ts applyWebhook and                   *)
(* invoice.repository.ts applyWebhookAtomic.                               *)
(***************************************************************************)

(* The service finds the invoice by gatewayId and checks the transition     *)
(* before it opens the transaction.                                         *)
ReceiveWebhook(h, e) ==
  /\ pc[h] = "idle"
  /\ e.invoice \in charged
  /\ CanTransitionInvoice(status[e.invoice], e.status)
  /\ Suspend(h, "checked", [NoLocal EXCEPT !.event = e, !.target = e.invoice])
  /\ UNCHANGED <<tables, acked>>

(* The transition is not allowed: 200 without recording the event.          *)
IgnoreWebhook(h, e) ==
  /\ pc[h] = "idle"
  /\ e.invoice \in charged
  /\ ~CanTransitionInvoice(status[e.invoice], e.status)
  /\ Finish(h)
  /\ acked' = acked \cup {e}
  /\ UNCHANGED tables

(* The event id is already committed, seen by the fast path or by the       *)
(* unique violation (P2002) of the insert: 200, and nothing else is done.   *)
DuplicateWebhook(h) ==
  /\ pc[h] = "checked"
  /\ local[h].event.id \in webhookEvents
  /\ Finish(h)
  /\ acked' = acked \cup {local[h].event}
  /\ UNCHANGED tables

(* g has inserted event id in a transaction that is still open.             *)
HoldsEvent(g, id) ==
  /\ pc[g] = "webhookTx"
  /\ local[g].event.id = id

(* Mutant of OpenWebhookTx: the event id is committed before the payment.     *)
OpenTxAfterRecording(h) ==
  /\ pc[h] = "checked"
  /\ local[h].event.id \notin webhookEvents
  /\ webhookEvents' = webhookEvents \cup ({local[h].event.id} \ {None})
  /\ Suspend(h, "webhookTx", [local[h] EXCEPT !.seen = status[local[h].target]])
  /\ UNCHANGED <<status, charged, payments, original, agreement, acked>>

(* The insert of the event id waits for a transaction that holds the same   *)
(* key; then the transaction reads the current status of the invoice.       *)
OpenWebhookTx(h) ==
  LET id == local[h].event.id IN
  /\ pc[h] = "checked"
  /\ id \notin webhookEvents
  /\ id # None => \A g \in Handlers : ~HoldsEvent(g, id)
  /\ Suspend(h, "webhookTx", [local[h] EXCEPT !.seen = status[local[h].target]])
  /\ UNCHANGED <<tables, acked>>

(* After the commit: a PAID event runs the follow-ups, the others answer.   *)
AfterWebhook(h) ==
  IF local[h].event.status = "PAID"
  THEN /\ Suspend(h, "followUp", local[h])
       /\ UNCHANGED acked
  ELSE /\ Finish(h)
       /\ acked' = acked \cup {local[h].event}

RecordEvent(h) ==
  webhookEvents' = webhookEvents \cup ({local[h].event.id} \ {None})

(* The commit of a transaction whose read allowed the transition.           *)
CommitWebhook(h) ==
  LET e == local[h].event
      i == local[h].target IN
  /\ pc[h] = "webhookTx"
  /\ CanTransitionInvoice(local[h].seen, e.status)
  /\ RecordEvent(h)
  /\ status' = [status EXCEPT ![i] = e.status]
  /\ IF ShouldRecordGatewayPayment(local[h].seen, e.status)
     THEN /\ payments' = payments \cup {Payment(h, "gateway", e.id)}
          /\ agreement' = [agreement EXCEPT
                             ![i] = IF @ = "PENDING" THEN "ACCEPTED" ELSE @]
     ELSE UNCHANGED <<payments, agreement>>
  /\ AfterWebhook(h)
  /\ UNCHANGED <<charged, original>>

(* The commit of a transaction whose read forbade it: only the event row.   *)
CommitRefusedWebhook(h) ==
  /\ pc[h] = "webhookTx"
  /\ ~CanTransitionInvoice(local[h].seen, local[h].event.status)
  /\ RecordEvent(h)
  /\ AfterWebhook(h)
  /\ UNCHANGED <<status, charged, payments, original, agreement>>

-----------------------------------------------------------------------------
(***************************************************************************)
(* Manual payment by the owner: payment.service.ts registerManual and      *)
(* invoice.repository.ts settleManually.  A refused request changes        *)
(* nothing and is left out.                                                *)
(***************************************************************************)
RequestManual(h, i) ==
  /\ pc[h] = "idle"
  /\ status[i] \in InvoiceStatuses \ {"PAID"}
  /\ CanTransitionInvoice(status[i], "PAID")
  /\ Suspend(h, "manual", [NoLocal EXCEPT !.target = i])
  /\ UNCHANGED <<tables, acked>>

(* The transaction does not look at the status again.                       *)
SettleManually(h) ==
  /\ pc[h] = "manual"
  /\ status[local[h].target] # "ABSENT"
  /\ status' = [status EXCEPT ![local[h].target] = "PAID"]
  /\ payments' = payments \cup {Payment(h, "manual", None)}
  /\ Suspend(h, "followUp", local[h])
  /\ UNCHANGED <<charged, webhookEvents, original, agreement, acked>>

-----------------------------------------------------------------------------
(***************************************************************************)
(* Renegotiation by the payer: negotiation.service.ts accept and           *)
(* agreement.repository.ts finalize.                                       *)
(***************************************************************************)
RequestAgreement(h, i) ==
  /\ pc[h] = "idle"
  /\ status[i] \in InvoiceStatuses
  /\ IsReliefEligibleStatus(status[i])
  /\ Suspend(h, "accepting", [NoLocal EXCEPT !.target = i, !.seen = status[i]])
  /\ UNCHANGED <<tables, acked>>

ActiveAgreement(i) ==
  \E n \in Invoices : original[n] = i /\ agreement[n] = "PENDING"

(* findActiveByOriginal finds an agreement: it is returned as it is.         *)
ReturnActiveAgreement(h) ==
  /\ pc[h] = "accepting"
  /\ ActiveAgreement(local[h].target)
  /\ Finish(h)
  /\ UNCHANGED <<tables, acked>>

(* No active agreement: the new invoice is created before it is charged.    *)
ReserveNewInvoice(h, n) ==
  /\ pc[h] = "accepting"
  /\ ~ActiveAgreement(local[h].target)
  /\ status[n] = "ABSENT"
  /\ status' = [status EXCEPT ![n] = "PENDING"]
  /\ Suspend(h, "reserved", [local[h] EXCEPT !.reserved = n])
  /\ UNCHANGED <<charged, payments, webhookEvents, original, agreement, acked>>

(* Mutant of ChargeNewInvoice: the agreement is closed without a charge.      *)
SkipCharge(h) ==
  /\ pc[h] = "reserved"
  /\ Suspend(h, "charged", local[h])
  /\ UNCHANGED <<tables, acked>>

(* createCharge and attachCharge succeed.                                   *)
ChargeNewInvoice(h) ==
  /\ pc[h] = "reserved"
  /\ charged' = charged \cup {local[h].reserved}
  /\ Suspend(h, "charged", local[h])
  /\ UNCHANGED <<status, payments, webhookEvents, original, agreement, acked>>

(* deleteById: the rows that refer to the invoice are deleted in cascade.    *)
DeleteInvoice(n) ==
  LET Superseded(m) == original[m] = n IN
  /\ status' = [status EXCEPT ![n] = "ABSENT"]
  /\ payments' = {p \in payments : p.invoice # n}
  /\ original' = [m \in Invoices |-> IF Superseded(m) THEN None ELSE original[m]]
  /\ agreement' = [m \in Invoices |-> IF Superseded(m) THEN "NONE" ELSE agreement[m]]

(* createCharge fails: the reservation is deleted, whatever happened to it   *)
(* meanwhile (the delete may fail too, which Fail covers).                   *)
ChargeFails(h) ==
  /\ pc[h] = "reserved"
  /\ DeleteInvoice(local[h].reserved)
  /\ Finish(h)
  /\ UNCHANGED <<charged, webhookEvents, acked>>

(* finalize reads the original.  An original that is RENEGOTIATED already    *)
(* passes this guard, because a move to the same status is allowed.          *)
OpenFinalizeTx(h) ==
  /\ pc[h] = "charged"
  /\ CanTransitionInvoice(status[local[h].target], "RENEGOTIATED")
  /\ Suspend(h, "finalizeTx", [local[h] EXCEPT !.seen = status[local[h].target]])
  /\ UNCHANGED <<tables, acked>>

(* The original is PAID or FAILED by now: the new invoice stays as it is.    *)
FinalizeConflict(h) ==
  /\ pc[h] = "charged"
  /\ ~CanTransitionInvoice(status[local[h].target], "RENEGOTIATED")
  /\ Finish(h)
  /\ UNCHANGED <<tables, acked>>

CommitFinalize(h) ==
  LET n == local[h].reserved IN
  /\ pc[h] = "finalizeTx"
  /\ status[local[h].target] # "ABSENT"
  /\ status' = [status EXCEPT ![local[h].target] = "RENEGOTIATED"]
  /\ original' = [original EXCEPT ![n] = local[h].target]
  /\ agreement' = [agreement EXCEPT ![n] = "PENDING"]
  /\ Suspend(h, "followUp", local[h])
  /\ UNCHANGED <<charged, payments, webhookEvents, acked>>

-----------------------------------------------------------------------------
(* The follow-ups of a settled request (closing the recovery case, health,  *)
(* referral, fiscal document) touch other tables, which other modules       *)
(* model; here they only delay the answer.  Each is best effort.            *)
FollowUp(h) ==
  /\ pc[h] = "followUp"
  /\ Finish(h)
  /\ acked' = acked \cup ({local[h].event} \ {None})
  /\ UNCHANGED tables

(* The invoice to write was deleted meanwhile: the update throws (P2025).    *)
TargetGone(h) ==
  /\ pc[h] \in {"manual", "finalizeTx"}
  /\ status[local[h].target] = "ABSENT"
  /\ Finish(h)
  /\ UNCHANGED <<tables, acked>>

(* The process dies, or an awaited database or gateway call throws: an open *)
(* transaction is rolled back and the caller gets no 200.                   *)
Fail(h) ==
  /\ InFlight(h)
  /\ Finish(h)
  /\ UNCHANGED <<tables, acked>>

(* invoice.repository.ts markOverdueByIds, called by the recovery sweep for *)
(* past-due invoices: one UPDATE that tests the status in its WHERE.         *)
MarkOverdue(S) ==
  /\ S # {}
  /\ \A i \in S : status[i] = "PENDING"
  /\ status' = [i \in Invoices |-> IF i \in S THEN "OVERDUE" ELSE status[i]]
  /\ UNCHANGED <<charged, payments, webhookEvents, original, agreement,
                 pc, local, acked>>

-----------------------------------------------------------------------------
Start(h) ==
  \/ \E e \in Events : ReceiveWebhook(h, e) \/ IgnoreWebhook(h, e)
  \/ \E i \in Invoices : RequestManual(h, i) \/ RequestAgreement(h, i)

Continue(h) ==
  \/ DuplicateWebhook(h)
  \/ OpenWebhookTx(h)
  \/ CommitWebhook(h)
  \/ CommitRefusedWebhook(h)
  \/ SettleManually(h)
  \/ ReturnActiveAgreement(h)
  \/ \E n \in Invoices : ReserveNewInvoice(h, n)
  \/ ChargeNewInvoice(h)
  \/ ChargeFails(h)
  \/ OpenFinalizeTx(h)
  \/ FinalizeConflict(h)
  \/ CommitFinalize(h)
  \/ FollowUp(h)
  \/ TargetGone(h)

Next ==
  \/ \E h \in Handlers : Start(h) \/ Continue(h) \/ Fail(h)
  \/ \E S \in SUBSET Invoices : MarkOverdue(S)

Spec == Init /\ [][Next]_vars

=============================================================================
