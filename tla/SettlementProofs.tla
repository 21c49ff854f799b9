-------------------------- MODULE SettlementProofs --------------------------
(* Proofs of the safety properties of SettlementProperties for every set of   *)
(* invoices, events and requests.  The inductive invariant IInv is proved     *)
(* part by part; a part that speaks only of tables looks only at the steps    *)
(* that write one (TableSteps).                                               *)
EXTENDS SettlementProperties, TLAPS

(* The empty system, with its issued invoices PENDING, satisfies the invariant. *)
LEMMA InitIInv == Init => IInv
  <1> SUFFICES ASSUME Init PROVE IInv
    OBVIOUS
  <1> USE SettlementAssumption DEF Init
  <1>1. TypeOK
    BY DEF TypeOK, Labels, Locals, NoLocal, InvoiceStatuses
  <1>2. ChargedExists
    BY DEF ChargedExists
  <1>3. Reservations /\ Agreements /\ Targets /\ OpenTransactions /\ FinalizeRead /\ RecordedEvents
    BY DEF Reservations, Reserving, Agreements, Targets, OpenTransactions, FinalizeRead, RecordedEvents
  <1>4. OnePaymentPerEvent /\ PaidHasPayment /\ DebtNeverVanishes /\ AcceptedAgreementPaid
    BY DEF OnePaymentPerEvent, PaidHasPayment, DebtNeverVanishes, AcceptedAgreementPaid
  <1>5. Accounting
    BY DEF Accounting, Settled
  <1> QED
    BY <1>1, <1>2, <1>3, <1>4, <1>5 DEF IInv

(* Every step keeps the types: what a transaction writes is a status, a       *)
(* Payment or an event id.                                                    *)
LEMMA TypeStep == IInv /\ [Next]_vars => TypeOK'
  <1> SUFFICES ASSUME IInv, [Next]_vars PROVE TypeOK'
    OBVIOUS
  <1> USE SettlementAssumption DEF IInv, TypeOK, Locals, NoLocal, Labels, Suspend, Finish, tables
  <1>1. ASSUME NEW h \in Handlers, Start(h) PROVE TypeOK'
    <2>1. ASSUME NEW e \in Events, ReceiveWebhook(h, e) PROVE TypeOK'
      <3>1. e.invoice \in Invoices
        OBVIOUS
      <3> QED
        BY <2>1, <3>1 DEF ReceiveWebhook
    <2>2. ASSUME NEW e \in Events, IgnoreWebhook(h, e) PROVE TypeOK'
      BY <2>2 DEF IgnoreWebhook
    <2>3. ASSUME NEW i \in Invoices, RequestManual(h, i) PROVE TypeOK'
      BY <2>3 DEF RequestManual
    <2>4. ASSUME NEW i \in Invoices, RequestAgreement(h, i) PROVE TypeOK'
      BY <2>4 DEF RequestAgreement
    <2> QED
      BY <1>1, <2>1, <2>2, <2>3, <2>4 DEF Start
  <1>2. ASSUME NEW h \in Handlers, DuplicateWebhook(h) \/ OpenWebhookTx(h) PROVE TypeOK'
    <2>1. CASE DuplicateWebhook(h)
      <3>1. local[h].event \in Events
        BY <2>1 DEF DuplicateWebhook, Targets
      <3> QED
        BY <2>1, <3>1 DEF DuplicateWebhook
    <2>2. CASE OpenWebhookTx(h)
      <3>1. local[h].target \in Invoices /\ status[local[h].target] \in InvoiceStatuses
        BY <2>2 DEF OpenWebhookTx, Targets, ChargedExists
      <3> QED
        BY <2>2, <3>1 DEF OpenWebhookTx
    <2> QED
      BY <1>2, <2>1, <2>2
  <1>3. ASSUME NEW h \in Handlers, CommitWebhook(h) PROVE TypeOK'
    <2> DEFINE e == local[h].event
    <2>1. e \in Events /\ local[h].target \in Invoices
      BY <1>3 DEF CommitWebhook, Targets
    <2>2. e.id \in EventIds \cup {None} /\ e.status \in InvoiceStatuses
      BY <2>1 DEF GatewayStatuses, InvoiceStatuses
    <2>3. webhookEvents' \subseteq EventIds
      BY <1>3, <2>2 DEF CommitWebhook, RecordEvent
    <2>4. Payment(h, "gateway", e.id) \in Payments
      BY <2>1, <2>2 DEF Payment, Payments
    <2>5. status' \in [Invoices -> InvoiceStatuses \cup {"ABSENT"}]
      BY <1>3, <2>1, <2>2 DEF CommitWebhook
    <2>6. payments' \subseteq Payments /\ agreement' \in [Invoices -> {"NONE", "PENDING", "ACCEPTED"}]
      BY <1>3, <2>4 DEF CommitWebhook
    <2>7. pc' \in [Handlers -> Labels] /\ local' \in [Handlers -> Locals] /\ acked' \subseteq Events
      BY <1>3, <2>1 DEF CommitWebhook, AfterWebhook
    <2> QED
      BY <1>3, <2>3, <2>5, <2>6, <2>7 DEF CommitWebhook
  <1>4. ASSUME NEW h \in Handlers, CommitRefusedWebhook(h) PROVE TypeOK'
    BY <1>4 DEF CommitRefusedWebhook, Targets, RecordEvent, AfterWebhook
  <1>5. ASSUME NEW h \in Handlers, SettleManually(h) PROVE TypeOK'
    BY <1>5 DEF SettleManually, Targets, Payment, Payments, InvoiceStatuses
  <1>6. ASSUME NEW h \in Handlers, ReturnActiveAgreement(h) \/ FollowUp(h) \/ TargetGone(h) \/ Fail(h) PROVE TypeOK'
    BY <1>6 DEF ReturnActiveAgreement, FollowUp, TargetGone, Fail
  <1>7. ASSUME NEW h \in Handlers, NEW n \in Invoices, ReserveNewInvoice(h, n) PROVE TypeOK'
    BY <1>7 DEF ReserveNewInvoice, InvoiceStatuses
  <1>8. ASSUME NEW h \in Handlers, ChargeNewInvoice(h) PROVE TypeOK'
    BY <1>8 DEF ChargeNewInvoice, Reservations, Reserving
  <1>9. ASSUME NEW h \in Handlers, ChargeFails(h) PROVE TypeOK'
    BY <1>9 DEF ChargeFails, DeleteInvoice
  <1>10. ASSUME NEW h \in Handlers, OpenFinalizeTx(h) \/ FinalizeConflict(h) PROVE TypeOK'
    <2>1. CASE OpenFinalizeTx(h)
      <3>1. status[local[h].target] \in InvoiceStatuses
        BY <2>1 DEF OpenFinalizeTx, CanTransitionInvoice, InvoiceTransitions, InvoiceStatuses
      <3> QED
        BY <2>1, <3>1 DEF OpenFinalizeTx
    <2>2. CASE FinalizeConflict(h)
      BY <2>2 DEF FinalizeConflict
    <2> QED
      BY <1>10, <2>1, <2>2
  <1>11. ASSUME NEW h \in Handlers, CommitFinalize(h) PROVE TypeOK'
    BY <1>11 DEF CommitFinalize, Targets, Reserving, InvoiceStatuses
  <1>12. ASSUME NEW S \in SUBSET Invoices, MarkOverdue(S) PROVE TypeOK'
    BY <1>12 DEF MarkOverdue, InvoiceStatuses
  <1>13. CASE UNCHANGED vars
    BY <1>13 DEF vars
  <1> QED
    BY <1>1, <1>2, <1>3, <1>4, <1>5, <1>6, <1>7, <1>8, <1>9, <1>10, <1>11, <1>12, <1>13 DEF Next, Continue

(* The steps that change a table.                                            *)
TableWriter(h) ==
  \/ CommitWebhook(h)
  \/ CommitRefusedWebhook(h)
  \/ SettleManually(h)
  \/ \E n \in Invoices : ReserveNewInvoice(h, n)
  \/ ChargeNewInvoice(h)
  \/ ChargeFails(h)
  \/ CommitFinalize(h)

(* Every other step only moves a request along.                               *)
LEMMA TableSteps ==
  ASSUME [Next]_vars
  PROVE  \/ UNCHANGED tables
         \/ \E h \in Handlers : TableWriter(h)
         \/ \E S \in SUBSET Invoices : MarkOverdue(S)
  <1>1. ASSUME NEW h \in Handlers, Start(h) PROVE UNCHANGED tables
    BY <1>1 DEF Start, ReceiveWebhook, IgnoreWebhook, RequestManual, RequestAgreement
  <1>2. ASSUME NEW h \in Handlers, Continue(h) PROVE UNCHANGED tables \/ TableWriter(h)
    BY <1>2 DEF Continue, TableWriter, DuplicateWebhook, OpenWebhookTx, ReturnActiveAgreement,
                OpenFinalizeTx, FinalizeConflict, FollowUp, TargetGone
  <1>3. ASSUME NEW h \in Handlers, Fail(h) PROVE UNCHANGED tables
    BY <1>3 DEF Fail
  <1>4. CASE UNCHANGED vars
    BY <1>4 DEF vars, tables
  <1> QED
    BY <1>1, <1>2, <1>3, <1>4 DEF Next

(* Only uncharged reservations are deleted.                                   *)
LEMMA ChargedExistsStep == IInv /\ [Next]_vars => ChargedExists'
  <1> SUFFICES ASSUME IInv, [Next]_vars PROVE ChargedExists'
    OBVIOUS
  <1> USE SettlementAssumption DEF IInv, TypeOK, ChargedExists
  <1>1. CASE UNCHANGED tables
    BY <1>1 DEF tables
  <1>2. ASSUME NEW h \in Handlers, TableWriter(h) PROVE ChargedExists'
    <2>1. CASE CommitWebhook(h)
      <3>1. local[h].target \in Invoices /\ local[h].event.status # "ABSENT"
        BY <2>1 DEF CommitWebhook, Targets, GatewayStatuses
      <3> QED
        BY <2>1, <3>1 DEF CommitWebhook
    <2>2. CASE CommitRefusedWebhook(h)
      BY <2>2 DEF CommitRefusedWebhook
    <2>3. CASE SettleManually(h)
      BY <2>3 DEF SettleManually, Targets
    <2>4. ASSUME NEW n \in Invoices, ReserveNewInvoice(h, n) PROVE ChargedExists'
      BY <2>4 DEF ReserveNewInvoice
    <2>5. CASE ChargeNewInvoice(h)
      BY <2>5 DEF ChargeNewInvoice, Reservations, Reserving
    <2>6. CASE ChargeFails(h)
      <3>1. local[h].reserved \in Invoices \ charged
        BY <2>6 DEF ChargeFails, Reservations, Reserving
      <3> QED
        BY <2>6, <3>1 DEF ChargeFails, DeleteInvoice
    <2>7. CASE CommitFinalize(h)
      BY <2>7 DEF CommitFinalize, Targets, Reserving
    <2> QED
      BY <1>2, <2>1, <2>2, <2>3, <2>4, <2>5, <2>6, <2>7 DEF TableWriter
  <1>3. ASSUME NEW S \in SUBSET Invoices, MarkOverdue(S) PROVE ChargedExists'
    BY <1>3 DEF MarkOverdue
  <1> QED
    BY <1>1, <1>2, <1>3, TableSteps

(* An agreement is born with a charged invoice and dies with its original.    *)
LEMMA AgreementsStep == IInv /\ [Next]_vars => Agreements'
  <1> SUFFICES ASSUME IInv, [Next]_vars PROVE Agreements'
    OBVIOUS
  <1> USE SettlementAssumption DEF IInv, TypeOK, Agreements
  <1>1. CASE UNCHANGED tables
    BY <1>1 DEF tables
  <1>2. ASSUME NEW h \in Handlers, TableWriter(h) PROVE Agreements'
    <2>1. CASE CommitWebhook(h)
      <3>1. local[h].target \in Invoices
        BY <2>1 DEF CommitWebhook, Targets
      <3> QED
        BY <2>1, <3>1 DEF CommitWebhook
    <2>2. CASE CommitRefusedWebhook(h)
      BY <2>2 DEF CommitRefusedWebhook
    <2>3. CASE SettleManually(h)
      BY <2>3 DEF SettleManually
    <2>4. ASSUME NEW n \in Invoices, ReserveNewInvoice(h, n) PROVE Agreements'
      BY <2>4 DEF ReserveNewInvoice
    <2>5. CASE ChargeNewInvoice(h)
      BY <2>5 DEF ChargeNewInvoice
    <2>6. CASE ChargeFails(h)
      BY <2>6 DEF ChargeFails, DeleteInvoice
    <2>7. CASE CommitFinalize(h)
      <3>1. local[h].reserved \in charged /\ local[h].target \in Invoices
        BY <2>7 DEF CommitFinalize, Targets, Reservations, Reserving
      <3> QED
        BY <2>7, <3>1 DEF CommitFinalize
    <2> QED
      BY <1>2, <2>1, <2>2, <2>3, <2>4, <2>5, <2>6, <2>7 DEF TableWriter
  <1>3. ASSUME NEW S \in SUBSET Invoices, MarkOverdue(S) PROVE Agreements'
    BY <1>3 DEF MarkOverdue
  <1> QED
    BY <1>1, <1>2, <1>3, TableSteps

(* A suspended request keeps the invoice it was started for.                  *)
LEMMA TargetsStep == IInv /\ [Next]_vars => Targets'
  <1> SUFFICES ASSUME IInv, [Next]_vars PROVE Targets'
    OBVIOUS
  <1> USE SettlementAssumption DEF IInv, TypeOK, Targets, Locals, Suspend, Finish, Reserving
  <1>1. ASSUME NEW h \in Handlers, NEW e \in Events, ReceiveWebhook(h, e) PROVE Targets'
    BY <1>1 DEF ReceiveWebhook, NoLocal, tables
  <1>2. ASSUME NEW h \in Handlers, NEW e \in Events, IgnoreWebhook(h, e) PROVE Targets'
    BY <1>2 DEF IgnoreWebhook, tables
  <1>3. ASSUME NEW h \in Handlers, NEW i \in Invoices, RequestManual(h, i) PROVE Targets'
    BY <1>3 DEF RequestManual, NoLocal, tables
  <1>4. ASSUME NEW h \in Handlers, NEW i \in Invoices, RequestAgreement(h, i) PROVE Targets'
    BY <1>4 DEF RequestAgreement, NoLocal, tables
  <1>5. ASSUME NEW h \in Handlers, DuplicateWebhook(h) \/ ReturnActiveAgreement(h) \/ FinalizeConflict(h)
                 \/ FollowUp(h) \/ TargetGone(h) \/ Fail(h) PROVE Targets'
    BY <1>5 DEF DuplicateWebhook, ReturnActiveAgreement, FinalizeConflict, FollowUp,
                TargetGone, Fail, tables
  <1>6. ASSUME NEW h \in Handlers, OpenWebhookTx(h) PROVE Targets'
    BY <1>6 DEF OpenWebhookTx, tables
  <1>7. ASSUME NEW h \in Handlers, CommitWebhook(h) PROVE Targets'
    BY <1>7 DEF CommitWebhook, AfterWebhook
  <1>8. ASSUME NEW h \in Handlers, CommitRefusedWebhook(h) PROVE Targets'
    BY <1>8 DEF CommitRefusedWebhook, AfterWebhook
  <1>9. ASSUME NEW h \in Handlers, SettleManually(h) PROVE Targets'
    BY <1>9 DEF SettleManually
  <1>10. ASSUME NEW h \in Handlers, NEW n \in Invoices, ReserveNewInvoice(h, n) PROVE Targets'
    BY <1>10 DEF ReserveNewInvoice
  <1>11. ASSUME NEW h \in Handlers, ChargeNewInvoice(h) PROVE Targets'
    BY <1>11 DEF ChargeNewInvoice
  <1>12. ASSUME NEW h \in Handlers, ChargeFails(h) PROVE Targets'
    BY <1>12 DEF ChargeFails
  <1>13. ASSUME NEW h \in Handlers, OpenFinalizeTx(h) PROVE Targets'
    BY <1>13 DEF OpenFinalizeTx, tables
  <1>14. ASSUME NEW h \in Handlers, CommitFinalize(h) PROVE Targets'
    BY <1>14 DEF CommitFinalize
  <1>15. ASSUME NEW S \in SUBSET Invoices, MarkOverdue(S) PROVE Targets'
    BY <1>15 DEF MarkOverdue
  <1>16. CASE UNCHANGED vars
    BY <1>16 DEF vars
  <1> QED
    BY <1>1, <1>2, <1>3, <1>4, <1>5, <1>6, <1>7, <1>8, <1>9, <1>10, <1>11, <1>12, <1>13, <1>14,
       <1>15, <1>16 DEF Next, Start, Continue

(* No two renegotiations share a reservation, and nobody else disturbs one.    *)
LEMMA ReservationsStep == IInv /\ [Next]_vars => Reservations'
  <1> SUFFICES ASSUME IInv, [Next]_vars PROVE Reservations'
    OBVIOUS
  <1> USE SettlementAssumption DEF IInv, TypeOK, Reservations, Locals, Suspend, Finish, Reserving
  <1>1. ASSUME NEW h \in Handlers, Start(h) PROVE Reservations'
    <2>1. UNCHANGED tables /\ \A g \in Handlers \ {h} : pc'[g] = pc[g] /\ local'[g] = local[g]
      BY <1>1 DEF Start, ReceiveWebhook, IgnoreWebhook, RequestManual, RequestAgreement
    <2>2. pc'[h] \notin Reserving
      BY <1>1 DEF Start, ReceiveWebhook, IgnoreWebhook, RequestManual, RequestAgreement
    <2> QED
      BY <2>1, <2>2 DEF tables
  <1>2. ASSUME NEW h \in Handlers, DuplicateWebhook(h) \/ ReturnActiveAgreement(h) \/ FinalizeConflict(h)
                 \/ FollowUp(h) \/ TargetGone(h) \/ Fail(h) \/ OpenWebhookTx(h) PROVE Reservations'
    BY <1>2 DEF DuplicateWebhook, ReturnActiveAgreement, FinalizeConflict, FollowUp,
                TargetGone, Fail, OpenWebhookTx, tables
  <1>3. ASSUME NEW h \in Handlers, CommitWebhook(h) PROVE Reservations'
    <2>1. local[h].target \in Invoices /\ local[h].event.status # "ABSENT"
      BY <1>3 DEF CommitWebhook, Targets, GatewayStatuses
    <2> QED
      BY <1>3, <2>1 DEF CommitWebhook, AfterWebhook
  <1>4. ASSUME NEW h \in Handlers, CommitRefusedWebhook(h) PROVE Reservations'
    BY <1>4 DEF CommitRefusedWebhook, AfterWebhook
  <1>5. ASSUME NEW h \in Handlers, SettleManually(h) PROVE Reservations'
    BY <1>5 DEF SettleManually
  <1>6. ASSUME NEW h \in Handlers, NEW n \in Invoices, ReserveNewInvoice(h, n) PROVE Reservations'
    <2>1. n \notin charged /\ original[n] = None
      BY <1>6 DEF ReserveNewInvoice, ChargedExists, Agreements
    <2> QED
      BY <1>6, <2>1 DEF ReserveNewInvoice
  <1>7. ASSUME NEW h \in Handlers, ChargeNewInvoice(h) PROVE Reservations'
    BY <1>7 DEF ChargeNewInvoice
  <1>8. ASSUME NEW h \in Handlers, ChargeFails(h) PROVE Reservations'
    BY <1>8 DEF ChargeFails, DeleteInvoice
  <1>9. ASSUME NEW h \in Handlers, OpenFinalizeTx(h) PROVE Reservations'
    BY <1>9 DEF OpenFinalizeTx, tables
  <1>10. ASSUME NEW h \in Handlers, CommitFinalize(h) PROVE Reservations'
    BY <1>10 DEF CommitFinalize, Targets
  <1>11. ASSUME NEW S \in SUBSET Invoices, MarkOverdue(S) PROVE Reservations'
    BY <1>11 DEF MarkOverdue
  <1>12. CASE UNCHANGED vars
    BY <1>12 DEF vars
  <1> QED
    BY <1>1, <1>2, <1>3, <1>4, <1>5, <1>6, <1>7, <1>8, <1>9, <1>10, <1>11, <1>12 DEF Next, Continue

(* Evidence about a charged invoice, once in the tables, stays there.        *)
LEMMA EvidenceKept ==
  ASSUME IInv, [Next]_vars, NEW i \in charged
  PROVE  (PaidFor(i) => PaidFor(i)') /\ (Renegotiated(i) => Renegotiated(i)')
  <1> USE DEF IInv, TypeOK, PaidFor, Renegotiated
  <1>1. CASE UNCHANGED tables
    BY <1>1 DEF tables
  <1>2. ASSUME NEW h \in Handlers, TableWriter(h)
        PROVE (PaidFor(i) => PaidFor(i)') /\ (Renegotiated(i) => Renegotiated(i)')
    <2>1. CASE ChargeFails(h)
      <3>1. local[h].reserved # i
        BY <2>1 DEF ChargeFails, Reservations, Reserving
      <3> QED
        BY <2>1, <3>1 DEF ChargeFails, DeleteInvoice
    <2>2. CASE CommitFinalize(h)
      <3>1. original[local[h].reserved] = None /\ None \notin Invoices
        BY <2>2, SettlementAssumption DEF CommitFinalize, Reservations, Reserving
      <3>2. i # None
        BY SettlementAssumption
      <3> QED
        BY <2>2, <3>1, <3>2 DEF CommitFinalize
    <2>3. CASE ~ChargeFails(h) /\ ~CommitFinalize(h)
      <3>1. payments \subseteq payments' /\ original' = original
        BY <1>2, <2>3 DEF TableWriter, CommitWebhook, CommitRefusedWebhook, SettleManually,
                          ReserveNewInvoice, ChargeNewInvoice
      <3> QED
        BY <3>1
    <2> QED
      BY <2>1, <2>2, <2>3
  <1>3. ASSUME NEW S \in SUBSET Invoices, MarkOverdue(S)
        PROVE (PaidFor(i) => PaidFor(i)') /\ (Renegotiated(i) => Renegotiated(i)')
    BY <1>3 DEF MarkOverdue
  <1> QED
    BY <1>1, <1>2, <1>3, TableSteps

(* Open transactions are kept by a step that opens none and does not record   *)
(* the event id of one that stays open.                                       *)
LEMMA NoNewTransaction ==
  ASSUME IInv, [Next]_vars,
         \A g \in Handlers : pc'[g] = "webhookTx" =>
           /\ pc[g] = "webhookTx"
           /\ local'[g] = local[g]
           /\ local[g].event.id # None => local[g].event.id \notin webhookEvents'
  PROVE  OpenTransactions'
  <1> SUFFICES ASSUME NEW h \in Handlers, pc'[h] = "webhookTx"
               PROVE  /\ local'[h].seen \in InvoiceStatuses
                      /\ local'[h].seen = "PAID" => PaidFor(local[h].target)'
                      /\ local'[h].seen = "RENEGOTIATED" => Renegotiated(local[h].target)'
                      /\ local'[h].event.id # None =>
                           /\ local'[h].event.id \notin webhookEvents'
                           /\ \A g \in Handlers : g # h => ~HoldsEvent(g, local[h].event.id)'
    BY DEF OpenTransactions
  <1>1. pc[h] = "webhookTx" /\ local'[h] = local[h]
    OBVIOUS
  <1>2. /\ local[h].seen \in InvoiceStatuses
        /\ local[h].seen = "PAID" => PaidFor(local[h].target)
        /\ local[h].seen = "RENEGOTIATED" => Renegotiated(local[h].target)
        /\ local[h].event.id # None => \A g \in Handlers : g # h => ~HoldsEvent(g, local[h].event.id)
    BY <1>1 DEF IInv, OpenTransactions
  <1>3. local[h].target \in charged
    BY <1>1 DEF IInv, Targets
  <1>4. /\ local'[h].seen = "PAID" => PaidFor(local[h].target)'
        /\ local'[h].seen = "RENEGOTIATED" => Renegotiated(local[h].target)'
    <2>1. PaidFor(local[h].target) => \E p \in payments' : p.invoice = local[h].target
      BY <1>3, EvidenceKept DEF PaidFor
    <2>2. Renegotiated(local[h].target) => \E n \in Invoices : original'[n] = local[h].target
      BY <1>3, EvidenceKept DEF Renegotiated
    <2> QED
      BY <1>1, <1>2, <2>1, <2>2 DEF PaidFor, Renegotiated
  <1>5. local[h].event.id # None => \A g \in Handlers : g # h => ~HoldsEvent(g, local[h].event.id)'
    BY <1>1, <1>2 DEF HoldsEvent
  <1> QED
    BY <1>1, <1>2, <1>4, <1>5

(* A transaction takes the evidence for what it reads when it opens.           *)
LEMMA OpenTransactionsStep == IInv /\ [Next]_vars => OpenTransactions'
  <1> SUFFICES ASSUME IInv, [Next]_vars PROVE OpenTransactions'
    OBVIOUS
  <1> DEFINE Idle(g) == pc'[g] # "webhookTx"
             Same(g) == pc'[g] = pc[g] /\ local'[g] = local[g]
  <1> USE DEF IInv, TypeOK, Suspend, Finish
  <1>1. \A g \in Handlers : pc[g] = "webhookTx" /\ local[g].event.id # None =>
          local[g].event.id \notin webhookEvents
    BY DEF OpenTransactions
  <1>2. ASSUME NEW h \in Handlers, Start(h) PROVE OpenTransactions'
    <2>1. webhookEvents' = webhookEvents /\ Idle(h) /\ \A g \in Handlers \ {h} : Same(g)
      BY <1>2 DEF Start, ReceiveWebhook, IgnoreWebhook, RequestManual, RequestAgreement, tables
    <2> QED
      BY <1>1, <2>1, NoNewTransaction
  <1>3. ASSUME NEW h \in Handlers, OpenWebhookTx(h) PROVE OpenTransactions'
    <2> DEFINE i == local[h].target
               id == local[h].event.id
    <2>1. /\ UNCHANGED tables
          /\ pc'[h] = "webhookTx" /\ local'[h] = [local[h] EXCEPT !.seen = status[i]]
          /\ \A g \in Handlers \ {h} : Same(g)
      BY <1>3 DEF OpenWebhookTx
    <2>2. i \in charged /\ i \in Invoices /\ status[i] \in InvoiceStatuses
      BY <1>3 DEF OpenWebhookTx, Targets, ChargedExists
    <2>3. local'[h].seen = status[i] /\ local'[h].target = i /\ local'[h].event.id = id
      BY <2>1 DEF Locals
    <2>4. /\ status[i] = "PAID" => PaidFor(i)
          /\ status[i] = "RENEGOTIATED" => Renegotiated(i)
      BY <2>2 DEF PaidHasPayment, DebtNeverVanishes, Renegotiated
    <2>5. /\ id \notin webhookEvents
          /\ id # None => \A g \in Handlers : ~HoldsEvent(g, id)
      BY <1>3 DEF OpenWebhookTx
    <2>6. ASSUME NEW f \in Handlers, pc'[f] = "webhookTx"
          PROVE  /\ local'[f].seen \in InvoiceStatuses
                 /\ local'[f].seen = "PAID" => PaidFor(local'[f].target)
                 /\ local'[f].seen = "RENEGOTIATED" => Renegotiated(local'[f].target)
      <3>1. CASE f = h
        BY <2>2, <2>3, <2>4, <3>1
      <3>2. CASE f # h
        BY <2>1, <2>6, <3>2 DEF OpenTransactions
      <3> QED
        BY <3>1, <3>2
    <2>7. ASSUME NEW f \in Handlers, pc'[f] = "webhookTx", local'[f].event.id # None
          PROVE  /\ local'[f].event.id \notin webhookEvents
                 /\ \A g \in Handlers : g # f /\ pc'[g] = "webhookTx" => local'[g].event.id # local'[f].event.id
      <3>1. CASE f = h
        BY <2>1, <2>3, <2>5, <2>7, <3>1 DEF HoldsEvent
      <3>2. CASE f # h
        <4>1. pc[f] = "webhookTx" /\ local'[f] = local[f]
          BY <2>1, <2>7, <3>2
        <4>2. /\ local[f].event.id \notin webhookEvents
              /\ \A g \in Handlers : g # f => ~HoldsEvent(g, local[f].event.id)
          BY <2>7, <4>1 DEF OpenTransactions
        <4>3. local[f].event.id # id
          BY <2>5, <2>7, <4>1 DEF HoldsEvent
        <4> QED
          BY <2>1, <2>3, <4>1, <4>2, <4>3 DEF HoldsEvent
      <3> QED
        BY <3>1, <3>2
    <2> QED
      BY <2>1, <2>6, <2>7 DEF OpenTransactions, PaidFor, Renegotiated, HoldsEvent, tables
  <1>4. ASSUME NEW h \in Handlers, CommitWebhook(h) \/ CommitRefusedWebhook(h) PROVE OpenTransactions'
    <2>1. pc[h] = "webhookTx" /\ Idle(h) /\ \A g \in Handlers \ {h} : Same(g)
      BY <1>4 DEF CommitWebhook, CommitRefusedWebhook, AfterWebhook
    <2>2. webhookEvents' = webhookEvents \cup ({local[h].event.id} \ {None})
      BY <1>4 DEF CommitWebhook, CommitRefusedWebhook, RecordEvent
    <2>3. \A g \in Handlers : g # h /\ pc[g] = "webhookTx" /\ local[g].event.id # None =>
            local[g].event.id # local[h].event.id
      BY <2>1 DEF OpenTransactions, HoldsEvent
    <2> QED
      BY <1>1, <2>1, <2>2, <2>3, NoNewTransaction
  <1>5. ASSUME NEW h \in Handlers, Continue(h) \/ Fail(h), ~OpenWebhookTx(h), ~CommitWebhook(h),
               ~CommitRefusedWebhook(h)
        PROVE OpenTransactions'
    <2>1. webhookEvents' = webhookEvents
      BY <1>5 DEF Continue, DuplicateWebhook, SettleManually, ReturnActiveAgreement, ReserveNewInvoice,
           ChargeNewInvoice, ChargeFails, OpenFinalizeTx, FinalizeConflict, CommitFinalize,
           FollowUp, TargetGone, Fail, tables
    <2>2. Idle(h) /\ \A g \in Handlers \ {h} : Same(g)
      BY <1>5 DEF Continue, DuplicateWebhook, SettleManually, ReturnActiveAgreement, ReserveNewInvoice,
           ChargeNewInvoice, ChargeFails, OpenFinalizeTx, FinalizeConflict, CommitFinalize,
           FollowUp, TargetGone, Fail
    <2> QED
      BY <1>1, <2>1, <2>2, NoNewTransaction
  <1>6. ASSUME NEW S \in SUBSET Invoices, MarkOverdue(S) PROVE OpenTransactions'
    BY <1>1, <1>6, NoNewTransaction DEF MarkOverdue
  <1>7. CASE UNCHANGED vars
    BY <1>1, <1>7, NoNewTransaction DEF vars
  <1> QED
    BY <1>2, <1>3, <1>4, <1>5, <1>6, <1>7 DEF Next

(* A payment and the id of its event are written by one commit.               *)
LEMMA RecordedEventsStep == IInv /\ [Next]_vars => RecordedEvents'
  <1> SUFFICES ASSUME IInv, [Next]_vars PROVE RecordedEvents'
    OBVIOUS
  <1> USE DEF IInv, TypeOK, RecordedEvents
  <1>1. CASE UNCHANGED tables
    BY <1>1 DEF tables
  <1>2. ASSUME NEW h \in Handlers, TableWriter(h) PROVE RecordedEvents'
    <2>1. CASE CommitWebhook(h)
      BY <2>1 DEF CommitWebhook, RecordEvent, Payment
    <2>2. CASE SettleManually(h)
      BY <2>2 DEF SettleManually, Payment
    <2>3. CASE ChargeFails(h)
      BY <2>3 DEF ChargeFails, DeleteInvoice
    <2>4. CASE ~CommitWebhook(h) /\ ~SettleManually(h) /\ ~ChargeFails(h)
      BY <1>2, <2>4 DEF TableWriter, CommitRefusedWebhook, RecordEvent, ReserveNewInvoice,
                        ChargeNewInvoice, CommitFinalize
    <2> QED
      BY <2>1, <2>2, <2>3, <2>4
  <1>3. ASSUME NEW S \in SUBSET Invoices, MarkOverdue(S) PROVE RecordedEvents'
    BY <1>3 DEF MarkOverdue
  <1> QED
    BY <1>1, <1>2, <1>3, TableSteps

(* A commit books an event whose id no payment carries yet.                   *)
LEMMA OnePaymentPerEventStep == IInv /\ [Next]_vars => OnePaymentPerEvent'
  <1> SUFFICES ASSUME IInv, [Next]_vars PROVE OnePaymentPerEvent'
    OBVIOUS
  <1> USE DEF IInv, TypeOK, OnePaymentPerEvent
  <1>1. CASE UNCHANGED tables
    BY <1>1 DEF tables
  <1>2. ASSUME NEW h \in Handlers, TableWriter(h) PROVE OnePaymentPerEvent'
    <2>1. CASE CommitWebhook(h)
      <3>1. payments' \subseteq payments \cup {Payment(h, "gateway", local[h].event.id)}
        BY <2>1 DEF CommitWebhook
      <3>2. local[h].event.id # None => \A p \in payments : p.id # local[h].event.id
        BY <2>1 DEF CommitWebhook, OpenTransactions, RecordedEvents
      <3> QED
        BY <3>1, <3>2 DEF Payment
    <2>2. CASE SettleManually(h)
      BY <2>2 DEF SettleManually, Payment
    <2>3. CASE ~CommitWebhook(h) /\ ~SettleManually(h)
      <3>1. payments' \subseteq payments
        BY <1>2, <2>3 DEF TableWriter, CommitRefusedWebhook, ReserveNewInvoice,
                          ChargeNewInvoice, ChargeFails, DeleteInvoice, CommitFinalize
      <3> QED
        BY <3>1
    <2> QED
      BY <2>1, <2>2, <2>3
  <1>3. ASSUME NEW S \in SUBSET Invoices, MarkOverdue(S) PROVE OnePaymentPerEvent'
    BY <1>3 DEF MarkOverdue
  <1> QED
    BY <1>1, <1>2, <1>3, TableSteps

(* A commit to PAID writes a Payment unless it has read PAID, which is evidence. *)
LEMMA PaidHasPaymentStep == IInv /\ [Next]_vars => PaidHasPayment'
  <1> SUFFICES ASSUME IInv, [Next]_vars PROVE PaidHasPayment'
    OBVIOUS
  <1> USE DEF IInv, TypeOK, PaidHasPayment, PaidFor
  <1>1. CASE UNCHANGED tables
    BY <1>1 DEF tables
  <1>2. ASSUME NEW h \in Handlers, TableWriter(h) PROVE PaidHasPayment'
    <2>1. CASE CommitWebhook(h)
      <3> DEFINE e == local[h].event
                 i == local[h].target
      <3>1. i \in Invoices /\ status' = [status EXCEPT ![i] = e.status] /\ payments \subseteq payments'
        BY <2>1 DEF CommitWebhook, Targets
      <3>2. ASSUME e.status = "PAID" PROVE \E p \in payments' : p.invoice = i
        <4>1. CASE local[h].seen = "PAID"
          BY <2>1, <3>1, <4>1 DEF CommitWebhook, OpenTransactions
        <4>2. CASE local[h].seen # "PAID"
          <5>1. Payment(h, "gateway", e.id) \in payments'
            BY <2>1, <3>2, <4>2 DEF CommitWebhook, ShouldRecordGatewayPayment
          <5> QED
            BY <5>1 DEF Payment
        <4> QED
          BY <4>1, <4>2
      <3> QED
        BY <3>1, <3>2
    <2>2. CASE SettleManually(h)
      <3>1. local[h].target \in Invoices /\ Payment(h, "manual", None) \in payments'
        BY <2>2 DEF SettleManually, Targets
      <3> QED
        BY <2>2, <3>1 DEF SettleManually, Payment
    <2>3. CASE ChargeFails(h)
      BY <2>3 DEF ChargeFails, DeleteInvoice
    <2>4. CASE ~CommitWebhook(h) /\ ~SettleManually(h) /\ ~ChargeFails(h)
      BY <1>2, <2>4 DEF TableWriter, CommitRefusedWebhook, ReserveNewInvoice,
                        ChargeNewInvoice, CommitFinalize
    <2> QED
      BY <2>1, <2>2, <2>3, <2>4
  <1>3. ASSUME NEW S \in SUBSET Invoices, MarkOverdue(S) PROVE PaidHasPayment'
    BY <1>3 DEF MarkOverdue
  <1> QED
    BY <1>1, <1>2, <1>3, TableSteps

(* The replacement of a renegotiated invoice is charged, hence never deleted.  *)
LEMMA DebtNeverVanishesStep == IInv /\ [Next]_vars => DebtNeverVanishes'
  <1> SUFFICES ASSUME IInv, [Next]_vars PROVE DebtNeverVanishes'
    OBVIOUS
  <1> USE DEF IInv, TypeOK, DebtNeverVanishes
  <1>0. ChargedExists'
    BY ChargedExistsStep
  <1>1. CASE UNCHANGED tables
    BY <1>1 DEF tables
  <1>2. ASSUME NEW h \in Handlers, TableWriter(h) PROVE DebtNeverVanishes'
    <2>1. charged \subseteq charged'
      BY <1>2 DEF TableWriter, CommitWebhook, CommitRefusedWebhook, SettleManually,
                  ReserveNewInvoice, ChargeNewInvoice, ChargeFails, CommitFinalize
    <2>2. CASE CommitFinalize(h)
      <3> DEFINE n == local[h].reserved
                 i == local[h].target
      <3>1. n \in Invoices /\ n \in charged /\ original[n] = None /\ i \in Invoices
        BY <2>2 DEF CommitFinalize, Reservations, Reserving, Targets
      <3>2. original' = [original EXCEPT ![n] = i] /\ status' = [status EXCEPT ![i] = "RENEGOTIATED"]
        BY <2>2 DEF CommitFinalize
      <3>3. None \notin Invoices
        BY SettlementAssumption
      <3> QED
        BY <1>0, <2>1, <3>1, <3>2, <3>3 DEF ChargedExists
    <2>3. CASE ChargeFails(h)
      <3> DEFINE n == local[h].reserved
      <3>1. n \notin charged
        BY <2>3 DEF ChargeFails, Reservations, Reserving
      <3>2. ASSUME NEW i \in Invoices, status'[i] = "RENEGOTIATED"
            PROVE  \E m \in Invoices : original'[m] = i /\ m \in charged' /\ status'[m] # "ABSENT"
        <4>1. i # n /\ status[i] = "RENEGOTIATED"
          BY <2>3, <3>2 DEF ChargeFails, DeleteInvoice
        <4>2. PICK m \in Invoices : original[m] = i /\ m \in charged
          BY <4>1
        <4>3. original'[m] = i
          BY <2>3, <4>1, <4>2 DEF ChargeFails, DeleteInvoice
        <4> QED
          BY <1>0, <2>1, <4>2, <4>3 DEF ChargedExists
      <3> QED
        BY <3>2
    <2>4. CASE ~CommitFinalize(h) /\ ~ChargeFails(h)
      <3>1. original' = original
        BY <1>2, <2>4 DEF TableWriter, CommitWebhook, CommitRefusedWebhook, SettleManually,
                          ReserveNewInvoice, ChargeNewInvoice
      <3>2. \A i \in Invoices : status'[i] = "RENEGOTIATED" => status[i] = "RENEGOTIATED"
        <4>1. CASE CommitWebhook(h)
          <5>1. local[h].event.status # "RENEGOTIATED"
            BY <4>1, SettlementAssumption DEF CommitWebhook, Targets, GatewayStatuses
          <5> QED
            BY <4>1, <5>1 DEF CommitWebhook
        <4>2. CASE ~CommitWebhook(h)
          BY <1>2, <2>4, <4>2 DEF TableWriter, CommitRefusedWebhook, SettleManually,
                                  ReserveNewInvoice, ChargeNewInvoice
        <4> QED
          BY <4>1, <4>2
      <3> QED
        BY <1>0, <2>1, <3>1, <3>2 DEF ChargedExists
    <2> QED
      BY <2>2, <2>3, <2>4
  <1>3. ASSUME NEW S \in SUBSET Invoices, MarkOverdue(S) PROVE DebtNeverVanishes'
    BY <1>3 DEF MarkOverdue
  <1> QED
    BY <1>1, <1>2, <1>3, TableSteps

(* An agreement is accepted by the commit that books its payment.             *)
LEMMA AcceptedAgreementPaidStep == IInv /\ [Next]_vars => AcceptedAgreementPaid'
  <1> SUFFICES ASSUME IInv, [Next]_vars PROVE AcceptedAgreementPaid'
    OBVIOUS
  <1> USE DEF IInv, TypeOK, AcceptedAgreementPaid
  <1>1. CASE UNCHANGED tables
    BY <1>1 DEF tables
  <1>2. ASSUME NEW h \in Handlers, TableWriter(h) PROVE AcceptedAgreementPaid'
    <2>1. CASE CommitWebhook(h)
      <3>1. CASE ShouldRecordGatewayPayment(local[h].seen, local[h].event.status)
        <4>1. payments' = payments \cup {Payment(h, "gateway", local[h].event.id)}
          BY <2>1, <3>1 DEF CommitWebhook
        <4>2. \A n \in Invoices : n # local[h].target => agreement'[n] = agreement[n]
          BY <2>1, <3>1 DEF CommitWebhook
        <4>3. /\ Payment(h, "gateway", local[h].event.id).invoice = local[h].target
              /\ Payment(h, "gateway", local[h].event.id).source = "gateway"
          BY DEF Payment
        <4>4. \E p \in payments' : p.invoice = local[h].target /\ p.source = "gateway"
          BY <4>1, <4>3
        <4>5. \A p \in payments : p \in payments'
          BY <4>1
        <4> QED
          BY <4>2, <4>4, <4>5
      <3>2. CASE ~ShouldRecordGatewayPayment(local[h].seen, local[h].event.status)
        BY <2>1, <3>2 DEF CommitWebhook
      <3> QED
        BY <3>1, <3>2
    <2>2. CASE ChargeFails(h)
      <3>1. local[h].reserved \notin charged
        BY <2>2 DEF ChargeFails, Reservations, Reserving
      <3> QED
        BY <2>2, <3>1 DEF ChargeFails, DeleteInvoice, Agreements
    <2>3. CASE CommitFinalize(h)
      BY <2>3 DEF CommitFinalize
    <2>4. CASE ~CommitWebhook(h) /\ ~ChargeFails(h) /\ ~CommitFinalize(h)
      <3>1. agreement' = agreement /\ payments \subseteq payments'
        BY <1>2, <2>4 DEF TableWriter, CommitRefusedWebhook, SettleManually, ReserveNewInvoice,
                          ChargeNewInvoice
      <3> QED
        BY <3>1
    <2> QED
      BY <2>1, <2>2, <2>3, <2>4
  <1>3. ASSUME NEW S \in SUBSET Invoices, MarkOverdue(S) PROVE AcceptedAgreementPaid'
    BY <1>3 DEF MarkOverdue
  <1> QED
    BY <1>1, <1>2, <1>3, TableSteps

(* A committed confirmation leaves evidence: a Payment, an earlier Payment, or *)
(* the agreement that replaced the invoice.                                   *)
LEMMA CommitLeavesEvidence ==
  ASSUME IInv, [Next]_vars, NEW h \in Handlers, NEW i \in Invoices, local[h].target = i,
         CommitWebhook(h) \/ CommitRefusedWebhook(h), local[h].event.status = "PAID"
  PROVE  i \in charged /\ Accounted(i)'
  <1>1. i \in charged /\ pc[h] = "webhookTx" /\ local[h].seen \in InvoiceStatuses
    BY DEF IInv, Targets, OpenTransactions, CommitWebhook, CommitRefusedWebhook
  <1>2. CASE local[h].seen = "PAID"
    <2>1. PaidFor(i)
      BY <1>1, <1>2 DEF IInv, OpenTransactions
    <2>2. PaidFor(i)'
      BY <1>1, <2>1, EvidenceKept
    <2> QED
      BY <1>1, <2>2 DEF Accounted, PaidFor
  <1>3. CASE local[h].seen = "RENEGOTIATED"
    <2>1. Renegotiated(i)
      BY <1>1, <1>3 DEF IInv, OpenTransactions
    <2>2. Renegotiated(i)'
      BY <1>1, <2>1, EvidenceKept
    <2> QED
      BY <1>1, <2>2 DEF Accounted, Renegotiated
  <1>4. CASE local[h].seen \notin {"PAID", "RENEGOTIATED"}
    <2>1. CanTransitionInvoice(local[h].seen, "PAID")
      BY <1>1, <1>4 DEF InvoiceStatuses, CanTransitionInvoice, InvoiceTransitions
    <2>2. CommitWebhook(h)
      BY <2>1 DEF CommitRefusedWebhook
    <2>3. Payment(h, "gateway", local[h].event.id) \in payments'
      BY <1>4, <2>2 DEF CommitWebhook, ShouldRecordGatewayPayment
    <2>4. Payment(h, "gateway", local[h].event.id).invoice = i
      BY DEF Payment
    <2> QED
      BY <1>1, <2>3, <2>4 DEF Accounted, PaidFor
  <1> QED
    BY <1>2, <1>3, <1>4

(* A confirmation becomes settled only by an answer that ignores it or by a   *)
(* commit.                                                                    *)
LEMMA NewlySettled ==
  ASSUME IInv, [Next]_vars, UniqueEventIds, NEW e \in Events, e.status = "PAID",
         ~Settled(e), Settled(e)'
  PROVE  \E h \in Handlers :
           \/ IgnoreWebhook(h, e)
           \/ /\ CommitWebhook(h) \/ CommitRefusedWebhook(h)
              /\ local[h].event = e
  <1> USE DEF Settled, IInv, TypeOK, Suspend, Finish
  <1>0. e # None
    BY SettlementAssumption
  <1>1. ASSUME NEW h \in Handlers, Start(h)
        PROVE  IgnoreWebhook(h, e)
    <2>1. webhookEvents' = webhookEvents
      BY <1>1 DEF Start, ReceiveWebhook, IgnoreWebhook, RequestManual, RequestAgreement, tables
    <2>2. \A g \in Handlers : pc'[g] = "followUp" => pc[g] = "followUp" /\ local'[g] = local[g]
      BY <1>1 DEF Start, ReceiveWebhook, IgnoreWebhook, RequestManual, RequestAgreement
    <2>3. e \in acked' /\ e \notin acked
      BY <2>1, <2>2
    <2> QED
      BY <1>1, <2>3 DEF Start, ReceiveWebhook, IgnoreWebhook, RequestManual, RequestAgreement
  <1>2. ASSUME NEW h \in Handlers, CommitWebhook(h) \/ CommitRefusedWebhook(h)
        PROVE  local[h].event = e
    <2>1. /\ pc[h] = "webhookTx" /\ local[h].event \in Events
          /\ \A g \in Handlers \ {h} : pc'[g] = pc[g] /\ local'[g] = local[g]
          /\ webhookEvents' = webhookEvents \cup ({local[h].event.id} \ {None})
          /\ acked' \subseteq acked \cup {local[h].event}
          /\ pc'[h] = "followUp" => local'[h] = local[h]
      BY <1>2 DEF CommitWebhook, CommitRefusedWebhook, RecordEvent, AfterWebhook, Targets
    <2>2. local[h].event.id = e.id /\ e.id # None => local[h].event = e
      BY <2>1 DEF UniqueEventIds
    <2> QED
      BY <2>1, <2>2
  <1>3. ASSUME NEW h \in Handlers, Continue(h) \/ Fail(h), ~CommitWebhook(h), ~CommitRefusedWebhook(h)
        PROVE  FALSE
    <2>1. webhookEvents' = webhookEvents
      BY <1>3 DEF Continue, DuplicateWebhook, OpenWebhookTx, SettleManually, ReturnActiveAgreement,
           ReserveNewInvoice, ChargeNewInvoice, ChargeFails, OpenFinalizeTx, FinalizeConflict,
           CommitFinalize, FollowUp, TargetGone, Fail, tables
    <2>2. \A g \in Handlers \ {h} : pc'[g] = pc[g] /\ local'[g] = local[g]
      BY <1>3 DEF Continue, DuplicateWebhook, OpenWebhookTx, SettleManually, ReturnActiveAgreement,
           ReserveNewInvoice, ChargeNewInvoice, ChargeFails, OpenFinalizeTx, FinalizeConflict,
           CommitFinalize, FollowUp, TargetGone, Fail
    <2>3. pc'[h] = "followUp" => local'[h] = local[h] /\ local[h].event = None
      BY <1>3 DEF Continue, DuplicateWebhook, OpenWebhookTx, SettleManually, ReturnActiveAgreement,
           ReserveNewInvoice, ChargeNewInvoice, ChargeFails, OpenFinalizeTx, FinalizeConflict,
           CommitFinalize, FollowUp, TargetGone, Fail, Targets, Reserving
    <2>4. e \in acked' /\ e \notin acked
      BY <1>0, <2>1, <2>2, <2>3
    <2>5. DuplicateWebhook(h) \/ FollowUp(h)
      BY <1>3, <2>4 DEF Continue, OpenWebhookTx, SettleManually, ReturnActiveAgreement,
           ReserveNewInvoice, ChargeNewInvoice, ChargeFails, OpenFinalizeTx, FinalizeConflict,
           CommitFinalize, TargetGone, Fail
    <2> QED
      BY <2>4, <2>5 DEF DuplicateWebhook, FollowUp
  <1>4. ASSUME NEW S \in SUBSET Invoices, MarkOverdue(S) PROVE FALSE
    BY <1>4 DEF MarkOverdue
  <1>5. CASE UNCHANGED vars
    BY <1>5 DEF vars
  <1> QED
    BY <1>1, <1>2, <1>3, <1>4, <1>5 DEF Next

(* What is settled stays accounted for.                                       *)
LEMMA AccountingStep == IInv /\ [Next]_vars => Accounting'
  <1> SUFFICES ASSUME IInv, [Next]_vars, UniqueEventIds,
                      NEW e \in Events, e.status = "PAID", Settled(e)'
               PROVE  e.invoice \in charged' /\ Accounted(e.invoice)'
    BY DEF Accounting, UniqueEventIds, Settled, Accounted, PaidFor, Renegotiated
  <1>1. e.invoice \in charged => e.invoice \in charged'
    BY TableSteps DEF TableWriter, CommitWebhook, CommitRefusedWebhook, SettleManually,
       ReserveNewInvoice, ChargeNewInvoice, ChargeFails, CommitFinalize, MarkOverdue, tables
  <1>2. CASE Settled(e)
    <2>1. e.invoice \in charged /\ Accounted(e.invoice)
      BY <1>2 DEF IInv, Accounting
    <2>2. /\ PaidFor(e.invoice) => PaidFor(e.invoice)'
          /\ Renegotiated(e.invoice) => Renegotiated(e.invoice)'
      BY <2>1, EvidenceKept
    <2> QED
      BY <1>1, <2>1, <2>2 DEF Accounted
  <1>3. CASE ~Settled(e)
    <2>1. PICK h \in Handlers :
            \/ IgnoreWebhook(h, e)
            \/ /\ CommitWebhook(h) \/ CommitRefusedWebhook(h)
               /\ local[h].event = e
      BY <1>3, NewlySettled
    <2>2. CASE IgnoreWebhook(h, e)
      <3>1. e.invoice \in charged /\ e.invoice \in Invoices /\ ~CanTransitionInvoice(status[e.invoice], "PAID")
        BY <2>2, SettlementAssumption DEF IgnoreWebhook
      <3>2. status[e.invoice] = "RENEGOTIATED"
        BY <3>1 DEF IInv, TypeOK, ChargedExists, CanTransitionInvoice, InvoiceTransitions, InvoiceStatuses
      <3>3. Renegotiated(e.invoice)
        BY <3>1, <3>2 DEF IInv, DebtNeverVanishes, Renegotiated
      <3>4. Renegotiated(e.invoice)'
        BY <3>1, <3>3, EvidenceKept
      <3> QED
        BY <1>1, <3>1, <3>4 DEF Accounted
    <2>3. CASE CommitWebhook(h) \/ CommitRefusedWebhook(h)
      <3>1. local[h].event = e
        BY <2>1, <2>3 DEF IgnoreWebhook, CommitWebhook, CommitRefusedWebhook
      <3>2. local[h].target = e.invoice /\ e.invoice \in Invoices
        BY <2>3, <3>1, SettlementAssumption DEF CommitWebhook, CommitRefusedWebhook, IInv, Targets
      <3>3. e.invoice \in charged /\ Accounted(e.invoice)'
        BY <2>3, <3>1, <3>2, CommitLeavesEvidence
      <3> QED
        BY <1>1, <3>3
    <2> QED
      BY <2>1, <2>2, <2>3
  <1> QED
    BY <1>2, <1>3

(* A renegotiation reads its original before it may commit.                   *)
LEMMA FinalizeReadStep == IInv /\ [Next]_vars => FinalizeRead'
  <1> SUFFICES ASSUME IInv, [Next]_vars PROVE FinalizeRead'
    OBVIOUS
  <1> USE DEF IInv, TypeOK, FinalizeRead, Suspend, Finish
  <1>1. ASSUME NEW h \in Handlers, OpenFinalizeTx(h) PROVE FinalizeRead'
    <2>1. local'[h] = [local[h] EXCEPT !.seen = status[local[h].target]] /\ local[h] \in Locals
      BY <1>1 DEF OpenFinalizeTx
    <2>2. CanTransitionInvoice(local'[h].seen, "RENEGOTIATED")
      BY <1>1, <2>1 DEF OpenFinalizeTx, Locals
    <2> QED
      BY <1>1, <2>2 DEF OpenFinalizeTx
  <1>2. ASSUME NEW h \in Handlers, Start(h) \/ Continue(h) \/ Fail(h), ~OpenFinalizeTx(h)
        PROVE FinalizeRead'
    <2>1. pc'[h] # "finalizeTx" /\ \A g \in Handlers \ {h} : pc'[g] = pc[g] /\ local'[g] = local[g]
      <3>1. CASE Start(h) \/ Fail(h)
        BY <3>1 DEF Start, ReceiveWebhook, IgnoreWebhook, RequestManual, RequestAgreement, Fail
      <3>2. CASE Continue(h)
        BY <1>2, <3>2 DEF Continue, DuplicateWebhook, OpenWebhookTx, CommitWebhook, CommitRefusedWebhook,
             AfterWebhook, SettleManually, ReturnActiveAgreement, ReserveNewInvoice, ChargeNewInvoice,
             ChargeFails, FinalizeConflict, CommitFinalize, FollowUp, TargetGone
      <3> QED
        BY <1>2, <3>1, <3>2
    <2> QED
      BY <2>1
  <1>3. ASSUME NEW S \in SUBSET Invoices, MarkOverdue(S) PROVE FinalizeRead'
    BY <1>3 DEF MarkOverdue
  <1>4. CASE UNCHANGED vars
    BY <1>4 DEF vars
  <1> QED
    BY <1>1, <1>2, <1>3, <1>4 DEF Next

-----------------------------------------------------------------------------
(* The invariant is inductive: every reachable state satisfies all its parts. *)
THEOREM Invariance == Spec => []IInv
  <1>1. IInv /\ [Next]_vars => IInv'
    BY TypeStep, ChargedExistsStep, ReservationsStep, AgreementsStep, TargetsStep,
       OpenTransactionsStep, FinalizeReadStep, RecordedEventsStep, OnePaymentPerEventStep,
       PaidHasPaymentStep, DebtNeverVanishesStep, AcceptedAgreementPaidStep, AccountingStep
       DEF IInv
  <1> QED
    BY InitIInv, <1>1, PTL DEF Spec

(* Every variable keeps its type.                                             *)
THEOREM TypeCorrect == Spec => []TypeOK
  BY Invariance, PTL DEF IInv

(* However a notification is resent, it books money once (RN-P3).             *)
THEOREM WebhookIdempotence == Spec => []OnePaymentPerEvent
  BY Invariance, PTL DEF IInv

(* No invoice becomes PAID without a Payment row.                             *)
THEOREM PaymentEvidence == Spec => []PaidHasPayment
  BY Invariance, PTL DEF IInv

(* The books are right: nothing is booked twice, and nothing is PAID unbooked. *)
THEOREM MoneyIsRight == Spec => []MoneyIsBooked
  BY WebhookIdempotence, PaymentEvidence, PTL DEF MoneyIsBooked

(* A renegotiated debt always has a charged replacement.                      *)
THEOREM RenegotiationKeepsDebt == Spec => []DebtNeverVanishes
  BY Invariance, PTL DEF IInv

(* An ACCEPTED agreement was paid through the gateway.                        *)
THEOREM AgreementEvidence == Spec => []AcceptedAgreementPaid
  BY Invariance, PTL DEF IInv

(* With one id per notification, a confirmation that was answered with 200 is *)
(* booked or belongs to a renegotiated invoice: no crash loses it.            *)
THEOREM NoConfirmationLost ==
  ASSUME UniqueEventIds
  PROVE  Spec => []AckedPaymentAccounted
  <1>1. IInv => AckedPaymentAccounted
    BY DEF IInv, TypeOK, Accounting, Settled, Accounted, AckedPaymentAccounted
  <1> QED
    BY Invariance, <1>1, PTL

(* Only a writer whose read predates the payment takes an invoice out of PAID. *)
THEOREM PaidIsLeftByStaleReads == Spec => PaidLeftOnlyByStaleWriter
  <1> DEFINE Left == \A i \in Invoices : status[i] = "PAID" /\ status'[i] # "PAID" =>
                       \E h \in Handlers : StaleWriter(h, i)
  <1>1. IInv /\ [Next]_vars => Left
    <2> SUFFICES ASSUME IInv, [Next]_vars, NEW i \in Invoices, status[i] = "PAID", status'[i] # "PAID"
                 PROVE  \E h \in Handlers : StaleWriter(h, i)
      OBVIOUS
    <2> USE DEF IInv, TypeOK
    <2>1. ASSUME NEW h \in Handlers, TableWriter(h) PROVE StaleWriter(h, i)
      <3>1. CASE CommitWebhook(h)
        BY <3>1 DEF CommitWebhook, StaleWriter, CanTransitionInvoice, InvoiceTransitions
      <3>2. CASE CommitFinalize(h)
        BY <3>2 DEF CommitFinalize, StaleWriter, FinalizeRead, CanTransitionInvoice, InvoiceTransitions
      <3>3. CASE ChargeFails(h)
        BY <3>3 DEF ChargeFails, DeleteInvoice, StaleWriter
      <3>4. CASE ~CommitWebhook(h) /\ ~CommitFinalize(h) /\ ~ChargeFails(h)
        BY <2>1, <3>4 DEF TableWriter, CommitRefusedWebhook, SettleManually, ReserveNewInvoice,
                          ChargeNewInvoice
      <3> QED
        BY <3>1, <3>2, <3>3, <3>4
    <2>2. ASSUME NEW S \in SUBSET Invoices, MarkOverdue(S) PROVE FALSE
      BY <2>2 DEF MarkOverdue
    <2>3. CASE UNCHANGED tables
      BY <2>3 DEF tables
    <2> QED
      BY <2>1, <2>2, <2>3, TableSteps
  <1> QED
    BY Invariance, <1>1, PTL DEF Spec, PaidLeftOnlyByStaleWriter

-----------------------------------------------------------------------------
(* The ledger, step by step.  A step whose writer is not out of date maps to  *)
(* one step of InvoiceLedger, or changes neither invoices nor payments.       *)

Receipts == [i \in Invoices |-> {p \in payments : p.invoice = i}]

(* The ledger knows the same state machine of an invoice.                     *)
LEMMA SameStateMachine ==
  /\ Ledger!InvoiceStatuses = InvoiceStatuses
  /\ \A from, to : Ledger!CanTransitionInvoice(from, to) <=> CanTransitionInvoice(from, to)
  BY DEF Ledger!InvoiceStatuses, InvoiceStatuses, Ledger!CanTransitionInvoice, CanTransitionInvoice,
         Ledger!InvoiceTransitions, InvoiceTransitions

(* While the books are right, an invoice that is not PAID has no Payment.     *)
LEMMA Unpaid ==
  ASSUME Ledger!PaidOnce, NEW i \in Invoices, status[i] # "PAID"
  PROVE  \A p \in payments : p.invoice # i
  BY DEF Ledger!PaidOnce

(* One Payment more, for an invoice that had none, is its one receipt.        *)
LEMMA FirstReceipt ==
  ASSUME NEW i \in Invoices, NEW r \in Payments, r.invoice = i,
         \A p \in payments : p.invoice # i, payments' = payments \cup {r}
  PROVE  Receipts[i] = {} /\ Receipts' = [Receipts EXCEPT ![i] = {r}]
  <1>1. Receipts[i] = {}
    BY DEF Receipts
  <1>2. ASSUME NEW j \in Invoices
        PROVE  {p \in payments' : p.invoice = j} = IF j = i THEN {r} ELSE {p \in payments : p.invoice = j}
    OBVIOUS
  <1> QED
    BY <1>1, <1>2 DEF Receipts

(* A commit of applyWebhookAtomic that read the current status.               *)
LEMMA CommitWebhookKeepsLedger ==
  ASSUME IInv, Ledger!PaidOnce, NEW h \in Handlers, CommitWebhook(h), ~OutOfDate(h)
  PROVE  Ledger!Next \/ UNCHANGED <<status, payments>>
  <1> USE DEF IInv, TypeOK
  <1>1. PICK i \in Invoices, e \in Events :
          /\ local[h].target = i /\ local[h].event = e
          /\ pc[h] = "webhookTx" /\ status[i] = local[h].seen
          /\ CanTransitionInvoice(status[i], e.status)
          /\ status[i] \in InvoiceStatuses
          /\ status' = [status EXCEPT ![i] = e.status]
    BY SettlementAssumption DEF CommitWebhook, OutOfDate, Targets, OpenTransactions
  <1>2. e.id \in EventIds \cup {None} /\ e.status \in InvoiceStatuses
    BY <1>1, SettlementAssumption DEF GatewayStatuses, InvoiceStatuses
  <1>3. CASE e.status = "PAID" /\ status[i] # "PAID"
    <2>1. PICK r \in Payments : r.invoice = i /\ payments' = payments \cup {r}
      <3>1. Payment(h, "gateway", e.id) \in Payments /\ Payment(h, "gateway", e.id).invoice = i
        BY <1>1, <1>2 DEF Payment, Payments
      <3>2. payments' = payments \cup {Payment(h, "gateway", e.id)}
        BY <1>1, <1>3 DEF CommitWebhook, ShouldRecordGatewayPayment
      <3> QED
        BY <3>1, <3>2
    <2>2. Receipts[i] = {} /\ Receipts' = [Receipts EXCEPT ![i] = {r}]
      BY <1>3, <2>1, Unpaid, FirstReceipt
    <2>3. Ledger!Settle(i, r)
      BY <1>1, <1>3, <2>2, SameStateMachine DEF Ledger!Settle, Receipts
    <2> QED
      BY <2>3 DEF Ledger!Next
  <1>4. CASE e.status = "PAID" /\ status[i] = "PAID"
    BY <1>1, <1>4 DEF CommitWebhook, ShouldRecordGatewayPayment
  <1>5. CASE e.status # "PAID"
    <2>1. payments' = payments
      BY <1>1, <1>5 DEF CommitWebhook, ShouldRecordGatewayPayment
    <2>2. Ledger!Move({i}, e.status)
      BY <1>1, <1>5, <2>1, SameStateMachine DEF Ledger!Move
    <2> QED
      BY <1>1, <1>2, <2>2, SameStateMachine DEF Ledger!Next
  <1> QED
    BY <1>3, <1>4, <1>5

(* A manual payment of an invoice that may still be paid.                     *)
LEMMA SettleManuallyKeepsLedger ==
  ASSUME IInv, Ledger!PaidOnce, NEW h \in Handlers, SettleManually(h), ~OutOfDate(h)
  PROVE  Ledger!Next
  <1> USE DEF IInv, TypeOK
  <1>1. PICK i \in Invoices, r \in Payments :
          /\ local[h].target = i /\ r = Payment(h, "manual", None)
          /\ status[i] \in InvoiceStatuses \ {"PAID"}
          /\ CanTransitionInvoice(status[i], "PAID")
          /\ status' = [status EXCEPT ![i] = "PAID"]
          /\ payments' = payments \cup {r}
    <2>1. local[h].target \in Invoices /\ pc[h] = "manual"
      BY DEF SettleManually, Targets
    <2>2. Payment(h, "manual", None) \in Payments
      BY <2>1 DEF Payment, Payments
    <2> QED
      BY <2>1, <2>2 DEF SettleManually, OutOfDate
  <1>2. r.invoice = i
    BY <1>1 DEF Payment
  <1>3. Receipts[i] = {} /\ Receipts' = [Receipts EXCEPT ![i] = {r}]
    BY <1>1, <1>2, Unpaid, FirstReceipt
  <1>4. Ledger!Settle(i, r)
    BY <1>1, <1>3, SameStateMachine DEF Ledger!Settle, Receipts
  <1> QED
    BY <1>4 DEF Ledger!Next

(* Reserving an invoice issues it; a reservation that is still PENDING is     *)
(* withdrawn, with no Payment to lose.                                        *)
LEMMA ReservationKeepsLedger ==
  ASSUME IInv, Ledger!PaidOnce, NEW h \in Handlers, ~OutOfDate(h),
         ChargeFails(h) \/ \E n \in Invoices : ReserveNewInvoice(h, n)
  PROVE  Ledger!Next
  <1> USE DEF IInv, TypeOK
  <1>1. ASSUME NEW n \in Invoices, ReserveNewInvoice(h, n) PROVE Ledger!Next
    <2>1. Ledger!Issue(n)
      BY <1>1 DEF ReserveNewInvoice, Ledger!Issue
    <2> QED
      BY <2>1 DEF Ledger!Next
  <1>2. CASE ChargeFails(h)
    <2> DEFINE n == local[h].reserved
    <2>1. n \in Invoices /\ status[n] = "PENDING"
      BY <1>2 DEF ChargeFails, OutOfDate, Reservations, Reserving
    <2>2. payments' = payments
      BY <1>2, <2>1, Unpaid DEF ChargeFails, DeleteInvoice
    <2>3. Ledger!Withdraw(n)
      BY <1>2, <2>1, <2>2 DEF ChargeFails, DeleteInvoice, Ledger!Withdraw
    <2> QED
      BY <2>1, <2>3 DEF Ledger!Next
  <1> QED
    BY <1>1, <1>2

(* A renegotiation that read the current status, and the sweep.               *)
LEMMA MovesKeepLedger ==
  ASSUME IInv,
         \/ \E h \in Handlers : CommitFinalize(h) /\ ~OutOfDate(h)
         \/ \E S \in SUBSET Invoices : MarkOverdue(S)
  PROVE  Ledger!Next
  <1> USE DEF IInv, TypeOK
  <1>1. ASSUME NEW h \in Handlers, CommitFinalize(h), ~OutOfDate(h) PROVE Ledger!Next
    <2> DEFINE i == local[h].target
    <2>1. /\ i \in Invoices /\ status[i] \in InvoiceStatuses
          /\ CanTransitionInvoice(status[i], "RENEGOTIATED")
          /\ status' = [status EXCEPT ![i] = "RENEGOTIATED"] /\ payments' = payments
      BY <1>1 DEF CommitFinalize, OutOfDate, Targets, Reserving, FinalizeRead
    <2>2. Ledger!Move({i}, "RENEGOTIATED")
      BY <2>1, SameStateMachine DEF Ledger!Move
    <2> QED
      BY <2>1, <2>2, SameStateMachine DEF Ledger!Next, InvoiceStatuses
  <1>2. ASSUME NEW S \in SUBSET Invoices, MarkOverdue(S) PROVE Ledger!Next
    <2>1. Ledger!Move(S, "OVERDUE")
      BY <1>2, SameStateMachine DEF MarkOverdue, Ledger!Move, CanTransitionInvoice, InvoiceTransitions, InvoiceStatuses
    <2> QED
      BY <2>1, SameStateMachine DEF Ledger!Next, InvoiceStatuses
  <1> QED
    BY <1>1, <1>2

(* A request that writes a table leaves the step it was suspended at.         *)
LEMMA WriterMovesOn ==
  ASSUME IInv, NEW h \in Handlers, TableWriter(h)
  PROVE  pc'[h] # pc[h]
  BY DEF IInv, TypeOK, TableWriter, CommitWebhook, CommitRefusedWebhook, AfterWebhook, SettleManually,
         ReserveNewInvoice, ChargeNewInvoice, ChargeFails, CommitFinalize, Suspend, Finish

(* However requests interleave, fail and are resent, the invoices and their   *)
(* payments move as the ledger promises, but for the write of a request whose *)
(* read is out of date.                                                       *)
THEOREM LedgerIsKept == Spec => LedgerKeptUnlessOutOfDate
  <1> DEFINE Kept == Ledger!PaidOnce =>
                       \/ Ledger!Next
                       \/ \E h \in Handlers : OutOfDate(h) /\ pc'[h] # pc[h]
  <1>1. Init => Ledger!Init
    BY DEF Init, Ledger!Init
  <1>2. IInv /\ [Next]_vars => [Kept]_<<status, payments>>
    <2> SUFFICES ASSUME IInv, [Next]_vars, Ledger!PaidOnce,
                        \A h \in Handlers : OutOfDate(h) => pc'[h] = pc[h]
                 PROVE  Ledger!Next \/ UNCHANGED <<status, payments>>
      OBVIOUS
    <2>1. CASE UNCHANGED tables
      BY <2>1 DEF tables
    <2>2. ASSUME NEW h \in Handlers, TableWriter(h)
          PROVE  Ledger!Next \/ UNCHANGED <<status, payments>>
      <3>1. ~OutOfDate(h)
        BY <2>2, WriterMovesOn
      <3>2. CASE CommitRefusedWebhook(h) \/ ChargeNewInvoice(h)
        BY <3>2 DEF CommitRefusedWebhook, ChargeNewInvoice
      <3> QED
        BY <2>2, <3>1, <3>2, CommitWebhookKeepsLedger, SettleManuallyKeepsLedger,
           ReservationKeepsLedger, MovesKeepLedger DEF TableWriter
    <2>3. ASSUME NEW S \in SUBSET Invoices, MarkOverdue(S) PROVE Ledger!Next
      BY <2>3, MovesKeepLedger
    <2> QED
      BY <2>1, <2>2, <2>3, TableSteps
  <1> QED
    BY Invariance, <1>1, <1>2, PTL DEF Spec, LedgerKeptUnlessOutOfDate
=============================================================================
