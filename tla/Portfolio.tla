----------------------------- MODULE Portfolio -----------------------------
(***************************************************************************)
(* All that a tenant has with one client, as the screens read it: invoices *)
(* and their dates, payments, the subscription, the link the payer opens   *)
(* and the page of agreements behind it, recovery cases, and the score of  *)
(* the radar, which is computed after a payment and in a daily sweep and   *)
(* stored: the only one of these views that can be out of date.            *)
(*                                                                         *)
(* What races within a payment, an agreement, a billing run or a case is   *)
(* in Settlement, Billing and Recovery: here each of them is one step, but *)
(* for the two writes of a billing run, between which a view may read.     *)
(***************************************************************************)
EXTENDS Rules, InvoiceStatus

CONSTANTS
  Instants,     \* bound: the times at which something is done, in ticks
  MaxInvoices,  \* bound: invoices the client ever has
  Past,         \* the invoices there are at first: a sequence of rows
  PastPayments, \* and the payments there were
  Typed,        \* amounts the owner may type, other than an invoice's value
  Plan,         \* the subscription at first
  FirstRules,   \* the owner's rules of negotiation at first
  RuleSets,     \* those the owner may change them to
  Month,        \* ticks of a month
  Followers,    \* follow-ups of payments at the same time
  MaxEvents,    \* bound: openings of the link, attempts to pay and recovery cases
  MaxChanges,   \* bound: changes of the rules and of the subscription, amounts that
                \* are typed, and payments and recomputations of the score that fail
  None          \* "no value"

Ids == 1 .. MaxInvoices
Sweep == "sweep"
Recomputers == Followers \cup {Sweep}
Types == {"discount", "installments", "defer"}
Cases == {"none", "active", "lost"}

NegotiationRules == [enabled : BOOLEAN, hesitationOpens : Nat, discountEnabled : BOOLEAN,
           discountPercent : 0 .. 100, installmentsEnabled : BOOLEAN,
           maxInstallments : Nat, deferEnabled : BOOLEAN, deferMaxDays : Nat,
           deferFeePercent : 0 .. 100]

Rows == [status : InvoiceStatuses, value : Nat, due : Int,
         recurring : BOOLEAN, opens : Nat, attempts : Nat, case : Cases]

SubscriptionRows == [status : {"ACTIVE", "STOPPED"}, amount : Nat, nextRunDate : Int,
                  discountPercent : 0 .. 100, discountUntil : Int]

AllTerms == [type : Types, finalValue : Nat, installments : Nat, installmentValue : Nat, due : Int]

Scores == [score : 0 .. 100, band : {"healthy", "watch", "at_risk"}, late10 : Nat]

Payments == [id : Ids, amount : Nat, paidAt : Int]

ASSUME PortfolioAssumption ==
  /\ Instants \subseteq Int /\ Instants # {} /\ IsFiniteSet(Instants)
  /\ MaxInvoices \in Nat
  /\ RuleSets \cup {FirstRules} \subseteq NegotiationRules
  /\ Past \in Seq(Rows) /\ Len(Past) <= MaxInvoices
  /\ \A i \in DOMAIN Past : Past[i].status = "OVERDUE" => \A t \in Instants : Past[i].due < t
  /\ PastPayments \in Seq(Payments)
  /\ Typed \subseteq Nat \ {0}
  /\ Plan \in SubscriptionRows
  /\ Month \in Nat \ {0}
  /\ {MaxEvents, MaxChanges} \subseteq Nat
  /\ Sweep \notin Followers

VARIABLES
  now,           \* the clock
  invoice,       \* Invoice rows, with the events and the case of each
  payments,      \* Payment rows, in the order of their dates
  clientSubscription, \* Subscription
  billed,        \* the run made the invoice of the month and did not advance it
  rules,         \* NegotiationSetting
  agreement,     \* Agreement of each original: its terms and its new invoice
  page,          \* what the payer's browser shows
  health,        \* ClientHealth
  recomputing, held, \* where each recomputation is, and the score it is to write
  changes

portfolioVars == <<now, invoice, payments, clientSubscription, billed, rules, agreement,
                   page, health, recomputing, held, changes>>

Absent == [status |-> "ABSENT", value |-> 0, due |-> 0, recurring |-> FALSE,
           opens |-> 0, attempts |-> 0, case |-> "none"]

NewRow(value, due, recurring) ==
  [Absent EXCEPT !.status = "PENDING", !.value = value, !.due = due, !.recurring = recurring]

InOrder(s, p) ==
  InsertAt(s, 1 + Cardinality({k \in DOMAIN s : s[k].paidAt <= p.paidAt}), p)

PortfolioTypeOK ==
  /\ now \in Instants
  /\ invoice \in [Ids -> Rows \cup {Absent}]
  /\ payments \in Seq(Payments)
  /\ clientSubscription \in SubscriptionRows
  /\ billed \in BOOLEAN
  /\ rules \in NegotiationRules
  /\ agreement \in [Ids -> {None} \cup [terms : AllTerms, new : Ids]]
  /\ page \in {None} \cup [id : Ids, at : Int, rules : NegotiationRules, options : SUBSET AllTerms]
  /\ health \in {None} \cup Scores
  /\ recomputing \in [Recomputers -> {"idle", "reading", "writing"}]
  /\ held \in [Recomputers -> {None} \cup Scores]
  /\ changes \in 0 .. MaxChanges

PortfolioInit ==
  /\ now = Min(Instants)
  /\ invoice = [i \in Ids |-> IF i \in DOMAIN Past THEN Past[i] ELSE Absent]
  /\ payments = PastPayments
  /\ clientSubscription = Plan
  /\ billed = FALSE
  /\ rules = FirstRules
  /\ agreement = [i \in Ids |-> None]
  /\ page = None
  /\ health = None
  /\ recomputing = [r \in Recomputers |-> "idle"]
  /\ held = [r \in Recomputers |-> None]
  /\ changes = 0

Exists(i) == invoice[i].status # "ABSENT"
IsOpen(i) == invoice[i].status \in Open
Free(i) == ~Exists(i) /\ \A j \in 1 .. i - 1 : Exists(j)

Total(Of(_)) == MapThenSumSet(Of, {i \in Ids : Exists(i)})

(* What the bound MaxEvents counts.                                          *)
Events == Total(LAMBDA i : invoice[i].opens + invoice[i].attempts
                           + (IF invoice[i].case = "none" THEN 0 ELSE 1))

-----------------------------------------------------------------------------
(* Time, and what others do to the invoices.                                 *)

Tick ==
  /\ \E t \in Instants : t > now
  /\ now' = Min({t \in Instants : t > now})
  /\ UNCHANGED <<invoice, payments, clientSubscription, billed, rules, agreement, page, health,
                 recomputing, held, changes>>

(* The sweep of statuses (markOverdue).                                      *)
MarkOverdue ==
  /\ \E i \in Ids : invoice[i].status = "PENDING" /\ invoice[i].due < now
  /\ invoice' = [i \in Ids |->
       [invoice[i] EXCEPT !.status = EffectiveInvoiceStatus(@, invoice[i].due, now)]]
  /\ UNCHANGED <<now, payments, clientSubscription, billed, rules, agreement, page, health,
                 recomputing, held, changes>>

(* Closing the case is best effort: it may fail.  A recovered case counts for *)
(* nothing here.                                                             *)
CaseClosed(c) == IF c = "active" THEN {"active", "none"} ELSE {c}

(* What the bound MaxChanges counts, if this is such a change.                 *)
CountedIf(change) ==
  /\ change => changes < MaxChanges
  /\ changes' = IF change THEN changes + 1 ELSE changes

(* A payment is recorded for a day that is today or has passed (the first      *)
(* instant stands for it), and its follow-up recomputes the score of the client *)
(* (it waits for a follow-up to be free: the bound of Followers).  An invoice   *)
(* whose payment has failed may still be paid.                               *)
Settle(i, amount, day) ==
  /\ invoice[i].status # "PAID" /\ CanTransitionInvoice(invoice[i].status, "PAID")
  /\ \E c \in CaseClosed(invoice[i].case), r \in Followers :
       /\ recomputing[r] = "idle"
       /\ invoice' = [invoice EXCEPT ![i].status = "PAID", ![i].case = c]
       /\ payments' = InOrder(payments, [id |-> i, amount |-> amount, paidAt |-> day])
       /\ recomputing' = [recomputing EXCEPT ![r] = "reading"]
  /\ CountedIf(amount # invoice[i].value)
  /\ UNCHANGED <<now, clientSubscription, billed, rules, agreement, page, health, held>>

Days == {Min(Instants), now}

(* The gateway confirms the value of the invoice.                             *)
ConfirmPayment(i) == \E day \in Days : Settle(i, invoice[i].value, day)

(* The owner records what came in: the value, or whatever he types.  The       *)
(* invoice is settled all the same.                                          *)
RegisterManual(i) == \E day \in Days, amount \in Typed \cup {invoice[i].value} : Settle(i, amount, day)

(* Any other news of the gateway: the payment failed, is tried again, or is     *)
(* late, which a gateway says of an invoice after its day.                    *)
GatewayNews(i, status) ==
  /\ status # invoice[i].status /\ CanTransitionInvoice(invoice[i].status, status)
  /\ status = "OVERDUE" => invoice[i].due < now
  /\ invoice' = [invoice EXCEPT ![i].status = status]
  /\ CountedIf(status = "FAILED")
  /\ UNCHANGED <<now, payments, clientSubscription, billed, rules, agreement, page, health,
                 recomputing, held>>

(* The recovery engine takes an overdue invoice, and gives up on it, even if  *)
(* it was paid since it looked.                                              *)
EnrollCase(i) ==
  /\ IsOpen(i) /\ invoice[i].due < now
  /\ invoice[i].case = "none" /\ Events < MaxEvents
  /\ invoice' = [invoice EXCEPT ![i].case = "active"]
  /\ UNCHANGED <<now, payments, clientSubscription, billed, rules, agreement, page, health,
                 recomputing, held, changes>>

LoseCase(i) ==
  /\ invoice[i].case = "active"
  /\ invoice' = [invoice EXCEPT ![i].case = "lost"]
  /\ UNCHANGED <<now, payments, clientSubscription, billed, rules, agreement, page, health,
                 recomputing, held, changes>>

-----------------------------------------------------------------------------
(* The subscription: a run bills the month that is due, then advances it.    *)

Amount(s) ==
  IF IsDiscountActive(s.discountUntil, s.nextRunDate)
  THEN ApplyDiscount(s.amount, s.discountPercent)
  ELSE s.amount

BillMonth ==
  /\ clientSubscription.status = "ACTIVE" /\ ~billed
  /\ clientSubscription.nextRunDate <= now
  /\ \E i \in Ids :
       /\ Free(i)
       /\ invoice' = [invoice EXCEPT
            ![i] = NewRow(Amount(clientSubscription), clientSubscription.nextRunDate, TRUE)]
  /\ billed' = TRUE
  /\ UNCHANGED <<now, payments, clientSubscription, rules, agreement, page, health,
                 recomputing, held, changes>>

AdvanceMonth ==
  /\ billed
  /\ billed' = FALSE
  /\ clientSubscription' = [clientSubscription EXCEPT !.nextRunDate = @ + Month]
  /\ UNCHANGED <<now, invoice, payments, rules, agreement, page, health,
                 recomputing, held, changes>>

ChangeSubscription ==
  /\ changes < MaxChanges
  /\ changes' = changes + 1
  /\ clientSubscription' = [clientSubscription EXCEPT
       !.status = IF @ = "ACTIVE" THEN "STOPPED" ELSE "ACTIVE"]
  /\ UNCHANGED <<now, invoice, payments, billed, rules, agreement, page, health,
                 recomputing, held>>

-----------------------------------------------------------------------------
(* The payer.                                                                *)

OpenLink(i) ==
  /\ Exists(i) /\ Events < MaxEvents
  /\ invoice' = [invoice EXCEPT ![i].opens = @ + 1]
  /\ UNCHANGED <<now, payments, clientSubscription, billed, rules, agreement, page, health,
                 recomputing, held, changes>>

PayAttempt(i) ==
  /\ Exists(i) /\ Events < MaxEvents
  /\ invoice' = [invoice EXCEPT ![i].attempts = @ + 1]
  /\ UNCHANGED <<now, payments, clientSubscription, billed, rules, agreement, page, health,
                 recomputing, held, changes>>

ReliefAvailable(i) ==
  /\ rules.enabled
  /\ IsOpen(i)
  /\ IsHesitating(invoice[i].opens, IF invoice[i].status = "PAID" THEN 1 ELSE 0,
                  rules.hesitationOpens)
  /\ agreement[i] = None

(* getOptions: the page stays in the browser while days pass.  Without an     *)
(* offer there is nothing on it that matters here.                           *)
GetOptions(i) ==
  /\ Exists(i)
  /\ page' = IF ReliefAvailable(i)
             THEN [id |-> i, at |-> now, rules |-> rules,
                   options |-> ComputeOptions(rules, invoice[i].value, now)]
             ELSE None
  /\ UNCHANGED <<now, invoice, payments, clientSubscription, billed, rules, agreement, health,
                 recomputing, held, changes>>

(* accept: it asks neither what the page showed nor whether the payer         *)
(* hesitates.  An agreement there is is answered as it is.  The number of     *)
(* installments is the payer's, or the owner's maximum.  The browser goes to  *)
(* the new charge.                                                           *)
Accept(i, type, n) ==
  /\ agreement[i] = None
  /\ IsOpen(i)
  /\ \E t \in ComputeTerms(rules, invoice[i].value, type, n, now),
        j \in Ids, c \in CaseClosed(invoice[i].case) :
       /\ Free(j)
       /\ invoice' = [invoice EXCEPT ![i].status = "RENEGOTIATED", ![i].case = c,
                                     ![j] = NewRow(t.finalValue, t.due, FALSE)]
       /\ agreement' = [agreement EXCEPT ![i] = [terms |-> t, new |-> j]]
  /\ page' = None
  /\ UNCHANGED <<now, payments, clientSubscription, billed, rules, health,
                 recomputing, held, changes>>

UpdateRules ==
  /\ changes < MaxChanges
  /\ changes' = changes + 1
  /\ rules' \in RuleSets \ {rules}
  /\ UNCHANGED <<now, invoice, payments, clientSubscription, billed, agreement, page, health,
                 recomputing, held>>

-----------------------------------------------------------------------------
(* The score.                                                                *)

Overdue(t) == {i \in Ids : IsOpen(i) /\ invoice[i].due < t}

(* aggregateInputs at a time.                                                *)
AggregateInputs(t) ==
  LET Late(p) == Max({0, DaysFrom(invoice[p.id].due, p.paidAt)})
  IN  [paidDaysLate |-> [k \in DOMAIN payments |-> Late(payments[k])],
       openOverdueCount |-> Cardinality(Overdue(t)),
       maxDaysOverdue |-> Max({0} \cup {DaysFrom(invoice[i].due, t) : i \in Overdue(t)}),
       missedRecurring |-> Cardinality({i \in Overdue(t) : invoice[i].recurring}),
       opens |-> Total(LAMBDA i : invoice[i].opens),
       paysOrAttempts |-> Total(LAMBDA i : invoice[i].attempts) + Len(payments),
       lostCases |-> Cardinality({i \in Ids : invoice[i].case = "lost"})]

Read(r) ==
  /\ \E inputs \in {AggregateInputs(now)} :
       held' = [held EXCEPT ![r] = ComputeHealth(inputs)]
  /\ recomputing' = [recomputing EXCEPT ![r] = "writing"]
  /\ UNCHANGED <<now, invoice, payments, clientSubscription, billed, rules, agreement, page,
                 health, changes>>

(* Mutant of StartSweep: a client that has a score keeps it.                  *)
SweepUnscored ==
  /\ recomputing[Sweep] = "idle" /\ health = None
  /\ Read(Sweep)

StartSweep ==
  /\ recomputing[Sweep] = "idle"
  /\ Read(Sweep)

FollowUp(r) ==
  /\ recomputing[r] = "reading"
  /\ Read(r)

UpsertHealth(r) ==
  /\ recomputing[r] = "writing"
  /\ health' = held[r]
  /\ recomputing' = [recomputing EXCEPT ![r] = "idle"]
  /\ held' = [held EXCEPT ![r] = None]
  /\ UNCHANGED <<now, invoice, payments, clientSubscription, billed, rules, agreement, page,
                 changes>>

(* It throws, and is forgotten: the sweep goes on with the next tenant, the   *)
(* payment is not disturbed.                                                 *)
RecomputeFails(r) ==
  /\ recomputing[r] # "idle" /\ changes < MaxChanges
  /\ changes' = changes + 1
  /\ recomputing' = [recomputing EXCEPT ![r] = "idle"]
  /\ held' = [held EXCEPT ![r] = None]
  /\ UNCHANGED <<now, invoice, payments, clientSubscription, billed, rules, agreement, page,
                 health>>

-----------------------------------------------------------------------------
(* The screens.                                                              *)

(* findOpenInvoices, and with the client's band and an active case            *)
(* findActionCandidates.                                                     *)
OpenInvoices ==
  {[id |-> i, value |-> invoice[i].value, due |-> invoice[i].due] :
     i \in {j \in Ids : IsOpen(j)}}

(* What the list of invoices, and the page of one, show as overdue.           *)
ShownOverdue ==
  {i \in OpenInvoices : EffectiveInvoiceStatus(invoice[i.id].status, i.due, now) = "OVERDUE"}

BandNow == IF health = None THEN "none" ELSE health.band

ActionCandidates ==
  {[id |-> i.id, value |-> i.value, due |-> i.due, band |-> BandNow,
    hasCase |-> invoice[i.id].case = "active"] : i \in OpenInvoices}

SumReceivedSince(since) ==
  MapThenSumSet(LAMBDA k : payments[k].amount,
                {k \in DOMAIN payments : payments[k].paidAt >= since})

SumRecoveredSince(since) ==
  MapThenSumSet(LAMBDA k : payments[k].amount,
                {k \in DOMAIN payments : /\ payments[k].paidAt >= since
                                         /\ payments[k].paidAt > invoice[payments[k].id].due})

CountByStatus(status) == Cardinality({i \in Ids : invoice[i].status = status})

(* The threshold is a constant of the code, not the owner's.                  *)
Hesitating(threshold) == {i \in Ids : IsOpen(i) /\ invoice[i].opens >= threshold}

Overview(days) ==
  [kpis |-> SummarizeOpenInvoices(OpenInvoices, now),
   received |-> SumReceivedSince(now - days * DAY),
   recovered |-> SumRecoveredSince(now - days * DAY),
   paid |-> CountByStatus("PAID"),
   week |-> DueWithinDays(OpenInvoices, now, 7),
   hesitating |-> Hesitating(3)]

(* findInputs: open invoices, and the next month of an active subscription.   *)
ForecastInputs(until) ==
  LET late10 == IF health = None THEN 0 ELSE health.late10
      Item(id, amount, due) ==
        [id |-> id, amount |-> amount, due |-> due, band |-> BandNow, late10 |-> late10]
  IN  {Item(i.id, i.value, i.due) : i \in {j \in OpenInvoices : j.due < until}}
      \cup (IF /\ clientSubscription.status = "ACTIVE"
               /\ clientSubscription.nextRunDate >= now
               /\ clientSubscription.nextRunDate < until
            THEN {Item(0, Amount(clientSubscription), clientSubscription.nextRunDate)}
            ELSE {})

Forecast(days) == ProjectCashflow(ForecastInputs(now + days * DAY), now, days)

-----------------------------------------------------------------------------
ClientStep(i) ==
  \/ ConfirmPayment(i)
  \/ RegisterManual(i)
  \/ \E status \in {"FAILED", "PENDING", "OVERDUE"} : GatewayNews(i, status)
  \/ EnrollCase(i)
  \/ LoseCase(i)
  \/ OpenLink(i)
  \/ PayAttempt(i)
  \/ GetOptions(i)
  \/ \E type \in Types, n \in 1 .. rules.maxInstallments : Accept(i, type, n)

Recompute(r) == FollowUp(r) \/ UpsertHealth(r) \/ RecomputeFails(r)

PortfolioNext ==
  \/ Tick
  \/ MarkOverdue
  \/ BillMonth
  \/ AdvanceMonth
  \/ ChangeSubscription
  \/ UpdateRules
  \/ StartSweep
  \/ \E i \in Ids : ClientStep(i)
  \/ \E r \in Recomputers : Recompute(r)

PortfolioSpec == PortfolioInit /\ [][PortfolioNext]_portfolioVars

(* The sweep is run every day by the cron, and a recomputation that runs goes *)
(* on until it ends.                                                         *)
PortfolioFairSpec ==
  /\ PortfolioSpec
  /\ WF_portfolioVars(StartSweep \/ UpsertHealth(Sweep))
  /\ \A r \in Followers : WF_portfolioVars(FollowUp(r) \/ UpsertHealth(r))
=============================================================================
