------------------------------ MODULE Billing ------------------------------
(***************************************************************************)
(* How charges come to be.  A run bills the subscriptions of a tenant that *)
(* are due, one month of each (SubscriptionService.run, started by a job   *)
(* of the billing queue or by the owner); requests charge a client once    *)
(* (createPayment, also for each line of an import) or sell an offer at    *)
(* the checkout (acceptOffer).                                             *)
(*                                                                         *)
(* Each follows the same protocol: reserve the client's referral credit,   *)
(* create the invoice, create the charge at the gateway, attach it; undo   *)
(* what was done when the charge is refused.  Every await is a step of its *)
(* own, at which others come in, and the process may die.                  *)
(*                                                                         *)
(* subscription.service.ts, invoice.service.ts, referral.service.ts,       *)
(* offer.service.ts, billing.worker.ts and their repositories.             *)
(***************************************************************************)
EXTENDS Integers, FiniteSets

CONSTANTS
  Clients,
  Subscriptions,
  Runs,           \* processes that may run the billing of the tenant
  Requests,       \* one-time charges
  PayerOf,        \* the client of each subscription and request
  Gross,          \* what each costs, in units of credit
  Referrals,      \* Referral rows: records of a referrer and a referred client
  Reward,         \* rewardCents
  LastMonth,      \* bound: months that pass
  MaxRefusals,    \* bound: charges the gateway refuses
  MaxFailures     \* bound: failed calls of the database or deaths of a process

Months == 1 .. LastMonth
Processes == Runs \cup Requests

(* An invoice of a subscription is known by its month (@@unique              *)
(* [subscriptionId, period]), another one by its request.                    *)
Keys == (Subscriptions \X Months) \cup (Requests \X {0})

ASSUME BillingAssumption ==
  /\ Runs \cap Requests = {}
  /\ Subscriptions \cap Requests = {}
  /\ "none" \notin Requests
  /\ PayerOf \in [Subscriptions \cup Requests -> Clients]
  /\ Gross \in [Subscriptions \cup Requests -> Nat \ {0}]
  /\ Referrals \subseteq [referrer : Clients, referred : Clients]
  /\ Reward \in Nat
  /\ LastMonth \in Nat \ {0}
  /\ MaxRefusals \in Nat
  /\ MaxFailures \in Nat

VARIABLES
  month,         \* the current one
  subscription,  \* status and nextRunDate of each
  invoices,      \* Invoice rows
  discount,      \* the credit each of them takes off ('Crédito indicação')
  attached,      \* those with a gatewayId
  charges,       \* charges at the gateway for each invoice that ever was
  credit,        \* Client.referralCreditCents
  converted,     \* Referral rows that are 'converted'
  pc, local,     \* the await each process is at, and what it holds in memory
  refusals, failures,
  uncharged      \* ghost: invoices whose charge was refused, or not answered for

tables == <<subscription, invoices, discount, attached, credit, converted>>
counters == <<refusals, failures, uncharged>>
vars == <<month, tables, charges, pc, local, counters>>

(* PAUSED and CANCELED are one: no run looks at either.                        *)
Statuses == {"ACTIVE", "STOPPED"}

Resting == {"idle", "done"}
Labels == Resting \cup {"finding", "planning", "reserving", "creating", "charging", "undoing",
                        "undone", "beaten", "attaching", "advancing"}

NoKey == <<"none", 0>>

(* due: the months of subscriptions still to bill, as findDueActive returned  *)
(* them; key: the invoice being made; plan, reserved: credit to take off it.  *)
Fresh == [due |-> {}, key |-> NoKey, plan |-> 0, reserved |-> 0]

TypeOK ==
  /\ month \in Months
  /\ subscription \in [Subscriptions -> [status : Statuses,
                                         next : 1 .. LastMonth + 1]]
  /\ invoices \subseteq Keys
  /\ attached \subseteq Keys
  /\ discount \in [Keys -> Nat]
  /\ charges \in [Keys -> Nat]
  /\ credit \in [Clients -> Nat]
  /\ converted \subseteq Referrals
  /\ pc \in [Processes -> Labels]
  /\ local \in [Processes -> [due : SUBSET (Subscriptions \X Months), key : Keys \cup {NoKey},
                              plan : Nat, reserved : Nat]]
  /\ refusals \in 0 .. MaxRefusals
  /\ failures \in 0 .. MaxFailures
  /\ uncharged \subseteq Keys

Init ==
  /\ month = 1
  /\ subscription = [s \in Subscriptions |-> [status |-> "ACTIVE", next |-> 1]]
  /\ invoices = {}
  /\ attached = {}
  /\ discount = [k \in Keys |-> 0]
  /\ charges = [k \in Keys |-> 0]
  /\ credit = [c \in Clients |-> 0]
  /\ converted = {}
  /\ pc = [p \in Processes |-> "idle"]
  /\ local = [p \in Processes |-> Fresh]
  /\ refusals = 0
  /\ failures = 0
  /\ uncharged = {}

Client(k) == PayerOf[k[1]]

Goto(p, label) == pc' = [pc EXCEPT ![p] = label]

(* The invoice is made, by this process or another: a run advances the         *)
(* subscription, a request is answered.                                        *)
Made(p) ==
  IF p \in Runs
  THEN /\ Goto(p, "advancing")
       /\ local' = [local EXCEPT ![p].reserved = 0]
  ELSE /\ Goto(p, "done")
       /\ local' = [local EXCEPT ![p] = Fresh]

(* The process throws, and a request is answered with an error.  The job of a  *)
(* run is redelivered, or dead-lettered (see Delivery): what comes is one more *)
(* run, today or tomorrow.                                                     *)
Throw(p) ==
  /\ Goto(p, IF p \in Runs THEN "idle" ELSE "done")
  /\ local' = [local EXCEPT ![p] = Fresh]

-----------------------------------------------------------------------------
(* Starting.                                                                   *)

(* findDueActive.                                                              *)
Due == {k \in Subscriptions \X Months : /\ subscription[k[1]].status = "ACTIVE"
                                        /\ subscription[k[1]].next = k[2]
                                        /\ k[2] <= month}

(* A job of the billing queue is delivered (the cron publishes one a day), or  *)
(* the owner calls /subscriptions/run.  Without anything due it is over.       *)
StartRun(r) ==
  /\ pc[r] = "idle"
  /\ Due # {}
  /\ Goto(r, "finding")
  /\ local' = [local EXCEPT ![r].due = Due]
  /\ UNCHANGED <<month, tables, charges, counters>>

(* Mutant of FindInvoice: a month that has its invoice is passed over.         *)
PassOverInvoice(r, k) ==
  /\ pc[r] = "finding"
  /\ k \in local[r].due
  /\ local' = [local EXCEPT ![r] = [Fresh EXCEPT !.due = local[r].due \ {k}, !.key = k]]
  /\ Goto(r, IF k \notin invoices THEN "planning"
             ELSE IF local[r].due = {k} THEN "idle" ELSE "finding")
  /\ UNCHANGED <<month, tables, charges, counters>>

(* findBySubscriptionPeriod, for the next subscription of the loop.            *)
FindInvoice(r, k) ==
  /\ pc[r] = "finding"
  /\ k \in local[r].due
  /\ local' = [local EXCEPT ![r] = [Fresh EXCEPT !.due = local[r].due \ {k}, !.key = k]]
  /\ Goto(r, IF k \in invoices THEN "advancing" ELSE "planning")
  /\ UNCHANGED <<month, tables, charges, counters>>

Request(q, first) ==
  /\ pc[q] = "idle"
  /\ Goto(q, first)
  /\ local' = [local EXCEPT ![q].key = <<q, 0>>]
  /\ UNCHANGED <<month, tables, charges, counters>>

CreatePayment(q) == Request(q, "planning")

(* An add-on takes no credit.                                                  *)
AcceptOffer(q) == Request(q, "creating")

-----------------------------------------------------------------------------
(* The protocol of a charge.                                                   *)

(* netAfterCredit, and no discount that leaves nothing to pay.                 *)
Usable(gross, available) == IF available < gross THEN available ELSE 0

(* planReferralCredit reads the credit.                                        *)
PlanCredit(p) ==
  LET used == Usable(Gross[local[p].key[1]], credit[Client(local[p].key)]) IN
  /\ pc[p] = "planning"
  /\ local' = [local EXCEPT ![p].plan = used]
  /\ Goto(p, IF used = 0 THEN "creating" ELSE "reserving")
  /\ UNCHANGED <<month, tables, charges, counters>>

Reserve(p, debit, reserved) ==
  /\ pc[p] = "reserving"
  /\ credit' = [credit EXCEPT ![Client(local[p].key)] = @ - debit]
  /\ local' = [local EXCEPT ![p].plan = 0, ![p].reserved = reserved]
  /\ Goto(p, "creating")
  /\ UNCHANGED <<month, subscription, invoices, discount, attached, converted, charges, counters>>

Covered(p) == credit[Client(local[p].key)] >= local[p].plan

(* tryReserveCredit: debits if the balance still covers the plan; otherwise    *)
(* the client is charged in full.                                              *)
ReserveCredit(p) ==
  LET reserved == IF Covered(p) THEN local[p].plan ELSE 0 IN Reserve(p, reserved, reserved)

Create(p, taken) ==
  LET k == local[p].key IN
  /\ pc[p] = "creating"
  /\ \/ /\ k \in invoices
        /\ taken
        /\ UNCHANGED <<invoices, discount>>
     \/ /\ k \notin invoices
        /\ invoices' = invoices \cup {k}
        /\ discount' = [discount EXCEPT ![k] = local[p].reserved]
        /\ Goto(p, "charging")
        /\ UNCHANGED local
  /\ UNCHANGED <<month, subscription, attached, credit, converted, charges, counters>>

(* Mutants of CreateInvoice: who loses the race keeps the credit; charges too. *)
CreateWithoutRefund(p) == Create(p, Made(p))
CreateNotUnique(p) == Create(p, Goto(p, "charging") /\ UNCHANGED local)

(* create: when another run has made the invoice of the month (P2002), the     *)
(* reserved credit goes back and the run goes on.                              *)
CreateInvoice(p) ==
  Create(p, IF local[p].reserved > 0 THEN Goto(p, "beaten") /\ UNCHANGED local ELSE Made(p))

(* createCharge answers.                                                       *)
CreateCharge(p) ==
  /\ pc[p] = "charging"
  /\ charges' = [charges EXCEPT ![local[p].key] = @ + 1]
  /\ Goto(p, "attaching")
  /\ UNCHANGED <<month, tables, local, counters>>

(* createCharge throws.                                                        *)
ChargeThrows(p) ==
  /\ Goto(p, "undoing")
  /\ uncharged' = uncharged \cup {local[p].key}

(* The gateway refuses, and there is no charge.                                *)
RefuseCharge(p) ==
  /\ pc[p] = "charging"
  /\ refusals < MaxRefusals
  /\ refusals' = refusals + 1
  /\ ChargeThrows(p)
  /\ UNCHANGED <<month, tables, charges, local, failures>>

(* attachCharge.                                                               *)
AttachCharge(p) ==
  /\ pc[p] = "attaching"
  /\ attached' = attached \cup {local[p].key}
  /\ Made(p)
  /\ UNCHANGED <<month, subscription, invoices, discount, credit, converted, charges,
                 counters>>

(* After an invoice that was undone, or not created: the credit goes back if   *)
(* there is any, and the process throws.                                       *)
Undone(p) ==
  IF local[p].reserved > 0
  THEN Goto(p, "undone") /\ UNCHANGED <<local>>
  ELSE Throw(p)

(* deleteById.                                                                 *)
DeleteInvoice(p) ==
  /\ pc[p] = "undoing"
  /\ invoices' = invoices \ {local[p].key}
  /\ discount' = [discount EXCEPT ![local[p].key] = 0]
  /\ Undone(p)
  /\ UNCHANGED <<month, subscription, attached, credit, converted, charges, counters>>

(* refundCredit, after which the error is thrown, or the run goes on.          *)
RefundCredit(p) ==
  /\ pc[p] \in {"undone", "beaten"}
  /\ credit' = [credit EXCEPT ![Client(local[p].key)] = @ + local[p].reserved]
  /\ IF pc[p] = "undone" THEN Throw(p)
     ELSE Made(p)
  /\ UNCHANGED <<month, subscription, invoices, discount, attached, converted, charges, counters>>

Advance(r, next) ==
  /\ pc[r] = "advancing"
  /\ subscription' = [subscription EXCEPT ![local[r].key[1]].next = next]
  /\ Goto(r, IF local[r].due = {} THEN "idle" ELSE "finding")
  /\ local' = [local EXCEPT ![r] = [Fresh EXCEPT !.due = local[r].due]]
  /\ UNCHANGED <<month, invoices, discount, attached, credit, converted, charges, counters>>

(* Mutant of SetNextRun: the month is counted up in the database.              *)
CountUpNextRun(r) ==
  LET now == subscription[local[r].key[1]].next IN
  Advance(r, IF now > LastMonth THEN now ELSE now + 1)

(* setNextRun: the month after the one the run had read.                       *)
SetNextRun(r) == Advance(r, local[r].key[2] + 1)

-----------------------------------------------------------------------------
(* Failures.                                                                   *)

Counted == failures < MaxFailures /\ failures' = failures + 1 /\ UNCHANGED refusals

Failing == Counted /\ UNCHANGED uncharged

(* A failure to read or to debit the credit is caught: no discount.            *)
CreditUnavailable(p) ==
  /\ pc[p] \in {"planning", "reserving"}
  /\ Failing
  /\ Goto(p, "creating")
  /\ local' = [local EXCEPT ![p].plan = 0]
  /\ UNCHANGED <<month, tables, charges>>

(* createForSubscription gives the credit back when create throws;             *)
(* createPayment does not (Die).                                               *)
CreateFails(p) ==
  /\ pc[p] = "creating"
  /\ p \in Runs
  /\ local[p].reserved > 0
  /\ Failing
  /\ Goto(p, "undone")
  /\ UNCHANGED <<month, tables, charges, local>>

(* The gateway has made the charge but its answer is lost.                     *)
AnswerLost(p) ==
  /\ pc[p] = "charging"
  /\ Counted
  /\ charges' = [charges EXCEPT ![local[p].key] = @ + 1]
  /\ ChargeThrows(p)
  /\ UNCHANGED <<month, tables, local>>

(* A failure to undo is swallowed.                                             *)
DeleteFails(p) ==
  /\ pc[p] = "undoing"
  /\ Failing
  /\ Undone(p)
  /\ UNCHANGED <<month, tables, charges>>

RefundFails(p) ==
  /\ pc[p] = "beaten"
  /\ Failing
  /\ Made(p)
  /\ UNCHANGED <<month, tables, charges>>

(* Any other await throws, or the process dies at any of them.                 *)
Die(p) ==
  /\ pc[p] \notin Resting
  /\ Failing
  /\ Throw(p)
  /\ UNCHANGED <<month, tables, charges>>

-----------------------------------------------------------------------------
(* The rest of the world.                                                      *)

(* PUT /subscriptions/:id, and the outcome of a cancellation request.          *)
SetStatus(s, status) ==
  /\ subscription[s].status # status
  /\ subscription' = [subscription EXCEPT ![s].status = status]
  /\ UNCHANGED <<month, invoices, discount, attached, credit, converted, charges, pc, local, counters>>

(* convertAndCredit: the referred client has paid; both are rewarded.          *)
Convert(f) ==
  /\ f \notin converted
  /\ converted' = converted \cup {f}
  /\ credit' = [c \in Clients |-> IF c \in {f.referrer, f.referred} THEN credit[c] + Reward
                                  ELSE credit[c]]
  /\ UNCHANGED <<month, subscription, invoices, discount, attached, charges, pc, local, counters>>

NextMonth ==
  /\ month < LastMonth
  /\ month' = month + 1
  /\ UNCHANGED <<tables, charges, pc, local, counters>>

-----------------------------------------------------------------------------
RunStep(r) ==
  \/ \E k \in local[r].due : FindInvoice(r, k)
  \/ SetNextRun(r)

ChargeStep(p) ==
  \/ PlanCredit(p) \/ ReserveCredit(p) \/ CreateInvoice(p)
  \/ CreateCharge(p) \/ RefuseCharge(p) \/ AttachCharge(p)
  \/ DeleteInvoice(p) \/ RefundCredit(p)

Failure(p) ==
  \/ CreditUnavailable(p) \/ CreateFails(p) \/ AnswerLost(p) \/ DeleteFails(p) \/ RefundFails(p)
  \/ Die(p)

Next ==
  \/ \E r \in Runs : StartRun(r) \/ RunStep(r)
  \/ \E q \in Requests : CreatePayment(q) \/ AcceptOffer(q)
  \/ \E p \in Processes : ChargeStep(p) \/ Failure(p)
  \/ \E s \in Subscriptions, status \in Statuses : SetStatus(s, status)
  \/ \E f \in Referrals : Convert(f)
  \/ NextMonth

Spec == Init /\ [][Next]_vars

(* The cron triggers a run every day, and a process that does not die goes on. *)
(* The gateway owes no charge, but refuses only MaxRefusals of them.           *)
FairSpec ==
  /\ Spec
  /\ WF_vars(\E r \in Runs : StartRun(r))
  /\ \A r \in Runs : WF_vars(RunStep(r))
  /\ \A p \in Processes : WF_vars(ChargeStep(p))

=============================================================================
