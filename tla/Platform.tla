------------------------------ MODULE Platform ------------------------------
(***************************************************************************)
(* What a tenant pays the platform for, and what it may do in return: the  *)
(* subscription of one tenant, its bills, the trial, the plan the          *)
(* administrators may give it, and the seats of its team.                  *)
(*                                                                         *)
(* platform-subscription.service.ts, team.service.ts, admin.service.ts,    *)
(* domain/plans.ts and their repositories.                                 *)
(***************************************************************************)
EXTENDS Integers, FiniteSets

CONSTANTS
  Bills,      \* PlatformInvoice rows
  Requests,   \* HTTP requests that read before they write, and sweeps
  Month,      \* days of a paid period
  TrialDays,  \* TRIAL_DAYS
  LastDay     \* bound: days that pass

ASSUME PlatformAssumption ==
  /\ Month \in Nat \ {0} /\ TrialDays \in Nat /\ LastDay \in Nat \ {0}
  /\ IsFiniteSet(Requests)

VARIABLES
  today,
  sub,        \* PlatformSubscription of the tenant
  suspended,  \* Account.status is SUSPENDED
  bill,       \* the PlatformInvoice rows
  paidOn,     \* the day each was paid at the gateway
  granted,    \* the day on which an administrator last gave each plan
  users,      \* how many the tenant has
  request     \* what each request holds in memory

vars == <<today, sub, suspended, bill, paidOn, granted, users, request>>

Plans == {"free", "essencial", "pro"}
PaidPlans == Plans \ {"free"}
Seats == [free |-> 1, essencial |-> 2, pro |-> 3]

(* No date. Days begin at 1.                                                 *)
Null == 0
Days == 1 .. LastDay
Dates == 0 .. LastDay + Month + TrialDays

Subscriptions == [plan : Plans, status : {"trialing", "active", "past_due"},
                  trialEndsAt : Dates, currentPeriodEnd : Dates]
NoBill == [status |-> "none", plan |-> "free", paidAt |-> Null]
BillRows == {NoBill} \cup [status : {"PENDING", "PAID"}, plan : PaidPlans, paidAt : {Null} \cup Days]

(* createAccountWithOwner.                                                   *)
NewAccount == [plan |-> "pro", status |-> "trialing", trialEndsAt |-> 1 + TrialDays,
               currentPeriodEnd |-> Null]
Idle == [op |-> "idle"]

(* seen: the subscription as the sweep found it.                             *)
Pending == {Idle, [op |-> "inviting"]}
             \cup [op : {"confirming"}, bill : Bills]
             \cup [op : {"renewing"}, seen : Subscriptions]

TypeOK ==
  /\ today \in Days
  /\ sub \in Subscriptions
  /\ suspended \in BOOLEAN
  /\ bill \in [Bills -> BillRows]
  /\ paidOn \in [Bills -> {Null} \cup Days]
  /\ granted \in [PaidPlans -> {Null} \cup Days]
  /\ users \in Nat
  /\ request \in [Requests -> Pending]

Init ==
  /\ today = 1
  /\ sub = NewAccount
  /\ suspended = FALSE
  /\ bill = [b \in Bills |-> NoBill]
  /\ paidOn = [b \in Bills |-> Null]
  /\ granted = [plan \in PaidPlans |-> Null]
  /\ users = 1
  /\ request = [r \in Requests |-> Idle]

-----------------------------------------------------------------------------
(* What the tenant may do: resolveEntitlements.                              *)

ReadOnly == [plan |-> "free", canWrite |-> FALSE]
Full(plan) == [plan |-> plan, canWrite |-> TRUE]

Entitlements ==
  CASE suspended -> ReadOnly
    [] ~suspended /\ sub.status = "trialing" /\ today < sub.trialEndsAt -> Full("pro")
    [] ~suspended /\ sub.status = "active" /\ sub.plan = "free" -> Full("free")
    [] ~suspended /\ sub.status = "active" /\ sub.plan # "free" /\ today < sub.currentPeriodEnd ->
         Full(sub.plan)
    [] OTHER -> ReadOnly

nextPeriodEnd(from) == from + Month

-----------------------------------------------------------------------------
(* Bills: checkout, and its confirmation by the webhook of the gateway.      *)

CheckoutFree ==
  /\ sub' = [sub EXCEPT !.plan = "free", !.status = "active", !.currentPeriodEnd = Null]
  /\ UNCHANGED <<today, suspended, bill, paidOn, granted, users, request>>

(* A charge without a row, when the process dies in between, is never shown  *)
(* to anybody.                                                               *)
Checkout(b, plan) ==
  /\ bill[b] = NoBill
  /\ bill' = [bill EXCEPT ![b] = [status |-> "PENDING", plan |-> plan, paidAt |-> Null]]
  /\ UNCHANGED <<today, sub, suspended, paidOn, granted, users, request>>

Pay(b) ==
  /\ bill[b].status = "PENDING"
  /\ paidOn[b] = Null
  /\ paidOn' = [paidOn EXCEPT ![b] = today]
  /\ UNCHANGED <<today, sub, suspended, bill, granted, users, request>>

Hold(r, what) ==
  /\ request[r] = Idle
  /\ request' = [request EXCEPT ![r] = what]
  /\ UNCHANGED <<today, sub, suspended, bill, paidOn, granted, users>>

(* findByGatewayId and the first read of confirmPaidAtomic, for one of many  *)
(* deliveries, on the day of the payment or later; PAID is a duplicate.      *)
ReadBill(r, b) ==
  /\ paidOn[b] # Null
  /\ bill[b].status # "PAID"
  /\ Hold(r, [op |-> "confirming", bill |-> b])

ConfirmAt(r, at, from) ==
  /\ request[r].op = "confirming"
  /\ LET b == request[r].bill IN
       /\ bill' = [bill EXCEPT ![b].status = "PAID", ![b].paidAt = at]
       /\ sub' = [sub EXCEPT !.plan = bill[b].plan, !.status = "active",
                             !.currentPeriodEnd = nextPeriodEnd(from)]
  /\ request' = [request EXCEPT ![r] = Idle]
  /\ UNCHANGED <<today, suspended, paidOn, granted, users>>

(* Mutant of Confirm: the period begins when the confirmation arrives.       *)
ConfirmLate(r) ==
  \E b \in Bills : request[r] = [op |-> "confirming", bill |-> b] /\ ConfirmAt(r, paidOn[b], today)

(* Some gateways say when the bill was paid, and for others it is now.       *)
Confirm(r) ==
  \/ ConfirmAt(r, today, today)
  \/ \E b \in Bills : request[r] = [op |-> "confirming", bill |-> b] /\ ConfirmAt(r, paidOn[b], paidOn[b])

-----------------------------------------------------------------------------
(* runRenewals.                                                              *)

(* Mutant of Due: the end of the trial counts for whoever has paid.          *)
DueAfterTrial(s, now) ==
  \/ s.trialEndsAt <= now /\ s.status # "past_due"
  \/ s.status = "active" /\ s.plan # "free" /\ s.currentPeriodEnd \in 1 .. now

(* findDueForRenewal.                                                        *)
Due(s, now) ==
  \/ s.status = "trialing" /\ s.trialEndsAt <= now
  \/ s.status = "active" /\ s.plan # "free" /\ s.currentPeriodEnd \in 1 .. now

FindDueForRenewal(r) ==
  /\ Due(sub, today)
  /\ Hold(r, [op |-> "renewing", seen |-> sub])

(* update, which tests nothing again.                                        *)
MarkPastDue(r) ==
  /\ request[r].op = "renewing"
  /\ sub' = [sub EXCEPT !.status = "past_due"]
  /\ request' = [request EXCEPT ![r] = Idle]
  /\ UNCHANGED <<today, suspended, bill, paidOn, granted, users>>

-----------------------------------------------------------------------------
(* The administrators of the platform.                                       *)

SetAccountStatus ==
  /\ suspended' = ~suspended
  /\ UNCHANGED <<today, sub, bill, paidOn, granted, users, request>>

ChangePlan(plan) ==
  /\ sub' = [sub EXCEPT !.plan = plan, !.status = "active",
               !.currentPeriodEnd = IF plan \in PaidPlans THEN nextPeriodEnd(today) ELSE Null]
  /\ granted' = [p \in PaidPlans |-> IF p = plan THEN today ELSE granted[p]]
  /\ UNCHANGED <<today, suspended, bill, paidOn, users, request>>

-----------------------------------------------------------------------------
(* The team.                                                                 *)

InviteIf(r, free) ==
  /\ free
  /\ Hold(r, [op |-> "inviting"])

(* Mutant of Invite: the last seat is counted as one more.                   *)
InviteBeyond(r) == InviteIf(r, users <= Seats[Entitlements.plan])

(* isOverSeatLimit, by counts read together.                                 *)
Invite(r) == InviteIf(r, users < Seats[Entitlements.plan])

CreateMember(r) ==
  /\ request[r].op = "inviting"
  /\ users' = users + 1
  /\ request' = [request EXCEPT ![r] = Idle]
  /\ UNCHANGED <<today, sub, suspended, bill, paidOn, granted>>

(* The owner stays: nobody removes himself, and only an OWNER an OWNER.      *)
RemoveMember ==
  /\ users > 1
  /\ users' = users - 1
  /\ UNCHANGED <<today, sub, suspended, bill, paidOn, granted, request>>

-----------------------------------------------------------------------------
(* A request fails, or its process dies: the transaction rolls back.         *)
Fail(r) ==
  /\ request[r] # Idle
  /\ request' = [request EXCEPT ![r] = Idle]
  /\ UNCHANGED <<today, sub, suspended, bill, paidOn, granted, users>>

NextDay ==
  /\ today < LastDay
  /\ today' = today + 1
  /\ UNCHANGED <<sub, suspended, bill, paidOn, granted, users, request>>

Next ==
  \/ CheckoutFree
  \/ \E b \in Bills, plan \in PaidPlans : Checkout(b, plan)
  \/ \E b \in Bills : Pay(b)
  \/ \E r \in Requests, b \in Bills : ReadBill(r, b)
  \/ \E r \in Requests :
       Confirm(r) \/ FindDueForRenewal(r) \/ MarkPastDue(r) \/ Invite(r) \/ CreateMember(r) \/ Fail(r)
  \/ SetAccountStatus
  \/ \E plan \in Plans : ChangePlan(plan)
  \/ RemoveMember
  \/ NextDay

Spec == Init /\ [][Next]_vars

=============================================================================
