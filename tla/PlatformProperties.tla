------------------------- MODULE PlatformProperties -------------------------
(***************************************************************************)
(* What the platform and the tenant owe each other.                        *)
(***************************************************************************)
EXTENDS Platform

(* A period that was begun on the day and is not over.                       *)
Runs(from) == from # Null /\ today < from + Month

(* RN-SB3: nobody works with a paid plan but in a trial that was not over, or  *)
(* in the month of a payment for this plan or of an administrator's gift:      *)
(* however late and in whatever order confirmations, sweeps and changes come.  *)
PaidPlanHasPayment ==
  Entitlements.canWrite /\ Entitlements.plan # "free" =>
    \/ today <= TrialDays
    \/ \E b \in Bills : bill[b].status = "PAID" /\ bill[b].plan = sub.plan /\ Runs(bill[b].paidAt)
    \/ Runs(granted[sub.plan])

(* A bill that is confirmed after its own month.                               *)
LateBill(r) == request[r].op = "confirming" /\ ~Runs(paidOn[request[r].bill])

(* From one moment to the next a tenant loses its access only to a suspension, *)
(* to a sweep that has read another subscription, or to a bill that is         *)
(* confirmed after its month.                                                  *)
AccessLostOnlyByStaleReader ==
  [][Entitlements.canWrite /\ ~Entitlements'.canWrite /\ today' = today =>
       \/ suspended'
       \/ \E r \in Requests : request[r].op = "renewing" /\ request[r].seen # sub
       \/ \E r \in Requests : LateBill(r)]_vars

(* Seats of the largest plan are exceeded at most by invitations at once.      *)
SeatsHeld == users <= Seats["pro"] + Cardinality(Requests) - 1

-----------------------------------------------------------------------------
(* The inductive invariant.                                                    *)

(* The plan a tenant has comes from the last payment or gift, and ends with it. *)
SubJustified ==
  /\ sub.status = "trialing" => sub.trialEndsAt = 1 + TrialDays
  /\ sub.status = "active" /\ sub.plan # "free" =>
       \/ \E b \in Bills : /\ bill[b].status = "PAID" /\ bill[b].plan = sub.plan
                           /\ bill[b].paidAt # Null
                           /\ sub.currentPeriodEnd = bill[b].paidAt + Month
       \/ granted[sub.plan] # Null /\ sub.currentPeriodEnd = granted[sub.plan] + Month

(* What is about to be confirmed was billed and paid.                          *)
Confirmable ==
  /\ \A b \in Bills : paidOn[b] # Null => bill[b].status # "none"
  /\ \A r \in Requests : request[r].op = "confirming" => paidOn[request[r].bill] # Null

Inviting == {r \in Requests : request[r].op = "inviting"}

(* A request that has found a seat takes it.                                   *)
SeatsCounted == users + Cardinality(Inviting) <= Seats["pro"] + Cardinality(Requests) - 1

(* What a sweep has found was due, though the tenant may have paid since.      *)
ReadsWereDue ==
  \A r \in Requests : request[r].op = "renewing" =>
    Due(request[r].seen, today) /\ request[r].seen \in Subscriptions

IInv == TypeOK /\ SubJustified /\ Confirmable /\ SeatsCounted /\ ReadsWereDue

=============================================================================
