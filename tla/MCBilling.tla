----------------------------- MODULE MCBilling -----------------------------
(* Instances of Billing for TLC: client c is billed, and has referred d. *)
EXTENDS BillingProperties

CONSTANTS c, d, s, cron, owner, payment

OnePayer == [x \in Subscriptions \cup Requests |-> c]
TwoUnits == [x \in Subscriptions \cup Requests |-> 2]
OneReferral == {[referrer |-> c, referred |-> d]}

=============================================================================
