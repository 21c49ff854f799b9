----------------------------- MODULE MCGateways -----------------------------
(* Instances of Gateways for TLC: one word for every translation and every   *)
(* stage of a payment.                                                       *)
EXTENDS GatewaysProperties

CONSTANTS t1, t2, h1, h2

MCWords ==
  {"authorized", "approved", "rejected",
   "paid", "PENDING", "OVERDUE", "PAID", "FAILED", "AWAITING_RISK_ANALYSIS",
   "CONFIRMED", "REFUNDED", "DECLINED", "waiting",
   "unpaid", "expired", "payment_failed", "processing", "failed", "canceled"}
=============================================================================
