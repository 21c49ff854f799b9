----------------------------- MODULE MCPortfolio -----------------------------
(* Instances of Portfolio for TLC.                                           *)
EXTENDS PortfolioProperties

CONSTANTS f1

Row(status, value, due) ==
  [status |-> status, value |-> value, due |-> due, recurring |-> FALSE,
   opens |-> 0, attempts |-> 0, case |-> "none"]

(* Paid eight days late; overdue.                                            *)
MCPast == <<Row("PAID", 300, 0), Row("PENDING", 1001, 38)>>
MCPastPayments == <<[id |-> 1, amount |-> 300, paidAt |-> 17]>>

(* A day after the invoice was due, and more than a month after it.          *)
MCInstants == {41, 113}

MCPlan == [status |-> "ACTIVE", amount |-> 901, nextRunDate |-> 60,
           discountPercent |-> 50, discountUntil |-> 60]

Generous == [enabled |-> TRUE, hesitationOpens |-> 1, discountEnabled |-> TRUE,
             discountPercent |-> 15, installmentsEnabled |-> TRUE, maxInstallments |-> 2,
             deferEnabled |-> TRUE, deferMaxDays |-> 7, deferFeePercent |-> 5]

Dearer == [Generous EXCEPT !.discountEnabled = FALSE, !.installmentsEnabled = FALSE,
                           !.deferMaxDays = 10, !.deferFeePercent = 10]

MCRules == {Dearer}

(* Less than any invoice is worth.                                           *)
MCTyped == {100}
=============================================================================
