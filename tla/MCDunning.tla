----------------------------- MODULE MCDunning -----------------------------
(* An instance of Dunning for TLC: one reminder before the due date, one after. *)
EXTENDS DunningProperties

CONSTANTS i1, cron, owner

BeforeAndAfter == <<-1, 1>>
TheDayBefore == [i \in Invoices |-> -1]

=============================================================================
