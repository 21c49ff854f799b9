------------------------- MODULE BillingProperties -------------------------
(***************************************************************************)
(* What Billing owes: to the client, no more charges than months and the   *)
(* credit that was earned; to the tenant, no month that is not billed.     *)
(***************************************************************************)
EXTENDS Billing, Functions

Holders == {p \in Processes : local[p].key # NoKey}

Held(c) == SumFunctionOnSet([p \in Processes |-> local[p].reserved],
                            {p \in Holders : Client(local[p].key) = c})

Spent(c) == SumFunctionOnSet(discount, {k \in attached : Client(k) = c})

Rewarding(c) == {f \in converted : c \in {f.referrer, f.referred}}

Earned(c) == Reward * Cardinality(Rewarding(c))

(* Credit is not made from nothing, and without failures none is lost: what a  *)
(* client has, what its invoices that can be paid took off, and what processes *)
(* have reserved is what was earned, whoever wins the races for it and for the *)
(* month and whatever the gateway refuses.                                     *)
CreditIsKept ==
  \A c \in Clients :
    LET accounted == credit[c] + Spent(c) + Held(c)
    IN  accounted <= Earned(c) /\ (failures = 0 => accounted = Earned(c))

(* A month, or a request, is charged once, and once more at most for every     *)
(* failure (an answer of the gateway that was lost), though runs overlap.      *)
ChargedOnce == \A k \in Keys : charges[k] <= 1 + failures

(* Without failures, an invoice that cannot be paid is one somebody is still   *)
(* making or undoing.                                                          *)
NoStrayInvoice ==
  failures = 0 =>
    \A k \in invoices \ attached :
      \E p \in Processes : local[p].key = k /\ pc[p] \in {"charging", "attaching", "undoing"}

(* Months that have their invoice, or had one that was to be undone: another   *)
(* run may have found it before it was.                                        *)
Seen == invoices \cup uncharged

(* No month is passed over, however the runs overlap, die or fail, but one     *)
(* whose charge the gateway refused, or whose answer was lost (run,            *)
(* createForSubscription, RN-S1).                                              *)
NoMonthSkipped ==
  \A s \in Subscriptions : \A m \in 1 .. subscription[s].next - 1 : <<s, m>> \in Seen

(* The billing of a subscription reaches every month, though runs die, charges *)
(* are refused and jobs are dead-lettered, unless the owner stops it.          *)
EveryMonthReached ==
  \A s \in Subscriptions, m \in Months :
    (subscription[s].next = m /\ m <= month)
      ~> (subscription[s].next > m \/ subscription[s].status # "ACTIVE")

-----------------------------------------------------------------------------
(* The inductive invariant.                                                    *)

Makers == {p \in Processes : pc[p] \in {"charging", "attaching", "undoing"}}

(* Between the creation of an invoice and the end of its protocol one process  *)
(* has it: create is the only lock, and only its holder deletes the invoice.   *)
OneMaker ==
  /\ \A p \in Makers : local[p].key \in invoices
  /\ \A p, q \in Makers : local[p].key = local[q].key => p = q

(* What each process is about.                                                 *)
KeyOf(p) == IF p \in Runs THEN Subscriptions \X Months ELSE {<<p, 0>>}

RightKey ==
  /\ \A p \in Processes : pc[p] \notin Resting \cup {"finding"} => local[p].key \in KeyOf(p)
  /\ \A q \in Requests : pc[q] \notin {"finding", "advancing"}

(* An invoice has its charge, and every failure may have made one more; who is *)
(* about to charge, or was refused, has none but those.                        *)
ChargesCounted ==
  /\ \A k \in Keys : charges[k] <= failures + (IF k \in invoices THEN 1 ELSE 0)
  /\ \A p \in Processes : pc[p] \in {"charging", "undoing"} => charges[local[p].key] <= failures

Before(k) == {<<k[1], m>> : m \in 1 .. k[2] - 1}

(* What a run has read may be stale, but all months before it were seen; only  *)
(* an invoice whose charge failed is undone.                                   *)
ReadsFollowInvoices(r) ==
  /\ \A k \in local[r].due : Before(k) \subseteq Seen
  /\ pc[r] \notin Resting \cup {"finding"} => Before(local[r].key) \subseteq Seen
  /\ pc[r] \in {"beaten", "advancing"} => local[r].key \in Seen

MonthsAreSeen ==
  /\ \A p \in Processes : pc[p] = "undoing" => local[p].key \in uncharged
  /\ NoMonthSkipped
  /\ \A r \in Runs : ReadsFollowInvoices(r)

IInv ==
  /\ TypeOK
  /\ RightKey
  /\ OneMaker
  /\ ChargesCounted
  /\ NoStrayInvoice
  /\ MonthsAreSeen

(* Credit is in one place at a time: with the process that has reserved it,    *)
(* noted on the invoice it is making, or spent on an invoice that has its      *)
(* charge.  What is summed up is finite.                                       *)
CreditInOnePlace ==
  /\ attached \subseteq invoices
  /\ \A p \in Processes :
       /\ pc[p] \notin {"creating", "charging", "attaching", "undoing", "undone", "beaten"} =>
            local[p].reserved = 0
       /\ p \in Makers => /\ local[p].key \notin attached
                         /\ discount[local[p].key] = local[p].reserved
  /\ IsFiniteSet(Holders) /\ IsFiniteSet(attached) /\ IsFiniteSet(converted)

CreditIInv == IInv /\ CreditInOnePlace /\ CreditIsKept

=============================================================================
