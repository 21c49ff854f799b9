----------------------- MODULE BillingPortfolioProofs -----------------------
(***************************************************************************)
(* Proofs about Billing, for every number of clients, subscriptions,       *)
(* overlapping runs and requests, and any number of refusals and failures: *)
(* each month is charged once but for failures, none is passed over but    *)
(* one whose charge failed, and credit is kept; and about Portfolio, for   *)
(* any invoices, payments, rules and instants.  The two have in common the *)
(* sums over finite sets.                                                  *)
(***************************************************************************)
EXTENDS BillingProperties, PortfolioProperties, FiniteSetTheorems, SequenceTheorems,
        WellFoundedInduction, TLAPS

-----------------------------------------------------------------------------
(***************************************************************************)
(* Billing.                                                                *)
(***************************************************************************)

Locals == [due : SUBSET (Subscriptions \X Months), key : Keys \cup {NoKey},
           plan : Nat, reserved : Nat]

LEMMA LocalType ==
  ASSUME TypeOK, NEW p \in Processes
  PROVE  /\ local[p] \in Locals
         /\ local[p].due \subseteq Subscriptions \X Months
         /\ local[p].key \in Keys \cup {NoKey}
         /\ local[p].plan \in Nat
         /\ local[p].reserved \in Nat
         /\ pc[p] \in Labels
  BY DEF TypeOK, Locals

(* The updates of what a process holds that the actions make.                 *)
LEMMA LocalUpdates ==
  ASSUME TypeOK, NEW p \in Processes, NEW k \in Keys, NEW n \in Nat,
         NEW D \in SUBSET (Subscriptions \X Months)
  PROVE  /\ [local EXCEPT ![p] = Fresh] \in [Processes -> Locals]
         /\ [local EXCEPT ![p].key = k] \in [Processes -> Locals]
         /\ [local EXCEPT ![p].due = D] \in [Processes -> Locals]
         /\ [local EXCEPT ![p].plan = n] \in [Processes -> Locals]
         /\ [local EXCEPT ![p].reserved = n] \in [Processes -> Locals]
         /\ [local EXCEPT ![p].plan = 0, ![p].reserved = n] \in [Processes -> Locals]
         /\ [local EXCEPT ![p] = [Fresh EXCEPT !.due = D]] \in [Processes -> Locals]
         /\ [local EXCEPT ![p] = [Fresh EXCEPT !.due = D, !.key = k]] \in [Processes -> Locals]
  <1>1. local \in [Processes -> Locals]
    BY DEF TypeOK, Locals
  <1>2. Fresh \in Locals
    BY DEF Fresh, Locals
  <1> QED
    BY <1>1, <1>2 DEF Locals, Fresh

LEMMA Gotos ==
  ASSUME TypeOK, NEW p \in Processes, NEW label \in Labels, Goto(p, label)
  PROVE  pc' \in [Processes -> Labels]
  BY DEF TypeOK, Goto

Waiting == Resting \cup {"finding"}

LEMMA KeyType ==
  ASSUME IInv, NEW p \in Processes, pc[p] \notin Waiting
  PROVE  /\ local[p].key \in KeyOf(p)
         /\ local[p].key \in Keys
         /\ Client(local[p].key) \in Clients
         /\ Gross[local[p].key[1]] \in Nat
  <1>1. local[p].key \in KeyOf(p)
    BY DEF IInv, RightKey, Waiting
  <1>2. local[p].key \in Keys /\ local[p].key[1] \in Subscriptions \cup Requests
    BY <1>1 DEF KeyOf, Keys, Processes
  <1> QED
    BY <1>1, <1>2, BillingAssumption DEF Client

LEMMA InitIInv == Init => IInv
  <1> SUFFICES ASSUME Init PROVE IInv
    OBVIOUS
  <1> USE BillingAssumption DEF Init
  <1>1. TypeOK
    <2>1. /\ 1 \in Months
          /\ 1 \in 1 .. LastMonth + 1
          /\ 0 \in 0 .. MaxRefusals
          /\ 0 \in 0 .. MaxFailures
      BY DEF Months
    <2>2. subscription \in [Subscriptions -> [status : Statuses, next : 1 .. LastMonth + 1]]
      BY <2>1 DEF Statuses
    <2>3. Fresh \in Locals
      BY DEF Fresh, Locals
    <2>4. local \in [Processes -> Locals] /\ pc \in [Processes -> Labels]
      BY <2>3 DEF Labels, Resting
    <2> QED
      BY <2>1, <2>2, <2>4 DEF TypeOK, Locals
  <1>2. RightKey /\ OneMaker
    BY DEF RightKey, OneMaker, Makers, Resting, Processes
  <1>3. ChargesCounted /\ NoStrayInvoice
    BY DEF ChargesCounted, NoStrayInvoice
  <1>4. MonthsAreSeen
    BY DEF MonthsAreSeen, NoMonthSkipped, ReadsFollowInvoices, Fresh, Resting, Processes
  <1> QED
    BY <1>1, <1>2, <1>3, <1>4 DEF IInv

-----------------------------------------------------------------------------
(* Types.                                                                     *)

(* TypeOK by parts, so that a step shows those it changes.                    *)
LEMMA TypeParts ==
  TypeOK <=>
  /\ month \in Months
  /\ subscription \in [Subscriptions -> [status : Statuses, next : 1 .. LastMonth + 1]]
  /\ invoices \subseteq Keys
  /\ attached \subseteq Keys
  /\ discount \in [Keys -> Nat]
  /\ charges \in [Keys -> Nat]
  /\ credit \in [Clients -> Nat]
  /\ converted \subseteq Referrals
  /\ pc \in [Processes -> Labels]
  /\ local \in [Processes -> Locals]
  /\ refusals \in 0 .. MaxRefusals
  /\ failures \in 0 .. MaxFailures
  /\ uncharged \subseteq Keys
  BY DEF TypeOK, Locals

LEMMA ThrowType ==
  ASSUME TypeOK, NEW p \in Processes, Throw(p)
  PROVE  pc' \in [Processes -> Labels] /\ local' \in [Processes -> Locals]
  <1>1. Fresh \in Locals
    BY DEF Fresh, Locals
  <1>2. local \in [Processes -> Locals]
    BY TypeParts
  <1> QED
    BY <1>1, <1>2 DEF TypeOK, Throw, Goto, Labels, Resting

LEMMA MadeType ==
  ASSUME TypeOK, NEW p \in Processes, Made(p)
  PROVE  pc' \in [Processes -> Labels] /\ local' \in [Processes -> Locals]
  <1>1. Fresh \in Locals
    BY DEF Fresh, Locals
  <1>2. local \in [Processes -> Locals]
    BY TypeParts
  <1>3. pc' \in [Processes -> Labels]
    BY DEF TypeOK, Made, Goto, Labels, Resting
  <1>4. [local EXCEPT ![p].reserved = 0] \in [Processes -> Locals]
    BY <1>2 DEF Locals
  <1> QED
    BY <1>1, <1>2, <1>3, <1>4 DEF Made

LEMMA UndoneType ==
  ASSUME TypeOK, NEW p \in Processes, Undone(p)
  PROVE  pc' \in [Processes -> Labels] /\ local' \in [Processes -> Locals]
  <1>1. CASE Throw(p)
    BY <1>1, ThrowType
  <1>2. CASE Goto(p, "undone") /\ UNCHANGED local
    BY <1>2, TypeParts DEF Goto, Labels
  <1> QED
    BY <1>1, <1>2 DEF Undone

LEMMA DueType == Due \subseteq Subscriptions \X Months
  BY DEF Due

LEMMA RunTypes ==
  ASSUME IInv, NEW r \in Runs, StartRun(r) \/ RunStep(r)
  PROVE  TypeOK'
  <1>1. TypeOK /\ r \in Processes /\ local[r] \in Locals /\ local \in [Processes -> Locals]
    BY TypeParts DEF IInv, Processes
  <1>2. CASE StartRun(r)
    <2>1. local' \in [Processes -> Locals]
      BY <1>1, <1>2, DueType DEF StartRun, Locals
    <2>2. pc' \in [Processes -> Labels]
      BY <1>1, <1>2 DEF StartRun, Goto, TypeOK, Labels
    <2> QED
      BY <1>1, <1>2, <2>1, <2>2, TypeParts DEF StartRun, TypeOK, Locals, tables, counters
  <1>3. ASSUME NEW k \in local[r].due, FindInvoice(r, k)
        PROVE  TypeOK'
    <2>1. k \in Keys /\ local[r].due \ {k} \subseteq Subscriptions \X Months
      BY <1>1 DEF Locals, Keys
    <2>2. [Fresh EXCEPT !.due = local[r].due \ {k}, !.key = k] \in Locals
      BY <2>1 DEF Fresh, Locals
    <2>3. local' \in [Processes -> Locals]
      BY <1>1, <1>3, <2>2 DEF FindInvoice
    <2>4. pc' \in [Processes -> Labels]
      BY <1>1, <1>3 DEF FindInvoice, Goto, TypeOK, Labels
    <2> QED
      BY <1>1, <1>3, <2>3, <2>4 DEF FindInvoice, TypeOK, Locals, tables, counters
  <1>4. CASE SetNextRun(r)
    <2>1. local[r].key \in Subscriptions \X Months
      BY <1>4, KeyType, <1>1 DEF SetNextRun, Advance, KeyOf, Waiting, Resting
    <2>2. local[r].key[1] \in Subscriptions /\ local[r].key[2] + 1 \in 1 .. LastMonth + 1
      BY <2>1, BillingAssumption DEF Months
    <2>3. subscription' \in [Subscriptions -> [status : Statuses, next : 1 .. LastMonth + 1]]
      BY <1>1, <1>4, <2>2 DEF SetNextRun, Advance, TypeOK
    <2>4. [Fresh EXCEPT !.due = local[r].due] \in Locals
      BY <1>1 DEF Fresh, Locals
    <2>5. local' \in [Processes -> Locals]
      BY <1>1, <1>4, <2>4 DEF SetNextRun, Advance
    <2>6. pc' \in [Processes -> Labels]
      BY <1>1, <1>4 DEF SetNextRun, Advance, Goto, TypeOK, Labels, Resting
    <2> QED
      BY <1>1, <1>4, <2>3, <2>5, <2>6 DEF SetNextRun, Advance, TypeOK, Locals, counters
  <1> QED
    BY <1>2, <1>3, <1>4 DEF RunStep

LEMMA ChargeTypes ==
  ASSUME IInv, NEW p \in Processes, ChargeStep(p)
  PROVE  TypeOK'
  <1>1. TypeOK /\ local[p] \in Locals /\ local \in [Processes -> Locals]
    BY TypeParts DEF IInv
  <1>2. /\ local[p].key \in Keys
        /\ Client(local[p].key) \in Clients
        /\ Gross[local[p].key[1]] \in Nat
        /\ credit[Client(local[p].key)] \in Nat
        /\ local[p].plan \in Nat /\ local[p].reserved \in Nat
    <2>1. pc[p] \notin Waiting
      BY DEF ChargeStep, PlanCredit, ReserveCredit, Reserve, CreateInvoice, Create, CreateCharge,
             RefuseCharge, AttachCharge, DeleteInvoice, RefundCredit, Waiting, Resting
    <2> QED
      BY <1>1, <2>1, KeyType DEF TypeOK, Locals
  <1>3. CASE PlanCredit(p)
    <2> DEFINE used == Usable(Gross[local[p].key[1]], credit[Client(local[p].key)])
    <2>1. used \in Nat
      BY <1>2 DEF Usable
    <2> HIDE DEF used
    <2>2. local' = [local EXCEPT ![p].plan = used]
      BY <1>3 DEF PlanCredit, used
    <2>3. local' \in [Processes -> Locals]
      BY <1>1, <2>1, <2>2 DEF Locals
    <2>4. pc' \in [Processes -> Labels]
      BY <1>1, <1>3 DEF PlanCredit, Goto, TypeOK, Labels
    <2> QED
      BY <1>1, <1>3, <2>3, <2>4 DEF PlanCredit, TypeOK, Locals, tables, counters
  <1>4. CASE ReserveCredit(p)
    <2> DEFINE reserved == IF Covered(p) THEN local[p].plan ELSE 0
    <2>1. reserved \in Nat /\ credit[Client(local[p].key)] - reserved \in Nat
      BY <1>2 DEF Covered
    <2> HIDE DEF reserved
    <2>2. Reserve(p, reserved, reserved)
      BY <1>4 DEF ReserveCredit, reserved
    <2>3. credit' \in [Clients -> Nat]
      BY <1>1, <1>2, <2>1, <2>2 DEF Reserve, TypeOK
    <2>4. local' \in [Processes -> Locals]
      BY <1>1, <2>1, <2>2 DEF Reserve, Locals
    <2>5. pc' \in [Processes -> Labels]
      BY <1>1, <2>2 DEF Reserve, Goto, TypeOK, Labels
    <2> QED
      BY <1>1, <2>2, <2>3, <2>4, <2>5 DEF Reserve, TypeOK, Locals, counters
  <1>5. CASE CreateInvoice(p)
    <2>1. pc' \in [Processes -> Labels] /\ local' \in [Processes -> Locals]
      BY <1>1, <1>5, MadeType DEF CreateInvoice, Create, Goto, TypeOK, Labels
    <2>2. invoices' \subseteq Keys
      BY <1>1, <1>2, <1>5 DEF CreateInvoice, Create, TypeOK
    <2>3. discount' \in [Keys -> Nat]
      BY <1>1, <1>2, <1>5 DEF CreateInvoice, Create, TypeOK
    <2> QED
      BY <1>1, <1>5, <2>1, <2>2, <2>3 DEF CreateInvoice, Create, TypeOK, Locals, counters
  <1>6. CASE CreateCharge(p)
    <2>1. charges' \in [Keys -> Nat] /\ pc' \in [Processes -> Labels]
      BY <1>1, <1>2, <1>6 DEF CreateCharge, Goto, TypeOK, Labels
    <2> QED
      BY <1>1, <1>6, <2>1 DEF CreateCharge, TypeOK, Locals, tables, counters
  <1>7. CASE RefuseCharge(p)
    <2>1. refusals' \in 0 .. MaxRefusals /\ pc' \in [Processes -> Labels]
      BY <1>1, <1>7, BillingAssumption DEF RefuseCharge, ChargeThrows, Goto, TypeOK, Labels
    <2>2. uncharged' \subseteq Keys
      BY <1>1, <1>2, <1>7 DEF RefuseCharge, ChargeThrows, TypeOK
    <2> QED
      BY <1>1, <1>7, <2>1, <2>2 DEF RefuseCharge, TypeOK, Locals, tables
  <1>8. CASE AttachCharge(p)
    <2>1. pc' \in [Processes -> Labels] /\ local' \in [Processes -> Locals]
      BY <1>1, <1>8, MadeType DEF AttachCharge
    <2> QED
      BY <1>1, <1>2, <1>8, <2>1 DEF AttachCharge, TypeOK, Locals, counters
  <1>9. CASE DeleteInvoice(p)
    <2>1. pc' \in [Processes -> Labels] /\ local' \in [Processes -> Locals]
      BY <1>1, <1>9, UndoneType DEF DeleteInvoice
    <2> QED
      BY <1>1, <1>2, <1>9, <2>1 DEF DeleteInvoice, TypeOK, Locals, counters
  <1>10. CASE RefundCredit(p)
    <2>1. pc' \in [Processes -> Labels] /\ local' \in [Processes -> Locals]
      BY <1>1, <1>10, MadeType, ThrowType DEF RefundCredit
    <2>2. credit' \in [Clients -> Nat]
      BY <1>1, <1>2, <1>10 DEF RefundCredit, TypeOK
    <2> QED
      BY <1>1, <1>10, <2>1, <2>2 DEF RefundCredit, TypeOK, Locals, counters
  <1> QED
    BY <1>3, <1>4, <1>5, <1>6, <1>7, <1>8, <1>9, <1>10 DEF ChargeStep

LEMMA FailureTypes ==
  ASSUME IInv, NEW p \in Processes, Failure(p)
  PROVE  TypeOK'
  <1>1. TypeOK /\ local[p] \in Locals /\ local \in [Processes -> Locals]
    BY TypeParts DEF IInv
  <1>2. failures' \in 0 .. MaxFailures /\ refusals' = refusals
    BY <1>1, BillingAssumption
    DEF Failure, CreditUnavailable, CreateFails, AnswerLost, DeleteFails, RefundFails, Die,
        Failing, Counted, TypeOK
  <1>3. CASE AnswerLost(p)
    <2>1. local[p].key \in Keys
      BY <1>3, KeyType DEF AnswerLost, Waiting, Resting
    <2>2. charges' \in [Keys -> Nat] /\ pc' \in [Processes -> Labels]
      BY <1>1, <1>3, <2>1 DEF AnswerLost, ChargeThrows, Goto, TypeOK, Labels
    <2>3. uncharged' \subseteq Keys
      BY <1>1, <1>3, <2>1 DEF AnswerLost, ChargeThrows, TypeOK
    <2> QED
      BY <1>1, <1>2, <1>3, <2>2, <2>3 DEF AnswerLost, TypeOK, Locals, tables
  <1>4. CASE CreditUnavailable(p)
    <2>1. pc' \in [Processes -> Labels] /\ local' \in [Processes -> Locals]
      BY <1>1, <1>4 DEF CreditUnavailable, Goto, TypeOK, Labels, Locals
    <2> QED
      BY <1>1, <1>2, <1>4, <2>1 DEF CreditUnavailable, Failing, TypeOK, Locals, tables
  <1>5. CASE CreateFails(p)
    <2>1. pc' \in [Processes -> Labels]
      BY <1>1, <1>5 DEF CreateFails, Goto, TypeOK, Labels
    <2> QED
      BY <1>1, <1>2, <1>5, <2>1 DEF CreateFails, Failing, TypeOK, Locals, tables
  <1>6. CASE DeleteFails(p) \/ RefundFails(p) \/ Die(p)
    <2>1. pc' \in [Processes -> Labels] /\ local' \in [Processes -> Locals]
      BY <1>1, <1>6, UndoneType, MadeType, ThrowType DEF DeleteFails, RefundFails, Die
    <2>2. UNCHANGED <<month, tables, charges, uncharged>>
      BY <1>6 DEF DeleteFails, RefundFails, Die, Failing
    <2> QED
      BY <1>1, <1>2, <2>1, <2>2 DEF TypeOK, Locals, tables
  <1> QED
    BY <1>3, <1>4, <1>5, <1>6 DEF Failure

LEMMA RequestTypes ==
  ASSUME IInv, NEW q \in Requests, CreatePayment(q) \/ AcceptOffer(q)
  PROVE  TypeOK'
  <1>1. TypeOK /\ q \in Processes /\ local \in [Processes -> Locals]
    BY TypeParts DEF IInv, Processes
  <1>2. <<q, 0>> \in Keys
    BY DEF Keys
  <1>3. local' = [local EXCEPT ![q].key = <<q, 0>>]
    BY DEF CreatePayment, AcceptOffer, Request
  <1>4. local' \in [Processes -> Locals]
    BY <1>1, <1>2, <1>3 DEF Locals
  <1>5. pc' \in [Processes -> Labels]
    BY <1>1 DEF CreatePayment, AcceptOffer, Request, Goto, TypeOK, Labels
  <1> QED
    BY <1>1, <1>4, <1>5 DEF CreatePayment, AcceptOffer, Request, TypeOK, Locals, tables, counters

LEMMA WorldTypes ==
  ASSUME IInv,
         \/ \E s \in Subscriptions, status \in Statuses : SetStatus(s, status)
         \/ \E f \in Referrals : Convert(f)
         \/ NextMonth
  PROVE  TypeOK'
  <1>1. TypeOK
    BY DEF IInv
  <1>2. ASSUME NEW s \in Subscriptions, NEW status \in Statuses, SetStatus(s, status)
        PROVE  TypeOK'
    <2>1. subscription' \in [Subscriptions -> [status : Statuses, next : 1 .. LastMonth + 1]]
      BY <1>1, <1>2 DEF SetStatus, TypeOK
    <2> QED
      BY <1>1, <1>2, <2>1 DEF SetStatus, TypeOK, counters
  <1>3. ASSUME NEW f \in Referrals, Convert(f)
        PROVE  TypeOK'
    <2>1. credit' \in [Clients -> Nat]
      BY <1>1, <1>3, BillingAssumption DEF Convert, TypeOK
    <2> QED
      BY <1>1, <1>3, <2>1 DEF Convert, TypeOK, counters
  <1>4. CASE NextMonth
    <2>1. month' \in Months
      BY <1>1, <1>4, BillingAssumption DEF NextMonth, TypeOK, Months
    <2> QED
      BY <1>1, <1>4, <2>1 DEF NextMonth, TypeOK, tables, counters
  <1> QED
    BY <1>2, <1>3, <1>4

-----------------------------------------------------------------------------
(* One step of one process.                                                   *)

Making == {"charging", "attaching", "undoing"}

Others(p) == \A q \in Processes \ {p} : pc'[q] = pc[q] /\ local'[q] = local[q]

(* A step that leaves the invoices and their charges alone, and takes no      *)
(* invoice up; while nothing fails, it drops none either.                     *)
Quiet(p) ==
  /\ Others(p)
  /\ UNCHANGED <<invoices, attached, charges>>
  /\ failures' \in Nat /\ failures' >= failures
  /\ pc'[p] \in Making => pc[p] \in Making /\ local'[p].key = local[p].key
  /\ pc'[p] \in {"charging", "undoing"} => pc[p] \in {"charging", "undoing"}
  /\ pc[p] \in Making /\ failures' = 0 => pc'[p] \in Making

LEMMA QuietKeeps ==
  ASSUME IInv, NEW p \in Processes, Quiet(p)
  PROVE  OneMaker' /\ ChargesCounted' /\ NoStrayInvoice'
  <1>1. failures \in Nat /\ charges \in [Keys -> Nat]
    BY BillingAssumption DEF IInv, TypeOK
  <1>2. \A q \in Makers' : q \in Makers /\ local'[q].key = local[q].key
    BY DEF Quiet, Others, Makers, Making
  <1>3. OneMaker'
    BY <1>2 DEF Quiet, IInv, OneMaker
  <1>4. ChargesCounted'
    <2>1. \A k \in Keys : charges'[k] <= failures' + (IF k \in invoices' THEN 1 ELSE 0)
      BY <1>1 DEF Quiet, IInv, ChargesCounted
    <2>2. ASSUME NEW q \in Processes, pc'[q] \in {"charging", "undoing"}
          PROVE  charges'[local'[q].key] <= failures'
      <3>1. pc[q] \in {"charging", "undoing"} /\ local'[q].key = local[q].key
        BY <2>2 DEF Quiet, Others, Making
      <3>2. charges[local[q].key] <= failures /\ local[q].key \in Keys
        BY <3>1, KeyType DEF IInv, ChargesCounted, Waiting, Resting
      <3> QED
        BY <1>1, <3>1, <3>2 DEF Quiet
    <2> QED
      BY <2>1, <2>2 DEF ChargesCounted
  <1>5. NoStrayInvoice'
    <2> SUFFICES ASSUME failures' = 0, NEW k \in invoices' \ attached'
                 PROVE  \E q \in Processes : local'[q].key = k /\ pc'[q] \in Making
      BY DEF NoStrayInvoice, Making
    <2>1. failures = 0 /\ k \in invoices \ attached
      BY <1>1 DEF Quiet
    <2>2. PICK q \in Processes : local[q].key = k /\ pc[q] \in Making
      BY <2>1 DEF IInv, NoStrayInvoice, Making
    <2>3. local'[q].key = k /\ pc'[q] \in Making
      BY <2>2 DEF Quiet, Others
    <2> QED
      BY <2>3
  <1> QED
    BY <1>3, <1>4, <1>5

(* How Throw, Made and Undone move a process.                                 *)
LEMMA Moves ==
  ASSUME TypeOK, NEW p \in Processes
  PROVE  /\ Throw(p) => /\ Others(p)
                        /\ pc'[p] = (IF p \in Runs THEN "idle" ELSE "done")
                        /\ local'[p] = Fresh
         /\ Made(p) => /\ Others(p)
                       /\ IF p \in Runs
                          THEN /\ pc'[p] = "advancing"
                               /\ local'[p].key = local[p].key
                               /\ local'[p].due = local[p].due
                          ELSE pc'[p] = "done"
         /\ \A label : Goto(p, label) /\ UNCHANGED local => Others(p) /\ pc'[p] = label
  <1>1. pc \in [Processes -> Labels] /\ local \in [Processes -> Locals] /\ local[p] \in Locals
    BY TypeParts
  <1>2. Throw(p) => /\ Others(p)
                    /\ pc'[p] = (IF p \in Runs THEN "idle" ELSE "done")
                    /\ local'[p] = Fresh
    BY <1>1 DEF Throw, Goto, Others
  <1>3. Made(p) => /\ Others(p)
                   /\ IF p \in Runs
                      THEN /\ pc'[p] = "advancing"
                           /\ local'[p].key = local[p].key
                           /\ local'[p].due = local[p].due
                      ELSE pc'[p] = "done"
    <2>1. CASE p \in Runs
      BY <1>1, <2>1 DEF Made, Goto, Others, Locals
    <2>2. CASE p \notin Runs
      BY <1>1, <2>2 DEF Made, Goto, Others
    <2> QED
      BY <2>1, <2>2
  <1>4. \A label : Goto(p, label) /\ UNCHANGED local => Others(p) /\ pc'[p] = label
    BY <1>1 DEF Goto, Others
  <1> QED
    BY <1>2, <1>3, <1>4

LEMMA QuietSteps ==
  ASSUME IInv, NEW p \in Processes,
         \/ p \in Runs /\ (StartRun(p) \/ RunStep(p))
         \/ p \in Requests /\ (CreatePayment(p) \/ AcceptOffer(p))
         \/ PlanCredit(p) \/ ReserveCredit(p) \/ RefuseCharge(p) \/ RefundCredit(p)
         \/ CreditUnavailable(p) \/ CreateFails(p) \/ DeleteFails(p) \/ RefundFails(p) \/ Die(p)
  PROVE  Quiet(p)
  <1>1. /\ TypeOK /\ pc \in [Processes -> Labels] /\ local \in [Processes -> Locals]
        /\ failures \in Nat
    BY TypeParts, BillingAssumption DEF IInv
  <1> DEFINE Same == UNCHANGED <<invoices, attached, charges>> /\ failures' = failures
             Failed == /\ UNCHANGED <<invoices, attached, charges>>
                       /\ failures' = failures + 1
  <1>2. CASE p \in Runs /\ StartRun(p)
    BY <1>1, <1>2 DEF StartRun, Goto, Quiet, Others, Making, tables, counters
  <1>3. CASE p \in Runs /\ RunStep(p)
    <2>1. ASSUME NEW k \in local[p].due, FindInvoice(p, k)
          PROVE  Quiet(p)
      BY <1>1, <2>1 DEF FindInvoice, Goto, Quiet, Others, Making, tables, counters
    <2>2. CASE SetNextRun(p)
      BY <1>1, <2>2 DEF SetNextRun, Advance, Goto, Quiet, Others, Making, counters
    <2> QED
      BY <1>3, <2>1, <2>2 DEF RunStep
  <1>4. CASE p \in Requests /\ (CreatePayment(p) \/ AcceptOffer(p))
    BY <1>1, <1>4
    DEF CreatePayment, AcceptOffer, Request, Goto, Quiet, Others, Making, tables, counters
  <1>5. CASE PlanCredit(p)
    BY <1>1, <1>5 DEF PlanCredit, Goto, Quiet, Others, Making, tables, counters
  <1>6. CASE ReserveCredit(p)
    BY <1>1, <1>6 DEF ReserveCredit, Reserve, Goto, Quiet, Others, Making, counters
  <1>7. CASE RefuseCharge(p)
    BY <1>1, <1>7 DEF RefuseCharge, ChargeThrows, Goto, Quiet, Others, Making, tables
  <1>8. CASE RefundCredit(p)
    <2>1. Same /\ (Throw(p) \/ Made(p)) /\ pc[p] \notin Making
      BY <1>8 DEF RefundCredit, counters, Making
    <2>2. Others(p) /\ pc'[p] \notin Making
      BY <1>1, <2>1, Moves DEF Making
    <2> QED
      BY <1>1, <2>1, <2>2 DEF Quiet, Making
  <1>9. CASE CreditUnavailable(p)
    BY <1>1, <1>9 DEF CreditUnavailable, Failing, Counted, Goto, Quiet, Others, Making, tables
  <1>10. CASE CreateFails(p)
    BY <1>1, <1>10 DEF CreateFails, Failing, Counted, Goto, Quiet, Others, Making, tables
  <1>11. CASE DeleteFails(p) \/ RefundFails(p) \/ Die(p)
    <2>1. /\ Failed
          /\ Throw(p) \/ Made(p) \/ (Goto(p, "undone") /\ UNCHANGED local)
      BY <1>11 DEF DeleteFails, RefundFails, Die, Failing, Counted, Undone, tables
    <2>2. Others(p) /\ pc'[p] \notin Making
      BY <1>1, <2>1, Moves DEF Making
    <2> QED
      BY <1>1, <2>1, <2>2 DEF Quiet, Making
  <1> QED
    BY <1>2, <1>3, <1>4, <1>5, <1>6, <1>7, <1>8, <1>9, <1>10, <1>11

-----------------------------------------------------------------------------
(* The steps of the process that has the invoice.                             *)

LEMMA MakerKeeps ==
  ASSUME IInv, NEW p \in Processes,
         \/ CreateInvoice(p) \/ CreateCharge(p) \/ AttachCharge(p) \/ DeleteInvoice(p)
         \/ AnswerLost(p)
  PROVE  OneMaker' /\ ChargesCounted' /\ NoStrayInvoice'
  <1> DEFINE key == local[p].key
  <1>1. /\ TypeOK /\ pc \in [Processes -> Labels] /\ local \in [Processes -> Locals]
        /\ failures \in Nat /\ charges \in [Keys -> Nat] /\ invoices \subseteq Keys
    BY TypeParts, BillingAssumption DEF IInv
  <1>2. /\ \A q \in Processes : pc[q] \in Making => local[q].key \in invoices
        /\ \A q1, q2 \in Processes : /\ pc[q1] \in Making /\ pc[q2] \in Making
                                    /\ local[q1].key = local[q2].key
                                    => q1 = q2
    BY DEF IInv, OneMaker, Makers, Making
  <1>3. /\ \A k \in Keys : charges[k] <= failures + (IF k \in invoices THEN 1 ELSE 0)
        /\ \A q \in Processes :
             pc[q] \in {"charging", "undoing"} => charges[local[q].key] <= failures
    BY DEF IInv, ChargesCounted
  <1>4. failures = 0 => \A k \in invoices \ attached :
                         \E q \in Processes : local[q].key = k /\ pc[q] \in Making
    BY DEF IInv, NoStrayInvoice, Making
  <1>5. key \in Keys
    BY KeyType DEF CreateInvoice, Create, CreateCharge, AttachCharge, DeleteInvoice, AnswerLost,
                   Waiting, Resting
  <1> HIDE DEF key
  (* What is left to show, when others have not moved.                        *)
  <1>6. ASSUME Others(p), failures' \in Nat, failures' >= failures,
               \A q \in Processes \ {p} : pc[q] \in Making => local[q].key # key,
               pc'[p] \in Making => local'[p].key = key /\ key \in invoices',
               \A k \in Keys \ {key} : charges'[k] = charges[k] /\ (k \in invoices' <=> k \in invoices),
               charges'[key] <= failures' + (IF key \in invoices' THEN 1 ELSE 0),
               pc'[p] \in {"charging", "undoing"} => charges'[key] <= failures',
               attached \subseteq attached', invoices' \subseteq Keys,
               failures' = 0 /\ key \in invoices' => key \in attached' \/ pc'[p] \in Making
        PROVE  OneMaker' /\ ChargesCounted' /\ NoStrayInvoice'
    <2>1. \A q \in Processes \ {p} : pc'[q] = pc[q] /\ local'[q].key = local[q].key
      BY <1>6 DEF Others
    <2>2. \A q \in Makers' \ {p} : /\ pc[q] \in Making /\ local'[q].key = local[q].key
                                  /\ local[q].key # key /\ local[q].key \in invoices
                                  /\ local[q].key \in Keys
      BY <1>1, <1>2, <1>6, <2>1 DEF Makers, Making
    <2>3. p \in Makers' => pc'[p] \in Making
      BY DEF Makers, Making
    <2>4. OneMaker'
      <3>1. \A q \in Makers' : local'[q].key \in invoices'
        BY <1>6, <2>2, <2>3
      <3>2. \A q1, q2 \in Makers' : local'[q1].key = local'[q2].key => q1 = q2
        <4> TAKE q1, q2 \in Makers'
        <4>1. q1 \in Processes /\ q2 \in Processes
          BY DEF Makers
        <4>2. CASE q1 # p /\ q2 # p
          BY <1>2, <2>2, <4>1, <4>2
        <4>3. CASE q1 = p \/ q2 = p
          BY <1>6, <2>2, <2>3, <4>1, <4>3
        <4> QED
          BY <4>2, <4>3
      <3> QED
        BY <3>1, <3>2 DEF OneMaker
    <2>5. ChargesCounted'
      <3>1. \A k \in Keys : charges'[k] <= failures' + (IF k \in invoices' THEN 1 ELSE 0)
        <4> TAKE k \in Keys
        <4>1. CASE k = key
          BY <1>6, <4>1
        <4>2. CASE k # key
          <5>1. charges'[k] = charges[k] /\ (k \in invoices' <=> k \in invoices) /\ charges[k] \in Nat
            BY <1>1, <1>6, <4>2
          <5>2. charges[k] <= failures + (IF k \in invoices THEN 1 ELSE 0)
            BY <1>3
          <5> QED
            BY <1>1, <1>6, <5>1, <5>2
        <4> QED
          BY <4>1, <4>2
      <3>2. ASSUME NEW q \in Processes, pc'[q] \in {"charging", "undoing"}
            PROVE  charges'[local'[q].key] <= failures'
        <4>1. CASE q = p
          BY <1>6, <3>2, <4>1 DEF Making
        <4>2. CASE q # p
          <5>1. q \in Makers' \ {p}
            BY <3>2, <4>2 DEF Makers
          <5>2. /\ pc[q] \in {"charging", "undoing"} /\ charges'[local[q].key] = charges[local[q].key]
                /\ charges[local[q].key] \in Nat
            BY <1>1, <1>6, <2>1, <2>2, <3>2, <4>2, <5>1
          <5> QED
            BY <1>1, <1>3, <1>6, <2>1, <4>2, <5>2
        <4> QED
          BY <4>1, <4>2
      <3> QED
        BY <3>1, <3>2 DEF ChargesCounted
    <2>6. NoStrayInvoice'
      <3> SUFFICES ASSUME failures' = 0, NEW k \in invoices' \ attached'
                   PROVE  \E q \in Processes : local'[q].key = k /\ pc'[q] \in Making
        BY DEF NoStrayInvoice, Making
      <3>1. failures = 0 /\ k \in Keys
        BY <1>1, <1>6
      <3>2. CASE k = key /\ pc'[p] \in Making
        BY <1>6, <3>2
      <3>4. CASE k # key
        <4>1. PICK q \in Processes : local[q].key = k /\ pc[q] \in Making
          BY <1>4, <1>6, <3>1, <3>4
        <4>2. q # p
          BY <3>4, <4>1 DEF key
        <4> QED
          BY <2>1, <4>1, <4>2
      <3> QED
        BY <1>6, <3>2, <3>4
    <2> QED
      BY <2>4, <2>5, <2>6
  <1>7. CASE CreateInvoice(p)
    <2>1. CASE key \in invoices
      <3>1. /\ Made(p) \/ (Goto(p, "beaten") /\ UNCHANGED local)
            /\ pc[p] \notin Making
            /\ UNCHANGED <<invoices, attached, charges, failures>>
        BY <1>7, <2>1 DEF CreateInvoice, Create, counters, key, Making
      <3>2. Others(p) /\ pc'[p] \notin Making
        BY <1>1, <3>1, Moves DEF Making
      <3>3. Quiet(p)
        BY <1>1, <3>1, <3>2 DEF Quiet, Making
      <3> QED
        BY <3>3, QuietKeeps
    <2>2. CASE key \notin invoices
      <3>1. /\ Goto(p, "charging") /\ UNCHANGED <<local, attached, charges, failures>>
            /\ invoices' = invoices \cup {key}
            /\ pc[p] \notin Making
        BY <1>7, <2>2 DEF CreateInvoice, Create, counters, key, Making
      <3>2. Others(p) /\ pc'[p] = "charging" /\ local'[p].key = key
        BY <1>1, <3>1, Moves DEF key
      <3>3. \A q \in Processes \ {p} : pc[q] \in Making => local[q].key # key
        BY <1>2, <2>2
      <3>4. charges[key] \in Nat /\ charges[key] <= failures
        BY <1>1, <1>3, <1>5, <2>2
      <3> QED
        BY <1>1, <1>5, <1>6, <3>1, <3>2, <3>3, <3>4 DEF Making
    <2> QED
      BY <2>1, <2>2
  <1>8. CASE pc[p] \in Making
    <2>1. /\ \A q \in Processes \ {p} : pc[q] \in Making => local[q].key # key
          /\ key \in invoices
      BY <1>2, <1>8 DEF key
    <2>2. charges[key] \in Nat /\ charges[key] <= failures + 1
      BY <1>1, <1>3, <1>5, <2>1
    <2>3. pc[p] \in {"charging", "undoing"} => charges[key] <= failures
      BY <1>3 DEF key
    <2>4. CASE CreateCharge(p)
      <3>1. /\ charges' = [charges EXCEPT ![key] = @ + 1] /\ UNCHANGED <<local, invoices, attached, failures>>
            /\ Goto(p, "attaching") /\ pc[p] = "charging"
        BY <2>4 DEF CreateCharge, tables, counters, key
      <3>2. Others(p) /\ pc'[p] = "attaching" /\ local'[p].key = key
        BY <1>1, <3>1, Moves DEF key
      <3>3. charges'[key] = charges[key] + 1 /\ \A k \in Keys \ {key} : charges'[k] = charges[k]
        BY <1>1, <1>5, <3>1
      <3> QED
        BY <1>1, <1>6, <2>1, <2>2, <2>3, <3>1, <3>2, <3>3 DEF Making
    <2>5. CASE AnswerLost(p)
      <3>1. /\ charges' = [charges EXCEPT ![key] = @ + 1] /\ UNCHANGED <<local, invoices, attached>>
            /\ Goto(p, "undoing") /\ pc[p] = "charging" /\ failures' = failures + 1
        BY <2>5 DEF AnswerLost, Counted, ChargeThrows, tables, key
      <3>2. Others(p) /\ pc'[p] = "undoing" /\ local'[p].key = key
        BY <1>1, <3>1, Moves DEF key
      <3>3. charges'[key] = charges[key] + 1 /\ \A k \in Keys \ {key} : charges'[k] = charges[k]
        BY <1>1, <1>5, <3>1
      <3> QED
        BY <1>1, <1>6, <2>1, <2>2, <2>3, <3>1, <3>2, <3>3 DEF Making
    <2>6. CASE AttachCharge(p)
      <3>1. /\ Made(p) /\ UNCHANGED <<charges, invoices, failures>> /\ attached' = attached \cup {key}
        BY <2>6 DEF AttachCharge, counters, key
      <3>2. Others(p) /\ pc'[p] \notin Making
        BY <1>1, <3>1, Moves DEF Making
      <3> QED
        BY <1>1, <1>6, <2>1, <2>2, <3>1, <3>2 DEF Making
    <2>7. CASE DeleteInvoice(p)
      <3>1. /\ Throw(p) \/ (Goto(p, "undone") /\ UNCHANGED local)
            /\ UNCHANGED <<charges, attached, failures>> /\ invoices' = invoices \ {key}
            /\ pc[p] = "undoing"
        BY <2>7 DEF DeleteInvoice, Undone, counters, key
      <3>2. Others(p) /\ pc'[p] \notin Making
        BY <1>1, <3>1, Moves DEF Making
      <3> QED
        BY <1>1, <1>6, <2>1, <2>2, <2>3, <3>1, <3>2 DEF Making
    <2> QED
      BY <1>7, <2>4, <2>5, <2>6, <2>7
  <1> QED
    BY <1>7, <1>8 DEF CreateCharge, AttachCharge, DeleteInvoice, AnswerLost, Making

(* The rest of the world has no invoice.                                      *)
LEMMA WorldKeeps ==
  ASSUME IInv,
         \/ \E s \in Subscriptions, status \in Statuses : SetStatus(s, status)
         \/ \E f \in Referrals : Convert(f)
         \/ NextMonth
  PROVE  RightKey' /\ OneMaker' /\ ChargesCounted' /\ NoStrayInvoice'
  <1>1. UNCHANGED <<invoices, attached, charges, pc, local, failures>>
    BY DEF SetStatus, Convert, NextMonth, tables, counters
  <1> QED
    BY <1>1
    DEF IInv, RightKey, OneMaker, Makers, ChargesCounted, NoStrayInvoice

-----------------------------------------------------------------------------
(* What each process is about, and what it has read.                          *)

LEMMA RightKeyKeeps ==
  ASSUME IInv, NEW p \in Processes, Others(p),
         pc'[p] \notin Waiting => local'[p].key \in KeyOf(p),
         p \in Requests => pc'[p] \notin {"finding", "advancing"}
  PROVE  RightKey'
  <1>1. \A q \in Processes \ {p} : pc[q] \notin Waiting => local'[q].key \in KeyOf(q)
    BY DEF Others, IInv, RightKey, Waiting
  <1>2. \A q \in Requests \ {p} : pc'[q] \notin {"finding", "advancing"}
    BY DEF Others, IInv, RightKey, Processes
  <1> QED
    BY <1>1, <1>2 DEF RightKey, Others, Waiting, KeyOf, Processes

(* What was seen stays so; it is left to show what the process that moves has *)
(* read, and that the months behind the subscriptions were seen.              *)
LEMMA ReadsKeep ==
  ASSUME IInv, NEW p \in Processes, Others(p),
         Seen \subseteq Seen', uncharged \subseteq uncharged',
         pc'[p] = "undoing" => local'[p].key \in uncharged',
         NoMonthSkipped',
         p \in Runs => ReadsFollowInvoices(p)'
  PROVE  MonthsAreSeen'
  <1>1. /\ \A q \in Processes : pc[q] = "undoing" => local[q].key \in uncharged
        /\ \A r \in Runs : ReadsFollowInvoices(r)
    BY DEF IInv, MonthsAreSeen
  <1>2. \A q \in Processes : pc'[q] = "undoing" => local'[q].key \in uncharged'
    BY <1>1 DEF Others
  <1>3. ASSUME NEW r \in Runs
        PROVE  ReadsFollowInvoices(r)'
    <2>1. CASE r = p
      BY <2>1
    <2>2. CASE r # p
      <3>1. pc'[r] = pc[r] /\ local'[r] = local[r]
        BY <2>2 DEF Others, Processes
      <3>2. ReadsFollowInvoices(r)
        BY <1>1
      <3> QED
        BY <3>1, <3>2 DEF ReadsFollowInvoices, Before
    <2> QED
      BY <2>1, <2>2
  <1> QED
    BY <1>2, <1>3 DEF MonthsAreSeen

LEMMA RunReads ==
  ASSUME IInv, NEW r \in Runs, StartRun(r) \/ RunStep(r)
  PROVE  RightKey' /\ MonthsAreSeen'
  <1>1. /\ TypeOK /\ r \in Processes /\ r \notin Requests
        /\ pc \in [Processes -> Labels] /\ local \in [Processes -> Locals]
    BY TypeParts, BillingAssumption DEF IInv, Processes
  <1>2. Quiet(r)
    BY <1>1, QuietSteps
  <1>3. /\ Others(r) /\ invoices' = invoices /\ uncharged' = uncharged
        /\ Seen' = Seen
    BY <1>2 DEF Quiet, StartRun, RunStep, FindInvoice, SetNextRun, Advance, counters, Seen
  <1>4. NoMonthSkipped /\ ReadsFollowInvoices(r)
    BY DEF IInv, MonthsAreSeen
  <1>5. subscription' = subscription => NoMonthSkipped'
    BY <1>3, <1>4 DEF NoMonthSkipped
  <1>6. CASE StartRun(r)
    <2>1. pc'[r] = "finding" /\ local'[r].due = Due
      BY <1>1, <1>6 DEF StartRun, Goto, Locals
    <2>2. subscription' = subscription
      BY <1>6 DEF StartRun, tables
    <2>3. ASSUME NEW k \in Due
          PROVE  Before(k) \subseteq Seen
      BY <1>4 DEF Due, NoMonthSkipped, Before
    <2>4. ReadsFollowInvoices(r)'
      <3>1. \A k : Before(k)' = Before(k)
        BY DEF Before
      <3> QED
        BY <1>3, <2>1, <2>3, <3>1 DEF ReadsFollowInvoices, Resting
    <2>5. RightKey'
      BY <1>1, <1>3, <2>1, RightKeyKeeps DEF Waiting
    <2> QED
      BY <1>1, <1>3, <1>5, <2>1, <2>2, <2>4, <2>5, ReadsKeep
  <1>7. ASSUME NEW k \in local[r].due, FindInvoice(r, k)
        PROVE  RightKey' /\ MonthsAreSeen'
    <2>1. k \in Subscriptions \X Months
      BY <1>1 DEF Locals
    <2>2. /\ local'[r].key = k /\ local'[r].due \subseteq local[r].due
          /\ pc'[r] = IF k \in invoices THEN "advancing" ELSE "planning"
      BY <1>1, <1>7 DEF FindInvoice, Goto, Fresh
    <2>3. subscription' = subscription
      BY <1>7 DEF FindInvoice, tables
    <2>4. ReadsFollowInvoices(r)'
      <3>1. /\ Before(k) \subseteq Seen /\ \A l \in local[r].due : Before(l) \subseteq Seen
            /\ \A l : Before(l)' = Before(l)
        BY <1>4 DEF ReadsFollowInvoices, Before
      <3>2. k \in invoices => k \in Seen
        BY DEF Seen
      <3> QED
        BY <1>3, <2>2, <3>1, <3>2 DEF ReadsFollowInvoices
    <2>5. RightKey'
      BY <1>1, <1>3, <2>1, <2>2, RightKeyKeeps DEF KeyOf
    <2> QED
      BY <1>1, <1>3, <1>5, <2>2, <2>3, <2>4, <2>5, ReadsKeep
  <1>8. CASE SetNextRun(r)
    <2> DEFINE key == local[r].key
    <2>1. /\ pc[r] = "advancing"
          /\ subscription' = [subscription EXCEPT ![key[1]].next = key[2] + 1]
      BY <1>8 DEF SetNextRun, Advance
    <2>2. key \in Subscriptions \X Months
      BY <1>1, <2>1, KeyType DEF KeyOf, Waiting, Resting
    <2> HIDE DEF key
    <2>3. pc'[r] \in {"idle", "finding"} /\ local'[r].due = local[r].due
      BY <1>1, <1>8 DEF SetNextRun, Advance, Goto, Fresh
    <2>4. ReadsFollowInvoices(r)'
      BY <1>3, <1>4, <2>3 DEF ReadsFollowInvoices, Before, Resting
    <2>5. NoMonthSkipped'
      <3> SUFFICES ASSUME NEW s \in Subscriptions, NEW m \in 1 .. subscription'[s].next - 1
                   PROVE  <<s, m>> \in Seen
        BY <1>3 DEF NoMonthSkipped
      <3>1. CASE s # key[1]
        BY <1>1, <1>4, <2>1, <3>1 DEF NoMonthSkipped, TypeOK
      <3>2. CASE s = key[1]
        <4>1. subscription'[s].next = key[2] + 1
          BY <1>1, <2>1, <3>2 DEF TypeOK
        <4>2. Before(key) \subseteq Seen /\ key \in Seen
          BY <1>4, <2>1 DEF ReadsFollowInvoices, Resting, key
        <4>3. CASE m = key[2]
          BY <2>2, <3>2, <4>2, <4>3
        <4>4. CASE m # key[2]
          BY <2>2, <3>2, <4>1, <4>2, <4>4 DEF Before, Months
        <4> QED
          BY <4>3, <4>4
      <3> QED
        BY <3>1, <3>2
    <2>6. RightKey'
      BY <1>1, <1>3, <2>3, RightKeyKeeps DEF Waiting, Resting
    <2> QED
      BY <1>1, <1>3, <2>3, <2>4, <2>5, <2>6, ReadsKeep
  <1> QED
    BY <1>6, <1>7, <1>8 DEF RunStep

LEMMA RequestReads ==
  ASSUME IInv, NEW q \in Requests, CreatePayment(q) \/ AcceptOffer(q)
  PROVE  RightKey' /\ MonthsAreSeen'
  <1>1. /\ TypeOK /\ q \in Processes /\ q \notin Runs
        /\ pc \in [Processes -> Labels] /\ local \in [Processes -> Locals]
    BY TypeParts, BillingAssumption DEF IInv, Processes
  <1>2. Quiet(q)
    BY <1>1, QuietSteps
  <1>3. /\ Others(q) /\ invoices' = invoices /\ uncharged' = uncharged /\ Seen' = Seen
        /\ pc'[q] \in {"planning", "creating"} /\ local'[q].key = <<q, 0>>
        /\ subscription' = subscription
    BY <1>1, <1>2
    DEF Quiet, CreatePayment, AcceptOffer, Request, Goto, Locals, tables, counters, Seen
  <1>4. RightKey'
    BY <1>1, <1>3, RightKeyKeeps DEF KeyOf
  <1>5. NoMonthSkipped'
    BY <1>3 DEF IInv, MonthsAreSeen, NoMonthSkipped
  <1> QED
    BY <1>1, <1>3, <1>4, <1>5, ReadsKeep

(* Every step of the protocol of a charge goes on with it or ends it.         *)
Continues(p) ==
  \/ pc'[p] \in Resting /\ local'[p].due \subseteq local[p].due
  \/ /\ pc'[p] \notin Waiting
     /\ local'[p].key = local[p].key /\ local'[p].due = local[p].due
     /\ pc'[p] = "advancing" => p \in Runs

LEMMA ChargeMoves ==
  ASSUME IInv, NEW p \in Processes, ChargeStep(p) \/ Failure(p)
  PROVE  Others(p) /\ Continues(p) /\ pc[p] \notin Resting /\ subscription' = subscription
  <1>1. /\ TypeOK /\ pc \in [Processes -> Labels] /\ local \in [Processes -> Locals]
        /\ local[p] \in Locals
    BY TypeParts DEF IInv
  <1>2. ASSUME Throw(p) PROVE Others(p) /\ Continues(p)
    <2>1. Others(p) /\ pc'[p] \in Resting /\ local'[p].due = {}
      BY <1>1, <1>2, Moves DEF Resting, Fresh
    <2> QED
      BY <2>1 DEF Continues
  <1>3. ASSUME Made(p) PROVE Others(p) /\ Continues(p)
    <2>1. CASE p \in Runs
      BY <1>1, <1>3, <2>1, Moves DEF Continues, Waiting, Resting
    <2>2. CASE p \notin Runs
      <3>1. local'[p] = Fresh /\ pc'[p] = "done"
        BY <1>1, <1>3, <2>2 DEF Made, Goto
      <3> QED
        BY <1>1, <1>3, <2>2, <3>1, Moves DEF Continues, Resting, Fresh
    <2> QED
      BY <2>1, <2>2
  <1>4. ASSUME NEW label, label \notin Waiting \cup {"advancing"}, Goto(p, label), UNCHANGED local
        PROVE  Others(p) /\ Continues(p)
    BY <1>1, <1>4, Moves DEF Continues
  <1>5. CASE PlanCredit(p) \/ CreditUnavailable(p)
    <2>1. \E n : local' = [local EXCEPT ![p].plan = n]
      BY <1>5 DEF PlanCredit, CreditUnavailable
    <2>2. \E label \in {"creating", "reserving"} : Goto(p, label)
      BY <1>5 DEF PlanCredit, CreditUnavailable
    <2>3. Others(p) /\ local'[p].key = local[p].key /\ local'[p].due = local[p].due
      BY <1>1, <2>1, <2>2 DEF Goto, Others, Locals
    <2>4. pc'[p] \in {"creating", "reserving"}
      BY <1>1, <2>2 DEF Goto
    <2> QED
      BY <1>5, <2>3, <2>4 DEF PlanCredit, CreditUnavailable, tables, Continues, Waiting, Resting
  <1>6. CASE ReserveCredit(p)
    <2>1. \E n : local' = [local EXCEPT ![p].plan = 0, ![p].reserved = n]
      BY <1>6 DEF ReserveCredit, Reserve
    <2>2. Goto(p, "creating")
      BY <1>6 DEF ReserveCredit, Reserve
    <2>3. Others(p) /\ local'[p].key = local[p].key /\ local'[p].due = local[p].due
      BY <1>1, <2>1, <2>2 DEF Goto, Others, Locals
    <2>4. pc'[p] = "creating"
      BY <1>1, <2>2 DEF Goto
    <2> QED
      BY <1>6, <2>3, <2>4 DEF ReserveCredit, Reserve, Continues, Waiting, Resting
  <1>7. CASE CreateInvoice(p)
    <2>1. Made(p) \/ (\E label \in {"beaten", "charging"} : Goto(p, label) /\ UNCHANGED local)
      BY <1>7 DEF CreateInvoice, Create
    <2> QED
      BY <1>3, <1>4, <1>7, <2>1 DEF CreateInvoice, Create, Waiting, Resting
  <1>8. CASE CreateCharge(p) \/ RefuseCharge(p) \/ CreateFails(p) \/ AnswerLost(p)
    <2>1. \E label \in {"attaching", "undoing", "undone"} : Goto(p, label) /\ UNCHANGED local
      BY <1>8 DEF CreateCharge, RefuseCharge, CreateFails, AnswerLost, ChargeThrows
    <2> QED
      BY <1>4, <1>8, <2>1
      DEF CreateCharge, RefuseCharge, CreateFails, AnswerLost, tables, Waiting, Resting
  <1>9. CASE DeleteInvoice(p) \/ DeleteFails(p)
    <2>1. Throw(p) \/ (Goto(p, "undone") /\ UNCHANGED local)
      BY <1>9 DEF DeleteInvoice, DeleteFails, Undone
    <2> QED
      BY <1>2, <1>4, <1>9, <2>1 DEF DeleteInvoice, DeleteFails, tables, Waiting, Resting
  <1>10. CASE AttachCharge(p) \/ RefundCredit(p) \/ RefundFails(p)
    <2>1. Throw(p) \/ Made(p)
      BY <1>10 DEF AttachCharge, RefundCredit, RefundFails
    <2> QED
      BY <1>2, <1>3, <1>10, <2>1 DEF AttachCharge, RefundCredit, RefundFails, tables, Resting
  <1>11. CASE Die(p)
    BY <1>2, <1>11 DEF Die, tables
  <1> QED
    BY <1>5, <1>6, <1>7, <1>8, <1>9, <1>10, <1>11 DEF ChargeStep, Failure

LEMMA ChargeReads ==
  ASSUME IInv, NEW p \in Processes, ChargeStep(p) \/ Failure(p)
  PROVE  RightKey' /\ MonthsAreSeen'
  <1>1. /\ TypeOK /\ failures \in Nat /\ refusals \in Nat
        /\ pc \in [Processes -> Labels]
        /\ p \in Requests => p \notin Runs
    BY TypeParts, BillingAssumption DEF IInv
  <1>2. Others(p) /\ Continues(p) /\ pc[p] \notin Resting /\ subscription' = subscription
    BY ChargeMoves
  <1>3. pc'[p] \notin Waiting => pc[p] \notin Waiting
    <2>1. CASE Die(p)
      BY <1>1, <2>1, Moves DEF Die, Waiting, Resting
    <2>2. CASE ~Die(p)
      BY <2>2
      DEF ChargeStep, Failure, PlanCredit, ReserveCredit, Reserve, CreateInvoice, Create,
          CreateCharge, RefuseCharge, AttachCharge, DeleteInvoice, RefundCredit,
          CreditUnavailable, CreateFails, AnswerLost, DeleteFails, RefundFails, Waiting, Resting
    <2> QED
      BY <2>1, <2>2
  <1>4. RightKey'
    <2>1. pc'[p] \notin Waiting => local'[p].key \in KeyOf(p)
      BY <1>2, <1>3, KeyType DEF Continues, Waiting
    <2>2. p \in Requests => pc'[p] \notin {"finding", "advancing"}
      BY <1>1, <1>2 DEF Continues, Waiting, Resting
    <2> QED
      BY <1>2, <2>1, <2>2, RightKeyKeeps
  <1>5. /\ NoMonthSkipped
        /\ pc[p] = "undoing" => local[p].key \in uncharged
        /\ p \in Runs => ReadsFollowInvoices(p)
    BY DEF IInv, MonthsAreSeen
  <1>6. uncharged \subseteq uncharged'
    BY DEF ChargeStep, Failure, PlanCredit, ReserveCredit, Reserve, CreateInvoice, Create,
           CreateCharge, RefuseCharge, ChargeThrows, AttachCharge, DeleteInvoice, RefundCredit,
           Failing, CreditUnavailable, CreateFails, AnswerLost, DeleteFails, RefundFails, Die,
           counters
  (* Only an invoice whose charge failed is undone.                           *)
  <1>7. Seen \subseteq Seen'
    <2>1. CASE DeleteInvoice(p)
      BY <1>5, <1>6, <2>1 DEF DeleteInvoice, Seen
    <2>2. CASE ~DeleteInvoice(p)
      <3>1. invoices \subseteq invoices'
        BY <2>2
        DEF ChargeStep, Failure, PlanCredit, ReserveCredit, Reserve, CreateInvoice, Create,
            CreateCharge, RefuseCharge, AttachCharge, RefundCredit, CreditUnavailable,
            CreateFails, AnswerLost, DeleteFails, RefundFails, Die, tables
      <3> QED
        BY <1>6, <3>1 DEF Seen
    <2> QED
      BY <2>1, <2>2
  <1>8. ASSUME pc'[p] = "undoing"
        PROVE  local'[p].key \in uncharged'
    <2>1. CASE RefuseCharge(p) \/ AnswerLost(p)
      BY <2>1 DEF RefuseCharge, AnswerLost, ChargeThrows
    <2>2. CASE ~RefuseCharge(p) /\ ~AnswerLost(p)
      <3>1. \/ Throw(p) \/ Made(p)
            \/ \E label \in Labels \ {"undoing"} : Goto(p, label)
        BY <2>2
        DEF ChargeStep, Failure, PlanCredit, ReserveCredit, Reserve, CreateInvoice, Create,
            CreateCharge, AttachCharge, DeleteInvoice, RefundCredit, CreditUnavailable,
            CreateFails, DeleteFails, RefundFails, Die, Undone, Labels
      <3> QED
        BY <1>1, <1>8, <3>1, Moves DEF Goto
    <2> QED
      BY <2>1, <2>2
  <1>9. NoMonthSkipped'
    BY <1>2, <1>5, <1>7 DEF NoMonthSkipped
  <1>10. ASSUME p \in Runs PROVE ReadsFollowInvoices(p)'
    <2>1. \A k \in local'[p].due : Before(k) \subseteq Seen'
      BY <1>2, <1>5, <1>7, <1>10 DEF Continues, ReadsFollowInvoices
    <2>2. ASSUME pc'[p] \notin Waiting
          PROVE  Before(local'[p].key) \subseteq Seen'
      <3>1. pc[p] \notin Waiting /\ local'[p].key = local[p].key
        BY <1>2, <1>3, <2>2 DEF Continues, Waiting
      <3> QED
        BY <1>5, <1>7, <1>10, <3>1 DEF ReadsFollowInvoices, Waiting
    <2>3. ASSUME pc'[p] \in {"beaten", "advancing"}
          PROVE  local'[p].key \in Seen'
      <3>1. local'[p].key = local[p].key
        BY <1>2, <2>3 DEF Continues, Resting
      <3>2. CASE CreateInvoice(p)
        BY <3>1, <3>2 DEF CreateInvoice, Create, Seen
      <3>3. CASE AttachCharge(p)
        <4>1. local[p].key \in Seen
          BY <3>3 DEF AttachCharge, IInv, OneMaker, Makers, Seen
        <4> QED
          BY <1>7, <3>1, <4>1
      <3>4. CASE RefundCredit(p) \/ RefundFails(p)
        <4>1. pc[p] = "beaten"
          BY <1>1, <2>3, <3>4, Moves DEF RefundCredit, RefundFails
        <4> QED
          BY <1>5, <1>7, <1>10, <3>1, <4>1 DEF ReadsFollowInvoices
      <3>5. CASE ~(CreateInvoice(p) \/ AttachCharge(p) \/ RefundCredit(p) \/ RefundFails(p))
        <4>1. \/ Throw(p)
              \/ \E label \in Labels \ {"beaten", "advancing"} : Goto(p, label)
          BY <3>5
          DEF ChargeStep, Failure, PlanCredit, ReserveCredit, Reserve, CreateCharge,
              RefuseCharge, ChargeThrows, DeleteInvoice, CreditUnavailable, CreateFails,
              AnswerLost, DeleteFails, Die, Undone, Labels
        <4> QED
          BY <1>1, <2>3, <4>1, Moves DEF Goto
      <3> QED
        BY <3>2, <3>3, <3>4, <3>5
    <2> QED
      BY <2>1, <2>2, <2>3 DEF ReadsFollowInvoices, Before, Waiting
  <1> QED
    BY <1>2, <1>4, <1>6, <1>7, <1>8, <1>9, <1>10, ReadsKeep

LEMMA WorldReads ==
  ASSUME IInv,
         \/ \E s \in Subscriptions, status \in Statuses : SetStatus(s, status)
         \/ \E f \in Referrals : Convert(f)
         \/ NextMonth
  PROVE  MonthsAreSeen'
  <1>1. UNCHANGED <<invoices, pc, local, uncharged>>
    BY DEF SetStatus, Convert, NextMonth, tables, counters
  <1>2. \A s \in Subscriptions : subscription'[s].next = subscription[s].next
    BY DEF SetStatus, Convert, NextMonth, tables, IInv, TypeOK
  <1> QED
    BY <1>1, <1>2 DEF IInv, MonthsAreSeen, NoMonthSkipped, Seen, ReadsFollowInvoices, Before

-----------------------------------------------------------------------------
LEMMA StepIInv == IInv /\ [Next]_vars => IInv'
  <1> SUFFICES ASSUME IInv, [Next]_vars PROVE IInv'
    OBVIOUS
  <1>1. CASE UNCHANGED vars
    BY <1>1
    DEF vars, tables, counters, IInv, TypeOK, RightKey, OneMaker, Makers, ChargesCounted,
        NoStrayInvoice, MonthsAreSeen, NoMonthSkipped, Seen, ReadsFollowInvoices, Before
  <1>2. ASSUME NEW r \in Runs, StartRun(r) \/ RunStep(r)
        PROVE  IInv'
    <2>1. r \in Processes
      BY DEF Processes
    <2>2. OneMaker' /\ ChargesCounted' /\ NoStrayInvoice'
      BY <1>2, <2>1, QuietSteps, QuietKeeps
    <2> QED
      BY <1>2, <2>2, RunTypes, RunReads DEF IInv
  <1>3. ASSUME NEW q \in Requests, CreatePayment(q) \/ AcceptOffer(q)
        PROVE  IInv'
    <2>1. q \in Processes
      BY DEF Processes
    <2>2. OneMaker' /\ ChargesCounted' /\ NoStrayInvoice'
      BY <1>3, <2>1, QuietSteps, QuietKeeps
    <2> QED
      BY <1>3, <2>2, RequestTypes, RequestReads DEF IInv
  <1>4. ASSUME NEW p \in Processes, ChargeStep(p) \/ Failure(p)
        PROVE  IInv'
    <2>1. OneMaker' /\ ChargesCounted' /\ NoStrayInvoice'
      BY <1>4, QuietSteps, QuietKeeps, MakerKeeps DEF ChargeStep, Failure
    <2> QED
      BY <1>4, <2>1, ChargeTypes, FailureTypes, ChargeReads DEF IInv
  <1>5. CASE \/ \E s \in Subscriptions, status \in Statuses : SetStatus(s, status)
             \/ \E f \in Referrals : Convert(f)
             \/ NextMonth
    BY <1>5, WorldTypes, WorldKeeps, WorldReads DEF IInv
  <1> QED
    BY <1>1, <1>2, <1>3, <1>4, <1>5 DEF Next

(* The inductive invariant holds in every state.                              *)
THEOREM Invariance == Spec => []IInv
  <1>1. Init => IInv
    BY InitIInv
  <1>2. IInv /\ [Next]_vars => IInv'
    BY StepIInv
  <1> QED
    BY <1>1, <1>2, PTL DEF Spec

(* The types of the tables and of what the processes hold: in particular the  *)
(* credit of a client is never negative, though debits race.                  *)
THEOREM TypeCorrect == Spec => []TypeOK
  BY Invariance, PTL DEF IInv

(* For any number of overlapping runs and requests, a month or a request is   *)
(* charged once, and once more at most for every failure.                     *)
THEOREM ChargesAreOnce == Spec => []ChargedOnce
  <1>1. IInv => ChargedOnce
    <2> SUFFICES ASSUME IInv, NEW k \in Keys PROVE charges[k] <= 1 + failures
      BY DEF ChargedOnce
    <2>1. failures \in Nat /\ charges[k] \in Nat
      BY BillingAssumption DEF IInv, TypeOK
    <2> QED
      BY <2>1 DEF IInv, ChargesCounted
  <1> QED
    BY <1>1, Invariance, PTL

(* Without failures, an invoice without its charge has a process that will    *)
(* charge it or undo it.                                                      *)
THEOREM InvoicesAreMade == Spec => []NoStrayInvoice
  BY Invariance, PTL DEF IInv

(* However runs overlap, die or fail, and for any number of refusals, every   *)
(* month a subscription has left behind has its invoice, but one whose charge *)
(* was refused, or whose answer was lost.                                     *)
THEOREM MonthsAreBilled == Spec => []NoMonthSkipped
  <1>1. IInv => NoMonthSkipped
    BY DEF IInv, MonthsAreSeen
  <1> QED
    BY <1>1, Invariance, PTL

-----------------------------------------------------------------------------
(* Sums over finite sets, which SumFunctionOnSet makes element by element, in *)
(* an order that is not known.                                                *)

One(s) == CHOOSE x \in s : TRUE

IsSum(g, f, S) ==
  g = [s \in SUBSET S |-> IF s = {} THEN 0 ELSE f[One(s)] + g[s \ {One(s)}]]

(* The definition of the sum, without the operators it is made of.            *)
LEMMA SumIsChosen ==
  ASSUME NEW f, NEW S
  PROVE  SumFunctionOnSet(f, S) = (CHOOSE g : IsSum(g, f, S))[S]
  BY DEF SumFunctionOnSet, FoldFunctionOnSet, MapThenFoldSet, IsSum, One

(* Induction over finite sets: a collection of them has a smallest one.       *)
LEMMA SmallestSet ==
  ASSUME NEW S, NEW T \in SUBSET FiniteSubsetsOf(S), T # {}
  PROVE  \E s \in T : \A t \in T : ~(t \subseteq s /\ t # s)
  <1>1. PICK s \in T : \A t \in T : ~(<<t, s>> \in StrictSubsetOrdering(S))
    BY FS_StrictSubsetOrderingWellFounded, WFMin
  <1> QED
    BY <1>1 DEF StrictSubsetOrdering, FiniteSubsetsOf

(* What One picks.                                                            *)
LEMMA OneOf == ASSUME NEW s, s # {} PROVE One(s) \in s /\ s \ {One(s)} \subseteq s /\ s \ {One(s)} # s
  BY DEF One

(* Two functions that sum up f agree where both are defined.                  *)
LEMMA SumsAgree ==
  ASSUME NEW f, NEW g, NEW h, NEW s, NEW t, IsSum(g, f, s), IsSum(h, f, t),
         NEW w, IsFiniteSet(w), w \subseteq s, w \subseteq t
  PROVE  g[w] = h[w]
  <1> DEFINE T == {u \in FiniteSubsetsOf(w) : g[u] # h[u]}
  <1>1. SUFFICES ASSUME T # {} PROVE FALSE
    BY DEF FiniteSubsetsOf
  <1>2. PICK u \in T : \A v \in T : ~(v \subseteq u /\ v # u)
    <2>1. T \in SUBSET FiniteSubsetsOf(w)
      OBVIOUS
    <2> HIDE DEF T
    <2> QED
      BY <1>1, <2>1, SmallestSet
  <1>3. u \in SUBSET s /\ u \in SUBSET t /\ u \subseteq w /\ IsFiniteSet(u)
    BY <1>2 DEF FiniteSubsetsOf
  <1>4. u # {}
    BY <1>2, <1>3 DEF IsSum
  <1> DEFINE v == u \ {One(u)}
  <1>5. v \subseteq u /\ v # u /\ IsFiniteSet(v)
    BY <1>3, <1>4, OneOf, FS_Subset
  <1>6. v \in FiniteSubsetsOf(w) /\ v \notin T
    BY <1>2, <1>3, <1>5 DEF FiniteSubsetsOf
  <1>7. g[v] = h[v]
    BY <1>6
  <1>8. g[u] = f[One(u)] + g[v] /\ h[u] = f[One(u)] + h[v]
    BY <1>3, <1>4 DEF IsSum
  <1> QED
    BY <1>2, <1>7, <1>8

(* There is a function that sums up f over the subsets of a finite set.       *)
LEMMA SumExists ==
  ASSUME NEW f, NEW S, IsFiniteSet(S)
  PROVE  \E g : IsSum(g, f, S)
  <1> DEFINE T == {u \in FiniteSubsetsOf(S) : ~\E g : IsSum(g, f, u)}
  <1>1. SUFFICES ASSUME T # {} PROVE FALSE
    BY DEF FiniteSubsetsOf
  <1>2. PICK s \in T : \A v \in T : ~(v \subseteq s /\ v # s)
    <2>1. T \in SUBSET FiniteSubsetsOf(S)
      OBVIOUS
    <2> HIDE DEF T
    <2> QED
      BY <1>1, <2>1, SmallestSet
  <1>3. IsFiniteSet(s) /\ s \subseteq S
    BY <1>2 DEF FiniteSubsetsOf
  <1> DEFINE G(u) == CHOOSE g : IsSum(g, f, u)
             h == [u \in SUBSET s |-> IF u = {} THEN 0
                                      ELSE f[One(u)] + G(u \ {One(u)})[u \ {One(u)}]]
  <1>4. ASSUME NEW u \in SUBSET s, u # s
        PROVE  IsSum(G(u), f, u) /\ IsFiniteSet(u)
    <2>1. IsFiniteSet(u) /\ u \in FiniteSubsetsOf(S)
      BY <1>3, <1>4, FS_Subset DEF FiniteSubsetsOf
    <2>2. \E g : IsSum(g, f, u)
      BY <1>2, <1>4, <2>1
    <2> QED
      BY <2>1, <2>2
  <1>5. ASSUME NEW u \in SUBSET s, u # s
        PROVE  h[u] = G(u)[u]
    <2>1. IsSum(G(u), f, u) /\ IsFiniteSet(u)
      BY <1>4, <1>5
    <2>2. CASE u = {}
      BY <2>1, <2>2 DEF IsSum
    <2>3. CASE u # {}
      <3> DEFINE v == u \ {One(u)}
      <3>1. v \subseteq u /\ v \in SUBSET s /\ v # s
        BY <2>3, OneOf
      <3>2. IsSum(G(v), f, v) /\ IsFiniteSet(v)
        BY <1>4, <3>1
      <3>3. G(u)[u] = f[One(u)] + G(u)[v]
        BY <2>1, <2>3 DEF IsSum
      <3> HIDE DEF G
      <3>4. G(u)[v] = G(v)[v]
        BY <2>1, <3>1, <3>2, SumsAgree
      <3>5. h[u] = f[One(u)] + G(v)[v]
        BY <2>3
      <3> QED
        BY <3>3, <3>4, <3>5
    <2> QED
      BY <2>2, <2>3
  <1>6. ASSUME NEW u \in SUBSET s, u # {}
        PROVE  h[u] = f[One(u)] + h[u \ {One(u)}]
    <2>1. u \ {One(u)} \in SUBSET s /\ u \ {One(u)} # s
      BY <1>6, OneOf
    <2>2. h[u \ {One(u)}] = G(u \ {One(u)})[u \ {One(u)}]
      BY <1>5, <2>1
    <2> QED
      BY <1>6, <2>2
  <1>7. h = [u \in SUBSET s |-> IF u = {} THEN 0 ELSE f[One(u)] + h[u \ {One(u)}]]
    <2> DEFINE hh == [u \in SUBSET s |-> IF u = {} THEN 0 ELSE f[One(u)] + h[u \ {One(u)}]]
    <2>1. \A u \in SUBSET s : h[u] = hh[u]
      BY <1>6
    <2> QED
      BY <2>1
  <1>8. IsSum(h, f, s)
    BY <1>7 DEF IsSum
  <1> QED
    BY <1>2, <1>8

(* The equation that defines the sum.                                         *)
LEMMA SumStep ==
  ASSUME NEW f, NEW S, IsFiniteSet(S)
  PROVE  SumFunctionOnSet(f, S) =
           IF S = {} THEN 0 ELSE f[One(S)] + SumFunctionOnSet(f, S \ {One(S)})
  <1> DEFINE G(u) == CHOOSE g : IsSum(g, f, u)
  <1>1. IsSum(G(S), f, S)
    BY SumExists
  <1>2. CASE S = {}
    BY <1>1, <1>2, SumIsChosen DEF IsSum
  <1>3. CASE S # {}
    <2> DEFINE v == S \ {One(S)}
    <2>1. IsFiniteSet(v) /\ v \subseteq S
      BY FS_Subset
    <2>2. IsSum(G(v), f, v)
      BY <2>1, SumExists
    <2>3. SumFunctionOnSet(f, S) = G(S)[S] /\ SumFunctionOnSet(f, v) = G(v)[v]
      BY SumIsChosen
    <2>4. G(S)[S] = f[One(S)] + G(S)[v]
      BY <1>1, <1>3 DEF IsSum
    <2> HIDE DEF G
    <2>5. G(S)[v] = G(v)[v]
      BY <1>1, <2>1, <2>2, SumsAgree
    <2> QED
      BY <1>3, <2>3, <2>4, <2>5
  <1> QED
    BY <1>2, <1>3

(* Nothing sums up to zero.                                                   *)
LEMMA SumOfNone ==
  ASSUME NEW f
  PROVE  SumFunctionOnSet(f, {}) = 0
  BY SumStep, FS_EmptySet

(* A sum of naturals is one.                                                  *)
LEMMA SumIsNat ==
  ASSUME NEW f, NEW S, IsFiniteSet(S), \A x \in S : f[x] \in Nat
  PROVE  SumFunctionOnSet(f, S) \in Nat
  <1> DEFINE T == {u \in FiniteSubsetsOf(S) : SumFunctionOnSet(f, u) \notin Nat}
  <1>1. SUFFICES ASSUME T # {} PROVE FALSE
    BY DEF FiniteSubsetsOf
  <1>2. PICK s \in T : \A v \in T : ~(v \subseteq s /\ v # s)
    <2>1. T \in SUBSET FiniteSubsetsOf(S)
      OBVIOUS
    <2> HIDE DEF T
    <2> QED
      BY <1>1, <2>1, SmallestSet
  <1>3. IsFiniteSet(s) /\ s \subseteq S
    BY <1>2 DEF FiniteSubsetsOf
  <1> DEFINE v == s \ {One(s)}
  <1>4. s # {}
    <2>1. SumFunctionOnSet(f, s) \notin Nat
      BY <1>2
    <2>2. SumFunctionOnSet(f, {}) \in Nat
      BY SumOfNone
    <2> QED
      BY <2>1, <2>2
  <1>5. One(s) \in s /\ v \subseteq s /\ v # s /\ IsFiniteSet(v)
    BY <1>3, <1>4, OneOf, FS_Subset
  <1>6. SumFunctionOnSet(f, v) \in Nat
    BY <1>2, <1>3, <1>5 DEF FiniteSubsetsOf
  <1>7. SumFunctionOnSet(f, s) = f[One(s)] + SumFunctionOnSet(f, v)
    BY <1>3, <1>4, SumStep
  <1> QED
    BY <1>2, <1>3, <1>5, <1>6, <1>7

(* Any element may be taken first.                                            *)
LEMMA SumTakesAny ==
  ASSUME NEW f, NEW S, IsFiniteSet(S), \A x \in S : f[x] \in Nat, NEW x \in S
  PROVE  SumFunctionOnSet(f, S) = f[x] + SumFunctionOnSet(f, S \ {x})
  <1> DEFINE Bad(u) == \E y \in u : SumFunctionOnSet(f, u) # f[y] + SumFunctionOnSet(f, u \ {y})
             T == {u \in FiniteSubsetsOf(S) : Bad(u)}
  <1>1. SUFFICES ASSUME T # {} PROVE FALSE
    BY DEF FiniteSubsetsOf
  <1>2. PICK s \in T : \A v \in T : ~(v \subseteq s /\ v # s)
    <2>1. T \in SUBSET FiniteSubsetsOf(S)
      OBVIOUS
    <2> HIDE DEF T
    <2> QED
      BY <1>1, <2>1, SmallestSet
  <1>3. IsFiniteSet(s) /\ s \subseteq S
    BY <1>2 DEF FiniteSubsetsOf
  <1>4. PICK y \in s : SumFunctionOnSet(f, s) # f[y] + SumFunctionOnSet(f, s \ {y})
    BY <1>2
  <1> DEFINE z == One(s)
  <1>5. z \in s
    BY <1>4, OneOf
  <1>6. SumFunctionOnSet(f, s) = f[z] + SumFunctionOnSet(f, s \ {z})
    BY <1>3, <1>4, SumStep
  <1> HIDE DEF z
  <1>7. z # y
    BY <1>4, <1>6
  <1>8. /\ IsFiniteSet(s \ {z}) /\ IsFiniteSet(s \ {y}) /\ IsFiniteSet((s \ {z}) \ {y})
        /\ s \ {z} \in FiniteSubsetsOf(S) /\ s \ {y} \in FiniteSubsetsOf(S)
    BY <1>3, FS_Subset DEF FiniteSubsetsOf
  <1>9. ~Bad(s \ {z}) /\ ~Bad(s \ {y})
    BY <1>2, <1>4, <1>5, <1>8
  <1>10. SumFunctionOnSet(f, s \ {z}) = f[y] + SumFunctionOnSet(f, (s \ {z}) \ {y})
    BY <1>4, <1>7, <1>9
  <1>11. SumFunctionOnSet(f, s \ {y}) = f[z] + SumFunctionOnSet(f, (s \ {y}) \ {z})
    BY <1>5, <1>7, <1>9
  <1>12. (s \ {y}) \ {z} = (s \ {z}) \ {y}
    OBVIOUS
  <1>13. f[y] \in Nat /\ f[z] \in Nat /\ SumFunctionOnSet(f, (s \ {z}) \ {y}) \in Nat
    BY <1>3, <1>4, <1>5, <1>8, SumIsNat
  <1>14. SumFunctionOnSet(f, s) = f[y] + SumFunctionOnSet(f, s \ {y})
    <2> DEFINE c == SumFunctionOnSet(f, (s \ {z}) \ {y})
    <2>1. SumFunctionOnSet(f, s) = f[z] + (f[y] + c) /\ SumFunctionOnSet(f, s \ {y}) = f[z] + c
      BY <1>6, <1>10, <1>11, <1>12
    <2> HIDE DEF c
    <2> QED
      BY <1>13, <2>1 DEF c
  <1> QED
    BY <1>4, <1>14

(* The sum depends on what is summed up only.                                 *)
LEMMA SumsOfEquals ==
  ASSUME NEW f, NEW g, NEW S, IsFiniteSet(S), \A x \in S : f[x] = g[x]
  PROVE  SumFunctionOnSet(f, S) = SumFunctionOnSet(g, S)
  <1> DEFINE T == {u \in FiniteSubsetsOf(S) : SumFunctionOnSet(f, u) # SumFunctionOnSet(g, u)}
  <1>1. SUFFICES ASSUME T # {} PROVE FALSE
    BY DEF FiniteSubsetsOf
  <1>2. PICK s \in T : \A v \in T : ~(v \subseteq s /\ v # s)
    <2>1. T \in SUBSET FiniteSubsetsOf(S)
      OBVIOUS
    <2> HIDE DEF T
    <2> QED
      BY <1>1, <2>1, SmallestSet
  <1>3. IsFiniteSet(s) /\ s \subseteq S
    BY <1>2 DEF FiniteSubsetsOf
  <1> DEFINE v == s \ {One(s)}
  <1>4. s # {}
    BY <1>2, SumOfNone
  <1>5. One(s) \in s /\ v \subseteq s /\ v # s /\ IsFiniteSet(v)
    BY <1>3, <1>4, OneOf, FS_Subset
  <1>6. SumFunctionOnSet(f, v) = SumFunctionOnSet(g, v)
    BY <1>2, <1>3, <1>5 DEF FiniteSubsetsOf
  <1>7. /\ SumFunctionOnSet(f, s) = f[One(s)] + SumFunctionOnSet(f, v)
        /\ SumFunctionOnSet(g, s) = g[One(s)] + SumFunctionOnSet(g, v)
    BY <1>3, <1>4, SumStep
  <1> QED
    BY <1>2, <1>3, <1>5, <1>6, <1>7

(* One element more.                                                          *)
LEMMA SumAdds ==
  ASSUME NEW f, NEW S, IsFiniteSet(S), NEW x, x \notin S, \A y \in S \cup {x} : f[y] \in Nat
  PROVE  SumFunctionOnSet(f, S \cup {x}) = f[x] + SumFunctionOnSet(f, S)
  <1>1. IsFiniteSet(S \cup {x}) /\ (S \cup {x}) \ {x} = S
    BY FS_AddElement
  <1> QED
    BY <1>1, SumTakesAny

-----------------------------------------------------------------------------
(* The credit of the clients.                                                 *)

Owning == {"creating", "charging", "attaching", "undoing", "undone", "beaten"}

(* What p holds of the credit of c, and what the others hold.                 *)
HeldBy(p, c) == IF p \in Holders /\ Client(local[p].key) = c THEN local[p].reserved ELSE 0

HeldByOthers(p, c) ==
  SumFunctionOnSet([q \in Processes |-> local[q].reserved],
                   {q \in Holders : Client(local[q].key) = c} \ {p})

LEMMA HeldIsSplit ==
  ASSUME TypeOK, IsFiniteSet(Holders), NEW p \in Processes, NEW c
  PROVE  /\ HeldBy(p, c) \in Nat
         /\ HeldByOthers(p, c) \in Nat
         /\ Held(c) = HeldBy(p, c) + HeldByOthers(p, c)
  <1> DEFINE f == [q \in Processes |-> local[q].reserved]
             S == {q \in Holders : Client(local[q].key) = c}
  <1>1. S \subseteq Processes /\ IsFiniteSet(S) /\ IsFiniteSet(S \ {p})
    BY FS_Subset DEF Holders
  <1>2. \A q \in Processes : f[q] \in Nat
    BY LocalType
  <1>3. Held(c) = SumFunctionOnSet(f, S) /\ HeldByOthers(p, c) = SumFunctionOnSet(f, S \ {p})
    BY DEF Held, HeldByOthers
  <1>4. HeldBy(p, c) = IF p \in S THEN f[p] ELSE 0
    BY DEF HeldBy
  <1> HIDE DEF f, S
  <1>5. SumFunctionOnSet(f, S \ {p}) \in Nat
    BY <1>1, <1>2, SumIsNat
  <1>6. CASE p \in S
    <2>1. SumFunctionOnSet(f, S) = f[p] + SumFunctionOnSet(f, S \ {p})
      BY <1>1, <1>2, <1>6, SumTakesAny
    <2> QED
      BY <1>2, <1>3, <1>4, <1>5, <1>6, <2>1
  <1>7. CASE p \notin S
    <2>1. S \ {p} = S
      BY <1>7
    <2> QED
      BY <1>3, <1>4, <1>5, <1>7, <2>1
  <1> QED
    BY <1>6, <1>7

HeldSplits ==
  \A p \in Processes : \A c \in Clients : HeldBy(p, c) \in Nat /\ Held(c) = HeldBy(p, c) + HeldByOthers(p, c)

LEMMA HeldSplitsAlways == TypeOK /\ IsFiniteSet(Holders) => HeldSplits
  BY HeldIsSplit DEF HeldSplits

LEMMA OthersHold ==
  ASSUME TypeOK, TypeOK', IsFiniteSet(Holders), NEW p \in Processes, Others(p), NEW c
  PROVE  IsFiniteSet(Holders') /\ HeldByOthers(p, c)' = HeldByOthers(p, c)
  <1>1. \A q \in Processes \ {p} : local'[q] = local[q]
    BY DEF Others
  <1>2. Holders' \subseteq Holders \cup {p}
    BY <1>1 DEF Holders
  <1>3. IsFiniteSet(Holders')
    BY <1>2, FS_AddElement, FS_Subset
  <1> DEFINE f == [q \in Processes |-> local[q].reserved]
             g == [q \in Processes |-> local'[q].reserved]
             S == {q \in Holders : Client(local[q].key) = c} \ {p}
             T == {q \in Holders' : Client(local'[q].key) = c} \ {p}
  <1>4. S = T /\ S \subseteq Processes
    BY <1>1 DEF Holders, Client
  <1>5. \A q \in S : f[q] = g[q]
    BY <1>1, <1>4
  <1>6. IsFiniteSet(S)
    BY FS_Subset
  <1>7. HeldByOthers(p, c) = SumFunctionOnSet(f, S) /\ HeldByOthers(p, c)' = SumFunctionOnSet(g, T)
    BY DEF HeldByOthers, Client
  <1> HIDE DEF f, g, S, T
  <1>8. SumFunctionOnSet(f, S) = SumFunctionOnSet(g, S)
    BY <1>5, <1>6, SumsOfEquals
  <1> QED
    BY <1>3, <1>4, <1>7, <1>8

LEMMA SpentIsNat ==
  ASSUME TypeOK, IsFiniteSet(attached), NEW c
  PROVE  Spent(c) \in Nat /\ IsFiniteSet({k \in attached : Client(k) = c})
  <1> DEFINE S == {k \in attached : Client(k) = c}
  <1>1. IsFiniteSet(S)
    BY FS_Subset
  <1>2. \A k \in S : discount[k] \in Nat
    BY DEF TypeOK
  <1> HIDE DEF S
  <1>3. SumFunctionOnSet(discount, S) \in Nat
    BY <1>1, <1>2, SumIsNat
  <1> QED
    BY <1>1, <1>3 DEF S, Spent

SpentIsCounted == \A c \in Clients : Spent(c) \in Nat

LEMMA SpentAlwaysCounted == TypeOK /\ IsFiniteSet(attached) => SpentIsCounted
  BY SpentIsNat DEF SpentIsCounted

LEMMA SpentStays ==
  ASSUME TypeOK, IsFiniteSet(attached), attached' = attached,
         \A k \in attached : discount'[k] = discount[k], NEW c
  PROVE  Spent(c)' = Spent(c)
  <1> DEFINE S == {k \in attached : Client(k) = c}
  <1>1. IsFiniteSet(S) /\ \A k \in S : discount[k] = discount'[k]
    BY FS_Subset
  <1>2. Spent(c) = SumFunctionOnSet(discount, S) /\ Spent(c)' = SumFunctionOnSet(discount', S)
    BY DEF Spent, Client
  <1> HIDE DEF S
  <1> QED
    BY <1>1, <1>2, SumsOfEquals

LEMMA SpentGrows ==
  ASSUME TypeOK, IsFiniteSet(attached), NEW k \in Keys, k \notin attached,
         attached' = attached \cup {k}, discount' = discount, NEW c
  PROVE  Spent(c)' = Spent(c) + (IF Client(k) = c THEN discount[k] ELSE 0)
  <1> DEFINE S == {j \in attached : Client(j) = c}
  <1>1. IsFiniteSet(S) /\ k \notin S /\ \A j \in S \cup {k} : discount[j] \in Nat
    BY FS_Subset DEF TypeOK
  <1>2. Spent(c) = SumFunctionOnSet(discount, S)
    BY DEF Spent
  <1>3. CASE Client(k) = c
    <2>1. {j \in attached' : Client(j) = c} = S \cup {k}
      BY <1>3
    <2>2. Spent(c)' = SumFunctionOnSet(discount, S \cup {k})
      BY <2>1 DEF Spent, Client
    <2> HIDE DEF S
    <2>3. SumFunctionOnSet(discount, S \cup {k}) = discount[k] + SumFunctionOnSet(discount, S)
      BY <1>1, SumAdds
    <2>4. SumFunctionOnSet(discount, S) \in Nat /\ discount[k] \in Nat
      BY <1>1, SumIsNat
    <2> QED
      BY <1>2, <1>3, <2>2, <2>3, <2>4
  <1>4. CASE Client(k) # c
    <2>1. {j \in attached' : Client(j) = c} = S
      BY <1>4
    <2>2. Spent(c)' = SumFunctionOnSet(discount, S)
      BY <2>1 DEF Spent, Client
    <2>3. Spent(c) \in Nat
      BY SpentIsNat
    <2> QED
      BY <1>2, <1>4, <2>2, <2>3
  <1> QED
    BY <1>3, <1>4

LEMMA KeysAreNotNoKey == NoKey \notin Keys
  BY BillingAssumption DEF NoKey, Keys, Months

(* What the client c has, has spent and p holds: the part of its account that *)
(* a step of p may change.                                                    *)
Part(p, c) == credit[c] + Spent(c) + HeldBy(p, c)

LEMMA PartIsNat ==
  ASSUME TypeOK, IsFiniteSet(Holders), IsFiniteSet(attached), NEW p \in Processes, NEW c \in Clients
  PROVE  Part(p, c) \in Nat
  <1>1. credit[c] \in Nat
    BY DEF TypeOK
  <1>2. Spent(c) \in Nat
    BY SpentIsNat
  <1>3. HeldBy(p, c) \in Nat
    BY HeldIsSplit
  <1> QED
    BY <1>1, <1>2, <1>3 DEF Part

(* A step of p keeps that part, unless it fails, and then does not add to it. *)
Settled(p) ==
  /\ Others(p)
  /\ converted' = converted
  /\ failures' \in {failures, failures + 1}
  /\ \A c \in Clients : /\ Part(p, c)' <= Part(p, c)
                        /\ failures' = failures => Part(p, c)' = Part(p, c)

LEMMA SettledKeeps ==
  ASSUME CreditIInv, TypeOK', CreditInOnePlace', NEW p \in Processes, Settled(p)
  PROVE  CreditIsKept'
  <1>1. /\ TypeOK /\ IsFiniteSet(Holders) /\ IsFiniteSet(attached) /\ failures \in Nat
        /\ IsFiniteSet(Holders') /\ IsFiniteSet(attached') /\ IsFiniteSet(converted)
    BY BillingAssumption DEF CreditIInv, CreditInOnePlace, IInv, TypeOK
  <1> SUFFICES ASSUME NEW c \in Clients
               PROVE  /\ credit'[c] + Spent(c)' + Held(c)' <= Earned(c)'
                      /\ failures' = 0 => credit'[c] + Spent(c)' + Held(c)' = Earned(c)'
    BY DEF CreditIsKept
  <1>2. Earned(c)' = Earned(c)
    BY DEF Settled, Earned, Rewarding
  <1>3. /\ credit[c] + Spent(c) + Held(c) <= Earned(c)
        /\ failures = 0 => credit[c] + Spent(c) + Held(c) = Earned(c)
    BY DEF CreditIInv, CreditIsKept
  <1>4. Earned(c) \in Nat
    <2>1. IsFiniteSet(Rewarding(c))
      BY <1>1, FS_Subset DEF Rewarding
    <2>2. Cardinality(Rewarding(c)) \in Nat /\ Reward \in Nat
      BY <2>1, FS_CardinalityType, BillingAssumption
    <2> QED
      BY <2>2 DEF Earned
  <1> DEFINE x == HeldByOthers(p, c)
  <1>5. /\ x \in Nat /\ HeldBy(p, c) \in Nat /\ HeldBy(p, c)' \in Nat
        /\ Held(c) = HeldBy(p, c) + x
        /\ Held(c)' = HeldBy(p, c)' + x
    <2>1. HeldByOthers(p, c)' = x
      BY <1>1, OthersHold DEF Settled
    <2>2. HeldBy(p, c) \in Nat /\ x \in Nat /\ Held(c) = HeldBy(p, c) + x
      BY <1>1, HeldIsSplit
    <2>3. HeldBy(p, c)' \in Nat /\ Held(c)' = HeldBy(p, c)' + HeldByOthers(p, c)'
      <3>1. (TypeOK /\ IsFiniteSet(Holders) => HeldSplits)'
        BY HeldSplitsAlways, PTL
      <3> QED
        BY <1>1, <3>1 DEF HeldSplits
    <2> QED
      BY <2>1, <2>2, <2>3
  <1>6. Spent(c) \in Nat /\ credit[c] \in Nat
    BY <1>1, SpentIsNat DEF TypeOK
  <1>7. credit'[c] \in Nat
    BY DEF TypeOK
  <1>8. Spent(c)' \in Nat
    <2>1. (TypeOK /\ IsFiniteSet(attached) => SpentIsCounted)'
      BY SpentAlwaysCounted, PTL
    <2> QED
      BY <1>1, <2>1 DEF SpentIsCounted
  <1> QED
    BY <1>1, <1>2, <1>3, <1>4, <1>5, <1>6, <1>7, <1>8 DEF Settled, Part

(* A step of p that leaves the invoices alone, and what it may do with credit. *)
Quietly(p) ==
  /\ Others(p)
  /\ UNCHANGED <<invoices, attached, discount, converted>>
  /\ failures' \in {failures, failures + 1}
  /\ pc'[p] \notin Owning => local'[p].reserved = 0
  /\ pc'[p] \in Making => /\ pc[p] \in Making
                          /\ local'[p].key = local[p].key
                          /\ local'[p].reserved = local[p].reserved

(* Nothing happens to the credit.                                             *)
Holding(p) ==
  /\ credit' = credit
  /\ local'[p].reserved = local[p].reserved
  /\ local'[p].key = local[p].key \/ local[p].reserved = 0

(* A process that fails keeps what it holds, or forgets it.                    *)
Losing(p) == credit' = credit /\ local'[p].reserved = 0 /\ failures' # failures

(* A process takes credit, or gives back what it has.                          *)
Taking(p) ==
  /\ local[p].key \in Keys /\ local'[p].key = local[p].key
  /\ local[p].reserved = 0
  /\ credit' = [credit EXCEPT ![Client(local[p].key)] = @ - local'[p].reserved]

Giving(p) ==
  /\ local[p].key \in Keys
  /\ local'[p].reserved = 0
  /\ credit' = [credit EXCEPT ![Client(local[p].key)] = @ + local[p].reserved]

LEMMA QuietlyKeeps ==
  ASSUME CreditIInv, TypeOK', NEW p \in Processes, Quietly(p)
  PROVE  CreditInOnePlace'
  <1>1. /\ TypeOK /\ CreditInOnePlace
        /\ IsFiniteSet(Holders) /\ IsFiniteSet(attached) /\ IsFiniteSet(converted)
    BY DEF CreditIInv, CreditInOnePlace, IInv
  <1>2. IsFiniteSet(Holders')
    BY <1>1, OthersHold DEF Quietly
  <1>3. ASSUME NEW q \in Processes
        PROVE  /\ pc'[q] \notin Owning => local'[q].reserved = 0
               /\ pc'[q] \in Making => /\ local'[q].key \notin attached'
                                       /\ discount'[local'[q].key] = local'[q].reserved
    <2>1. CASE q = p
      BY <1>1, <2>1 DEF Quietly, CreditInOnePlace, Makers, Making
    <2>2. CASE q # p
      BY <1>1, <2>2 DEF Quietly, Others, CreditInOnePlace, Makers, Making, Owning
    <2> QED
      BY <2>1, <2>2
  <1> QED
    BY <1>1, <1>2, <1>3 DEF CreditInOnePlace, Makers, Making, Owning, Quietly

LEMMA QuietlySettles ==
  ASSUME CreditIInv, TypeOK', NEW p \in Processes, Quietly(p),
         Holding(p) \/ Losing(p) \/ Taking(p) \/ Giving(p)
  PROVE  Settled(p)
  <1>1. TypeOK /\ IsFiniteSet(attached)
    BY DEF CreditIInv, CreditInOnePlace, IInv
  <1>2. local[p].reserved \in Nat /\ local'[p].reserved \in Nat
    <2>1. local \in [Processes -> Locals] /\ local' \in [Processes -> Locals]
      BY <1>1 DEF TypeOK, Locals
    <2> QED
      BY <2>1 DEF Locals
  <1> SUFFICES ASSUME NEW c \in Clients
               PROVE  /\ Part(p, c)' <= Part(p, c)
                      /\ failures' = failures => Part(p, c)' = Part(p, c)
    BY DEF Settled, Quietly
  <1>3. Spent(c)' = Spent(c) /\ Spent(c) \in Nat
    <2>1. attached' = attached /\ discount' = discount
      BY DEF Quietly
    <2>2. Spent(c)' = Spent(c)
      BY <1>1, <2>1, SpentStays
    <2>3. Spent(c) \in Nat
      BY <1>1, SpentIsNat
    <2> QED
      BY <2>2, <2>3
  <1>4. credit[c] \in Nat /\ credit'[c] \in Nat /\ credit \in [Clients -> Nat]
    <2>1. credit \in [Clients -> Nat] /\ credit' \in [Clients -> Nat]
      BY <1>1 DEF TypeOK
    <2> QED
      BY <2>1
  <1>5. HeldBy(p, c)' = IF local'[p].key # NoKey /\ Client(local'[p].key) = c THEN local'[p].reserved ELSE 0
    BY DEF HeldBy, Holders, Client
  <1>6. HeldBy(p, c) = IF local[p].key # NoKey /\ Client(local[p].key) = c THEN local[p].reserved ELSE 0
    BY DEF HeldBy, Holders
  <1>7. HeldBy(p, c) \in Nat /\ HeldBy(p, c)' \in Nat
    BY <1>2, <1>5, <1>6
  <1>8. CASE Holding(p)
    <2>1. HeldBy(p, c)' = HeldBy(p, c)
      BY <1>5, <1>6, <1>8 DEF Holding
    <2> QED
      BY <1>3, <1>4, <1>7, <1>8, <2>1 DEF Part, Holding
  <1>9. CASE Losing(p)
    <2>1. HeldBy(p, c)' = 0
      BY <1>5, <1>9 DEF Losing
    <2> QED
      BY <1>3, <1>4, <1>7, <1>9, <2>1 DEF Part, Losing
  <1>10. CASE Taking(p)
    <2>1. local[p].key # NoKey /\ local'[p].key # NoKey
      BY <1>10, KeysAreNotNoKey DEF Taking
    <2>2. CASE Client(local[p].key) = c
      <3>1. credit'[c] = credit[c] - local'[p].reserved
        BY <1>4, <1>10, <2>2 DEF Taking
      <3>2. HeldBy(p, c) = 0 /\ HeldBy(p, c)' = local'[p].reserved
        BY <1>5, <1>6, <1>10, <2>1, <2>2 DEF Taking
      <3> QED
        BY <1>2, <1>3, <1>4, <3>1, <3>2 DEF Part
    <2>3. CASE Client(local[p].key) # c
      <3>1. credit'[c] = credit[c]
        BY <1>4, <1>10, <2>3 DEF Taking
      <3>2. HeldBy(p, c) = 0 /\ HeldBy(p, c)' = 0
        BY <1>5, <1>6, <1>10, <2>3 DEF Taking
      <3> QED
        BY <1>3, <1>4, <3>1, <3>2 DEF Part
    <2> QED
      BY <2>2, <2>3
  <1>11. CASE Giving(p)
    <2>1. local[p].key # NoKey /\ HeldBy(p, c)' = 0
      BY <1>5, <1>11, KeysAreNotNoKey DEF Giving
    <2>2. CASE Client(local[p].key) = c
      <3>1. credit'[c] = credit[c] + local[p].reserved
        BY <1>4, <1>11, <2>2 DEF Giving
      <3>2. HeldBy(p, c) = local[p].reserved
        BY <1>6, <2>1, <2>2
      <3> QED
        BY <1>2, <1>3, <1>4, <2>1, <3>1, <3>2 DEF Part
    <2>3. CASE Client(local[p].key) # c
      <3>1. credit'[c] = credit[c] /\ HeldBy(p, c) = 0
        BY <1>4, <1>6, <1>11, <2>3 DEF Giving
      <3> QED
        BY <1>3, <1>4, <2>1, <3>1 DEF Part
    <2> QED
      BY <2>2, <2>3
  <1> QED
    BY <1>8, <1>9, <1>10, <1>11

(* How Throw, Made and Undone treat what a process holds.                     *)
LEMMA Forgets ==
  ASSUME TypeOK, NEW p \in Processes
  PROVE  /\ Throw(p) => Others(p) /\ local'[p] = Fresh /\ local'[p].reserved = 0 /\ pc'[p] \in Resting
         /\ Made(p) => Others(p) /\ local'[p].reserved = 0 /\ pc'[p] \in {"advancing", "done"}
         /\ Undone(p) /\ local[p].reserved > 0 =>
              Others(p) /\ local' = local /\ pc'[p] = "undone"
         /\ Undone(p) /\ ~(local[p].reserved > 0) => Throw(p)
  <1>1. pc \in [Processes -> Labels] /\ local \in [Processes -> Locals] /\ local[p] \in Locals
    BY TypeParts
  <1>2. Fresh.reserved = 0
    BY DEF Fresh
  <1>3. Made(p) => Others(p) /\ local'[p].reserved = 0 /\ pc'[p] \in {"advancing", "done"}
    <2>1. CASE p \in Runs
      BY <1>1, <2>1 DEF Made, Goto, Others, Locals
    <2>2. CASE p \notin Runs
      BY <1>1, <1>2, <2>2 DEF Made, Goto, Others
    <2> QED
      BY <2>1, <2>2
  <1>4. Throw(p) => Others(p) /\ local'[p] = Fresh /\ pc'[p] \in Resting
    BY <1>1 DEF Throw, Goto, Others, Resting
  <1> QED
    BY <1>1, <1>2, <1>3, <1>4 DEF Undone, Goto, Others

(* The steps that leave the invoices alone.                                   *)
LEMMA QuietCredit ==
  ASSUME CreditIInv, NEW p \in Processes,
         \/ p \in Runs /\ (StartRun(p) \/ RunStep(p))
         \/ p \in Requests /\ (CreatePayment(p) \/ AcceptOffer(p))
         \/ PlanCredit(p) \/ ReserveCredit(p) \/ CreateCharge(p) \/ RefuseCharge(p) \/ RefundCredit(p)
         \/ Failure(p)
         \/ CreateInvoice(p) /\ local[p].key \in invoices
  PROVE  Quietly(p) /\ (Holding(p) \/ Losing(p) \/ Taking(p) \/ Giving(p))
  <1>1. /\ TypeOK /\ pc \in [Processes -> Labels] /\ local \in [Processes -> Locals] /\ local[p] \in Locals
        /\ failures \in Nat /\ failures + 1 # failures
    BY TypeParts, BillingAssumption DEF CreditIInv, IInv
  <1>2. pc[p] \notin Owning => local[p].reserved = 0
    BY DEF CreditIInv, CreditInOnePlace, Owning
  <1>3. pc[p] \notin Waiting => local[p].key \in Keys
    BY KeyType DEF CreditIInv
  <1> USE DEF Owning, Making
  <1>4. CASE p \in Runs /\ StartRun(p)
    BY <1>1, <1>2, <1>4 DEF StartRun, Goto, Quietly, Holding, Others, Resting, tables, counters, Locals
  <1>5. CASE p \in Runs /\ RunStep(p)
    <2>1. ASSUME NEW k \in local[p].due, FindInvoice(p, k)
          PROVE  Quietly(p) /\ Holding(p)
      <3>1. local'[p].reserved = 0 /\ local[p].reserved = 0
        BY <1>1, <1>2, <2>1 DEF FindInvoice, Fresh
      <3> QED
        BY <1>1, <2>1, <3>1 DEF FindInvoice, Goto, Quietly, Holding, Others, tables, counters
    <2>2. CASE SetNextRun(p)
      <3>1. local'[p].reserved = 0 /\ local[p].reserved = 0
        BY <1>1, <1>2, <2>2 DEF SetNextRun, Advance, Fresh
      <3> QED
        BY <1>1, <2>2, <3>1 DEF SetNextRun, Advance, Goto, Quietly, Holding, Others, counters
    <2> QED
      BY <1>5, <2>1, <2>2 DEF RunStep
  <1>6. CASE p \in Requests /\ (CreatePayment(p) \/ AcceptOffer(p))
    <2>1. local'[p].reserved = 0 /\ local[p].reserved = 0
      BY <1>1, <1>2, <1>6 DEF CreatePayment, AcceptOffer, Request, Resting, Locals
    <2> QED
      BY <1>1, <1>6, <2>1
      DEF CreatePayment, AcceptOffer, Request, Goto, Quietly, Holding, Others, tables, counters
  <1>7. CASE PlanCredit(p)
    <2>1. local'[p].reserved = local[p].reserved /\ local'[p].key = local[p].key
      BY <1>1, <1>7 DEF PlanCredit, Locals
    <2> QED
      BY <1>1, <1>2, <1>7, <2>1 DEF PlanCredit, Goto, Quietly, Holding, Others, tables, counters
  <1>8. CASE ReserveCredit(p)
    <2> DEFINE reserved == IF Covered(p) THEN local[p].plan ELSE 0
    <2>1. Reserve(p, reserved, reserved)
      BY <1>8 DEF ReserveCredit
    <2> HIDE DEF reserved
    <2>2. local'[p].reserved = reserved /\ local'[p].key = local[p].key
      BY <1>1, <2>1 DEF Reserve, Locals
    <2>3. Quietly(p)
      BY <1>1, <2>1 DEF Reserve, Goto, Quietly, Others, counters
    <2>4. Taking(p)
      BY <1>2, <1>3, <2>1, <2>2 DEF Reserve, Taking, Waiting, Resting
    <2> QED
      BY <2>3, <2>4
  <1>9. CASE CreateCharge(p)
    BY <1>1, <1>2, <1>9 DEF CreateCharge, Goto, Quietly, Holding, Others, tables, counters
  <1>10. CASE RefuseCharge(p)
    BY <1>1, <1>2, <1>10 DEF RefuseCharge, ChargeThrows, Goto, Quietly, Holding, Others, tables
  <1>11. CASE RefundCredit(p)
    <2>1. /\ Throw(p) \/ Made(p)
          /\ UNCHANGED <<invoices, attached, discount, converted>> /\ failures' = failures
          /\ credit' = [credit EXCEPT ![Client(local[p].key)] = @ + local[p].reserved]
          /\ pc[p] \in {"undone", "beaten"}
      BY <1>11 DEF RefundCredit, counters
    <2>2. Others(p) /\ local'[p].reserved = 0 /\ pc'[p] \notin Making
      BY <1>1, <2>1, Forgets DEF Resting
    <2> QED
      BY <1>1, <1>3, <2>1, <2>2 DEF Quietly, Giving, Waiting, Resting
  <1>12. CASE CreditUnavailable(p)
    <2>1. local'[p].reserved = local[p].reserved /\ local'[p].key = local[p].key
      BY <1>1, <1>12 DEF CreditUnavailable, Locals
    <2> QED
      BY <1>1, <1>2, <1>12, <2>1
      DEF CreditUnavailable, Failing, Counted, Goto, Quietly, Holding, Others, tables
  <1>13. CASE CreateFails(p) \/ AnswerLost(p)
    BY <1>1, <1>13 DEF CreateFails, AnswerLost, ChargeThrows, Failing, Counted, Goto, Quietly, Holding, Others, tables
  <1>14. CASE DeleteFails(p)
    <2>1. /\ Undone(p) /\ failures' = failures + 1
          /\ UNCHANGED <<invoices, attached, discount, converted, credit>>
      BY <1>14 DEF DeleteFails, Failing, Counted, tables
    <2>2. CASE local[p].reserved > 0
      <3>1. Others(p) /\ local' = local /\ pc'[p] = "undone"
        BY <1>1, <2>1, <2>2, Forgets
      <3> QED
        BY <2>1, <3>1 DEF Quietly, Holding
    <2>3. CASE ~(local[p].reserved > 0)
      <3>1. Others(p) /\ local'[p].reserved = 0 /\ pc'[p] \notin Making
        BY <1>1, <2>1, <2>3, Forgets DEF Resting
      <3> QED
        BY <1>1, <2>1, <3>1 DEF Quietly, Losing
    <2> QED
      BY <2>2, <2>3
  <1>15. CASE RefundFails(p) \/ Die(p)
    <2>1. /\ Throw(p) \/ Made(p)
          /\ failures' = failures + 1
          /\ UNCHANGED <<invoices, attached, discount, converted, credit>>
      BY <1>15 DEF RefundFails, Die, Failing, Counted, tables
    <2>2. Others(p) /\ local'[p].reserved = 0 /\ pc'[p] \notin Making
      BY <1>1, <2>1, Forgets DEF Resting
    <2> QED
      BY <1>1, <2>1, <2>2 DEF Quietly, Losing
  <1>16. CASE CreateInvoice(p) /\ local[p].key \in invoices
    <2>1. /\ UNCHANGED <<invoices, attached, discount, converted, credit>> /\ failures' = failures
          /\ pc[p] = "creating"
          /\ IF local[p].reserved > 0 THEN Goto(p, "beaten") /\ UNCHANGED local ELSE Made(p)
      BY <1>16 DEF CreateInvoice, Create, counters
    <2>2. CASE local[p].reserved > 0
      BY <1>1, <2>1, <2>2 DEF Goto, Quietly, Holding, Others
    <2>3. CASE ~(local[p].reserved > 0)
      <3>1. Others(p) /\ local'[p].reserved = 0 /\ pc'[p] \notin Making
        BY <1>1, <2>1, <2>3, Forgets
      <3>2. local[p].reserved = 0
        BY <1>1, <2>3 DEF Locals
      <3> QED
        BY <2>1, <3>1, <3>2 DEF Quietly, Holding
    <2> QED
      BY <2>2, <2>3
  <1> QED
    BY <1>4, <1>5, <1>6, <1>7, <1>8, <1>9, <1>10, <1>11, <1>12, <1>13, <1>14, <1>15, <1>16 DEF Failure

(* The steps that make an invoice, attach its charge or delete it.            *)
LEMMA InvoiceCredit ==
  ASSUME CreditIInv, TypeOK', NEW p \in Processes,
         \/ CreateInvoice(p) /\ local[p].key \notin invoices
         \/ AttachCharge(p) \/ DeleteInvoice(p)
  PROVE  CreditInOnePlace' /\ Settled(p)
  <1> DEFINE key == local[p].key
  <1>1. /\ TypeOK /\ pc \in [Processes -> Labels] /\ local \in [Processes -> Locals] /\ local[p] \in Locals
        /\ discount \in [Keys -> Nat] /\ attached \subseteq invoices
        /\ local'[p] \in Locals
        /\ IsFiniteSet(Holders) /\ IsFiniteSet(attached) /\ IsFiniteSet(converted)
    BY TypeParts DEF CreditIInv, IInv, CreditInOnePlace, TypeOK, Locals
  <1>2. key \in Keys /\ key # NoKey
    <2>1. pc[p] \notin Waiting
      BY DEF CreateInvoice, Create, AttachCharge, DeleteInvoice, Waiting, Resting
    <2> QED
      BY <2>1, KeyType, KeysAreNotNoKey DEF CreditIInv
  <1>3. local[p].reserved \in Nat /\ local'[p].reserved \in Nat
    BY <1>1 DEF Locals
  <1>4. p \in Makers => key \in invoices \ attached /\ discount[key] = local[p].reserved
    BY DEF CreditIInv, IInv, OneMaker, CreditInOnePlace
  <1>5. ASSUME NEW q \in Processes, q # p, pc[q] \in Making
        PROVE  /\ local[q].key # key /\ local[q].key \in Keys
               /\ local[q].key \notin attached
               /\ discount[local[q].key] = local[q].reserved
    <2>1. q \in Makers /\ local[q].key \in invoices
      BY <1>5 DEF CreditIInv, IInv, OneMaker, Makers, Making
    <2>2. p \in Makers \/ key \notin invoices
      BY DEF CreateInvoice, AttachCharge, DeleteInvoice, Makers
    <2>3. local[q].key # key
      BY <1>5, <2>1, <2>2 DEF CreditIInv, IInv, OneMaker
    <2> QED
      BY <1>1, <2>1, <2>3 DEF CreditIInv, CreditInOnePlace, TypeOK, IInv
  <1> HIDE DEF key
  (* What is left to show of CreditInOnePlace.                                *)
  <1>6. ASSUME Others(p), converted' = converted,
               attached' \subseteq invoices', attached' \subseteq attached \cup {key},
               \A k \in Keys \ {key} : discount'[k] = discount[k],
               pc'[p] \notin Owning => local'[p].reserved = 0,
               pc'[p] \in Making => /\ local'[p].key \notin attached'
                                    /\ discount'[local'[p].key] = local'[p].reserved
        PROVE  CreditInOnePlace'
    <2>1. IsFiniteSet(Holders')
      BY <1>1, <1>6, OthersHold
    <2>2. IsFiniteSet(attached') /\ IsFiniteSet(converted')
      BY <1>1, <1>6, FS_AddElement, FS_Subset
    <2>3. ASSUME NEW q \in Processes
          PROVE  /\ pc'[q] \notin Owning => local'[q].reserved = 0
                 /\ pc'[q] \in Making => /\ local'[q].key \notin attached'
                                         /\ discount'[local'[q].key] = local'[q].reserved
      <3>1. CASE q = p
        BY <1>6, <3>1
      <3>2. CASE q # p
        <4>1. pc'[q] = pc[q] /\ local'[q] = local[q]
          BY <1>6, <3>2 DEF Others
        <4>2. pc[q] \notin Owning => local[q].reserved = 0
          BY DEF CreditIInv, CreditInOnePlace, Owning
        <4> QED
          BY <1>5, <1>6, <3>2, <4>1, <4>2
      <3> QED
        BY <3>1, <3>2
    <2> QED
      BY <1>6, <2>1, <2>2, <2>3 DEF CreditInOnePlace, Makers, Making, Owning
  <1>7. CASE CreateInvoice(p) /\ key \notin invoices
    <2>1. /\ UNCHANGED <<attached, credit, converted, local>> /\ failures' = failures
          /\ invoices' = invoices \cup {key}
          /\ discount' = [discount EXCEPT ![key] = local[p].reserved]
          /\ pc' = [pc EXCEPT ![p] = "charging"] /\ pc[p] = "creating"
      BY <1>7 DEF CreateInvoice, Create, Goto, counters, key
    <2>2. Others(p) /\ pc'[p] = "charging" /\ key \notin attached
      BY <1>1, <1>7, <2>1 DEF Others
    <2>3. discount'[key] = local[p].reserved /\ \A k \in Keys \ {key} : discount'[k] = discount[k]
      BY <1>1, <1>2, <2>1
    <2>4. CreditInOnePlace'
      BY <1>1, <1>6, <2>1, <2>2, <2>3 DEF key, Owning, Making
    <2>5. \A c \in Clients : Spent(c)' = Spent(c)
      <3>1. \A k \in attached : discount'[k] = discount[k]
        BY <1>1, <2>2, <2>3 DEF TypeOK
      <3> QED
        BY <1>1, <2>1, <3>1, SpentStays
    <2>6. \A c \in Clients : HeldBy(p, c)' = HeldBy(p, c)
      BY <2>1 DEF HeldBy, Holders, Client
    <2>7. \A c \in Clients : Part(p, c)' = Part(p, c) /\ Part(p, c) \in Nat
      <3>1. \A c \in Clients : Part(p, c)' = Part(p, c)
        BY <2>1, <2>5, <2>6 DEF Part
      <3> QED
        BY <1>1, <3>1, PartIsNat
    <2>8. Settled(p)
      BY <2>1, <2>2, <2>7 DEF Settled
    <2> QED
      BY <2>4, <2>8
  <1>8. CASE AttachCharge(p)
    <2>1. /\ UNCHANGED <<invoices, discount, credit, converted>> /\ failures' = failures
          /\ attached' = attached \cup {key}
          /\ Made(p) /\ pc[p] = "attaching"
      BY <1>8 DEF AttachCharge, counters, key
    <2>2. key \in invoices \ attached /\ discount[key] = local[p].reserved
      BY <1>4, <2>1 DEF Makers
    <2>3. Others(p) /\ local'[p].reserved = 0 /\ pc'[p] \notin Making
      BY <1>1, <2>1, Forgets DEF Making
    <2>4. CreditInOnePlace'
      BY <1>1, <1>6, <2>1, <2>2, <2>3
    <2>5. ASSUME NEW c \in Clients
          PROVE  Part(p, c)' = Part(p, c) /\ Part(p, c) \in Nat
      <3>1. Spent(c)' = Spent(c) + (IF Client(key) = c THEN local[p].reserved ELSE 0)
        BY <1>1, <1>2, <2>1, <2>2, SpentGrows
      <3>2. HeldBy(p, c) = (IF Client(key) = c THEN local[p].reserved ELSE 0)
        BY <1>2 DEF HeldBy, Holders, key
      <3>3. HeldBy(p, c)' = 0
        BY <2>3 DEF HeldBy
      <3>4. Spent(c) \in Nat /\ credit[c] \in Nat
        BY <1>1, SpentIsNat DEF TypeOK
      <3> QED
        BY <1>3, <2>1, <3>1, <3>2, <3>3, <3>4 DEF Part
    <2>6. Settled(p)
      BY <2>1, <2>3, <2>5 DEF Settled
    <2> QED
      BY <2>4, <2>6
  <1>9. CASE DeleteInvoice(p)
    <2>1. /\ UNCHANGED <<attached, credit, converted>> /\ failures' = failures
          /\ invoices' = invoices \ {key}
          /\ discount' = [discount EXCEPT ![key] = 0]
          /\ Undone(p) /\ pc[p] = "undoing"
      BY <1>9 DEF DeleteInvoice, counters, key
    <2>2. key \notin attached
      BY <1>4, <2>1 DEF Makers
    <2>3. /\ Others(p) /\ pc'[p] \notin Making
          /\ pc'[p] \notin Owning => local'[p].reserved = 0
          /\ \A c \in Clients : HeldBy(p, c)' = HeldBy(p, c)
      <3>1. CASE local[p].reserved > 0
        <4>1. Others(p) /\ local' = local /\ pc'[p] = "undone"
          BY <1>1, <2>1, <3>1, Forgets
        <4> QED
          BY <4>1 DEF HeldBy, Holders, Client, Owning, Making
      <3>2. CASE ~(local[p].reserved > 0)
        <4>1. Others(p) /\ local'[p].reserved = 0 /\ pc'[p] \in Resting
          BY <1>1, <2>1, <3>2, Forgets
        <4>2. local[p].reserved = 0
          BY <1>3, <3>2
        <4> QED
          BY <4>1, <4>2 DEF HeldBy, Making, Resting
      <3> QED
        BY <3>1, <3>2
    <2>4. \A k \in Keys \ {key} : discount'[k] = discount[k]
      BY <1>1, <2>1
    <2>5. CreditInOnePlace'
      BY <1>1, <1>6, <2>1, <2>2, <2>3, <2>4
    <2>6. \A c \in Clients : Spent(c)' = Spent(c)
      <3>1. \A k \in attached : discount'[k] = discount[k]
        BY <1>1, <2>2, <2>4 DEF TypeOK
      <3> QED
        BY <1>1, <2>1, <3>1, SpentStays
    <2>7. \A c \in Clients : Part(p, c)' = Part(p, c) /\ Part(p, c) \in Nat
      <3>1. \A c \in Clients : Part(p, c)' = Part(p, c)
        BY <2>1, <2>3, <2>6 DEF Part
      <3> QED
        BY <1>1, <3>1, PartIsNat
    <2>8. Settled(p)
      BY <2>1, <2>3, <2>7 DEF Settled
    <2> QED
      BY <2>5, <2>8
  <1> QED
    BY <1>7, <1>8, <1>9 DEF key

(* A referral that converts rewards both of its clients.                      *)
LEMMA ConvertCredit ==
  ASSUME CreditIInv, NEW f \in Referrals, Convert(f)
  PROVE  CreditInOnePlace' /\ CreditIsKept'
  <1>1. /\ TypeOK /\ CreditInOnePlace /\ CreditIsKept /\ IsFiniteSet(converted)
        /\ UNCHANGED <<invoices, attached, discount, pc, local, failures>>
        /\ f \notin converted /\ converted' = converted \cup {f}
    BY DEF CreditIInv, IInv, CreditInOnePlace, Convert, counters
  <1>2. IsFiniteSet(converted')
    BY <1>1, FS_AddElement
  <1>3. CreditInOnePlace'
    BY <1>1, <1>2 DEF CreditInOnePlace, Holders, Makers
  <1>4. ASSUME NEW c \in Clients
        PROVE  /\ Spent(c)' = Spent(c) /\ Held(c)' = Held(c)
               /\ credit'[c] - credit[c] = Earned(c)' - Earned(c)
               /\ credit[c] \in Nat /\ credit'[c] \in Nat /\ Earned(c) \in Nat /\ Earned(c)' \in Nat
               /\ Spent(c) \in Nat /\ Held(c) \in Nat
    <2>1. Spent(c)' = Spent(c) /\ Held(c)' = Held(c)
      BY <1>1 DEF Spent, Held, Holders, Client
    <2>2. credit'[c] = IF c \in {f.referrer, f.referred} THEN credit[c] + Reward ELSE credit[c]
      BY DEF Convert
    <2>3. IsFiniteSet(Rewarding(c)) /\ f \notin Rewarding(c)
      BY <1>1, FS_Subset DEF Rewarding
    <2>4. Rewarding(c)' = IF c \in {f.referrer, f.referred} THEN Rewarding(c) \cup {f} ELSE Rewarding(c)
      BY <1>1 DEF Rewarding
    <2> DEFINE n == Cardinality(Rewarding(c))
    <2>5. n \in Nat /\ Cardinality(Rewarding(c) \cup {f}) = n + 1
      BY <2>3, FS_CardinalityType, FS_AddElement
    <2>6. Earned(c) = Reward * n /\ Earned(c)' = Reward * Cardinality(Rewarding(c)')
      BY DEF Earned
    <2> HIDE DEF n
    <2>7. Reward \in Nat /\ Reward * n \in Nat /\ Reward * (n + 1) = Reward * n + Reward
      BY <2>5, BillingAssumption
    <2>8. Earned(c)' = IF c \in {f.referrer, f.referred} THEN Earned(c) + Reward ELSE Earned(c)
      BY <2>4, <2>5, <2>6, <2>7 DEF n
    <2>9. Earned(c) \in Nat
      BY <2>6, <2>7
    <2>10. credit[c] \in Nat /\ Spent(c) \in Nat
      BY <1>1, SpentIsNat DEF TypeOK, CreditInOnePlace
    <2>11. Held(c) \in Nat
      <3> DEFINE g == [p \in Processes |-> local[p].reserved]
                 S == {p \in Holders : Client(local[p].key) = c}
      <3>1. IsFiniteSet(S) /\ \A p \in S : g[p] \in Nat
        BY <1>1, LocalType, FS_Subset DEF CreditInOnePlace, Holders
      <3>2. Held(c) = SumFunctionOnSet(g, S)
        BY DEF Held
      <3> HIDE DEF g, S
      <3> QED
        BY <3>1, <3>2, SumIsNat
    <2> QED
      BY <2>1, <2>2, <2>7, <2>8, <2>9, <2>10, <2>11
  <1>5. CreditIsKept'
    <2> SUFFICES ASSUME NEW c \in Clients
                 PROVE  /\ credit'[c] + Spent(c)' + Held(c)' <= Earned(c)'
                        /\ failures' = 0 => credit'[c] + Spent(c)' + Held(c)' = Earned(c)'
      BY DEF CreditIsKept
    <2>1. /\ credit[c] + Spent(c) + Held(c) <= Earned(c)
          /\ failures = 0 => credit[c] + Spent(c) + Held(c) = Earned(c)
      BY <1>1 DEF CreditIsKept
    <2> QED
      BY <1>1, <1>4, <2>1
  <1> QED
    BY <1>3, <1>5

LEMMA InitCreditIInv == Init => CreditIInv
  <1> SUFFICES ASSUME Init PROVE CreditIInv
    OBVIOUS
  <1>1. IInv
    BY InitIInv
  <1>2. Holders = {} /\ attached = {} /\ converted = {} /\ invoices = {} /\ Makers = {}
    BY DEF Init, Holders, Fresh, Makers
  <1>3. CreditInOnePlace
    <2>1. \A p \in Processes : local[p].reserved = 0
      BY DEF Init, Fresh
    <2> QED
      BY <1>2, <2>1, FS_EmptySet DEF CreditInOnePlace
  <1>4. ASSUME NEW c \in Clients
        PROVE  credit[c] = 0 /\ Spent(c) = 0 /\ Held(c) = 0 /\ Earned(c) = 0
    <2>1. {k \in attached : Client(k) = c} = {} /\ {p \in Holders : Client(local[p].key) = c} = {}
      BY <1>2
    <2>2. Spent(c) = 0 /\ Held(c) = 0
      BY <2>1, SumOfNone DEF Spent, Held
    <2>3. Rewarding(c) = {} /\ Reward * 0 = 0
      BY <1>2, BillingAssumption DEF Rewarding
    <2>4. Earned(c) = 0
      BY <2>3, FS_EmptySet DEF Earned
    <2>5. credit[c] = 0
      BY DEF Init
    <2> QED
      BY <2>2, <2>4, <2>5
  <1>5. CreditIsKept
    BY <1>4 DEF CreditIsKept
  <1> QED
    BY <1>1, <1>3, <1>5 DEF CreditIInv

LEMMA StepCreditIInv == CreditIInv /\ [Next]_vars => CreditIInv'
  <1> SUFFICES ASSUME CreditIInv, [Next]_vars PROVE CreditIInv'
    OBVIOUS
  <1>1. IInv' /\ TypeOK'
    BY StepIInv DEF CreditIInv, IInv
  <1>2. CASE \/ UNCHANGED vars
             \/ NextMonth
             \/ \E s \in Subscriptions, status \in Statuses : SetStatus(s, status)
    <2>1. UNCHANGED <<invoices, attached, discount, credit, converted, pc, local, failures>>
      BY <1>2 DEF vars, tables, counters, NextMonth, SetStatus
    <2>2. CreditInOnePlace' /\ CreditIsKept'
      BY <2>1
      DEF CreditIInv, CreditInOnePlace, CreditIsKept, Holders, Makers, Held, Spent, Earned,
          Rewarding, Client
    <2> QED
      BY <1>1, <2>2 DEF CreditIInv
  <1>3. ASSUME NEW f \in Referrals, Convert(f)
        PROVE  CreditIInv'
    BY <1>1, <1>3, ConvertCredit DEF CreditIInv
  <1>4. ASSUME NEW p \in Processes,
               \/ p \in Runs /\ (StartRun(p) \/ RunStep(p))
               \/ p \in Requests /\ (CreatePayment(p) \/ AcceptOffer(p))
               \/ ChargeStep(p) \/ Failure(p)
        PROVE  CreditIInv'
    <2>1. CreditInOnePlace' /\ Settled(p)
      <3>1. CASE \/ CreateInvoice(p) /\ local[p].key \notin invoices
                 \/ AttachCharge(p) \/ DeleteInvoice(p)
        BY <1>1, <3>1, InvoiceCredit
      <3>2. CASE ~(\/ CreateInvoice(p) /\ local[p].key \notin invoices
                   \/ AttachCharge(p) \/ DeleteInvoice(p))
        <4>1. Quietly(p) /\ (Holding(p) \/ Losing(p) \/ Taking(p) \/ Giving(p))
          BY <1>4, <3>2, QuietCredit DEF ChargeStep
        <4> QED
          BY <1>1, <4>1, QuietlyKeeps, QuietlySettles
      <3> QED
        BY <3>1, <3>2
    <2>2. CreditIsKept'
      BY <1>1, <2>1, SettledKeeps
    <2> QED
      BY <1>1, <2>1, <2>2 DEF CreditIInv
  <1> QED
    BY <1>2, <1>3, <1>4 DEF Next, Processes

(* For any number of clients, subscriptions, overlapping runs and requests,   *)
(* whoever wins the race for a month or for the credit and whatever is        *)
(* refused: credit is never made from nothing, and lost by failures only.     *)
THEOREM CreditIsConserved == Spec => []CreditIsKept
  <1>1. Init => CreditIInv
    BY InitCreditIInv
  <1>2. CreditIInv /\ [Next]_vars => CreditIInv'
    BY StepCreditIInv
  <1>3. CreditIInv => CreditIsKept
    BY DEF CreditIInv
  <1> QED
    BY <1>1, <1>2, <1>3, PTL DEF Spec

-----------------------------------------------------------------------------
(***************************************************************************)
(* Portfolio: more about sums, first.                                      *)
(***************************************************************************)

(* Induction over a finite set: what holds of nothing, and of one element more *)
(* whenever it holds, holds of all of it.                                     *)
LEMMA SetInduction ==
  ASSUME NEW S, IsFiniteSet(S), NEW T, {} \in T,
         \A u \in SUBSET S : u \in T => \A x \in S \ u : u \cup {x} \in T
  PROVE  S \in T
  <1> DEFINE Bad == {u \in FiniteSubsetsOf(S) : u \notin T}
  <1>1. SUFFICES ASSUME Bad # {} PROVE FALSE
    BY DEF FiniteSubsetsOf
  <1>2. PICK s \in Bad : \A v \in Bad : ~(v \subseteq s /\ v # s)
    <2>1. Bad \in SUBSET FiniteSubsetsOf(S)
      OBVIOUS
    <2> HIDE DEF Bad
    <2> QED
      BY <1>1, <2>1, SmallestSet
  <1>3. IsFiniteSet(s) /\ s \subseteq S /\ s \notin T
    BY <1>2 DEF FiniteSubsetsOf
  <1> DEFINE v == s \ {One(s)}
  <1>4. One(s) \in s /\ v \subseteq s /\ v # s /\ IsFiniteSet(v)
    BY <1>3, OneOf, FS_Subset
  <1>5. v \in T
    BY <1>2, <1>3, <1>4 DEF FiniteSubsetsOf
  <1>6. v \cup {One(s)} \in T
    BY <1>3, <1>4, <1>5
  <1>7. v \cup {One(s)} = s
    BY <1>4
  <1> QED
    BY <1>3, <1>6, <1>7

(* Two parts.                                                                 *)
LEMMA SumOfUnion ==
  ASSUME NEW f, NEW S, NEW R, IsFiniteSet(S), IsFiniteSet(R), S \cap R = {},
         \A x \in S \cup R : f[x] \in Nat
  PROVE  SumFunctionOnSet(f, S \cup R) = SumFunctionOnSet(f, S) + SumFunctionOnSet(f, R)
  <1> DEFINE T == {u \in SUBSET R : SumFunctionOnSet(f, S \cup u) =
                                      SumFunctionOnSet(f, S) + SumFunctionOnSet(f, u)}
  <1>1. {} \in T
    <2>1. SumFunctionOnSet(f, S) \in Nat /\ S \cup {} = S
      BY SumIsNat
    <2> QED
      BY <2>1, SumOfNone
  <1>2. ASSUME NEW u \in SUBSET R, u \in T, NEW x \in R \ u
        PROVE  u \cup {x} \in T
    <2>1. IsFiniteSet(u) /\ IsFiniteSet(S \cup u) /\ x \notin S \cup u
      BY <1>2, FS_Subset, FS_Union
    <2>2. /\ SumFunctionOnSet(f, (S \cup u) \cup {x}) = f[x] + SumFunctionOnSet(f, S \cup u)
          /\ SumFunctionOnSet(f, u \cup {x}) = f[x] + SumFunctionOnSet(f, u)
      BY <2>1, SumAdds
    <2>3. (S \cup u) \cup {x} = S \cup (u \cup {x})
      OBVIOUS
    <2>4. SumFunctionOnSet(f, S) \in Nat /\ SumFunctionOnSet(f, u) \in Nat /\ f[x] \in Nat
      BY <2>1, SumIsNat
    <2>5. SumFunctionOnSet(f, S \cup u) = SumFunctionOnSet(f, S) + SumFunctionOnSet(f, u)
      BY <1>2
    <2>6. SumFunctionOnSet(f, S \cup (u \cup {x})) = SumFunctionOnSet(f, S) + SumFunctionOnSet(f, u \cup {x})
      BY <2>2, <2>3, <2>4, <2>5
    <2> QED
      BY <2>6
  <1> HIDE DEF T
  <1>3. R \in T
    BY <1>1, <1>2, SetInduction
  <1> QED
    BY <1>3 DEF T

(* Less of each is less in all.                                               *)
LEMMA SumIsMonotone ==
  ASSUME NEW f, NEW g, NEW S, IsFiniteSet(S),
         \A x \in S : f[x] \in Nat /\ g[x] \in Nat /\ f[x] <= g[x]
  PROVE  SumFunctionOnSet(f, S) <= SumFunctionOnSet(g, S)
  <1> DEFINE T == {u \in SUBSET S : SumFunctionOnSet(f, u) <= SumFunctionOnSet(g, u)}
  <1>1. {} \in T
    BY SumOfNone
  <1>2. ASSUME NEW u \in SUBSET S, u \in T, NEW x \in S \ u
        PROVE  u \cup {x} \in T
    <2>1. IsFiniteSet(u)
      BY FS_Subset
    <2>2. /\ SumFunctionOnSet(f, u \cup {x}) = f[x] + SumFunctionOnSet(f, u)
          /\ SumFunctionOnSet(g, u \cup {x}) = g[x] + SumFunctionOnSet(g, u)
      BY <2>1, SumAdds
    <2>3. /\ SumFunctionOnSet(f, u) \in Nat /\ SumFunctionOnSet(g, u) \in Nat
          /\ f[x] \in Nat /\ g[x] \in Nat /\ f[x] <= g[x]
      BY <2>1, SumIsNat
    <2>4. SumFunctionOnSet(f, u) <= SumFunctionOnSet(g, u)
      BY <1>2
    <2>5. SumFunctionOnSet(f, u \cup {x}) <= SumFunctionOnSet(g, u \cup {x})
      BY <2>2, <2>3, <2>4
    <2> QED
      BY <2>5
  <1> HIDE DEF T
  <1>3. S \in T
    BY <1>1, <1>2, SetInduction
  <1> QED
    BY <1>3 DEF T

(* A function has finitely many values on a finite set.                       *)
LEMMA ImagesAreFinite ==
  ASSUME NEW m, NEW S, IsFiniteSet(S)
  PROVE  IsFiniteSet({m[x] : x \in S})
  <1> DEFINE f == [x \in S |-> m[x]]
  <1>1. f \in Surjection(S, {m[x] : x \in S})
    BY DEF Surjection
  <1> QED
    BY <1>1, FS_Surjection

(* The sum over the values of a function that has each once is the sum over   *)
(* what it is a function of.                                                  *)
LEMMA SumOverImage ==
  ASSUME NEW f, NEW m, NEW S, IsFiniteSet(S), \A x \in S : f[m[x]] \in Nat,
         \A x, y \in S : m[x] = m[y] => x = y
  PROVE  SumFunctionOnSet(f, {m[x] : x \in S}) = SumFunctionOnSet([x \in S |-> f[m[x]]], S)
  <1> DEFINE g == [x \in S |-> f[m[x]]]
             image(u) == {m[x] : x \in u}
             T == {u \in SUBSET S : SumFunctionOnSet(f, image(u)) = SumFunctionOnSet(g, u)}
  <1>1. {} \in T
    <2>1. image({}) = {}
      OBVIOUS
    <2> QED
      BY <2>1, SumOfNone
  <1>2. ASSUME NEW u \in SUBSET S, u \in T, NEW x \in S \ u
        PROVE  u \cup {x} \in T
    <2>1. IsFiniteSet(u)
      BY FS_Subset
    <2>2. IsFiniteSet(image(u))
      BY <2>1, ImagesAreFinite
    <2>3. m[x] \notin image(u) /\ image(u \cup {x}) = image(u) \cup {m[x]}
      OBVIOUS
    <2>4. \A y \in image(u) \cup {m[x]} : f[y] \in Nat
      OBVIOUS
    <2>5. \A y \in u \cup {x} : g[y] \in Nat
      OBVIOUS
    <2>6. g[x] = f[m[x]]
      OBVIOUS
    <2>7. SumFunctionOnSet(f, image(u)) = SumFunctionOnSet(g, u)
      BY <1>2
    <2> HIDE DEF image, g
    <2>8. SumFunctionOnSet(f, image(u) \cup {m[x]}) = f[m[x]] + SumFunctionOnSet(f, image(u))
      BY <2>2, <2>3, <2>4, SumAdds
    <2>9. SumFunctionOnSet(g, u \cup {x}) = g[x] + SumFunctionOnSet(g, u)
      BY <2>1, <2>5, SumAdds
    <2> QED
      BY <2>3, <2>6, <2>7, <2>8, <2>9
  <1>3. S \in T
    <2> HIDE DEF T
    <2> QED
      BY <1>1, <1>2, SetInduction
  <1> QED
    BY <1>3

(* The parts of a whole: what is summed up part by part is summed up.         *)
LEMMA SumOfParts ==
  ASSUME NEW f, NEW part, NEW S, NEW P, IsFiniteSet(S), IsFiniteSet(P), \A x \in S : f[x] \in Nat
  PROVE  SumFunctionOnSet([p \in P |-> SumFunctionOnSet(f, {x \in S : part[x] = p})], P) =
           SumFunctionOnSet(f, {x \in S : part[x] \in P})
  <1> DEFINE g == [p \in P |-> SumFunctionOnSet(f, {x \in S : part[x] = p})]
             In(u) == {x \in S : part[x] \in u}
             T == {u \in SUBSET P : SumFunctionOnSet(g, u) = SumFunctionOnSet(f, In(u))}
  <1>1. {} \in T
    <2>1. In({}) = {}
      OBVIOUS
    <2> QED
      BY <2>1, SumOfNone
  <1>2. ASSUME NEW p \in P
        PROVE  g[p] = SumFunctionOnSet(f, In({p})) /\ g[p] \in Nat
    <2>1. IsFiniteSet(In({p})) /\ \A x \in In({p}) : f[x] \in Nat
      BY FS_Subset
    <2>2. In({p}) = {x \in S : part[x] = p}
      OBVIOUS
    <2>3. g[p] = SumFunctionOnSet(f, {x \in S : part[x] = p})
      OBVIOUS
    <2> HIDE DEF In, g
    <2> QED
      BY <2>1, <2>2, <2>3, SumIsNat
  <1>3. ASSUME NEW u \in SUBSET P, u \in T, NEW p \in P \ u
        PROVE  u \cup {p} \in T
    <2>1. IsFiniteSet(u) /\ IsFiniteSet(In(u)) /\ IsFiniteSet(In({p}))
      BY FS_Subset
    <2>2. In(u) \cap In({p}) = {} /\ In(u \cup {p}) = In(u) \cup In({p})
      OBVIOUS
    <2>3. \A x \in In(u) \cup In({p}) : f[x] \in Nat
      OBVIOUS
    <2>4. SumFunctionOnSet(g, u) = SumFunctionOnSet(f, In(u))
      BY <1>3
    <2> HIDE DEF In, g
    <2>5. SumFunctionOnSet(f, In(u) \cup In({p})) = SumFunctionOnSet(f, In(u)) + SumFunctionOnSet(f, In({p}))
      BY <2>1, <2>2, <2>3, SumOfUnion
    <2>6. SumFunctionOnSet(g, u \cup {p}) = g[p] + SumFunctionOnSet(g, u)
      BY <1>2, <2>1, SumAdds
    <2>7. SumFunctionOnSet(f, In(u)) \in Nat
      BY <2>1, <2>3, SumIsNat
    <2>8. g[p] = SumFunctionOnSet(f, In({p})) /\ g[p] \in Nat
      BY <1>2
    <2> QED
      <3>1. SumFunctionOnSet(f, In(u \cup {p})) = SumFunctionOnSet(f, In(u)) + SumFunctionOnSet(f, In({p}))
        BY <2>2, <2>5
      <3>2. SumFunctionOnSet(g, u \cup {p}) = SumFunctionOnSet(f, In({p})) + SumFunctionOnSet(f, In(u))
        BY <2>4, <2>6, <2>8
      <3>3. SumFunctionOnSet(f, In({p})) \in Nat
        BY <2>8
      <3>4. SumFunctionOnSet(g, u \cup {p}) = SumFunctionOnSet(f, In(u \cup {p}))
        BY <2>7, <3>1, <3>2, <3>3
      <3> QED
        BY <3>4
  <1>4. P \in T
    <2> HIDE DEF T
    <2> QED
      BY <1>1, <1>3, SetInduction
  <1> QED
    BY <1>4

-----------------------------------------------------------------------------
(* The operators of the rules, where they are sums, largest or smallest.      *)

LEMMA LargestThereIs ==
  ASSUME NEW S, IsFiniteSet(S), S # {}, S \subseteq Int
  PROVE  Max(S) \in S /\ \A y \in S : Max(S) >= y
  <1> DEFINE T == {u \in SUBSET S : u # {} => \E x \in u : \A y \in u : x >= y}
  <1>1. {} \in T
    OBVIOUS
  <1>2. ASSUME NEW u \in SUBSET S, u \in T, NEW x \in S \ u
        PROVE  u \cup {x} \in T
    <2>1. CASE u = {}
      BY <2>1
    <2>2. CASE u # {}
      <3>1. PICK z \in u : \A y \in u : z >= y
        BY <1>2, <2>2
      <3>2. \A y \in u \cup {x} : y \in Int
        OBVIOUS
      <3>3. CASE z >= x
        BY <3>1, <3>2, <3>3
      <3>4. CASE ~(z >= x)
        <4>1. \A y \in u \cup {x} : x >= y
          BY <3>1, <3>2, <3>4
        <4> QED
          BY <4>1
      <3> QED
        BY <3>3, <3>4
    <2> QED
      BY <2>1, <2>2
  <1> HIDE DEF T
  <1>3. S \in T
    BY <1>1, <1>2, SetInduction
  <1> QED
    BY <1>3 DEF T, Max

LEMMA SmallestThereIs ==
  ASSUME NEW S, IsFiniteSet(S), S # {}, S \subseteq Int
  PROVE  Min(S) \in S /\ \A y \in S : Min(S) <= y
  <1> DEFINE T == {u \in SUBSET S : u # {} => \E x \in u : \A y \in u : x <= y}
  <1>1. {} \in T
    OBVIOUS
  <1>2. ASSUME NEW u \in SUBSET S, u \in T, NEW x \in S \ u
        PROVE  u \cup {x} \in T
    <2>1. CASE u = {}
      BY <2>1
    <2>2. CASE u # {}
      <3>1. PICK z \in u : \A y \in u : z <= y
        BY <1>2, <2>2
      <3>2. \A y \in u \cup {x} : y \in Int
        OBVIOUS
      <3>3. CASE z <= x
        BY <3>1, <3>2, <3>3
      <3>4. CASE ~(z <= x)
        <4>1. \A y \in u \cup {x} : x <= y
          BY <3>1, <3>2, <3>4
        <4> QED
          BY <4>1
      <3> QED
        BY <3>3, <3>4
    <2> QED
      BY <2>1, <2>2
  <1> HIDE DEF T
  <1>3. S \in T
    BY <1>1, <1>2, SetInduction
  <1> QED
    BY <1>3 DEF T, Min

LEMMA PairsAreFinite == ASSUME NEW a, NEW b PROVE IsFiniteSet({a, b})
  <1>1. IsFiniteSet({a}) /\ {a, b} = {a} \cup {b}
    BY FS_Singleton
  <1> QED
    BY <1>1, FS_AddElement

LEMMA LargerOfTwo ==
  ASSUME NEW a \in Int, NEW b \in Int
  PROVE  Max({a, b}) \in {a, b} /\ Max({a, b}) >= a /\ Max({a, b}) >= b
  <1>1. IsFiniteSet({a, b}) /\ {a, b} # {} /\ {a, b} \subseteq Int
    BY PairsAreFinite
  <1>2. Max({a, b}) \in {a, b} /\ \A y \in {a, b} : Max({a, b}) >= y
    BY <1>1, LargestThereIs
  <1> QED
    BY <1>2

LEMMA SmallerOfTwo ==
  ASSUME NEW a \in Int, NEW b \in Int
  PROVE  Min({a, b}) \in {a, b} /\ Min({a, b}) <= a /\ Min({a, b}) <= b
  <1>1. IsFiniteSet({a, b}) /\ {a, b} # {} /\ {a, b} \subseteq Int
    BY PairsAreFinite
  <1>2. Min({a, b}) \in {a, b} /\ \A y \in {a, b} : Min({a, b}) <= y
    BY <1>1, SmallestThereIs
  <1> QED
    BY <1>2

LEMMA ClampIsWithin ==
  ASSUME NEW n \in Int, NEW low \in Int, NEW high \in Int, low <= high
  PROVE  Clamp(n, low, high) \in low .. high
  <1> DEFINE m == Min({high, n})
  <1>1. m \in {high, n} /\ m <= high
    BY SmallerOfTwo
  <1> HIDE DEF m
  <1>2. Max({low, m}) \in {low, m} /\ Max({low, m}) >= low
    BY <1>1, LargerOfTwo
  <1> QED
    BY <1>1, <1>2 DEF Clamp, m

LEMMA SumSeqIsNat ==
  ASSUME NEW s \in Seq(Nat)
  PROVE  SumSeq(s) \in Nat
  <1>1. SumSeq(s) = (CHOOSE g : IsSum(g, s, DOMAIN s))[DOMAIN s]
    BY DEF SumSeq, FoldSeq, FoldFunction, FoldFunctionOnSet, MapThenFoldSet, IsSum, One
  <1>2. SumSeq(s) = SumFunctionOnSet(s, DOMAIN s)
    BY <1>1, SumIsChosen
  <1>3. DOMAIN s = 1 .. Len(s) /\ Len(s) \in Nat
    OBVIOUS
  <1>4. IsFiniteSet(DOMAIN s) /\ \A k \in DOMAIN s : s[k] \in Nat
    <2>1. IsFiniteSet(1 .. Len(s))
      BY <1>3, FS_Interval
    <2> QED
      BY <1>3, <2>1
  <1> QED
    BY <1>2, <1>4, SumIsNat

(* Values is the sum of the field.                                            *)
LEMMA ValuesAreSummed ==
  ASSUME NEW S
  PROVE  Values(S) = SumFunctionOnSet([i \in S |-> i.value], S)
  <1> DEFINE f == [i \in S |-> i.value]
             Is(g) == g = [s \in SUBSET S |-> IF s = {} THEN 0 ELSE One(s).value + g[s \ {One(s)}]]
  <1>1. Values(S) = (CHOOSE g : Is(g))[S]
    BY DEF Values, MapThenSumSet, MapThenFoldSet, One
  <1>2. ASSUME NEW g PROVE Is(g) <=> IsSum(g, f, S)
    <2>1. \A s \in SUBSET S : s # {} => f[One(s)] = One(s).value
      BY OneOf
    <2>2. [s \in SUBSET S |-> IF s = {} THEN 0 ELSE One(s).value + g[s \ {One(s)}]] =
          [s \in SUBSET S |-> IF s = {} THEN 0 ELSE f[One(s)] + g[s \ {One(s)}]]
      BY <2>1
    <2> QED
      BY <2>2 DEF IsSum
  <1> HIDE DEF Is, f
  <1>3. (CHOOSE g : Is(g)) = (CHOOSE g : IsSum(g, f, S))
    BY <1>2
  <1> QED
    BY <1>1, <1>3, SumIsChosen DEF f

-----------------------------------------------------------------------------
(* The constants, and the instant at which all begins.                        *)
LEMMA PortfolioNumbers ==
  /\ Instants \subseteq Int /\ Min(Instants) \in Instants /\ \A t \in Instants : Min(Instants) <= t
  /\ MaxInvoices \in Nat /\ MaxEvents \in Nat /\ MaxChanges \in Nat /\ Month \in Nat
  /\ IsFiniteSet(Ids) /\ Ids \subseteq Nat /\ 0 \notin Ids
  /\ FirstRules \in NegotiationRules /\ RuleSets \subseteq NegotiationRules
  /\ Past \in Seq(Rows) /\ DOMAIN Past \subseteq Ids
  /\ PastPayments \in Seq(Payments) /\ Typed \subseteq Nat
  /\ Plan \in SubscriptionRows
  <1>1. /\ Instants \subseteq Int /\ Instants # {} /\ IsFiniteSet(Instants)
        /\ MaxInvoices \in Nat /\ MaxEvents \in Nat /\ MaxChanges \in Nat /\ Month \in Nat
        /\ FirstRules \in NegotiationRules /\ RuleSets \subseteq NegotiationRules
        /\ Past \in Seq(Rows) /\ Len(Past) <= MaxInvoices
        /\ PastPayments \in Seq(Payments) /\ Typed \subseteq Nat
        /\ Plan \in SubscriptionRows
    BY PortfolioAssumption
  <1>2. IsFiniteSet(Ids) /\ Ids \subseteq Nat /\ 0 \notin Ids
    BY <1>1, FS_Interval DEF Ids
  <1>3. DOMAIN Past \subseteq Ids
    <2>1. DOMAIN Past = 1 .. Len(Past) /\ Len(Past) \in Nat
      BY <1>1
    <2> QED
      BY <1>1, <2>1 DEF Ids
  <1> QED
    BY <1>1, <1>2, <1>3, SmallestThereIs

(* Rounding gives a whole number.                                             *)
LEMMA RoundedIsInt ==
  ASSUME NEW a \in Int, NEW b \in Nat, b > 0
  PROVE  HalfUp(a, b) \in Int /\ (a >= 0 => HalfUp(a, b) \in Nat)
  <1>1. 2 * a + b \in Int /\ 2 * b \in Int /\ 2 * b > 0
    OBVIOUS
  <1>2. \A x \in Int, y \in Int : y > 0 => x \div y \in Int /\ (x >= 0 => x \div y >= 0)
    OBVIOUS
  <1> QED
    BY <1>1, <1>2 DEF HalfUp

LEMMA RoundedPercent ==
  ASSUME NEW v \in Nat, NEW p \in Nat
  PROVE  HalfUp(v * p, 100) \in Nat
  <1>1. v * p \in Nat
    OBVIOUS
  <1> QED
    BY <1>1, RoundedIsInt

(* The terms of an agreement are terms, whatever the owner's rules.           *)
LEMMA TermsType ==
  ASSUME NEW type \in Types, NEW v \in Nat, NEW n \in Nat, n > 0, NEW due \in Int
  PROVE  Terms(type, v, n, due) \in AllTerms
  BY RoundedIsInt DEF Terms, AllTerms

LEMMA OptionsType ==
  ASSUME NEW r \in NegotiationRules, NEW v \in Nat, NEW t \in Int
  PROVE  ComputeOptions(r, v, t) \subseteq AllTerms
  <1> DEFINE p == r.discountPercent
             q == r.deferFeePercent
             d == r.deferMaxDays
             m == r.maxInstallments
  <1>1. p \in 0 .. 100 /\ q \in 0 .. 100 /\ d \in Nat /\ m \in Nat
    BY DEF NegotiationRules
  <1> HIDE DEF p, q, d, m
  <1>2. 100 - p \in Nat /\ 100 + q \in Nat /\ t + d * DAY \in Int
    BY <1>1 DEF DAY
  <1>3. HalfUp(v * (100 - p), 100) \in Nat /\ HalfUp(v * (100 + q), 100) \in Nat
    BY <1>2, RoundedPercent
  <1>4. Terms("discount", HalfUp(v * (100 - p), 100), 1, t) \in AllTerms
    BY <1>3, TermsType DEF Types
  <1>5. m >= 2 => Terms("installments", v, m, t) \in AllTerms
    BY <1>1, TermsType DEF Types
  <1>6. Terms("defer", HalfUp(v * (100 + q), 100), 1, t + d * DAY) \in AllTerms
    BY <1>2, <1>3, TermsType DEF Types
  <1> QED
    BY <1>4, <1>5, <1>6 DEF ComputeOptions, Splits, p, q, d, m

LEMMA ChosenTermsType ==
  ASSUME NEW r \in NegotiationRules, NEW v \in Nat, NEW t \in Int, NEW type, NEW n \in Nat, n > 0
  PROVE  ComputeTerms(r, v, type, n, t) \subseteq AllTerms
  <1> DEFINE p == r.discountPercent
             q == r.deferFeePercent
             d == r.deferMaxDays
  <1>1. p \in 0 .. 100 /\ q \in 0 .. 100 /\ d \in Nat
    BY DEF NegotiationRules
  <1> HIDE DEF p, q, d
  <1>2. 100 - p \in Nat /\ 100 + q \in Nat /\ t + d * DAY \in Int
    BY <1>1 DEF DAY
  <1>3. HalfUp(v * (100 - p), 100) \in Nat /\ HalfUp(v * (100 + q), 100) \in Nat
    BY <1>2, RoundedPercent
  <1>4. Terms("discount", HalfUp(v * (100 - p), 100), 1, t) \in AllTerms
    BY <1>3, TermsType DEF Types
  <1>5. Terms("installments", v, n, t) \in AllTerms
    BY <1>1, TermsType DEF Types
  <1>6. Terms("defer", HalfUp(v * (100 + q), 100), 1, t + d * DAY) \in AllTerms
    BY <1>2, <1>3, TermsType DEF Types
  <1> QED
    BY <1>4, <1>5, <1>6 DEF ComputeTerms, p, q, d

(* The month that a subscription bills is an amount of money.                  *)
LEMMA AmountIsNat ==
  ASSUME NEW s \in SubscriptionRows
  PROVE  Amount(s) \in Nat
  <1> DEFINE a == s.amount
             p == s.discountPercent
  <1>1. a \in Nat /\ p \in 0 .. 100
    BY DEF SubscriptionRows
  <1> HIDE DEF a, p
  <1>2. 100 - p \in Nat
    BY <1>1
  <1>3. ApplyDiscount(a, p) \in Nat
    BY <1>1, <1>2, RoundedPercent DEF ApplyDiscount
  <1> QED
    BY <1>1, <1>3 DEF Amount, a, p

(* A payment that is put among others makes a list of payments.               *)
LEMMA Inserted ==
  ASSUME NEW s \in Seq(Payments), NEW e \in Payments, NEW n \in 1 .. Len(s) + 1
  PROVE  InsertAt(s, n, e) \in Seq(Payments)
  <1> DEFINE a == SubSeq(s, 1, n - 1)
             b == SubSeq(s, n, Len(s))
  <1>1. Len(s) \in Nat /\ n \in Int
    OBVIOUS
  <1>2. a \in Seq(Payments)
    BY <1>1, SubSeqProperties
  <1>3. b \in Seq(Payments)
    BY <1>1, SubSeqProperties
  <1> HIDE DEF a, b
  <1> DEFINE c == a \o <<e>>
  <1>4. c \in Seq(Payments)
    BY <1>2
  <1> HIDE DEF c
  <1>5. c \o b \in Seq(Payments)
    BY <1>3, <1>4, ConcatProperties
  <1> QED
    BY <1>5 DEF InsertAt, a, b, c

LEMMA InOrderInserts ==
  ASSUME NEW s \in Seq(Payments), NEW p \in Payments
  PROVE  \E n \in 1 .. Len(s) + 1 : InOrder(s, p) = InsertAt(s, n, p)
  <1> DEFINE K == {k \in DOMAIN s : s[k].paidAt <= p.paidAt}
  <1>1. Len(s) \in Nat /\ K \subseteq 1 .. Len(s)
    OBVIOUS
  <1>2. IsFiniteSet(1 .. Len(s)) /\ Cardinality(1 .. Len(s)) = Len(s)
    BY <1>1, FS_Interval
  <1>3. IsFiniteSet(K) /\ Cardinality(K) <= Len(s)
    BY <1>1, <1>2, FS_Subset
  <1>4. Cardinality(K) \in Nat
    BY <1>3, FS_CardinalityType
  <1> HIDE DEF K
  <1>5. 1 + Cardinality(K) \in 1 .. Len(s) + 1
    BY <1>1, <1>3, <1>4
  <1> QED
    BY <1>5 DEF InOrder, K

-----------------------------------------------------------------------------
(* The score.                                                                 *)

LEMMA BandsThereAre ==
  ASSUME NEW score \in Int
  PROVE  BandFor(score) \in {"healthy", "watch", "at_risk"}
  <1>1. CASE score >= 70
    <2>1. score \notin 40 .. 69
      BY <1>1
    <2>2. BandFor(score) = "healthy"
      BY <1>1, <2>1, Zenon DEF BandFor
    <2> QED
      BY <2>2
  <1>2. CASE score \in 40 .. 69
    <2>1. ~(score >= 70)
      BY <1>2
    <2>2. BandFor(score) = "watch"
      BY <1>2, <2>1, Zenon DEF BandFor
    <2> QED
      BY <2>2
  <1>3. CASE ~(score >= 70) /\ score \notin 40 .. 69
    <2>1. BandFor(score) = "at_risk"
      BY <1>3, Zenon DEF BandFor
    <2> QED
      BY <2>1
  <1> QED
    BY <1>1, <1>2, <1>3

LEMMA ScoreType ==
  ASSUME NEW input, input.paidDaysLate \in Seq(Nat), input.openOverdueCount \in Nat,
         input.maxDaysOverdue \in Int, input.missedRecurring \in Nat, input.lostCases \in Nat
  PROVE  ComputeHealth(input) \in Scores
  <1> DEFINE n == Max({1, Len(input.paidDaysLate)})
             late == SumSeq(input.paidDaysLate)
             trend == IF IsTrendUp(input.paidDaysLate) THEN 15 ELSE 0
             opens == IF input.opens > 0 /\ input.paysOrAttempts = 0 THEN 15 ELSE 0
             a == Clamp(8 * input.openOverdueCount, 0, 24)
             b == Clamp(input.maxDaysOverdue, 0, 20)
             c == Clamp(12 * input.missedRecurring, 0, 24)
             d == Clamp(15 * input.lostCases, 0, 30)
             whole == a + b + c + d + trend + opens
             cut == Min({2 * late, 30 * n})
             score == Clamp(HalfUp((100 - whole) * n - cut, n), 0, 100)
  <1>1. late \in Nat
    BY SumSeqIsNat
  <1>2. n \in Nat /\ n > 0
    <2>1. Len(input.paidDaysLate) \in Nat /\ Len(input.paidDaysLate) \in Int /\ 1 \in Int
      OBVIOUS
    <2>2. n \in {1, Len(input.paidDaysLate)} /\ n >= 1
      BY <2>1, LargerOfTwo
    <2> HIDE DEF n
    <2> QED
      BY <2>1, <2>2
  <1>3. trend \in Int /\ opens \in Int
    OBVIOUS
  <1>4. a \in Int /\ b \in Int /\ c \in Int /\ d \in Int
    <2>1. /\ 8 * input.openOverdueCount \in Int /\ 12 * input.missedRecurring \in Int
          /\ 15 * input.lostCases \in Int
          /\ 0 \in Int /\ 20 \in Int /\ 24 \in Int /\ 30 \in Int /\ 0 <= 20 /\ 0 <= 24 /\ 0 <= 30
      OBVIOUS
    <2>2. a \in 0 .. 24 /\ c \in 0 .. 24
      BY <2>1, ClampIsWithin
    <2>3. b \in 0 .. 20
      BY <2>1, ClampIsWithin
    <2>4. d \in 0 .. 30
      BY <2>1, ClampIsWithin
    <2> HIDE DEF a, b, c, d
    <2> QED
      BY <2>2, <2>3, <2>4
  <1> HIDE DEF n, late, trend, opens, a, b, c, d
  <1>5. cut \in Int
    <2>1. 2 * late \in Int /\ 30 * n \in Int
      BY <1>1, <1>2
    <2>2. cut \in {2 * late, 30 * n}
      BY <2>1, SmallerOfTwo
    <2> QED
      BY <2>1, <2>2
  <1>6. whole \in Int
    BY <1>3, <1>4
  <1> HIDE DEF whole, cut
  <1>7. (100 - whole) * n - cut \in Int
    BY <1>2, <1>5, <1>6
  <1>8. HalfUp((100 - whole) * n - cut, n) \in Int
    BY <1>2, <1>7, RoundedIsInt
  <1>9. score \in 0 .. 100
    <2>1. 0 \in Int /\ 100 \in Int /\ 0 <= 100
      OBVIOUS
    <2> QED
      BY <1>8, <2>1, ClampIsWithin
  <1>10. HalfUp(10 * late, n) \in Nat
    <2>1. 10 * late \in Int /\ 10 * late >= 0
      BY <1>1
    <2> QED
      BY <1>2, <2>1, RoundedIsInt
  <1> HIDE DEF score
  <1>11. BandFor(score) \in {"healthy", "watch", "at_risk"}
    BY <1>9, BandsThereAre
  <1>12. [score |-> score, band |-> BandFor(score), late10 |-> HalfUp(10 * late, n)] \in Scores
    BY <1>9, <1>10, <1>11 DEF Scores
  <1>13. [score |-> 100, band |-> "healthy", late10 |-> 0] \in Scores
    BY DEF Scores
  <1>14. ComputeHealth(input) =
           IF HasHistory(input)
           THEN [score |-> score, band |-> BandFor(score), late10 |-> HalfUp(10 * late, n)]
           ELSE [score |-> 100, band |-> "healthy", late10 |-> 0]
    BY DEF ComputeHealth, score, whole, cut, n, late, trend, opens, a, b, c, d
  <1> QED
    BY <1>12, <1>13, <1>14

LEMMA HealthType ==
  ASSUME PortfolioTypeOK, NEW t \in Int
  PROVE  ComputeHealth(AggregateInputs(t)) \in Scores
  <1> DEFINE Late(p) == Max({0, DaysFrom(invoice[p.id].due, p.paidAt)})
             lates == [k \in DOMAIN payments |-> Late(payments[k])]
             days == {DaysFrom(invoice[i].due, t) : i \in Overdue(t)}
             input == AggregateInputs(t)
  <1>1. \A i \in Ids : invoice[i].due \in Int
    BY DEF PortfolioTypeOK, Rows, Absent
  <1>2. payments \in Seq(Payments)
    BY DEF PortfolioTypeOK
  <1>3. \A x, y \in Int : DaysFrom(x, y) \in Int
    BY DEF DaysFrom, DAY
  <1>4. lates \in Seq(Nat)
    <2>1. DOMAIN payments = 1 .. Len(payments) /\ Len(payments) \in Nat
      BY <1>2
    <2>2. ASSUME NEW k \in 1 .. Len(payments)
          PROVE  lates[k] \in Nat
      <3>1. payments[k] \in Payments
        BY <1>2, <2>2
      <3>2. payments[k].id \in Ids /\ payments[k].paidAt \in Int
        BY <3>1 DEF Payments
      <3> DEFINE x == DaysFrom(invoice[payments[k].id].due, payments[k].paidAt)
      <3>3. x \in Int /\ 0 \in Int
        <4>1. invoice[payments[k].id].due \in Int
          BY <1>1, <3>2
        <4> QED
          BY <3>2, <4>1 DEF DaysFrom, DAY
      <3>4. lates[k] = Max({0, x})
        BY <2>1
      <3> HIDE DEF x
      <3>5. Max({0, x}) \in {0, x} /\ Max({0, x}) >= 0
        BY <3>3, LargerOfTwo
      <3> QED
        BY <3>3, <3>4, <3>5
    <2>3. lates = [k \in 1 .. Len(payments) |-> lates[k]]
      BY <2>1
    <2> HIDE DEF lates
    <2>4. lates \in [1 .. Len(payments) -> Nat]
      BY <2>2, <2>3
    <2> QED
      BY <2>1, <2>4
  <1>5. Overdue(t) \subseteq Ids /\ IsFiniteSet(Overdue(t))
    BY PortfolioNumbers, FS_Subset DEF Overdue
  <1>6. /\ Cardinality(Overdue(t)) \in Nat
        /\ Cardinality({i \in Overdue(t) : invoice[i].recurring}) \in Nat
        /\ Cardinality({i \in Ids : invoice[i].case = "lost"}) \in Nat
    <2>1. /\ IsFiniteSet({i \in Overdue(t) : invoice[i].recurring})
          /\ IsFiniteSet({i \in Ids : invoice[i].case = "lost"})
      BY <1>5, PortfolioNumbers, FS_Subset
    <2> QED
      BY <1>5, <2>1, FS_CardinalityType
  <1>7. Max({0} \cup days) \in Int
    <2> DEFINE m == [i \in Overdue(t) |-> DaysFrom(invoice[i].due, t)]
    <2>1. days = {m[i] : i \in Overdue(t)}
      OBVIOUS
    <2>2. IsFiniteSet(days)
      <3> HIDE DEF m, days
      <3> QED
        BY <1>5, <2>1, ImagesAreFinite
    <2>3. days \subseteq Int
      BY <1>1, <1>3, <1>5
    <2> HIDE DEF days
    <2>4. IsFiniteSet({0} \cup days) /\ {0} \cup days \subseteq Int /\ {0} \cup days # {}
      BY <2>2, <2>3, FS_AddElement
    <2> QED
      BY <2>3, <2>4, LargestThereIs
  <1>8. /\ input.paidDaysLate = lates
        /\ input.openOverdueCount = Cardinality(Overdue(t))
        /\ input.maxDaysOverdue = Max({0} \cup days)
        /\ input.missedRecurring = Cardinality({i \in Overdue(t) : invoice[i].recurring})
        /\ input.lostCases = Cardinality({i \in Ids : invoice[i].case = "lost"})
    BY DEF AggregateInputs
  <1> HIDE DEF input, lates, days
  <1>9. ComputeHealth(input) \in Scores
    BY <1>4, <1>6, <1>7, <1>8, ScoreType
  <1> QED
    BY <1>9 DEF input

-----------------------------------------------------------------------------
(* An invoice that is there has all its fields.                               *)
LEMMA RowType ==
  ASSUME PortfolioTypeOK, NEW i \in Ids
  PROVE  /\ Exists(i) <=> invoice[i] \in Rows
         /\ invoice[i] \in Rows \cup {Absent}
         /\ invoice[i].value \in Nat /\ invoice[i].due \in Int
         /\ IsOpen(i) => Exists(i)
         /\ invoice[i].status = "PAID" => Exists(i)
  <1>1. invoice[i] \in Rows \cup {Absent}
    BY DEF PortfolioTypeOK
  <1>2. \A row \in Rows : row.status \in {"PENDING", "OVERDUE", "PAID", "FAILED", "RENEGOTIATED"}
                          /\ row.value \in Nat /\ row.due \in Int
    BY DEF Rows, InvoiceStatuses
  <1>3. Absent.status = "ABSENT" /\ Absent.value = 0 /\ Absent.due = 0
    BY DEF Absent
  <1> QED
    BY <1>1, <1>2, <1>3 DEF Exists, IsOpen, Open

(* One row is written.                                                        *)
LEMMA RowWritten ==
  ASSUME PortfolioTypeOK, NEW i \in Ids, NEW row \in Rows, invoice' = [invoice EXCEPT ![i] = row]
  PROVE  /\ invoice' \in [Ids -> Rows \cup {Absent}]
         /\ \A j \in Ids : invoice'[j] = IF j = i THEN row ELSE invoice[j]
  BY DEF PortfolioTypeOK

(* A new invoice.                                                             *)
LEMMA NewRowType ==
  ASSUME NEW v \in Nat, NEW d \in Int, NEW recurring \in BOOLEAN
  PROVE  /\ NewRow(v, d, recurring) \in Rows
         /\ NewRow(v, d, recurring).status = "PENDING"
         /\ NewRow(v, d, recurring).value = v /\ NewRow(v, d, recurring).due = d
  <1>1. Absent \in [status : {"ABSENT"}, value : Nat, due : Int, recurring : BOOLEAN,
                    opens : Nat, attempts : Nat, case : Cases]
    BY DEF Absent, Cases
  <1> QED
    BY <1>1 DEF NewRow, Rows, InvoiceStatuses

(* What keeps the page true, and the stored statuses.                         *)
LEMMA PageStaysTrue ==
  ASSUME PortfolioTypeOK, PageIsTrue, page' \in {page, None},
         \A i \in Ids : Exists(i) => invoice'[i].status # "ABSENT" /\ invoice'[i].value = invoice[i].value
  PROVE  PageIsTrue'
  <1> SUFFICES ASSUME page' # None
               PROVE  /\ invoice'[page'.id].status # "ABSENT"
                      /\ page'.options = ComputeOptions(page'.rules, invoice'[page'.id].value, page'.at)
    BY DEF PageIsTrue, Exists
  <1>1. page' = page /\ page # None
    OBVIOUS
  <1>2. page.id \in Ids
    BY <1>1 DEF PortfolioTypeOK
  <1>3. Exists(page.id) /\ page.options = ComputeOptions(page.rules, invoice[page.id].value, page.at)
    BY <1>1 DEF PageIsTrue
  <1> QED
    BY <1>1, <1>2, <1>3

LEMMA StatusesStayTrue ==
  ASSUME PortfolioTypeOK, OverdueIsLate, now' \in Int, now <= now', now \in Int,
         \A i \in Ids : invoice'[i].status = "OVERDUE" =>
           invoice[i].status = "OVERDUE" /\ invoice'[i].due = invoice[i].due
  PROVE  OverdueIsLate'
  <1> SUFFICES ASSUME NEW i \in Ids, invoice'[i].status = "OVERDUE"
               PROVE  invoice'[i].due < now'
    BY DEF OverdueIsLate
  <1>1. invoice[i].due \in Int /\ invoice[i].due < now /\ invoice'[i].due = invoice[i].due
    BY RowType DEF OverdueIsLate
  <1> QED
    BY <1>1

LEMMA Clock == ASSUME PortfolioTypeOK PROVE now \in Int /\ now \in Instants
  BY PortfolioNumbers DEF PortfolioTypeOK

-----------------------------------------------------------------------------
(* The steps.                                                                 *)

LEMMA TickKeeps ==
  ASSUME PortfolioIInv, Tick
  PROVE  PortfolioIInv'
  <1>0. PortfolioTypeOK /\ ScoresAreHeld /\ PageIsTrue /\ OverdueIsLate
    BY DEF PortfolioIInv
  <1> DEFINE later == {t \in Instants : t > now}
  <1>1. /\ later # {} /\ now' = Min(later)
        /\ UNCHANGED <<invoice, payments, clientSubscription, billed, rules, agreement, page, health,
                       recomputing, held, changes>>
    BY DEF Tick
  <1>2. IsFiniteSet(later) /\ later \subseteq Int
    <2>1. IsFiniteSet(Instants) /\ Instants \subseteq Int
      BY PortfolioAssumption
    <2> QED
      BY <2>1, FS_Subset
  <1>3. now' \in later
    <2> HIDE DEF later
    <2> QED
      BY <1>1, <1>2, SmallestThereIs
  <1>4. now' \in Instants /\ now' \in Int /\ now \in Int /\ now <= now'
    BY <1>0, <1>2, <1>3, Clock
  <1>5. PortfolioTypeOK'
    BY <1>0, <1>1, <1>4 DEF PortfolioTypeOK
  <1>6. ScoresAreHeld' /\ PageIsTrue'
    BY <1>0, <1>1 DEF ScoresAreHeld, PageIsTrue, Exists
  <1>7. OverdueIsLate'
    BY <1>0, <1>1, <1>4, StatusesStayTrue
  <1> QED
    BY <1>5, <1>6, <1>7 DEF PortfolioIInv

(* Only what is late becomes overdue.                                         *)
LEMMA MarkOverdueKeeps ==
  ASSUME PortfolioIInv, MarkOverdue
  PROVE  PortfolioIInv'
  <1>0. PortfolioTypeOK /\ ScoresAreHeld /\ PageIsTrue /\ OverdueIsLate
    BY DEF PortfolioIInv
  <1> DEFINE row(i) == [invoice[i] EXCEPT !.status = EffectiveInvoiceStatus(invoice[i].status, invoice[i].due, now)]
  <1>1. /\ invoice' = [i \in Ids |-> row(i)]
        /\ UNCHANGED <<now, payments, clientSubscription, billed, rules, agreement, page, health,
                       recomputing, held, changes>>
    BY DEF MarkOverdue
  <1>2. ASSUME NEW i \in Ids
        PROVE  /\ row(i) \in Rows \cup {Absent}
               /\ row(i).value = invoice[i].value /\ row(i).due = invoice[i].due
               /\ \/ row(i).status = invoice[i].status
                  \/ /\ invoice[i].status = "PENDING" /\ row(i).status = "OVERDUE"
                     /\ invoice[i].due < now
    <2> DEFINE r == invoice[i]
    <2>1. r \in Rows \cup {Absent}
      BY <1>0, RowType
    <2>2. EffectiveInvoiceStatus(r.status, r.due, now) =
            IF r.status = "PENDING" /\ r.due < now THEN "OVERDUE" ELSE r.status
      BY DEF EffectiveInvoiceStatus
    <2> HIDE DEF r
    <2>3. CASE r.status = "PENDING" /\ r.due < now
      <3>1. r \in Rows
        BY <2>1, <2>3 DEF Absent
      <3>2. [r EXCEPT !.status = "OVERDUE"] \in Rows
        BY <3>1 DEF Rows, InvoiceStatuses
      <3>3. /\ [r EXCEPT !.status = "OVERDUE"].value = r.value
            /\ [r EXCEPT !.status = "OVERDUE"].due = r.due
            /\ [r EXCEPT !.status = "OVERDUE"].status = "OVERDUE"
        BY <3>1 DEF Rows
      <3> QED
        BY <2>2, <2>3, <3>2, <3>3 DEF r
    <2>4. CASE ~(r.status = "PENDING" /\ r.due < now)
      <3>1. [r EXCEPT !.status = r.status] = r
        BY <2>1 DEF Rows, Absent
      <3>2. EffectiveInvoiceStatus(r.status, r.due, now) = r.status
        BY <2>2, <2>4
      <3>3. row(i) = r
        BY <3>1, <3>2 DEF r
      <3>4. row(i) = invoice[i] /\ invoice[i] \in Rows \cup {Absent}
        BY <2>1, <3>3 DEF r
      <3> HIDE DEF row
      <3> QED
        BY <3>4
    <2> QED
      BY <2>3, <2>4
  <1> HIDE DEF row
  <1>3. \A i \in Ids : invoice'[i] = row(i)
    BY <1>1
  <1>4. invoice' \in [Ids -> Rows \cup {Absent}]
    BY <1>1, <1>2
  <1>5. PortfolioTypeOK'
    BY <1>0, <1>1, <1>4 DEF PortfolioTypeOK
  <1>6. PageIsTrue'
    <2>1. \A i \in Ids : Exists(i) => invoice'[i].status # "ABSENT" /\ invoice'[i].value = invoice[i].value
      BY <1>2, <1>3 DEF Exists
    <2> QED
      BY <1>0, <1>1, <2>1, PageStaysTrue
  <1>7. OverdueIsLate'
    BY <1>0, <1>1, <1>2, <1>3 DEF OverdueIsLate
  <1>8. ScoresAreHeld'
    BY <1>0, <1>1 DEF ScoresAreHeld
  <1> QED
    BY <1>5, <1>6, <1>7, <1>8 DEF PortfolioIInv

(* A row is written whose status, value and date stay.                        *)
LEMMA RowChangeKeeps ==
  ASSUME PortfolioIInv, NEW i \in Ids, NEW row \in Rows, invoice' = [invoice EXCEPT ![i] = row],
         row.status = invoice[i].status, row.value = invoice[i].value, row.due = invoice[i].due,
         UNCHANGED <<now, payments, clientSubscription, billed, rules, agreement, page, health,
                     recomputing, held, changes>>
  PROVE  PortfolioIInv'
  <1>0. PortfolioTypeOK /\ ScoresAreHeld /\ PageIsTrue /\ OverdueIsLate
    BY DEF PortfolioIInv
  <1>1. /\ invoice' \in [Ids -> Rows \cup {Absent}]
        /\ \A j \in Ids : invoice'[j] = IF j = i THEN row ELSE invoice[j]
    BY <1>0, RowWritten
  <1>2. \A j \in Ids : /\ invoice'[j].status = invoice[j].status /\ invoice'[j].value = invoice[j].value
                       /\ invoice'[j].due = invoice[j].due
    BY <1>1
  <1>3. PortfolioTypeOK'
    BY <1>0, <1>1 DEF PortfolioTypeOK
  <1>4. PageIsTrue'
    BY <1>0, <1>2, PageStaysTrue DEF Exists
  <1>5. OverdueIsLate'
    BY <1>0, <1>2 DEF OverdueIsLate
  <1>6. ScoresAreHeld'
    BY <1>0 DEF ScoresAreHeld
  <1> QED
    BY <1>3, <1>4, <1>5, <1>6 DEF PortfolioIInv

LEMMA CasesAndEventsKeep ==
  ASSUME PortfolioIInv, NEW i \in Ids,
         EnrollCase(i) \/ LoseCase(i) \/ OpenLink(i) \/ PayAttempt(i)
  PROVE  PortfolioIInv'
  <1>0. PortfolioTypeOK
    BY DEF PortfolioIInv
  <1>1. CASE EnrollCase(i) \/ LoseCase(i)
    <2>1. PICK c \in Cases : invoice' = [invoice EXCEPT ![i].case = c]
      BY <1>1 DEF EnrollCase, LoseCase, Cases
    <2>2. Exists(i)
      BY <1>0, <1>1, RowType DEF EnrollCase, LoseCase, Exists, Absent
    <2> DEFINE row == [invoice[i] EXCEPT !.case = c]
    <2>3. invoice[i] \in Rows
      BY <1>0, <2>2, RowType
    <2>4. /\ row \in Rows /\ row.status = invoice[i].status
          /\ row.value = invoice[i].value /\ row.due = invoice[i].due
      BY <2>3 DEF Rows
    <2>5. invoice' = [invoice EXCEPT ![i] = row]
      BY <1>0, <2>1 DEF PortfolioTypeOK
    <2>6. UNCHANGED <<now, payments, clientSubscription, billed, rules, agreement, page, health,
                      recomputing, held, changes>>
      BY <1>1 DEF EnrollCase, LoseCase
    <2> HIDE DEF row
    <2> QED
      BY <2>4, <2>5, <2>6, RowChangeKeeps
  <1>2. CASE OpenLink(i)
    <2> DEFINE row == [invoice[i] EXCEPT !.opens = @ + 1]
    <2>1. invoice[i] \in Rows
      BY <1>0, <1>2, RowType DEF OpenLink
    <2>2. /\ row \in Rows /\ row.status = invoice[i].status
          /\ row.value = invoice[i].value /\ row.due = invoice[i].due
      BY <2>1 DEF Rows
    <2>3. invoice' = [invoice EXCEPT ![i] = row]
      BY <1>0, <1>2 DEF PortfolioTypeOK, OpenLink
    <2>4. UNCHANGED <<now, payments, clientSubscription, billed, rules, agreement, page, health,
                      recomputing, held, changes>>
      BY <1>2 DEF OpenLink
    <2> HIDE DEF row
    <2> QED
      BY <2>2, <2>3, <2>4, RowChangeKeeps
  <1>3. CASE PayAttempt(i)
    <2> DEFINE row == [invoice[i] EXCEPT !.attempts = @ + 1]
    <2>1. invoice[i] \in Rows
      BY <1>0, <1>3, RowType DEF PayAttempt
    <2>2. /\ row \in Rows /\ row.status = invoice[i].status
          /\ row.value = invoice[i].value /\ row.due = invoice[i].due
      BY <2>1 DEF Rows
    <2>3. invoice' = [invoice EXCEPT ![i] = row]
      BY <1>0, <1>3 DEF PortfolioTypeOK, PayAttempt
    <2>4. UNCHANGED <<now, payments, clientSubscription, billed, rules, agreement, page, health,
                      recomputing, held, changes>>
      BY <1>3 DEF PayAttempt
    <2> HIDE DEF row
    <2> QED
      BY <2>2, <2>3, <2>4, RowChangeKeeps
  <1> QED
    BY <1>1, <1>2, <1>3

LEMMA AddedInOrder ==
  ASSUME NEW s \in Seq(Payments), NEW p \in Payments
  PROVE  InOrder(s, p) \in Seq(Payments)
  BY InOrderInserts, Inserted

(* What the bound of changes counts stays within it.                          *)
LEMMA CountKeeps ==
  ASSUME PortfolioTypeOK, NEW change \in BOOLEAN, CountedIf(change)
  PROVE  changes' \in 0 .. MaxChanges
  <1>1. changes \in 0 .. MaxChanges /\ MaxChanges \in Nat
    BY PortfolioNumbers DEF PortfolioTypeOK
  <1> QED
    BY <1>1 DEF CountedIf

(* A payment goes among the others at its date, whatever its amount.          *)
LEMMA SettleKeeps ==
  ASSUME PortfolioIInv, NEW i \in Ids, NEW amount \in Nat, NEW day \in Days, Settle(i, amount, day)
  PROVE  PortfolioIInv'
  <1>0. PortfolioTypeOK /\ ScoresAreHeld /\ PageIsTrue /\ OverdueIsLate
    BY DEF PortfolioIInv
  <1> DEFINE p == [id |-> i, amount |-> amount, paidAt |-> day]
  <1>1. PICK c \in CaseClosed(invoice[i].case), r \in Followers :
          /\ recomputing[r] = "idle"
          /\ invoice' = [invoice EXCEPT ![i].status = "PAID", ![i].case = c]
          /\ payments' = InOrder(payments, p)
          /\ recomputing' = [recomputing EXCEPT ![r] = "reading"]
    BY DEF Settle
  <1>2. /\ invoice[i].status \in {"PENDING", "OVERDUE", "FAILED"}
        /\ CountedIf(amount # invoice[i].value)
        /\ UNCHANGED <<now, clientSubscription, billed, rules, agreement, page, health, held>>
    BY DEF Settle, CanTransitionInvoice, InvoiceTransitions
  <1> DEFINE row == [invoice[i] EXCEPT !.status = "PAID", !.case = c]
  <1>3. invoice[i] \in Rows
    BY <1>0, <1>2, RowType DEF Exists
  <1>4. c \in Cases
    BY <1>3 DEF CaseClosed, Rows, Cases
  <1>5. row \in Rows /\ row.status = "PAID" /\ row.value = invoice[i].value
    BY <1>3, <1>4 DEF Rows, InvoiceStatuses
  <1>6. invoice' = [invoice EXCEPT ![i] = row]
    BY <1>0, <1>1 DEF PortfolioTypeOK
  <1>7. day \in Int
    BY <1>0, Clock, PortfolioNumbers DEF Days
  <1>8. p \in Payments
    BY <1>7 DEF Payments
  <1> HIDE DEF row, p
  <1>9. /\ invoice' \in [Ids -> Rows \cup {Absent}]
        /\ \A j \in Ids : invoice'[j] = IF j = i THEN row ELSE invoice[j]
    BY <1>0, <1>5, <1>6, RowWritten
  <1>10. payments' \in Seq(Payments)
    <2>1. payments \in Seq(Payments)
      BY <1>0 DEF PortfolioTypeOK
    <2>2. InOrder(payments, p) \in Seq(Payments)
      BY <1>8, <2>1, AddedInOrder
    <2> QED
      BY <1>1, <2>2
  <1>11. /\ recomputing' \in [Recomputers -> {"idle", "reading", "writing"}]
         /\ \A x \in Recomputers : recomputing'[x] = "writing" => recomputing[x] = "writing"
    BY <1>0, <1>1 DEF PortfolioTypeOK
  <1>12. PortfolioTypeOK'
    <2>1. changes' \in 0 .. MaxChanges
      BY <1>0, <1>2, CountKeeps
    <2> QED
      BY <1>0, <1>2, <1>9, <1>10, <1>11, <2>1 DEF PortfolioTypeOK
  <1>13. ScoresAreHeld'
    BY <1>0, <1>2, <1>11 DEF ScoresAreHeld
  <1>14. PageIsTrue'
    <2>1. \A j \in Ids : Exists(j) => invoice'[j].status # "ABSENT" /\ invoice'[j].value = invoice[j].value
      BY <1>5, <1>9 DEF Exists
    <2> QED
      BY <1>0, <1>2, <2>1, PageStaysTrue
  <1>15. OverdueIsLate'
    BY <1>0, <1>2, <1>5, <1>9 DEF OverdueIsLate
  <1> QED
    BY <1>12, <1>13, <1>14, <1>15 DEF PortfolioIInv

LEMMA PaymentsKeep ==
  ASSUME PortfolioIInv, NEW i \in Ids, ConfirmPayment(i) \/ RegisterManual(i)
  PROVE  PortfolioIInv'
  <1>1. invoice[i].value \in Nat /\ Typed \subseteq Nat
    BY RowType, PortfolioNumbers DEF PortfolioIInv
  <1>2. PICK day \in Days, amount \in Nat : Settle(i, amount, day)
    BY <1>1 DEF ConfirmPayment, RegisterManual
  <1> QED
    BY <1>2, SettleKeeps

(* Whatever the gateway says, what is stored as overdue is late.              *)
LEMMA GatewayNewsKeeps ==
  ASSUME PortfolioIInv, NEW i \in Ids, NEW status \in {"FAILED", "PENDING", "OVERDUE"},
         GatewayNews(i, status)
  PROVE  PortfolioIInv'
  <1>0. PortfolioTypeOK /\ ScoresAreHeld /\ PageIsTrue /\ OverdueIsLate
    BY DEF PortfolioIInv
  <1>1. /\ invoice[i].status \in {"PENDING", "OVERDUE", "FAILED"}
        /\ status = "OVERDUE" => invoice[i].due < now
        /\ invoice' = [invoice EXCEPT ![i].status = status]
        /\ CountedIf(status = "FAILED")
        /\ UNCHANGED <<now, payments, clientSubscription, billed, rules, agreement, page, health,
                        recomputing, held>>
    BY DEF GatewayNews, CanTransitionInvoice, InvoiceTransitions
  <1> DEFINE row == [invoice[i] EXCEPT !.status = status]
  <1>2. invoice[i] \in Rows
    BY <1>0, <1>1, RowType DEF Exists
  <1>3. /\ row \in Rows /\ row.status = status
        /\ row.value = invoice[i].value /\ row.due = invoice[i].due
    BY <1>2 DEF Rows, InvoiceStatuses
  <1>4. invoice' = [invoice EXCEPT ![i] = row]
    BY <1>0, <1>1 DEF PortfolioTypeOK
  <1> HIDE DEF row
  <1>5. /\ invoice' \in [Ids -> Rows \cup {Absent}]
        /\ \A j \in Ids : invoice'[j] = IF j = i THEN row ELSE invoice[j]
    BY <1>0, <1>3, <1>4, RowWritten
  <1>6. PortfolioTypeOK'
    <2>1. changes' \in 0 .. MaxChanges
      BY <1>0, <1>1, CountKeeps
    <2> QED
      BY <1>0, <1>1, <1>5, <2>1 DEF PortfolioTypeOK
  <1>7. ScoresAreHeld'
    BY <1>0, <1>1 DEF ScoresAreHeld
  <1>8. PageIsTrue'
    <2>1. \A j \in Ids : Exists(j) => invoice'[j].status # "ABSENT" /\ invoice'[j].value = invoice[j].value
      BY <1>3, <1>5 DEF Exists
    <2> QED
      BY <1>0, <1>1, <2>1, PageStaysTrue
  <1>9. OverdueIsLate'
    BY <1>0, <1>1, <1>3, <1>5 DEF OverdueIsLate
  <1> QED
    BY <1>6, <1>7, <1>8, <1>9 DEF PortfolioIInv

(* A new invoice, numbered next.                                              *)
LEMMA NewInvoice ==
  ASSUME PortfolioTypeOK, OverdueIsLate, PageIsTrue,
         NEW i \in Ids, Free(i), NEW v \in Nat, NEW d \in Int, NEW recurring \in BOOLEAN,
         invoice' = [invoice EXCEPT ![i] = NewRow(v, d, recurring)],
         UNCHANGED <<now, payments, page>>
  PROVE  /\ invoice' \in [Ids -> Rows \cup {Absent}]
         /\ OverdueIsLate' /\ PageIsTrue'
  <1> DEFINE row == NewRow(v, d, recurring)
  <1>1. row \in Rows /\ row.status = "PENDING"
    BY NewRowType
  <1>2. invoice' = [invoice EXCEPT ![i] = row]
    OBVIOUS
  <1> HIDE DEF row
  <1>3. /\ invoice' \in [Ids -> Rows \cup {Absent}]
        /\ \A j \in Ids : invoice'[j] = IF j = i THEN row ELSE invoice[j]
    BY <1>1, <1>2, RowWritten
  <1>4. invoice[i].status = "ABSENT"
    BY DEF Free, Exists
  <1>5. OverdueIsLate'
    BY <1>1, <1>3 DEF OverdueIsLate
  <1>6. PageIsTrue'
    <2>1. \A j \in Ids : Exists(j) => invoice'[j].status # "ABSENT" /\ invoice'[j].value = invoice[j].value
      BY <1>3, <1>4 DEF Exists
    <2> QED
      BY <2>1, PageStaysTrue
  <1> QED
    BY <1>3, <1>5, <1>6

LEMMA BillMonthKeeps ==
  ASSUME PortfolioIInv, BillMonth
  PROVE  PortfolioIInv'
  <1>0. PortfolioTypeOK /\ ScoresAreHeld /\ PageIsTrue /\ OverdueIsLate
    BY DEF PortfolioIInv
  <1> DEFINE v == Amount(clientSubscription)
             d == clientSubscription.nextRunDate
  <1>1. PICK i \in Ids : Free(i) /\ invoice' = [invoice EXCEPT ![i] = NewRow(v, d, TRUE)]
    BY DEF BillMonth
  <1>2. billed' = TRUE /\ UNCHANGED <<now, payments, clientSubscription, rules, agreement, page, health,
                 recomputing, held, changes>>
    BY DEF BillMonth
  <1>3. clientSubscription \in SubscriptionRows
    BY <1>0 DEF PortfolioTypeOK
  <1>4. v \in Nat /\ d \in Int
    BY <1>3, AmountIsNat DEF SubscriptionRows
  <1> HIDE DEF v, d
  <1>5. /\ invoice' \in [Ids -> Rows \cup {Absent}]
        /\ OverdueIsLate' /\ PageIsTrue'
    BY <1>0, <1>1, <1>2, <1>4, NewInvoice
  <1>6. PortfolioTypeOK'
    BY <1>0, <1>2, <1>5 DEF PortfolioTypeOK
  <1>7. ScoresAreHeld'
    BY <1>0, <1>2 DEF ScoresAreHeld
  <1> QED
    BY <1>5, <1>6, <1>7 DEF PortfolioIInv

(* Steps that touch no invoice, payment or page.                              *)
LEMMA InvoicesStay ==
  ASSUME PortfolioIInv, UNCHANGED <<now, invoice, payments, page>>
  PROVE  PageIsTrue' /\ OverdueIsLate'
  BY DEF PortfolioIInv, PageIsTrue, OverdueIsLate, Exists

LEMMA SubscriptionStepsKeep ==
  ASSUME PortfolioIInv, AdvanceMonth \/ ChangeSubscription \/ UpdateRules
  PROVE  PortfolioIInv'
  <1>0. PortfolioTypeOK /\ ScoresAreHeld
    BY DEF PortfolioIInv
  <1>1. UNCHANGED <<now, invoice, payments, page, recomputing, held, agreement, health>>
    BY DEF AdvanceMonth, ChangeSubscription, UpdateRules
  <1>2. clientSubscription' \in SubscriptionRows
    <2>1. CASE AdvanceMonth
      <3>1. clientSubscription \in SubscriptionRows /\ Month \in Nat
        BY <1>0, PortfolioNumbers DEF PortfolioTypeOK
      <3>2. clientSubscription' = [clientSubscription EXCEPT !.nextRunDate = @ + Month]
        BY <2>1 DEF AdvanceMonth
      <3> QED
        BY <3>1, <3>2 DEF SubscriptionRows
    <2>2. CASE ChangeSubscription
      BY <1>0, <2>2 DEF PortfolioTypeOK, SubscriptionRows, ChangeSubscription
    <2>3. CASE UpdateRules
      BY <1>0, <2>3 DEF PortfolioTypeOK, UpdateRules
    <2> QED
      BY <2>1, <2>2, <2>3
  <1>3. rules' \in NegotiationRules
    BY <1>0, PortfolioNumbers DEF PortfolioTypeOK, AdvanceMonth, ChangeSubscription, UpdateRules
  <1>4. changes' \in 0 .. MaxChanges /\ billed' \in BOOLEAN
    <2>1. changes \in 0 .. MaxChanges /\ billed \in BOOLEAN /\ MaxChanges \in Nat
      BY <1>0, PortfolioNumbers DEF PortfolioTypeOK
    <2>2. changes' = changes \/ (changes < MaxChanges /\ changes' = changes + 1)
      BY DEF AdvanceMonth, ChangeSubscription, UpdateRules
    <2>3. billed' = FALSE \/ billed' = billed
      BY DEF AdvanceMonth, ChangeSubscription, UpdateRules
    <2>4. changes' \in 0 .. MaxChanges
      BY <2>1, <2>2
    <2> QED
      BY <2>1, <2>3, <2>4
  <1>5. PortfolioTypeOK'
    BY <1>0, <1>1, <1>2, <1>3, <1>4 DEF PortfolioTypeOK
  <1>6. ScoresAreHeld'
    BY <1>0, <1>1 DEF ScoresAreHeld
  <1>7. PageIsTrue' /\ OverdueIsLate'
    BY <1>1, InvoicesStay
  <1> QED
    BY <1>5, <1>6, <1>7 DEF PortfolioIInv

(* The page that is shown is what the rules of the moment offer.              *)
LEMMA GetOptionsKeeps ==
  ASSUME PortfolioIInv, NEW i \in Ids, GetOptions(i)
  PROVE  PortfolioIInv'
  <1>0. PortfolioTypeOK /\ ScoresAreHeld /\ PageIsTrue /\ OverdueIsLate
    BY DEF PortfolioIInv
  <1> DEFINE O == ComputeOptions(rules, invoice[i].value, now)
             shown == [id |-> i, at |-> now, rules |-> rules, options |-> O]
             Pages == [id : Ids, at : Int, rules : NegotiationRules, options : SUBSET AllTerms]
  <1>1. /\ Exists(i) /\ page' \in {shown, None}
        /\ UNCHANGED <<now, invoice, payments, clientSubscription, billed, rules, agreement, health,
                       recomputing, held, changes>>
    BY DEF GetOptions
  <1>2. now \in Int /\ rules \in NegotiationRules /\ invoice[i].value \in Nat
    BY <1>0, Clock, RowType DEF PortfolioTypeOK
  <1>3. O \subseteq AllTerms
    BY <1>2, OptionsType
  <1> HIDE DEF O
  <1>4. /\ shown \in Pages /\ shown.id = i /\ shown.rules = rules /\ shown.at = now /\ shown.options = O
    BY <1>2, <1>3
  <1> HIDE DEF shown
  <1>5. PortfolioTypeOK'
    BY <1>0, <1>1, <1>4 DEF PortfolioTypeOK
  <1>6. PageIsTrue'
    <2> SUFFICES ASSUME page' # None
                 PROVE  /\ invoice'[page'.id].status # "ABSENT"
                        /\ page'.options = ComputeOptions(page'.rules, invoice'[page'.id].value, page'.at)
      BY DEF PageIsTrue, Exists
    <2>1. page' = shown
      BY <1>1
    <2> QED
      BY <1>1, <1>4, <2>1 DEF O, Exists
  <1>7. OverdueIsLate' /\ ScoresAreHeld'
    BY <1>0, <1>1 DEF OverdueIsLate, ScoresAreHeld
  <1> QED
    BY <1>5, <1>6, <1>7 DEF PortfolioIInv

(* What an agreement writes: the old invoice is renegotiated, the new one is   *)
(* what its terms say.                                                        *)
LEMMA Accepted ==
  ASSUME PortfolioTypeOK, NEW i \in Ids, NEW type, NEW n \in Nat, n > 0, Accept(i, type, n)
  PROVE  /\ IsOpen(i) /\ agreement[i] = None /\ page' = None
         /\ UNCHANGED <<now, payments, clientSubscription, billed, rules, health, recomputing, held, changes>>
         /\ \E t \in ComputeTerms(rules, invoice[i].value, type, n, now), j \in Ids :
              /\ t \in AllTerms /\ j # i /\ Free(j)
              /\ agreement' = [agreement EXCEPT ![i] = [terms |-> t, new |-> j]]
              /\ invoice' \in [Ids -> Rows \cup {Absent}]
              /\ invoice'[j] = NewRow(t.finalValue, t.due, FALSE)
              /\ invoice'[i].status = "RENEGOTIATED" /\ invoice'[i].value = invoice[i].value
              /\ \A k \in Ids \ {i, j} : invoice'[k] = invoice[k]
  <1>1. /\ IsOpen(i) /\ agreement[i] = None /\ page' = None
        /\ UNCHANGED <<now, payments, clientSubscription, billed, rules, health, recomputing, held, changes>>
    BY DEF Accept
  <1>2. PICK t \in ComputeTerms(rules, invoice[i].value, type, n, now), j \in Ids,
             c \in CaseClosed(invoice[i].case) :
          /\ Free(j)
          /\ invoice' = [invoice EXCEPT ![i].status = "RENEGOTIATED", ![i].case = c,
                                        ![j] = NewRow(t.finalValue, t.due, FALSE)]
          /\ agreement' = [agreement EXCEPT ![i] = [terms |-> t, new |-> j]]
    BY DEF Accept
  <1>3. now \in Int /\ rules \in NegotiationRules /\ invoice[i].value \in Nat
    BY Clock, RowType DEF PortfolioTypeOK
  <1>4. t \in AllTerms
    BY <1>2, <1>3, ChosenTermsType
  <1>5. t.finalValue \in Nat /\ t.due \in Int
    BY <1>4 DEF AllTerms
  <1>6. j # i
    BY <1>1, <1>2, RowType DEF Free
  <1>7. invoice[i] \in Rows
    BY <1>1, RowType
  <1>8. c \in Cases
    BY <1>2, <1>7 DEF CaseClosed, Rows, Cases
  <1> DEFINE row == [invoice[i] EXCEPT !.status = "RENEGOTIATED", !.case = c]
             new == NewRow(t.finalValue, t.due, FALSE)
  <1>9. row \in Rows /\ row.status = "RENEGOTIATED" /\ row.value = invoice[i].value
    BY <1>7, <1>8 DEF Rows, InvoiceStatuses
  <1>10. new \in Rows
    BY <1>5, NewRowType
  <1>11. invoice' = [invoice EXCEPT ![i] = row, ![j] = new]
    BY <1>2, <1>6 DEF PortfolioTypeOK
  <1> HIDE DEF row, new
  <1>12. /\ invoice' \in [Ids -> Rows \cup {Absent}]
         /\ \A k \in Ids : invoice'[k] = IF k = j THEN new ELSE IF k = i THEN row ELSE invoice[k]
    BY <1>9, <1>10, <1>11 DEF PortfolioTypeOK
  <1>13. invoice'[j] = new /\ invoice'[i] = row /\ \A k \in Ids \ {i, j} : invoice'[k] = invoice[k]
    BY <1>6, <1>12
  <1> QED
    BY <1>1, <1>2, <1>4, <1>6, <1>9, <1>12, <1>13 DEF new

LEMMA AcceptKeeps ==
  ASSUME PortfolioIInv, NEW i \in Ids, NEW type, NEW n \in 1 .. rules.maxInstallments, Accept(i, type, n)
  PROVE  PortfolioIInv'
  <1>0. PortfolioTypeOK /\ ScoresAreHeld /\ PageIsTrue /\ OverdueIsLate
    BY DEF PortfolioIInv
  <1>1. n \in Nat /\ n > 0
    BY <1>0 DEF PortfolioTypeOK, NegotiationRules
  <1>2. /\ IsOpen(i) /\ page' = None
        /\ UNCHANGED <<now, payments, clientSubscription, billed, rules, health, recomputing, held, changes>>
    BY <1>0, <1>1, Accepted
  <1>3. PICK t \in ComputeTerms(rules, invoice[i].value, type, n, now), j \in Ids :
              /\ t \in AllTerms /\ j # i /\ Free(j)
              /\ agreement' = [agreement EXCEPT ![i] = [terms |-> t, new |-> j]]
              /\ invoice' \in [Ids -> Rows \cup {Absent}]
              /\ invoice'[j] = NewRow(t.finalValue, t.due, FALSE)
              /\ invoice'[i].status = "RENEGOTIATED" /\ invoice'[i].value = invoice[i].value
              /\ \A k \in Ids \ {i, j} : invoice'[k] = invoice[k]
    BY <1>0, <1>1, Accepted
  <1>4. invoice'[j].status = "PENDING"
    <2>1. t.finalValue \in Nat /\ t.due \in Int
      BY <1>3 DEF AllTerms
    <2>2. FALSE \in BOOLEAN
      OBVIOUS
    <2>3. NewRow(t.finalValue, t.due, FALSE).status = "PENDING"
      BY <2>1, <2>2, NewRowType
    <2> QED
      BY <1>3, <2>3
  <1>5. PortfolioTypeOK'
    <2>1. [terms |-> t, new |-> j] \in [terms : AllTerms, new : Ids]
      BY <1>3
    <2>2. agreement' \in [Ids -> {None} \cup [terms : AllTerms, new : Ids]]
      BY <1>0, <1>3, <2>1 DEF PortfolioTypeOK
    <2> QED
      BY <1>0, <1>2, <1>3, <2>2 DEF PortfolioTypeOK
  <1>6. OverdueIsLate'
    BY <1>0, <1>2, <1>3, <1>4 DEF OverdueIsLate
  <1>7. PageIsTrue' /\ ScoresAreHeld'
    BY <1>0, <1>2 DEF PageIsTrue, ScoresAreHeld
  <1> QED
    BY <1>5, <1>6, <1>7 DEF PortfolioIInv

(* A recomputation that reads holds a score.                                  *)
LEMMA ReadKeeps ==
  ASSUME PortfolioIInv, NEW r \in Recomputers, Read(r)
  PROVE  PortfolioIInv'
  <1>0. PortfolioTypeOK /\ ScoresAreHeld
    BY DEF PortfolioIInv
  <1> DEFINE score == ComputeHealth(AggregateInputs(now))
  <1>1. /\ held' = [held EXCEPT ![r] = score]
        /\ recomputing' = [recomputing EXCEPT ![r] = "writing"]
        /\ UNCHANGED <<now, invoice, payments, clientSubscription, billed, rules, agreement, page,
                       health, changes>>
    BY DEF Read
  <1>2. score \in Scores
    BY <1>0, Clock, HealthType
  <1> HIDE DEF score
  <1>3. /\ held' \in [Recomputers -> {None} \cup Scores]
        /\ recomputing' \in [Recomputers -> {"idle", "reading", "writing"}]
        /\ \A x \in Recomputers : /\ held'[x] = IF x = r THEN score ELSE held[x]
                                  /\ recomputing'[x] = IF x = r THEN "writing" ELSE recomputing[x]
    BY <1>0, <1>1, <1>2 DEF PortfolioTypeOK
  <1>4. PortfolioTypeOK'
    BY <1>0, <1>1, <1>3 DEF PortfolioTypeOK
  <1>5. ScoresAreHeld'
    BY <1>0, <1>2, <1>3 DEF ScoresAreHeld
  <1>6. PageIsTrue' /\ OverdueIsLate'
    BY <1>1, InvoicesStay
  <1> QED
    BY <1>4, <1>5, <1>6 DEF PortfolioIInv

LEMMA RecomputeKeeps ==
  ASSUME PortfolioIInv, NEW r \in Recomputers, Recompute(r)
  PROVE  PortfolioIInv'
  <1>0. PortfolioTypeOK /\ ScoresAreHeld
    BY DEF PortfolioIInv
  <1>1. CASE FollowUp(r)
    BY <1>1, ReadKeeps DEF FollowUp
  <1>2. CASE UpsertHealth(r) \/ RecomputeFails(r)
    <2>1. /\ recomputing' = [recomputing EXCEPT ![r] = "idle"]
          /\ held' = [held EXCEPT ![r] = None]
          /\ UNCHANGED <<now, invoice, payments, clientSubscription, billed, rules, agreement, page>>
      BY <1>2 DEF UpsertHealth, RecomputeFails
    <2>2. /\ held' \in [Recomputers -> {None} \cup Scores]
          /\ recomputing' \in [Recomputers -> {"idle", "reading", "writing"}]
          /\ \A x \in Recomputers : /\ held'[x] = IF x = r THEN None ELSE held[x]
                                    /\ recomputing'[x] = IF x = r THEN "idle" ELSE recomputing[x]
      BY <1>0, <2>1 DEF PortfolioTypeOK
    <2>3. health' \in {None} \cup Scores /\ changes' \in 0 .. MaxChanges
      <3>1. CASE UpsertHealth(r)
        BY <1>0, <3>1 DEF UpsertHealth, PortfolioTypeOK
      <3>2. CASE RecomputeFails(r)
        <4>1. changes \in 0 .. MaxChanges /\ MaxChanges \in Nat
          BY <1>0, PortfolioNumbers DEF PortfolioTypeOK
        <4>2. changes < MaxChanges /\ changes' = changes + 1 /\ health' = health
          BY <3>2 DEF RecomputeFails
        <4>3. changes' \in 0 .. MaxChanges
          BY <4>1, <4>2
        <4> QED
          BY <1>0, <4>2, <4>3 DEF PortfolioTypeOK
      <3> QED
        BY <1>2, <3>1, <3>2
    <2>4. PortfolioTypeOK'
      BY <1>0, <2>1, <2>2, <2>3 DEF PortfolioTypeOK
    <2>5. ScoresAreHeld'
      BY <1>0, <2>2 DEF ScoresAreHeld
    <2>6. PageIsTrue' /\ OverdueIsLate'
      BY <2>1, InvoicesStay
    <2> QED
      BY <2>4, <2>5, <2>6 DEF PortfolioIInv
  <1> QED
    BY <1>1, <1>2 DEF Recompute

LEMMA PortfolioStarts ==
  ASSUME PortfolioInit
  PROVE  PortfolioIInv
  <1>1. /\ now = Min(Instants) /\ payments = PastPayments /\ clientSubscription = Plan
        /\ invoice = [i \in Ids |-> IF i \in DOMAIN Past THEN Past[i] ELSE Absent]
        /\ billed = FALSE /\ rules = FirstRules /\ agreement = [i \in Ids |-> None]
        /\ page = None /\ health = None /\ changes = 0
        /\ recomputing = [r \in Recomputers |-> "idle"] /\ held = [r \in Recomputers |-> None]
    BY DEF PortfolioInit
  <1>2. /\ Min(Instants) \in Instants /\ MaxChanges \in Nat /\ FirstRules \in NegotiationRules
        /\ Past \in Seq(Rows) /\ DOMAIN Past \subseteq Ids
        /\ PastPayments \in Seq(Payments) /\ Plan \in SubscriptionRows
    BY PortfolioNumbers
  <1>3. \A i \in DOMAIN Past : Past[i] \in Rows
    BY <1>2
  <1>4. PortfolioTypeOK
    <2>1. invoice \in [Ids -> Rows \cup {Absent}]
      BY <1>1, <1>2, <1>3
    <2>2. /\ recomputing \in [Recomputers -> {"idle", "reading", "writing"}]
          /\ held \in [Recomputers -> {None} \cup Scores]
          /\ agreement \in [Ids -> {None} \cup [terms : AllTerms, new : Ids]]
      BY <1>1
    <2>3. changes \in 0 .. MaxChanges
      BY <1>1, <1>2
    <2> QED
      BY <1>1, <1>2, <2>1, <2>2, <2>3 DEF PortfolioTypeOK
  <1>5. ScoresAreHeld /\ PageIsTrue
    BY <1>1 DEF ScoresAreHeld, PageIsTrue
  <1>6. OverdueIsLate
    BY <1>1, <1>2, PortfolioAssumption DEF OverdueIsLate, Absent
  <1> QED
    BY <1>4, <1>5, <1>6 DEF PortfolioIInv

LEMMA PortfolioSteps ==
  ASSUME PortfolioIInv, [PortfolioNext]_portfolioVars
  PROVE  PortfolioIInv'
  <1>1. CASE Tick \/ MarkOverdue \/ BillMonth
    BY <1>1, TickKeeps, MarkOverdueKeeps, BillMonthKeeps
  <1>2. CASE AdvanceMonth \/ ChangeSubscription \/ UpdateRules
    BY <1>2, SubscriptionStepsKeep
  <1>3. CASE StartSweep
    BY <1>3, ReadKeeps DEF StartSweep, Recomputers
  <1>4. CASE \E i \in Ids : ClientStep(i)
    <2>1. PICK i \in Ids : ClientStep(i)
      BY <1>4
    <2>2. CASE ConfirmPayment(i) \/ RegisterManual(i)
      BY <2>2, PaymentsKeep
    <2>3. CASE \E status \in {"FAILED", "PENDING", "OVERDUE"} : GatewayNews(i, status)
      BY <2>3, GatewayNewsKeeps
    <2>4. CASE EnrollCase(i) \/ LoseCase(i) \/ OpenLink(i) \/ PayAttempt(i)
      BY <2>4, CasesAndEventsKeep
    <2>5. CASE GetOptions(i)
      BY <2>5, GetOptionsKeeps
    <2>6. CASE \E type \in Types, n \in 1 .. rules.maxInstallments : Accept(i, type, n)
      BY <2>6, AcceptKeeps
    <2> QED
      BY <2>1, <2>2, <2>3, <2>4, <2>5, <2>6 DEF ClientStep
  <1>5. CASE \E r \in Recomputers : Recompute(r)
    BY <1>5, RecomputeKeeps
  <1>6. CASE UNCHANGED portfolioVars
    <2>1. UNCHANGED <<now, invoice, payments, clientSubscription, billed, rules, agreement,
                      page, health, recomputing, held, changes>>
      BY <1>6 DEF portfolioVars
    <2>2. PortfolioTypeOK' /\ ScoresAreHeld'
      BY <2>1 DEF PortfolioIInv, PortfolioTypeOK, ScoresAreHeld
    <2>3. PageIsTrue' /\ OverdueIsLate'
      BY <2>1, InvoicesStay
    <2> QED
      BY <2>2, <2>3 DEF PortfolioIInv
  <1> QED
    BY <1>1, <1>2, <1>3, <1>4, <1>5, <1>6 DEF PortfolioNext

(* Whatever pays, fails to pay, renegotiates, bills or recomputes, in any      *)
(* order: no stored status is ahead of the day, the page in the browser shows  *)
(* what its rules offer for the value the invoice still has, and a             *)
(* recomputation writes a score.                                              *)
THEOREM PortfolioInvariance == PortfolioSpec => []PortfolioIInv
  <1>1. PortfolioInit => PortfolioIInv
    BY PortfolioStarts
  <1>2. PortfolioIInv /\ [PortfolioNext]_portfolioVars => PortfolioIInv'
    BY PortfolioSteps
  <1> QED
    BY <1>1, <1>2, PTL DEF PortfolioSpec

-----------------------------------------------------------------------------
(* The sums of the screens.                                                   *)

(* The sum of the values of rows that have each its own item.                 *)
LEMMA ValuesOfRows ==
  ASSUME NEW m, NEW J, IsFiniteSet(J), NEW v, \A x \in J : m[x].value = v[x] /\ v[x] \in Nat,
         \A x, y \in J : m[x] = m[y] => x = y
  PROVE  Values({m[x] : x \in J}) = SumFunctionOnSet(v, J)
  <1> DEFINE S == {m[x] : x \in J}
             f == [i \in S |-> i.value]
             g == [x \in J |-> f[m[x]]]
  <1>1. Values(S) = SumFunctionOnSet(f, S)
    BY ValuesAreSummed
  <1>2. \A x \in J : f[m[x]] = v[x] /\ f[m[x]] \in Nat
    OBVIOUS
  <1>3. \A x \in J : g[x] = v[x]
    BY <1>2
  <1>4. SumFunctionOnSet(f, S) = SumFunctionOnSet(g, J)
    <2> HIDE DEF f
    <2> QED
      BY <1>2, SumOverImage
  <1>5. SumFunctionOnSet(g, J) = SumFunctionOnSet(v, J)
    <2> HIDE DEF g
    <2> QED
      BY <1>3, SumsOfEquals
  <1> QED
    BY <1>1, <1>4, <1>5

(* What the forecast and the cockpit sum up.                                  *)
LEMMA AmountsAreSummed ==
  ASSUME NEW S
  PROVE  MapThenSumSet(LAMBDA it : it.amount, S) = SumFunctionOnSet([i \in S |-> i.amount], S)
  <1> DEFINE f == [i \in S |-> i.amount]
             Is(g) == g = [s \in SUBSET S |-> IF s = {} THEN 0 ELSE One(s).amount + g[s \ {One(s)}]]
  <1>1. MapThenSumSet(LAMBDA it : it.amount, S) = (CHOOSE g : Is(g))[S]
    BY DEF MapThenSumSet, MapThenFoldSet, One
  <1>2. ASSUME NEW g PROVE Is(g) <=> IsSum(g, f, S)
    <2>1. \A s \in SUBSET S : s # {} => f[One(s)] = One(s).amount
      BY OneOf
    <2>2. [s \in SUBSET S |-> IF s = {} THEN 0 ELSE One(s).amount + g[s \ {One(s)}]] =
          [s \in SUBSET S |-> IF s = {} THEN 0 ELSE f[One(s)] + g[s \ {One(s)}]]
      BY <2>1
    <2> QED
      BY <2>2 DEF IsSum
  <1> HIDE DEF Is, f
  <1>3. (CHOOSE g : Is(g)) = (CHOOSE g : IsSum(g, f, S))
    BY <1>2
  <1> QED
    BY <1>1, <1>3, SumIsChosen DEF f

Likely(it) == HalfUp(it.amount * PayProbability(it.band, it.late10), 100)

LEMMA LikelyIsSummed ==
  ASSUME NEW S
  PROVE  MapThenSumSet(LAMBDA it : HalfUp(it.amount * PayProbability(it.band, it.late10), 100), S) =
           SumFunctionOnSet([i \in S |-> Likely(i)], S)
  <1> DEFINE f == [i \in S |-> Likely(i)]
             Is(g) == g = [s \in SUBSET S |-> IF s = {} THEN 0 ELSE Likely(One(s)) + g[s \ {One(s)}]]
  <1>1. MapThenSumSet(LAMBDA it : HalfUp(it.amount * PayProbability(it.band, it.late10), 100), S) =
          (CHOOSE g : Is(g))[S]
    BY DEF MapThenSumSet, MapThenFoldSet, One, Likely
  <1>2. ASSUME NEW g PROVE Is(g) <=> IsSum(g, f, S)
    <2>1. \A s \in SUBSET S : s # {} => f[One(s)] = Likely(One(s))
      BY OneOf
    <2>2. [s \in SUBSET S |-> IF s = {} THEN 0 ELSE Likely(One(s)) + g[s \ {One(s)}]] =
          [s \in SUBSET S |-> IF s = {} THEN 0 ELSE f[One(s)] + g[s \ {One(s)}]]
      BY <2>1
    <2> QED
      BY <2>2 DEF IsSum
  <1> HIDE DEF Is, f
  <1>3. (CHOOSE g : Is(g)) = (CHOOSE g : IsSum(g, f, S))
    BY <1>2
  <1> QED
    BY <1>1, <1>3, SumIsChosen DEF f

(* What a forecast expects in all.                                            *)
Expected(weeks) == MapThenSumSet(LAMBDA b : weeks[b].esperado, DOMAIN weeks)

LEMMA WeeksAreSummed ==
  ASSUME NEW weeks
  PROVE  Expected(weeks) = SumFunctionOnSet([b \in DOMAIN weeks |-> weeks[b].esperado], DOMAIN weeks)
  <1> DEFINE S == DOMAIN weeks
             f == [b \in S |-> weeks[b].esperado]
             Is(g) == g = [s \in SUBSET S |-> IF s = {} THEN 0 ELSE weeks[One(s)].esperado + g[s \ {One(s)}]]
  <1>1. Expected(weeks) = (CHOOSE g : Is(g))[S]
    BY DEF Expected, MapThenSumSet, MapThenFoldSet, One
  <1>2. ASSUME NEW g PROVE Is(g) <=> IsSum(g, f, S)
    <2>1. \A s \in SUBSET S : s # {} => f[One(s)] = weeks[One(s)].esperado
      BY OneOf
    <2>2. [s \in SUBSET S |-> IF s = {} THEN 0 ELSE weeks[One(s)].esperado + g[s \ {One(s)}]] =
          [s \in SUBSET S |-> IF s = {} THEN 0 ELSE f[One(s)] + g[s \ {One(s)}]]
      BY <2>1
    <2> QED
      BY <2>2 DEF IsSum
  <1> HIDE DEF Is, f
  <1>3. (CHOOSE g : Is(g)) = (CHOOSE g : IsSum(g, f, S))
    BY <1>2
  <1> QED
    BY <1>1, <1>3, SumIsChosen DEF f

-----------------------------------------------------------------------------
(* The forecast.                                                              *)

(* Nothing is certain, and nothing more probable than that.                   *)
LEMMA ProbabilityIsPercent ==
  ASSUME NEW band, NEW late10 \in Int
  PROVE  PayProbability(band, late10) \in 0 .. 95
  <1> DEFINE base == CASE band = "healthy" -> 95 [] band = "watch" -> 75
                       [] band = "at_risk" -> 45 [] OTHER -> 80
             x == 600 - late10
             c == Clamp(x, 240, 600)
  <1>1. base \in {95, 75, 45, 80}
    <2>1. CASE band = "healthy"
      BY <2>1
    <2>2. CASE band = "watch"
      BY <2>2
    <2>3. CASE band = "at_risk"
      BY <2>3
    <2>4. CASE band \notin {"healthy", "watch", "at_risk"}
      <3>1. base = 80
        BY <2>4, Zenon
      <3> QED
        BY <3>1
    <2> QED
      BY <2>1, <2>2, <2>3, <2>4
  <1>2. c \in 240 .. 600
    <2>1. x \in Int /\ 240 \in Int /\ 600 \in Int /\ 240 <= 600
      OBVIOUS
    <2> HIDE DEF x
    <2> QED
      BY <2>1, ClampIsWithin
  <1>3. PayProbability(band, late10) = HalfUp(base * c, 600)
    BY Zenon DEF PayProbability
  <1> HIDE DEF base, x, c
  <1>4. HalfUp(95 * c, 600) \in 0 .. 95 /\ HalfUp(75 * c, 600) \in 0 .. 95
    BY <1>2 DEF HalfUp
  <1>5. HalfUp(45 * c, 600) \in 0 .. 95 /\ HalfUp(80 * c, 600) \in 0 .. 95
    BY <1>2 DEF HalfUp
  <1> QED
    BY <1>1, <1>3, <1>4, <1>5

LEMMA LikelyIsLess ==
  ASSUME NEW it, it.amount \in Nat, it.late10 \in Int
  PROVE  Likely(it) \in Nat /\ Likely(it) <= it.amount
  <1> DEFINE a == it.amount
             q == PayProbability(it.band, it.late10)
  <1>1. a \in Nat /\ q \in 0 .. 95
    BY ProbabilityIsPercent
  <1>2. Likely(it) = HalfUp(a * q, 100)
    BY DEF Likely
  <1> HIDE DEF a, q
  <1>3. a * q \in Nat /\ a * q <= a * 100
    <2>1. q \in Nat /\ 100 - q \in Nat
      BY <1>1
    <2>2. a * q \in Nat /\ a * (100 - q) \in Nat /\ a * (100 - q) = a * 100 - a * q
      BY <1>1, <2>1
    <2> QED
      BY <1>1, <2>2
  <1> DEFINE x == a * q
  <1>4. x \in Nat /\ x <= 100 * a
    BY <1>1, <1>3
  <1> HIDE DEF x
  <1>5. HalfUp(x, 100) \in Nat /\ HalfUp(x, 100) <= a
    BY <1>1, <1>4 DEF HalfUp
  <1> QED
    BY <1>2, <1>5 DEF a, x

LEMMA EachHasABucket ==
  ASSUME NEW t \in Int, NEW due \in Int, NEW count \in Nat, count > 0
  PROVE  BucketIndex(t, due, count) \in 0 .. count - 1
  <1> DEFINE x == DaysFrom(t, due)
             y == x \div WEEK
             z == count - 1
  <1>1. x \in Int /\ z \in Nat
    BY DEF DaysFrom, DAY
  <1>2. y \in Int /\ (x >= 0 => y \in Nat)
    <2> HIDE DEF x
    <2> QED
      BY <1>1 DEF WEEK
  <1>3. BucketIndex(t, due, count) = IF x < 0 THEN 0 ELSE Min({y, z})
    BY DEF BucketIndex
  <1> HIDE DEF x, y, z
  <1>4. Min({y, z}) \in {y, z} /\ Min({y, z}) <= z
    BY <1>1, <1>2, SmallerOfTwo
  <1>5. CASE x < 0
    BY <1>1, <1>3, <1>5 DEF z
  <1>6. CASE ~(x < 0)
    BY <1>1, <1>2, <1>3, <1>4, <1>6 DEF z
  <1> QED
    BY <1>5, <1>6

(* What falls due within the days of a forecast is in one of its weeks, and no *)
(* week is expected to bring less than it probably will.                      *)
LEMMA CashflowCountsOnce ==
  ASSUME NEW items, IsFiniteSet(items), NEW t \in Int, NEW days \in Nat,
         \A it \in items : /\ it.amount \in Nat /\ it.late10 \in Int
                           /\ it.due \in Int /\ it.due <= t + days * DAY,
         NEW weeks, weeks = ProjectCashflow(items, t, days)
  PROVE  /\ Expected(weeks) = SumFunctionOnSet([it \in items |-> it.amount], items)
         /\ \A b \in DOMAIN weeks : weeks[b].provavel <= weeks[b].esperado
  <1> DEFINE q == (days + WEEK - 1) \div WEEK
             count == Max({1, q})
             D == 0 .. count - 1
             Bucket(b) == {it \in items : /\ it.due <= t + days * DAY
                                          /\ BucketIndex(t, it.due, count) = b}
             f == [it \in items |-> it.amount]
             part == [it \in items |-> BucketIndex(t, it.due, count)]
             In(b) == {it \in items : part[it] = b}
             e == [b \in D |-> weeks[b].esperado]
             g == [b \in D |-> SumFunctionOnSet(f, In(b))]
  <1>1. count \in Nat /\ count > 0
    <2>1. q \in Int /\ 1 \in Int
      BY DEF WEEK
    <2> HIDE DEF q
    <2>2. count \in {1, q} /\ count >= 1
      BY <2>1, LargerOfTwo
    <2> QED
      BY <2>1, <2>2
  <1>2. /\ DOMAIN weeks = D
        /\ \A b \in D : /\ weeks[b].esperado = MapThenSumSet(LAMBDA it : it.amount, Bucket(b))
                        /\ weeks[b].provavel = MapThenSumSet(
                             LAMBDA it : HalfUp(it.amount * PayProbability(it.band, it.late10), 100),
                             Bucket(b))
    BY DEF ProjectCashflow
  <1>3. IsFiniteSet(D)
    <2>1. count - 1 \in Int /\ 0 \in Int
      BY <1>1
    <2> HIDE DEF count
    <2> QED
      BY <2>1, FS_Interval
  <1> HIDE DEF count
  <1>4. \A it \in items : part[it] \in D
    BY <1>1, EachHasABucket
  <1>5. ASSUME NEW b \in D
        PROVE  /\ Bucket(b) = In(b) /\ IsFiniteSet(In(b))
               /\ weeks[b].esperado = SumFunctionOnSet(f, In(b))
               /\ weeks[b].provavel <= weeks[b].esperado
    <2>1. Bucket(b) = In(b) /\ IsFiniteSet(In(b)) /\ In(b) \subseteq items
      <3>1. In(b) \subseteq items
        OBVIOUS
      <3>2. IsFiniteSet(In(b))
        BY <3>1, FS_Subset
      <3> QED
        BY <3>1, <3>2
    <2> DEFINE B == In(b)
               a == [it \in B |-> it.amount]
               l == [it \in B |-> Likely(it)]
    <2>2. weeks[b].esperado = MapThenSumSet(LAMBDA it : it.amount, B)
      BY <1>2, <2>1
    <2>3. weeks[b].provavel = MapThenSumSet(
            LAMBDA it : HalfUp(it.amount * PayProbability(it.band, it.late10), 100), B)
      BY <1>2, <2>1
    <2>4. \A it \in B : a[it] = f[it] /\ a[it] \in Nat
      OBVIOUS
    <2>5. \A it \in B : l[it] \in Nat /\ l[it] <= a[it]
      <3> SUFFICES ASSUME NEW it \in B PROVE Likely(it) \in Nat /\ Likely(it) <= it.amount
        OBVIOUS
      <3>1. it.amount \in Nat /\ it.late10 \in Int
        OBVIOUS
      <3> QED
        BY <3>1, LikelyIsLess
    <2>6. IsFiniteSet(B)
      BY <2>1
    <2> HIDE DEF B
    <2>7. MapThenSumSet(LAMBDA it : it.amount, B) = SumFunctionOnSet(a, B)
      BY AmountsAreSummed
    <2>8. MapThenSumSet(
            LAMBDA it : HalfUp(it.amount * PayProbability(it.band, it.late10), 100), B)
          = SumFunctionOnSet(l, B)
      BY LikelyIsSummed
    <2> HIDE DEF a, l, f
    <2>9. SumFunctionOnSet(a, B) = SumFunctionOnSet(f, B)
      BY <2>4, <2>6, SumsOfEquals
    <2>10. SumFunctionOnSet(l, B) <= SumFunctionOnSet(a, B)
      BY <2>4, <2>5, <2>6, SumIsMonotone
    <2> QED
      BY <2>1, <2>2, <2>3, <2>7, <2>8, <2>9, <2>10 DEF B
  <1>6. Expected(weeks) = SumFunctionOnSet(e, D)
    <2>1. Expected(weeks) = SumFunctionOnSet([b \in DOMAIN weeks |-> weeks[b].esperado], DOMAIN weeks)
      BY WeeksAreSummed
    <2>2. DOMAIN weeks = D
      BY <1>2
    <2> QED
      BY <2>1, <2>2
  <1>7. SumFunctionOnSet(e, D) = SumFunctionOnSet(g, D)
    <2>1. \A b \in D : e[b] = g[b]
      BY <1>5
    <2> HIDE DEF e, g, D
    <2> QED
      BY <1>3, <2>1, SumsOfEquals
  <1>8. \A it \in items : f[it] \in Nat
    OBVIOUS
  <1>9. {it \in items : part[it] \in D} = items
    BY <1>4
  <1>10. SumFunctionOnSet(g, D) = SumFunctionOnSet(f, {it \in items : part[it] \in D})
    <2> HIDE DEF f, part, D
    <2> QED
      BY <1>3, <1>8, SumOfParts
  <1>11. Expected(weeks) = SumFunctionOnSet(f, items)
    <2> HIDE DEF e, g, D, f, part
    <2> QED
      BY <1>6, <1>7, <1>9, <1>10
  <1> QED
    BY <1>2, <1>5, <1>11

(* The invoices that are open: each is one row of the screens.                *)
OpenIds == {j \in Ids : IsOpen(j)}

OpenRow(i) == [id |-> i, value |-> invoice[i].value, due |-> invoice[i].due]

LEMMA OpenRows ==
  ASSUME PortfolioTypeOK
  PROVE  /\ IsFiniteSet(OpenIds) /\ OpenIds \subseteq Ids /\ IsFiniteSet(OpenInvoices)
         /\ OpenInvoices = {OpenRow(i) : i \in OpenIds}
         /\ \A x \in OpenInvoices : /\ x.id \in OpenIds /\ x = OpenRow(x.id)
                                    /\ x.value \in Nat /\ x.due \in Int
         /\ \A x, y \in OpenInvoices : x.id = y.id => x = y
  <1>1. IsFiniteSet(Ids) /\ OpenIds \subseteq Ids
    BY PortfolioNumbers DEF OpenIds
  <1>2. IsFiniteSet(OpenIds)
    BY <1>1, FS_Subset
  <1>3. OpenInvoices = {OpenRow(i) : i \in OpenIds}
    BY DEF OpenInvoices, OpenRow, OpenIds
  <1>4. IsFiniteSet(OpenInvoices)
    <2> DEFINE m == [i \in OpenIds |-> OpenRow(i)]
    <2>1. OpenInvoices = {m[i] : i \in OpenIds}
      BY <1>3
    <2> HIDE DEF m
    <2> QED
      BY <1>2, <2>1, ImagesAreFinite
  <1>5. \A i \in OpenIds : /\ OpenRow(i).id = i /\ OpenRow(i).value \in Nat /\ OpenRow(i).due \in Int
    BY <1>1, RowType DEF OpenRow
  <1>6. ASSUME NEW x \in OpenInvoices
        PROVE  x.id \in OpenIds /\ x = OpenRow(x.id) /\ x.value \in Nat /\ x.due \in Int
    BY <1>3, <1>5
  <1> QED
    BY <1>1, <1>2, <1>3, <1>4, <1>6

(* What the forecast is made from, and its sum.                               *)
LEMMA ForecastIsOf ==
  ASSUME PortfolioTypeOK, NEW until \in Int, clientSubscription.nextRunDate >= now,
         NEW items, items = ForecastInputs(until)
  PROVE  /\ IsFiniteSet(items)
         /\ \A it \in items : /\ it.amount \in Nat /\ it.late10 \in Int
                              /\ it.due \in Int /\ it.due < until
         /\ SumFunctionOnSet([it \in items |-> it.amount], items) =
              Values({i \in OpenInvoices : i.due < until})
              + (IF clientSubscription.status = "ACTIVE" /\ clientSubscription.nextRunDate < until
                 THEN Amount(clientSubscription) ELSE 0)
  <1> DEFINE late10 == IF health = None THEN 0 ELSE health.late10
             Item(id, amount, due) ==
               [id |-> id, amount |-> amount, due |-> due, band |-> BandNow, late10 |-> late10]
             J == {i \in OpenInvoices : i.due < until}
             m == [x \in J |-> Item(x.id, x.value, x.due)]
             A == {m[x] : x \in J}
             s == clientSubscription
             billedNext == Item(0, Amount(s), s.nextRunDate)
             bills == s.status = "ACTIVE" /\ s.nextRunDate < until
             B == IF bills THEN {billedNext} ELSE {}
             f == [it \in items |-> it.amount]
             v == [x \in J |-> x.value]
             g == [x \in J |-> f[m[x]]]
  <1>1. items = A \cup B
    <2>1. A = {Item(i.id, i.value, i.due) : i \in J}
      OBVIOUS
    <2> QED
      BY <2>1 DEF ForecastInputs
  <1>2. late10 \in Int
    BY DEF PortfolioTypeOK, Scores
  <1>3. s \in SubscriptionRows /\ Amount(s) \in Nat /\ s.nextRunDate \in Int
    <2>1. s \in SubscriptionRows
      BY DEF PortfolioTypeOK
    <2> QED
      BY <2>1, AmountIsNat DEF SubscriptionRows
  <1>4. /\ J \subseteq OpenInvoices
        /\ \A x \in J : x.value \in Nat /\ x.due \in Int /\ x.due < until /\ x.id \in Ids
        /\ \A x, y \in J : x.id = y.id => x = y
    BY OpenRows
  <1>5. IsFiniteSet(J)
    BY <1>4, OpenRows, FS_Subset
  <1> HIDE DEF J, s, late10
  <1>6. \A x \in J : /\ m[x].id = x.id /\ m[x].amount = x.value /\ m[x].due = x.due /\ m[x].late10 = late10
    OBVIOUS
  <1>7. billedNext.id = 0 /\ billedNext.amount = Amount(s) /\ billedNext.due = s.nextRunDate /\ billedNext.late10 = late10
    OBVIOUS
  <1> HIDE DEF billedNext, m
  <1>8. IsFiniteSet(A) /\ IsFiniteSet(B)
    <2>1. IsFiniteSet(A)
      BY <1>5, ImagesAreFinite
    <2> QED
      BY <2>1, FS_Singleton, FS_EmptySet
  <1>9. A \cap B = {}
    <2>1. \A x \in J : m[x].id # 0
      BY <1>4, <1>6, PortfolioNumbers
    <2> QED
      BY <1>7, <2>1
  <1>10. \A x, y \in J : m[x] = m[y] => x = y
    BY <1>4, <1>6
  <1>11. \A it \in items : /\ it.amount \in Nat /\ it.late10 \in Int /\ it.due \in Int /\ it.due < until
    <2>1. \A it \in A : /\ it.amount \in Nat /\ it.late10 \in Int /\ it.due \in Int /\ it.due < until
      BY <1>2, <1>4, <1>6
    <2>2. \A it \in B : /\ it.amount \in Nat /\ it.late10 \in Int /\ it.due \in Int /\ it.due < until
      BY <1>2, <1>3, <1>7 DEF s
    <2> QED
      BY <1>1, <2>1, <2>2
  <1>12. \A it \in items : f[it] = it.amount /\ f[it] \in Nat
    BY <1>11
  <1>13. \A x \in J : f[m[x]] = x.value /\ f[m[x]] \in Nat
    BY <1>1, <1>6, <1>12
  <1>14. SumFunctionOnSet(f, A) = Values(J)
    <2>1. \A x \in J : g[x] = v[x]
      BY <1>13
    <2> HIDE DEF f, v
    <2>2. SumFunctionOnSet(f, A) = SumFunctionOnSet(g, J)
      BY <1>5, <1>10, <1>13, SumOverImage
    <2> HIDE DEF g
    <2>3. SumFunctionOnSet(g, J) = SumFunctionOnSet(v, J)
      BY <1>5, <2>1, SumsOfEquals
    <2>4. Values(J) = SumFunctionOnSet(v, J)
      BY ValuesAreSummed DEF v
    <2> QED
      BY <2>2, <2>3, <2>4
  <1>15. SumFunctionOnSet(f, B) = IF bills THEN Amount(s) ELSE 0
    <2>1. CASE bills
      <3>1. B = {} \cup {billedNext} /\ billedNext \in items
        BY <1>1, <2>1
      <3>2. f[billedNext] = Amount(s)
        BY <1>7, <1>12, <3>1
      <3> HIDE DEF f, B
      <3>3. SumFunctionOnSet(f, {} \cup {billedNext}) = f[billedNext] + SumFunctionOnSet(f, {})
        <4>1. \A y \in {} \cup {billedNext} : f[y] \in Nat
          BY <1>12, <3>1
        <4>2. IsFiniteSet({}) /\ billedNext \notin {}
          BY FS_EmptySet
        <4> QED
          BY <4>1, <4>2, SumAdds
      <3> QED
        BY <1>3, <2>1, <3>1, <3>2, <3>3, SumOfNone
    <2>2. CASE ~bills
      BY <2>2, SumOfNone
    <2> QED
      BY <2>1, <2>2
  <1>16. SumFunctionOnSet(f, A \cup B) = SumFunctionOnSet(f, A) + SumFunctionOnSet(f, B)
    <2>1. \A x \in A \cup B : f[x] \in Nat
      BY <1>1, <1>12
    <2> HIDE DEF f, A, B
    <2> QED
      BY <1>8, <1>9, <2>1, SumOfUnion
  <1>17. SumFunctionOnSet(f, items) = Values(J) + (IF bills THEN Amount(s) ELSE 0)
    <2> HIDE DEF f, A, B, bills
    <2> QED
      BY <1>1, <1>14, <1>15, <1>16
  <1>18. IsFiniteSet(items)
    <2> HIDE DEF A, B
    <2> QED
      BY <1>1, <1>8, FS_Union
  <1> QED
    BY <1>11, <1>17, <1>18 DEF J, s

LEMMA ForecastCounts ==
  ASSUME PortfolioIInv
  PROVE  ForecastCountsOnce
  <1> DEFINE until == now + 30 * DAY
             items == ForecastInputs(until)
             weeks == Forecast(30)
             open == Values({i \in OpenInvoices : i.due < until})
             coming == IF clientSubscription.status = "ACTIVE" /\ clientSubscription.nextRunDate < until
                       THEN Amount(clientSubscription) ELSE 0
  <1>1. SUFFICES ASSUME clientSubscription.nextRunDate >= now
                 PROVE  /\ Expected(weeks) = open + coming
                        /\ \A b \in DOMAIN weeks : weeks[b].provavel <= weeks[b].esperado
    BY DEF ForecastCountsOnce, Expected
  <1>2. PortfolioTypeOK
    BY DEF PortfolioIInv
  <1>3. now \in Int /\ until \in Int /\ 30 \in Nat
    BY <1>2, Clock DEF DAY
  <1>4. weeks = ProjectCashflow(items, now, 30)
    BY DEF Forecast
  <1> HIDE DEF weeks, items
  <1>5. /\ IsFiniteSet(items)
        /\ \A it \in items : /\ it.amount \in Nat /\ it.late10 \in Int
                             /\ it.due \in Int /\ it.due < until
        /\ SumFunctionOnSet([it \in items |-> it.amount], items) = open + coming
    <2> HIDE DEF until
    <2> QED
      BY <1>1, <1>2, <1>3, ForecastIsOf DEF items
  <1>6. \A it \in items : /\ it.amount \in Nat /\ it.late10 \in Int
                          /\ it.due \in Int /\ it.due <= now + 30 * DAY
    BY <1>3, <1>5
  <1>7. /\ Expected(weeks) = SumFunctionOnSet([it \in items |-> it.amount], items)
        /\ \A b \in DOMAIN weeks : weeks[b].provavel <= weeks[b].esperado
    <2> HIDE DEF until
    <2> QED
      BY <1>3, <1>4, <1>5, <1>6, CashflowCountsOnce
  <1> QED
    BY <1>5, <1>7

(* The forecast counts every open invoice and the month to come once, and     *)
(* expects at least what is probable (findInputs, projectCashflow).           *)
THEOREM TheForecastCountsOnce == PortfolioSpec => []ForecastCountsOnce
  <1>1. PortfolioIInv => ForecastCountsOnce
    BY ForecastCounts
  <1> QED
    BY <1>1, PortfolioInvariance, PTL

-----------------------------------------------------------------------------
(* The cockpit, the list of the day and the list of invoices.                 *)

(* What is to come, for each screen.                                          *)
LEMMA WhatIsToCome ==
  ASSUME NEW t \in Int, NEW due \in Int
  PROVE  /\ AgingBucket(due, t) = "aVencer" <=> due > t
         /\ -DaysFrom(due, t) <= UPCOMING <=> due <= t + UPCOMING * DAY
  <1> DEFINE d == DaysFrom(due, t)
  <1>1. d \in Int /\ (d < 0 <=> due > t) /\ (-d <= UPCOMING <=> due <= t + UPCOMING * DAY)
    BY DEF DaysFrom, DAY, UPCOMING
  <1>2. AgingBucket(due, t) = CASE d < 0 -> "aVencer" [] d \in 0 .. 30 -> "d0a30"
                                [] d \in 31 .. 60 -> "d31a60" [] OTHER -> "d60mais"
    BY DEF AgingBucket
  <1> HIDE DEF d
  <1>3. CASE d < 0
    <2>1. d \notin 0 .. 30 /\ d \notin 31 .. 60
      BY <1>1, <1>3
    <2>2. AgingBucket(due, t) = "aVencer"
      BY <1>2, <1>3, <2>1, Zenon
    <2> QED
      BY <1>1, <1>3, <2>2 DEF d
  <1>4. CASE d \in 0 .. 30
    <2>1. ~(d < 0) /\ d \notin 31 .. 60
      BY <1>4
    <2>2. AgingBucket(due, t) = "d0a30"
      BY <1>2, <1>4, <2>1, Zenon
    <2> QED
      BY <1>1, <2>1, <2>2 DEF d
  <1>5. CASE d \in 31 .. 60
    <2>1. ~(d < 0) /\ d \notin 0 .. 30
      BY <1>5
    <2>2. AgingBucket(due, t) = "d31a60"
      BY <1>2, <1>5, <2>1, Zenon
    <2> QED
      BY <1>1, <2>1, <2>2 DEF d
  <1>6. CASE ~(d < 0) /\ d \notin 0 .. 30 /\ d \notin 31 .. 60
    <2>1. AgingBucket(due, t) = "d60mais"
      BY <1>2, <1>6, Zenon
    <2> QED
      BY <1>1, <1>6, <2>1 DEF d
  <1> QED
    BY <1>3, <1>4, <1>5, <1>6

(* The sum of the values of some of the invoices.                             *)
Worth == [j \in Ids |-> invoice[j].value]

LEMMA WorthIsNat == ASSUME PortfolioTypeOK PROVE \A j \in Ids : Worth[j] = invoice[j].value /\ Worth[j] \in Nat
  BY RowType DEF Worth

(* Open invoices that are some by their date: the same sum, however each is   *)
(* shown.                                                                     *)
LEMMA OpenAreWorth ==
  ASSUME PortfolioTypeOK, NEW J \in SUBSET OpenIds
  PROVE  Values({x \in OpenInvoices : x.id \in J}) = SumFunctionOnSet(Worth, J)
  <1> DEFINE m == [j \in J |-> OpenRow(j)]
  <1>1. {x \in OpenInvoices : x.id \in J} = {m[j] : j \in J}
    <2>1. \A j \in J : m[j] = OpenRow(j) /\ OpenRow(j).id = j
      BY DEF OpenRow
    <2> QED
      BY <2>1, OpenRows
  <1>2. \A j \in J : m[j].value = Worth[j] /\ Worth[j] \in Nat /\ m[j].id = j
    BY OpenRows, WorthIsNat DEF OpenRow
  <1>3. IsFiniteSet(J)
    BY OpenRows, FS_Subset
  <1> HIDE DEF m
  <1>4. \A x, y \in J : m[x] = m[y] => x = y
    BY <1>2
  <1>5. Values({m[j] : j \in J}) = SumFunctionOnSet(Worth, J)
    BY <1>2, <1>3, <1>4, ValuesOfRows
  <1> QED
    BY <1>1, <1>5

LateIds == {j \in OpenIds : invoice[j].due < now}
WeekIds == {j \in OpenIds : invoice[j].due > now /\ invoice[j].due <= now + UPCOMING * DAY}

(* What the cockpit shows.                                                    *)
LEMMA CockpitShows ==
  ASSUME PortfolioTypeOK, NEW view, view = Overview(365)
  PROVE  ~DueNow =>
           /\ view.kpis.emAtraso = SumFunctionOnSet(Worth, LateIds)
           /\ Values(view.week) = SumFunctionOnSet(Worth, WeekIds)
  <1>1. /\ view.kpis.emAtraso = Values({i \in OpenInvoices : AgingBucket(i.due, now) # "aVencer"})
        /\ view.week = {i \in OpenInvoices : i.due \in now .. now + 7 * DAY}
    BY DEF Overview, SummarizeOpenInvoices, DueWithinDays
  <1>2. now \in Int
    BY Clock
  <1>3. \A x \in OpenInvoices : /\ x.id \in OpenIds /\ x.due = invoice[x.id].due /\ x.due \in Int
                                /\ (~DueNow => x.due # now)
    BY OpenRows DEF OpenRow, OpenIds, DueNow
  <1>4. ~DueNow => {i \in OpenInvoices : AgingBucket(i.due, now) # "aVencer"} =
                     {x \in OpenInvoices : x.id \in LateIds}
    <2> SUFFICES ASSUME ~DueNow, NEW x \in OpenInvoices
                 PROVE  AgingBucket(x.due, now) # "aVencer" <=> x.id \in LateIds
      OBVIOUS
    <2>1. AgingBucket(x.due, now) = "aVencer" <=> x.due > now
      BY <1>2, <1>3, WhatIsToCome
    <2> QED
      BY <1>2, <1>3, <2>1 DEF LateIds
  <1>5. ~DueNow => {i \in OpenInvoices : i.due \in now .. now + 7 * DAY} = {x \in OpenInvoices : x.id \in WeekIds}
    BY <1>2, <1>3 DEF WeekIds, UPCOMING, DAY
  <1>6. LateIds \subseteq OpenIds /\ WeekIds \subseteq OpenIds
    BY DEF LateIds, WeekIds
  <1>7. /\ Values({x \in OpenInvoices : x.id \in LateIds}) = SumFunctionOnSet(Worth, LateIds)
        /\ Values({x \in OpenInvoices : x.id \in WeekIds}) = SumFunctionOnSet(Worth, WeekIds)
    BY <1>6, OpenAreWorth
  <1> QED
    BY <1>1, <1>4, <1>5, <1>7

(* What the list of invoices shows.                                           *)
LEMMA ListShows ==
  ASSUME PortfolioTypeOK, OverdueIsLate
  PROVE  /\ Values(ShownOverdue) = SumFunctionOnSet(Worth, LateIds)
         /\ {x.id : x \in ShownOverdue} = Overdue(now)
  <1>1. ShownOverdue = {x \in OpenInvoices : x.id \in LateIds}
    <2> SUFFICES ASSUME NEW x \in OpenInvoices
                 PROVE  EffectiveInvoiceStatus(invoice[x.id].status, x.due, now) = "OVERDUE" <=> x.id \in LateIds
      BY DEF ShownOverdue
    <2>1. x.id \in OpenIds /\ x.id \in Ids /\ x.due = invoice[x.id].due
      BY OpenRows DEF OpenRow
    <2>2. invoice[x.id].status \in {"PENDING", "OVERDUE"}
      BY <2>1 DEF OpenIds, IsOpen, Open
    <2>3. invoice[x.id].status = "OVERDUE" => invoice[x.id].due < now
      BY <2>1 DEF OverdueIsLate
    <2> QED
      BY <2>1, <2>2, <2>3 DEF EffectiveInvoiceStatus, LateIds
  <1>2. LateIds \in SUBSET OpenIds
    BY DEF LateIds
  <1>3. {x.id : x \in ShownOverdue} = LateIds
    <2>1. \A j \in LateIds : OpenRow(j) \in OpenInvoices /\ OpenRow(j).id = j
      BY <1>2, OpenRows DEF OpenRow
    <2> QED
      BY <1>1, <2>1
  <1>4. LateIds = Overdue(now)
    BY DEF LateIds, OpenIds, Overdue
  <1> QED
    BY <1>1, <1>2, <1>3, <1>4, OpenAreWorth

(* What the list of the day asks for.                                         *)
Asked(i) ==
  ActionItem([id |-> i, value |-> invoice[i].value, due |-> invoice[i].due, band |-> BandNow,
              hasCase |-> invoice[i].case = "active"], now)

LEMMA AskedIs ==
  ASSUME NEW i \in Ids
  PROVE  /\ Asked(i).id = i /\ Asked(i).value = invoice[i].value
         /\ Asked(i).kind = "a_vencer" <=> ~(invoice[i].due < now)
  <1> DEFINE c == [id |-> i, value |-> invoice[i].value, due |-> invoice[i].due, band |-> BandNow,
                   hasCase |-> invoice[i].case = "active"]
             a == Asked(i)
  <1>1. c.id = i /\ c.value = invoice[i].value /\ c.due = invoice[i].due
    OBVIOUS
  <1>2. Asked(i) = ActionItem(c, now)
    BY DEF Asked
  <1> HIDE DEF c
  <1>3. CASE c.due < now
    <2> DEFINE p == HalfUp((c.value * BandWeight(c.band)) * (60 + Clamp(DaysFrom(c.due, now), 0, 60)), 6000)
    <2>1. Asked(i) = [id |-> c.id, value |-> c.value,
                      kind |-> IF c.hasCase THEN "recuperar" ELSE "cobrar", priority |-> p]
      BY <1>2, <1>3 DEF ActionItem
    <2> HIDE DEF p
    <2> QED
      BY <1>1, <1>3, <2>1
  <1>4. CASE ~(c.due < now)
    <2> DEFINE p == HalfUp((c.value * BandWeight(c.band)) * 3, 1000)
    <2>1. Asked(i) = [id |-> c.id, value |-> c.value, kind |-> "a_vencer", priority |-> p]
      BY <1>2, <1>4, Zenon DEF ActionItem
    <2> HIDE DEF p
    <2> QED
      BY <1>1, <1>4, <2>1
  <1> QED
    BY <1>3, <1>4

LEMMA AskedAreWorth ==
  ASSUME PortfolioTypeOK, NEW J \in SUBSET OpenIds
  PROVE  Values({Asked(j) : j \in J}) = SumFunctionOnSet(Worth, J)
  <1> DEFINE m == [j \in J |-> Asked(j)]
  <1>1. {Asked(j) : j \in J} = {m[j] : j \in J}
    OBVIOUS
  <1>2. IsFiniteSet(J)
    BY OpenRows, FS_Subset
  <1>3. \A j \in J : m[j].value = Worth[j] /\ Worth[j] \in Nat /\ m[j].id = j
    <2>1. \A j \in J : j \in Ids
      BY OpenRows
    <2> QED
      BY <2>1, AskedIs, WorthIsNat
  <1> HIDE DEF m
  <1>4. \A x, y \in J : m[x] = m[y] => x = y
    BY <1>3
  <1>5. Values({m[j] : j \in J}) = SumFunctionOnSet(Worth, J)
    BY <1>2, <1>3, <1>4, ValuesOfRows
  <1> QED
    BY <1>1, <1>5

LEMMA DayShows ==
  ASSUME PortfolioTypeOK, ~DueNow, NEW items, items = ActionItems(ActionCandidates, now),
         NEW late, late = {a \in items : a.kind # "a_vencer"}
  PROVE  /\ Values(late) = SumFunctionOnSet(Worth, LateIds)
         /\ Values(items \ late) = SumFunctionOnSet(Worth, WeekIds)
  <1> DEFINE cand(i) == [id |-> i, value |-> invoice[i].value, due |-> invoice[i].due, band |-> BandNow,
                         hasCase |-> invoice[i].case = "active"]
  <1>1. now \in Int /\ \A i \in OpenIds : i \in Ids /\ invoice[i].due \in Int /\ invoice[i].due # now
    BY Clock, RowType DEF OpenIds, DueNow
  <1>2. ActionCandidates = {cand(i) : i \in OpenIds}
    <2>1. ActionCandidates = {[id |-> x.id, value |-> x.value, due |-> x.due, band |-> BandNow,
                               hasCase |-> invoice[x.id].case = "active"] : x \in OpenInvoices}
      BY DEF ActionCandidates
    <2>2. \A i \in OpenIds : OpenRow(i).id = i /\ OpenRow(i).value = invoice[i].value
                             /\ OpenRow(i).due = invoice[i].due
      BY DEF OpenRow
    <2>3. OpenInvoices = {OpenRow(i) : i \in OpenIds}
      BY OpenRows
    <2> QED
      BY <2>1, <2>2, <2>3
  <1>3. \A i \in OpenIds : cand(i).due = invoice[i].due /\ ActionItem(cand(i), now) = Asked(i)
    BY DEF Asked
  <1>4. \A i \in OpenIds :
          (cand(i).due < now \/ -DaysFrom(cand(i).due, now) <= UPCOMING) <=> i \in LateIds \cup WeekIds
    <2> SUFFICES ASSUME NEW i \in OpenIds
                 PROVE  (invoice[i].due < now \/ -DaysFrom(invoice[i].due, now) <= UPCOMING)
                          <=> i \in LateIds \cup WeekIds
      BY <1>3
    <2>1. -DaysFrom(invoice[i].due, now) <= UPCOMING <=> invoice[i].due <= now + UPCOMING * DAY
      BY <1>1, WhatIsToCome
    <2> QED
      BY <1>1, <2>1 DEF LateIds, WeekIds
  <1> HIDE DEF cand
  <1>5. LateIds \subseteq OpenIds /\ WeekIds \subseteq OpenIds
    BY DEF LateIds, WeekIds
  <1>6. items = {Asked(i) : i \in LateIds \cup WeekIds}
    <2>1. items = {ActionItem(c, now) : c \in {x \in ActionCandidates : x.due < now \/ -DaysFrom(x.due, now) <= UPCOMING}}
      BY DEF ActionItems
    <2> QED
      BY <1>2, <1>3, <1>4, <1>5, <2>1
  <1>7. /\ \A i \in LateIds : Asked(i).kind # "a_vencer"
        /\ \A i \in WeekIds : Asked(i).kind = "a_vencer"
    <2>1. \A i \in OpenIds : Asked(i).kind = "a_vencer" <=> ~(invoice[i].due < now)
      BY <1>1, AskedIs
    <2> QED
      BY <1>1, <1>5, <2>1 DEF LateIds, WeekIds
  <1>8. late = {Asked(i) : i \in LateIds} /\ items \ late = {Asked(i) : i \in WeekIds}
    BY <1>6, <1>7
  <1> QED
    BY <1>5, <1>8, AskedAreWorth

LEMMA ScreensAgree ==
  ASSUME PortfolioIInv
  PROVE  ViewsAgree
  <1>0. PortfolioTypeOK /\ OverdueIsLate
    BY DEF PortfolioIInv
  <1> DEFINE view == Overview(365)
             items == ActionItems(ActionCandidates, now)
             late == {a \in items : a.kind # "a_vencer"}
  <1>1. ~DueNow => /\ view.kpis.emAtraso = SumFunctionOnSet(Worth, LateIds)
                   /\ Values(view.week) = SumFunctionOnSet(Worth, WeekIds)
    BY <1>0, CockpitShows
  <1>2. ~DueNow => /\ Values(late) = SumFunctionOnSet(Worth, LateIds)
                   /\ Values(items \ late) = SumFunctionOnSet(Worth, WeekIds)
    BY <1>0, DayShows
  <1>3. /\ Values(ShownOverdue) = SumFunctionOnSet(Worth, LateIds)
        /\ {i.id : i \in ShownOverdue} = Overdue(now)
    BY <1>0, ListShows
  <1>4. ~DueNow => /\ view.kpis.emAtraso = Values(late)
                   /\ view.kpis.emAtraso = Values(ShownOverdue)
                   /\ Values(view.week) = Values(items \ late)
    <2> HIDE DEF view, items, late
    <2> QED
      BY <1>1, <1>2, <1>3
  <1> QED
    BY <1>0, <1>3, <1>4, Zenon DEF ViewsAgree

(* Whatever the sweep of statuses, the payer, the owner and the gateway did:   *)
(* the list of invoices marks those the radar holds against the client, and    *)
(* but for an invoice that falls due this instant, the cockpit and the list of *)
(* the day count as late just what these are worth, and announce the same week *)
(* (summarizeOpenInvoices, rankDailyActions, effectiveInvoiceStatus,           *)
(* aggregateInputs).                                                          *)
THEOREM TheViewsAgree == PortfolioSpec => []ViewsAgree
  <1>1. PortfolioIInv => ViewsAgree
    BY ScreensAgree
  <1> QED
    BY <1>1, PortfolioInvariance, PTL

-----------------------------------------------------------------------------
(* The terms of an agreement.                                                 *)

Price(r, v, type) ==
  IF type = "discount" THEN HalfUp(v * (100 - r.discountPercent), 100)
  ELSE IF type = "defer" THEN HalfUp(v * (100 + r.deferFeePercent), 100)
  ELSE v

Delay(r, type) == IF type = "defer" THEN r.deferMaxDays * DAY ELSE 0

(* What is chosen and what is shown cost the same and are due as late.        *)
LEMMA TermsAre ==
  ASSUME NEW type, NEW v, NEW n, NEW due
  PROVE  /\ Terms(type, v, n, due).type = type
         /\ Terms(type, v, n, due).finalValue = v
         /\ Terms(type, v, n, due).due = due
  BY DEF Terms

LEMMA ChosenTermsAre ==
  ASSUME NEW r \in NegotiationRules, NEW v \in Nat, NEW at \in Int, NEW type, NEW n,
         NEW t \in ComputeTerms(r, v, type, n, at)
  PROVE  t.finalValue = Price(r, v, t.type) /\ t.due = at + Delay(r, t.type)
  <1> DEFINE x == HalfUp(v * (100 - r.discountPercent), 100)
             y == HalfUp(v * (100 + r.deferFeePercent), 100)
             z == r.deferMaxDays * DAY
  <1>1. t \in {Terms("discount", x, 1, at), Terms("installments", v, n, at), Terms("defer", y, 1, at + z)}
    BY DEF ComputeTerms
  <1>2. \A c \in Types : /\ Price(r, v, c) = IF c = "discount" THEN x ELSE IF c = "defer" THEN y ELSE v
                         /\ Delay(r, c) = IF c = "defer" THEN z ELSE 0
    BY DEF Price, Delay
  <1> HIDE DEF x, y, z
  <1> QED
    BY <1>1, <1>2, TermsAre DEF Types

LEMMA ShownTermsAre ==
  ASSUME NEW r \in NegotiationRules, NEW v \in Nat, NEW at \in Int, NEW o \in ComputeOptions(r, v, at)
  PROVE  o.finalValue = Price(r, v, o.type) /\ o.due = at + Delay(r, o.type)
  <1> DEFINE x == HalfUp(v * (100 - r.discountPercent), 100)
             y == HalfUp(v * (100 + r.deferFeePercent), 100)
             z == r.deferMaxDays * DAY
             m == r.maxInstallments
  <1>1. o \in {Terms("discount", x, 1, at), Terms("installments", v, m, at), Terms("defer", y, 1, at + z)}
    BY DEF ComputeOptions
  <1>2. \A c \in Types : /\ Price(r, v, c) = IF c = "discount" THEN x ELSE IF c = "defer" THEN y ELSE v
                         /\ Delay(r, c) = IF c = "defer" THEN z ELSE 0
    BY DEF Price, Delay
  <1> HIDE DEF x, y, z, m
  <1> QED
    BY <1>1, <1>2, TermsAre DEF Types

(* Rounding takes half a cent at most, and no terms go below the discount.    *)
LEMMA RoundingTakesHalfACent ==
  ASSUME NEW x \in Nat
  PROVE  HalfUp(x, 100) \in Nat /\ 100 * HalfUp(x, 100) + 50 >= x
  BY DEF HalfUp

LEMMA PriceIsWithin ==
  ASSUME NEW r \in NegotiationRules, NEW v \in Nat, NEW type
  PROVE  100 * Price(r, v, type) + 50 >= v * (100 - r.discountPercent)
  <1> DEFINE d == 100 - r.discountPercent
             f == 100 + r.deferFeePercent
  <1>1. /\ r.discountPercent \in 0 .. 100 /\ r.deferFeePercent \in 0 .. 100
    BY DEF NegotiationRules
  <1>2. d \in Nat /\ d <= 100 /\ f \in Nat /\ f >= 100
    BY <1>1
  <1> HIDE DEF d, f
  <1>3. v * d \in Nat /\ v * f \in Nat /\ v * d <= 100 * v /\ 100 * v <= v * f
    <2>1. v * d \in Nat /\ v * f \in Nat
      BY <1>2
    <2>2. 100 - d \in Nat /\ f - 100 \in Nat
      BY <1>2
    <2>3. v * (100 - d) \in Nat /\ v * (f - 100) \in Nat
      BY <2>2
    <2>4. v * (100 - d) = 100 * v - v * d /\ v * (f - 100) = v * f - 100 * v
      BY <1>2
    <2> QED
      BY <2>1, <2>3, <2>4
  <1> DEFINE low == v * d
             high == v * f
  <1>4. low \in Nat /\ high \in Nat /\ low <= 100 * v /\ 100 * v <= high
    BY <1>3
  <1>5. Price(r, v, type) \in {HalfUp(low, 100), HalfUp(high, 100), v}
    BY DEF Price, d, f
  <1> HIDE DEF low, high
  <1>6. /\ HalfUp(low, 100) \in Nat /\ 100 * HalfUp(low, 100) + 50 >= low
        /\ HalfUp(high, 100) \in Nat /\ 100 * HalfUp(high, 100) + 50 >= high
    BY <1>4, RoundingTakesHalfACent
  <1>7. 100 * Price(r, v, type) + 50 >= low
    BY <1>4, <1>5, <1>6
  <1> QED
    BY <1>7 DEF low, d

HeldTo(i) ==
  LET t == agreement'[i].terms
      new == invoice'[agreement'[i].new]
  IN  /\ new.value = t.finalValue /\ new.due = t.due
      /\ 100 * new.value + 50 >= invoice[i].value * (100 - rules.discountPercent)
      /\ new.due <= now + rules.deferMaxDays * DAY \/ new.due = now
      /\ page # None /\ page.id = i /\ page.rules = rules =>
           \A o \in page.options : o.type = t.type =>
             /\ t.finalValue = o.finalValue
             /\ t.due - now = o.due - page.at

LEMMA AcceptedAsShown ==
  ASSUME PortfolioIInv, NEW i \in Ids, NEW type, NEW n \in 1 .. rules.maxInstallments, Accept(i, type, n)
  PROVE  HeldTo(i) /\ \A k \in Ids \ {i} : agreement'[k] = agreement[k]
  <1>0. PortfolioTypeOK /\ PageIsTrue
    BY DEF PortfolioIInv
  <1>1. n \in Nat /\ n > 0
    BY <1>0 DEF PortfolioTypeOK, NegotiationRules
  <1>2. PICK t \in ComputeTerms(rules, invoice[i].value, type, n, now), j \in Ids :
              /\ t \in AllTerms /\ j # i /\ Free(j)
              /\ agreement' = [agreement EXCEPT ![i] = [terms |-> t, new |-> j]]
              /\ invoice' \in [Ids -> Rows \cup {Absent}]
              /\ invoice'[j] = NewRow(t.finalValue, t.due, FALSE)
              /\ invoice'[i].status = "RENEGOTIATED" /\ invoice'[i].value = invoice[i].value
              /\ \A k \in Ids \ {i, j} : invoice'[k] = invoice[k]
    BY <1>0, <1>1, Accepted
  <1>3. agreement'[i].terms = t /\ agreement'[i].new = j /\ \A k \in Ids \ {i} : agreement'[k] = agreement[k]
    BY <1>0, <1>2 DEF PortfolioTypeOK
  <1> DEFINE v == invoice[i].value
             new == invoice'[j]
  <1>4. now \in Int /\ rules \in NegotiationRules /\ v \in Nat
    BY <1>0, Clock, RowType DEF PortfolioTypeOK
  <1>5. new.value = t.finalValue /\ new.due = t.due
    <2>1. t.finalValue \in Nat /\ t.due \in Int /\ FALSE \in BOOLEAN
      BY <1>2 DEF AllTerms
    <2>2. NewRow(t.finalValue, t.due, FALSE).value = t.finalValue /\ NewRow(t.finalValue, t.due, FALSE).due = t.due
      BY <2>1, NewRowType
    <2> QED
      BY <1>2, <2>2
  <1> HIDE DEF new
  <1>6. t.finalValue = Price(rules, v, t.type) /\ t.due = now + Delay(rules, t.type)
    BY <1>2, <1>4, ChosenTermsAre
  <1>7. 100 * new.value + 50 >= v * (100 - rules.discountPercent)
    BY <1>4, <1>5, <1>6, PriceIsWithin
  <1>8. new.due <= now + rules.deferMaxDays * DAY \/ new.due = now
    <2>1. Delay(rules, t.type) = rules.deferMaxDays * DAY \/ Delay(rules, t.type) = 0
      BY DEF Delay
    <2>2. rules.deferMaxDays * DAY \in Int
      BY <1>4 DEF NegotiationRules, DAY
    <2> QED
      BY <1>4, <1>5, <1>6, <2>1, <2>2
  <1>9. ASSUME page # None, page.id = i, page.rules = rules, NEW o \in page.options, o.type = t.type
        PROVE  t.finalValue = o.finalValue /\ t.due - now = o.due - page.at
    <2>1. page.options = ComputeOptions(rules, v, page.at)
      BY <1>0, <1>9 DEF PageIsTrue
    <2>2. page.at \in Int
      BY <1>0, <1>9 DEF PortfolioTypeOK
    <2>3. o.finalValue = Price(rules, v, t.type) /\ o.due = page.at + Delay(rules, t.type)
      BY <1>4, <1>9, <2>1, <2>2, ShownTermsAre
    <2>4. Delay(rules, t.type) \in Int
      BY <1>4 DEF Delay, NegotiationRules, DAY
    <2> QED
      BY <1>4, <1>6, <2>2, <2>3, <2>4
  <1>10. HeldTo(i)
    BY <1>3, <1>5, <1>7, <1>8, <1>9 DEF HeldTo, new
  <1> QED
    BY <1>3, <1>10

LEMMA OnlyAcceptAgrees ==
  ASSUME PortfolioIInv, [PortfolioNext]_portfolioVars
  PROVE  \A i \in Ids : Accepts(i) => HeldTo(i)
  <1>1. CASE agreement' = agreement
    BY <1>1 DEF Accepts
  <1>2. CASE \E i \in Ids, type \in Types, n \in 1 .. rules.maxInstallments : Accept(i, type, n)
    <2>1. PICK i \in Ids, type \in Types, n \in 1 .. rules.maxInstallments : Accept(i, type, n)
      BY <1>2
    <2>2. HeldTo(i) /\ \A k \in Ids \ {i} : agreement'[k] = agreement[k]
      BY <2>1, AcceptedAsShown
    <2> QED
      BY <2>2 DEF Accepts
  <1>3. agreement' = agreement \/ \E i \in Ids, type \in Types, n \in 1 .. rules.maxInstallments : Accept(i, type, n)
    <2>1. CASE UNCHANGED portfolioVars
      BY <2>1 DEF portfolioVars
    <2>2. CASE Tick \/ MarkOverdue \/ BillMonth \/ AdvanceMonth \/ ChangeSubscription \/ UpdateRules
      BY <2>2 DEF Tick, MarkOverdue, BillMonth, AdvanceMonth, ChangeSubscription, UpdateRules
    <2>3. CASE StartSweep
      BY <2>3 DEF StartSweep, Read
    <2>4. CASE \E i \in Ids : ClientStep(i)
      <3>1. PICK i \in Ids : ClientStep(i)
        BY <2>4
      <3>2. CASE \E type \in Types, n \in 1 .. rules.maxInstallments : Accept(i, type, n)
        BY <3>2
      <3>3. CASE ConfirmPayment(i) \/ RegisterManual(i)
                 \/ \E status \in {"FAILED", "PENDING", "OVERDUE"} : GatewayNews(i, status)
        BY <3>3 DEF ConfirmPayment, RegisterManual, Settle, GatewayNews
      <3>4. CASE EnrollCase(i) \/ LoseCase(i) \/ OpenLink(i) \/ PayAttempt(i) \/ GetOptions(i)
        BY <3>4 DEF EnrollCase, LoseCase, OpenLink, PayAttempt, GetOptions
      <3> QED
        BY <3>1, <3>2, <3>3, <3>4 DEF ClientStep
    <2>5. CASE \E r \in Recomputers : Recompute(r)
      BY <2>5 DEF Recompute, FollowUp, Read, UpsertHealth, RecomputeFails
    <2> QED
      BY <2>1, <2>2, <2>3, <2>4, <2>5 DEF PortfolioNext
  <1> QED
    BY <1>1, <1>2, <1>3

(* A payer who accepts gets the terms of the page, or of the rules in force,   *)
(* and the new charge is made of them (computeOptions, computeTerms, accept). *)
THEOREM TheTermsShownAreHeld == PortfolioSpec => ShownTermsAreHeld
  <1>1. PortfolioIInv /\ [PortfolioNext]_portfolioVars =>
          [\A i \in Ids : Accepts(i) => HeldTo(i)]_portfolioVars
    BY OnlyAcceptAgrees
  <1>2. PortfolioSpec => [][\A i \in Ids : Accepts(i) => HeldTo(i)]_portfolioVars
    BY <1>1, PortfolioInvariance, PTL DEF PortfolioSpec
  <1>3. [][\A i \in Ids : Accepts(i) => HeldTo(i)]_portfolioVars => ShownTermsAreHeld
    BY DEF ShownTermsAreHeld, HeldTo
  <1> QED
    BY <1>2, <1>3

=============================================================================
