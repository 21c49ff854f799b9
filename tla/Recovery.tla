------------------------------ MODULE Recovery ------------------------------
(***************************************************************************)
(* The recovery engine: a daily sweep opens a case for every invoice that  *)
(* is past due, advances each due case by one step (a message to the       *)
(* payer) and gives up after the last step, while payments and agreements  *)
(* close cases and the owner may cancel them.                              *)
(*                                                                         *)
(* recovery.service.ts, recovery-case.repository.ts, domain/recovery.ts.   *)
(* The sweep works on what its queries returned; every await lets another  *)
(* request, or another sweep, in.  How an invoice is settled is the matter *)
(* of Settlement: here a settlement is the commit that moves the status,   *)
(* and its follow-up, closeByInvoiceId, comes later or never.              *)
(***************************************************************************)
EXTENDS InvoiceStatus, Integers, FiniteSets

CONSTANTS
  Invoices,
  Sweeps,        \* processes that may run the daily sweep
  MaxSteps,      \* DEFAULT_MAX_STEPS
  StepInterval,  \* DEFAULT_STEP_INTERVAL_DAYS
  MaxCrashes     \* bound: how many sweeps may die halfway

ASSUME RecoveryAssumption ==
  /\ MaxSteps \in Nat
  /\ StepInterval \in Nat \ {0}
  /\ MaxCrashes \in Nat

VARIABLES
  invoice,   \* Invoice.status
  pastDue,   \* invoices with dueDate < now
  case,      \* RecoveryCase by its invoiceId (@unique)
  attempts,  \* steps of the RecoveryAttempt rows of each case
  sent,      \* messages published for each invoice and step
  closer,    \* the follow-up of the settlement of each invoice
  sweep,     \* what each sweep holds in memory
  ran,       \* sweeps that ran today
  crashes

vars == <<invoice, pastDue, case, attempts, sent, closer, sweep, ran, crashes>>

Active == {"open", "recovering"}
Resolved == {"recovered", "lost", "cancelled"}

Steps == 1 .. MaxSteps

(* wait: days until nextActionAt.                                            *)
Cases == [status : {"none"} \cup Active \cup Resolved, step : 0 .. MaxSteps,
          relief : BOOLEAN, wait : 0 .. StepInterval]

NoCase == [status |-> "none", step |-> 0, relief |-> FALSE, wait |-> 0]

(* found: invoices without a case; todo: those still to open; due: the cases  *)
(* findDueCases returned that are still to handle; seen: as it returned them; *)
(* now: the case being advanced.                                              *)
SweepLabels == {"idle", "opening", "opened", "advancing", "published"}

Sweepers == [label : SweepLabels, found : SUBSET Invoices, todo : SUBSET Invoices,
             due : SUBSET Invoices, seen : [Invoices -> Cases],
             now : Invoices \cup {"none"}, relief : BOOLEAN]

Idle == [label |-> "idle", found |-> {}, todo |-> {}, due |-> {},
         seen |-> [i \in Invoices |-> NoCase], now |-> "none", relief |-> FALSE]

TypeOK ==
  /\ invoice \in [Invoices -> InvoiceStatuses]
  /\ pastDue \subseteq Invoices
  /\ case \in [Invoices -> Cases]
  /\ attempts \in [Invoices -> SUBSET Steps]
  /\ sent \in [Invoices -> [Steps -> Nat]]
  /\ closer \in [Invoices -> {"none", "settled", "closing", "done"}]
  /\ sweep \in [Sweeps -> Sweepers]
  /\ ran \subseteq Sweeps
  /\ crashes \in 0 .. MaxCrashes

Init ==
  /\ invoice = [i \in Invoices |-> "PENDING"]
  /\ pastDue = {}
  /\ case = [i \in Invoices |-> NoCase]
  /\ attempts = [i \in Invoices |-> {}]
  /\ sent = [i \in Invoices |-> [k \in Steps |-> 0]]
  /\ closer = [i \in Invoices |-> "none"]
  /\ sweep = [s \in Sweeps |-> Idle]
  /\ ran = {}
  /\ crashes = 0

payment == <<invoice, pastDue, closer>>
cases == <<case, attempts>>
messages == sent
schedule == <<ran, crashes>>

-----------------------------------------------------------------------------
(***************************************************************************)
(* The sweep of one tenant: sweepTenant = openDueCases, advanceDueCases.   *)
(***************************************************************************)

(* findOverdueWithoutCase.                                                   *)
WithoutCase == {i \in pastDue : invoice[i] \in {"PENDING", "OVERDUE"} /\ case[i].status = "none"}

(* The cron runs each sweep once a day.                                      *)
StartSweep(s) ==
  /\ sweep[s].label = "idle"
  /\ s \notin ran
  /\ sweep' = [sweep EXCEPT ![s] = [Idle EXCEPT !.label = "opening", !.found = WithoutCase,
                                                !.todo = WithoutCase]]
  /\ UNCHANGED <<payment, cases, messages, schedule>>

(* openCase: an upsert that leaves an existing case alone.                   *)
OpenCase(s, i) ==
  /\ sweep[s].label = "opening"
  /\ i \in sweep[s].todo
  /\ case' = [case EXCEPT ![i] = IF @.status = "none" THEN [NoCase EXCEPT !.status = "open"] ELSE @]
  /\ sweep' = [sweep EXCEPT ![s].todo = @ \ {i}]
  /\ UNCHANGED <<payment, attempts, messages, schedule>>

(* markOverdueByIds.                                                         *)
MarkOverdue(s) ==
  /\ sweep[s].label = "opening"
  /\ sweep[s].todo = {}
  /\ invoice' = [i \in Invoices |->
                   IF i \in sweep[s].found /\ invoice[i] = "PENDING" THEN "OVERDUE" ELSE invoice[i]]
  /\ sweep' = [sweep EXCEPT ![s].label = "opened"]
  /\ UNCHANGED <<pastDue, closer, cases, messages, schedule>>

(* Mutant of Due: cases that have been advanced are forgotten.                *)
DueWhenOpen(i) == case[i].status = "open" /\ case[i].wait = 0

Due(i) == case[i].status \in Active /\ case[i].wait = 0

(* findDueCases: it does not look at the status of the invoice.              *)
FindDueCases(s) ==
  /\ sweep[s].label = "opened"
  /\ sweep' = [sweep EXCEPT ![s].label = "advancing", ![s].due = {i \in Invoices : Due(i)},
                            ![s].seen = [i \in Invoices |-> IF Due(i) THEN case[i] ELSE NoCase]]
  /\ UNCHANGED <<payment, cases, messages, schedule>>

(* decideNextStep gives up when the case, as it was read, has no step left.  *)
Exhausted(c) == c.step >= MaxSteps

(* decideNextStep offers relief to a payer who hesitates, once per case.     *)
OffersRelief(c, hesitating) == hesitating /\ ~c.relief

(* markLost, whatever has become of the case.                                *)
GiveUp(s, i) ==
  /\ sweep[s].label = "advancing"
  /\ i \in sweep[s].due
  /\ Exhausted(sweep[s].seen[i])
  /\ case' = [case EXCEPT ![i].status = "lost", ![i].wait = 0]
  /\ sweep' = [sweep EXCEPT ![s].due = @ \ {i}]
  /\ UNCHANGED <<payment, attempts, messages, schedule>>

(* queueOverdueInvoices: the message of the next step is published.          *)
Publish(s, i, hesitating) ==
  LET c == sweep[s].seen[i]
      relief == OffersRelief(c, hesitating) IN
  /\ sweep[s].label = "advancing"
  /\ i \in sweep[s].due
  /\ ~Exhausted(c)
  /\ sent' = [sent EXCEPT ![i][c.step + 1] = @ + 1]
  /\ sweep' = [sweep EXCEPT ![s].label = "published", ![s].due = @ \ {i}, ![s].now = i,
                            ![s].relief = relief]
  /\ UNCHANGED <<payment, cases, schedule>>

Advance(s, i, c, rows) ==
  /\ sweep[s].label = "published"
  /\ case' = [case EXCEPT ![i] = c]
  /\ attempts' = [attempts EXCEPT ![i] = @ \cup rows]
  /\ sweep' = [sweep EXCEPT ![s].label = "advancing", ![s].now = "none", ![s].relief = FALSE]
  /\ UNCHANGED <<payment, messages, schedule>>

(* The case as recordAttemptAndAdvance writes it, for a given step.          *)
Advanced(s, step) ==
  [status |-> "recovering", step |-> step,
   relief |-> sweep[s].seen[sweep[s].now].relief \/ sweep[s].relief, wait |-> StepInterval]

(* Mutant of RecordAttempt: the row of the attempt is not written.            *)
AdvanceOnly(s) ==
  LET i == sweep[s].now IN
  Advance(s, i, Advanced(s, sweep[s].seen[i].step + 1), {})

(* recordAttemptAndAdvance, whatever has become of the case.                 *)
RecordAttempt(s) ==
  LET step == sweep[s].seen[sweep[s].now].step + 1 IN
  Advance(s, sweep[s].now, Advanced(s, step), {step})

EndSweep(s) ==
  /\ sweep[s].label = "advancing"
  /\ sweep[s].due = {}
  /\ sweep' = [sweep EXCEPT ![s] = Idle]
  /\ ran' = ran \cup {s}
  /\ UNCHANGED <<payment, cases, messages, crashes>>

(* The process dies, or an await of the sweep throws: runAllTenants logs it. *)
CrashSweep(s) ==
  /\ sweep[s].label # "idle"
  /\ crashes < MaxCrashes
  /\ crashes' = crashes + 1
  /\ sweep' = [sweep EXCEPT ![s] = Idle]
  /\ ran' = ran \cup {s}
  /\ UNCHANGED <<payment, cases, messages>>

-----------------------------------------------------------------------------
(***************************************************************************)
(* Settlement of the invoice, and the owner.                               *)
(***************************************************************************)

(* The commit of a payment (webhook or manual) or of an agreement.           *)
Settle(i, new) ==
  /\ new \in {"PAID", "RENEGOTIATED"}
  /\ invoice[i] # new
  /\ CanTransitionInvoice(invoice[i], new)
  /\ invoice' = [invoice EXCEPT ![i] = new]
  /\ closer' = [closer EXCEPT ![i] = "settled"]
  /\ UNCHANGED <<pastDue, cases, messages, sweep, schedule>>

(* A webhook reports anything else: the payment failed, or is tried again.   *)
Report(i, new) ==
  /\ new \in {"PENDING", "OVERDUE", "FAILED"}
  /\ invoice[i] # new
  /\ CanTransitionInvoice(invoice[i], new)
  /\ invoice' = [invoice EXCEPT ![i] = new]
  /\ UNCHANGED <<pastDue, closer, cases, messages, sweep, schedule>>

(* A further PAID notification, under another event id, changes nothing but   *)
(* has its follow-up: applyWebhook does not ask whether the status moved.     *)
ConfirmAgain(i) ==
  /\ invoice[i] = "PAID" \/ ~CanTransitionInvoice(invoice[i], "PAID")
  /\ closer[i] \in {"none", "done"}
  /\ closer' = [closer EXCEPT ![i] = "settled"]
  /\ UNCHANGED <<invoice, pastDue, cases, messages, sweep, schedule>>

(* closeByInvoiceId reads the case: without an active one nothing is done.   *)
ReadCase(i) ==
  /\ closer[i] = "settled"
  /\ closer' = [closer EXCEPT ![i] = IF case[i].status \in Active THEN "closing" ELSE "done"]
  /\ UNCHANGED <<invoice, pastDue, cases, messages, sweep, schedule>>

(* ... and closes it, whatever has become of it.                             *)
CloseCase(i) ==
  /\ closer[i] = "closing"
  /\ case' = [case EXCEPT ![i].status = "recovered", ![i].wait = 0]
  /\ closer' = [closer EXCEPT ![i] = "done"]
  /\ UNCHANGED <<invoice, pastDue, attempts, messages, sweep, schedule>>

(* The follow-up is best effort: it may throw, or the process die after the  *)
(* commit.  The notification is recorded by then: a resend is a duplicate.   *)
FollowUpFails(i) ==
  /\ closer[i] \in {"settled", "closing"}
  /\ closer' = [closer EXCEPT ![i] = "done"]
  /\ UNCHANGED <<invoice, pastDue, cases, messages, sweep, schedule>>

(* cancelById: one UPDATE that tests the status.                             *)
CancelCase(i) ==
  /\ case[i].status \in Active
  /\ case' = [case EXCEPT ![i].status = "cancelled", ![i].wait = 0]
  /\ UNCHANGED <<payment, attempts, messages, sweep, schedule>>

(* A day passes; a sweep is over long before.                                *)
NextDay(newlyDue) ==
  /\ \A s \in Sweeps : sweep[s].label = "idle"
  /\ pastDue' = pastDue \cup newlyDue
  /\ case' = [i \in Invoices |-> [case[i] EXCEPT !.wait = IF @ > 0 THEN @ - 1 ELSE 0]]
  /\ ran' = {}
  /\ UNCHANGED <<invoice, closer, attempts, messages, sweep, crashes>>

-----------------------------------------------------------------------------
SweepStep(s) ==
  \/ StartSweep(s)
  \/ \E i \in Invoices : OpenCase(s, i) \/ GiveUp(s, i)
  \/ MarkOverdue(s)
  \/ FindDueCases(s)
  \/ \E i \in Invoices, hesitating \in BOOLEAN : Publish(s, i, hesitating)
  \/ RecordAttempt(s)
  \/ EndSweep(s)

Environment ==
  \/ \E i \in Invoices, new \in InvoiceStatuses : Settle(i, new) \/ Report(i, new)
  \/ \E i \in Invoices : \/ ConfirmAgain(i) \/ ReadCase(i) \/ CloseCase(i) \/ FollowUpFails(i)
                        \/ CancelCase(i)
  \/ \E s \in Sweeps : CrashSweep(s)

Next ==
  \/ \E s \in Sweeps : SweepStep(s)
  \/ Environment
  \/ \E newlyDue \in SUBSET Invoices : NextDay(newlyDue)

Spec == Init /\ [][Next]_vars

(* The cron runs the sweep every day, a sweep that does not die goes on, and  *)
(* days pass.  Nothing is owed by payers, owners or follow-ups.              *)
FairSpec ==
  /\ Spec
  /\ \A s \in Sweeps : WF_vars(SweepStep(s))
  /\ WF_vars(\E newlyDue \in SUBSET Invoices : NextDay(newlyDue))

=============================================================================
