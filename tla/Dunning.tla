------------------------------ MODULE Dunning ------------------------------
(***************************************************************************)
(* The reminders of open invoices.  A daily run sends each invoice the     *)
(* next step of the tenant's régua, before and after its due date, unless  *)
(* a recovery case is active; without a régua it sends the list of pending *)
(* invoices, which it reads through a cache in Redis.                      *)
(*                                                                         *)
(* notification-scheduler.service.ts, domain/regua.ts, and the queries of  *)
(* invoice.repository.ts.  Composed with CaseLife, what the recovery does  *)
(* to a case: the two share the invoices and the days, and the run looks   *)
(* at the cases.                                                           *)
(***************************************************************************)
EXTENDS CaseLife, Integers, Sequences, FiniteSets

CONSTANTS
  Runs,       \* processes that may run the notifications
  Offsets,    \* ReguaStep.offsetDays: days from the due date, increasing
  FirstDay,   \* daysFromDue of each invoice in the beginning
  Delinquent, \* invoices of clients that are EM_ATRASO
  Limit,      \* how many invoices a run may read
  NoList,     \* nothing cached
  MaxCrashes  \* bound: how many runs may die halfway

ReguaSteps == 1 .. Len(Offsets)

(* After its last step nothing depends on the age of an invoice: days stop.  *)
LastDay == IF Len(Offsets) = 0 THEN 0 ELSE IF Offsets[Len(Offsets)] < 0 THEN 0
           ELSE Offsets[Len(Offsets)]

ASSUME DunningAssumption ==
  /\ Offsets \in Seq(Int)
  /\ \A k, l \in ReguaSteps : k < l => Offsets[k] < Offsets[l]
  /\ FirstDay \in [Invoices -> Int]
  /\ \A i \in Invoices : FirstDay[i] < 0
  /\ Limit \in Nat
  /\ IsFiniteSet(Runs) /\ MaxCrashes \in Nat
  /\ Delinquent \subseteq Invoices
  /\ \A list \in SUBSET Invoices : list # NoList
  /\ "none" \notin Invoices

VARIABLES
  days,          \* daysFromDue of each invoice
  reminderStep,  \* Invoice.reminderStep
  reminded,      \* messages published for each invoice and step of the régua
  cached,        \* the list of pending invoices in Redis
  run,           \* what each run holds in memory
  notified,      \* runs of today
  settledBefore, \* invoices that were settled when the day began
  crashes

reguaVars == <<vars, days, reminderStep, reminded, cached, run, notified, settledBefore, crashes>>

Lists == {NoList} \cup SUBSET Invoices

(* seen: reminderStep as findReguaCandidates returned it; skip: the invoices  *)
(* with an active case; now: the invoice whose message is out; alone: no      *)
(* sweep of the recovery has been at work since the run began.                *)
RunLabels == {"idle", "candidates", "looping", "reminded", "listing", "caching", "sending"}

Notifiers == [label : RunLabels, todo : SUBSET Invoices, seen : [Invoices -> Nat],
              skip : SUBSET Invoices, now : Invoices \cup {"none"}, alone : BOOLEAN]

Rested == [label |-> "idle", todo |-> {}, seen |-> [i \in Invoices |-> 0], skip |-> {},
           now |-> "none", alone |-> FALSE]

ReguaTypeOK ==
  /\ TypeOK
  /\ \A i \in Invoices : days[i] \in FirstDay[i] .. LastDay
  /\ pastDue = {i \in Invoices : days[i] >= 0}
  /\ reminderStep \in [Invoices -> 0 .. Len(Offsets)]
  /\ reminded \in [Invoices -> [ReguaSteps -> Nat]]
  /\ cached \in Lists
  /\ run \in [Runs -> Notifiers]
  /\ notified \subseteq Runs
  /\ settledBefore \subseteq Invoices
  /\ crashes \in 0 .. MaxCrashes

ReguaInit ==
  /\ Init
  /\ days = FirstDay
  /\ reminderStep = [i \in Invoices |-> 0]
  /\ reminded = [i \in Invoices |-> [k \in ReguaSteps |-> 0]]
  /\ cached = NoList
  /\ run = [r \in Runs |-> Rested]
  /\ notified = {}
  /\ settledBefore = {}
  /\ crashes = 0

Open(i) == invoice[i] \in {"PENDING", "OVERDUE"}

(* orderBy dueDate, take Limit; ties as the database likes.                   *)
Oldest(list) ==
  {I \in SUBSET list : /\ Cardinality(I) = IF Cardinality(list) < Limit THEN Cardinality(list) ELSE Limit
                       /\ \A i \in I, j \in list \ I : FirstDay[i] >= FirstDay[j]}

(* What no step of a run of notifications touches.                           *)
Elsewhere == <<vars, days, settledBefore>>

-----------------------------------------------------------------------------
(* The run of one tenant with its régua: runReguaForTenant.                    *)

Start(r, label, todo) ==
  /\ run[r].label = "idle"
  /\ r \notin notified
  /\ run' = [run EXCEPT ![r] = [Rested EXCEPT !.label = label, !.todo = todo, !.seen = reminderStep,
                                              !.alone = ~busy]]
  /\ UNCHANGED <<Elsewhere, crashes, reminderStep, reminded, cached, notified>>

(* regua.get and findReguaCandidates.  The owner may turn the régua on and off *)
(* between any two runs.                                                       *)
StartRun(r) ==
  /\ ReguaSteps # {}
  /\ \E I \in Oldest({i \in Invoices : Open(i)}) : Start(r, "candidates", I)

(* regua.get.                                                                  *)
StartLegacyRun(r) == Start(r, "listing", {})

SkipThose(r, skip) ==
  /\ run[r].label = "candidates"
  /\ run' = [run EXCEPT ![r].label = "looping", ![r].skip = skip]
  /\ UNCHANGED <<Elsewhere, crashes, reminderStep, reminded, cached, notified>>

(* Mutants of FindActive: the recovery is ignored; cases that ended count too. *)
FindNone(r) == SkipThose(r, {})
FindAll(r) == SkipThose(r, {i \in Invoices : case[i] # "none"})

(* findActiveInvoiceIds.                                                       *)
FindActive(r) == SkipThose(r, {i \in Invoices : case[i] = "active"})

(* selectDueStep, which looks at one step only: the one after reminderStep.    *)
IsDue(step, age) == step \in ReguaSteps /\ Offsets[step] <= age

Reminds(r, i) == i \notin run[r].skip /\ IsDue(run[r].seen[i] + 1, days[i])

PassOver(r, i) ==
  /\ run[r].label = "looping"
  /\ i \in run[r].todo
  /\ ~Reminds(r, i)
  /\ run' = [run EXCEPT ![r].todo = @ \ {i}]
  /\ UNCHANGED <<Elsewhere, crashes, reminderStep, reminded, cached, notified>>

(* queueOverdueInvoices publishes the message.                                 *)
Remind(r, i) ==
  /\ run[r].label = "looping"
  /\ i \in run[r].todo
  /\ Reminds(r, i)
  /\ reminded' = [reminded EXCEPT ![i][run[r].seen[i] + 1] = @ + 1]
  /\ run' = [run EXCEPT ![r].label = "reminded", ![r].todo = @ \ {i}, ![r].now = i]
  /\ UNCHANGED <<Elsewhere, crashes, reminderStep, cached, notified>>

Mark(r, step) ==
  /\ run[r].label = "reminded"
  /\ reminderStep' = [reminderStep EXCEPT ![run[r].now] = step]
  /\ run' = [run EXCEPT ![r].label = "looping", ![r].now = "none"]
  /\ UNCHANGED <<Elsewhere, crashes, reminded, cached, notified>>

(* Mutant of MarkStep: the step is not marked at all.                          *)
ForgetStep(r) == Mark(r, reminderStep[run[r].now])

(* markReminderStep.                                                           *)
MarkStep(r) == Mark(r, run[r].seen[run[r].now] + 1)

EndRun(r) ==
  /\ run[r].label \in {"looping", "sending"}
  /\ run[r].todo = {}
  /\ run' = [run EXCEPT ![r] = Rested]
  /\ notified' = notified \cup {r}
  /\ UNCHANGED <<Elsewhere, crashes, reminderStep, reminded, cached>>

(* The process dies, or an await throws: runAllTenants goes on with the next   *)
(* tenant.                                                                     *)
CrashRun(r) ==
  /\ run[r].label # "idle"
  /\ crashes < MaxCrashes
  /\ crashes' = crashes + 1
  /\ run' = [run EXCEPT ![r] = Rested]
  /\ notified' = notified \cup {r}
  /\ UNCHANGED <<Elsewhere, reminderStep, reminded, cached>>

-----------------------------------------------------------------------------
(* Without a régua: runLegacyForTenant, and the cache of findPendingInvoices.  *)

Pending == {i \in Delinquent : invoice[i] = "PENDING"}

(* A hit, or else the list from the database, which is then put into Redis.    *)
ReadList(r) ==
  /\ run[r].label = "listing"
  /\ IF cached = NoList
     THEN \E I \in Oldest(Pending) : run' = [run EXCEPT ![r].label = "caching", ![r].todo = I]
     ELSE run' = [run EXCEPT ![r].label = "sending", ![r].todo = cached]
  /\ UNCHANGED <<Elsewhere, crashes, reminderStep, reminded, cached, notified>>

(* redis.set; when Redis is away the list is used all the same.                *)
CacheList(r) ==
  /\ run[r].label = "caching"
  /\ cached' \in {run[r].todo, cached}
  /\ run' = [run EXCEPT ![r].label = "sending"]
  /\ UNCHANGED <<Elsewhere, crashes, reminderStep, reminded, notified>>

Send(r, i) ==
  /\ run[r].label = "sending"
  /\ i \in run[r].todo
  /\ run' = [run EXCEPT ![r].todo = @ \ {i}, ![r].now = i]
  /\ UNCHANGED <<Elsewhere, crashes, reminderStep, reminded, cached, notified>>

(* clearPendingInvoicesCache, after every change of an invoice, of any tenant: *)
(* it deletes the lists of all of them.  Or the minute is over (EX: 60).       *)
ClearCache ==
  /\ cached' = NoList
  /\ UNCHANGED <<Elsewhere, crashes, reminderStep, reminded, run, notified>>

-----------------------------------------------------------------------------
(* Mutant of AfterADay: a list is cached without an end.                       *)
KeptForGood == cached

(* EX: 60.                                                                     *)
AfterADay == NoList

(* A day passes, at an hour at which no run is going on.                       *)
NextReguaDay ==
  /\ \A r \in Runs : run[r].label = "idle"
  /\ days' = [i \in Invoices |-> IF days[i] < LastDay THEN days[i] + 1 ELSE days[i]]
  /\ NextDay({i \in Invoices : days'[i] >= 0})
  /\ cached' = AfterADay
  /\ notified' = {}
  /\ settledBefore' = {i \in Invoices : invoice[i] \in {"PAID", "RENEGOTIATED"}}
  /\ UNCHANGED <<reminderStep, reminded, run, crashes>>

RunStep(r) ==
  \/ StartRun(r) \/ StartLegacyRun(r)
  \/ FindActive(r)
  \/ \E i \in Invoices : PassOver(r, i) \/ Remind(r, i) \/ Send(r, i)
  \/ MarkStep(r)
  \/ ReadList(r) \/ CacheList(r)
  \/ EndRun(r)

(* A step of the recovery or of a gateway; a run that a sweep joins is not     *)
(* alone any more.                                                             *)
RecoveryStep ==
  /\ Step
  /\ run' = [r \in Runs |-> [run[r] EXCEPT !.alone = @ /\ ~busy']]
  /\ UNCHANGED <<days, reminderStep, reminded, cached, notified, settledBefore, crashes>>

ReguaNext ==
  \/ \E r \in Runs : RunStep(r) \/ CrashRun(r)
  \/ ClearCache
  \/ RecoveryStep
  \/ NextReguaDay

ReguaSpec == ReguaInit /\ [][ReguaNext]_reguaVars

(* run-daily-billing.sh triggers the run every day, and a run that does not    *)
(* die goes on.  Sweeps and cases end, as CaseLife promises.                   *)
ReguaFairSpec ==
  /\ ReguaSpec
  /\ WF_reguaVars(EndSweep /\ RecoveryStep)
  /\ \A i \in Invoices : EndsForGood(i)
  /\ \A r \in Runs : WF_reguaVars(RunStep(r))
  /\ WF_reguaVars(NextReguaDay)

=============================================================================
