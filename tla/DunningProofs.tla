---------------------------- MODULE DunningProofs ----------------------------
(* Proofs of the safety properties of DunningProperties for every set of       *)
(* invoices, every régua, and every number of runs that overlap and die.       *)
EXTENDS DunningProperties, FiniteSetTheorems, TLAPS

(* The numbers the account of the messages is kept in.                         *)
LEMMA Numbers ==
  /\ Len(Offsets) \in Nat /\ LastDay \in Nat
  /\ Cardinality(Runs) \in Nat /\ SetBack \in Nat
  /\ Cardinality(Runs) >= 2 => SetBack = Cardinality(Runs) - 2
  <1>1. Len(Offsets) \in Nat /\ \A k \in 1 .. Len(Offsets) : Offsets[k] \in Int
    BY DunningAssumption
  <1>2. LastDay \in Nat
    BY <1>1 DEF LastDay
  <1>3. Cardinality(Runs) \in Nat
    BY DunningAssumption, FS_CardinalityType
  <1> QED
    BY <1>1, <1>2, <1>3 DEF SetBack

(* The types of what the runs hold.                                            *)
LEMMA Types ==
  ASSUME ReguaTypeOK
  PROVE  /\ run \in [Runs -> Notifiers]
         /\ \A r \in Runs : /\ run[r].label \in RunLabels /\ run[r].todo \in SUBSET Invoices
                            /\ run[r].seen \in [Invoices -> Nat] /\ run[r].alone \in BOOLEAN
         /\ reminderStep \in [Invoices -> 0 .. Len(Offsets)]
         /\ reminded \in [Invoices -> [ReguaSteps -> Nat]]
         /\ crashes \in 0 .. MaxCrashes /\ crashes \in Nat
         /\ invoice \in [Invoices -> InvoiceStatuses]
         /\ settledBefore \subseteq Invoices /\ notified \subseteq Runs /\ cached \in Lists
  BY DunningAssumption DEF ReguaTypeOK, TypeOK, Notifiers

LEMMA RestedType == Rested \in Notifiers
  BY DEF Rested, Notifiers, RunLabels

(* Before the first day nothing was sent and no run is at work.                *)
LEMMA InitIInv == ReguaInit => ReguaIInv
  <1> SUFFICES ASSUME ReguaInit PROVE ReguaIInv
    OBVIOUS
  <1> USE DunningAssumption, Numbers DEF ReguaInit, Init
  <1>1. ReguaTypeOK
    <2>1. run \in [Runs -> Notifiers]
      BY RestedType
    <2>2. TypeOK
      BY DEF TypeOK, InvoiceStatuses
    <2>3. \A i \in Invoices : days[i] \in Int /\ days[i] < 0 /\ days[i] = FirstDay[i]
      OBVIOUS
    <2>4. /\ \A i \in Invoices : days[i] \in FirstDay[i] .. LastDay
          /\ pastDue = {i \in Invoices : days[i] >= 0}
      BY <2>3
    <2> QED
      BY <2>1, <2>2, <2>4 DEF ReguaTypeOK, Lists
  <1>2. \A r \in Runs : /\ run[r] = Rested /\ run[r].label = "idle" /\ run[r].todo = {} /\ run[r].alone = FALSE
                        /\ \A i \in Invoices : run[r].seen[i] = 0
    BY DEF Rested
  <1>3. ReadsWerePublished
    BY <1>2 DEF ReadsWerePublished, Running, ReguaSteps
  <1>4. TellsOfNone /\ CasesAreKnown /\ SettledIsUnlisted
    BY <1>2 DEF TellsOfNone, CasesAreKnown, SettledIsUnlisted
  <1>5. RemindersAccountedFor
    <2> SUFFICES ASSUME NEW i \in Invoices
                 PROVE  DayBegan(i, 0) /\ \A k \in ReguaSteps : Account(i, 0, k)
      BY DEF RemindersAccountedFor
    <2>1. DayBegan(i, 0)
      BY <1>2 DEF DayBegan, Running
    <2>2. ASSUME NEW k \in ReguaSteps PROVE Account(i, 0, k)
      <3>1. Done(i) = {} /\ Marking(i, k) = {} /\ MarkingOthers(i, k) = {}
        BY <1>2 DEF Done, Unmarked, Marking, MarkingOthers
      <3>2. Cardinality({}) = 0
        BY FS_EmptySet
      <3>3. reminded[i][k] = 0 /\ reminderStep[i] = 0 /\ k \in Nat /\ k > 0
        BY DEF ReguaSteps
      <3> QED
        BY <3>1, <3>2, <3>3 DEF Account
    <2> QED
      BY <2>1, <2>2
  <1> QED
    BY <1>1, <1>3, <1>4, <1>5 DEF ReguaIInv

(* A step of run r leaves the other runs alone; a field it does not name stays. *)
Alone(r) == /\ run' \in [Runs -> Notifiers]
            /\ \A q \in Runs \ {r} : run'[q] = run[q]

LEMMA StartEffect ==
  ASSUME ReguaTypeOK, NEW r \in Runs, StartRun(r) \/ StartLegacyRun(r)
  PROVE  /\ run[r].label = "idle" /\ r \notin notified /\ Alone(r)
         /\ run'[r].label \in {"candidates", "listing"} /\ run'[r].seen = reminderStep
         /\ run'[r].now = "none" /\ run'[r].alone = ~busy /\ \A i \in run'[r].todo : i \in Invoices /\ Open(i)
         /\ UNCHANGED <<Elsewhere, crashes, reminderStep, reminded, cached, notified>>
  <1>0. run \in [Runs -> Notifiers] /\ reminderStep \in [Invoices -> Nat]
    BY Types, Numbers
  <1>1. PICK label \in {"candidates", "listing"}, todo \in SUBSET {i \in Invoices : Open(i)} : Start(r, label, todo)
    BY DEF StartRun, StartLegacyRun, Oldest
  <1>2. run' = [run EXCEPT ![r] = [Rested EXCEPT !.label = label, !.todo = todo, !.seen = reminderStep,
                                                 !.alone = ~busy]]
    BY <1>1 DEF Start
  <1>3. [Rested EXCEPT !.label = label, !.todo = todo, !.seen = reminderStep, !.alone = ~busy] \in Notifiers
    BY <1>0 DEF Rested, Notifiers, RunLabels
  <1>4. /\ run'[r].label = label /\ run'[r].todo = todo /\ run'[r].seen = reminderStep /\ run'[r].alone = ~busy
        /\ run'[r].now = "none" /\ Alone(r)
    BY <1>0, <1>2, <1>3 DEF Rested, Alone
  <1> QED
    BY <1>1, <1>4 DEF Start

LEMMA FindEffect ==
  ASSUME ReguaTypeOK, NEW r \in Runs, FindActive(r)
  PROVE  /\ run[r].label = "candidates" /\ Alone(r)
         /\ run'[r].label = "looping" /\ run'[r].now = run[r].now /\ run'[r].skip = {i \in Invoices : case[i] = "active"}
         /\ run'[r].todo = run[r].todo /\ run'[r].seen = run[r].seen /\ run'[r].alone = run[r].alone
         /\ UNCHANGED <<Elsewhere, crashes, reminderStep, reminded, cached, notified>>
  <1>0. run \in [Runs -> Notifiers] /\ run[r] \in Notifiers
    BY Types
  <1> DEFINE skip == {i \in Invoices : case[i] = "active"}
  <1>1. run' = [run EXCEPT ![r].label = "looping", ![r].skip = skip] /\ skip \in SUBSET Invoices
    BY DEF FindActive, SkipThose
  <1> HIDE DEF skip
  <1>2. [run[r] EXCEPT !.label = "looping", !.skip = skip] \in Notifiers
    BY <1>0, <1>1 DEF Notifiers, RunLabels
  <1>3. run'[r] = [run[r] EXCEPT !.label = "looping", !.skip = skip] /\ Alone(r)
    BY <1>0, <1>1, <1>2 DEF Alone
  <1>4. /\ run'[r].label = "looping" /\ run'[r].skip = skip /\ run'[r].now = run[r].now
        /\ run'[r].todo = run[r].todo /\ run'[r].seen = run[r].seen /\ run'[r].alone = run[r].alone
    BY <1>0, <1>3 DEF Notifiers
  <1> QED
    BY <1>3, <1>4 DEF FindActive, SkipThose, skip

(* PassOver, and Send of a run without a régua.                                *)
LEMMA PassEffect ==
  ASSUME ReguaTypeOK, NEW r \in Runs, NEW i \in Invoices, PassOver(r, i) \/ Send(r, i)
  PROVE  /\ Alone(r)
         /\ PassOver(r, i) => run[r].label = "looping" /\ ~Reminds(r, i) /\ run'[r].now = run[r].now
         /\ Send(r, i) => run[r].label = "sending"
         /\ i \in run[r].todo /\ run'[r].todo = run[r].todo \ {i}
         /\ run'[r].label = run[r].label /\ run'[r].skip = run[r].skip
         /\ run'[r].seen = run[r].seen /\ run'[r].alone = run[r].alone
         /\ UNCHANGED <<Elsewhere, crashes, reminderStep, reminded, cached, notified>>
  <1>0. run \in [Runs -> Notifiers] /\ run[r] \in Notifiers
    BY Types
  <1>1. /\ \/ run' = [run EXCEPT ![r].todo = @ \ {i}]
           \/ run' = [run EXCEPT ![r].todo = @ \ {i}, ![r].now = i]
        /\ PassOver(r, i) => run' = [run EXCEPT ![r].todo = @ \ {i}]
    BY DEF PassOver, Send
  <1>2. /\ [run[r] EXCEPT !.todo = @ \ {i}] \in Notifiers
        /\ [run[r] EXCEPT !.todo = @ \ {i}, !.now = i] \in Notifiers
    BY <1>0 DEF Notifiers
  <1>3. /\ \/ run'[r] = [run[r] EXCEPT !.todo = @ \ {i}]
           \/ run'[r] = [run[r] EXCEPT !.todo = @ \ {i}, !.now = i]
        /\ PassOver(r, i) => run'[r] = [run[r] EXCEPT !.todo = @ \ {i}]
        /\ Alone(r)
    BY <1>0, <1>1, <1>2 DEF Alone
  <1>4. /\ run'[r].label = run[r].label /\ run'[r].skip = run[r].skip /\ run'[r].todo = run[r].todo \ {i}
        /\ PassOver(r, i) => run'[r].now = run[r].now
        /\ run'[r].seen = run[r].seen /\ run'[r].alone = run[r].alone
    BY <1>0, <1>3 DEF Notifiers
  <1> QED
    BY <1>3, <1>4 DEF PassOver, Send

LEMMA RemindEffect ==
  ASSUME ReguaTypeOK, NEW r \in Runs, NEW i \in Invoices, Remind(r, i)
  PROVE  /\ Alone(r) /\ run[r].label = "looping" /\ i \in run[r].todo /\ Reminds(r, i)
         /\ run'[r].label = "reminded" /\ run'[r].todo = run[r].todo \ {i} /\ run'[r].now = i
         /\ run'[r].skip = run[r].skip /\ run'[r].seen = run[r].seen /\ run'[r].alone = run[r].alone
         /\ run[r].seen[i] + 1 \in ReguaSteps
         /\ reminded' = [reminded EXCEPT ![i][run[r].seen[i] + 1] = @ + 1]
         /\ UNCHANGED <<Elsewhere, crashes, reminderStep, cached, notified>>
  <1>0. run \in [Runs -> Notifiers] /\ run[r] \in Notifiers
    BY Types
  <1>1. run' = [run EXCEPT ![r].label = "reminded", ![r].todo = @ \ {i}, ![r].now = i]
    BY DEF Remind
  <1>2. [run[r] EXCEPT !.label = "reminded", !.todo = @ \ {i}, !.now = i] \in Notifiers
    BY <1>0 DEF Notifiers, RunLabels
  <1>3. run'[r] = [run[r] EXCEPT !.label = "reminded", !.todo = @ \ {i}, !.now = i] /\ Alone(r)
    BY <1>0, <1>1, <1>2 DEF Alone
  <1>4. /\ run'[r].label = "reminded" /\ run'[r].skip = run[r].skip /\ run'[r].todo = run[r].todo \ {i}
        /\ run'[r].now = i /\ run'[r].seen = run[r].seen /\ run'[r].alone = run[r].alone
    BY <1>0, <1>3 DEF Notifiers
  <1> QED
    BY <1>3, <1>4 DEF Remind, Reminds, IsDue

LEMMA MarkEffect ==
  ASSUME ReguaTypeOK, NEW r \in Runs, MarkStep(r)
  PROVE  /\ Alone(r) /\ run[r].label = "reminded"
         /\ run'[r].label = "looping" /\ run'[r].now = "none" /\ run'[r].todo = run[r].todo
         /\ run'[r].skip = run[r].skip /\ run'[r].seen = run[r].seen /\ run'[r].alone = run[r].alone
         /\ reminderStep' = [reminderStep EXCEPT ![run[r].now] = run[r].seen[run[r].now] + 1]
         /\ UNCHANGED <<Elsewhere, crashes, reminded, cached, notified>>
  <1>0. run \in [Runs -> Notifiers] /\ run[r] \in Notifiers
    BY Types
  <1>1. run' = [run EXCEPT ![r].label = "looping", ![r].now = "none"]
    BY DEF MarkStep, Mark
  <1>2. [run[r] EXCEPT !.label = "looping", !.now = "none"] \in Notifiers
    BY <1>0 DEF Notifiers, RunLabels
  <1>3. run'[r] = [run[r] EXCEPT !.label = "looping", !.now = "none"] /\ Alone(r)
    BY <1>0, <1>1, <1>2 DEF Alone
  <1>4. /\ run'[r].label = "looping" /\ run'[r].skip = run[r].skip /\ run'[r].todo = run[r].todo
        /\ run'[r].now = "none" /\ run'[r].seen = run[r].seen /\ run'[r].alone = run[r].alone
    BY <1>0, <1>3 DEF Notifiers
  <1> QED
    BY <1>3, <1>4 DEF MarkStep, Mark

LEMMA EndEffect ==
  ASSUME ReguaTypeOK, NEW r \in Runs, EndRun(r) \/ CrashRun(r)
  PROVE  /\ Alone(r) /\ run[r].label # "idle" /\ run'[r] = Rested
         /\ notified' = notified \cup {r}
         /\ EndRun(r) => run[r].label \in {"looping", "sending"} /\ crashes' = crashes
         /\ CrashRun(r) => crashes' = crashes + 1 /\ crashes < MaxCrashes
         /\ UNCHANGED <<Elsewhere, reminderStep, reminded, cached>>
  BY Types, RestedType DEF EndRun, CrashRun, Alone

LEMMA ListEffect ==
  ASSUME ReguaTypeOK, NEW r \in Runs, ReadList(r) \/ CacheList(r)
  PROVE  /\ Alone(r)
         /\ run[r].label \in {"listing", "caching"} /\ run'[r].label \in {"caching", "sending"}
         /\ run'[r].seen = run[r].seen /\ run'[r].alone = run[r].alone
         /\ \/ run'[r].todo = run[r].todo /\ cached' \in {run[r].todo, cached}
            \/ cached' = cached /\ run'[r].todo = cached /\ cached # NoList
            \/ cached' = cached /\ run'[r].todo \subseteq Pending
         /\ UNCHANGED <<Elsewhere, crashes, reminderStep, reminded, notified>>
  <1>0. run \in [Runs -> Notifiers] /\ run[r] \in Notifiers /\ Pending \subseteq Invoices /\ cached \in Lists
    BY Types, DunningAssumption DEF Pending
  <1>1. ASSUME NEW label \in RunLabels, NEW todo \in SUBSET Invoices,
               run' = [run EXCEPT ![r].label = label, ![r].todo = todo]
        PROVE  /\ Alone(r) /\ run'[r].label = label /\ run'[r].todo = todo
               /\ run'[r].seen = run[r].seen /\ run'[r].alone = run[r].alone
    <2>1. [run[r] EXCEPT !.label = label, !.todo = todo] \in Notifiers
      BY <1>0 DEF Notifiers
    <2>2. run'[r] = [run[r] EXCEPT !.label = label, !.todo = todo] /\ Alone(r)
      BY <1>0, <1>1, <2>1 DEF Alone
    <2> QED
      BY <1>0, <2>2 DEF Notifiers
  <1>2. CASE ReadList(r) /\ cached = NoList
    <2>1. PICK I \in Oldest(Pending) : run' = [run EXCEPT ![r].label = "caching", ![r].todo = I]
      BY <1>2 DEF ReadList
    <2>2. I \subseteq Pending /\ I \in SUBSET Invoices /\ "caching" \in RunLabels
      BY <1>0 DEF Oldest, RunLabels
    <2>3. /\ run[r].label = "listing" /\ cached' = cached
          /\ UNCHANGED <<Elsewhere, crashes, reminderStep, reminded, notified>>
      BY <1>2 DEF ReadList
    <2>4. Alone(r) /\ run'[r].label = "caching" /\ run'[r].todo = I
          /\ run'[r].seen = run[r].seen /\ run'[r].alone = run[r].alone
      BY <1>1, <2>1, <2>2
    <2> QED
      BY <2>2, <2>3, <2>4
  <1>3. CASE ReadList(r) /\ cached # NoList
    BY <1>0, <1>1, <1>3 DEF ReadList, RunLabels, Lists
  <1>4. CASE CacheList(r)
    <2>1. run' = [run EXCEPT ![r].label = "sending"]
      BY <1>4 DEF CacheList
    <2>2. [run[r] EXCEPT !.label = "sending"] \in Notifiers
      BY <1>0 DEF Notifiers, RunLabels
    <2>3. run'[r] = [run[r] EXCEPT !.label = "sending"] /\ Alone(r)
      BY <1>0, <2>1, <2>2 DEF Alone
    <2>4. /\ run'[r].label = "sending" /\ run'[r].todo = run[r].todo
          /\ run'[r].seen = run[r].seen /\ run'[r].alone = run[r].alone
      BY <1>0, <2>3 DEF Notifiers
    <2> QED
      BY <1>4, <2>3, <2>4 DEF CacheList
  <1> QED
    BY <1>2, <1>3, <1>4

(* A step of the recovery looks at the runs, and moves none.                   *)
LEMMA RecoveryEffect ==
  ASSUME ReguaTypeOK, RecoveryStep
  PROVE  /\ Step /\ run' \in [Runs -> Notifiers]
         /\ \A r \in Runs : /\ run'[r].label = run[r].label /\ run'[r].todo = run[r].todo
                            /\ run'[r].seen = run[r].seen /\ run'[r].skip = run[r].skip
                            /\ run'[r].now = run[r].now /\ run'[r].alone = (run[r].alone /\ ~busy')
                            /\ run[r] = Rested => run'[r] = Rested
         /\ UNCHANGED <<days, reminderStep, reminded, cached, notified, settledBefore, crashes>>
  <1>0. run \in [Runs -> Notifiers]
    BY Types
  <1>1. run' = [r \in Runs |-> [run[r] EXCEPT !.alone = @ /\ ~busy']]
    BY DEF RecoveryStep
  <1>2. ASSUME NEW r \in Runs
        PROVE  /\ [run[r] EXCEPT !.alone = @ /\ ~busy'] \in Notifiers
               /\ run'[r].label = run[r].label /\ run'[r].todo = run[r].todo
               /\ run'[r].seen = run[r].seen /\ run'[r].skip = run[r].skip
               /\ run'[r].now = run[r].now /\ run'[r].alone = (run[r].alone /\ ~busy')
               /\ run[r] = Rested => run'[r] = Rested
    <2>1. run[r] \in Notifiers /\ run'[r] = [run[r] EXCEPT !.alone = @ /\ ~busy']
      BY <1>0, <1>1
    <2>2. [run[r] EXCEPT !.alone = @ /\ ~busy'] \in Notifiers
      BY <2>1 DEF Notifiers
    <2>3. ASSUME run[r] = Rested PROVE run'[r] = Rested
      <3>1. run[r].alone = FALSE
        BY <2>3 DEF Rested
      <3>2. (run[r].alone /\ ~busy') = FALSE
        BY <3>1
      <3>3. run'[r] = [run[r] EXCEPT !.alone = FALSE]
        BY <2>1, <3>2
      <3>4. [run[r] EXCEPT !.alone = FALSE] = run[r]
        BY <2>1, <3>1 DEF Notifiers
      <3> QED
        BY <2>3, <3>3, <3>4
    <2> QED
      BY <2>1, <2>2, <2>3 DEF Notifiers
  <1> QED
    BY <1>1, <1>2 DEF RecoveryStep

(* The steps there are.                                                        *)
LEMMA StepsThereAre ==
  ASSUME [ReguaNext]_reguaVars
  PROVE  \/ \E r \in Runs : StartRun(r) \/ StartLegacyRun(r)
         \/ \E r \in Runs : FindActive(r)
         \/ \E r \in Runs, i \in Invoices : PassOver(r, i) \/ Send(r, i)
         \/ \E r \in Runs, i \in Invoices : Remind(r, i)
         \/ \E r \in Runs : MarkStep(r)
         \/ \E r \in Runs : EndRun(r) \/ CrashRun(r)
         \/ \E r \in Runs : ReadList(r) \/ CacheList(r)
         \/ RecoveryStep
         \/ NextReguaDay
         \/ cached' \in {cached, NoList} /\ UNCHANGED <<Elsewhere, crashes, reminderStep, reminded, run, notified>>
  BY DEF ReguaNext, RunStep, ClearCache, reguaVars, Elsewhere

(* The recovery moves invoices as their state machine allows, and leaves what  *)
(* was settled alone.                                                          *)
LEMMA RecoveryTypes ==
  ASSUME TypeOK, Step
  PROVE  /\ TypeOK' /\ pastDue' = pastDue
         /\ \A i \in Invoices : invoice[i] \in {"PAID", "RENEGOTIATED"} => invoice'[i] = invoice[i]
         /\ ~busy' => ~busy \/ case' = case
         /\ \A i \in Invoices : case'[i] = "active" => case[i] = "active" \/ busy'
  <1>1. CASE BeginSweep \/ EndSweep
    BY <1>1 DEF BeginSweep, EndSweep, TypeOK
  <1>2. ASSUME NEW i \in Invoices, OpenCase(i) \/ EndCase(i)
        PROVE  /\ TypeOK' /\ pastDue' = pastDue /\ invoice' = invoice /\ busy' = busy
               /\ OpenCase(i) => busy
               /\ EndCase(i) => \A j \in Invoices : case'[j] = "active" => case[j] = "active"
    BY <1>2 DEF OpenCase, EndCase, TypeOK
  <1>3. ASSUME NEW I \in SUBSET Invoices, MarkOverdue(I)
        PROVE  /\ TypeOK' /\ pastDue' = pastDue /\ busy' = busy /\ case' = case
               /\ \A i \in Invoices : invoice[i] \in {"PAID", "RENEGOTIATED"} => invoice'[i] = invoice[i]
    BY <1>3 DEF MarkOverdue, TypeOK, InvoiceStatuses
  <1>4. ASSUME NEW i \in Invoices, NEW new \in InvoiceStatuses, Move(i, new)
        PROVE  /\ TypeOK' /\ pastDue' = pastDue /\ busy' = busy /\ case' = case
               /\ \A j \in Invoices : invoice[j] \in {"PAID", "RENEGOTIATED"} => invoice'[j] = invoice[j]
    BY <1>4 DEF Move, TypeOK, CanTransitionInvoice, InvoiceTransitions
  <1>5. busy \in BOOLEAN /\ busy' \in BOOLEAN
    BY <1>1, <1>2, <1>3, <1>4 DEF Step, TypeOK
  <1> QED
    BY <1>1, <1>2, <1>3, <1>4, <1>5 DEF Step, BeginSweep, EndSweep

(* A day makes every invoice older, and those past due are those the recovery  *)
(* is told of.                                                                 *)
LEMMA DayEffect ==
  ASSUME ReguaTypeOK, NextReguaDay
  PROVE  /\ TypeOK' /\ run' = run /\ \A r \in Runs : run[r].label = "idle"
         /\ \A i \in Invoices : days'[i] \in FirstDay[i] .. LastDay
         /\ pastDue' = {i \in Invoices : days'[i] >= 0}
         /\ cached' = NoList /\ notified' = {}
         /\ settledBefore' = {i \in Invoices : invoice[i] \in {"PAID", "RENEGOTIATED"}}
         /\ UNCHANGED <<invoice, case, busy, reminderStep, reminded, crashes>>
  <1>1. /\ \A i \in Invoices : days'[i] = IF days[i] < LastDay THEN days[i] + 1 ELSE days[i]
        /\ pastDue' = pastDue \cup {i \in Invoices : days'[i] >= 0}
        /\ UNCHANGED <<invoice, case, busy>>
    BY DEF NextReguaDay, NextDay
  <1>2. /\ \A i \in Invoices : days[i] \in FirstDay[i] .. LastDay /\ FirstDay[i] \in Int
        /\ pastDue = {i \in Invoices : days[i] >= 0} /\ LastDay \in Nat
    BY Numbers, DunningAssumption DEF ReguaTypeOK
  <1>3. \A i \in Invoices : days'[i] \in FirstDay[i] .. LastDay /\ (days[i] >= 0 => days'[i] >= 0)
    BY <1>1, <1>2
  <1>4. pastDue' = {i \in Invoices : days'[i] >= 0}
    BY <1>1, <1>2, <1>3
  <1>5. TypeOK'
    BY <1>1, <1>4 DEF ReguaTypeOK, TypeOK
  <1> QED
    BY <1>1, <1>3, <1>4, <1>5 DEF NextReguaDay, AfterADay

(* The types hold after every step.                                            *)
LEMMA TypeStep == ReguaIInv /\ [ReguaNext]_reguaVars => ReguaTypeOK'
  <1> SUFFICES ASSUME ReguaIInv, [ReguaNext]_reguaVars PROVE ReguaTypeOK'
    OBVIOUS
  <1>0. ReguaTypeOK
    BY DEF ReguaIInv
  <1>1. ASSUME UNCHANGED Elsewhere, run' \in [Runs -> Notifiers],
               reminderStep' \in [Invoices -> 0 .. Len(Offsets)],
               reminded' \in [Invoices -> [ReguaSteps -> Nat]], cached' \in Lists,
               notified' \subseteq Runs, crashes' \in 0 .. MaxCrashes
        PROVE  ReguaTypeOK'
    BY <1>0, <1>1 DEF ReguaTypeOK, TypeOK, Elsewhere, vars
  <1>2. ASSUME NEW r \in Runs, StartRun(r) \/ StartLegacyRun(r) PROVE ReguaTypeOK'
    BY <1>0, <1>1, <1>2, StartEffect, Types DEF Alone
  <1>3. ASSUME NEW r \in Runs, FindActive(r) PROVE ReguaTypeOK'
    BY <1>0, <1>1, <1>3, FindEffect, Types DEF Alone
  <1>4. ASSUME NEW r \in Runs, NEW i \in Invoices, PassOver(r, i) \/ Send(r, i) PROVE ReguaTypeOK'
    BY <1>0, <1>1, <1>4, PassEffect, Types DEF Alone
  <1>5. ASSUME NEW r \in Runs, NEW i \in Invoices, Remind(r, i) PROVE ReguaTypeOK'
    <2>1. reminded' \in [Invoices -> [ReguaSteps -> Nat]]
      <3>1. PICK k \in ReguaSteps : reminded' = [reminded EXCEPT ![i][k] = @ + 1]
        BY <1>0, <1>5, RemindEffect
      <3>2. [reminded[i] EXCEPT ![k] = @ + 1] \in [ReguaSteps -> Nat]
        BY <1>0, Types
      <3> QED
        BY <1>0, <3>1, <3>2, Types
    <2> QED
      BY <1>0, <1>1, <1>5, <2>1, RemindEffect, Types DEF Alone
  <1>6. ASSUME NEW r \in Runs, MarkStep(r) PROVE ReguaTypeOK'
    <2>1. run[r].now \in Invoices /\ run[r].seen[run[r].now] + 1 \in ReguaSteps
      BY <1>0, <1>6, MarkEffect DEF ReguaIInv, ReadsWerePublished
    <2>2. reminderStep' \in [Invoices -> 0 .. Len(Offsets)]
      <3>1. reminderStep' = [reminderStep EXCEPT ![run[r].now] = run[r].seen[run[r].now] + 1]
        BY <1>0, <1>6, MarkEffect
      <3>2. run[r].seen[run[r].now] + 1 \in 0 .. Len(Offsets)
        BY <2>1, Numbers DEF ReguaSteps
      <3> QED
        BY <1>0, <2>1, <3>1, <3>2, Types
    <2> QED
      BY <1>0, <1>1, <1>6, <2>2, MarkEffect, Types DEF Alone
  <1>7. ASSUME NEW r \in Runs, EndRun(r) \/ CrashRun(r) PROVE ReguaTypeOK'
    <2>1. crashes' \in 0 .. MaxCrashes
      BY <1>0, <1>7, EndEffect, Types, DunningAssumption
    <2> QED
      BY <1>0, <1>1, <1>7, <2>1, EndEffect, Types DEF Alone
  <1>8. ASSUME NEW r \in Runs, ReadList(r) \/ CacheList(r) PROVE ReguaTypeOK'
    <2>1. cached' \in Lists
      BY <1>0, <1>8, ListEffect, Types DEF Lists
    <2> QED
      BY <1>0, <1>1, <1>8, <2>1, ListEffect, Types DEF Alone
  <1>9. CASE RecoveryStep
    BY <1>0, <1>9, RecoveryEffect, RecoveryTypes DEF ReguaTypeOK
  <1>10. CASE NextReguaDay
    BY <1>0, <1>10, DayEffect DEF ReguaTypeOK, Lists
  <1>11. CASE cached' \in {cached, NoList} /\ UNCHANGED <<Elsewhere, crashes, reminderStep, reminded, run, notified>>
    BY <1>0, <1>1, <1>11, Types DEF Lists
  <1> QED
    BY <1>2, <1>3, <1>4, <1>5, <1>6, <1>7, <1>8, <1>9, <1>10, <1>11, StepsThereAre

(* A message that was sent stays sent.                                         *)
LEMMA RemindedGrows ==
  ASSUME ReguaIInv, [ReguaNext]_reguaVars, NEW i \in Invoices, NEW k \in ReguaSteps
  PROVE  /\ reminded[i][k] >= 1 => reminded'[i][k] >= 1
         /\ reminded'[i][k] \in Nat
  <1>0. ReguaTypeOK /\ reminded \in [Invoices -> [ReguaSteps -> Nat]]
    BY Types DEF ReguaIInv
  <1>1. ASSUME NEW r \in Runs, NEW j \in Invoices, Remind(r, j)
        PROVE  reminded'[i][k] = reminded[i][k] \/ reminded'[i][k] = reminded[i][k] + 1
    <2>1. PICK l \in ReguaSteps : reminded' = [reminded EXCEPT ![j][l] = @ + 1]
      BY <1>0, <1>1, RemindEffect
    <2> QED
      BY <1>0, <2>1
  <1>2. reminded' = reminded \/ \E r \in Runs, j \in Invoices : Remind(r, j)
    BY <1>0, StepsThereAre, StartEffect, FindEffect, PassEffect, MarkEffect, EndEffect, ListEffect,
       RecoveryEffect, DayEffect
  <1> QED
    BY <1>0, <1>1, <1>2

(* What a run has read, and what it is about to mark, after a step.            *)
ReadWasPublished(r) ==
  /\ \A i \in Invoices, k \in ReguaSteps : k <= run[r].seen[i] => reminded[i][k] >= 1
  /\ \A i \in Invoices : run[r].seen[i] <= Len(Offsets)
  /\ Running(r) => r \notin notified
  /\ ~Running(r) => run[r] = Rested
  /\ run[r].label = "reminded" =>
       /\ run[r].now \in Invoices \ run[r].todo
       /\ run[r].seen[run[r].now] + 1 \in ReguaSteps
       /\ reminded[run[r].now][run[r].seen[run[r].now] + 1] >= 1

LEMMA ReadsWerePublishedStep == ReguaIInv /\ [ReguaNext]_reguaVars => ReadsWerePublished'
  <1> SUFFICES ASSUME ReguaIInv, [ReguaNext]_reguaVars PROVE ReadsWerePublished'
    OBVIOUS
  <1>0. /\ ReguaTypeOK /\ \A r \in Runs : ReadWasPublished(r)
        /\ \A i \in Invoices, k \in ReguaSteps : k <= reminderStep[i] => reminded[i][k] >= 1
        /\ run \in [Runs -> Notifiers] /\ reminderStep \in [Invoices -> 0 .. Len(Offsets)] /\ Len(Offsets) \in Nat
    BY Types, Numbers DEF ReguaIInv, ReadsWerePublished, ReadWasPublished
  <1> DEFINE Marked == \A i \in Invoices, k \in ReguaSteps : k <= reminderStep'[i] => reminded'[i][k] >= 1
  <1>1. ASSUME UNCHANGED reminderStep PROVE Marked
    BY <1>0, <1>1, RemindedGrows
  <1>2. ASSUME NEW q \in Runs, run'[q].seen = run[q].seen, run'[q].label = run[q].label,
               run'[q].todo = run[q].todo, run'[q].now = run[q].now, run[q] = Rested => run'[q] = Rested,
               Running(q) => q \notin notified'
        PROVE  ReadWasPublished(q)'
    BY <1>0, <1>2, RemindedGrows DEF ReadWasPublished, Running
  <1>3. ASSUME NEW q \in Runs, run'[q] = Rested PROVE ReadWasPublished(q)'
    <2>1. \A i \in Invoices : run'[q].seen[i] = 0
      BY <1>3 DEF Rested
    <2>2. run'[q].label = "idle"
      BY <1>3 DEF Rested
    <2> QED
      BY <1>0, <1>3, <2>1, <2>2 DEF ReadWasPublished, Running, ReguaSteps
  <1>4. ASSUME NEW r \in Runs, Alone(r), ReadWasPublished(r)', Marked,
               notified' = notified \/ notified' = notified \cup {r}
        PROVE  ReadsWerePublished'
    <2>1. ASSUME NEW q \in Runs \ {r} PROVE ReadWasPublished(q)'
      <3>1. run'[q] = run[q] /\ (Running(q) => q \notin notified')
        BY <1>0, <1>4, <2>1 DEF Alone, ReadWasPublished
      <3> QED
        BY <1>2, <3>1
    <2>2. \A q \in Runs : ReadWasPublished(q)'
      BY <1>4, <2>1
    <2> QED
      BY <1>4, <2>2 DEF ReadsWerePublished, ReadWasPublished
  <1>5. ASSUME NEW r \in Runs, run'[r].seen = run[r].seen, run'[r].label \notin {"idle", "reminded"},
               Running(r), notified' = notified
        PROVE  ReadWasPublished(r)'
    BY <1>0, <1>5, RemindedGrows DEF ReadWasPublished, Running
  <1>6. ASSUME NEW r \in Runs, StartRun(r) \/ StartLegacyRun(r) PROVE ReadsWerePublished'
    <2>1. /\ Alone(r) /\ r \notin notified /\ run'[r].label \in {"candidates", "listing"}
          /\ run'[r].seen = reminderStep /\ notified' = notified /\ UNCHANGED reminderStep
      BY <1>0, <1>6, StartEffect
    <2>2. ReadWasPublished(r)'
      BY <1>0, <2>1, RemindedGrows DEF ReadWasPublished, Running
    <2> QED
      BY <1>1, <1>4, <2>1, <2>2
  <1>7. ASSUME NEW r \in Runs, FindActive(r) PROVE ReadsWerePublished'
    BY <1>0, <1>1, <1>4, <1>5, <1>7, FindEffect DEF Running
  <1>8. ASSUME NEW r \in Runs, NEW i \in Invoices, PassOver(r, i) \/ Send(r, i) PROVE ReadsWerePublished'
    BY <1>0, <1>1, <1>4, <1>5, <1>8, PassEffect DEF Running
  <1>9. ASSUME NEW r \in Runs, NEW i \in Invoices, Remind(r, i) PROVE ReadsWerePublished'
    <2>1. /\ Alone(r) /\ Running(r) /\ run'[r].label = "reminded" /\ run'[r].todo = run[r].todo \ {i}
          /\ run'[r].now = i /\ run'[r].seen = run[r].seen /\ notified' = notified /\ UNCHANGED reminderStep
          /\ run[r].seen[i] + 1 \in ReguaSteps
      BY <1>0, <1>9, RemindEffect DEF Running
    <2>2. reminded'[i][run[r].seen[i] + 1] >= 1
      <3>1. PICK k \in ReguaSteps : k = run[r].seen[i] + 1 /\ reminded' = [reminded EXCEPT ![i][k] = @ + 1]
        BY <1>0, <1>9, RemindEffect
      <3> QED
        BY <1>0, <3>1, Types
    <2>3. ReadWasPublished(r)'
      BY <1>0, <2>1, <2>2, RemindedGrows DEF ReadWasPublished, Running
    <2> QED
      BY <1>1, <1>4, <2>1, <2>3
  <1>10. ASSUME NEW r \in Runs, MarkStep(r) PROVE ReadsWerePublished'
    <2>1. /\ Alone(r) /\ Running(r) /\ run[r].label = "reminded" /\ run'[r].label = "looping"
          /\ run'[r].seen = run[r].seen /\ notified' = notified /\ reminded' = reminded
          /\ reminderStep' = [reminderStep EXCEPT ![run[r].now] = run[r].seen[run[r].now] + 1]
      BY <1>0, <1>10, MarkEffect DEF Running
    <2>2. PICK i \in Invoices : i = run[r].now /\ run[r].seen[i] + 1 \in ReguaSteps
                               /\ reminded[i][run[r].seen[i] + 1] >= 1
      BY <1>0, <2>1 DEF ReadWasPublished
    <2>3. \A k \in ReguaSteps : k <= run[r].seen[i] + 1 => reminded[i][k] >= 1
      BY <1>0, <2>2, Types DEF ReadWasPublished, ReguaSteps
    <2>4. Marked
      BY <1>0, <2>1, <2>2, <2>3
    <2>5. ReadWasPublished(r)'
      BY <1>5, <2>1
    <2> QED
      BY <1>4, <2>1, <2>4, <2>5
  <1>11. ASSUME NEW r \in Runs, EndRun(r) \/ CrashRun(r) PROVE ReadsWerePublished'
    BY <1>0, <1>1, <1>3, <1>4, <1>11, EndEffect
  <1>12. ASSUME NEW r \in Runs, ReadList(r) \/ CacheList(r) PROVE ReadsWerePublished'
    BY <1>0, <1>1, <1>4, <1>5, <1>12, ListEffect DEF Running
  <1>13. CASE \/ RecoveryStep
              \/ NextReguaDay
              \/ UNCHANGED <<Elsewhere, crashes, reminderStep, reminded, run, notified>>
    <2>1. Marked
      BY <1>0, <1>1, <1>13, RecoveryEffect, DayEffect
    <2>2. \A q \in Runs : ReadWasPublished(q)'
      <3> SUFFICES ASSUME NEW q \in Runs PROVE ReadWasPublished(q)'
        OBVIOUS
      <3>1. Running(q) => q \notin notified
        BY <1>0 DEF ReadWasPublished
      <3> QED
        BY <1>0, <1>2, <1>13, <3>1, RecoveryEffect, DayEffect
    <2> QED
      BY <2>1, <2>2 DEF ReadsWerePublished, ReadWasPublished
  <1> QED
    BY <1>6, <1>7, <1>8, <1>9, <1>10, <1>11, <1>12, <1>13, StepsThereAre

(* A run is done with one invoice before it turns to the next.                 *)
LEMMA TellsOfNoneStep == ReguaIInv /\ [ReguaNext]_reguaVars => TellsOfNone'
  <1> SUFFICES ASSUME ReguaIInv, [ReguaNext]_reguaVars PROVE TellsOfNone'
    OBVIOUS
  <1>0. ReguaTypeOK /\ \A r \in Runs : run[r].label \in {"candidates", "looping"} => run[r].now = "none"
    BY DEF ReguaIInv, TellsOfNone
  <1>1. ASSUME NEW r \in Runs, Alone(r), run'[r].label \in {"candidates", "looping"} => run'[r].now = "none"
        PROVE  TellsOfNone'
    BY <1>0, <1>1 DEF Alone, TellsOfNone
  <1>2. ASSUME NEW r \in Runs, StartRun(r) \/ StartLegacyRun(r) PROVE TellsOfNone'
    BY <1>0, <1>1, <1>2, StartEffect
  <1>3. ASSUME NEW r \in Runs, FindActive(r) PROVE TellsOfNone'
    BY <1>0, <1>1, <1>3, FindEffect
  <1>4. ASSUME NEW r \in Runs, NEW i \in Invoices, PassOver(r, i) \/ Send(r, i) PROVE TellsOfNone'
    BY <1>0, <1>1, <1>4, PassEffect
  <1>5. ASSUME NEW r \in Runs, NEW i \in Invoices, Remind(r, i) PROVE TellsOfNone'
    BY <1>0, <1>1, <1>5, RemindEffect
  <1>6. ASSUME NEW r \in Runs, MarkStep(r) PROVE TellsOfNone'
    BY <1>0, <1>1, <1>6, MarkEffect
  <1>7. ASSUME NEW r \in Runs, EndRun(r) \/ CrashRun(r) PROVE TellsOfNone'
    BY <1>0, <1>1, <1>7, EndEffect DEF Rested
  <1>8. ASSUME NEW r \in Runs, ReadList(r) \/ CacheList(r) PROVE TellsOfNone'
    BY <1>0, <1>1, <1>8, ListEffect
  <1>9. CASE RecoveryStep
    BY <1>0, <1>9, RecoveryEffect DEF TellsOfNone
  <1>10. CASE NextReguaDay \/ run' = run
    BY <1>0, <1>10, DayEffect DEF TellsOfNone
  <1> QED
    BY <1>2, <1>3, <1>4, <1>5, <1>6, <1>7, <1>8, <1>9, <1>10, StepsThereAre

(* Cases are opened by sweeps alone, and a sweep that begins is noticed.       *)
LEMMA CasesAreKnownStep == ReguaIInv /\ [ReguaNext]_reguaVars => CasesAreKnown'
  <1> SUFFICES ASSUME ReguaIInv, [ReguaNext]_reguaVars PROVE CasesAreKnown'
    OBVIOUS
  <1>0. ReguaTypeOK /\ run \in [Runs -> Notifiers] /\ \A r \in Runs : run[r].alone \in BOOLEAN
    BY Types DEF ReguaIInv
  <1> DEFINE Known(r) == run[r].alone =>
               /\ ~busy
               /\ run[r].label \in {"looping", "reminded"} =>
                    \A i \in Invoices : case[i] = "active" => i \in run[r].skip
  <1>1. \A r \in Runs : Known(r)
    BY DEF ReguaIInv, CasesAreKnown
  <1>2. ASSUME NEW r \in Runs, Alone(r), Known(r)', UNCHANGED Elsewhere PROVE CasesAreKnown'
    BY <1>1, <1>2 DEF Alone, CasesAreKnown, Elsewhere, vars
  <1>3. ASSUME NEW r \in Runs, StartRun(r) \/ StartLegacyRun(r) PROVE CasesAreKnown'
    <2>1. Known(r)'
      BY <1>0, <1>3, StartEffect DEF Elsewhere, vars
    <2> QED
      BY <1>0, <1>2, <1>3, <2>1, StartEffect
  <1>4. ASSUME NEW r \in Runs, FindActive(r) PROVE CasesAreKnown'
    <2>1. Known(r)'
      BY <1>0, <1>1, <1>4, FindEffect DEF Elsewhere, vars
    <2> QED
      BY <1>0, <1>2, <1>4, <2>1, FindEffect
  <1>5. ASSUME NEW r \in Runs, NEW i \in Invoices, PassOver(r, i) \/ Send(r, i) \/ Remind(r, i) PROVE CasesAreKnown'
    <2>1. /\ Alone(r) /\ UNCHANGED Elsewhere /\ run'[r].alone = run[r].alone /\ run'[r].skip = run[r].skip
          /\ run'[r].label = run[r].label \/ run[r].label = "looping"
      BY <1>0, <1>5, PassEffect, RemindEffect
    <2> QED
      BY <1>1, <1>2, <2>1 DEF Elsewhere, vars
  <1>6. ASSUME NEW r \in Runs, MarkStep(r) PROVE CasesAreKnown'
    <2>1. Known(r)'
      BY <1>0, <1>1, <1>6, MarkEffect DEF Elsewhere, vars
    <2> QED
      BY <1>0, <1>2, <1>6, <2>1, MarkEffect
  <1>7. ASSUME NEW r \in Runs, EndRun(r) \/ CrashRun(r) PROVE CasesAreKnown'
    <2>1. Known(r)'
      BY <1>0, <1>7, EndEffect DEF Rested
    <2> QED
      BY <1>0, <1>2, <1>7, <2>1, EndEffect
  <1>8. ASSUME NEW r \in Runs, ReadList(r) \/ CacheList(r) PROVE CasesAreKnown'
    <2>1. Known(r)'
      BY <1>0, <1>1, <1>8, ListEffect DEF Elsewhere, vars
    <2> QED
      BY <1>0, <1>2, <1>8, <2>1, ListEffect
  <1>9. CASE RecoveryStep
    <2>1. TypeOK
      BY <1>0 DEF ReguaTypeOK
    <2> QED
      BY <1>0, <1>1, <1>9, <2>1, RecoveryEffect, RecoveryTypes DEF CasesAreKnown
  <1>10. CASE NextReguaDay
    BY <1>0, <1>1, <1>10, DayEffect DEF CasesAreKnown
  <1>11. CASE UNCHANGED <<Elsewhere, run>>
    BY <1>1, <1>11 DEF CasesAreKnown, Elsewhere, vars
  <1> QED
    BY <1>3, <1>4, <1>5, <1>6, <1>7, <1>8, <1>9, <1>10, <1>11, StepsThereAre

(* Lists are of open invoices when they are made, and do not outlive the day.  *)
LEMMA SettledIsUnlistedStep == ReguaIInv /\ [ReguaNext]_reguaVars => SettledIsUnlisted'
  <1> SUFFICES ASSUME ReguaIInv, [ReguaNext]_reguaVars PROVE SettledIsUnlisted'
    OBVIOUS
  <1>0. /\ ReguaTypeOK /\ run \in [Runs -> Notifiers] /\ settledBefore \subseteq Invoices
        /\ SettledIsUnlisted /\ \A r \in Runs : run[r].todo \in SUBSET Invoices
    BY Types DEF ReguaIInv
  <1>1. ASSUME NEW r \in Runs, Alone(r), run'[r].todo \cap settledBefore = {}, UNCHANGED Elsewhere,
               cached' = cached \/ cached' \cap settledBefore = {}
        PROVE  SettledIsUnlisted'
    BY <1>0, <1>1 DEF Alone, SettledIsUnlisted, Elsewhere, vars
  <1>2. \A i \in settledBefore : ~Open(i) /\ i \notin Pending
    BY <1>0 DEF SettledIsUnlisted, Open, Pending
  <1>3. ASSUME NEW r \in Runs, StartRun(r) \/ StartLegacyRun(r) PROVE SettledIsUnlisted'
    BY <1>0, <1>1, <1>2, <1>3, StartEffect
  <1>4. ASSUME NEW r \in Runs, FindActive(r) \/ MarkStep(r) PROVE SettledIsUnlisted'
    BY <1>0, <1>1, <1>4, FindEffect, MarkEffect DEF SettledIsUnlisted
  <1>5. ASSUME NEW r \in Runs, NEW i \in Invoices, PassOver(r, i) \/ Send(r, i) \/ Remind(r, i)
        PROVE  SettledIsUnlisted'
    <2>1. /\ Alone(r) /\ UNCHANGED Elsewhere /\ run'[r].todo = run[r].todo \ {i} /\ cached' = cached
      BY <1>0, <1>5, PassEffect, RemindEffect
    <2>2. run'[r].todo \cap settledBefore = {}
      BY <1>0, <2>1 DEF SettledIsUnlisted
    <2> QED
      BY <1>1, <2>1, <2>2
  <1>6. ASSUME NEW r \in Runs, EndRun(r) \/ CrashRun(r) PROVE SettledIsUnlisted'
    BY <1>0, <1>1, <1>6, EndEffect DEF Rested
  <1>7. ASSUME NEW r \in Runs, ReadList(r) \/ CacheList(r) PROVE SettledIsUnlisted'
    <2>1. \/ run'[r].todo = run[r].todo /\ cached' \in {run[r].todo, cached}
          \/ cached' = cached /\ run'[r].todo = cached /\ cached # NoList
          \/ cached' = cached /\ run'[r].todo \subseteq Pending
      BY <1>0, <1>7, ListEffect
    <2>2. /\ run'[r].todo \cap settledBefore = {}
          /\ cached' = cached \/ cached' \cap settledBefore = {}
      BY <1>0, <1>2, <2>1 DEF SettledIsUnlisted
    <2> QED
      BY <1>0, <1>1, <1>7, <2>2, ListEffect
  <1>8. CASE RecoveryStep
    <2>1. TypeOK
      BY <1>0 DEF ReguaTypeOK
    <2> QED
      BY <1>0, <1>8, <2>1, RecoveryEffect, RecoveryTypes DEF SettledIsUnlisted
  <1>9. CASE NextReguaDay
    <2>1. \A r \in Runs : run'[r].todo = {}
      BY <1>0, <1>9, DayEffect DEF ReguaIInv, ReadsWerePublished, Running, Rested
    <2> QED
      BY <1>0, <1>9, <2>1, DayEffect DEF SettledIsUnlisted
  <1>10. CASE cached' \in {cached, NoList} /\ UNCHANGED <<Elsewhere, run>>
    BY <1>0, <1>10 DEF SettledIsUnlisted, Elsewhere, vars
  <1> QED
    BY <1>3, <1>4, <1>5, <1>6, <1>7, <1>8, <1>9, <1>10, StepsThereAre

-----------------------------------------------------------------------------
(* The account of the messages.                                                *)

(* What Account says, of numbers: s is marked, n messages of step k were sent, *)
(* c runs have died, d are done, f are about to mark k and q another step; b   *)
(* and e were allowed before today, and before the first k - 1 steps.          *)
Booked(b, e, m, k, s, n, c, d, f, q) ==
  /\ k <= m => n <= Cardinality(Runs) + e + c
  /\ k > m => n <= b + c + d
  /\ k > m /\ s = m => n <= b + c + f
  /\ k > m + 1 /\ s > m => n + 1 + q <= b + c + d
  /\ k > m + 1 /\ s \in m + 1 .. k - 1 => n <= b + c + f \/ n + 2 + q <= b + c + d

LEMMA AccountIsBooked ==
  ASSUME NEW i, NEW m \in Nat, NEW k \in Nat \ {0}, crashes \in Nat
  PROVE  /\ Account(i, m, k) <=>
              Booked(m * SetBack, (k - 1) * SetBack, m, k, reminderStep[i], reminded[i][k], crashes,
                     Cardinality(Done(i)), Cardinality(Marking(i, k)), Cardinality(MarkingOthers(i, k)))
         /\ m * SetBack \in Nat /\ (k - 1) * SetBack \in Nat
  <1>1. m * SetBack \in Nat /\ (k - 1) * SetBack \in Nat
    BY Numbers
  <1> QED
    BY <1>1 DEF Account, Booked

LEMMA AccountIsBookedAfter ==
  ASSUME NEW i, NEW m \in Nat, NEW k \in Nat \ {0}, crashes' \in Nat
  PROVE  Account(i, m, k)' <=>
           Booked(m * SetBack, (k - 1) * SetBack, m, k, reminderStep'[i], reminded'[i][k], crashes',
                  Cardinality(Done(i)'), Cardinality(Marking(i, k)'), Cardinality(MarkingOthers(i, k)'))
  <1>1. m * SetBack \in Nat /\ (k - 1) * SetBack \in Nat
    BY Numbers
  <1> QED
    BY <1>1 DEF Account, Booked

(* A run gets through with the invoice, and nothing else.                      *)
LEMMA BookedMore ==
  ASSUME NEW b \in Nat, NEW e \in Nat, NEW m \in Nat, NEW k \in Nat, NEW s \in Nat, NEW n \in Nat, NEW c \in Nat,
         NEW d \in Nat, NEW f \in Nat, NEW q \in Nat, NEW d2 \in Nat, Booked(b, e, m, k, s, n, c, d, f, q), d <= d2
  PROVE  Booked(b, e, m, k, s, n, c, d2, f, q)
  BY Numbers DEF Booked

(* A run dies, and perhaps it was about to mark.                               *)
LEMMA BookedCrash ==
  ASSUME NEW b \in Nat, NEW e \in Nat, NEW m \in Nat, NEW k \in Nat, NEW s \in Nat, NEW n \in Nat, NEW c \in Nat,
         NEW d \in Nat, NEW f \in Nat, NEW q \in Nat, NEW d2 \in Nat, NEW f2 \in Nat, NEW q2 \in Nat,
         Booked(b, e, m, k, s, n, c, d, f, q), d <= d2, f <= f2 + 1, q2 <= q
  PROVE  Booked(b, e, m, k, s, n, c + 1, d2, f2, q2)
  BY Numbers DEF Booked

(* A run publishes k, or another step.                                         *)
LEMMA BookedRemind ==
  ASSUME NEW b \in Nat, NEW e \in Nat, NEW m \in Nat, NEW k \in Nat, NEW s \in Nat, NEW n \in Nat, NEW c \in Nat,
         NEW d \in Nat, NEW f \in Nat, NEW q \in Nat, Booked(b, e, m, k, s, n, c, d, f, q)
  PROVE  /\ k > m => Booked(b, e, m, k, s, n + 1, c, d + 1, f + 1, q)
         /\ Booked(b, e, m, k, s, n, c, d + 1, f, q + 1)
  BY Numbers DEF Booked

(* A run marks k, or another step.                                             *)
LEMMA BookedMark ==
  ASSUME NEW b \in Nat, NEW e \in Nat, NEW m \in Nat, NEW k \in Nat, NEW s \in Nat, NEW n \in Nat, NEW c \in Nat,
         NEW d \in Nat, NEW f \in Nat, NEW q \in Nat, NEW l \in Nat, Booked(b, e, m, k, s, n, c, d, f, q),
         s >= m, l > m
  PROVE  /\ l = k /\ f >= 1 /\ (s = m => k = m + 1) => Booked(b, e, m, k, l, n, c, d, f - 1, q)
         /\ l # k /\ q >= 1 /\ q <= d /\ (s = m /\ k > m + 1 => f = 0) =>
              Booked(b, e, m, k, l, n, c, d, f, q - 1)
  BY Numbers DEF Booked

(* A day ends, with no run about to mark; the next begins with s marked.       *)
LEMMA BookedDay ==
  ASSUME NEW b \in Nat, NEW e \in Nat, NEW m \in Nat, NEW k \in Nat, NEW s \in Nat, NEW n \in Nat, NEW c \in Nat,
         NEW d \in Nat, NEW b2 \in Nat, Booked(b, e, m, k, s, n, c, d, 0, 0), d <= Cardinality(Runs),
         s >= m, b <= b2, s > m => b + SetBack <= b2, k > m => b <= e
  PROVE  Booked(b2, e, s, k, s, n, c, 0, 0, 0)
  <1>1. Cardinality(Runs) <= SetBack + 2
    BY Numbers DEF SetBack
  <1> QED
    BY <1>1, Numbers DEF Booked

(* More steps allow no fewer messages.                                         *)
LEMMA Multiples ==
  ASSUME NEW a \in Nat, NEW b \in Nat, a <= b
  PROVE  /\ a * SetBack \in Nat /\ b * SetBack \in Nat
         /\ a * SetBack <= b * SetBack /\ (a < b => a * SetBack + SetBack <= b * SetBack)
  <1>1. SetBack \in Nat
    BY Numbers
  <1>2. (b - a) * SetBack \in Nat /\ b * SetBack = a * SetBack + (b - a) * SetBack
    BY <1>1
  <1>3. ASSUME a < b PROVE (b - a) * SetBack = (b - a - 1) * SetBack + SetBack /\ (b - a - 1) * SetBack \in Nat
    BY <1>1, <1>3
  <1>4. a * SetBack \in Nat /\ b * SetBack \in Nat
    BY <1>1
  <1> QED
    BY <1>1, <1>2, <1>3, <1>4

(* The sets the account counts are finite, and those about to mark are done.   *)
LEMMA Counts ==
  ASSUME ReguaIInv, NEW i \in Invoices, NEW k
  PROVE  /\ IsFiniteSet(Done(i)) /\ Cardinality(Done(i)) \in Nat /\ Cardinality(Done(i)) <= Cardinality(Runs)
         /\ IsFiniteSet(Marking(i, k)) /\ Cardinality(Marking(i, k)) \in Nat
         /\ IsFiniteSet(MarkingOthers(i, k)) /\ Cardinality(MarkingOthers(i, k)) \in Nat
         /\ Cardinality(MarkingOthers(i, k)) <= Cardinality(Done(i))
  <1>1. IsFiniteSet(Runs)
    BY DunningAssumption
  <1>2. Done(i) \in SUBSET Runs
    BY DEF Done
  <1>3. MarkingOthers(i, k) \in SUBSET Done(i) /\ Marking(i, k) \in SUBSET Done(i)
    BY DEF MarkingOthers, Marking, Unmarked, Done, ReguaIInv, ReadsWerePublished
  <1>4. IsFiniteSet(Done(i)) /\ Cardinality(Done(i)) <= Cardinality(Runs)
    BY <1>1, <1>2, FS_Subset
  <1>5. /\ IsFiniteSet(MarkingOthers(i, k)) /\ Cardinality(MarkingOthers(i, k)) <= Cardinality(Done(i))
        /\ IsFiniteSet(Marking(i, k))
    BY <1>3, <1>4, FS_Subset
  <1> QED
    BY <1>4, <1>5, FS_CardinalityType

(* The same sets after a step.                                                 *)
LEMMA CountsAfter ==
  ASSUME NEW i \in Invoices, NEW k
  PROVE  /\ IsFiniteSet(Done(i)') /\ Cardinality(Done(i)') \in Nat
         /\ IsFiniteSet(Marking(i, k)') /\ Cardinality(Marking(i, k)') \in Nat
         /\ IsFiniteSet(MarkingOthers(i, k)') /\ Cardinality(MarkingOthers(i, k)') \in Nat
  <1>1. Done(i)' \in SUBSET Runs /\ Marking(i, k)' \in SUBSET Runs /\ MarkingOthers(i, k)' \in SUBSET Runs
    BY DEF Done, MarkingOthers, Marking, Unmarked
  <1>2. IsFiniteSet(Done(i)') /\ IsFiniteSet(Marking(i, k)') /\ IsFiniteSet(MarkingOthers(i, k)')
    BY <1>1, DunningAssumption, FS_Subset
  <1> QED
    BY <1>2, FS_CardinalityType

(* The numbers of an account are numbers.                                      *)
LEMMA AccountTypes ==
  ASSUME ReguaIInv, NEW i \in Invoices, NEW k \in ReguaSteps
  PROVE  /\ k \in Nat \ {0} /\ reminderStep[i] \in Nat /\ reminderStep[i] \in 0 .. Len(Offsets)
         /\ reminded[i][k] \in Nat /\ crashes \in Nat
         /\ \A r \in Runs : run[r].seen[i] \in Nat
  BY Types, Numbers DEF ReguaIInv, ReguaSteps

(* Sets that differ in one element at most, and both lack it.                  *)
LEMMA NoOtherElement ==
  ASSUME NEW S, NEW T, NEW x, S \ {x} = T \ {x}, x \notin S, x \notin T
  PROVE  S = T
  OBVIOUS

(* A step of run r counts for r alone.                                         *)
LEMMA OneRunMoves ==
  ASSUME NEW r \in Runs, NEW i \in Invoices, NEW k, Alone(r), notified' = notified \/ notified' = notified \cup {r}
  PROVE  /\ Done(i)' \ {r} = Done(i) \ {r}
         /\ Unmarked(i)' \ {r} = Unmarked(i) \ {r}
         /\ Marking(i, k)' \ {r} = Marking(i, k) \ {r}
         /\ MarkingOthers(i, k)' \ {r} = MarkingOthers(i, k) \ {r}
  <1>1. \A q \in Runs \ {r} : run'[q] = run[q] /\ (q \in notified' <=> q \in notified)
    BY DEF Alone
  <1>2. \A q \in Runs \ {r} : q \in Done(i)' <=> q \in Done(i)
    BY <1>1 DEF Done
  <1>3. \A q \in Runs \ {r} : q \in Unmarked(i)' <=> q \in Unmarked(i)
    BY <1>1 DEF Unmarked
  <1>4. \A q \in Runs \ {r} : /\ q \in Marking(i, k)' <=> q \in Marking(i, k)
                              /\ q \in MarkingOthers(i, k)' <=> q \in MarkingOthers(i, k)
    BY <1>1, <1>3 DEF Marking, MarkingOthers
  <1>5. /\ Done(i) \subseteq Runs /\ Done(i)' \subseteq Runs
        /\ Unmarked(i) \subseteq Runs /\ Unmarked(i)' \subseteq Runs
        /\ Marking(i, k) \subseteq Unmarked(i) /\ Marking(i, k)' \subseteq Unmarked(i)'
        /\ MarkingOthers(i, k) \subseteq Unmarked(i) /\ MarkingOthers(i, k)' \subseteq Unmarked(i)'
    BY DEF Done, Unmarked, Marking, MarkingOthers
  <1> QED
    BY <1>2, <1>3, <1>4, <1>5

(* The account is kept when runs get through with the invoice and no message   *)
(* about it is sent or marked.                                                 *)
LEMMA AccountOfQuiet ==
  ASSUME ReguaIInv, NEW i \in Invoices, NEW m \in Nat, NEW k \in ReguaSteps, Account(i, m, k),
         Done(i) \subseteq Done(i)', Marking(i, k)' = Marking(i, k), MarkingOthers(i, k)' = MarkingOthers(i, k),
         reminderStep'[i] = reminderStep[i], reminded'[i][k] = reminded[i][k], crashes' = crashes
  PROVE  Account(i, m, k)'
  <1> DEFINE b == m * SetBack
             e == (k - 1) * SetBack
             n == reminded[i][k]
             d == Cardinality(Done(i))
             d2 == Cardinality(Done(i)')
             f == Cardinality(Marking(i, k))
             q == Cardinality(MarkingOthers(i, k))
  <1>1. /\ k \in Nat \ {0} /\ reminderStep[i] \in Nat /\ n \in Nat /\ crashes \in Nat /\ crashes' \in Nat
        /\ d \in Nat /\ d2 \in Nat /\ f \in Nat /\ q \in Nat
    BY AccountTypes, Counts, CountsAfter
  <1>2. b \in Nat /\ e \in Nat /\ Booked(b, e, m, k, reminderStep[i], n, crashes, d, f, q)
    BY <1>1, AccountIsBooked
  <1>3. d <= d2
    <2>1. IsFiniteSet(Done(i)') /\ Done(i) \in SUBSET Done(i)'
      BY CountsAfter
    <2> QED
      BY <2>1, FS_Subset
  <1>4. Booked(b, e, m, k, reminderStep[i], n, crashes, d2, f, q)
    <2> HIDE DEF b, e, n, d, d2, f, q
    <2> QED
      BY <1>1, <1>2, <1>3, BookedMore
  <1> QED
    BY <1>1, <1>4, AccountIsBookedAfter

(* A run publishes a step of the invoice: it gets through with the invoice,    *)
(* and is about to mark that step.                                             *)
LEMMA AccountOfRemind ==
  ASSUME ReguaIInv, NEW r \in Runs, NEW i \in Invoices, Remind(r, i),
         NEW m \in Nat, NEW k \in ReguaSteps, Account(i, m, k), DayBegan(i, m)
  PROVE  Account(i, m, k)'
  <1> DEFINE b == m * SetBack
             e == (k - 1) * SetBack
             l == run[r].seen[i] + 1
             n == reminded[i][k]
             d == Cardinality(Done(i))
             f == Cardinality(Marking(i, k))
             q == Cardinality(MarkingOthers(i, k))
  <1>0. ReguaTypeOK /\ reminded \in [Invoices -> [ReguaSteps -> Nat]]
    BY Types DEF ReguaIInv
  <1>1. /\ k \in Nat \ {0} /\ reminderStep[i] \in Nat /\ n \in Nat /\ crashes \in Nat
        /\ d \in Nat /\ f \in Nat /\ q \in Nat /\ run[r].seen[i] \in Nat
    BY AccountTypes, Counts
  <1>2. b \in Nat /\ e \in Nat /\ Booked(b, e, m, k, reminderStep[i], n, crashes, d, f, q)
    BY <1>1, AccountIsBooked
  <1>3. /\ Alone(r) /\ run[r].label = "looping" /\ i \in run[r].todo
        /\ run'[r].label = "reminded" /\ run'[r].todo = run[r].todo \ {i} /\ run'[r].now = i
        /\ run'[r].seen = run[r].seen /\ l \in ReguaSteps
        /\ reminded' = [reminded EXCEPT ![i][l] = @ + 1]
        /\ notified' = notified /\ crashes' = crashes /\ reminderStep' = reminderStep
    BY <1>0, RemindEffect
  <1>4. r \notin notified /\ l > m
    <2>1. r \notin notified /\ m <= run[r].seen[i]
      BY <1>3 DEF ReguaIInv, ReadsWerePublished, Running, DayBegan
    <2> QED
      BY <1>1, <2>1
  <1>5. /\ Done(i)' \ {r} = Done(i) \ {r} /\ Unmarked(i)' \ {r} = Unmarked(i) \ {r}
        /\ Marking(i, k)' \ {r} = Marking(i, k) \ {r}
        /\ MarkingOthers(i, k)' \ {r} = MarkingOthers(i, k) \ {r}
    BY <1>3, OneRunMoves
  <1>6. r \notin Done(i) /\ r \in Done(i)' /\ r \notin Unmarked(i) /\ r \in Unmarked(i)'
    BY <1>3, <1>4 DEF Done, Unmarked
  <1>7. Done(i)' = Done(i) \cup {r} /\ Cardinality(Done(i)') = d + 1
    <2>1. Done(i)' = Done(i) \cup {r}
      BY <1>5, <1>6
    <2> QED
      BY <1>6, <2>1, Counts, FS_AddElement
  <1>8. r \notin Marking(i, k) /\ r \notin MarkingOthers(i, k)
    BY <1>6 DEF Marking, MarkingOthers
  <1>9. CASE l = k
    <2>1. r \in Marking(i, k)' /\ r \notin MarkingOthers(i, k)'
      BY <1>3, <1>6, <1>9 DEF Marking, MarkingOthers
    <2>2. Marking(i, k)' = Marking(i, k) \cup {r} /\ MarkingOthers(i, k)' = MarkingOthers(i, k)
      BY <1>5, <1>8, <2>1
    <2>3. Cardinality(Marking(i, k)') = f + 1 /\ Cardinality(MarkingOthers(i, k)') = q
      BY <1>8, <2>2, Counts, FS_AddElement
    <2>4. reminded'[i][k] = n + 1
      BY <1>0, <1>3, <1>9
    <2>5. Booked(b, e, m, k, reminderStep[i], n + 1, crashes, d + 1, f + 1, q)
      <3> HIDE DEF b, e, n, d, f, q
      <3> QED
        BY <1>1, <1>2, <1>4, <1>9, BookedRemind
    <2> QED
      BY <1>1, <1>3, <1>7, <2>3, <2>4, <2>5, AccountIsBookedAfter
  <1>10. CASE l # k
    <2>1. r \notin Marking(i, k)' /\ r \in MarkingOthers(i, k)'
      BY <1>3, <1>6, <1>10 DEF Marking, MarkingOthers
    <2>2. Marking(i, k)' = Marking(i, k) /\ MarkingOthers(i, k)' = MarkingOthers(i, k) \cup {r}
      BY <1>5, <1>8, <2>1
    <2>3. Cardinality(Marking(i, k)') = f /\ Cardinality(MarkingOthers(i, k)') = q + 1
      BY <1>8, <2>2, Counts, FS_AddElement
    <2>4. reminded'[i][k] = n
      BY <1>0, <1>3, <1>10
    <2>5. Booked(b, e, m, k, reminderStep[i], n, crashes, d + 1, f, q + 1)
      <3> HIDE DEF b, e, n, d, f, q
      <3> QED
        BY <1>1, <1>2, BookedRemind
    <2> QED
      BY <1>1, <1>3, <1>7, <2>3, <2>4, <2>5, AccountIsBookedAfter
  <1> QED
    BY <1>9, <1>10

(* A run marks what it has published of the invoice.                           *)
LEMMA AccountOfMark ==
  ASSUME ReguaIInv, NEW r \in Runs, NEW i \in Invoices, MarkStep(r), run[r].now = i,
         NEW m \in Nat, NEW k \in ReguaSteps, Account(i, m, k), DayBegan(i, m)
  PROVE  Account(i, m, k)'
  <1> DEFINE b == m * SetBack
             e == (k - 1) * SetBack
             l == run[r].seen[i] + 1
             s == reminderStep[i]
             n == reminded[i][k]
             d == Cardinality(Done(i))
             f == Cardinality(Marking(i, k))
             q == Cardinality(MarkingOthers(i, k))
  <1>0. ReguaTypeOK /\ reminderStep \in [Invoices -> 0 .. Len(Offsets)]
    BY Types DEF ReguaIInv
  <1>1. /\ k \in Nat \ {0} /\ s \in Nat /\ n \in Nat /\ crashes \in Nat
        /\ d \in Nat /\ f \in Nat /\ q \in Nat /\ q <= d /\ run[r].seen[i] \in Nat /\ l \in Nat
    BY AccountTypes, Counts
  <1>2. b \in Nat /\ e \in Nat /\ Booked(b, e, m, k, s, n, crashes, d, f, q)
    BY <1>1, AccountIsBooked
  <1>3. /\ Alone(r) /\ run[r].label = "reminded"
        /\ run'[r].label = "looping" /\ run'[r].todo = run[r].todo /\ run'[r].seen = run[r].seen
        /\ reminderStep'[i] = l
        /\ notified' = notified /\ crashes' = crashes /\ reminded' = reminded
    BY <1>0, MarkEffect
  <1>4. i \notin run[r].todo /\ l > m /\ s >= m /\ (s = m => l = m + 1)
    <2>1. i \notin run[r].todo
      BY <1>3 DEF ReguaIInv, ReadsWerePublished
    <2>2. m <= s /\ m <= run[r].seen[i] /\ (s = m => run[r].seen[i] = m)
      BY <1>3 DEF Running, DayBegan
    <2> QED
      BY <1>1, <2>1, <2>2
  <1>5. /\ Done(i)' \ {r} = Done(i) \ {r} /\ Unmarked(i)' \ {r} = Unmarked(i) \ {r}
        /\ Marking(i, k)' \ {r} = Marking(i, k) \ {r}
        /\ MarkingOthers(i, k)' \ {r} = MarkingOthers(i, k) \ {r}
    BY <1>3, OneRunMoves
  <1>6. r \in Done(i) /\ r \in Done(i)' /\ r \in Unmarked(i) /\ r \notin Unmarked(i)'
    BY <1>3, <1>4 DEF Done, Unmarked
  <1>7. Done(i)' = Done(i)
    BY <1>5, <1>6
  <1>8. r \notin Marking(i, k)' /\ r \notin MarkingOthers(i, k)'
    BY <1>6 DEF Marking, MarkingOthers
  <1>9. CASE l = k
    <2>1. r \in Marking(i, k) /\ r \notin MarkingOthers(i, k)
      BY <1>6, <1>9 DEF Marking, MarkingOthers
    <2>2. Marking(i, k)' = Marking(i, k) \ {r} /\ MarkingOthers(i, k)' = MarkingOthers(i, k)
      BY <1>5, <1>8, <2>1
    <2>3. Cardinality(Marking(i, k)') = f - 1 /\ f - 1 \in Nat /\ f >= 1 /\ Cardinality(MarkingOthers(i, k)') = q
      <3>1. IsFiniteSet(Marking(i, k)) /\ Cardinality(Marking(i, k)') \in Nat
        BY Counts, CountsAfter
      <3>2. Cardinality(Marking(i, k) \ {r}) = f - 1
        BY <2>1, <3>1, FS_RemoveElement
      <3>3. Cardinality(Marking(i, k)') = f - 1 /\ f - 1 \in Nat
        BY <2>2, <3>1, <3>2
      <3> HIDE DEF f
      <3> QED
        BY <1>1, <2>2, <3>3
    <2>4. Booked(b, e, m, k, l, n, crashes, d, f - 1, q)
      <3>1. s = m => k = m + 1
        BY <1>4, <1>9
      <3> HIDE DEF b, e, n, d, f, q, l, s
      <3> QED
        BY <1>1, <1>2, <1>4, <1>9, <2>3, <3>1, BookedMark
    <2> QED
      BY <1>1, <1>3, <1>7, <2>3, <2>4, AccountIsBookedAfter
  <1>10. CASE l # k
    <2>1. r \notin Marking(i, k) /\ r \in MarkingOthers(i, k)
      BY <1>6, <1>10 DEF Marking, MarkingOthers
    <2>2. Marking(i, k)' = Marking(i, k) /\ MarkingOthers(i, k)' = MarkingOthers(i, k) \ {r}
      BY <1>5, <1>8, <2>1
    <2>3. Cardinality(MarkingOthers(i, k)') = q - 1 /\ q - 1 \in Nat /\ q >= 1 /\ Cardinality(Marking(i, k)') = f
      <3>1. IsFiniteSet(MarkingOthers(i, k)) /\ Cardinality(MarkingOthers(i, k)') \in Nat
        BY Counts, CountsAfter
      <3>2. Cardinality(MarkingOthers(i, k) \ {r}) = q - 1
        BY <2>1, <3>1, FS_RemoveElement
      <3>3. Cardinality(MarkingOthers(i, k)') = q - 1 /\ q - 1 \in Nat
        BY <2>2, <3>1, <3>2
      <3> HIDE DEF q
      <3> QED
        BY <1>1, <2>2, <3>3
    <2>4. ASSUME s = m, k > m + 1 PROVE f = 0
      <3>1. \A p \in Unmarked(i) : run[p].seen[i] = m
        BY <2>4 DEF DayBegan, Unmarked, Running
      <3>2. Marking(i, k) = {}
        BY <1>1, <2>4, <3>1 DEF Marking
      <3> QED
        BY <3>2, FS_EmptySet
    <2>5. Booked(b, e, m, k, l, n, crashes, d, f, q - 1)
      <3> HIDE DEF b, e, n, d, f, q, l, s
      <3> QED
        BY <1>1, <1>2, <1>4, <1>10, <2>3, <2>4, BookedMark
    <2> QED
      BY <1>1, <1>3, <1>7, <2>3, <2>5, AccountIsBookedAfter
  <1> QED
    BY <1>9, <1>10

(* A run dies.                                                                 *)
LEMMA AccountOfCrash ==
  ASSUME ReguaIInv, NEW r \in Runs, NEW i \in Invoices, CrashRun(r),
         NEW m \in Nat, NEW k \in ReguaSteps, Account(i, m, k)
  PROVE  Account(i, m, k)'
  <1> DEFINE b == m * SetBack
             e == (k - 1) * SetBack
             s == reminderStep[i]
             n == reminded[i][k]
             d == Cardinality(Done(i))
             d2 == Cardinality(Done(i)')
             f == Cardinality(Marking(i, k))
             f2 == Cardinality(Marking(i, k)')
             q == Cardinality(MarkingOthers(i, k))
             q2 == Cardinality(MarkingOthers(i, k)')
  <1>0. ReguaTypeOK
    BY DEF ReguaIInv
  <1>1. /\ k \in Nat \ {0} /\ s \in Nat /\ n \in Nat /\ crashes \in Nat
        /\ d \in Nat /\ f \in Nat /\ q \in Nat /\ d2 \in Nat /\ f2 \in Nat /\ q2 \in Nat
    BY AccountTypes, Counts, CountsAfter
  <1>2. b \in Nat /\ e \in Nat /\ Booked(b, e, m, k, s, n, crashes, d, f, q)
    BY <1>1, AccountIsBooked
  <1>3. /\ Alone(r) /\ run'[r] = Rested /\ notified' = notified \cup {r}
        /\ crashes' = crashes + 1 /\ reminderStep' = reminderStep /\ reminded' = reminded
    BY <1>0, EndEffect
  <1>4. /\ Done(i)' \ {r} = Done(i) \ {r}
        /\ Marking(i, k)' \ {r} = Marking(i, k) \ {r}
        /\ MarkingOthers(i, k)' \ {r} = MarkingOthers(i, k) \ {r}
    BY <1>3, OneRunMoves
  <1>5. r \in Done(i)' /\ r \notin Unmarked(i)'
    BY <1>3 DEF Done, Unmarked, Rested
  <1>6. r \notin Marking(i, k)' /\ r \notin MarkingOthers(i, k)'
    BY <1>5 DEF Marking, MarkingOthers
  <1>7. d <= d2
    <2>1. Done(i) \in SUBSET Done(i)'
      BY <1>4, <1>5
    <2> QED
      BY <2>1, CountsAfter, FS_Subset
  <1>8. f <= f2 + 1
    <2>1. Marking(i, k)' = Marking(i, k) \ {r}
      BY <1>4, <1>6
    <2>2. IsFiniteSet(Marking(i, k))
      BY Counts
    <2>3. f2 = IF r \in Marking(i, k) THEN f - 1 ELSE f
      BY <2>1, <2>2, FS_RemoveElement
    <2> HIDE DEF f, f2
    <2> QED
      BY <1>1, <2>3
  <1>9. q2 <= q
    <2>1. MarkingOthers(i, k)' \in SUBSET MarkingOthers(i, k)
      BY <1>4, <1>6
    <2> QED
      BY <2>1, Counts, FS_Subset
  <1>10. Booked(b, e, m, k, s, n, crashes + 1, d2, f2, q2)
    <2> HIDE DEF b, e, n, d, f, q, d2, f2, q2, s
    <2> QED
      BY <1>1, <1>2, <1>7, <1>8, <1>9, BookedCrash
  <1> QED
    BY <1>1, <1>3, <1>10, AccountIsBookedAfter

(* A day ends: no run is about to mark, and what is marked is marked.          *)
LEMMA AccountOfDay ==
  ASSUME ReguaIInv, NEW i \in Invoices, NextReguaDay,
         NEW m \in Nat, NEW k \in ReguaSteps, Account(i, m, k), m <= reminderStep[i],
         NEW s \in Nat, s = reminderStep[i]
  PROVE  Account(i, s, k)'
  <1> DEFINE b == m * SetBack
             e == (k - 1) * SetBack
             b2 == s * SetBack
             n == reminded[i][k]
             d == Cardinality(Done(i))
  <1>0. ReguaTypeOK
    BY DEF ReguaIInv
  <1>1. /\ k \in Nat \ {0} /\ s \in Nat /\ n \in Nat /\ crashes \in Nat
        /\ d \in Nat /\ d <= Cardinality(Runs)
    BY AccountTypes, Counts
  <1>2. /\ \A r \in Runs : run[r].label = "idle" /\ run'[r].label = "idle"
        /\ notified' = {} /\ crashes' = crashes /\ reminderStep' = reminderStep /\ reminded' = reminded
    BY <1>0, DayEffect
  <1>3. /\ Marking(i, k) = {} /\ MarkingOthers(i, k) = {} /\ Done(i)' = {}
        /\ Marking(i, k)' = {} /\ MarkingOthers(i, k)' = {}
    BY <1>2 DEF Marking, MarkingOthers, Unmarked, Done
  <1>4. Cardinality({}) = 0
    BY FS_EmptySet
  <1>5. b \in Nat /\ e \in Nat /\ Booked(b, e, m, k, s, n, crashes, d, 0, 0)
    BY <1>1, <1>3, <1>4, AccountIsBooked
  <1>6. b2 \in Nat /\ b <= b2 /\ (s > m => b + SetBack <= b2)
    <2>1. m <= s
      OBVIOUS
    <2>2. /\ m * SetBack \in Nat /\ s * SetBack \in Nat /\ m * SetBack <= s * SetBack
          /\ m < s => m * SetBack + SetBack <= s * SetBack
      BY <2>1, Multiples
    <2>3. s > m <=> m < s
      OBVIOUS
    <2> QED
      BY <2>2, <2>3
  <1>7. k > m => b <= e
    BY <1>1, Multiples
  <1>8. Booked(b2, e, s, k, s, n, crashes, 0, 0, 0)
    <2> HIDE DEF b, e, n, d, b2
    <2> QED
      BY <1>1, <1>5, <1>6, <1>7, BookedDay
  <1> QED
    BY <1>1, <1>2, <1>3, <1>4, <1>8, AccountIsBookedAfter

(* Every message is accounted for after every step.                            *)
LEMMA RemindersAccountedForStep == ReguaIInv /\ [ReguaNext]_reguaVars => RemindersAccountedFor'
  <1> SUFFICES ASSUME ReguaIInv, [ReguaNext]_reguaVars, NEW i \in Invoices
               PROVE  (\E m \in 0 .. Len(Offsets) : DayBegan(i, m) /\ \A k \in ReguaSteps : Account(i, m, k))'
    BY DEF RemindersAccountedFor
  <1>0. /\ ReguaTypeOK /\ run \in [Runs -> Notifiers] /\ reminderStep[i] \in 0 .. Len(Offsets)
        /\ reminderStep \in [Invoices -> 0 .. Len(Offsets)]
        /\ Len(Offsets) \in Nat /\ reminded \in [Invoices -> [ReguaSteps -> Nat]]
        /\ \A r \in Runs : run[r].seen[i] \in Nat /\ (Running(r) => r \notin notified)
    BY Types, Numbers DEF ReguaIInv, ReadsWerePublished
  <1>1. PICK m \in 0 .. Len(Offsets) : DayBegan(i, m) /\ \A k \in ReguaSteps : Account(i, m, k)
    BY DEF ReguaIInv, RemindersAccountedFor
  <1>2. m \in Nat /\ reminderStep[i] \in Nat /\ \A k \in ReguaSteps : Account(i, m, k)
    BY <1>0, <1>1
  <1> DEFINE Kept == DayBegan(i, m)' /\ \A k \in ReguaSteps : Account(i, m, k)'
  <1>3. SUFFICES Kept \/ NextReguaDay
    <2>1. CASE NextReguaDay
      <3>1. PICK s \in 0 .. Len(Offsets) : s = reminderStep[i]
        BY <1>0
      <3>2. \A k \in ReguaSteps : Account(i, s, k)'
        BY <1>1, <1>2, <2>1, <3>1, AccountOfDay DEF DayBegan
      <3>3. DayBegan(i, s)'
        BY <1>0, <2>1, <3>1, DayEffect DEF DayBegan, Running
      <3> QED
        BY <3>2, <3>3
    <2>2. CASE Kept
      BY <2>2
    <2> QED
      BY <1>3, <2>1, <2>2
  <1>4. ASSUME NEW r \in Runs, Alone(r), reminderStep'[i] = reminderStep[i],
               run'[r].label # "idle" => \/ run'[r].seen = run[r].seen /\ Running(r)
                                         \/ run'[r].seen = reminderStep
        PROVE  DayBegan(i, m)'
    BY <1>0, <1>1, <1>2, <1>4 DEF DayBegan, Running, Alone
  <1>5. ASSUME NEW r \in Runs, Alone(r), notified' = notified \/ notified' = notified \cup {r},
               r \notin Unmarked(i), r \notin Unmarked(i)', r \in Done(i) => r \in Done(i)',
               reminderStep' = reminderStep, reminded'[i] = reminded[i], crashes' = crashes,
               run'[r].label # "idle" => \/ run'[r].seen = run[r].seen /\ Running(r)
                                         \/ run'[r].seen = reminderStep
        PROVE  Kept
    <2>1. ASSUME NEW k \in ReguaSteps PROVE Account(i, m, k)'
      <3>1. /\ Done(i)' \ {r} = Done(i) \ {r}
            /\ Marking(i, k)' \ {r} = Marking(i, k) \ {r}
            /\ MarkingOthers(i, k)' \ {r} = MarkingOthers(i, k) \ {r}
        BY <1>5, OneRunMoves
      <3>2. /\ r \notin Marking(i, k) /\ r \notin Marking(i, k)'
            /\ r \notin MarkingOthers(i, k) /\ r \notin MarkingOthers(i, k)'
        BY <1>5 DEF Marking, MarkingOthers
      <3>3. Done(i) \subseteq Done(i)'
        BY <1>5, <3>1
      <3>4. Marking(i, k)' = Marking(i, k)
        BY <3>1, <3>2, NoOtherElement
      <3>5. MarkingOthers(i, k)' = MarkingOthers(i, k)
        BY <3>1, <3>2, NoOtherElement
      <3> QED
        BY <1>2, <1>5, <3>3, <3>4, <3>5, AccountOfQuiet
    <2> QED
      BY <1>4, <1>5, <2>1
  <1>6. ASSUME NEW r \in Runs, StartRun(r) \/ StartLegacyRun(r) PROVE Kept
    <2>1. /\ Alone(r) /\ run[r].label = "idle" /\ run'[r].label \in {"candidates", "listing"}
          /\ run'[r].seen = reminderStep /\ r \notin notified
          /\ UNCHANGED <<crashes, reminderStep, reminded, notified>>
      BY <1>0, <1>6, StartEffect
    <2>2. r \notin Unmarked(i) /\ r \notin Unmarked(i)' /\ r \notin Done(i)
      BY <2>1 DEF Unmarked, Done
    <2> QED
      BY <1>5, <2>1, <2>2
  <1>7. ASSUME NEW r \in Runs, FindActive(r) PROVE Kept
    <2>1. /\ Alone(r) /\ run[r].label = "candidates" /\ run'[r].label = "looping"
          /\ run'[r].todo = run[r].todo /\ run'[r].seen = run[r].seen
          /\ UNCHANGED <<crashes, reminderStep, reminded, notified>>
      BY <1>0, <1>7, FindEffect
    <2>2. r \notin Unmarked(i) /\ r \notin Unmarked(i)' /\ (r \in Done(i) => r \in Done(i)') /\ Running(r)
      BY <2>1 DEF Unmarked, Done, Running
    <2> QED
      BY <1>5, <2>1, <2>2
  <1>8. ASSUME NEW r \in Runs, NEW j \in Invoices, PassOver(r, j) \/ Send(r, j) PROVE Kept
    <2>1. /\ Alone(r) /\ run[r].label \in {"looping", "sending"} /\ run'[r].label = run[r].label
          /\ run'[r].todo = run[r].todo \ {j} /\ run'[r].seen = run[r].seen
          /\ UNCHANGED <<crashes, reminderStep, reminded, notified>>
      BY <1>0, <1>8, PassEffect
    <2>2. r \notin Unmarked(i) /\ r \notin Unmarked(i)' /\ (r \in Done(i) => r \in Done(i)') /\ Running(r)
      BY <2>1 DEF Unmarked, Done, Running
    <2> QED
      BY <1>5, <2>1, <2>2
  <1>9. ASSUME NEW r \in Runs, NEW j \in Invoices, Remind(r, j) PROVE Kept
    <2>1. /\ Alone(r) /\ run[r].label = "looping" /\ run'[r].label = "reminded"
          /\ run'[r].todo = run[r].todo \ {j} /\ run'[r].now = j /\ run'[r].seen = run[r].seen
          /\ UNCHANGED <<crashes, reminderStep, notified>>
      BY <1>0, <1>9, RemindEffect
    <2>2. PICK l \in ReguaSteps : reminded' = [reminded EXCEPT ![j][l] = @ + 1]
      <3>1. /\ run[r].seen[j] + 1 \in ReguaSteps
            /\ reminded' = [reminded EXCEPT ![j][run[r].seen[j] + 1] = @ + 1]
        BY <1>0, <1>9, RemindEffect
      <3> QED
        BY <3>1
    <2>3. CASE j = i
      <3>1. DayBegan(i, m)'
        BY <1>4, <2>1 DEF Running
      <3> QED
        BY <1>1, <1>2, <1>9, <2>3, <3>1, AccountOfRemind
    <2>4. CASE j # i
      <3>1. r \notin Unmarked(i) /\ r \notin Unmarked(i)' /\ (r \in Done(i) => r \in Done(i)') /\ Running(r)
        BY <2>1, <2>4 DEF Unmarked, Done, Running
      <3>2. reminded'[i] = reminded[i]
        BY <1>0, <2>2, <2>4
      <3> QED
        BY <1>5, <2>1, <3>1, <3>2
    <2> QED
      BY <2>3, <2>4
  <1>10. ASSUME NEW r \in Runs, MarkStep(r) PROVE Kept
    <2>1. /\ Alone(r) /\ run[r].label = "reminded" /\ run'[r].label = "looping"
          /\ run'[r].todo = run[r].todo /\ run'[r].seen = run[r].seen
          /\ reminderStep' = [reminderStep EXCEPT ![run[r].now] = run[r].seen[run[r].now] + 1]
          /\ UNCHANGED <<crashes, reminded, notified>>
      BY <1>0, <1>10, MarkEffect
    <2>2. CASE run[r].now = i
      <3>1. reminderStep'[i] = run[r].seen[i] + 1 /\ run[r].seen[i] >= m
        BY <1>0, <1>1, <2>1, <2>2 DEF DayBegan, Running
      <3>2. \A p \in Runs : Running(p)' => run'[p].seen[i] >= m
        BY <1>1, <2>1 DEF DayBegan, Running, Alone
      <3>3. DayBegan(i, m)'
        BY <1>0, <1>2, <3>1, <3>2 DEF DayBegan
      <3> QED
        BY <1>1, <1>2, <1>10, <2>2, <3>3, AccountOfMark
    <2>3. CASE run[r].now # i
      <3>1. /\ r \notin Unmarked(i) /\ r \notin Unmarked(i)' /\ (r \in Done(i) => r \in Done(i)') /\ Running(r)
            /\ reminderStep'[i] = reminderStep[i]
        BY <1>0, <2>1, <2>3 DEF Unmarked, Done, Running
      <3>2. ASSUME NEW k \in ReguaSteps PROVE Account(i, m, k)'
        <4>1. /\ Done(i)' \ {r} = Done(i) \ {r}
              /\ Marking(i, k)' \ {r} = Marking(i, k) \ {r}
              /\ MarkingOthers(i, k)' \ {r} = MarkingOthers(i, k) \ {r}
          BY <2>1, OneRunMoves
        <4>2. /\ r \notin Marking(i, k) /\ r \notin Marking(i, k)'
              /\ r \notin MarkingOthers(i, k) /\ r \notin MarkingOthers(i, k)'
          BY <3>1 DEF Marking, MarkingOthers
        <4>3. Done(i) \subseteq Done(i)'
          BY <3>1, <4>1
        <4>4. Marking(i, k)' = Marking(i, k)
          BY <4>1, <4>2, NoOtherElement
        <4>5. MarkingOthers(i, k)' = MarkingOthers(i, k)
          BY <4>1, <4>2, NoOtherElement
        <4> QED
          BY <1>2, <2>1, <3>1, <4>3, <4>4, <4>5, AccountOfQuiet
      <3> QED
        BY <1>4, <2>1, <3>1, <3>2
    <2> QED
      BY <2>2, <2>3
  <1>11. ASSUME NEW r \in Runs, EndRun(r) PROVE Kept
    <2>1. /\ Alone(r) /\ run[r].label \in {"looping", "sending"} /\ run'[r].label = "idle"
          /\ notified' = notified \cup {r} /\ UNCHANGED <<crashes, reminderStep, reminded>>
      BY <1>0, <1>11, EndEffect DEF Rested
    <2>2. r \notin Unmarked(i) /\ r \notin Unmarked(i)' /\ r \in Done(i)'
      BY <2>1 DEF Unmarked, Done
    <2> QED
      BY <1>5, <2>1, <2>2
  <1>12. ASSUME NEW r \in Runs, CrashRun(r) PROVE Kept
    <2>1. Alone(r) /\ run'[r].label = "idle" /\ reminderStep' = reminderStep
      BY <1>0, <1>12, EndEffect DEF Rested
    <2> QED
      BY <1>2, <1>4, <1>12, <2>1, AccountOfCrash
  <1>13. ASSUME NEW r \in Runs, ReadList(r) \/ CacheList(r) PROVE Kept
    <2>1. /\ Alone(r) /\ run[r].label \in {"listing", "caching"} /\ run'[r].label \in {"caching", "sending"}
          /\ run'[r].seen = run[r].seen
          /\ UNCHANGED <<crashes, reminderStep, reminded, notified>>
      BY <1>0, <1>13, ListEffect
    <2>2. r \notin Unmarked(i) /\ r \notin Unmarked(i)' /\ (r \in Done(i) => r \in Done(i)') /\ Running(r)
      BY <2>1 DEF Unmarked, Done, Running
    <2> QED
      BY <1>5, <2>1, <2>2
  <1>14. CASE RecoveryStep \/ UNCHANGED <<Elsewhere, crashes, reminderStep, reminded, run, notified>>
    <2>1. /\ \A r \in Runs : /\ run'[r].label = run[r].label /\ run'[r].todo = run[r].todo
                             /\ run'[r].seen = run[r].seen /\ run'[r].now = run[r].now
          /\ UNCHANGED <<reminderStep, reminded, notified, crashes>>
      BY <1>0, <1>14, RecoveryEffect
    <2>2. Done(i)' = Done(i) /\ Unmarked(i)' = Unmarked(i)
      BY <2>1 DEF Done, Unmarked
    <2>3. \A k \in ReguaSteps : Marking(i, k)' = Marking(i, k) /\ MarkingOthers(i, k)' = MarkingOthers(i, k)
      <3>1. \A r \in Unmarked(i) : run'[r].seen = run[r].seen
        BY <2>1 DEF Unmarked
      <3> QED
        BY <2>2, <3>1 DEF Marking, MarkingOthers
    <2>4. ASSUME NEW k \in ReguaSteps PROVE Account(i, m, k)'
      BY <1>2, <2>1, <2>2, <2>3, AccountOfQuiet
    <2>5. DayBegan(i, m)'
      BY <1>1, <2>1 DEF DayBegan, Running
    <2> QED
      BY <2>4, <2>5
  <1> QED
    BY <1>6, <1>7, <1>8, <1>9, <1>10, <1>11, <1>12, <1>13, <1>14, StepsThereAre

-----------------------------------------------------------------------------
(* The invariant of the reminders, for every number of runs.                   *)
THEOREM ReguaInvariance == ReguaSpec => []ReguaIInv
  <1>1. ReguaIInv /\ [ReguaNext]_reguaVars => ReguaIInv'
    BY TypeStep, ReadsWerePublishedStep, RemindersAccountedForStep, TellsOfNoneStep,
       CasesAreKnownStep, SettledIsUnlistedStep
       DEF ReguaIInv
  <1> QED
    BY <1>1, InitIInv, PTL DEF ReguaSpec

(* A step that is marked was published, and no step is published more often    *)
(* than runs, deaths and marks that were set back account for.                 *)
THEOREM ReminderBound == ReguaSpec => []RemindersBounded
  <1>1. ReguaIInv => RemindersBounded
    <2> SUFFICES ASSUME ReguaIInv, NEW i \in Invoices, NEW k \in ReguaSteps
                 PROVE  /\ k <= reminderStep[i] => reminded[i][k] >= 1
                        /\ reminded[i][k] <= Cardinality(Runs) + (k - 1) * SetBack + crashes
      BY DEF RemindersBounded, ReguaIInv
    <2>1. k <= reminderStep[i] => reminded[i][k] >= 1
      BY DEF ReguaIInv, ReadsWerePublished
    <2>2. PICK m \in 0 .. Len(Offsets) : DayBegan(i, m) /\ Account(i, m, k)
      BY DEF ReguaIInv, RemindersAccountedFor
    <2> DEFINE before == m * SetBack
               steps == (k - 1) * SetBack
               done == Cardinality(Done(i))
               n == reminded[i][k]
    <2>3. /\ k \in Nat \ {0} /\ n \in Nat /\ crashes \in Nat /\ m \in Nat /\ Cardinality(Runs) \in Nat
          /\ done \in Nat /\ done <= Cardinality(Runs) /\ before \in Nat /\ steps \in Nat
      BY Numbers, AccountTypes, Counts
    <2>4. /\ k <= m => n <= Cardinality(Runs) + steps + crashes
          /\ k > m => n <= before + crashes + done
      BY <2>2 DEF Account
    <2>5. k > m => before <= steps
      BY <2>3, Multiples
    <2>6. n <= Cardinality(Runs) + steps + crashes
      <3> HIDE DEF n, steps, before, done
      <3> QED
        BY <2>3, <2>4, <2>5
    <2> QED
      BY <2>1, <2>6
  <1> QED
    BY <1>1, ReguaInvariance, PTL

(* A run that no sweep has joined publishes nothing about an active case.      *)
THEOREM ActiveCasesAreLeftToTheRecovery == ReguaSpec => RecoveryOwnsCommunication
  <1>1. ASSUME ReguaIInv, [ReguaNext]_reguaVars, NEW r \in Runs, NEW i \in Invoices,
               Sends(r, i), run[r].alone, run[r].label = "looping"
        PROVE  case[i] # "active"
    <2>0. ReguaTypeOK /\ run[r].now = "none"
      BY <1>1 DEF ReguaIInv, TellsOfNone
    <2>1. i \in run[r].todo /\ i \notin run'[r].todo /\ run'[r].now = i
      BY <1>1 DEF Sends
    <2>2. i # "none"
      BY DunningAssumption
    <2>3. ASSUME NEW q \in Runs, q # r, Alone(q) PROVE FALSE
      BY <2>1, <2>3 DEF Alone
    <2>4. ASSUME run'[r].todo = run[r].todo PROVE FALSE
      BY <2>1, <2>4
    <2>5. ASSUME NEW q \in Runs, NEW j \in Invoices, PassOver(q, j) \/ Send(q, j) PROVE FALSE
      <3>1. q = r /\ run[q].label = "looping"
        BY <1>1, <2>0, <2>3, <2>5, PassEffect
      <3>2. PassOver(q, j) /\ run'[r].now = "none"
        BY <2>0, <2>5, <3>1, PassEffect
      <3> QED
        BY <2>1, <2>2, <3>2
    <2>6. ASSUME NEW q \in Runs, NEW j \in Invoices, Remind(q, j) PROVE i \notin run[r].skip
      <3>1. q = r
        BY <2>0, <2>3, <2>6, RemindEffect
      <3>2. j = i /\ Reminds(q, j)
        BY <2>0, <2>1, <2>6, <3>1, RemindEffect
      <3> QED
        BY <3>1, <3>2 DEF Reminds
    <2>7. ASSUME NEW q \in Runs, \/ StartRun(q) \/ StartLegacyRun(q) \/ FindActive(q) \/ MarkStep(q)
                                 \/ EndRun(q) \/ CrashRun(q) \/ ReadList(q) \/ CacheList(q)
          PROVE  run'[r] = Rested \/ run'[r].now = "none"
      <3>1. Alone(q)
        BY <2>0, <2>7, StartEffect, FindEffect, MarkEffect, EndEffect, ListEffect
      <3>2. q = r
        BY <2>3, <3>1
      <3> QED
        BY <1>1, <2>0, <2>7, <3>2, StartEffect, FindEffect, MarkEffect, EndEffect, ListEffect
    <2>8. ASSUME RecoveryStep \/ NextReguaDay \/ run' = run PROVE run'[r].todo = run[r].todo
      BY <2>0, <2>8, RecoveryEffect, DayEffect
    <2>9. i \notin run[r].skip
      <3>1. Rested.now = "none"
        BY DEF Rested
      <3>2. \/ \E q \in Runs, j \in Invoices : PassOver(q, j) \/ Send(q, j)
            \/ \E q \in Runs, j \in Invoices : Remind(q, j)
            \/ \E q \in Runs : \/ StartRun(q) \/ StartLegacyRun(q) \/ FindActive(q) \/ MarkStep(q)
                               \/ EndRun(q) \/ CrashRun(q) \/ ReadList(q) \/ CacheList(q)
            \/ RecoveryStep \/ NextReguaDay \/ run' = run
        BY <1>1, StepsThereAre
      <3> QED
        BY <2>1, <2>2, <2>4, <2>5, <2>6, <2>7, <2>8, <3>1, <3>2
    <2> QED
      BY <1>1, <2>9 DEF ReguaIInv, CasesAreKnown
  <1>2. ReguaIInv /\ [ReguaNext]_reguaVars =>
          \A r \in Runs, i \in Invoices :
            Sends(r, i) /\ run[r].alone /\ run[r].label = "looping" => case[i] # "active"
    BY <1>1
  <1> QED
    BY <1>2, ReguaInvariance, PTL DEF ReguaSpec, RecoveryOwnsCommunication

(* What was settled when the day began is sent to nobody, whatever was cached. *)
THEOREM SettledHearsNothing == ReguaSpec => SettledIsLeftAlone
  <1>1. ReguaIInv => \A r \in Runs, i \in Invoices : Sends(r, i) => i \notin settledBefore
    BY DEF ReguaIInv, SettledIsUnlisted, Sends
  <1> QED
    BY <1>1, ReguaInvariance, PTL DEF ReguaSpec, SettledIsLeftAlone

=============================================================================
