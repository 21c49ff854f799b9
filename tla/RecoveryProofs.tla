--------------------------- MODULE RecoveryProofs ---------------------------
(* Proofs of the safety properties of RecoveryProperties for every set of     *)
(* invoices, every number of sweeps that run at once and die anywhere, and    *)
(* every length of the sequence.                                              *)
EXTENDS RecoveryProperties, TLAPS

(* Before the first day there are no cases and nothing was sent.              *)
LEMMA InitIInv == Init => IInv
  <1> SUFFICES ASSUME Init PROVE IInv
    OBVIOUS
  <1> USE RecoveryAssumption DEF Init
  <1>1. TypeOK
    BY DEF TypeOK, Idle, NoCase, Sweepers, SweepLabels, Cases, Steps, InvoiceStatuses
  <1>2. AttemptsFollowSteps /\ ReadsAreHistory /\ CasesArePastDue
    BY DEF AttemptsFollowSteps, ReadsAreHistory, CasesArePastDue, Idle, NoCase
  <1>3. AttemptsWereSent /\ LostAfterAllSteps /\ PublishedFirst
    BY DEF AttemptsWereSent, LostAfterAllSteps, PublishedFirst, Idle, NoCase
  <1> QED
    BY <1>1, <1>2, <1>3 DEF IInv

(* What a sweep publishes is a step of the sequence.                          *)
LEMMA PublishedStep ==
  ASSUME IInv, NEW s \in Sweeps, NEW i \in Invoices, ~Exhausted(sweep[s].seen[i])
  PROVE  sweep[s].seen[i].step + 1 \in Steps
  <1>1. sweep[s].seen[i] \in Cases
    BY DEF IInv, TypeOK, Sweepers
  <1> QED
    BY <1>1, RecoveryAssumption DEF Cases, Steps, Exhausted

(* What recordAttemptAndAdvance writes: a step of the sequence, the one that  *)
(* follows those the sweep read.                                              *)
LEMMA RecordedStep ==
  ASSUME IInv, NEW s \in Sweeps, RecordAttempt(s)
  PROVE  \E i \in Invoices, k \in Steps :
           /\ sweep[s].now = i
           /\ k = sweep[s].seen[i].step + 1
           /\ 1 .. k \subseteq attempts[i] \cup {k}
           /\ sent[i][k] > 0
           /\ case' = [case EXCEPT ![i] = Advanced(s, k)]
           /\ Advanced(s, k) \in Cases
           /\ Advanced(s, k).step = k /\ Advanced(s, k).status = "recovering"
           /\ attempts' = [attempts EXCEPT ![i] = @ \cup {k}]
  <1> DEFINE i == sweep[s].now
             k == sweep[s].seen[i].step + 1
  <1>1. i \in Invoices /\ sweep[s].seen[i].step < MaxSteps /\ sent[i][k] > 0
    BY DEF IInv, PublishedFirst, RecordAttempt, Advance
  <1>2. sweep[s].seen[i] \in Cases /\ sweep[s].relief \in BOOLEAN
    BY <1>1 DEF IInv, TypeOK, Sweepers
  <1>3. k \in Steps /\ k - 1 \in Nat
    BY <1>1, <1>2, RecoveryAssumption DEF Cases, Steps
  <1>4. 1 .. k - 1 \subseteq attempts[i]
    BY <1>1, <1>2, <1>3 DEF IInv, ReadsAreHistory, Cases
  <1>5. 1 .. k \subseteq attempts[i] \cup {k}
    BY <1>3, <1>4 DEF Steps
  <1>6. /\ Advanced(s, k) \in Cases
        /\ Advanced(s, k).step = k /\ Advanced(s, k).status = "recovering"
    BY <1>2, <1>3, RecoveryAssumption DEF Advanced, Cases, Steps, Active
  <1> QED
    BY <1>1, <1>3, <1>5, <1>6 DEF RecordAttempt, Advance

(* The values a case takes when it is created, resolved, and in time.         *)
LEMMA CaseValues ==
  /\ NoCase \in Cases
  /\ [NoCase EXCEPT !.status = "open"] \in Cases
  /\ \A c \in Cases : \A st \in Resolved : [c EXCEPT !.status = st, !.wait = 0] \in Cases
  /\ \A c \in Cases : [c EXCEPT !.wait = IF @ > 0 THEN @ - 1 ELSE 0] \in Cases
  <1>1. 0 \in 0 .. StepInterval /\ 0 \in 0 .. MaxSteps
    BY RecoveryAssumption
  <1>2. NoCase \in Cases /\ [NoCase EXCEPT !.status = "open"] \in Cases
    BY <1>1 DEF NoCase, Cases, Active
  <1>3. ASSUME NEW c \in Cases, NEW st \in Resolved
        PROVE  [c EXCEPT !.status = st, !.wait = 0] \in Cases
    <2>1. st \in {"none"} \cup Active \cup Resolved
      OBVIOUS
    <2> QED
      BY <1>1, <2>1 DEF Cases
  <1>4. ASSUME NEW c \in Cases
        PROVE  [c EXCEPT !.wait = IF @ > 0 THEN @ - 1 ELSE 0] \in Cases
    <2>1. c.wait \in Nat /\ c.wait <= StepInterval
      BY RecoveryAssumption DEF Cases
    <2>2. (IF c.wait > 0 THEN c.wait - 1 ELSE 0) \in 0 .. StepInterval
      BY <2>1, RecoveryAssumption
    <2> QED
      BY <2>2 DEF Cases
  <1> QED
    BY <1>2, <1>3, <1>4

(* A sweep that is not running holds nothing.                                 *)
LEMMA IdleType == Idle \in Sweepers
  BY CaseValues DEF Idle, Sweepers, SweepLabels

(* What a sweep holds in memory keeps its type.                               *)
LEMMA SweepTypeStep == IInv /\ [Next]_vars => sweep' \in [Sweeps -> Sweepers]
  <1> DEFINE Typed == sweep \in [Sweeps -> Sweepers]
  <1> SUFFICES ASSUME IInv, [Next]_vars PROVE Typed'
    OBVIOUS
  <1>0. Typed /\ case \in [Invoices -> Cases]
    BY DEF IInv, TypeOK
  <1>1. ASSUME NEW s \in Sweeps, StartSweep(s) PROVE Typed'
    <2>1. [Idle EXCEPT !.label = "opening", !.found = WithoutCase, !.todo = WithoutCase] \in Sweepers
      BY IdleType DEF Sweepers, SweepLabels, WithoutCase, TypeOK, IInv
    <2> QED
      BY <1>0, <1>1, <2>1 DEF StartSweep
  <1>2. ASSUME NEW s \in Sweeps, NEW i \in Invoices, OpenCase(s, i) \/ GiveUp(s, i) PROVE Typed'
    <2>1. CASE OpenCase(s, i)
      <3>1. sweep' = [sweep EXCEPT ![s].todo = @ \ {i}]
        BY <2>1 DEF OpenCase
      <3> QED
        BY <1>0, <3>1 DEF Sweepers
    <2>2. CASE GiveUp(s, i)
      <3>1. sweep' = [sweep EXCEPT ![s].due = @ \ {i}]
        BY <2>2 DEF GiveUp
      <3> QED
        BY <1>0, <3>1 DEF Sweepers
    <2> QED
      BY <1>2, <2>1, <2>2
  <1>3. ASSUME NEW s \in Sweeps, MarkOverdue(s) PROVE Typed'
    BY <1>0, <1>3 DEF MarkOverdue, Sweepers, SweepLabels
  <1>4. ASSUME NEW s \in Sweeps, FindDueCases(s) PROVE Typed'
    <2>1. [i \in Invoices |-> IF Due(i) THEN case[i] ELSE NoCase] \in [Invoices -> Cases]
      BY <1>0, CaseValues
    <2> QED
      <3> DEFINE due == {i \in Invoices : Due(i)}
                 seen == [i \in Invoices |-> IF Due(i) THEN case[i] ELSE NoCase]
      <3>1. sweep' = [sweep EXCEPT ![s].label = "advancing", ![s].due = due, ![s].seen = seen]
        BY <1>4 DEF FindDueCases
      <3>2. due \in SUBSET Invoices /\ seen \in [Invoices -> Cases] /\ "advancing" \in SweepLabels
        BY <2>1 DEF SweepLabels
      <3> HIDE DEF due, seen
      <3>3. [sweep[s] EXCEPT !.label = "advancing", !.due = due, !.seen = seen] \in Sweepers
        BY <1>0, <3>2 DEF Sweepers
      <3> QED
        BY <1>0, <3>1, <3>3
  <1>5. ASSUME NEW s \in Sweeps, NEW i \in Invoices, NEW h \in BOOLEAN, Publish(s, i, h) PROVE Typed'
    <2>1. OffersRelief(sweep[s].seen[i], h) \in BOOLEAN
      BY DEF OffersRelief
    <2> QED
      BY <1>0, <1>5, <2>1 DEF Publish, Sweepers, SweepLabels
  <1>6. ASSUME NEW s \in Sweeps, RecordAttempt(s) PROVE Typed'
    <2>1. sweep' = [sweep EXCEPT ![s].label = "advancing", ![s].now = "none", ![s].relief = FALSE]
      BY <1>6 DEF RecordAttempt, Advance
    <2> QED
      <3>1. "advancing" \in SweepLabels /\ "none" \in Invoices \cup {"none"}
        BY DEF SweepLabels
      <3>2. [sweep[s] EXCEPT !.label = "advancing", !.now = "none", !.relief = FALSE] \in Sweepers
        BY <1>0, <3>1 DEF Sweepers
      <3> QED
        BY <1>0, <2>1, <3>2
  <1>7. ASSUME NEW s \in Sweeps, EndSweep(s) \/ CrashSweep(s) PROVE Typed'
    BY <1>0, <1>7, IdleType DEF EndSweep, CrashSweep
  <1>8. ASSUME UNCHANGED sweep PROVE Typed'
    BY <1>0, <1>8
  <1>9. ASSUME Environment PROVE UNCHANGED sweep \/ \E s \in Sweeps : CrashSweep(s)
    BY <1>9 DEF Environment, Settle, Report, ConfirmAgain, ReadCase, CloseCase, FollowUpFails, CancelCase
  <1> QED
    BY <1>1, <1>2, <1>3, <1>4, <1>5, <1>6, <1>7, <1>8, <1>9 DEF Next, SweepStep, NextDay, vars

(* Every step keeps the types; the step column never passes MaxSteps.         *)
LEMMA TypeStep == IInv /\ [Next]_vars => TypeOK'
  <1> SUFFICES ASSUME IInv, [Next]_vars PROVE TypeOK'
    OBVIOUS
  <1>0. sweep' \in [Sweeps -> Sweepers]
    BY SweepTypeStep
  <1> USE <1>0 DEF IInv, TypeOK, payment, cases, messages, schedule
  <1>1. ASSUME NEW s \in Sweeps, StartSweep(s) \/ FindDueCases(s) \/ EndSweep(s) PROVE TypeOK'
    BY <1>1 DEF StartSweep, FindDueCases, EndSweep
  <1>2. ASSUME NEW s \in Sweeps, NEW i \in Invoices, OpenCase(s, i) PROVE TypeOK'
    BY <1>2, CaseValues DEF OpenCase
  <1>3. ASSUME NEW s \in Sweeps, NEW i \in Invoices, GiveUp(s, i) PROVE TypeOK'
    <2>1. "lost" \in Resolved
      BY DEF Resolved
    <2> QED
      BY <1>3, <2>1, CaseValues DEF GiveUp
  <1>4. ASSUME NEW s \in Sweeps, MarkOverdue(s) PROVE TypeOK'
    BY <1>4 DEF MarkOverdue, InvoiceStatuses
  <1>5. ASSUME NEW s \in Sweeps, NEW i \in Invoices, NEW h \in BOOLEAN, Publish(s, i, h) PROVE TypeOK'
    <2>1. sweep[s].seen[i].step + 1 \in Steps
      BY <1>5, PublishedStep DEF Publish
    <2>2. sent' \in [Invoices -> [Steps -> Nat]]
      BY <1>5, <2>1 DEF Publish
    <2> QED
      BY <1>5, <2>2 DEF Publish
  <1>6. ASSUME NEW s \in Sweeps, RecordAttempt(s) PROVE TypeOK'
    <2>1. PICK i \in Invoices, k \in Steps :
            /\ case' = [case EXCEPT ![i] = Advanced(s, k)]
            /\ Advanced(s, k) \in Cases
            /\ attempts' = [attempts EXCEPT ![i] = @ \cup {k}]
      BY <1>6, RecordedStep
    <2>2. case' \in [Invoices -> Cases]
      BY <2>1
    <2>3. attempts' \in [Invoices -> SUBSET Steps]
      BY <2>1
    <2> QED
      BY <1>6, <2>2, <2>3 DEF RecordAttempt, Advance
  <1>7. ASSUME NEW s \in Sweeps, CrashSweep(s) PROVE TypeOK'
    BY <1>7, RecoveryAssumption DEF CrashSweep
  <1>8. ASSUME NEW i \in Invoices, NEW new \in InvoiceStatuses, Settle(i, new) \/ Report(i, new) PROVE TypeOK'
    BY <1>8 DEF Settle, Report
  <1>9. ASSUME NEW i \in Invoices, ConfirmAgain(i) \/ ReadCase(i) \/ FollowUpFails(i) PROVE TypeOK'
    BY <1>9 DEF ConfirmAgain, ReadCase, FollowUpFails
  <1>10. ASSUME NEW i \in Invoices, CloseCase(i) PROVE TypeOK'
    <2>1. "recovered" \in Resolved
      BY DEF Resolved
    <2> QED
      BY <1>10, <2>1, CaseValues DEF CloseCase
  <1>11. ASSUME NEW i \in Invoices, CancelCase(i) PROVE TypeOK'
    <2>1. "cancelled" \in Resolved
      BY DEF Resolved
    <2> QED
      BY <1>11, <2>1, CaseValues DEF CancelCase
  <1>12. ASSUME NEW D \in SUBSET Invoices, NextDay(D) PROVE TypeOK'
    BY <1>12, CaseValues DEF NextDay
  <1>13. CASE UNCHANGED vars
    BY <1>13 DEF vars
  <1> QED
    BY <1>1, <1>2, <1>3, <1>4, <1>5, <1>6, <1>7, <1>8, <1>9, <1>10, <1>11, <1>12, <1>13
    DEF Next, SweepStep, Environment

(* Attempts are only added, and only by RecordAttempt; messages are only      *)
(* added; what a sweep read is replaced by what the tables show at that time. *)
LEMMA OtherSteps ==
  ASSUME IInv, [Next]_vars
  PROVE  \/ \E s \in Sweeps : RecordAttempt(s)
         \/ /\ attempts' = attempts
            /\ \A i \in Invoices :
                 /\ case'[i].step \in {case[i].step, 0}
                 /\ case'[i].status = "lost" =>
                      case[i].status = "lost" \/ \E s \in Sweeps : GiveUp(s, i)
  <1> USE DEF IInv, TypeOK, Cases, cases
  <1> DEFINE Others == /\ attempts' = attempts
                       /\ \A i \in Invoices :
                            /\ case'[i].step \in {case[i].step, 0}
                            /\ case'[i].status = "lost" =>
                                 case[i].status = "lost" \/ \E s \in Sweeps : GiveUp(s, i)
  <1>1. ASSUME UNCHANGED cases PROVE Others
    BY <1>1
  <1>2. ASSUME NEW s \in Sweeps, NEW i \in Invoices, OpenCase(s, i) PROVE Others
    BY <1>2 DEF OpenCase, NoCase
  <1>3. ASSUME NEW s \in Sweeps, NEW i \in Invoices, GiveUp(s, i) PROVE Others
    <2>1. attempts' = attempts /\ case' = [case EXCEPT ![i].status = "lost", ![i].wait = 0]
      BY <1>3 DEF GiveUp
    <2>2. \A j \in Invoices : case'[j].step = case[j].step /\ (j # i => case'[j].status = case[j].status)
      BY <2>1
    <2> QED
      BY <1>3, <2>1, <2>2
  <1>4. ASSUME NEW i \in Invoices, CloseCase(i) PROVE Others
    BY <1>4 DEF CloseCase
  <1>5. ASSUME NEW i \in Invoices, CancelCase(i) PROVE Others
    BY <1>5 DEF CancelCase
  <1>6. ASSUME NEW D \in SUBSET Invoices, NextDay(D) PROVE Others
    <2>1. attempts' = attempts
          /\ case' = [i \in Invoices |-> [case[i] EXCEPT !.wait = IF @ > 0 THEN @ - 1 ELSE 0]]
      BY <1>6 DEF NextDay
    <2>2. \A j \in Invoices : case'[j].step = case[j].step /\ case'[j].status = case[j].status
      BY <2>1
    <2> QED
      BY <2>1, <2>2
  <1>7. ASSUME Environment, ~\E i \in Invoices : CloseCase(i) \/ CancelCase(i) PROVE UNCHANGED cases
    BY <1>7 DEF Environment, Settle, Report, ConfirmAgain, ReadCase, FollowUpFails, CrashSweep
  <1>8. ASSUME NEW s \in Sweeps, SweepStep(s), ~RecordAttempt(s),
               ~\E i \in Invoices : OpenCase(s, i) \/ GiveUp(s, i)
        PROVE  UNCHANGED cases
    BY <1>8 DEF SweepStep, StartSweep, MarkOverdue, FindDueCases, Publish, EndSweep
  <1>9. CASE UNCHANGED vars
    BY <1>1, <1>9 DEF vars
  <1> QED
    BY <1>1, <1>2, <1>3, <1>4, <1>5, <1>6, <1>7, <1>8, <1>9 DEF Next

(* A step is recorded after those the sweep read: none is skipped.            *)
LEMMA AttemptsFollowStepsStep == IInv /\ [Next]_vars => AttemptsFollowSteps'
  <1> SUFFICES ASSUME IInv, [Next]_vars, NEW i \in Invoices
               PROVE  /\ \A k \in attempts'[i] : 1 .. k \subseteq attempts'[i]
                      /\ 1 .. case'[i].step \subseteq attempts'[i]
    BY DEF AttemptsFollowSteps
  <1>1. /\ \A k \in attempts[i] : 1 .. k \subseteq attempts[i]
        /\ 1 .. case[i].step \subseteq attempts[i]
        /\ case \in [Invoices -> Cases] /\ attempts \in [Invoices -> SUBSET Steps]
    BY DEF IInv, AttemptsFollowSteps, TypeOK
  <1>2. ASSUME NEW s \in Sweeps, RecordAttempt(s)
        PROVE  /\ \A k \in attempts'[i] : 1 .. k \subseteq attempts'[i]
               /\ 1 .. case'[i].step \subseteq attempts'[i]
    <2>1. PICK j \in Invoices, k \in Steps :
            /\ 1 .. k \subseteq attempts[j] \cup {k}
            /\ case' = [case EXCEPT ![j] = Advanced(s, k)]
            /\ Advanced(s, k).step = k
            /\ attempts' = [attempts EXCEPT ![j] = @ \cup {k}]
      BY <1>2, RecordedStep
    <2>2. CASE i = j
      BY <1>1, <2>1, <2>2
    <2>3. CASE i # j
      BY <1>1, <2>1, <2>3
    <2> QED
      BY <2>2, <2>3
  <1>3. ASSUME attempts' = attempts, case'[i].step \in {case[i].step, 0}
        PROVE  /\ \A k \in attempts'[i] : 1 .. k \subseteq attempts'[i]
               /\ 1 .. case'[i].step \subseteq attempts'[i]
    <2>1. 1 .. 0 = {}
      OBVIOUS
    <2> QED
      BY <1>1, <1>3, <2>1
  <1> QED
    BY <1>2, <1>3, OtherSteps

(* Messages cannot be unsent.                                                 *)
LEMMA SentGrows ==
  ASSUME IInv, [Next]_vars, NEW i \in Invoices, NEW k \in Steps, sent[i][k] > 0
  PROVE  sent'[i][k] > 0
  <1>1. sent \in [Invoices -> [Steps -> Nat]]
    BY DEF IInv, TypeOK
  <1>2. ASSUME NEW s \in Sweeps, NEW j \in Invoices, NEW h \in BOOLEAN, Publish(s, j, h)
        PROVE  sent'[i][k] > 0
    <2>1. sent' = [sent EXCEPT ![j][sweep[s].seen[j].step + 1] = @ + 1]
      BY <1>2 DEF Publish
    <2>2. sent'[i][k] = sent[i][k] \/ sent'[i][k] = sent[i][k] + 1
      BY <1>1, <2>1
    <2> QED
      BY <1>1, <2>2
  <1>3. sent' = sent \/ \E s \in Sweeps, j \in Invoices, h \in BOOLEAN : Publish(s, j, h)
    BY DEF Next, SweepStep, Environment, StartSweep, OpenCase, GiveUp, MarkOverdue, FindDueCases,
           RecordAttempt, Advance, EndSweep, CrashSweep, Settle, Report, ConfirmAgain, ReadCase, CloseCase,
           FollowUpFails, CancelCase, NextDay, vars, messages
  <1> QED
    BY <1>2, <1>3

(* What is recorded was published.                                            *)
LEMMA AttemptsWereSentStep == IInv /\ [Next]_vars => AttemptsWereSent'
  <1> SUFFICES ASSUME IInv, [Next]_vars, NEW i \in Invoices, NEW k \in attempts'[i]
               PROVE  sent'[i][k] > 0
    BY DEF AttemptsWereSent
  <1>1. k \in Steps
    BY TypeStep DEF TypeOK
  <1>2. sent[i][k] > 0
    <2>1. CASE k \in attempts[i]
      BY <2>1 DEF IInv, AttemptsWereSent
    <2>2. CASE k \notin attempts[i]
      <3>1. PICK s \in Sweeps : RecordAttempt(s)
        BY <2>2, OtherSteps
      <3>2. PICK j \in Invoices, n \in Steps :
              sent[j][n] > 0 /\ attempts' = [attempts EXCEPT ![j] = @ \cup {n}]
        BY <3>1, RecordedStep
      <3>3. j = i /\ n = k
        BY <2>2, <3>2 DEF IInv, TypeOK
      <3> QED
        BY <3>2, <3>3
    <2> QED
      BY <2>1, <2>2
  <1> QED
    BY <1>1, <1>2, SentGrows

(* Who gives up read a case at its last step, and history shows every step.   *)
LEMMA LostAfterAllStepsStep == IInv /\ [Next]_vars => LostAfterAllSteps'
  <1> SUFFICES ASSUME IInv, [Next]_vars, NEW i \in Invoices, case'[i].status = "lost"
               PROVE  attempts'[i] = Steps
    BY DEF LostAfterAllSteps
  <1>1. attempts \in [Invoices -> SUBSET Steps]
    BY DEF IInv, TypeOK
  <1>2. CASE case[i].status = "lost" /\ attempts' = attempts
    BY <1>2 DEF IInv, LostAfterAllSteps
  <1>3. ASSUME NEW s \in Sweeps, RecordAttempt(s) PROVE attempts'[i] = Steps
    <2>1. PICK j \in Invoices, k \in Steps :
            /\ case' = [case EXCEPT ![j] = Advanced(s, k)]
            /\ Advanced(s, k).status = "recovering"
            /\ attempts' = [attempts EXCEPT ![j] = @ \cup {k}]
      BY <1>3, RecordedStep
    <2>2. i # j /\ case'[i] = case[i]
      BY <2>1 DEF IInv, TypeOK
    <2> QED
      BY <1>1, <2>1, <2>2 DEF IInv, LostAfterAllSteps
  <1>4. ASSUME NEW s \in Sweeps, GiveUp(s, i), attempts' = attempts PROVE attempts'[i] = Steps
    <2>1. sweep[s].seen[i] \in Cases
      BY DEF IInv, TypeOK, Sweepers
    <2>2. sweep[s].seen[i].step = MaxSteps
      BY <1>4, <2>1, RecoveryAssumption DEF GiveUp, Exhausted, Cases
    <2>3. Steps \subseteq attempts[i]
      BY <2>2 DEF IInv, ReadsAreHistory, Steps
    <2> QED
      BY <1>1, <1>4, <2>3
  <1> QED
    BY <1>2, <1>3, <1>4, OtherSteps

(* Every step leaves what a sweep read alone, replaces it by what the case    *)
(* says now, or drops it.                                                     *)
LEMMA SeenSteps ==
  ASSUME IInv, [Next]_vars, NEW s \in Sweeps
  PROVE  \/ sweep'[s].seen = sweep[s].seen
         \/ \A i \in Invoices : sweep'[s].seen[i] \in {case[i], NoCase}
  <1> USE DEF IInv, TypeOK
  <1> DEFINE Seen == \/ sweep'[s].seen = sweep[s].seen
                     \/ \A i \in Invoices : sweep'[s].seen[i] \in {case[i], NoCase}
  <1>0. sweep \in [Sweeps -> Sweepers]
    OBVIOUS
  <1>1. ASSUME NEW t \in Sweeps, StartSweep(t) \/ EndSweep(t) \/ CrashSweep(t) PROVE Seen
    <2> DEFINE started == [Idle EXCEPT !.label = "opening", !.found = WithoutCase, !.todo = WithoutCase]
    <2>0. Idle.seen = [i \in Invoices |-> NoCase] /\ started.seen = [i \in Invoices |-> NoCase]
      BY DEF Idle
    <2> HIDE DEF started
    <2>1. PICK r \in {Idle, started} : sweep' = [sweep EXCEPT ![t] = r]
      BY <1>1 DEF StartSweep, EndSweep, CrashSweep, started
    <2>2. CASE t = s
      BY <1>0, <2>0, <2>1, <2>2
    <2>3. CASE t # s
      BY <1>0, <2>1, <2>3
    <2> QED
      BY <2>2, <2>3
  <1>2. ASSUME NEW t \in Sweeps, FindDueCases(t) PROVE Seen
    <2>1. CASE t = s
      <3>1. sweep'[s].seen = [i \in Invoices |-> IF Due(i) THEN case[i] ELSE NoCase]
        BY <1>0, <1>2, <2>1 DEF FindDueCases, Sweepers
      <3> QED
        BY <3>1
    <2>2. CASE t # s
      BY <1>0, <1>2, <2>2 DEF FindDueCases
    <2> QED
      BY <2>1, <2>2
  <1>3. ASSUME NEW t \in Sweeps, NEW i \in Invoices, NEW h \in BOOLEAN,
               OpenCase(t, i) \/ GiveUp(t, i) \/ Publish(t, i, h)
        PROVE  Seen
    <2>1. sweep'[s].seen = sweep[s].seen
      <3>1. CASE OpenCase(t, i)
        BY <1>0, <3>1 DEF OpenCase, Sweepers
      <3>2. CASE GiveUp(t, i)
        BY <1>0, <3>2 DEF GiveUp, Sweepers
      <3>3. CASE Publish(t, i, h)
        BY <1>0, <3>3 DEF Publish, Sweepers
      <3> QED
        BY <1>3, <3>1, <3>2, <3>3
    <2> QED
      BY <2>1
  <1>4. ASSUME NEW t \in Sweeps, MarkOverdue(t) \/ RecordAttempt(t) PROVE Seen
    <2>1. sweep'[s].seen = sweep[s].seen
      <3>1. CASE MarkOverdue(t)
        BY <1>0, <3>1 DEF MarkOverdue, Sweepers
      <3>2. CASE RecordAttempt(t)
        BY <1>0, <3>2 DEF RecordAttempt, Advance, Sweepers
      <3> QED
        BY <1>4, <3>1, <3>2
    <2> QED
      BY <2>1
  <1>5. ASSUME UNCHANGED sweep PROVE Seen
    BY <1>5
  <1>6. ASSUME Environment PROVE UNCHANGED sweep \/ \E t \in Sweeps : CrashSweep(t)
    BY <1>6 DEF Environment, Settle, Report, ConfirmAgain, ReadCase, CloseCase, FollowUpFails, CancelCase
  <1> QED
    BY <1>1, <1>2, <1>3, <1>4, <1>5, <1>6 DEF Next, SweepStep, NextDay, vars

(* Attempts are never removed.                                                *)
LEMMA AttemptsGrow ==
  ASSUME IInv, [Next]_vars, NEW i \in Invoices
  PROVE  attempts[i] \subseteq attempts'[i]
  <1>1. ASSUME NEW s \in Sweeps, RecordAttempt(s) PROVE attempts[i] \subseteq attempts'[i]
    <2>1. PICK j \in Invoices, k \in Steps : attempts' = [attempts EXCEPT ![j] = @ \cup {k}]
      BY <1>1, RecordedStep
    <2> QED
      BY <2>1 DEF IInv, TypeOK
  <1> QED
    BY <1>1, OtherSteps

(* What is read stays history, because history only grows.                    *)
LEMMA ReadsAreHistoryStep == IInv /\ [Next]_vars => ReadsAreHistory'
  <1> SUFFICES ASSUME IInv, [Next]_vars, NEW s \in Sweeps, NEW i \in Invoices
               PROVE  1 .. sweep'[s].seen[i].step \subseteq attempts'[i]
    BY DEF ReadsAreHistory
  <1>1. 1 .. sweep[s].seen[i].step \subseteq attempts[i]
    BY DEF IInv, ReadsAreHistory
  <1>2. 1 .. case[i].step \subseteq attempts[i]
    BY DEF IInv, AttemptsFollowSteps
  <1>3. 1 .. NoCase.step \subseteq attempts[i]
    BY DEF NoCase
  <1> QED
    BY <1>1, <1>2, <1>3, SeenSteps, AttemptsGrow

(* A sweep records only what it has just published.                           *)
LEMMA PublishedFirstStep == IInv /\ [Next]_vars => PublishedFirst'
  <1> SUFFICES ASSUME IInv, [Next]_vars, NEW s \in Sweeps, sweep'[s].label = "published"
               PROVE  /\ sweep'[s].now \in Invoices
                      /\ sweep'[s].seen[sweep'[s].now].step < MaxSteps
                      /\ sent'[sweep'[s].now][sweep'[s].seen[sweep'[s].now].step + 1] > 0
    BY DEF PublishedFirst
  <1> DEFINE Done == /\ sweep'[s].now \in Invoices
                     /\ sweep'[s].seen[sweep'[s].now].step < MaxSteps
                     /\ sent'[sweep'[s].now][sweep'[s].seen[sweep'[s].now].step + 1] > 0
  <1>0. sweep \in [Sweeps -> Sweepers]
    BY DEF IInv, TypeOK
  <1>1. ASSUME sweep'[s] = sweep[s] PROVE Done
    <2> DEFINE i == sweep[s].now
               k == sweep[s].seen[i].step + 1
    <2>1. i \in Invoices /\ sweep[s].seen[i].step < MaxSteps /\ sent[i][k] > 0
      BY <1>1 DEF IInv, PublishedFirst
    <2>2. k \in Steps
      <3>1. sweep[s].seen[i] \in Cases
        BY <1>0, <2>1 DEF Sweepers
      <3> QED
        BY <2>1, <3>1, RecoveryAssumption DEF Cases, Steps
    <2>3. sent'[i][k] > 0
      BY <2>1, <2>2, SentGrows
    <2> QED
      BY <1>1, <2>1, <2>3
  <1>2. ASSUME NEW i \in Invoices, NEW h \in BOOLEAN, Publish(s, i, h) PROVE Done
    <2> DEFINE k == sweep[s].seen[i].step + 1
    <2>1. k \in Steps /\ sweep[s].seen[i] \in Cases
      BY <1>0, <1>2, PublishedStep DEF Publish, Sweepers
    <2>2. sent' = [sent EXCEPT ![i][k] = @ + 1]
      BY <1>2 DEF Publish
    <2>3. sent'[i][k] > 0
      BY <2>1, <2>2 DEF IInv, TypeOK
    <2>4. sweep'[s].now = i /\ sweep'[s].seen = sweep[s].seen
      BY <1>0, <1>2 DEF Publish, Sweepers
    <2>5. sweep[s].seen[i].step < MaxSteps
      BY <1>2, <2>1, RecoveryAssumption DEF Publish, Exhausted, Cases
    <2> QED
      BY <2>3, <2>4, <2>5
  <1>3. ASSUME NEW t \in Sweeps, sweep' = [sweep EXCEPT ![t] = sweep'[t]], t # s PROVE Done
    BY <1>0, <1>1, <1>3
  <1>4. ASSUME NEW t \in Sweeps, SweepStep(t) \/ CrashSweep(t)
        PROVE  sweep' = [sweep EXCEPT ![t] = sweep'[t]]
    <2>1. ASSUME NEW r, sweep' = [sweep EXCEPT ![t] = r] PROVE sweep' = [sweep EXCEPT ![t] = sweep'[t]]
      BY <1>0, <2>1
    <2> QED
      BY <1>4, <2>1 DEF SweepStep, CrashSweep, StartSweep, OpenCase, GiveUp, MarkOverdue, FindDueCases,
                        Publish, RecordAttempt, Advance, EndSweep
  <1>5. ASSUME StartSweep(s) \/ MarkOverdue(s) \/ FindDueCases(s) \/ RecordAttempt(s) \/ EndSweep(s) \/ CrashSweep(s)
        PROVE  FALSE
    <2>1. StartSweep(s) => sweep'[s].label = "opening"
      BY <1>0 DEF StartSweep, Idle, Sweepers
    <2>2. MarkOverdue(s) => sweep'[s].label = "opened"
      BY <1>0 DEF MarkOverdue, Sweepers
    <2>3. FindDueCases(s) \/ RecordAttempt(s) => sweep'[s].label = "advancing"
      <3>1. FindDueCases(s) => sweep'[s].label = "advancing"
        BY <1>0 DEF FindDueCases, Sweepers
      <3>2. RecordAttempt(s) => sweep'[s].label = "advancing"
        BY <1>0 DEF RecordAttempt, Advance, Sweepers
      <3> QED
        BY <3>1, <3>2
    <2>4. EndSweep(s) \/ CrashSweep(s) => sweep'[s].label = "idle"
      BY <1>0 DEF EndSweep, CrashSweep, Idle, Sweepers
    <2> QED
      BY <1>5, <2>1, <2>2, <2>3, <2>4
  <1>6. ASSUME NEW i \in Invoices, OpenCase(s, i) \/ GiveUp(s, i) PROVE FALSE
    BY <1>0, <1>6 DEF OpenCase, GiveUp, Sweepers
  <1>7. ASSUME UNCHANGED sweep PROVE Done
    BY <1>1, <1>7
  <1>8. ASSUME Environment PROVE UNCHANGED sweep \/ \E t \in Sweeps : CrashSweep(t)
    BY <1>8 DEF Environment, Settle, Report, ConfirmAgain, ReadCase, CloseCase, FollowUpFails, CancelCase
  <1> QED
    BY <1>2, <1>3, <1>4, <1>5, <1>6, <1>7, <1>8 DEF Next, SweepStep, NextDay, vars

(* How the status of a case changes.                                          *)
LEMMA CaseSteps ==
  ASSUME IInv, [Next]_vars, NEW i \in Invoices
  PROVE  \/ case'[i].status = case[i].status
         \/ /\ \E s \in Sweeps : OpenCase(s, i)
            /\ case[i].status = "none" /\ case'[i].status = "open"
         \/ /\ \E s \in Sweeps : RecordAttempt(s) /\ sweep[s].now = i
            /\ case'[i].status = "recovering"
         \/ /\ \E s \in Sweeps : GiveUp(s, i)
            /\ case'[i].status = "lost"
         \/ CloseCase(i) /\ case'[i].status = "recovered"
         \/ CancelCase(i) /\ case'[i].status = "cancelled"
  <1>0. case \in [Invoices -> Cases]
    BY DEF IInv, TypeOK
  <1> DEFINE Same == case'[i].status = case[i].status
  <1>1. ASSUME NEW s \in Sweeps, NEW j \in Invoices, OpenCase(s, j)
        PROVE  Same \/ (j = i /\ case[i].status = "none" /\ case'[i].status = "open")
    BY <1>0, <1>1 DEF OpenCase, NoCase
  <1>2. ASSUME NEW s \in Sweeps, RecordAttempt(s)
        PROVE  Same \/ (sweep[s].now = i /\ case'[i].status = "recovering")
    <2>1. PICK j \in Invoices, k \in Steps :
            /\ sweep[s].now = j /\ case' = [case EXCEPT ![j] = Advanced(s, k)]
            /\ Advanced(s, k).status = "recovering"
      BY <1>2, RecordedStep
    <2> QED
      BY <1>0, <2>1
  <1>3. ASSUME NEW s \in Sweeps, NEW j \in Invoices, GiveUp(s, j)
        PROVE  Same \/ (j = i /\ case'[i].status = "lost")
    <2>1. case' = [case EXCEPT ![j].status = "lost", ![j].wait = 0]
      BY <1>3 DEF GiveUp
    <2> QED
      BY <1>0, <2>1 DEF Cases
  <1>4. ASSUME NEW j \in Invoices, CloseCase(j)
        PROVE  Same \/ (j = i /\ case'[i].status = "recovered")
    <2>1. case' = [case EXCEPT ![j].status = "recovered", ![j].wait = 0]
      BY <1>4 DEF CloseCase
    <2> QED
      BY <1>0, <2>1 DEF Cases
  <1>5. ASSUME NEW j \in Invoices, CancelCase(j)
        PROVE  Same \/ (j = i /\ case'[i].status = "cancelled")
    <2>1. case' = [case EXCEPT ![j].status = "cancelled", ![j].wait = 0]
      BY <1>5 DEF CancelCase
    <2> QED
      BY <1>0, <2>1 DEF Cases
  <1>6. ASSUME NEW D \in SUBSET Invoices, NextDay(D) PROVE Same
    <2>1. case'[i] = [case[i] EXCEPT !.wait = IF @ > 0 THEN @ - 1 ELSE 0]
      BY <1>6 DEF NextDay
    <2> QED
      BY <1>0, <2>1 DEF Cases
  <1>7. ASSUME NEW s \in Sweeps, SweepStep(s), ~RecordAttempt(s),
               ~\E j \in Invoices : OpenCase(s, j) \/ GiveUp(s, j)
        PROVE  Same
    BY <1>7 DEF SweepStep, StartSweep, MarkOverdue, FindDueCases, Publish, EndSweep, cases
  <1>8. ASSUME Environment, ~\E j \in Invoices : CloseCase(j) \/ CancelCase(j) PROVE Same
    BY <1>8 DEF Environment, Settle, Report, ConfirmAgain, ReadCase, FollowUpFails, CrashSweep, cases
  <1>9. CASE UNCHANGED vars
    BY <1>9 DEF vars
  <1> QED
    BY <1>1, <1>2, <1>3, <1>4, <1>5, <1>6, <1>7, <1>8, <1>9 DEF Next

(* What a step does to what a sweep holds.                                    *)
LEMMA SweepSteps ==
  ASSUME IInv, [Next]_vars, NEW s \in Sweeps
  PROVE  \/ sweep'[s] = sweep[s]
         \/ /\ StartSweep(s)
            /\ sweep'[s].label = "opening" /\ sweep'[s].due = {}
            /\ sweep'[s].found = WithoutCase /\ sweep'[s].todo = WithoutCase
         \/ \E i \in Invoices :
              /\ OpenCase(s, i)
              /\ sweep'[s] = [sweep[s] EXCEPT !.todo = @ \ {i}]
         \/ /\ sweep'[s].label \in {"opened", "advancing"} /\ sweep'[s].due \subseteq sweep[s].due
            /\ sweep'[s].found = sweep[s].found /\ sweep'[s].todo = sweep[s].todo
         \/ /\ sweep'[s].label = "advancing" /\ sweep'[s].due = {i \in Invoices : Due(i)}
            /\ sweep'[s].found = sweep[s].found /\ sweep'[s].todo = sweep[s].todo
         \/ \E i \in sweep[s].due :
              /\ sweep'[s].label = "published" /\ sweep'[s].now = i /\ sweep'[s].due = sweep[s].due \ {i}
              /\ sweep'[s].found = sweep[s].found /\ sweep'[s].todo = sweep[s].todo
         \/ sweep'[s] = Idle
  <1>0. sweep \in [Sweeps -> Sweepers]
    BY DEF IInv, TypeOK
  <1>1. CASE StartSweep(s)
    <2> DEFINE started == [Idle EXCEPT !.label = "opening", !.found = WithoutCase, !.todo = WithoutCase]
    <2>1. sweep'[s] = started
      BY <1>0, <1>1 DEF StartSweep
    <2>2. started.label = "opening" /\ started.due = {} /\ started.found = WithoutCase /\ started.todo = WithoutCase
      BY DEF Idle
    <2> HIDE DEF started
    <2> QED
      BY <1>1, <2>1, <2>2
  <1>2. ASSUME NEW i \in Invoices, OpenCase(s, i)
        PROVE  sweep'[s] = [sweep[s] EXCEPT !.todo = @ \ {i}]
    BY <1>0, <1>2 DEF OpenCase
  <1>3. ASSUME NEW i \in Invoices, GiveUp(s, i)
        PROVE  /\ sweep'[s].label \in {"opened", "advancing"} /\ sweep'[s].due \subseteq sweep[s].due
               /\ sweep'[s].found = sweep[s].found /\ sweep'[s].todo = sweep[s].todo
    BY <1>0, <1>3 DEF GiveUp, Sweepers
  <1>4. CASE MarkOverdue(s)
    BY <1>0, <1>4 DEF MarkOverdue, Sweepers
  <1>5. CASE FindDueCases(s)
    <2> DEFINE due == {i \in Invoices : Due(i)}
               seen == [i \in Invoices |-> IF Due(i) THEN case[i] ELSE NoCase]
    <2>1. sweep' = [sweep EXCEPT ![s].label = "advancing", ![s].due = due, ![s].seen = seen]
      BY <1>5 DEF FindDueCases
    <2> HIDE DEF due, seen
    <2>2. /\ sweep'[s].label = "advancing" /\ sweep'[s].due = due
          /\ sweep'[s].found = sweep[s].found /\ sweep'[s].todo = sweep[s].todo
      BY <1>0, <2>1 DEF Sweepers
    <2> QED
      BY <2>2 DEF due
  <1>6. ASSUME NEW i \in Invoices, NEW h \in BOOLEAN, Publish(s, i, h)
        PROVE  /\ i \in sweep[s].due
               /\ sweep'[s].label = "published" /\ sweep'[s].now = i /\ sweep'[s].due = sweep[s].due \ {i}
               /\ sweep'[s].found = sweep[s].found /\ sweep'[s].todo = sweep[s].todo
    BY <1>0, <1>6 DEF Publish, Sweepers
  <1>7. CASE RecordAttempt(s)
    BY <1>0, <1>7 DEF RecordAttempt, Advance, Sweepers
  <1>8. CASE EndSweep(s) \/ CrashSweep(s)
    BY <1>0, <1>8 DEF EndSweep, CrashSweep
  <1>9. ASSUME NEW t \in Sweeps, t # s, SweepStep(t) \/ CrashSweep(t) PROVE sweep'[s] = sweep[s]
    BY <1>0, <1>9 DEF SweepStep, CrashSweep, StartSweep, OpenCase, GiveUp, MarkOverdue, FindDueCases,
                      Publish, RecordAttempt, Advance, EndSweep
  <1>10. ASSUME Environment PROVE UNCHANGED sweep \/ \E t \in Sweeps : CrashSweep(t)
    BY <1>10 DEF Environment, Settle, Report, ConfirmAgain, ReadCase, CloseCase, FollowUpFails, CancelCase
  <1>11. ASSUME SweepStep(s) \/ CrashSweep(s)
         PROVE  \/ StartSweep(s) \/ MarkOverdue(s) \/ FindDueCases(s) \/ RecordAttempt(s)
                \/ EndSweep(s) \/ CrashSweep(s)
                \/ \E i \in Invoices : OpenCase(s, i) \/ GiveUp(s, i)
                \/ \E i \in Invoices, h \in BOOLEAN : Publish(s, i, h)
    BY <1>11 DEF SweepStep
  <1>12. ASSUME UNCHANGED sweep PROVE sweep'[s] = sweep[s]
    BY <1>12
  <1> QED
    BY <1>1, <1>2, <1>3, <1>4, <1>5, <1>6, <1>7, <1>8, <1>9, <1>10, <1>11, <1>12 DEF Next, NextDay, vars

(* The past does not become future again.                                     *)
LEMMA PastDueGrows ==
  ASSUME [Next]_vars
  PROVE  pastDue \subseteq pastDue'
  BY DEF Next, SweepStep, Environment, StartSweep, OpenCase, GiveUp, MarkOverdue, FindDueCases, Publish,
         RecordAttempt, Advance, EndSweep, CrashSweep, Settle, Report, ConfirmAgain, ReadCase, CloseCase,
         FollowUpFails, CancelCase, NextDay, vars, payment

(* Only what is past due gets a case, and a case never goes away, so whoever  *)
(* held one still holds one.                                                  *)
LEMMA CasesArePastDueStep == IInv /\ [Next]_vars => CasesArePastDue'
  <1> SUFFICES ASSUME IInv, [Next]_vars PROVE CasesArePastDue'
    OBVIOUS
  <1>0. CasesArePastDue /\ sweep \in [Sweeps -> Sweepers] /\ closer \in [Invoices -> {"none", "settled", "closing", "done"}]
    BY DEF IInv, TypeOK
  <1>1. ASSUME NEW i \in Invoices
        PROVE  /\ case[i].status # "none" => case'[i].status # "none"
               /\ case'[i].status # "none" => i \in pastDue'
    <2>1. ASSUME NEW s \in Sweeps, OpenCase(s, i) PROVE i \in pastDue
      BY <1>0, <2>1 DEF OpenCase, CasesArePastDue
    <2>2. ASSUME NEW s \in Sweeps, RecordAttempt(s), sweep[s].now = i PROVE i \in pastDue
      BY <1>0, <2>2 DEF RecordAttempt, Advance, CasesArePastDue
    <2>3. ASSUME NEW s \in Sweeps, GiveUp(s, i) PROVE i \in pastDue
      BY <1>0, <2>3 DEF GiveUp, CasesArePastDue
    <2>4. CASE CloseCase(i) \/ CancelCase(i)
      <3>1. case[i].status # "none"
        BY <1>0, <2>4 DEF CloseCase, CancelCase, Active, CasesArePastDue
      <3>2. i \in pastDue
        BY <1>0, <3>1 DEF CasesArePastDue
      <3> QED
        BY <2>4, <3>1, <3>2, CaseSteps, PastDueGrows
    <2>5. case[i].status # "none" => i \in pastDue
      BY <1>0 DEF CasesArePastDue
    <2> QED
      BY <2>1, <2>2, <2>3, <2>4, <2>5, CaseSteps, PastDueGrows
  <1>2. ASSUME NEW i \in Invoices, closer'[i] = "closing" PROVE case'[i].status # "none"
    <2>1. closer[i] = "closing" \/ ReadCase(i)
      BY <1>0, <1>2 DEF Next, SweepStep, Environment, StartSweep, OpenCase, GiveUp, MarkOverdue,
         FindDueCases, Publish, RecordAttempt, Advance, EndSweep, CrashSweep, Settle, Report, ConfirmAgain,
         ReadCase, CloseCase, FollowUpFails, CancelCase, NextDay, vars, payment
    <2>2. case[i].status # "none"
      BY <1>0, <1>2, <2>1 DEF ReadCase, Active, CasesArePastDue
    <2> QED
      BY <1>1, <2>2
  <1>3. ASSUME NEW s \in Sweeps
        PROVE  /\ sweep'[s].found \subseteq pastDue'
               /\ sweep'[s].todo \subseteq sweep'[s].found
               /\ sweep'[s].label = "opening" =>
                    \A i \in sweep'[s].found \ sweep'[s].todo : case'[i].status # "none"
               /\ \A i \in sweep'[s].due : case'[i].status # "none"
               /\ sweep'[s].label = "published" => case'[sweep'[s].now].status # "none"
    <2>0. /\ sweep[s].found \subseteq pastDue
          /\ sweep[s].todo \subseteq sweep[s].found
          /\ sweep[s].label = "opening" =>
               \A i \in sweep[s].found \ sweep[s].todo : case[i].status # "none"
          /\ \A i \in sweep[s].due : case[i].status # "none"
          /\ sweep[s].label = "published" => sweep[s].now \in Invoices /\ case[sweep[s].now].status # "none"
          /\ sweep[s].due \subseteq Invoices /\ sweep[s].found \subseteq Invoices
      BY <1>0 DEF CasesArePastDue, IInv, PublishedFirst, Sweepers
    <2>1. CASE sweep'[s] = sweep[s]
      BY <1>1, <2>0, <2>1, PastDueGrows
    <2>2. CASE /\ sweep'[s].label = "opening" /\ sweep'[s].due = {}
               /\ sweep'[s].found = WithoutCase /\ sweep'[s].todo = WithoutCase
      BY <2>2, PastDueGrows DEF WithoutCase
    <2>3. ASSUME NEW i \in Invoices, OpenCase(s, i), sweep'[s] = [sweep[s] EXCEPT !.todo = @ \ {i}]
          PROVE  /\ sweep'[s].found \subseteq pastDue'
                 /\ sweep'[s].todo \subseteq sweep'[s].found
                 /\ \A j \in sweep'[s].found \ sweep'[s].todo : case'[j].status # "none"
                 /\ \A j \in sweep'[s].due : case'[j].status # "none"
                 /\ sweep'[s].label = "opening"
      <3>1. /\ sweep'[s].found = sweep[s].found /\ sweep'[s].due = sweep[s].due
            /\ sweep'[s].todo = sweep[s].todo \ {i} /\ sweep'[s].label = "opening"
        BY <1>0, <2>3 DEF Sweepers, OpenCase
      <3>2. case'[i].status # "none"
        BY <2>3 DEF OpenCase, IInv, TypeOK, NoCase
      <3> QED
        BY <1>1, <2>0, <2>3, <3>1, <3>2, PastDueGrows DEF OpenCase
    <2>4. CASE /\ sweep'[s].label \in {"opened", "advancing"} /\ sweep'[s].due \subseteq sweep[s].due
               /\ sweep'[s].found = sweep[s].found /\ sweep'[s].todo = sweep[s].todo
      BY <1>1, <2>0, <2>4, PastDueGrows
    <2>5. CASE /\ sweep'[s].label = "advancing" /\ sweep'[s].due = {i \in Invoices : Due(i)}
               /\ sweep'[s].found = sweep[s].found /\ sweep'[s].todo = sweep[s].todo
      <3>1. \A i \in sweep'[s].due : case'[i].status # "none"
        BY <1>1, <2>5 DEF Due, Active
      <3> QED
        BY <2>0, <2>5, <3>1, PastDueGrows
    <2>6. ASSUME NEW i \in sweep[s].due,
                 /\ sweep'[s].label = "published" /\ sweep'[s].now = i /\ sweep'[s].due = sweep[s].due \ {i}
                 /\ sweep'[s].found = sweep[s].found /\ sweep'[s].todo = sweep[s].todo
          PROVE  /\ sweep'[s].found \subseteq pastDue'
                 /\ sweep'[s].todo \subseteq sweep'[s].found
                 /\ \A j \in sweep'[s].due : case'[j].status # "none"
                 /\ case'[sweep'[s].now].status # "none"
      BY <1>1, <2>0, <2>6, PastDueGrows
    <2>7. CASE sweep'[s] = Idle
      BY <2>7 DEF Idle
    <2> QED
      BY <2>1, <2>2, <2>3, <2>4, <2>5, <2>6, <2>7, SweepSteps
  <1> QED
    BY <1>1, <1>2, <1>3 DEF CasesArePastDue

(* The invariant is inductive.                                                *)
THEOREM RecoveryInvariance == Spec => []IInv
  <1>1. IInv /\ [Next]_vars => IInv'
    BY TypeStep, CasesArePastDueStep, AttemptsFollowStepsStep, AttemptsWereSentStep, LostAfterAllStepsStep,
       ReadsAreHistoryStep, PublishedFirstStep DEF IInv
  <1> QED
    BY InitIInv, <1>1, PTL DEF Spec

(* No case is given up before each of its steps was published and recorded,   *)
(* however many sweeps run at once and wherever they die (RN-3307).           *)
THEOREM GivenUpAfterTrying == Spec => [](LostAfterAllSteps /\ AttemptsWereSent)
  <1>1. IInv => LostAfterAllSteps /\ AttemptsWereSent
    BY DEF IInv
  <1> QED
    BY <1>1, RecoveryInvariance, PTL

(* No step of the sequence is skipped (RN-3303).                              *)
THEOREM NoStepSkipped == Spec => []AttemptsFollowSteps
  <1>1. IInv => AttemptsFollowSteps
    BY DEF IInv
  <1> QED
    BY <1>1, RecoveryInvariance, PTL

(* A resolved case is changed only by somebody who holds an older reading.    *)
THEOREM ResolvedLeftByStaleReads == Spec => ResolvedLeftOnlyByStaleReader
  <1> DEFINE Kept == \A i \in Invoices :
                       case[i].status \in Resolved /\ case'[i].status # case[i].status =>
                         closer[i] = "closing" \/ \E s \in Sweeps : Holds(s, i)
  <1>1. IInv /\ [Next]_vars => [Kept]_vars
    <2> SUFFICES ASSUME IInv, [Next]_vars, NEW i \in Invoices,
                        case[i].status \in Resolved, case'[i].status # case[i].status
                 PROVE  closer[i] = "closing" \/ \E s \in Sweeps : Holds(s, i)
      OBVIOUS
    <2>0. case \in [Invoices -> Cases]
      BY DEF IInv, TypeOK
    <2>1. CASE \E s \in Sweeps : RecordAttempt(s)
      <3>1. PICK s \in Sweeps, j \in Invoices, k \in Steps :
              sweep[s].now = j /\ case' = [case EXCEPT ![j] = Advanced(s, k)]
        BY <2>1, RecordedStep
      <3> QED
        BY <2>0, <3>1 DEF Holds
    <2>2. ASSUME NEW s \in Sweeps, NEW j \in Invoices, OpenCase(s, j) PROVE FALSE
      BY <2>0, <2>2 DEF OpenCase, Resolved
    <2>3. ASSUME NEW s \in Sweeps, NEW j \in Invoices, GiveUp(s, j) PROVE Holds(s, i)
      BY <2>0, <2>3 DEF GiveUp, Holds
    <2>4. ASSUME NEW j \in Invoices, CloseCase(j) PROVE closer[i] = "closing"
      BY <2>0, <2>4 DEF CloseCase
    <2>5. ASSUME NEW j \in Invoices, CancelCase(j) PROVE FALSE
      BY <2>0, <2>5 DEF CancelCase, Active, Resolved
    <2>6. ASSUME NEW D \in SUBSET Invoices, NextDay(D) PROVE FALSE
      <3>1. case'[i] = [case[i] EXCEPT !.wait = IF @ > 0 THEN @ - 1 ELSE 0]
        BY <2>6 DEF NextDay
      <3> QED
        BY <2>0, <3>1 DEF Cases
    <2>7. ASSUME NEW s \in Sweeps, SweepStep(s), case' # case
          PROVE  RecordAttempt(s) \/ \E j \in Invoices : OpenCase(s, j) \/ GiveUp(s, j)
      BY <2>7 DEF SweepStep, StartSweep, MarkOverdue, FindDueCases, Publish, EndSweep, cases
    <2>8. ASSUME Environment, case' # case PROVE \E j \in Invoices : CloseCase(j) \/ CancelCase(j)
      BY <2>8 DEF Environment, Settle, Report, ConfirmAgain, ReadCase, FollowUpFails, CrashSweep, cases
    <2> QED
      BY <2>1, <2>2, <2>3, <2>4, <2>5, <2>6, <2>7, <2>8 DEF Next, vars
  <1> QED
    BY <1>1, RecoveryInvariance, PTL DEF Spec, ResolvedLeftOnlyByStaleReader

-----------------------------------------------------------------------------
(* CaseLife, step by step: each step of Recovery is a step of CaseLife or     *)
(* changes nothing that CaseLife speaks of.                                   *)

Phases == [i \in Invoices |-> Phase(case[i].status)]

Busy == \E s \in Sweeps : sweep[s].label # "idle"

(* CaseLife knows the same state machine of an invoice.                       *)
LEMMA SameStateMachine ==
  /\ Life!InvoiceStatuses = InvoiceStatuses
  /\ \A from, to : Life!CanTransitionInvoice(from, to) <=> CanTransitionInvoice(from, to)
  BY DEF Life!InvoiceStatuses, InvoiceStatuses, Life!CanTransitionInvoice, CanTransitionInvoice,
         Life!InvoiceTransitions, InvoiceTransitions

(* What CaseLife speaks of.                                                   *)
LEMMA LifeStutters ==
  ASSUME UNCHANGED <<invoice, pastDue>>, Phases' = Phases, Busy' = Busy
  PROVE  UNCHANGED Life!vars
  BY DEF Life!vars, Phases, Busy

(* One case changes its phase.                                                *)
LEMMA PhaseSteps ==
  ASSUME IInv, [Next]_vars, UNCHANGED <<invoice, pastDue>>, Busy' = Busy,
         NEW i \in Invoices, NEW c, case' = [case EXCEPT ![i] = c],
         \/ Busy /\ i \in pastDue /\ c.status \in Active
         \/ case[i].status # "none" /\ c.status \in Resolved
  PROVE  Life!Next \/ UNCHANGED Life!vars
  <1>0. case \in [Invoices -> Cases]
    BY DEF IInv, TypeOK
  <1>1. Phases' = [Phases EXCEPT ![i] = Phase(c.status)]
    BY <1>0 DEF Phases
  <1>2. Phases[i] = Phase(case[i].status) /\ Phases \in [Invoices -> {"none", "active", "over"}]
    BY <1>0 DEF Phases, Phase
  <1>3. CASE Phases[i] = Phase(c.status)
    <2>1. Phases' = Phases
      BY <1>1, <1>2, <1>3
    <2> QED
      BY <2>1, LifeStutters
  <1>4. CASE Phases[i] # Phase(c.status) /\ c.status \in Active
    <2>1. Phase(c.status) = "active" /\ Busy /\ i \in pastDue
      BY <1>4 DEF Phase, Active, Resolved
    <2>2. Life!OpenCase(i)
      BY <1>1, <1>4, <2>1 DEF Life!OpenCase, Phases, Busy
    <2> QED
      BY <2>2 DEF Life!Next, Life!Step
  <1>5. CASE Phases[i] # Phase(c.status) /\ c.status \in Resolved
    <2>1. Phase(c.status) = "over" /\ case[i].status # "none"
      BY <1>5 DEF Phase, Active, Resolved
    <2>2. Phases[i] = "active"
      BY <1>2, <1>5, <2>1 DEF Phase
    <2>3. Life!EndCase(i)
      BY <1>1, <2>1, <2>2 DEF Life!EndCase, Phases, Busy
    <2> QED
      BY <2>3 DEF Life!Next, Life!Step
  <1> QED
    BY <1>3, <1>4, <1>5

(* A sweep at work that stays at work.                                        *)
LEMMA StillBusy ==
  ASSUME IInv, NEW s \in Sweeps,
         \/ \E i \in Invoices : OpenCase(s, i) \/ GiveUp(s, i)
         \/ MarkOverdue(s) \/ FindDueCases(s) \/ RecordAttempt(s)
         \/ \E i \in Invoices, h \in BOOLEAN : Publish(s, i, h)
  PROVE  Busy /\ Busy'
  <1>0. sweep \in [Sweeps -> Sweepers]
    BY DEF IInv, TypeOK
  <1>1. sweep[s].label # "idle"
    BY DEF OpenCase, GiveUp, MarkOverdue, FindDueCases, RecordAttempt, Advance, Publish
  <1>2. sweep'[s].label # "idle"
    <2>1. ASSUME NEW i \in Invoices, OpenCase(s, i) \/ GiveUp(s, i) PROVE sweep'[s].label # "idle"
      BY <1>0, <2>1 DEF OpenCase, GiveUp, Sweepers
    <2>2. CASE MarkOverdue(s)
      BY <1>0, <2>2 DEF MarkOverdue, Sweepers
    <2>3. CASE FindDueCases(s)
      BY <1>0, <2>3 DEF FindDueCases, Sweepers
    <2>4. CASE RecordAttempt(s)
      BY <1>0, <2>4 DEF RecordAttempt, Advance, Sweepers
    <2>5. ASSUME NEW i \in Invoices, NEW h \in BOOLEAN, Publish(s, i, h) PROVE sweep'[s].label # "idle"
      <3>1. PICK r : sweep' = [sweep EXCEPT ![s].label = "published", ![s].due = @ \ {i}, ![s].now = i, ![s].relief = r]
        BY <2>5 DEF Publish
      <3> QED
        BY <1>0, <3>1 DEF Sweepers
    <2> QED
      BY <2>1, <2>2, <2>3, <2>4, <2>5
  <1> QED
    BY <1>1, <1>2 DEF Busy

(* The steps of a sweep.                                                      *)
LEMMA SweepStepIsLife ==
  ASSUME IInv, [Next]_vars, NEW s \in Sweeps, SweepStep(s)
  PROVE  Life!Next \/ UNCHANGED Life!vars
  <1> USE DEF payment, cases
  <1>0. /\ sweep \in [Sweeps -> Sweepers] /\ case \in [Invoices -> Cases] /\ invoice \in [Invoices -> InvoiceStatuses]
        /\ CasesArePastDue
    BY DEF IInv, TypeOK
  <1>1. CASE StartSweep(s)
    <2>1. UNCHANGED <<invoice, pastDue>> /\ Phases' = Phases
      BY <1>1 DEF StartSweep, Phases
    <2>2. [Idle EXCEPT !.label = "opening", !.found = WithoutCase, !.todo = WithoutCase].label = "opening"
      BY DEF Idle
    <2>3. Busy'
      BY <1>0, <1>1, <2>2 DEF StartSweep, Busy
    <2>4. CASE Busy
      BY <2>1, <2>3, <2>4, LifeStutters DEF Busy
    <2>5. CASE ~Busy
      <3>1. Life!BeginSweep
        BY <2>1, <2>3, <2>5 DEF Life!BeginSweep, Phases, Busy
      <3> QED
        BY <3>1 DEF Life!Next, Life!Step
    <2> QED
      BY <2>4, <2>5
  <1>2. CASE EndSweep(s)
    <2>1. UNCHANGED <<invoice, pastDue>> /\ Phases' = Phases /\ Busy
      BY <1>2 DEF EndSweep, Phases, Busy
    <2>2. CASE Busy'
      BY <2>1, <2>2, LifeStutters DEF Busy
    <2>3. CASE ~Busy'
      <3>1. Life!EndSweep
        BY <2>1, <2>3 DEF Life!EndSweep, Phases, Busy
      <3> QED
        BY <3>1 DEF Life!Next, Life!Step
    <2> QED
      BY <2>2, <2>3
  <1>3. ASSUME NEW i \in Invoices, OpenCase(s, i) PROVE Life!Next \/ UNCHANGED Life!vars
    <2>1. Busy /\ Busy'
      BY <1>3, StillBusy
    <2>2. UNCHANGED <<invoice, pastDue>> /\ i \in pastDue
      BY <1>0, <1>3 DEF OpenCase, CasesArePastDue
    <2>3. CASE case[i].status = "none"
      <3>1. case' = [case EXCEPT ![i] = [NoCase EXCEPT !.status = "open"]]
        BY <1>3, <2>3 DEF OpenCase
      <3>2. [NoCase EXCEPT !.status = "open"].status \in Active
        BY DEF NoCase, Active
      <3> QED
        BY <2>1, <2>2, <3>1, <3>2, PhaseSteps DEF Busy
    <2>4. CASE case[i].status # "none"
      <3>1. case' = case
        BY <1>0, <1>3, <2>4 DEF OpenCase
      <3> QED
        BY <2>1, <2>2, <3>1, LifeStutters DEF Phases, Busy
    <2> QED
      BY <2>3, <2>4
  <1>4. ASSUME NEW i \in Invoices, GiveUp(s, i) PROVE Life!Next \/ UNCHANGED Life!vars
    <2>1. Busy /\ Busy'
      BY <1>4, StillBusy
    <2>2. UNCHANGED <<invoice, pastDue>> /\ case[i].status # "none"
      BY <1>0, <1>4 DEF GiveUp, CasesArePastDue
    <2>3. case' = [case EXCEPT ![i] = [case[i] EXCEPT !.status = "lost", !.wait = 0]]
      BY <1>0, <1>4 DEF GiveUp
    <2>4. [case[i] EXCEPT !.status = "lost", !.wait = 0].status \in Resolved
      BY <1>0 DEF Cases, Resolved
    <2> QED
      BY <2>1, <2>2, <2>3, <2>4, PhaseSteps DEF Busy
  <1>5. CASE MarkOverdue(s)
    <2> DEFINE I == {i \in sweep[s].found : invoice[i] = "PENDING"}
    <2>1. Busy /\ Busy' /\ UNCHANGED pastDue /\ Phases' = Phases
      BY <1>5, StillBusy DEF MarkOverdue, Phases
    <2>2. I \in SUBSET Invoices /\ \A i \in I : invoice[i] = "PENDING" /\ Phase(case[i].status) # "none"
      BY <1>0, <1>5 DEF MarkOverdue, CasesArePastDue, Sweepers, Phase
    <2>3. invoice' = [i \in Invoices |-> IF i \in I THEN "OVERDUE" ELSE invoice[i]]
      BY <1>5 DEF MarkOverdue
    <2> HIDE DEF I
    <2>4. Life!MarkOverdue(I)
      BY <2>1, <2>2, <2>3 DEF Life!MarkOverdue, Phases, Busy
    <2>5. \E J \in SUBSET Invoices : Life!MarkOverdue(J)
      BY <2>1, <2>2, <2>3 DEF Life!MarkOverdue, Phases, Busy
    <2> QED
      BY <2>5 DEF Life!Next, Life!Step
  <1>6. CASE FindDueCases(s) \/ \E i \in Invoices, h \in BOOLEAN : Publish(s, i, h)
    <2>1. Busy /\ Busy' /\ UNCHANGED <<invoice, pastDue>> /\ Phases' = Phases
      BY <1>6, StillBusy DEF FindDueCases, Publish, Phases
    <2> QED
      BY <2>1, LifeStutters DEF Busy
  <1>7. CASE RecordAttempt(s)
    <2>1. Busy /\ Busy'
      BY <1>7, StillBusy
    <2>2. PICK i \in Invoices, k \in Steps :
            /\ sweep[s].now = i /\ case' = [case EXCEPT ![i] = Advanced(s, k)]
            /\ Advanced(s, k).status = "recovering"
      BY <1>7, RecordedStep
    <2>3. UNCHANGED <<invoice, pastDue>> /\ i \in pastDue /\ Advanced(s, k).status \in Active
      BY <1>0, <1>7, <2>2 DEF RecordAttempt, Advance, CasesArePastDue, Active
    <2> QED
      BY <2>1, <2>2, <2>3, PhaseSteps DEF Busy
  <1> QED
    BY <1>1, <1>2, <1>3, <1>4, <1>5, <1>6, <1>7 DEF SweepStep

(* Payers, gateways, the owner and dying sweeps.                              *)
LEMMA EnvironmentIsLife ==
  ASSUME IInv, [Next]_vars, Environment
  PROVE  Life!Next \/ UNCHANGED Life!vars
  <1> USE DEF payment, cases
  <1>0. /\ sweep \in [Sweeps -> Sweepers] /\ case \in [Invoices -> Cases] /\ invoice \in [Invoices -> InvoiceStatuses]
        /\ CasesArePastDue
    BY DEF IInv, TypeOK
  <1>1. ASSUME NEW i \in Invoices, NEW new \in InvoiceStatuses, Settle(i, new) \/ Report(i, new)
        PROVE  Life!Next
    <2>1. Life!Move(i, new)
      BY <1>1, SameStateMachine DEF Settle, Report, Life!Move, Phases, Busy
    <2> QED
      BY <2>1, SameStateMachine DEF Life!Next, Life!Step
  <1>2. ASSUME NEW i \in Invoices, ConfirmAgain(i) \/ ReadCase(i) \/ FollowUpFails(i)
        PROVE  UNCHANGED Life!vars
    <2>1. UNCHANGED <<invoice, pastDue, sweep>> /\ Phases' = Phases
      BY <1>2 DEF ConfirmAgain, ReadCase, FollowUpFails, Phases
    <2> QED
      BY <2>1, LifeStutters DEF Busy
  <1>3. ASSUME NEW i \in Invoices, CloseCase(i) \/ CancelCase(i) PROVE Life!Next \/ UNCHANGED Life!vars
    <2>1. PICK st \in {"recovered", "cancelled"} : case' = [case EXCEPT ![i] = [case[i] EXCEPT !.status = st, !.wait = 0]]
      BY <1>0, <1>3 DEF CloseCase, CancelCase
    <2>2. [case[i] EXCEPT !.status = st, !.wait = 0].status \in Resolved
      BY <1>0 DEF Cases, Resolved
    <2>3. UNCHANGED <<invoice, pastDue, sweep>> /\ case[i].status # "none"
      BY <1>0, <1>3 DEF CloseCase, CancelCase, CasesArePastDue, Active
    <2>4. Busy' = Busy
      BY <2>3 DEF Busy
    <2> QED
      BY <2>1, <2>2, <2>3, <2>4, PhaseSteps
  <1>4. ASSUME NEW s \in Sweeps, CrashSweep(s) PROVE Life!Next \/ UNCHANGED Life!vars
    <2>1. UNCHANGED <<invoice, pastDue>> /\ Phases' = Phases /\ Busy
      BY <1>4 DEF CrashSweep, Phases, Busy
    <2>2. CASE Busy'
      BY <2>1, <2>2, LifeStutters DEF Busy
    <2>3. CASE ~Busy'
      <3>1. Life!EndSweep
        BY <2>1, <2>3 DEF Life!EndSweep, Phases, Busy
      <3> QED
        BY <3>1 DEF Life!Next, Life!Step
    <2> QED
      BY <2>2, <2>3
  <1> QED
    BY <1>1, <1>2, <1>3, <1>4 DEF Environment

(* The dunning may rely on CaseLife: cases are opened only while a sweep is at *)
(* work and only for invoices past due, they never vanish, and a resolved one  *)
(* is opened again only by a sweep (the safety part of ImplementsCaseLife).    *)
THEOREM CaseLifeIsImplemented == Spec => Life!Spec
  <1>1. Init => Life!Init
    BY DEF Init, Life!Init, NoCase, Phase, Idle
  <1>2. IInv /\ [Next]_vars => [Life!Next]_Life!vars
    <2> SUFFICES ASSUME IInv, [Next]_vars PROVE Life!Next \/ UNCHANGED Life!vars
      OBVIOUS
    <2>1. ASSUME NEW D \in SUBSET Invoices, NextDay(D) PROVE Life!Next
      <3>1. Phases' = Phases
        <4>1. \A i \in Invoices : case'[i].status = case[i].status
          BY <2>1 DEF NextDay, IInv, TypeOK, Cases
        <4> QED
          BY <4>1 DEF Phases
      <3>2. ~Busy /\ ~Busy' /\ pastDue' = pastDue \cup D /\ invoice' = invoice
        BY <2>1 DEF NextDay, Busy
      <3>3. Life!NextDay(D)
        BY <3>1, <3>2 DEF Life!NextDay, Phases, Busy
      <3> QED
        BY <3>3 DEF Life!Next
    <2>2. CASE UNCHANGED vars
      BY <2>2, LifeStutters DEF vars, Phases, Busy
    <2> QED
      BY <2>1, <2>2, SweepStepIsLife, EnvironmentIsLife DEF Next
  <1> QED
    BY RecoveryInvariance, <1>1, <1>2, PTL DEF Spec, Life!Spec
=============================================================================
