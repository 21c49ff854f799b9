------------------------- MODULE DunningProperties -------------------------
(***************************************************************************)
(* What the reminders owe to the payer, alone and together with Recovery.  *)
(***************************************************************************)
EXTENDS Dunning

(* The run publishes a message about the invoice.                             *)
Sends(r, i) == i \in run[r].todo /\ i \notin run'[r].todo /\ run'[r].now = i

(* RN-3302: while a case is active the recovery alone talks to the payer,      *)
(* provided that the run comes after the sweep, as in the cron's script.       *)
RecoveryOwnsCommunication ==
  [][\A r \in Runs, i \in Invoices :
       Sends(r, i) /\ run[r].alone /\ run[r].label = "looping" => case[i] # "active"]_reguaVars

(* How often a run of a day may publish a step that another run has marked,    *)
(* because a third, out of date, sets the mark back.                           *)
SetBack == IF Cardinality(Runs) > 2 THEN Cardinality(Runs) - 2 ELSE 0

(* RN-2607: a step is marked only when it, and every step before it, was       *)
(* published, also by runs that overlap and when one dies in between; and it   *)
(* is published once by each run of a day, once more by a run that dies before *)
(* it marks it, and again when the mark is set back (markReminderStep writes   *)
(* whatever the run has read), which takes three runs at once and happens no   *)
(* more than once for each step before it.                                     *)
RemindersBounded ==
  /\ ReguaTypeOK
  /\ \A i \in Invoices, k \in ReguaSteps :
       /\ k <= reminderStep[i] => reminded[i][k] >= 1
       /\ reminded[i][k] <= Cardinality(Runs) + (k - 1) * SetBack + crashes

(* Whoever has paid or renegotiated hears nothing from the next day on,        *)
(* whatever list is in the cache.                                              *)
SettledIsLeftAlone ==
  [][\A r \in Runs, i \in Invoices : Sends(r, i) => i \notin settledBefore]_reguaVars

(* An invoice that stays open, with fewer such before it than Limit, gets its  *)
(* last step while the régua goes on being run: the recovery of the invoice    *)
(* only delays it, and so do runs that die. (The code drops whatever is beyond *)
(* Limit, so it is checked with invoices that fit.)                            *)
EveryStepSent ==
  \A i \in Invoices :
    <>[]Open(i) /\ []<>(\E r \in Runs : run[r].label = "looping")
      => <>(reminderStep[i] = Len(Offsets))

-----------------------------------------------------------------------------
(* Why they hold: an inductive invariant, part by part.                       *)

Running(r) == run[r].label # "idle"

(* What a run has read was published, and so was what it is about to mark.     *)
ReadsWerePublished ==
  /\ \A i \in Invoices, k \in ReguaSteps : k <= reminderStep[i] => reminded[i][k] >= 1
  /\ \A r \in Runs :
       /\ \A i \in Invoices, k \in ReguaSteps : k <= run[r].seen[i] => reminded[i][k] >= 1
       /\ \A i \in Invoices : run[r].seen[i] <= Len(Offsets)
       /\ Running(r) => r \notin notified
       /\ ~Running(r) => run[r] = Rested
       /\ run[r].label = "reminded" =>
            /\ run[r].now \in Invoices \ run[r].todo
            /\ run[r].seen[run[r].now] + 1 \in ReguaSteps
            /\ reminded[run[r].now][run[r].seen[run[r].now] + 1] >= 1

(* The runs of today that are through with an invoice; those that have         *)
(* published step k of it and not marked it yet, and those that have published *)
(* another step.                                                               *)
Done(i) == {r \in Runs : \/ r \in notified
                         \/ run[r].label \in {"candidates", "looping", "reminded"} /\ i \notin run[r].todo}
Unmarked(i) == {r \in Runs : run[r].label = "reminded" /\ run[r].now = i}
Marking(i, k) == {r \in Unmarked(i) : run[r].seen[i] + 1 = k}
MarkingOthers(i, k) == {r \in Unmarked(i) : run[r].seen[i] + 1 # k}

(* The account of invoice i on a day that began with step m marked.  Today's   *)
(* messages of step k are as many as the runs that are through with the        *)
(* invoice; those that have marked an earlier step, and those that have set    *)
(* the mark back, did not publish k.                                           *)
Account(i, m, k) ==
  LET before == m * SetBack + crashes
      done == Cardinality(Done(i))
      marking == Cardinality(Marking(i, k))
      others == Cardinality(MarkingOthers(i, k))
  IN  /\ k <= m => reminded[i][k] <= Cardinality(Runs) + (k - 1) * SetBack + crashes
      /\ k > m => reminded[i][k] <= before + done
      /\ k > m /\ reminderStep[i] = m => reminded[i][k] <= before + marking
      /\ k > m + 1 /\ reminderStep[i] > m => reminded[i][k] + 1 + others <= before + done
      /\ k > m + 1 /\ reminderStep[i] \in m + 1 .. k - 1 =>
           \/ reminded[i][k] <= before + marking
           \/ reminded[i][k] + 2 + others <= before + done

(* No run of today has read less than was marked when the day began, or more   *)
(* as long as nothing else is marked.                                          *)
DayBegan(i, m) ==
  /\ m <= reminderStep[i]
  /\ \A r \in Runs : Running(r) =>
       /\ m <= run[r].seen[i]
       /\ reminderStep[i] = m => run[r].seen[i] = m

RemindersAccountedFor ==
  \A i \in Invoices : \E m \in 0 .. Len(Offsets) :
    DayBegan(i, m) /\ \A k \in ReguaSteps : Account(i, m, k)

(* A run that is between two invoices is about none.                           *)
TellsOfNone == \A r \in Runs : run[r].label \in {"candidates", "looping"} => run[r].now = "none"

(* A run that no sweep has joined knows every case there is.                   *)
CasesAreKnown ==
  \A r \in Runs : run[r].alone =>
    /\ ~busy
    /\ run[r].label \in {"looping", "reminded"} => \A i \in Invoices : case[i] = "active" => i \in run[r].skip

(* What was settled yesterday is on no list.                                   *)
SettledIsUnlisted ==
  /\ \A i \in settledBefore : invoice[i] \in {"PAID", "RENEGOTIATED"}
  /\ \A r \in Runs : run[r].todo \cap settledBefore = {}
  /\ cached # NoList => cached \cap settledBefore = {}

ReguaIInv ==
  /\ ReguaTypeOK
  /\ ReadsWerePublished
  /\ RemindersAccountedFor
  /\ TellsOfNone
  /\ CasesAreKnown
  /\ SettledIsUnlisted

=============================================================================
