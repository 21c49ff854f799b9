------------------------- MODULE RecoveryProperties -------------------------
(* What must be true of Recovery, and what the documents say of it.          *)
EXTENDS Recovery

(* The attempts on record are the steps 1 .. k of the sequence, and the case  *)
(* stands at one of them, even when two sweeps advance it at once: a step is  *)
(* never skipped (RN-3303).                                                   *)
AttemptsFollowSteps ==
  \A i \in Invoices :
    /\ \A k \in attempts[i] : 1 .. k \subseteq attempts[i]
    /\ 1 .. case[i].step \subseteq attempts[i]

(* An attempt on record was published: a sweep that dies in between repeats   *)
(* a message, it does not lose one.                                           *)
AttemptsWereSent ==
  \A i \in Invoices : \A k \in attempts[i] : sent[i][k] > 0

(* A case is given up only after every step was tried (RN-3307), however      *)
(* stale the sweep that gives it up.                                          *)
LostAfterAllSteps ==
  \A i \in Invoices : case[i].status = "lost" => attempts[i] = Steps

(* Sweep s has read the case of i as active and has not dealt with it yet.    *)
Holds(s, i) == i \in sweep[s].due \/ sweep[s].now = i

(* A resolved case changes only through somebody who read it while it was     *)
(* active: a sweep that has it in its list, or the follow-up of a settlement. *)
ResolvedLeftOnlyByStaleReader ==
  [][\A i \in Invoices :
       case[i].status \in Resolved /\ case'[i].status # case[i].status =>
         closer[i] = "closing" \/ \E s \in Sweeps : Holds(s, i)]_vars

-----------------------------------------------------------------------------
(* Recovery implements CaseLife, on which the dunning relies.                 *)

Phase(status) ==
  IF status = "none" THEN "none" ELSE IF status \in Active THEN "active" ELSE "over"

Life == INSTANCE CaseLife
        WITH case <- [i \in Invoices |-> Phase(case[i].status)],
             busy <- \E s \in Sweeps : sweep[s].label # "idle"

(* Cases are opened only by sweeps, of invoices past due, never vanish, and    *)
(* end: what the dunning may rely on, whatever overlaps, dies or is stale.    *)
ImplementsCaseLife == Life!FairSpec

-----------------------------------------------------------------------------
(* Why they hold: an inductive invariant.                                     *)

(* What a sweep has read of a case is history that the tables still show.     *)
ReadsAreHistory ==
  \A s \in Sweeps : \A i \in Invoices : 1 .. sweep[s].seen[i].step \subseteq attempts[i]

(* The message that is being recorded was published.                          *)
PublishedFirst ==
  \A s \in Sweeps : sweep[s].label = "published" =>
    /\ sweep[s].now \in Invoices
    /\ sweep[s].seen[sweep[s].now].step < MaxSteps
    /\ sent[sweep[s].now][sweep[s].seen[sweep[s].now].step + 1] > 0

(* Only an invoice that is past due has a case, and only such an invoice, or   *)
(* one with a case, is in the hands of a sweep or of a follow-up.             *)
CasesArePastDue ==
  /\ \A i \in Invoices :
       /\ case[i].status # "none" => i \in pastDue
       /\ closer[i] = "closing" => case[i].status # "none"
  /\ \A s \in Sweeps :
       /\ sweep[s].found \subseteq pastDue
       /\ sweep[s].todo \subseteq sweep[s].found
       /\ sweep[s].label = "opening" =>
            \A i \in sweep[s].found \ sweep[s].todo : case[i].status # "none"
       /\ \A i \in sweep[s].due : case[i].status # "none"
       /\ sweep[s].label = "published" => case[sweep[s].now].status # "none"

IInv ==
  /\ TypeOK
  /\ CasesArePastDue
  /\ AttemptsFollowSteps
  /\ AttemptsWereSent
  /\ LostAfterAllSteps
  /\ ReadsAreHistory
  /\ PublishedFirst
=============================================================================
