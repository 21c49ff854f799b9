-------------------------- MODULE ChurnProperties --------------------------
(***************************************************************************)
(* What is owed to a client who leaves, and what the documents say of it.  *)
(***************************************************************************)
EXTENDS Churn

(* Somebody's return is in the hands of sweep w.                              *)
Handling(w, s) == sweep[w].now = s

(* RN-4502, and the claim of spec 0054: sweeps that overlap, die or fail       *)
(* charge a client for a return once, and once more for each charge whose      *)
(* answer was lost.  The money asked for and the case do not part: a case is   *)
(* marked sent, if ever, after its charge, and waits for another try only when *)
(* no charge is known of.                                                      *)
ReturnChargedOnce ==
  /\ ChurnTypeOK
  /\ \A s \in Subs :
       /\ charges[s] <= 1 + lost[s]
       /\ case[s].status = "sent" => charges[s] > 0
       /\ case[s].status \in {"none", "pending"} => charges[s] = lost[s]

(* A resolved request changes only through somebody who read it while it was   *)
(* open.                                                                       *)
ResolvedAgainByStaleReader ==
  [][\A q \in CancellationRequests :
       cancellationRequest[q].status \in Outcomes /\ cancellationRequest'[q] # cancellationRequest[q] =>
         \E r \in Resolvers : resolver[r].id = q /\ resolver[r].seen.status = "open"]_churnVars

(* A claimed case that no sweep holds: its sweep died, or could not write.     *)
Abandoned(s) == case[s].status = "sending" /\ \A w \in Sweeps : ~Handling(w, s)

(* RN-4501, RN-4502: whoever stays away is enrolled, and gets the offer or is  *)
(* skipped, unless a sweep that died has left the case claimed.                *)
LeaverGetsOffer ==
  \A s \in Subs :
    <>[](status[s] = "CANCELED")
      => <>(case[s].status \in {"sent", "skipped"} \/ (Abandoned(s) /\ crashes > 0))

-----------------------------------------------------------------------------
(* Why they hold: what is true whenever a step begins.                        *)

(* What a sweep has to do with the return it has in hand: before the charge,   *)
(* and after it.                                                               *)
BeforeCharge == {"claimed", "reserved", "failed"}
AfterCharge == {"charged", "attached", "published", "rescuing"}

(* A return is in the hands of one sweep at most, whose case is claimed, or    *)
(* has been skipped by a sweep that read it as due before it was.              *)
OneSweepHandles ==
  /\ \A w \in Sweeps : sweep[w].now # Nobody <=> sweep[w].label \in BeforeCharge \cup AfterCharge
  /\ \A v, w \in Sweeps, s \in Subs : Handling(v, s) /\ Handling(w, s) => v = w
  /\ \A w \in Sweeps, s \in Subs : Handling(w, s) => case[s].status \in {"sending", "skipped"}

(* Beside the lost charges there is one at most: none before a sweep has made  *)
(* it, one when it has or the case says so.  Who is about to attach a charge   *)
(* has an invoice to attach it to.                                             *)
ChargesAreKnown ==
  \A s \in Subs :
    /\ charges[s] \in {lost[s], lost[s] + 1}
    /\ case[s].status \in {"none", "pending"} => charges[s] = lost[s]
    /\ case[s].status = "sent" => charges[s] = lost[s] + 1
    /\ \A w \in Sweeps : Handling(w, s) =>
         /\ sweep[w].label \in BeforeCharge => charges[s] = lost[s]
         /\ sweep[w].label \in AfterCharge => charges[s] = lost[s] + 1
         /\ sweep[w].label \in {"reserved", "charged"} => reserved[s] > 0

(* Who resolves a request has read it open, so it is one that was made.        *)
ReadersSawItOpen ==
  \A r \in Resolvers : resolver[r] # NoResolution =>
    /\ resolver[r].seen.status = "open"
    /\ cancellationRequest[resolver[r].id] # NoRequest

ChurnIInv == ChurnTypeOK /\ OneSweepHandles /\ ChargesAreKnown /\ ReadersSawItOpen

=============================================================================
