------------------------- MODULE AccessProperties --------------------------
(***************************************************************************)
(* What the turnstile may be told, and what an acceptance stands for.      *)
(***************************************************************************)
EXTENDS Access

(* RN-4304: what is on record is what the turnstile was told, but while a      *)
(* sweep is between the two, or if since they last agreed a webhook failed or  *)
(* was skipped, a sweep died between the two, or sweeps overlapped.            *)
RecordIsTold == turnstile # Known => missed \/ \E s \in Sweeps : Told(s)

(* When the decision stays the same, the turnstile is told of it in the end,   *)
(* unless it has missed a change: nothing is sent again.                       *)
TurnstileCatchesUp ==
  \A d \in States :
    <>[](Decision = d) => <>[](turnstile = d) \/ <>[]missed

(* RN-4001, RN-4003, RN-4204: whoever counts as having accepted the contract   *)
(* has accepted what it says now, but if an editor has saved over a contract   *)
(* it had not seen, or has switched between text and file.                     *)
AcceptedIsShown == ContractAccepted => accepted.content = Content(contract) \/ blurred

(* A row stands behind what is in force, and no version of an acceptance, on   *)
(* its way or recorded, is ahead of it or of another content.                  *)
InForce == contract.enabled => contract.version > 0

Answers(v, content) ==
  v <= contract.version /\ (v = contract.version /\ v > 0 => content = Content(contract))

VersionsAreContents ==
  blurred \/ /\ Answers(accepted.highest, accepted.content)
             /\ \A r \in Requests : request[r].at = "recording" =>
                  Answers(request[r].version, request[r].content)

(* What the sweeps have sent and not stored, and what they store unsent.       *)
SentIsCurrent ==
  \A s \in Sweeps : Told(s) /\ (\A w \in Sweeps \ {s} : ~Told(w)) =>
    missed \/ turnstile = sweep[s].to

UnsentIsFirst ==
  \A s \in Sweeps : sweep[s].at = "storing" /\ ~sweep[s].sent =>
    missed \/ (accessState = Never /\ sweep[s].to = "allowed")

IInv ==
  /\ TypeOK
  /\ RecordIsTold /\ SentIsCurrent /\ UnsentIsFirst
  /\ InForce /\ AcceptedIsShown /\ VersionsAreContents

=============================================================================
