------------------------------- MODULE Churn -------------------------------
(***************************************************************************)
(* Clients who leave.  A request to cancel a subscription is resolved by   *)
(* the owner, who saves it with an offer or cancels it; a daily sweep      *)
(* enrols the cancelled subscriptions and, some days later, charges each   *)
(* client once for a discounted return.                                    *)
(*                                                                         *)
(* retention.service.ts, winback.service.ts and their repositories.        *)
(***************************************************************************)
EXTENDS Naturals, FiniteSets

CONSTANTS
  Subs,        \* subscriptions
  CancellationRequests,    \* ids of cancellation requests
  Resolvers,   \* HTTP requests that resolve them
  Offers,      \* SaveOffer: "pause", "discount", and others that are only recorded
  Sweeps,      \* runs of the winback
  DaysAfter,   \* WinbackSetting.daysAfter
  Nobody,
  MaxFailedCalls, \* bound: how many calls of the sweeps may fail
  MaxCrashes   \* bound: how many sweeps may die, or fail in a catch too

ASSUME ChurnAssumption ==
  /\ DaysAfter \in Nat /\ MaxFailedCalls \in Nat /\ MaxCrashes \in Nat
  /\ Nobody \notin Subs \cup CancellationRequests

VARIABLES
  status,     \* Subscription.status
  discounted, \* subscriptions with discountUntil in the future
  silent,     \* subscriptions whose client has no telephone
  cancellationRequest,    \* the CancellationRequest rows
  resolver,   \* what each resolution holds in memory: the request as it was read, and its outcome
  case,       \* WinbackCase: status, and days since eligibleAt
  reserved,   \* return invoices of a subscription that have no charge
  attached,   \* return invoices of a subscription that have one
  charges,    \* charges the gateway has made of them
  lost,       \* those whose answer was lost
  messages,   \* offers published to the queue
  sweep,      \* what each sweep holds in memory
  ran,        \* sweeps of today
  failedCalls,
  crashes

subscriptions == <<status, discounted, silent>>
requests == <<cancellationRequest, resolver>>
returns == <<reserved, attached, charges, lost, messages>>
sweeps == <<sweep, ran, failedCalls, crashes>>
churnVars == <<subscriptions, requests, case, returns, sweeps>>

Statuses == {"ACTIVE", "PAUSED", "CANCELED"}
Outcomes == {"saved", "cancelled"}

NoRequest == [status |-> "none", sub |-> Nobody, offer |-> "none"]
RequestRows == {NoRequest} \cup
  [status : {"open"} \cup Outcomes, sub : Subs, offer : Offers \cup {"none"}]

NoResolution == [id |-> Nobody, seen |-> NoRequest, outcome |-> "none", offer |-> "none"]
Resolutions == {NoResolution} \cup
  [id : CancellationRequests, seen : RequestRows, outcome : Outcomes, offer : Offers \cup {"none"}]

CaseStatuses == {"none", "pending", "sending", "sent", "skipped"}

Labels == {"idle", "enrolling", "looping", "claimed", "reserved", "failed", "charged",
           "attached", "published", "rescuing"}
Resting == [label |-> "idle", found |-> {}, due |-> {}, skip |-> {}, now |-> Nobody]

ChurnTypeOK ==
  /\ status \in [Subs -> Statuses]
  /\ discounted \subseteq Subs
  /\ silent \subseteq Subs
  /\ cancellationRequest \in [CancellationRequests -> RequestRows]
  /\ resolver \in [Resolvers -> Resolutions]
  /\ case \in [Subs -> [status : CaseStatuses, age : 0 .. DaysAfter]]
  /\ reserved \in [Subs -> Nat] /\ attached \in [Subs -> Nat]
  /\ charges \in [Subs -> Nat] /\ lost \in [Subs -> Nat] /\ messages \in [Subs -> Nat]
  /\ sweep \in [Sweeps -> [label : Labels, found : SUBSET Subs, due : SUBSET Subs,
                           skip : SUBSET Subs, now : Subs \cup {Nobody}]]
  /\ ran \subseteq Sweeps
  /\ failedCalls \in 0 .. MaxFailedCalls
  /\ crashes \in 0 .. MaxCrashes

ChurnInit ==
  /\ status = [s \in Subs |-> "ACTIVE"]
  /\ discounted = {}
  /\ silent = {}
  /\ cancellationRequest = [q \in CancellationRequests |-> NoRequest]
  /\ resolver = [r \in Resolvers |-> NoResolution]
  /\ case = [s \in Subs |-> [status |-> "none", age |-> 0]]
  /\ reserved = [s \in Subs |-> 0] /\ attached = [s \in Subs |-> 0]
  /\ charges = [s \in Subs |-> 0] /\ lost = [s \in Subs |-> 0] /\ messages = [s \in Subs |-> 0]
  /\ sweep = [w \in Sweeps |-> Resting]
  /\ ran = {}
  /\ failedCalls = 0
  /\ crashes = 0

-----------------------------------------------------------------------------
(* The owner.                                                                *)

(* PUT /subscriptions/:id: any status, at any time.                          *)
UpdateSubscription(s, new) ==
  /\ status' = [status EXCEPT ![s] = new]
  /\ UNCHANGED <<discounted, silent, requests, case, returns, sweeps>>

(* The owner enters or deletes a telephone: PUT /clientes/:id.                *)
UpdateClient(s) ==
  /\ silent' = IF s \in silent THEN silent \ {s} ELSE silent \cup {s}
  /\ UNCHANGED <<status, discounted, requests, case, returns, sweeps>>

(* A subscription may have several open requests, and be cancelled already.   *)
OpenRequest(q, s) ==
  /\ cancellationRequest[q] = NoRequest
  /\ cancellationRequest' = [cancellationRequest EXCEPT ![q] =
       [status |-> "open", sub |-> s, offer |-> "none"]]
  /\ UNCHANGED <<subscriptions, resolver, case, returns, sweeps>>

ReadThen(r, q, outcome, offer) ==
  /\ resolver[r] = NoResolution
  /\ offer = "none" <=> outcome = "cancelled"
  /\ resolver' = [resolver EXCEPT ![r] =
       [id |-> q, seen |-> cancellationRequest[q], outcome |-> outcome, offer |-> offer]]
  /\ UNCHANGED <<subscriptions, cancellationRequest, case, returns, sweeps>>

(* Mutant of ReadRequest: a request that was resolved is resolved again.      *)
ReadAnyRequest(r, q, outcome, offer) ==
  /\ cancellationRequest[q].status # "none"
  /\ ReadThen(r, q, outcome, offer)

(* findByIdForTenant; who finds it resolved answers 409.                      *)
ReadRequest(r, q, outcome, offer) ==
  /\ cancellationRequest[q].status = "open"
  /\ ReadThen(r, q, outcome, offer)

ResolveTo(r, canceled) ==
  LET res == resolver[r]
      s == res.seen.sub IN
  /\ res # NoResolution
  /\ status' = [status EXCEPT ![s] = IF res.outcome = "cancelled" THEN canceled
                                     ELSE IF res.offer = "pause" THEN "PAUSED" ELSE @]
  /\ discounted' = IF res.offer = "discount" THEN discounted \cup {s} ELSE discounted
  /\ cancellationRequest' = [cancellationRequest EXCEPT ![res.id].status = res.outcome,
                                                          ![res.id].offer = res.offer]
  /\ resolver' = [resolver EXCEPT ![r] = NoResolution]
  /\ UNCHANGED <<silent, case, returns, sweeps>>

(* The transaction of RetentionRepository.resolve, which tests nothing.       *)
Resolve(r) == ResolveTo(r, "CANCELED")

(* Discounts are disabled, the transaction rolls back, or the process dies.   *)
ResolveFails(r) ==
  /\ resolver[r] # NoResolution
  /\ resolver' = [resolver EXCEPT ![r] = NoResolution]
  /\ UNCHANGED <<subscriptions, cancellationRequest, case, returns, sweeps>>

-----------------------------------------------------------------------------
(* The sweep of one tenant: sweepTenant.                                      *)

Elsewhere == <<subscriptions, requests>>

At(w, label) == sweep[w].label = label

To(w, label) == sweep' = [sweep EXCEPT ![w].label = label]

(* findCanceledSubsWithoutCase.  The owner may turn the winback off.          *)
StartSweep(w) ==
  /\ At(w, "idle")
  /\ w \notin ran
  /\ sweep' = [sweep EXCEPT ![w].label = "enrolling",
       ![w].found = {s \in Subs : status[s] = "CANCELED" /\ case[s].status = "none"}]
  /\ UNCHANGED <<Elsewhere, case, returns, ran, failedCalls, crashes>>

(* createCase; a case that exists is left alone, for subscriptionId is unique. *)
Enroll(w, s) ==
  /\ At(w, "enrolling")
  /\ s \in sweep[w].found
  /\ case' = IF case[s].status = "none" THEN [case EXCEPT ![s] = [status |-> "pending", age |-> 0]] ELSE case
  /\ sweep' = [sweep EXCEPT ![w].found = @ \ {s}]
  /\ UNCHANGED <<Elsewhere, returns, ran, failedCalls, crashes>>

Due(s) == case[s].status = "pending" /\ case[s].age >= DaysAfter

FindDueCases(w) ==
  /\ At(w, "enrolling")
  /\ sweep[w].found = {}
  /\ sweep' = [sweep EXCEPT ![w].label = "looping", ![w].due = {s \in Subs : Due(s)},
                            ![w].skip = {s \in silent : Due(s)}]
  /\ UNCHANGED <<Elsewhere, case, returns, ran, failedCalls, crashes>>

(* markSkipped, by what was read of the client; worthless offers are skipped   *)
(* in the same way.                                                           *)
Skip(w, s) ==
  /\ At(w, "looping")
  /\ s \in sweep[w].due \cap sweep[w].skip
  /\ case' = [case EXCEPT ![s].status = "skipped"]
  /\ sweep' = [sweep EXCEPT ![w].due = @ \ {s}, ![w].skip = @ \ {s}]
  /\ UNCHANGED <<Elsewhere, returns, ran, failedCalls, crashes>>

ClaimIf(free, w, s) ==
  /\ At(w, "looping")
  /\ s \in sweep[w].due \ sweep[w].skip
  /\ case' = IF free THEN [case EXCEPT ![s].status = "sending"] ELSE case
  /\ sweep' = [sweep EXCEPT ![w].due = @ \ {s}, ![w].label = IF free THEN "claimed" ELSE @,
                            ![w].now = IF free THEN s ELSE @]
  /\ UNCHANGED <<Elsewhere, returns, ran, failedCalls, crashes>>

(* Mutant of Claim: the list that was read is trusted.                        *)
ClaimBlindly(w, s) == ClaimIf(TRUE, w, s)

(* claimForSending: updateMany where status is pending.                       *)
Claim(w, s) == ClaimIf(case[s].status = "pending", w, s)

ReserveInvoice(w) ==
  /\ At(w, "claimed")
  /\ reserved' = [reserved EXCEPT ![sweep[w].now] = @ + 1]
  /\ To(w, "reserved")
  /\ UNCHANGED <<Elsewhere, case, attached, charges, lost, messages, ran, failedCalls, crashes>>

CreateCharge(w) ==
  /\ At(w, "reserved")
  /\ charges' = [charges EXCEPT ![sweep[w].now] = @ + 1]
  /\ To(w, "charged")
  /\ UNCHANGED <<Elsewhere, case, reserved, attached, lost, messages, ran, failedCalls, crashes>>

FailTo(w, label) ==
  /\ failedCalls < MaxFailedCalls
  /\ failedCalls' = failedCalls + 1
  /\ To(w, label)
  /\ UNCHANGED <<Elsewhere, case, reserved, attached, messages, ran, crashes>>

(* The invoice cannot be stored, or the gateway refuses the charge.           *)
ChargeFails(w) ==
  /\ At(w, "claimed") \/ At(w, "reserved")
  /\ FailTo(w, "failed")
  /\ UNCHANGED <<charges, lost>>

(* The gateway makes the charge, and its answer does not arrive.              *)
AnswerLost(w) ==
  /\ At(w, "reserved")
  /\ FailTo(w, "failed")
  /\ charges' = [charges EXCEPT ![sweep[w].now] = @ + 1]
  /\ lost' = [lost EXCEPT ![sweep[w].now] = @ + 1]

(* Mutant of RevertToPending: the case is not given back.                     *)
KeepSending(w) ==
  /\ At(w, "failed")
  /\ sweep' = [sweep EXCEPT ![w].label = "looping", ![w].now = Nobody]
  /\ UNCHANGED <<Elsewhere, case, returns, ran, failedCalls, crashes>>

(* revertToPending; the reserved invoice stays.                               *)
RevertToPending(w) ==
  LET s == sweep[w].now IN
  /\ At(w, "failed")
  /\ case' = [case EXCEPT ![s].status = IF @ = "sending" THEN "pending" ELSE @]
  /\ sweep' = [sweep EXCEPT ![w].label = "looping", ![w].now = Nobody]
  /\ UNCHANGED <<Elsewhere, returns, ran, failedCalls, crashes>>

AttachCharge(w) ==
  LET s == sweep[w].now IN
  /\ At(w, "charged")
  /\ reserved' = [reserved EXCEPT ![s] = @ - 1]
  /\ attached' = [attached EXCEPT ![s] = @ + 1]
  /\ To(w, "attached")
  /\ UNCHANGED <<Elsewhere, case, charges, lost, messages, ran, failedCalls, crashes>>

PublishOffer(w) ==
  /\ At(w, "attached")
  /\ messages' = [messages EXCEPT ![sweep[w].now] = @ + 1]
  /\ To(w, "published")
  /\ UNCHANGED <<Elsewhere, case, reserved, attached, charges, lost, ran, failedCalls, crashes>>

(* Something fails though the charge exists.                                  *)
AfterworkFails(w) ==
  /\ \E label \in {"charged", "attached", "published"} : At(w, label)
  /\ FailTo(w, "rescuing")
  /\ UNCHANGED <<charges, lost>>

(* markSent, in the try or in the catch.                                      *)
MarkSent(w) ==
  /\ At(w, "published") \/ At(w, "rescuing")
  /\ case' = [case EXCEPT ![sweep[w].now].status = "sent"]
  /\ sweep' = [sweep EXCEPT ![w].label = "looping", ![w].now = Nobody]
  /\ UNCHANGED <<Elsewhere, returns, ran, failedCalls, crashes>>

(* The write of a catch fails and is forgotten: .catch(() => {}).             *)
CatchFails(w) ==
  /\ At(w, "failed") \/ At(w, "rescuing")
  /\ crashes < MaxCrashes
  /\ crashes' = crashes + 1
  /\ sweep' = [sweep EXCEPT ![w].label = "looping", ![w].now = Nobody]
  /\ UNCHANGED <<Elsewhere, case, returns, ran, failedCalls>>

EndSweep(w) ==
  /\ At(w, "looping")
  /\ sweep[w].due = {}
  /\ sweep' = [sweep EXCEPT ![w] = Resting]
  /\ ran' = ran \cup {w}
  /\ UNCHANGED <<Elsewhere, case, returns, failedCalls, crashes>>

(* The process dies, or an await outside of the tries throws.                 *)
CrashSweep(w) ==
  /\ ~At(w, "idle")
  /\ crashes < MaxCrashes
  /\ crashes' = crashes + 1
  /\ sweep' = [sweep EXCEPT ![w] = Resting]
  /\ ran' = ran \cup {w}
  /\ UNCHANGED <<Elsewhere, case, returns, failedCalls>>

-----------------------------------------------------------------------------
(* Discounts run out at the end of a day.                                     *)
NextDay ==
  /\ \A w \in Sweeps : At(w, "idle")
  /\ ran' = {}
  /\ case' = [s \in Subs |-> IF case[s].status = "none" \/ case[s].age = DaysAfter THEN case[s]
                             ELSE [case[s] EXCEPT !.age = @ + 1]]
  /\ discounted' \in SUBSET discounted
  /\ UNCHANGED <<status, silent, requests, returns, sweep, failedCalls, crashes>>

SweepStep(w) ==
  \/ StartSweep(w)
  \/ \E s \in Subs : Enroll(w, s) \/ Skip(w, s) \/ Claim(w, s)
  \/ FindDueCases(w)
  \/ ReserveInvoice(w) \/ CreateCharge(w) \/ AttachCharge(w) \/ PublishOffer(w) \/ MarkSent(w)
  \/ RevertToPending(w)
  \/ EndSweep(w)

Fault(w) ==
  ChargeFails(w) \/ AnswerLost(w) \/ AfterworkFails(w) \/ CatchFails(w) \/ CrashSweep(w)

OwnerStep ==
  \/ \E s \in Subs, new \in Statuses : UpdateSubscription(s, new)
  \/ \E s \in Subs : UpdateClient(s)
  \/ \E q \in CancellationRequests, s \in Subs : OpenRequest(q, s)
  \/ \E r \in Resolvers, q \in CancellationRequests, outcome \in Outcomes, offer \in Offers \cup {"none"} :
       ReadRequest(r, q, outcome, offer)
  \/ \E r \in Resolvers : Resolve(r) \/ ResolveFails(r)

ChurnNext ==
  \/ OwnerStep
  \/ \E w \in Sweeps : SweepStep(w) \/ Fault(w)
  \/ NextDay

ChurnSpec == ChurnInit /\ [][ChurnNext]_churnVars

(* run-daily-billing.sh starts a sweep every day, while the winback is on; one *)
(* that does not die goes on.                                                  *)
FairSpec == ChurnSpec /\ (\A w \in Sweeps : WF_churnVars(SweepStep(w))) /\ WF_churnVars(NextDay)

=============================================================================
