------------------------------- MODULE Access -------------------------------
(***************************************************************************)
(* Who may enter: the contract a client has accepted, the decision that    *)
(* follows from it and from what the client owes, and the sweep that tells *)
(* the turnstile. One client of one tenant.                                *)
(*                                                                         *)
(* contract.service.ts, access.service.ts, access-integration.service.ts,  *)
(* domain/access.ts and their repositories.                                *)
(***************************************************************************)
EXTENDS Integers

CONSTANTS
  Texts,       \* what a contract may say
  Blank,       \* one of them: nothing
  Edits,       \* forms the owner may save: see Forms
  Graces,      \* values of graceDays
  Setups,      \* settings a tenant may have made before it writes a contract
  Patience,    \* days late after which no day makes a difference
  Sweeps,      \* runs of runForTenant, which may overlap
  Requests,    \* saves of the contract and acceptances
  MaxChanges,  \* bound: what the owner does
  MaxCrashes   \* bound: sweeps that die

(* An omitted field of a form is kept.                                       *)
Keep == "keep"
Modes == {"text", "file"}
Forms == [enabled : {Keep, "on", "off"}, text : Texts \cup {Keep}, mode : Modes \cup {Keep}]

Settings == [enabled : BOOLEAN, graceDays : Graces, requireSignedContract : BOOLEAN]

ASSUME AccessAssumption ==
  /\ Blank \in Texts /\ Keep \notin Texts
  /\ Edits \subseteq Forms /\ Setups \subseteq Settings
  /\ Graces \subseteq Nat /\ Patience \in Nat /\ \A g \in Graces : g < Patience
  /\ MaxChanges \in Nat /\ MaxCrashes \in Nat

VARIABLES
  late,         \* days of the oldest invoice that is due, NotDue without one
  settings,     \* AccessSetting
  configured,   \* AccessIntegration is enabled and has a webhook
  override,     \* Client.accessOverride
  accessState,  \* Client.accessState
  contract,     \* ContractSetting
  accepted,     \* ContractAcceptance: the version of the last row, the highest one and its content
  blurred,      \* why a version may have had two contents
  turnstile,    \* what it was last told
  missed,       \* why it may have been told something else than accessState
  sweep,        \* what each sweep holds
  request,      \* what each request holds
  changes,
  crashes

owners == <<settings, configured, override, changes>>
vars == <<late, owners, accessState, contract, accepted, blurred, turnstile, missed, sweep, request, crashes>>

NotDue == -1
States == {"allowed", "grace", "blocked"}
Never == "never"

(* version 0 is no row yet; file numbers the uploads, 0 before the first.    *)
Contracts == [enabled : BOOLEAN, text : Texts, mode : Modes, file : Nat, version : Nat]
NoContract == [enabled |-> FALSE, text |-> Blank, mode |-> "text", file |-> 0, version |-> 0]

(* What the client is shown.                                                 *)
Contents == Texts \cup Nat
Content(c) == IF c.mode = "file" THEN c.file ELSE c.text

Idle == [at |-> "idle"]
SweepStates == {Idle} \cup [at : {"dispatching"}, to : States]
                      \cup [at : {"storing"}, to : States, sent : BOOLEAN]
Pending == {Idle} \cup [at : {"saving"}, form : Forms, seen : Contracts]
                  \cup [at : {"uploading"}, seen : Contracts]
                  \cup [at : {"recording"}, version : Nat, content : Contents]

TypeOK ==
  /\ late \in NotDue .. Patience
  /\ settings \in Settings /\ configured \in BOOLEAN /\ override \in {"allow", "block", "none"}
  /\ accessState \in States \cup {Never} /\ turnstile \in States /\ missed \in BOOLEAN
  /\ contract \in Contracts
  /\ accepted \in [latest : Nat, highest : Nat, content : Contents] /\ blurred \in BOOLEAN
  /\ sweep \in [Sweeps -> SweepStates] /\ request \in [Requests -> Pending]
  /\ changes \in Nat /\ crashes \in Nat

Init ==
  /\ late = NotDue
  /\ settings \in Setups /\ configured \in BOOLEAN /\ override = "none"
  /\ accessState = Never /\ turnstile = "allowed" /\ missed = FALSE
  /\ contract = NoContract /\ blurred = FALSE
  /\ accepted = [latest |-> 0, highest |-> 0, content |-> Blank]
  /\ sweep = [s \in Sweeps |-> Idle] /\ request = [r \in Requests |-> Idle]
  /\ changes = 0 /\ crashes = 0

-----------------------------------------------------------------------------
(* The decision: decideAccess over findAccessInputs. The turnstile that asks *)
(* (GET /access/check) is answered with it.                                  *)

ContractAccepted == contract.enabled /\ accepted.highest >= contract.version

Decision ==
  CASE override = "allow" -> "allowed"
    [] override = "block" -> "blocked"
    [] override = "none" ->
         IF \/ ~settings.enabled
            \/ late = NotDue
            \/ settings.requireSignedContract /\ ~ContractAccepted
         THEN "allowed"
         ELSE IF late <= settings.graceDays THEN "grace" ELSE "blocked"

-----------------------------------------------------------------------------
(* Payers, days and the owner.                                               *)

FallDue ==
  /\ late = NotDue
  /\ late' = 0
  /\ UNCHANGED <<owners, accessState, contract, accepted, blurred, turnstile, missed, sweep, request, crashes>>

NextDay ==
  /\ late \in 0 .. Patience - 1
  /\ late' = late + 1
  /\ UNCHANGED <<owners, accessState, contract, accepted, blurred, turnstile, missed, sweep, request, crashes>>

(* All that is due, or only the oldest.                                      *)
Pay ==
  /\ \E l \in NotDue .. late - 1 : late' = l
  /\ UNCHANGED <<owners, accessState, contract, accepted, blurred, turnstile, missed, sweep, request, crashes>>

OwnerChanges ==
  /\ changes < MaxChanges
  /\ changes' = changes + 1
  /\ UNCHANGED <<late, accessState, contract, accepted, blurred, turnstile, missed, sweep, request, crashes>>

UpdateSettings ==
  /\ OwnerChanges
  /\ settings' \in Settings \ {settings}
  /\ UNCHANGED <<configured, override>>

SetOverride ==
  /\ OwnerChanges
  /\ override' \in {"allow", "block", "none"} \ {override}
  /\ UNCHANGED <<settings, configured>>

(* setEnabled, setWebhook, clearWebhook.                                     *)
SetIntegration ==
  /\ OwnerChanges
  /\ configured' = ~configured
  /\ UNCHANGED <<settings, override>>

-----------------------------------------------------------------------------
(* The contract: upsertSetting and setFile read the row and write it later.  *)

Outside == <<late, settings, configured, override, accessState, turnstile, missed, sweep, crashes>>

Hold(r, what) ==
  /\ request[r] = Idle
  /\ request' = [request EXCEPT ![r] = what]

ReadContract(r) ==
  /\ changes < MaxChanges
  /\ \/ \E form \in Edits : Hold(r, [at |-> "saving", form |-> form, seen |-> contract])
     \/ Hold(r, [at |-> "uploading", seen |-> contract])
  /\ changes' = changes + 1
  /\ UNCHANGED <<Outside, contract, accepted, blurred>>

Given(new, old) == IF new = Keep THEN old ELSE new

NewText(form, seen) == Given(form.text, seen.text) # seen.text

(* Mutant of NextVersion: the text is left out of the comparison.            *)
KeepVersion(form, seen) == IF seen.version = 0 THEN 1 ELSE seen.version

NextVersion(form, seen) ==
  IF seen.version = 0 THEN 1
  ELSE IF NewText(form, seen) THEN seen.version + 1
  ELSE seen.version

(* The contract has changed since it was read, or its mode is switched and    *)
(* nothing else.                                                             *)
Blurs(r) ==
  \/ request[r].seen # contract
  \/ /\ request[r].at = "saving" /\ ~NewText(request[r].form, contract)
     /\ Given(request[r].form.mode, contract.mode) # contract.mode

Save(r) ==
  /\ request[r].at = "saving"
  /\ blurred' = (blurred \/ Blurs(r))
  /\ LET form == request[r].form IN
       contract' = [contract EXCEPT
         !.enabled = IF form.enabled = Keep THEN @ ELSE form.enabled = "on",
         !.text = Given(form.text, @),
         !.mode = Given(form.mode, @),
         !.version = IF @ = 0 THEN 1 ELSE NextVersion(form, request[r].seen)]
  /\ request' = [request EXCEPT ![r] = Idle]
  /\ UNCHANGED <<Outside, accepted, changes>>

Upload(r) ==
  /\ request[r].at = "uploading"
  /\ blurred' = (blurred \/ Blurs(r))
  /\ contract' = [contract EXCEPT !.enabled = @ \/ contract.version = 0,
                    !.mode = "file", !.file = @ + 1,
                    !.version = IF @ = 0 THEN 1 ELSE request[r].seen.version + 1]
  /\ request' = [request EXCEPT ![r] = Idle]
  /\ UNCHANGED <<Outside, accepted, changes>>

HasContent == IF contract.mode = "file" THEN contract.file > 0 ELSE contract.text # Blank

(* accept: whatever the contract says by now. The two reads, taken together.  *)
Accept(r) ==
  /\ contract.enabled /\ HasContent
  /\ accepted.latest # contract.version
  /\ Hold(r, [at |-> "recording", version |-> contract.version, content |-> Content(contract)])
  /\ UNCHANGED <<Outside, contract, accepted, blurred, changes>>

RecordAcceptance(r) ==
  /\ request[r].at = "recording"
  /\ accepted' = [accepted EXCEPT !.latest = request[r].version,
                    !.highest = IF request[r].version > @ THEN request[r].version ELSE @,
                    !.content = IF request[r].version > accepted.highest
                                THEN request[r].content ELSE @]
  /\ request' = [request EXCEPT ![r] = Idle]
  /\ UNCHANGED <<Outside, contract, blurred, changes>>

RequestFails(r) ==
  /\ request[r] # Idle
  /\ request' = [request EXCEPT ![r] = Idle]
  /\ UNCHANGED <<Outside, contract, accepted, blurred, changes>>

-----------------------------------------------------------------------------
(* The sweep: runForTenant, which tells the turnstile what has changed.      *)

Inside == <<late, owners, contract, accepted, blurred, request>>

Known == IF accessState = Never THEN "allowed" ELSE accessState

Goes(s, state) == sweep' = [sweep EXCEPT ![s] = state]

(* s has told the turnstile what it will write as accessState.               *)
Told(s) == sweep[s].at = "storing" /\ sweep[s].sent

Alone(s) == \A w \in Sweeps \ {s} : sweep[w] = Idle

Compare(s, changed) ==
  /\ sweep[s] = Idle
  /\ \/ /\ changed /\ configured
        /\ Goes(s, [at |-> "dispatching", to |-> Decision])
        /\ UNCHANGED missed
     \/ /\ changed /\ ~configured
        /\ Goes(s, [at |-> "storing", to |-> Decision, sent |-> FALSE])
        /\ missed' = TRUE
     \/ /\ ~changed /\ accessState = Never
        /\ Goes(s, [at |-> "storing", to |-> Decision, sent |-> FALSE])
        /\ UNCHANGED missed
  /\ UNCHANGED <<Inside, accessState, turnstile, crashes>>

(* Mutant of ReadInputs: a turnstile is not told to let the client in again. *)
ReadWorse(s) == Compare(s, Decision \notin {Known, "allowed"})

(* The reads, taken together, and the comparison with the state on record.   *)
ReadInputs(s) == Compare(s, Decision # Known)

(* dispatchAccessWebhook: once, and a failure may have arrived all the same. *)
Dispatch(s) ==
  /\ sweep[s].at = "dispatching"
  /\ \/ /\ turnstile' = sweep[s].to
        /\ Goes(s, [at |-> "storing", to |-> sweep[s].to, sent |-> TRUE])
        /\ UNCHANGED missed
     \/ /\ turnstile' \in {turnstile, sweep[s].to}
        /\ Goes(s, [at |-> "storing", to |-> sweep[s].to, sent |-> FALSE])
        /\ missed' = TRUE
  /\ UNCHANGED <<Inside, accessState, crashes>>

Store(s, state) ==
  /\ sweep[s].at = "storing"
  /\ accessState' = state
  /\ missed' = IF Alone(s) /\ state = turnstile THEN FALSE ELSE missed \/ ~Alone(s)
  /\ Goes(s, Idle)
  /\ UNCHANGED <<Inside, turnstile, crashes>>

(* Mutant of UpdateClientState: a webhook that was sent is not recorded.     *)
UpdateUnlessSent(s) ==
  Store(s, IF sweep[s].sent THEN Known ELSE sweep[s].to)

(* createEvent, updateClientState: whatever the webhook answered. What fails *)
(* between them leaves a line in the log and nothing else.                   *)
UpdateClientState(s) == Store(s, sweep[s].to)

(* A call of the database fails, or the process dies.                        *)
SweepFails(s) ==
  /\ crashes < MaxCrashes
  /\ sweep[s] # Idle
  /\ crashes' = crashes + 1
  /\ missed' = (missed \/ Told(s))
  /\ Goes(s, Idle)
  /\ UNCHANGED <<Inside, accessState, turnstile>>

SweepStep(s) == ReadInputs(s) \/ Dispatch(s) \/ UpdateClientState(s)

-----------------------------------------------------------------------------

RequestStep(r) ==
  \/ ReadContract(r) \/ Save(r) \/ Upload(r)
  \/ Accept(r) \/ RecordAcceptance(r)
  \/ RequestFails(r)

Next ==
  \/ FallDue \/ NextDay \/ Pay
  \/ UpdateSettings \/ SetOverride \/ SetIntegration
  \/ \E r \in Requests : RequestStep(r)
  \/ \E s \in Sweeps : SweepStep(s) \/ SweepFails(s)

Spec == Init /\ [][Next]_vars

(* The cron runs the sweep every day.                                        *)
FairSpec == Spec /\ \A s \in Sweeps : WF_vars(SweepStep(s))

=============================================================================
