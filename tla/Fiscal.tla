-------------------------------- MODULE Fiscal --------------------------------
(***************************************************************************)
(* The fiscal document (NFS-e) of one invoice: emission by the owner or by *)
(* the follow-up of a payment, the webhook of the provider, cancellation,  *)
(* and the settings that say which provider is asked.                      *)
(*                                                                         *)
(* A request is split where it waits: after its reads, after the answer of *)
(* the provider, at its write.  What it read is in local[r].  Nothing ties *)
(* two requests together but the unique key on the invoice.                *)
(***************************************************************************)
EXTENDS Naturals

CONSTANTS
  MaxNotes,    \* bound: how many notes are ever emitted for the invoice
  Requests,    \* the HTTP requests and follow-ups that run at the same time
  Setups,      \* the settings the owner may choose
  MaxChanges,  \* bound: how often the owner changes them
  MaxFailures, \* bound: calls that fail or lose their answer, and crashes
  None         \* "no value"

FiscalProviders == {"mock", "nfeio"}

Settings == [enabled : BOOLEAN, autoEmitOnPaid : BOOLEAN,
             provider : FiscalProviders, webhookSecret : BOOLEAN]

(* Notes are numbered as they are emitted.                                   *)
Notes == 1 .. MaxNotes

(* The provider's words and ours.                                            *)
Words == {"Created", "Issued", "Error", "Cancelled"}

ASSUME FiscalAssumption ==
  /\ Setups \subseteq Settings /\ Setups # {}
  /\ MaxNotes \in Nat
  /\ MaxChanges \in Nat
  /\ MaxFailures \in Nat
  /\ None \notin Notes /\ None \notin Words \cup FiscalProviders

(* Mutant of MapProviderStatus: a word it does not know means success.       *)
MapOptimistically(word) ==
  CASE word = "Cancelled" -> "cancelled"
    [] word = "Error" -> "error"
    [] OTHER -> "issued"

MapProviderStatus(word) ==
  CASE word = "Issued" -> "issued"
    [] word = "Cancelled" -> "cancelled"
    [] word = "Error" -> "error"
    [] OTHER -> "processing"

(* Mutant of CanTransitionFiscal: any document may be issued.                *)
CanAlwaysIssue(from, to) ==
  \/ from \in {to, "processing"}
  \/ to \in {"issued", "cancelled"}

CanTransitionFiscal(from, to) ==
  \/ from = to
  \/ from = "processing" /\ to \in {"issued", "error", "cancelled"}
  \/ from = "issued" /\ to = "cancelled"

CanCancelFiscal(status) == status = "issued"

VARIABLES
  setting,  \* FiscalSetting
  doc,      \* FiscalDocument: its status, and the note and provider it names
  note,     \* the provider's word for each note; None: not emitted
  made,     \* the provider that emitted each note
  events,   \* notifications of NFE.io on their way: <<note, word>>
  pc,       \* where each request waits
  local,    \* what each request holds
  changes, failures,  \* counters, for the bounds
  lost,     \* ghost: notes whose emission never reached the document
  missed,   \* ghost: notes of which news was answered with 200 and not applied
  stale,    \* ghost: a request wrote over a document it had not read
  strayed   \* ghost: the mock answered for a note of NFE.io

vars == <<setting, doc, note, made, events, pc, local, changes, failures,
          lost, missed, stale, strayed>>

ghosts == <<lost, missed, stale, strayed>>

Statuses == {"processing", "issued", "error", "cancelled"}

NoDoc == [status |-> "ABSENT", note |-> None, provider |-> None]

Docs == [status : Statuses, note : Notes, provider : FiscalProviders]

NoLocal == [read |-> NoDoc, provider |-> None, note |-> None, word |-> None]

Labels == {"idle", "emitting", "emitted", "cancelling", "cancelled", "notified"}

TypeOK ==
  /\ setting \in Settings
  /\ doc \in Docs \cup {NoDoc}
  /\ note \in [Notes -> Words \cup {None}]
  /\ made \in [Notes -> FiscalProviders \cup {None}]
  /\ events \subseteq Notes \X Words
  /\ pc \in [Requests -> Labels]
  /\ local \in [Requests -> [read : Docs \cup {NoDoc},
                             provider : FiscalProviders \cup {None},
                             note : Notes \cup {None}, word : Words \cup {None}]]
  /\ changes \in 0 .. MaxChanges
  /\ failures \in 0 .. MaxFailures
  /\ lost \subseteq Notes
  /\ missed \subseteq Notes
  /\ stale \in BOOLEAN
  /\ strayed \in BOOLEAN

Init ==
  /\ setting \in Setups
  /\ doc = NoDoc
  /\ note = [n \in Notes |-> None]
  /\ made = [n \in Notes |-> None]
  /\ events = {}
  /\ pc = [r \in Requests |-> "idle"]
  /\ local = [r \in Requests |-> NoLocal]
  /\ changes = 0
  /\ failures = 0
  /\ lost = {}
  /\ missed = {}
  /\ stale = FALSE
  /\ strayed = FALSE

Wait(r, label, l) ==
  /\ pc' = [pc EXCEPT ![r] = label]
  /\ local' = [local EXCEPT ![r] = l]

Finish(r) == Wait(r, "idle", NoLocal)

(* One more call that fails, within the bound.                               *)
Trouble ==
  /\ failures < MaxFailures
  /\ failures' = failures + 1

(* The write of r finds a document other than the one r has read.            *)
OutOfDate(r) == doc # local[r].read

NoteStale(r) == stale' = (stale \/ OutOfDate(r))

-----------------------------------------------------------------------------
(* PUT /fiscal/settings                                                      *)
UpdateSettings(s) ==
  /\ changes < MaxChanges
  /\ s # setting
  /\ setting' = s
  /\ changes' = changes + 1
  /\ UNCHANGED <<doc, note, made, events, pc, local, failures, ghosts>>

-----------------------------------------------------------------------------
(* Emission: emitForInvoice.                                                 *)

(* Mutant of Emittable: only a document that is issued stops an emission.    *)
NotIssuedYet == doc.status # "issued"

(* A document in the works or issued is returned as it is.                   *)
Emittable == doc.status \notin {"issued", "processing"}

(* The settings, the invoice and the document are read.                      *)
StartEmission(r) ==
  /\ pc[r] = "idle"
  /\ setting.enabled
  /\ Emittable
  /\ Wait(r, "emitting", [NoLocal EXCEPT !.read = doc,
                                         !.provider = setting.provider])
  /\ UNCHANGED <<setting, doc, note, made, events, changes, failures, ghosts>>

(* The follow-up of a payment emits only if the tenant asked for it.         *)
MaybeAutoEmit(r) ==
  /\ setting.autoEmitOnPaid
  /\ StartEmission(r)

(* The mock issues at once; NFE.io queues the note and tells how it ended.   *)
FirstWord(p) == IF p = "mock" THEN "Issued" ELSE "Created"

Emit(r, n) ==
  /\ note[n] = None
  /\ \A m \in 1 .. n - 1 : note[m] # None
  /\ note' = [note EXCEPT ![n] = FirstWord(local[r].provider)]
  /\ made' = [made EXCEPT ![n] = local[r].provider]

ProviderEmits(r, n) ==
  /\ pc[r] = "emitting"
  /\ Emit(r, n)
  /\ Wait(r, "emitted", [local[r] EXCEPT !.note = n, !.word = note'[n]])
  /\ UNCHANGED <<setting, doc, events, changes, failures, ghosts>>

(* NFE.io emits, and the answer does not come within its time.               *)
EmissionUnanswered(r, n) ==
  /\ pc[r] = "emitting"
  /\ local[r].provider = "nfeio"
  /\ Trouble
  /\ Emit(r, n)
  /\ lost' = lost \cup {n}
  /\ Finish(r)
  /\ UNCHANGED <<setting, doc, events, changes, missed, stale, strayed>>

(* The document that was read is written again, whatever became of it; a     *)
(* first one is created, which the unique key allows once.                   *)
StoreEmission(r) ==
  /\ pc[r] = "emitted"
  /\ local[r].read = NoDoc => doc = NoDoc
  /\ doc' = [status |-> MapProviderStatus(local[r].word), note |-> local[r].note,
             provider |-> local[r].provider]
  /\ NoteStale(r)
  /\ Finish(r)
  /\ UNCHANGED <<setting, note, made, events, changes, failures, lost, missed,
                 strayed>>

EmissionConflicts(r) ==
  /\ pc[r] = "emitted"
  /\ local[r].read = NoDoc
  /\ doc # NoDoc
  /\ lost' = lost \cup {local[r].note}
  /\ Finish(r)
  /\ UNCHANGED <<setting, doc, note, made, events, changes, failures, missed,
                 stale, strayed>>

-----------------------------------------------------------------------------
(* Cancellation: cancelForInvoice, with the provider of the settings, not    *)
(* the one that emitted the note.                                            *)
StartCancellation(r) ==
  /\ pc[r] = "idle"
  /\ CanCancelFiscal(doc.status)
  /\ Wait(r, "cancelling", [NoLocal EXCEPT !.read = doc, !.note = doc.note,
                                           !.provider = setting.provider])
  /\ UNCHANGED <<setting, doc, note, made, events, changes, failures, ghosts>>

(* NFE.io cancels a note of its own that is issued, and says so in its        *)
(* answer and in a notification.  The mock says yes to anything.              *)
CancelAt(p, n) ==
  IF p = "mock"
  THEN /\ note' = IF made[n] = "mock" THEN [note EXCEPT ![n] = "Cancelled"] ELSE note
       /\ strayed' = (strayed \/ made[n] # "mock")
       /\ UNCHANGED events
  ELSE /\ made[n] = "nfeio"
       /\ note[n] = "Issued"
       /\ note' = [note EXCEPT ![n] = "Cancelled"]
       /\ events' = events \cup {<<n, "Cancelled">>}
       /\ UNCHANGED strayed

ProviderCancels(r) ==
  /\ pc[r] = "cancelling"
  /\ CancelAt(local[r].provider, local[r].note)
  /\ Wait(r, "cancelled", [local[r] EXCEPT !.word = "Cancelled"])
  /\ UNCHANGED <<setting, doc, made, changes, failures, lost, missed, stale>>

CancellationUnanswered(r) ==
  /\ pc[r] = "cancelling"
  /\ local[r].provider = "nfeio"
  /\ Trouble
  /\ CancelAt(local[r].provider, local[r].note)
  /\ Finish(r)
  /\ UNCHANGED <<setting, doc, made, changes, lost, missed, stale>>

StoreCancellation(r) ==
  /\ pc[r] = "cancelled"
  /\ doc' = [doc EXCEPT !.status = MapProviderStatus(local[r].word)]
  /\ NoteStale(r)
  /\ Finish(r)
  /\ UNCHANGED <<setting, note, made, events, changes, failures, lost, missed,
                 strayed>>

-----------------------------------------------------------------------------
(* External: NFE.io issues the note or fails, and notifies every step.       *)
NoteEnds(n) ==
  /\ made[n] = "nfeio"
  /\ note[n] = "Created"
  /\ \E word \in {"Issued", "Error"} :
       /\ note' = [note EXCEPT ![n] = word]
       /\ events' = events \cup {<<n, word>>}
  /\ UNCHANGED <<setting, doc, made, pc, local, changes, failures, ghosts>>

(* It may also announce the note it has queued.                              *)
NoteAnnounced(n) ==
  /\ made[n] = "nfeio"
  /\ note[n] = "Created"
  /\ <<n, "Created">> \notin events
  /\ events' = events \cup {<<n, "Created">>}
  /\ UNCHANGED <<setting, doc, note, made, pc, local, changes, failures, ghosts>>

-----------------------------------------------------------------------------
(* POST /fiscal/webhook/:provider: applyWebhook and its controller, which    *)
(* answers 200 whatever happens.                                             *)

(* The document is found by the note, the tenant's provider recognises the   *)
(* notification, and the document may move.                                  *)
Heard(e) ==
  /\ doc.note = e[1]
  /\ setting.provider = "nfeio"
  /\ setting.webhookSecret
  /\ CanTransitionFiscal(doc.status, MapProviderStatus(e[2]))

News(e) == e[2] # "Created"

ReceiveWebhook(r, e) ==
  /\ pc[r] = "idle"
  /\ e \in events
  /\ Heard(e)
  /\ events' = events \ {e}
  /\ Wait(r, "notified", [NoLocal EXCEPT !.read = doc, !.note = e[1], !.word = e[2]])
  /\ UNCHANGED <<setting, doc, note, made, changes, failures, ghosts>>

IgnoreWebhook(e) ==
  /\ e \in events
  /\ ~Heard(e)
  /\ events' = events \ {e}
  /\ missed' = IF News(e) THEN missed \cup {e[1]} ELSE missed
  /\ UNCHANGED <<setting, doc, note, made, pc, local, changes, failures, lost,
                 stale, strayed>>

(* Mutant of StoreWebhook: number and files are stored, the status is not.   *)
StoreDetails(r) ==
  /\ pc[r] = "notified"
  /\ Finish(r)
  /\ UNCHANGED <<setting, doc, note, made, events, changes, failures, ghosts>>

(* The write does not test the document again.  If the 200 that follows is   *)
(* lost, NFE.io notifies once more.                                          *)
StoreWebhook(r) ==
  /\ pc[r] = "notified"
  /\ doc' = [doc EXCEPT !.status = MapProviderStatus(local[r].word)]
  /\ NoteStale(r)
  /\ Finish(r)
  /\ \/ UNCHANGED <<events, failures>>
     \/ /\ Trouble
        /\ events' = events \cup {<<local[r].note, local[r].word>>}
  /\ UNCHANGED <<setting, note, made, changes, lost, missed, strayed>>

-----------------------------------------------------------------------------
(* A call is refused or fails, or the process dies.  A notification whose    *)
(* handler throws was answered with 200; when the process dies before it     *)
(* answers, NFE.io sends it again.                                           *)
Fail(r) ==
  /\ pc[r] # "idle"
  /\ Trouble
  /\ lost' = IF pc[r] = "emitted" THEN lost \cup {local[r].note} ELSE lost
  /\ IF pc[r] = "notified"
     THEN \/ events' = events \cup {<<local[r].note, local[r].word>>} /\ UNCHANGED missed
          \/ /\ missed' = missed \cup {local[r].note}
             /\ UNCHANGED events
     ELSE UNCHANGED <<events, missed>>
  /\ Finish(r)
  /\ UNCHANGED <<setting, doc, note, made, changes, stale, strayed>>

(* NFE.io refuses to cancel what is not its own or is not issued.             *)
CancellationRefused(r) ==
  /\ pc[r] = "cancelling"
  /\ local[r].provider = "nfeio"
  /\ made[local[r].note] # "nfeio" \/ note[local[r].note] # "Issued"
  /\ Finish(r)
  /\ UNCHANGED <<setting, doc, note, made, events, changes, failures, ghosts>>

-----------------------------------------------------------------------------
Proceed(r) ==
  \/ \E n \in Notes : ProviderEmits(r, n)
  \/ StoreEmission(r)
  \/ EmissionConflicts(r)
  \/ ProviderCancels(r)
  \/ CancellationRefused(r)
  \/ StoreCancellation(r)
  \/ StoreWebhook(r)

Request(r) ==
  \/ StartEmission(r)
  \/ MaybeAutoEmit(r)
  \/ StartCancellation(r)

Next ==
  \/ \E s \in Setups : UpdateSettings(s)
  \/ \E r \in Requests : Request(r) \/ Proceed(r) \/ Fail(r)
  \/ \E r \in Requests, n \in Notes : EmissionUnanswered(r, n)
  \/ \E r \in Requests : CancellationUnanswered(r)
  \/ \E n \in Notes : NoteEnds(n) \/ NoteAnnounced(n)
  \/ \E r \in Requests, e \in events : ReceiveWebhook(r, e)
  \/ \E e \in events : IgnoreWebhook(e)

Spec == Init /\ [][Next]_vars

(* Requests end, NFE.io ends what it queued and delivers what it has to say. *)
Delivered(n) ==
  \/ \E r \in Requests, w \in Words : ReceiveWebhook(r, <<n, w>>)
  \/ \E w \in Words : IgnoreWebhook(<<n, w>>)

Fairness ==
  /\ \A r \in Requests : WF_vars(Proceed(r))
  /\ \A n \in Notes : WF_vars(NoteEnds(n)) /\ SF_vars(Delivered(n))

FairSpec == Spec /\ Fairness
=============================================================================
