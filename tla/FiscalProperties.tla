--------------------------- MODULE FiscalProperties ---------------------------
(* What must hold of the fiscal document of an invoice.                      *)
EXTENDS Fiscal

(* A note that counts for the tax office: emitted by NFE.io, not failed and   *)
(* not cancelled.                                                            *)
Valid(n) == made[n] = "nfeio" /\ note[n] \in {"Created", "Issued"}

Storing(n) == \E r \in Requests : pc[r] = "emitted" /\ local[r].note = n

(* Every valid note is the one the invoice's document names, unless its       *)
(* emission was not recorded (a lost answer, a failed write, a second         *)
(* emission that met the unique key), a request wrote over a document it had  *)
(* not read, or the mock "cancelled" it (emitForInvoice, cancelForInvoice,    *)
(* RN-4705).                                                                 *)
NotesAreKnown ==
  /\ TypeOK
  /\ \A n \in Notes :
       Valid(n) => doc.note = n \/ Storing(n) \/ n \in lost \/ stale \/ strayed

(* What the document says has happened at the provider, unless a request      *)
(* wrote over a document it had not read, or the mock answered for NFE.io:    *)
(* news that is late, repeated, out of order or about an earlier note never   *)
(* makes it claim more than that (applyWebhook, cancelForInvoice).            *)
DocumentIsTrue ==
  \/ stale \/ strayed
  \/ /\ doc.status = "issued" => note[doc.note] \in {"Issued", "Cancelled"}
     /\ doc.status = "cancelled" => note[doc.note] = "Cancelled"
     /\ doc.status = "error" => note[doc.note] = "Error"

(* A document that was issued is only ever cancelled, and one that was        *)
(* cancelled or failed is only replaced by another note: canTransitionFiscal  *)
(* is enforced although the write does not test it, but for a writer whose    *)
(* read is out of date (RN-4703).                                             *)
TerminalLeftOnlyByStaleWriter ==
  [][doc # NoDoc /\ doc'.note = doc.note =>
       \/ doc'.status = doc.status
       \/ doc.status = "processing"
       \/ doc.status = "issued" /\ doc'.status = "cancelled"
       \/ \E r \in Requests : pc[r] # "idle" /\ pc'[r] = "idle" /\ OutOfDate(r)]_vars

(* A document does not stay in the works: NFE.io ends the note, and its news  *)
(* reaches the document, unless it was answered without being applied (it     *)
(* came before the document was stored, the tenant's settings do not          *)
(* recognise it, or its handler failed) or a request wrote over it.           *)
ProcessingEnds ==
  \A n \in Notes :
    (doc.status = "processing" /\ doc.note = n)
      ~> (doc.status # "processing" \/ doc.note # n \/ n \in missed \/ stale)

-----------------------------------------------------------------------------
(* Why they hold: an inductive invariant, part by part.                      *)

(* The provider has said the word of the note at some time, and it has not    *)
(* been overtaken by anything but a cancellation.                             *)
Happened(n, word) ==
  CASE word = "Issued" -> note[n] \in {"Issued", "Cancelled"}
    [] word \in {"Error", "Cancelled"} -> note[n] = word
    [] OTHER -> TRUE

(* A note has a provider once it is emitted, and the mock issues at once.     *)
NotesAreMade ==
  \A n \in Notes :
    /\ note[n] = None <=> made[n] = None
    /\ made[n] = "mock" => Happened(n, "Issued")

(* Whoever names a note names one that was emitted, and news is true.         *)
ReadingsExist ==
  /\ doc # NoDoc => note[doc.note] # None
  /\ \A r \in Requests : local[r].read # NoDoc => note[local[r].read.note] # None
  /\ \A e \in events : Happened(e[1], e[2])

(* An emission has read a document that may be emitted again; the note it     *)
(* brings is not the one it has read, and is the provider's.                  *)
Emissions ==
  \A r \in Requests :
    /\ pc[r] \in {"emitting", "emitted"} =>
         /\ local[r].provider \in FiscalProviders
         /\ local[r].read.status \notin {"issued", "processing"}
    /\ pc[r] = "emitted" =>
         /\ local[r].note \in Notes
         /\ local[r].note # local[r].read.note
         /\ made[local[r].note] = local[r].provider
         /\ local[r].word = FirstWord(local[r].provider)

(* A cancellation has read the issued document of its note, which is          *)
(* cancelled by the time the answer is stored, if it was its provider's.      *)
Cancellations ==
  \A r \in Requests :
    /\ pc[r] \in {"cancelling", "cancelled"} =>
         /\ doc # NoDoc
         /\ local[r].provider \in FiscalProviders
         /\ local[r].read \in Docs
         /\ local[r].read.status = "issued"
         /\ local[r].note = local[r].read.note
    /\ pc[r] = "cancelled" =>
         /\ local[r].word = "Cancelled"
         /\ strayed \/ note[local[r].note] = "Cancelled"

(* News that is being applied is true, and the document it has read allows it. *)
Notifications ==
  \A r \in Requests : pc[r] = "notified" =>
    /\ doc # NoDoc
    /\ local[r].read \in Docs
    /\ local[r].note = local[r].read.note
    /\ local[r].word \in Words
    /\ Happened(local[r].note, local[r].word)
    /\ CanTransitionFiscal(local[r].read.status, MapProviderStatus(local[r].word))

IInv ==
  /\ TypeOK
  /\ NotesAreMade
  /\ ReadingsExist
  /\ Emissions
  /\ Cancellations
  /\ Notifications
  /\ DocumentIsTrue
  /\ NotesAreKnown
=============================================================================
