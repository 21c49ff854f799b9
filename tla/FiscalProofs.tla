----------------------------- MODULE FiscalProofs -----------------------------
(* Proofs of the safety properties of FiscalProperties for every number of    *)
(* notes, every set of requests that run at once and every choice of settings. *)
EXTENDS FiscalProperties, TLAPS

(* Before the first emission there is no document, no note and no news.       *)
LEMMA InitIInv == Init => IInv
  <1> SUFFICES ASSUME Init PROVE IInv
    OBVIOUS
  <1> USE FiscalAssumption DEF Init
  <1>1. TypeOK
    <2>1. [r \in Requests |-> NoLocal] \in [Requests -> [read : Docs \cup {NoDoc},
             provider : FiscalProviders \cup {None}, note : Notes \cup {None}, word : Words \cup {None}]]
      BY DEF NoLocal
    <2>2. [r \in Requests |-> "idle"] \in [Requests -> Labels] /\ setting \in Settings
      BY DEF Labels
    <2>3. note \in [Notes -> Words \cup {None}] /\ made \in [Notes -> FiscalProviders \cup {None}]
      OBVIOUS
    <2>4. changes \in 0 .. MaxChanges /\ failures \in 0 .. MaxFailures
      OBVIOUS
    <2> QED
      BY <2>1, <2>2, <2>3, <2>4 DEF TypeOK
  <1>2. NotesAreMade /\ ReadingsExist /\ Emissions /\ Cancellations /\ Notifications
    <2>1. \A r \in Requests : pc[r] = "idle" /\ local[r].read = NoDoc
      BY DEF NoLocal
    <2>2. NotesAreMade
      BY DEF NotesAreMade, FiscalProviders
    <2>3. ReadingsExist
      BY <2>1 DEF ReadingsExist
    <2> QED
      BY <2>1, <2>2, <2>3 DEF Emissions, Cancellations, Notifications
  <1>3. DocumentIsTrue /\ NotesAreKnown
    BY <1>1 DEF DocumentIsTrue, NotesAreKnown, NoDoc, Valid
  <1> QED
    BY <1>1, <1>2, <1>3 DEF IInv

(* What our words for the provider's words are.                               *)
LEMMA ProviderWords ==
  /\ MapProviderStatus("Created") = "processing"
  /\ MapProviderStatus("Issued") = "issued"
  /\ MapProviderStatus("Error") = "error"
  /\ MapProviderStatus("Cancelled") = "cancelled"
  /\ \A w \in Words : MapProviderStatus(w) \in Statuses
  BY DEF MapProviderStatus, Statuses, Words

(* What a request holds, as a type.                                           *)
Locals == [read : Docs \cup {NoDoc}, provider : FiscalProviders \cup {None},
           note : Notes \cup {None}, word : Words \cup {None}]

(* The types of what the providers and the requests hold.                     *)
LEMMA Types ==
  ASSUME TypeOK
  PROVE  /\ doc \in Docs \cup {NoDoc} /\ setting \in Settings
         /\ note \in [Notes -> Words \cup {None}]
         /\ made \in [Notes -> FiscalProviders \cup {None}]
         /\ events \subseteq Notes \X Words
         /\ pc \in [Requests -> Labels] /\ local \in [Requests -> Locals]
         /\ doc # NoDoc => doc \in Docs /\ doc.note \in Notes /\ doc.status \in Statuses
  BY DEF TypeOK, Locals, Docs

(* A request that waits elsewhere keeps the types, if what it holds has one.  *)
LEMMA WaitTypes ==
  ASSUME TypeOK, NEW r \in Requests, NEW label \in Labels, NEW l \in Locals, Wait(r, label, l)
  PROVE  pc' \in [Requests -> Labels] /\ local' \in [Requests -> Locals]
  BY Types DEF Wait

(* A request that has ended holds nothing.                                    *)
LEMMA FinishTypes ==
  ASSUME TypeOK, NEW r \in Requests, Finish(r)
  PROVE  pc' \in [Requests -> Labels] /\ local' \in [Requests -> Locals]
  <1>1. NoLocal \in Locals /\ "idle" \in Labels
    BY DEF NoLocal, Locals, Labels
  <1> QED
    BY <1>1, WaitTypes DEF Finish

(* A note that is emitted.                                                    *)
LEMMA EmitTypes ==
  ASSUME TypeOK, NEW r \in Requests, NEW n \in Notes, Emit(r, n), local[r].provider \in FiscalProviders
  PROVE  /\ note' \in [Notes -> Words \cup {None}] /\ made' \in [Notes -> FiscalProviders \cup {None}]
         /\ note' = [note EXCEPT ![n] = FirstWord(local[r].provider)]
         /\ made' = [made EXCEPT ![n] = local[r].provider]
         /\ note'[n] = FirstWord(local[r].provider) /\ note'[n] \in {"Issued", "Created"} /\ note[n] = None
  BY Types DEF Emit, FirstWord, Words

(* A note that is cancelled.                                                  *)
LEMMA CancelTypes ==
  ASSUME TypeOK, NEW p \in FiscalProviders, NEW n \in Notes, CancelAt(p, n)
  PROVE  /\ note' \in [Notes -> Words \cup {None}] /\ events' \subseteq Notes \X Words /\ strayed' \in BOOLEAN
         /\ note' = note \/ note' = [note EXCEPT ![n] = "Cancelled"]
         /\ note' # note => made[n] = "mock" \/ note[n] = "Issued"
         /\ strayed => strayed'
         /\ strayed' \/ note'[n] = "Cancelled"
         /\ \A e \in events' : e \in events \/ (e = <<n, "Cancelled">> /\ note'[n] = "Cancelled")
  <1>0. strayed \in BOOLEAN
    BY DEF TypeOK
  <1>1. CASE p = "mock" /\ made[n] = "mock"
    <2>1. note' = [note EXCEPT ![n] = "Cancelled"] /\ events' = events /\ strayed' = strayed
      BY <1>0, <1>1 DEF CancelAt
    <2> QED
      BY <1>0, <1>1, <2>1, Types DEF Words
  <1>3. CASE p = "mock" /\ made[n] # "mock"
    <2>1. note' = note /\ events' = events
      BY <1>3 DEF CancelAt
    <2>2. strayed' = TRUE
      BY <1>3 DEF CancelAt
    <2> QED
      BY <2>1, <2>2, Types
  <1>2. CASE p # "mock"
    BY <1>0, <1>2, Types DEF CancelAt, Words
  <1> QED
    BY <1>1, <1>2, <1>3

(* What a request that waits for its write, or for a provider, works on.      *)
LEMMA Held ==
  ASSUME IInv, NEW r \in Requests
  PROVE  /\ local[r] \in Locals /\ pc[r] \in Labels
         /\ pc[r] \in {"emitting", "emitted"} => local[r].provider \in FiscalProviders
         /\ pc[r] = "emitted" =>
              /\ local[r].note \in Notes
              /\ local[r].word \in {"Issued", "Created"}
              /\ local[r].word = FirstWord(made[local[r].note])
              /\ note[local[r].note] # None
              /\ local[r].word = "Issued" => Happened(local[r].note, "Issued")
         /\ pc[r] \in {"cancelling", "cancelled"} =>
              /\ doc \in Docs /\ local[r].provider \in FiscalProviders /\ local[r].note \in Notes
         /\ pc[r] = "cancelled" => local[r].word = "Cancelled"
         /\ pc[r] = "notified" => doc \in Docs /\ local[r].note \in Notes /\ local[r].word \in Words
  <1>1. local[r] \in Locals /\ pc[r] \in Labels
    BY Types DEF IInv
  <1>2. CASE pc[r] = "emitted"
    <2>1. /\ local[r].provider \in FiscalProviders /\ local[r].note \in Notes
          /\ made[local[r].note] = local[r].provider /\ local[r].word = FirstWord(local[r].provider)
      BY <1>2 DEF IInv, Emissions
    <2>2. local[r].word \in {"Issued", "Created"} /\ (local[r].word = "Issued" => local[r].provider = "mock")
      BY <2>1 DEF FirstWord
    <2>3. note[local[r].note] # None
      BY <2>1, FiscalAssumption DEF IInv, NotesAreMade
    <2> QED
      BY <1>1, <1>2, <2>1, <2>2, <2>3 DEF IInv, NotesAreMade
  <1>3. CASE pc[r] \in {"cancelling", "cancelled"}
    <2>1. local[r].read \in Docs /\ local[r].note = local[r].read.note /\ doc \in Docs
      BY <1>3, Types DEF IInv, Cancellations
    <2> QED
      BY <1>1, <1>3, <2>1 DEF IInv, Cancellations, Docs
  <1>4. CASE pc[r] = "notified"
    <2>1. local[r].read \in Docs /\ local[r].note = local[r].read.note /\ doc \in Docs
      BY <1>4, Types DEF IInv, Notifications
    <2> QED
      BY <1>1, <1>4, <2>1 DEF IInv, Notifications, Docs
  <1>5. CASE pc[r] = "emitting"
    BY <1>1, <1>5 DEF IInv, Emissions
  <1> QED
    BY <1>1, <1>2, <1>3, <1>4, <1>5

(* Every step keeps the types.                                                *)
LEMMA TypeStep == IInv /\ [Next]_vars => TypeOK'
  <1> SUFFICES ASSUME IInv, [Next]_vars PROVE TypeOK'
    OBVIOUS
  <1>0. TypeOK
    BY DEF IInv
  <1> USE <1>0, FiscalAssumption DEF ghosts
  <1> DEFINE Held2 == pc' \in [Requests -> Labels] /\ local' \in [Requests -> Locals]
  <1>1. ASSUME NEW s \in Setups, UpdateSettings(s) PROVE TypeOK'
    BY <1>1 DEF UpdateSettings, TypeOK
  <1>2. ASSUME NEW r \in Requests, StartEmission(r) PROVE TypeOK'
    <2>1. [NoLocal EXCEPT !.read = doc, !.provider = setting.provider] \in Locals /\ "emitting" \in Labels
      BY Types DEF NoLocal, Locals, Labels, Settings
    <2>2. Held2
      BY <1>2, <2>1, WaitTypes DEF StartEmission
    <2> QED
      BY <1>2, <2>2 DEF StartEmission, TypeOK, Locals
  <1>3. ASSUME NEW r \in Requests, NEW n \in Notes, ProviderEmits(r, n) PROVE TypeOK'
    <2>1. /\ note' \in [Notes -> Words \cup {None}] /\ made' \in [Notes -> FiscalProviders \cup {None}]
          /\ note'[n] \in {"Issued", "Created"}
      BY <1>3, Held, EmitTypes DEF ProviderEmits
    <2>2. [local[r] EXCEPT !.note = n, !.word = note'[n]] \in Locals /\ "emitted" \in Labels
      BY <2>1, Held DEF Locals, Labels, Words
    <2>3. Held2
      BY <1>3, <2>2, WaitTypes DEF ProviderEmits
    <2> QED
      BY <1>3, <2>1, <2>3 DEF ProviderEmits, TypeOK, Locals
  <1>4. ASSUME NEW r \in Requests, NEW n \in Notes, EmissionUnanswered(r, n) PROVE TypeOK'
    <2>1. note' \in [Notes -> Words \cup {None}] /\ made' \in [Notes -> FiscalProviders \cup {None}]
      BY <1>4, Held, EmitTypes DEF EmissionUnanswered
    <2>2. Held2
      BY <1>4, FinishTypes DEF EmissionUnanswered
    <2> QED
      BY <1>4, <2>1, <2>2 DEF EmissionUnanswered, Trouble, TypeOK, Locals
  <1>5. ASSUME NEW r \in Requests, StoreEmission(r) PROVE TypeOK'
    <2>1. /\ local[r].word \in Words /\ local[r].note \in Notes /\ local[r].provider \in FiscalProviders
      BY <1>5, Held DEF StoreEmission, Words
    <2>2. doc' \in Docs
      BY <1>5, <2>1, ProviderWords DEF StoreEmission, Docs
    <2>3. Held2 /\ stale' \in BOOLEAN
      BY <1>5, FinishTypes DEF StoreEmission, NoteStale
    <2> QED
      BY <1>5, <2>2, <2>3 DEF StoreEmission, TypeOK, Locals
  <1>6. ASSUME NEW r \in Requests, EmissionConflicts(r) PROVE TypeOK'
    <2>1. Held2 /\ local[r].note \in Notes
      BY <1>6, FinishTypes, Held DEF EmissionConflicts
    <2> QED
      BY <1>6, <2>1 DEF EmissionConflicts, TypeOK, Locals
  <1>7. ASSUME NEW r \in Requests, StartCancellation(r) PROVE TypeOK'
    <2>1. doc \in Docs
      BY <1>7, Types DEF StartCancellation, CanCancelFiscal, NoDoc
    <2>2. [NoLocal EXCEPT !.read = doc, !.note = doc.note, !.provider = setting.provider] \in Locals
      BY <2>1, Types DEF NoLocal, Locals, Settings, Docs
    <2>3. Held2
      BY <1>7, <2>2, WaitTypes DEF StartCancellation, Labels
    <2> QED
      BY <1>7, <2>3 DEF StartCancellation, TypeOK, Locals
  <1>8. ASSUME NEW r \in Requests, ProviderCancels(r) PROVE TypeOK'
    <2>1. note' \in [Notes -> Words \cup {None}] /\ events' \subseteq Notes \X Words /\ strayed' \in BOOLEAN
      BY <1>8, Held, CancelTypes DEF ProviderCancels
    <2>2. [local[r] EXCEPT !.word = "Cancelled"] \in Locals /\ "cancelled" \in Labels
      BY Held DEF Locals, Labels, Words
    <2>3. Held2
      BY <1>8, <2>2, WaitTypes DEF ProviderCancels
    <2> QED
      BY <1>8, <2>1, <2>3 DEF ProviderCancels, TypeOK, Locals
  <1>9. ASSUME NEW r \in Requests, CancellationUnanswered(r) PROVE TypeOK'
    <2>1. note' \in [Notes -> Words \cup {None}] /\ events' \subseteq Notes \X Words /\ strayed' \in BOOLEAN
      BY <1>9, Held, CancelTypes DEF CancellationUnanswered
    <2>2. Held2
      BY <1>9, FinishTypes DEF CancellationUnanswered
    <2> QED
      BY <1>9, <2>1, <2>2 DEF CancellationUnanswered, Trouble, TypeOK, Locals
  <1>10. ASSUME NEW r \in Requests, CancellationRefused(r) PROVE TypeOK'
    <2>1. Held2
      BY <1>10, FinishTypes DEF CancellationRefused
    <2> QED
      BY <1>10, <2>1 DEF CancellationRefused, TypeOK, Locals
  <1>11. ASSUME NEW r \in Requests, StoreCancellation(r) PROVE TypeOK'
    <2>1. doc' \in Docs
      BY <1>11, Held, ProviderWords DEF StoreCancellation, Docs, Statuses
    <2>2. Held2 /\ stale' \in BOOLEAN
      BY <1>11, FinishTypes DEF StoreCancellation, NoteStale
    <2> QED
      BY <1>11, <2>1, <2>2 DEF StoreCancellation, TypeOK, Locals
  <1>12. ASSUME NEW n \in Notes, NoteEnds(n) \/ NoteAnnounced(n) PROVE TypeOK'
    <2>1. note' \in [Notes -> Words \cup {None}] /\ events' \subseteq Notes \X Words
      BY <1>12, Types DEF NoteEnds, NoteAnnounced, Words
    <2> QED
      BY <1>12, <2>1 DEF NoteEnds, NoteAnnounced, TypeOK, Locals
  <1>13. ASSUME NEW r \in Requests, NEW e \in events, ReceiveWebhook(r, e) PROVE TypeOK'
    <2>1. e[1] \in Notes /\ e[2] \in Words
      BY Types
    <2>2. [NoLocal EXCEPT !.read = doc, !.note = e[1], !.word = e[2]] \in Locals /\ "notified" \in Labels
      BY <2>1, Types DEF NoLocal, Locals, Labels
    <2>3. Held2
      BY <1>13, <2>2, WaitTypes DEF ReceiveWebhook
    <2> QED
      BY <1>13, <2>3 DEF ReceiveWebhook, TypeOK, Locals
  <1>14. ASSUME NEW e \in events, IgnoreWebhook(e) PROVE TypeOK'
    <2>1. e[1] \in Notes
      BY Types
    <2> QED
      BY <1>14, <2>1 DEF IgnoreWebhook, TypeOK
  <1>15. ASSUME NEW r \in Requests, StoreWebhook(r) PROVE TypeOK'
    <2>1. doc' \in Docs
      BY <1>15, Held, ProviderWords DEF StoreWebhook, Docs
    <2>2. Held2 /\ stale' \in BOOLEAN
      BY <1>15, FinishTypes DEF StoreWebhook, NoteStale
    <2>3. events' \subseteq Notes \X Words /\ failures' \in 0 .. MaxFailures
      BY <1>15, Held, Types DEF StoreWebhook, Trouble, TypeOK
    <2> QED
      BY <1>15, <2>1, <2>2, <2>3 DEF StoreWebhook, TypeOK, Locals
  <1>16. ASSUME NEW r \in Requests, Fail(r) PROVE TypeOK'
    <2>1. lost' \subseteq Notes
      BY <1>16, Held DEF Fail, TypeOK
    <2>2. events' \subseteq Notes \X Words /\ missed' \subseteq Notes
      BY <1>16, Held, Types DEF Fail, TypeOK
    <2>3. Held2
      BY <1>16, FinishTypes DEF Fail
    <2> QED
      BY <1>16, <2>1, <2>2, <2>3 DEF Fail, Trouble, TypeOK, Locals
  <1>17. CASE UNCHANGED vars
    BY <1>17 DEF vars, TypeOK
  <1> QED
    BY <1>1, <1>2, <1>3, <1>4, <1>5, <1>6, <1>7, <1>8, <1>9, <1>10, <1>11, <1>12, <1>13, <1>14,
       <1>15, <1>16, <1>17 DEF Next, Request, Proceed, MaybeAutoEmit

(* How a note moves: it is emitted, ends, or is cancelled.                    *)
LEMMA NoteSteps ==
  ASSUME IInv, [Next]_vars, NEW n \in Notes
  PROVE  \/ note'[n] = note[n] /\ made'[n] = made[n]
         \/ /\ note[n] = None /\ made'[n] \in FiscalProviders
            /\ note'[n] = FirstWord(made'[n])
         \/ /\ note[n] = "Created" /\ made[n] = "nfeio"
            /\ made'[n] = made[n] /\ note'[n] \in {"Issued", "Error"}
         \/ /\ made[n] = "mock" \/ note[n] = "Issued"
            /\ made'[n] = made[n] /\ note'[n] = "Cancelled"
  <1>0. TypeOK /\ note \in [Notes -> Words \cup {None}] /\ made \in [Notes -> FiscalProviders \cup {None}]
    BY Types DEF IInv
  <1>1. ASSUME NEW r \in Requests, NEW m \in Notes, pc[r] = "emitting", Emit(r, m)
        PROVE  \/ note'[n] = note[n] /\ made'[n] = made[n]
               \/ note[n] = None /\ made'[n] \in FiscalProviders /\ note'[n] = FirstWord(made'[n])
    <2>1. local[r].provider \in FiscalProviders
      BY <1>1, Held
    <2> QED
      BY <1>0, <1>1, <2>1, EmitTypes
  <1>2. ASSUME NEW r \in Requests, pc[r] = "cancelling", CancelAt(local[r].provider, local[r].note)
        PROVE  \/ note'[n] = note[n]
               \/ (made[n] = "mock" \/ note[n] = "Issued") /\ note'[n] = "Cancelled"
    <2>1. local[r].provider \in FiscalProviders /\ local[r].note \in Notes
      BY <1>2, Held
    <2> QED
      BY <1>0, <1>2, <2>1, CancelTypes
  <1>3. ASSUME NEW m \in Notes, NoteEnds(m)
        PROVE  \/ note'[n] = note[n]
               \/ note[n] = "Created" /\ made[n] = "nfeio" /\ note'[n] \in {"Issued", "Error"}
    BY <1>0, <1>3 DEF NoteEnds
  <1>4. ASSUME NEW r \in Requests, NEW m \in Notes, ProviderEmits(r, m) \/ EmissionUnanswered(r, m)
        PROVE  pc[r] = "emitting" /\ Emit(r, m)
    BY <1>4 DEF ProviderEmits, EmissionUnanswered
  <1>5. ASSUME NEW r \in Requests, ProviderCancels(r) \/ CancellationUnanswered(r)
        PROVE  pc[r] = "cancelling" /\ CancelAt(local[r].provider, local[r].note) /\ made' = made
    BY <1>5 DEF ProviderCancels, CancellationUnanswered
  <1>6. \/ UNCHANGED <<note, made>>
        \/ \E r \in Requests, m \in Notes : ProviderEmits(r, m) \/ EmissionUnanswered(r, m)
        \/ \E r \in Requests : ProviderCancels(r) \/ CancellationUnanswered(r)
        \/ \E m \in Notes : NoteEnds(m) /\ made' = made
    BY DEF Next, Request, Proceed, UpdateSettings, StartEmission, MaybeAutoEmit, StoreEmission,
           EmissionConflicts, StartCancellation, StoreCancellation, CancellationRefused, NoteEnds,
           NoteAnnounced, ReceiveWebhook, IgnoreWebhook, StoreWebhook, Fail, vars
  <1> QED
    BY <1>1, <1>2, <1>3, <1>4, <1>5, <1>6

(* What has happened stays so, and a note that was emitted stays emitted.     *)
LEMMA HistoryIsKept ==
  ASSUME IInv, [Next]_vars, NEW n \in Notes
  PROVE  /\ \A w \in Words : Happened(n, w) => Happened(n, w)'
         /\ note[n] # None => note'[n] # None /\ made'[n] = made[n]
         /\ Valid(n)' => Valid(n) \/ note[n] = None
  <1>1. /\ note[n] \in Words \cup {None} /\ made[n] \in FiscalProviders \cup {None}
        /\ note[n] = None <=> made[n] = None
        /\ made[n] = "mock" => note[n] \in {"Issued", "Cancelled"}
    BY Types DEF IInv, NotesAreMade, Happened
  <1>2. CASE note'[n] = note[n] /\ made'[n] = made[n]
    BY <1>2 DEF Happened, Valid
  <1>3. CASE note[n] = None
    BY <1>3, FiscalAssumption DEF Happened, Valid, Words
  <1>4. CASE note[n] = "Created" /\ made[n] = "nfeio" /\ made'[n] = made[n] /\ note'[n] \in {"Issued", "Error"}
    BY <1>4, FiscalAssumption DEF Happened, Valid, Words
  <1>5. CASE (made[n] = "mock" \/ note[n] = "Issued") /\ made'[n] = made[n] /\ note'[n] = "Cancelled"
    BY <1>1, <1>5, FiscalAssumption DEF Happened, Valid, Words
  <1> QED
    BY <1>2, <1>3, <1>4, <1>5, NoteSteps

(* A note has a provider once it is emitted.                                  *)
LEMMA NotesAreMadeStep == IInv /\ [Next]_vars => NotesAreMade'
  <1> SUFFICES ASSUME IInv, [Next]_vars, NEW n \in Notes
               PROVE  /\ note'[n] = None <=> made'[n] = None
                      /\ made'[n] = "mock" => note'[n] \in {"Issued", "Cancelled"}
    BY DEF NotesAreMade, Happened
  <1>1. /\ note[n] = None <=> made[n] = None
        /\ made[n] = "mock" => note[n] \in {"Issued", "Cancelled"}
    BY DEF IInv, NotesAreMade, Happened
  <1>2. None \notin Words \cup FiscalProviders
    BY FiscalAssumption
  <1> QED
    BY <1>1, <1>2, NoteSteps DEF FirstWord, FiscalProviders, Words

(* How the document changes: an emission names another note, a cancellation   *)
(* or a notification gives the same note another status.                      *)
LEMMA DocSteps ==
  ASSUME IInv, [Next]_vars
  PROVE  \/ doc' = doc
         \/ /\ note' = note
            /\ \E r \in Requests :
              \/ /\ StoreEmission(r) /\ doc' \in Docs
                 /\ doc'.note = local[r].note /\ doc'.status = MapProviderStatus(local[r].word)
              \/ /\ StoreCancellation(r) \/ StoreWebhook(r)
                 /\ doc \in Docs /\ doc' \in Docs
                 /\ doc'.note = doc.note /\ doc'.status = MapProviderStatus(local[r].word)
  <1>1. ASSUME NEW r \in Requests, StoreEmission(r)
        PROVE  doc' \in Docs /\ doc'.note = local[r].note /\ doc'.status = MapProviderStatus(local[r].word) /\ note' = note
    <2>1. doc' = [status |-> MapProviderStatus(local[r].word), note |-> local[r].note,
                  provider |-> local[r].provider]
      BY <1>1 DEF StoreEmission
    <2>2. /\ local[r].word \in Words /\ local[r].note \in Notes /\ local[r].provider \in FiscalProviders
      BY <1>1, Held DEF StoreEmission, Words
    <2> QED
      BY <1>1, <2>1, <2>2, ProviderWords DEF Docs, StoreEmission
  <1>2. ASSUME NEW r \in Requests, StoreCancellation(r) \/ StoreWebhook(r)
        PROVE  /\ doc \in Docs /\ doc' \in Docs
               /\ doc'.note = doc.note /\ doc'.status = MapProviderStatus(local[r].word) /\ note' = note
    <2>1. doc' = [doc EXCEPT !.status = MapProviderStatus(local[r].word)] /\ note' = note
      BY <1>2 DEF StoreCancellation, StoreWebhook
    <2>2. local[r].word \in Words /\ doc \in Docs
      BY <1>2, Held DEF StoreCancellation, StoreWebhook, Words
    <2> QED
      BY <2>1, <2>2, ProviderWords DEF Docs
  <1>3. \/ doc' = doc
        \/ \E r \in Requests : StoreEmission(r) \/ StoreCancellation(r) \/ StoreWebhook(r)
    BY DEF Next, Request, Proceed, UpdateSettings, StartEmission, MaybeAutoEmit, ProviderEmits,
           EmissionUnanswered, EmissionConflicts, StartCancellation, ProviderCancels, CancellationUnanswered,
           CancellationRefused, NoteEnds, NoteAnnounced, ReceiveWebhook, IgnoreWebhook, Fail, vars
  <1> QED
    BY <1>1, <1>2, <1>3

(* What a step does to the memory of a request.                               *)
LEMMA RequestSteps ==
  ASSUME IInv, [Next]_vars, NEW r \in Requests
  PROVE  \/ pc'[r] = pc[r] /\ local'[r] = local[r]
         \/ pc'[r] = "idle" /\ local'[r] = NoLocal
         \/ StartEmission(r)
         \/ \E n \in Notes : ProviderEmits(r, n)
         \/ StartCancellation(r)
         \/ ProviderCancels(r)
         \/ \E e \in events : ReceiveWebhook(r, e)
  <1>0. pc \in [Requests -> Labels] /\ local \in [Requests -> Locals]
    BY Types DEF IInv
  <1>1. ASSUME NEW q \in Requests, NEW label, NEW l, Wait(q, label, l), q # r
        PROVE  pc'[r] = pc[r] /\ local'[r] = local[r]
    BY <1>0, <1>1 DEF Wait
  <1>2. ASSUME NEW q \in Requests, Finish(q)
        PROVE  \/ pc'[r] = pc[r] /\ local'[r] = local[r]
               \/ pc'[r] = "idle" /\ local'[r] = NoLocal
    BY <1>0, <1>2 DEF Finish, Wait
  <1>3. ASSUME NEW q \in Requests, q # r,
               \/ StartEmission(q) \/ StartCancellation(q) \/ ProviderCancels(q)
               \/ \E n \in Notes : ProviderEmits(q, n)
               \/ \E e \in events : ReceiveWebhook(q, e)
        PROVE  pc'[r] = pc[r] /\ local'[r] = local[r]
    BY <1>1, <1>3 DEF StartEmission, StartCancellation, ProviderCancels, ProviderEmits, ReceiveWebhook
  <1>4. ASSUME NEW q \in Requests,
               \/ StoreEmission(q) \/ EmissionConflicts(q) \/ CancellationRefused(q) \/ StoreCancellation(q)
               \/ StoreWebhook(q) \/ Fail(q) \/ CancellationUnanswered(q)
               \/ \E n \in Notes : EmissionUnanswered(q, n)
        PROVE  Finish(q)
    BY <1>4 DEF StoreEmission, EmissionConflicts, CancellationRefused, StoreCancellation, StoreWebhook,
                Fail, CancellationUnanswered, EmissionUnanswered
  <1>5. ASSUME \/ \E s \in Setups : UpdateSettings(s)
               \/ \E n \in Notes : NoteEnds(n) \/ NoteAnnounced(n)
               \/ \E e \in events : IgnoreWebhook(e)
               \/ UNCHANGED vars
        PROVE  pc'[r] = pc[r] /\ local'[r] = local[r]
    BY <1>5 DEF UpdateSettings, NoteEnds, NoteAnnounced, IgnoreWebhook, vars
  <1> QED
    BY <1>2, <1>3, <1>4, <1>5 DEF Next, Request, Proceed, MaybeAutoEmit

(* The ghosts never forget.                                                   *)
LEMMA GhostsGrow ==
  ASSUME IInv, [Next]_vars
  PROVE  (stale => stale') /\ (strayed => strayed') /\ lost \subseteq lost'
  <1>1. ASSUME NEW r \in Requests, ProviderCancels(r) \/ CancellationUnanswered(r)
        PROVE  (strayed => strayed') /\ stale' = stale /\ lost' = lost
    <2>1. /\ pc[r] = "cancelling" /\ CancelAt(local[r].provider, local[r].note)
          /\ stale' = stale /\ lost' = lost
      BY <1>1 DEF ProviderCancels, CancellationUnanswered
    <2> QED
      BY <2>1, Held, CancelTypes DEF IInv
  <1>2. ASSUME NEW r \in Requests, StoreEmission(r) \/ StoreCancellation(r) \/ StoreWebhook(r)
        PROVE  (stale => stale') /\ strayed' = strayed /\ lost' = lost
    BY <1>2 DEF StoreEmission, StoreCancellation, StoreWebhook, NoteStale
  <1>3. ASSUME NEW r \in Requests, EmissionConflicts(r) \/ Fail(r) \/ \E n \in Notes : EmissionUnanswered(r, n)
        PROVE  stale' = stale /\ strayed' = strayed /\ lost \subseteq lost'
    BY <1>3 DEF EmissionConflicts, Fail, EmissionUnanswered
  <1>4. \/ UNCHANGED <<stale, strayed, lost>>
        \/ \E r \in Requests : ProviderCancels(r) \/ CancellationUnanswered(r)
        \/ \E r \in Requests : StoreEmission(r) \/ StoreCancellation(r) \/ StoreWebhook(r)
        \/ \E r \in Requests : EmissionConflicts(r) \/ Fail(r) \/ \E n \in Notes : EmissionUnanswered(r, n)
    BY DEF Next, Request, Proceed, UpdateSettings, StartEmission, MaybeAutoEmit, ProviderEmits,
           StartCancellation, CancellationRefused, NoteEnds, NoteAnnounced, ReceiveWebhook, IgnoreWebhook,
           vars, ghosts
  <1> QED
    BY <1>1, <1>2, <1>3, <1>4

(* What a request has read is the document as it is or was.                   *)
LEMMA ReadSteps ==
  ASSUME IInv, [Next]_vars, NEW r \in Requests
  PROVE  local'[r].read \in {local[r].read, NoDoc, doc}
  <1>0. local \in [Requests -> Locals] /\ local[r] \in Locals
    BY Types DEF IInv
  <1>1. NoLocal.read = NoDoc
    BY DEF NoLocal
  <1>2. ASSUME StartEmission(r) PROVE local'[r].read = doc
    BY <1>0, <1>2 DEF StartEmission, Wait, NoLocal
  <1>3. ASSUME NEW n \in Notes, ProviderEmits(r, n) PROVE local'[r].read = local[r].read
    BY <1>0, <1>3 DEF ProviderEmits, Wait, Locals
  <1>4. ASSUME StartCancellation(r) PROVE local'[r].read = doc
    BY <1>0, <1>4 DEF StartCancellation, Wait, NoLocal
  <1>5. ASSUME ProviderCancels(r) PROVE local'[r].read = local[r].read
    BY <1>0, <1>5 DEF ProviderCancels, Wait, Locals
  <1>6. ASSUME NEW e \in events, ReceiveWebhook(r, e) PROVE local'[r].read = doc
    BY <1>0, <1>6 DEF ReceiveWebhook, Wait, NoLocal
  <1> QED
    BY <1>1, <1>2, <1>3, <1>4, <1>5, <1>6, RequestSteps

(* News is true when it is sent, and sent again.                              *)
LEMMA NewsIsTrue ==
  ASSUME IInv, [Next]_vars, NEW e \in events'
  PROVE  Happened(e[1], e[2])'
  <1>0. TypeOK /\ events \subseteq Notes \X Words /\ note \in [Notes -> Words \cup {None}]
    BY Types DEF IInv
  <1>1. CASE e \in events
    BY <1>0, <1>1, HistoryIsKept DEF IInv, ReadingsExist
  <1>2. ASSUME NEW r \in Requests, ProviderCancels(r) \/ CancellationUnanswered(r), e \notin events
        PROVE  Happened(e[1], e[2])'
    <2>1. pc[r] = "cancelling" /\ CancelAt(local[r].provider, local[r].note)
      BY <1>2 DEF ProviderCancels, CancellationUnanswered
    <2>2. e = <<local[r].note, "Cancelled">> /\ note'[local[r].note] = "Cancelled"
      BY <1>0, <1>2, <2>1, Held, CancelTypes
    <2> QED
      BY <2>2 DEF Happened
  <1>3. ASSUME NEW n \in Notes, NoteEnds(n) \/ NoteAnnounced(n), e \notin events
        PROVE  Happened(e[1], e[2])'
    <2>1. \/ e = <<n, "Created">>
          \/ e = <<n, note'[n]>> /\ note'[n] \in {"Issued", "Error"}
      BY <1>0, <1>3 DEF NoteEnds, NoteAnnounced
    <2> QED
      BY <2>1 DEF Happened
  <1>4. ASSUME NEW r \in Requests, StoreWebhook(r) \/ Fail(r), e \notin events
        PROVE  Happened(e[1], e[2])'
    <2>1. e = <<local[r].note, local[r].word>> /\ pc[r] = "notified"
      BY <1>4 DEF StoreWebhook, Fail
    <2>2. /\ local[r].note \in Notes /\ local[r].word \in Words
          /\ Happened(local[r].note, local[r].word)
      BY <2>1, Held DEF IInv, Notifications
    <2>3. PICK n \in Notes, w \in Words : e = <<n, w>> /\ Happened(n, w)
      BY <2>1, <2>2
    <2>4. Happened(n, w)'
      BY <2>3, HistoryIsKept
    <2> QED
      BY <2>3, <2>4
  <1>5. \/ events' \subseteq events
        \/ \E r \in Requests : ProviderCancels(r) \/ CancellationUnanswered(r)
        \/ \E n \in Notes : NoteEnds(n) \/ NoteAnnounced(n)
        \/ \E r \in Requests : StoreWebhook(r) \/ Fail(r)
    BY DEF Next, Request, Proceed, UpdateSettings, StartEmission, MaybeAutoEmit, ProviderEmits,
           EmissionUnanswered, StoreEmission, EmissionConflicts, StartCancellation, StoreCancellation,
           CancellationRefused, ReceiveWebhook, IgnoreWebhook, vars
  <1> QED
    BY <1>1, <1>2, <1>3, <1>4, <1>5

(* Notes are not unmade, so whoever names one names one that was emitted.     *)
LEMMA ReadingsExistStep == IInv /\ [Next]_vars => ReadingsExist'
  <1> SUFFICES ASSUME IInv, [Next]_vars PROVE ReadingsExist'
    OBVIOUS
  <1>1. ASSUME NEW d \in Docs, note[d.note] # None PROVE note'[d.note] # None
    BY <1>1, HistoryIsKept DEF Docs
  <1>2. doc # NoDoc => doc \in Docs /\ note[doc.note] # None
    BY Types DEF IInv, ReadingsExist
  <1>3. doc' # NoDoc => note'[doc'.note] # None
    <2>1. CASE doc' = doc
      BY <1>1, <1>2, <2>1
    <2>2. ASSUME NEW r \in Requests, StoreEmission(r), doc'.note = local[r].note, note' = note
          PROVE  note'[doc'.note] # None
      BY <2>2, Held DEF StoreEmission
    <2>3. ASSUME doc \in Docs, doc'.note = doc.note PROVE note'[doc'.note] # None
      BY <1>1, <1>2, <2>3 DEF NoDoc, Docs, Statuses
    <2> QED
      BY <2>1, <2>2, <2>3, DocSteps
  <1>4. ASSUME NEW r \in Requests, local'[r].read # NoDoc PROVE note'[local'[r].read.note] # None
    <2>1. local[r].read \in Docs \cup {NoDoc}
      BY Held DEF Locals
    <2>2. local[r].read # NoDoc => note'[local[r].read.note] # None
      BY <1>1, <2>1 DEF IInv, ReadingsExist
    <2>3. doc # NoDoc => note'[doc.note] # None
      BY <1>1, <1>2
    <2> QED
      BY <1>4, <2>2, <2>3, ReadSteps
  <1> QED
    BY <1>3, <1>4, NewsIsTrue DEF ReadingsExist

(* The note an emission brings is new.                                        *)
LEMMA EmissionsStep == IInv /\ [Next]_vars => Emissions'
  <1> SUFFICES ASSUME IInv, [Next]_vars, NEW r \in Requests
               PROVE  /\ pc'[r] \in {"emitting", "emitted"} =>
                           /\ local'[r].provider \in FiscalProviders
                           /\ local'[r].read.status \notin {"issued", "processing"}
                      /\ pc'[r] = "emitted" =>
                           /\ local'[r].note \in Notes
                           /\ local'[r].note # local'[r].read.note
                           /\ made'[local'[r].note] = local'[r].provider
                           /\ local'[r].word = FirstWord(local'[r].provider)
    BY DEF Emissions
  <1>0. TypeOK /\ pc \in [Requests -> Labels] /\ local \in [Requests -> Locals] /\ local[r] \in Locals
    BY Types DEF IInv
  <1>1. CASE pc'[r] = pc[r] /\ local'[r] = local[r]
    <2>1. pc[r] = "emitted" => made'[local[r].note] = made[local[r].note]
      BY Held, HistoryIsKept
    <2> QED
      BY <1>1, <2>1 DEF IInv, Emissions
  <1>2. CASE pc'[r] = "idle"
    BY <1>2
  <1>3. CASE StartEmission(r)
    <2>1. pc'[r] = "emitting" /\ local'[r].provider = setting.provider /\ local'[r].read = doc
      BY <1>0, <1>3 DEF StartEmission, Wait, NoLocal
    <2> QED
      BY <1>3, <2>1, Types, <1>0 DEF StartEmission, Emittable, Settings
  <1>4. ASSUME NEW n \in Notes, ProviderEmits(r, n)
        PROVE  /\ pc'[r] = "emitted" /\ local'[r].provider \in FiscalProviders
               /\ local'[r].read.status \notin {"issued", "processing"}
               /\ local'[r].note = n /\ n # local'[r].read.note
               /\ made'[n] = local'[r].provider
               /\ local'[r].word = FirstWord(local'[r].provider)
    <2>1. /\ local[r].provider \in FiscalProviders /\ local[r].read.status \notin {"issued", "processing"}
          /\ Emit(r, n)
      BY <1>4 DEF IInv, Emissions, ProviderEmits
    <2>2. /\ note'[n] = FirstWord(local[r].provider) /\ made' = [made EXCEPT ![n] = local[r].provider]
          /\ note[n] = None /\ made \in [Notes -> FiscalProviders \cup {None}]
      BY <1>0, <2>1, EmitTypes, Types
    <2>3. local'[r] = [local[r] EXCEPT !.note = n, !.word = note'[n]] /\ pc'[r] = "emitted"
      BY <1>0, <1>4 DEF ProviderEmits, Wait
    <2>4. /\ local'[r].provider = local[r].provider /\ local'[r].read = local[r].read
          /\ local'[r].note = n /\ local'[r].word = note'[n]
      BY <1>0, <2>3 DEF Locals
    <2>5. n # local[r].read.note
      <3>1. CASE local[r].read = NoDoc
        BY <3>1, FiscalAssumption DEF NoDoc
      <3>2. CASE local[r].read # NoDoc
        BY <2>2, <3>2 DEF IInv, ReadingsExist
      <3> QED
        BY <3>1, <3>2
    <2> QED
      BY <2>1, <2>2, <2>3, <2>4, <2>5
  <1>5. CASE StartCancellation(r)
    BY <1>0, <1>5 DEF StartCancellation, Wait
  <1>6. CASE ProviderCancels(r)
    BY <1>0, <1>6 DEF ProviderCancels, Wait
  <1>7. CASE \E e \in events : ReceiveWebhook(r, e)
    BY <1>0, <1>7 DEF ReceiveWebhook, Wait
  <1> QED
    BY <1>1, <1>2, <1>3, <1>4, <1>5, <1>6, <1>7, RequestSteps

(* The document is never deleted.                                             *)
LEMMA DocExists ==
  ASSUME IInv, [Next]_vars, doc # NoDoc
  PROVE  doc' # NoDoc
  BY DocSteps DEF Docs, NoDoc, Statuses

(* What is stored as cancelled was cancelled by its provider.                 *)
LEMMA CancellationsStep == IInv /\ [Next]_vars => Cancellations'
  <1> SUFFICES ASSUME IInv, [Next]_vars, NEW r \in Requests
               PROVE  /\ pc'[r] \in {"cancelling", "cancelled"} =>
                           /\ doc' # NoDoc
                           /\ local'[r].provider \in FiscalProviders
                           /\ local'[r].read \in Docs
                           /\ local'[r].read.status = "issued"
                           /\ local'[r].note = local'[r].read.note
                      /\ pc'[r] = "cancelled" =>
                           /\ local'[r].word = "Cancelled"
                           /\ strayed' \/ note'[local'[r].note] = "Cancelled"
    BY DEF Cancellations
  <1>0. TypeOK /\ pc \in [Requests -> Labels] /\ local \in [Requests -> Locals] /\ local[r] \in Locals
    BY Types DEF IInv
  <1>1. CASE pc'[r] = pc[r] /\ local'[r] = local[r]
    <2>1. pc[r] = "cancelled" /\ note[local[r].note] = "Cancelled" => note'[local[r].note] = "Cancelled"
      BY Held, HistoryIsKept DEF Happened, Words
    <2> QED
      BY <1>1, <2>1, DocExists, GhostsGrow DEF IInv, Cancellations
  <1>2. CASE pc'[r] = "idle"
    BY <1>2
  <1>3. CASE StartEmission(r)
    BY <1>0, <1>3 DEF StartEmission, Wait
  <1>4. CASE \E n \in Notes : ProviderEmits(r, n)
    BY <1>0, <1>4 DEF ProviderEmits, Wait
  <1>5. CASE StartCancellation(r)
    <2>1. /\ pc'[r] = "cancelling" /\ doc' = doc
          /\ local'[r] = [NoLocal EXCEPT !.read = doc, !.note = doc.note, !.provider = setting.provider]
      BY <1>0, <1>5 DEF StartCancellation, Wait
    <2>2. local'[r].read = doc /\ local'[r].note = doc.note /\ local'[r].provider = setting.provider
      BY <2>1 DEF NoLocal
    <2>3. doc.status = "issued" /\ doc # NoDoc /\ doc \in Docs
      BY <1>0, <1>5, Types DEF StartCancellation, CanCancelFiscal, NoDoc
    <2> QED
      BY <1>0, <2>1, <2>2, <2>3, Types DEF Settings
  <1>6. CASE ProviderCancels(r)
    <2>1. /\ pc'[r] = "cancelled" /\ local'[r] = [local[r] EXCEPT !.word = "Cancelled"] /\ doc' = doc
          /\ pc[r] = "cancelling" /\ CancelAt(local[r].provider, local[r].note)
      BY <1>0, <1>6 DEF ProviderCancels, Wait
    <2>2. /\ local'[r].read = local[r].read /\ local'[r].note = local[r].note
          /\ local'[r].provider = local[r].provider /\ local'[r].word = "Cancelled"
      BY <1>0, <2>1 DEF Locals
    <2>3. strayed' \/ note'[local[r].note] = "Cancelled"
      BY <1>0, <2>1, Held, CancelTypes
    <2> QED
      BY <2>1, <2>2, <2>3 DEF IInv, Cancellations
  <1>7. CASE \E e \in events : ReceiveWebhook(r, e)
    BY <1>0, <1>7 DEF ReceiveWebhook, Wait
  <1> QED
    BY <1>1, <1>2, <1>3, <1>4, <1>5, <1>6, <1>7, RequestSteps

(* News that is being applied stays true while it waits for its write.        *)
LEMMA NotificationsStep == IInv /\ [Next]_vars => Notifications'
  <1> SUFFICES ASSUME IInv, [Next]_vars, NEW r \in Requests, pc'[r] = "notified"
               PROVE  /\ doc' # NoDoc
                      /\ local'[r].read \in Docs
                      /\ local'[r].note = local'[r].read.note
                      /\ local'[r].word \in Words
                      /\ Happened(local[r].note, local[r].word)'
                      /\ CanTransitionFiscal(local'[r].read.status, MapProviderStatus(local'[r].word))
    BY DEF Notifications, Happened
  <1>0. TypeOK /\ pc \in [Requests -> Labels] /\ local \in [Requests -> Locals] /\ local[r] \in Locals
    BY Types DEF IInv
  <1>1. CASE pc'[r] = pc[r] /\ local'[r] = local[r]
    <2>1. PICK n \in Notes, w \in Words : n = local[r].note /\ w = local[r].word /\ Happened(n, w)
      BY <1>1, Held DEF IInv, Notifications
    <2>2. Happened(n, w)'
      BY <2>1, HistoryIsKept
    <2>3. local'[r].note = n /\ local'[r].word = w
      BY <1>1, <2>1
    <2>4. Happened(local[r].note, local[r].word)'
      BY <2>2, <2>3 DEF Happened
    <2> QED
      BY <1>1, <2>4, DocExists DEF IInv, Notifications
  <1>2. ASSUME NEW e \in events, ReceiveWebhook(r, e)
        PROVE  /\ doc' = doc /\ doc \in Docs /\ doc # NoDoc
               /\ local'[r].read = doc /\ local'[r].note = doc.note /\ local'[r].word = e[2]
               /\ e[2] \in Words /\ Happened(doc.note, e[2])'
               /\ CanTransitionFiscal(doc.status, MapProviderStatus(e[2]))
    <2>1. /\ doc' = doc /\ note' = note
          /\ local'[r] = [NoLocal EXCEPT !.read = doc, !.note = e[1], !.word = e[2]]
          /\ doc.note = e[1] /\ CanTransitionFiscal(doc.status, MapProviderStatus(e[2]))
      BY <1>0, <1>2 DEF ReceiveWebhook, Wait, Heard
    <2>2. local'[r].read = doc /\ local'[r].note = e[1] /\ local'[r].word = e[2]
      BY <2>1 DEF NoLocal
    <2>3. e[1] \in Notes /\ e[2] \in Words /\ Happened(e[1], e[2])
      BY <1>0, Types DEF IInv, ReadingsExist
    <2>4. doc \in Docs /\ doc # NoDoc
      BY <1>0, <2>1, <2>3, FiscalAssumption, Types DEF NoDoc
    <2>5. Happened(doc.note, e[2])'
      BY <2>1, <2>3 DEF Happened
    <2> QED
      BY <2>1, <2>2, <2>3, <2>4, <2>5
  <1>3. CASE StartEmission(r) \/ StartCancellation(r) \/ ProviderCancels(r) \/ \E n \in Notes : ProviderEmits(r, n)
    BY <1>0, <1>3 DEF StartEmission, StartCancellation, ProviderCancels, ProviderEmits, Wait
  <1>4. CASE \E e \in events : ReceiveWebhook(r, e)
    <2>1. PICK e \in events : ReceiveWebhook(r, e)
      BY <1>4
    <2>2. Happened(local[r].note, local[r].word)'
      BY <1>2, <2>1 DEF Happened
    <2> QED
      BY <1>2, <2>1, <2>2
  <1> QED
    BY <1>1, <1>3, <1>4, RequestSteps

(* A status other than "processing" is a claim about the note.                *)
Claims(status, n) ==
  \A w \in Words \ {"Created"} : status = MapProviderStatus(w) => Happened(n, w)

(* The document is true exactly when its claim is.                            *)
LEMMA TrueClaims ==
  /\ Claims("processing", 1) /\ Claims("ABSENT", 1)
  /\ DocumentIsTrue <=> stale \/ strayed \/ Claims(doc.status, doc.note)
  BY ProviderWords DEF Claims, DocumentIsTrue, Happened, Words

(* A writer that is up to date stores what has happened.                      *)
LEMMA DocumentIsTrueStep == IInv /\ [Next]_vars => DocumentIsTrue'
  <1> SUFFICES ASSUME IInv, [Next]_vars, ~stale', ~strayed'
               PROVE  \A w \in Words \ {"Created"} :
                        doc'.status = MapProviderStatus(w) => Happened(doc.note, w)'
    BY ProviderWords DEF DocumentIsTrue, Happened, Words
  <1>0. ~stale /\ ~strayed /\ Claims(doc.status, doc.note)
    BY GhostsGrow, TrueClaims DEF IInv
  <1> SUFFICES ASSUME NEW w \in Words \ {"Created"}, doc'.status = MapProviderStatus(w)
               PROVE  Happened(doc.note, w)'
    OBVIOUS
  <1>1. CASE doc' = doc
    <2>1. doc \in Docs /\ doc.note \in Notes /\ Happened(doc.note, w)
      BY <1>0, <1>1, Types, ProviderWords DEF IInv, Claims, NoDoc, Statuses
    <2>2. PICK n \in Notes : n = doc.note /\ Happened(n, w)
      BY <2>1
    <2>3. Happened(n, w)'
      BY <2>2, HistoryIsKept
    <2> QED
      BY <1>1, <2>2, <2>3 DEF Happened
  <1>2. ASSUME NEW r \in Requests, local[r].word \in Words, note' = note,
               doc'.status = MapProviderStatus(local[r].word), Happened(doc'.note, local[r].word)
        PROVE  Happened(doc.note, w)'
    <2>1. w = local[r].word
      BY <1>2, ProviderWords DEF Words
    <2> QED
      BY <1>2, <2>1 DEF Happened
  <1>3. ASSUME NEW r \in Requests, StoreEmission(r), note' = note, doc'.note = local[r].note,
               doc'.status = MapProviderStatus(local[r].word)
        PROVE  Happened(doc.note, w)'
    <2>1. local[r].word \in {"Issued", "Created"} /\ (local[r].word = "Issued" => Happened(local[r].note, "Issued"))
      BY <1>3, Held DEF StoreEmission
    <2>2. local[r].word \in Words /\ Happened(local[r].note, local[r].word)
      BY <2>1 DEF Words, Happened
    <2> QED
      BY <1>2, <1>3, <2>2
  <1>4. ASSUME NEW r \in Requests, StoreCancellation(r) \/ StoreWebhook(r), note' = note, doc'.note = doc.note,
               doc'.status = MapProviderStatus(local[r].word)
        PROVE  Happened(doc.note, w)'
    <2>1. doc = local[r].read
      BY <1>4 DEF StoreCancellation, StoreWebhook, NoteStale, OutOfDate
    <2>2. CASE StoreCancellation(r)
      BY <1>0, <1>2, <1>4, <2>1, <2>2 DEF StoreCancellation, IInv, Cancellations, Happened, Words
    <2>3. CASE StoreWebhook(r)
      BY <1>2, <1>4, <2>1, <2>3 DEF StoreWebhook, IInv, Notifications
    <2> QED
      BY <1>4, <2>2, <2>3
  <1> QED
    BY <1>1, <1>3, <1>4, DocSteps

(* A note that is emitted is on its way to the document, or lost.             *)
LEMMA NewNotes ==
  ASSUME IInv, [Next]_vars, NEW n \in Notes, note[n] = None, note'[n] # None
  PROVE  Storing(n)' \/ n \in lost'
  <1>0. TypeOK /\ pc \in [Requests -> Labels] /\ local \in [Requests -> Locals]
    BY Types DEF IInv
  <1>1. ASSUME NEW r \in Requests, NEW m \in Notes, pc[r] = "emitting", Emit(r, m) PROVE m = n
    BY <1>0, <1>1, Held, EmitTypes, Types
  <1>2. ASSUME NEW r \in Requests, NEW m \in Notes, ProviderEmits(r, m) PROVE Storing(n)'
    <2>1. m = n
      BY <1>1, <1>2 DEF ProviderEmits
    <2>2. local[r] \in Locals /\ local'[r] = [local[r] EXCEPT !.note = m, !.word = note'[m]] /\ pc'[r] = "emitted"
      BY <1>0, <1>2 DEF ProviderEmits, Wait
    <2>3. local'[r].note = n
      BY <2>1, <2>2 DEF Locals
    <2> QED
      BY <2>2, <2>3 DEF Storing
  <1>3. ASSUME NEW r \in Requests, NEW m \in Notes, EmissionUnanswered(r, m) PROVE n \in lost'
    BY <1>1, <1>3 DEF EmissionUnanswered
  <1>4. ASSUME NEW r \in Requests, ProviderCancels(r) \/ CancellationUnanswered(r) PROVE FALSE
    <2>1. pc[r] = "cancelling" /\ CancelAt(local[r].provider, local[r].note) /\ made' = made
      BY <1>4 DEF ProviderCancels, CancellationUnanswered
    <2>2. note[n] = None /\ made[n] = None
      BY DEF IInv, NotesAreMade
    <2>3. local[r].provider \in FiscalProviders /\ local[r].note \in Notes
      BY <2>1, Held
    <2>4. note' = note \/ (note' = [note EXCEPT ![local[r].note] = "Cancelled"] /\ n # local[r].note)
      BY <1>0, <2>1, <2>2, <2>3, CancelTypes, FiscalAssumption DEF Words, FiscalProviders
    <2> QED
      BY <1>0, <2>4, Types
  <1>5. ASSUME NEW m \in Notes, NoteEnds(m) PROVE FALSE
    <2>1. n # m
      BY <1>5, FiscalAssumption DEF NoteEnds, Words
    <2> QED
      BY <1>0, <1>5, <2>1, Types DEF NoteEnds
  <1>6. \/ UNCHANGED note
        \/ \E r \in Requests, m \in Notes : ProviderEmits(r, m) \/ EmissionUnanswered(r, m)
        \/ \E r \in Requests : ProviderCancels(r) \/ CancellationUnanswered(r)
        \/ \E m \in Notes : NoteEnds(m)
    BY DEF Next, Request, Proceed, UpdateSettings, StartEmission, MaybeAutoEmit, StoreEmission,
           EmissionConflicts, StartCancellation, StoreCancellation, CancellationRefused,
           NoteAnnounced, ReceiveWebhook, IgnoreWebhook, StoreWebhook, Fail, vars
  <1> QED
    BY <1>2, <1>3, <1>4, <1>5, <1>6

(* The request that carries a note hands it to the document, or loses it.     *)
LEMMA CarriedNotes ==
  ASSUME IInv, [Next]_vars, NEW n \in Notes, Storing(n)
  PROVE  Storing(n)' \/ doc'.note = n \/ n \in lost'
  <1>0. TypeOK /\ pc \in [Requests -> Labels] /\ local \in [Requests -> Locals]
    BY Types DEF IInv
  <1>1. PICK r \in Requests : pc[r] = "emitted" /\ local[r].note = n
    BY DEF Storing
  <1>2. CASE pc'[r] = pc[r] /\ local'[r] = local[r]
    BY <1>1, <1>2 DEF Storing
  <1>3. CASE StoreEmission(r) \/ EmissionConflicts(r) \/ Fail(r)
    BY <1>1, <1>3 DEF StoreEmission, EmissionConflicts, Fail
  <1>4. ASSUME NEW q \in Requests, NEW label, NEW l, Wait(q, label, l), q # r
        PROVE  pc'[r] = pc[r] /\ local'[r] = local[r]
    BY <1>0, <1>4 DEF Wait
  <1>5. \/ \E q \in Requests : \E label, l : Wait(q, label, l) /\ pc[q] # "emitted"
        \/ UNCHANGED <<pc, local>>
        \/ \E q \in Requests : StoreEmission(q) \/ EmissionConflicts(q) \/ Fail(q)
    BY DEF Next, Request, Proceed, UpdateSettings, StartEmission, MaybeAutoEmit, ProviderEmits,
           EmissionUnanswered, StartCancellation, ProviderCancels, CancellationUnanswered, StoreCancellation,
           CancellationRefused, NoteEnds, NoteAnnounced, ReceiveWebhook, IgnoreWebhook, StoreWebhook, Finish, vars
  <1>6. ASSUME NEW q \in Requests, StoreEmission(q) \/ EmissionConflicts(q) \/ Fail(q)
        PROVE  Wait(q, "idle", NoLocal)
    BY <1>6 DEF StoreEmission, EmissionConflicts, Fail, Finish
  <1> QED
    BY <1>1, <1>2, <1>3, <1>4, <1>5, <1>6

(* The document moves on from a valid note only in the hands of a writer that *)
(* is out of date.                                                            *)
LEMMA NamedNotes ==
  ASSUME IInv, [Next]_vars, NEW n \in Notes, Valid(n), doc.note = n, ~stale', ~strayed'
  PROVE  doc'.note = n
  <1>0. ~stale /\ ~strayed /\ Claims(doc.status, doc.note)
    BY GhostsGrow, TrueClaims DEF IInv
  <1>1. ASSUME NEW r \in Requests, StoreEmission(r) PROVE FALSE
    <2>1. doc = local[r].read
      BY <1>1 DEF StoreEmission, NoteStale, OutOfDate
    <2>2. doc.status \notin {"issued", "processing"}
      BY <1>1, <2>1 DEF StoreEmission, IInv, Emissions
    <2>3. doc \in Docs
      BY FiscalAssumption, Types DEF IInv, NoDoc
    <2>4. doc.status \in {"error", "cancelled"}
      BY <2>2, <2>3 DEF Docs, Statuses
    <2>5. note[n] \in {"Error", "Cancelled"}
      BY <1>0, <2>4, ProviderWords DEF Claims, Happened, Words
    <2> QED
      BY <2>5 DEF Valid
  <1> QED
    BY <1>1, DocSteps

(* A valid note is named by the document, on its way to it, or lost.          *)
LEMMA NotesAreKnownStep == IInv /\ [Next]_vars => NotesAreKnown'
  <1> SUFFICES ASSUME IInv, [Next]_vars, NEW n \in Notes, Valid(n)', ~stale', ~strayed'
               PROVE  doc'.note = n \/ Storing(n)' \/ n \in lost'
    BY TypeStep DEF NotesAreKnown
  <1>1. CASE note[n] = None
    BY <1>1, NewNotes, FiscalAssumption DEF Valid, Words
  <1>2. CASE Valid(n)
    <2>1. doc.note = n \/ Storing(n) \/ n \in lost
      BY <1>2, GhostsGrow DEF IInv, NotesAreKnown
    <2> QED
      BY <1>2, <2>1, CarriedNotes, NamedNotes, GhostsGrow
  <1> QED
    BY <1>1, <1>2, HistoryIsKept

(* The inductive invariant holds in every reachable state.                    *)
THEOREM FiscalInvariance == Spec => []IInv
  <1>1. IInv /\ [Next]_vars => IInv'
    BY TypeStep, NotesAreMadeStep, ReadingsExistStep, EmissionsStep, CancellationsStep, NotificationsStep,
       DocumentIsTrueStep, NotesAreKnownStep DEF IInv
  <1> QED
    BY InitIInv, <1>1, PTL DEF Spec

(* Every valid note is named by the document, being stored, or known to be    *)
(* lost (emitForInvoice, cancelForInvoice).                                   *)
THEOREM ValidNotesAreKnown == Spec => []NotesAreKnown
  <1>1. IInv => NotesAreKnown
    BY DEF IInv
  <1> QED
    BY <1>1, FiscalInvariance, PTL

(* The document claims nothing that has not happened at the provider, whatever *)
(* the order of its news (applyWebhook).                                      *)
THEOREM DocumentsAreTrue == Spec => []DocumentIsTrue
  <1>1. IInv => DocumentIsTrue
    BY DEF IInv
  <1> QED
    BY <1>1, FiscalInvariance, PTL

(* canTransitionFiscal is enforced, but for a writer that is out of date: a   *)
(* test at the read is enough when nobody has written since.                  *)
THEOREM TerminalIsLeftByStaleWriters == Spec => TerminalLeftOnlyByStaleWriter
  <1> DEFINE A == doc # NoDoc /\ doc'.note = doc.note =>
       \/ doc'.status = doc.status
       \/ doc.status = "processing"
       \/ doc.status = "issued" /\ doc'.status = "cancelled"
       \/ \E r \in Requests : pc[r] # "idle" /\ pc'[r] = "idle" /\ OutOfDate(r)
  <1>1. ASSUME IInv, [Next]_vars PROVE A
    <2> SUFFICES ASSUME doc # NoDoc, doc'.note = doc.note, doc' # doc,
                        ~\E r \in Requests : pc[r] # "idle" /\ pc'[r] = "idle" /\ OutOfDate(r)
                 PROVE  CanTransitionFiscal(doc.status, doc'.status)
      BY DEF CanTransitionFiscal
    <2>1. ASSUME NEW r \in Requests, StoreEmission(r) \/ StoreCancellation(r) \/ StoreWebhook(r)
          PROVE  local[r].read = doc
      <3>1. pc[r] # "idle" /\ pc'[r] = "idle"
        BY <1>1, <2>1, Types DEF IInv, StoreEmission, StoreCancellation, StoreWebhook, Finish, Wait
      <3> QED
        BY <3>1 DEF OutOfDate
    <2>2. ASSUME NEW r \in Requests, StoreEmission(r), doc'.note = local[r].note PROVE FALSE
      BY <1>1, <2>1, <2>2 DEF IInv, Emissions, StoreEmission
    <2>3. ASSUME NEW r \in Requests, StoreCancellation(r), doc'.status = MapProviderStatus(local[r].word)
          PROVE  CanTransitionFiscal(doc.status, doc'.status)
      BY <1>1, <2>1, <2>3, ProviderWords DEF IInv, Cancellations, StoreCancellation, CanTransitionFiscal
    <2>4. ASSUME NEW r \in Requests, StoreWebhook(r), doc'.status = MapProviderStatus(local[r].word)
          PROVE  CanTransitionFiscal(doc.status, doc'.status)
      BY <1>1, <2>1, <2>4 DEF IInv, Notifications, StoreWebhook
    <2> QED
      BY <1>1, <2>2, <2>3, <2>4, DocSteps
  <1>2. IInv /\ [Next]_vars => [A]_vars
    BY <1>1
  <1> QED
    BY FiscalInvariance, <1>2, PTL DEF Spec, TerminalLeftOnlyByStaleWriter

=============================================================================
