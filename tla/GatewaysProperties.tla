------------------------- MODULE GatewaysProperties -------------------------
(* What must hold of an invoice and of its charge at a provider.             *)
EXTENDS Gateways

(* The provider has said, at some time, that the money of t was received.    *)
OnceApproved(t) == \E n \in sent : Confirms(n, t)

(* No invoice is paid by a word that does not mean money: whatever the      *)
(* gateway, the order of its notifications and the moment it asks, an        *)
(* invoice that is PAID had a payment the provider approved                  *)
(* (map*Status and verifyAndParseWebhook of every gateway).                  *)
PaidWasApproved ==
  /\ GatewaysTypeOK
  /\ invoice = "PAID" => \E t \in Tries : OnceApproved(t)

(* What a confirmation of t can be lost to: its event id was spent on an     *)
(* earlier notification of the same payment, or it was answered unread.      *)
Spent(t) == G.id = "payment" /\ t \in keys

Unread(t) == \E n \in unread : Confirms(n, t)

(* A confirmation answered with 200 has paid the invoice, unless its event   *)
(* id was spent before or its content was never read (applyWebhook,          *)
(* verifyAndParseWebhook): nothing else loses a payment, neither the order,  *)
(* nor a resend, nor a crash, nor a refund that overtakes it.                *)
ConfirmationIsKept ==
  \A n \in acked : \A t \in Tries :
    Confirms(n, t) => invoice = "PAID" \/ Spent(t) \/ n \in unread

(* A payment approved at the provider pays the invoice in the end, whatever  *)
(* is delivered late, twice or only half processed, unless it was lost to    *)
(* one of the two, the tenant has left the gateway, or the account that      *)
(* signs is not the one the reader knows.                                    *)
ConfirmationArrives ==
  \A t \in Tries :
    OnceApproved(t)
      ~> \/ invoice = "PAID"
         \/ Spent(t)
         \/ Unread(t)
         \/ setting # provider
         \/ ~SignatureHolds

(***************************************************************************)
(* The inductive invariant behind the safety properties.                   *)
(***************************************************************************)

(* A provider speaks its own words, has notified the present one of every     *)
(* payment, and takes back what it approved by a reversal only.               *)
WordsAreNotified ==
  /\ \A n \in sent :
       /\ n.word \in WordsOf(provider)
       /\ word[n.try] \in WordsOf(provider)
       /\ n.word \in Life[provider].approved =>
            word[n.try] \in Life[provider].approved \cup Life[provider].reversed
  /\ \A t \in Tries :
       word[t] # None => \E n \in sent : n.try = t /\ n.word = word[t]

(* What a request holds is of a notification that was sent; it is PAID only   *)
(* after an approval; and a confirmation is read as PAID, or as FAILED by who *)
(* asks and hears of the reversal.                                            *)
EventsAreNotified ==
  \A h \in Handlers : ~Free(h) =>
    LET event == local[h] IN
    /\ event.of \in sent
    /\ event.status = "PAID" => OnceApproved(event.of.try)
    /\ event.of.word \in Life[provider].approved =>
         event.status = "PAID" \/ (G.asks /\ event.status = "FAILED")

(* Only an invoice that carries its charge is moved by notifications, and     *)
(* such an invoice is not undone.                                             *)
ChargedStays ==
  /\ attached => invoice # "ABSENT"
  /\ invoice = "PAID" => attached

(* An event that is named after its notification was applied.                 *)
KeysAreApplied ==
  G.id = "event" =>
    \A n \in keys : n \in sent /\ (n.word \in Life[provider].approved => invoice = "PAID")

GatewaysIInv ==
  /\ PaidWasApproved
  /\ WordsAreNotified
  /\ EventsAreNotified
  /\ ChargedStays
  /\ KeysAreApplied
  /\ ConfirmationIsKept
=============================================================================
