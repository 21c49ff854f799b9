------------------------------ MODULE Gateways ------------------------------
(***************************************************************************)
(* One invoice, its charge at a payment provider, and the notifications    *)
(* that bring the payment back: the eight gateways of apis/payment, the    *)
(* choice of a gateway for a tenant and for a webhook, and the handler     *)
(* that applies what the gateway makes of a notification.                  *)
(*                                                                         *)
(* A provider resends a notification until it is answered with 200, may    *)
(* deliver it again after that, and promises no order.  The two awaits of  *)
(* the handler that matter here are the question to the provider and the   *)
(* database: what is asked first may be applied last.  (Two requests that  *)
(* race inside the database transaction are the subject of Settlement.)    *)
(***************************************************************************)
EXTENDS InvoiceStatus, Naturals, Sequences, FiniteSets

CONSTANTS
  Offered,   \* the gateways of this instance
  Others,    \* the gateways a tenant may move to afterwards
  Tries,     \* the payments a payer may try on one charge
  Handlers,  \* the webhook requests that run at the same time
  Words,     \* the provider's words for a payment that this instance explores
  None

(***************************************************************************)
(* What each gateway does.                                                 *)
(*   paid, overdue, failed  the words it translates (any other: PENDING)   *)
(*   calls     the HTTP calls of createCharge, in order                    *)
(*   peeks     extractReference finds our reference in the notification    *)
(*   asks      the status comes from a question to the provider            *)
(*   id        what the eventId names: the payment, the notification       *)
(*             ("event"), or nothing                                       *)
(*   foreign   what it makes of another gateway's notification             *)
(***************************************************************************)
MercadoPago ==
  [paid |-> {"approved"}, overdue |-> {},
   failed |-> {"rejected", "cancelled", "refunded", "charged_back"},
   calls |-> <<"charge">>, peeks |-> FALSE, asks |-> TRUE, id |-> "payment",
   foreign |-> "ignored"]

(* The checkout is a link built locally; payment_check answers paid or not.  *)
InfinitePay ==
  [paid |-> {"paid"}, overdue |-> {}, failed |-> {},
   calls |-> <<>>, peeks |-> FALSE, asks |-> TRUE, id |-> "payment",
   foreign |-> "ignored"]

(* The caller of the internal contract speaks our words.                     *)
Mock ==
  [paid |-> {"PAID"}, overdue |-> {"OVERDUE"}, failed |-> {"FAILED"},
   calls |-> <<>>, peeks |-> FALSE, asks |-> FALSE, id |-> "event",
   foreign |-> "refused"]

(* Mutant of Asaas: a payment under risk analysis counts as received.        *)
HastyAsaas ==
  [paid |-> {"RECEIVED", "CONFIRMED", "RECEIVED_IN_CASH",
             "AWAITING_RISK_ANALYSIS"},
   overdue |-> {"OVERDUE"}, failed |-> {"REFUNDED", "DELETED"},
   calls |-> <<"customer", "charge">>, peeks |-> TRUE, asks |-> FALSE,
   id |-> "payment", foreign |-> "refused"]

Asaas ==
  [paid |-> {"RECEIVED", "CONFIRMED", "RECEIVED_IN_CASH"},
   overdue |-> {"OVERDUE"},
   failed |-> {"REFUNDED", "REFUND_REQUESTED", "CHARGEBACK_REQUESTED",
               "CHARGEBACK_DISPUTE", "DELETED"},
   calls |-> <<"customer", "charge">>, peeks |-> TRUE, asks |-> FALSE,
   id |-> "payment", foreign |-> "refused"]

PagBank ==
  [paid |-> {"PAID"}, overdue |-> {}, failed |-> {"DECLINED", "CANCELED"},
   calls |-> <<"charge">>, peeks |-> TRUE, asks |-> FALSE, id |-> "payment",
   foreign |-> "refused"]

Efi ==
  [paid |-> {"paid", "settled"}, overdue |-> {},
   failed |-> {"unpaid", "canceled", "expired", "refunded", "contested"},
   calls |-> <<"token", "charge", "link">>, peeks |-> TRUE, asks |-> FALSE,
   id |-> "none", foreign |-> "refused"]

(* Only checkout.session.completed is read: the completion of the session.   *)
Stripe ==
  [paid |-> {"complete", "paid", "succeeded"}, overdue |-> {},
   failed |-> {"expired", "canceled", "payment_failed"},
   calls |-> <<"charge">>, peeks |-> TRUE, asks |-> FALSE, id |-> "event",
   foreign |-> "refused"]

Pagarme ==
  [paid |-> {"paid"}, overdue |-> {},
   failed |-> {"failed", "canceled", "not_authorized"},
   calls |-> <<"charge">>, peeks |-> TRUE, asks |-> FALSE, id |-> "event",
   foreign |-> "refused"]

Gateway ==
  [mercadopago |-> MercadoPago, infinitepay |-> InfinitePay, mock |-> Mock,
   asaas |-> Asaas, pagbank |-> PagBank, efi |-> Efi, stripe |-> Stripe,
   pagarme |-> Pagarme]

Providers == DOMAIN Gateway

StatusOf(g, word) ==
  CASE word \in Gateway[g].paid -> "PAID"
    [] word \in Gateway[g].overdue -> "OVERDUE"
    [] word \in Gateway[g].failed -> "FAILED"
    [] OTHER -> "PENDING"

(***************************************************************************)
(* The providers themselves (external): the words a payment goes through.  *)
(***************************************************************************)
Life ==
  [mercadopago |-> [open |-> {"pending", "in_process", "authorized"}, late |-> {},
                    approved |-> {"approved"}, rejected |-> {"rejected", "cancelled"},
                    reversed |-> {"refunded", "charged_back"}],
   infinitepay |-> [open |-> {}, late |-> {}, approved |-> {"paid"},
                    rejected |-> {}, reversed |-> {}],
   mock |-> [open |-> {"PENDING"}, late |-> {"OVERDUE"}, approved |-> {"PAID"},
             rejected |-> {"FAILED"}, reversed |-> {}],
   asaas |-> [open |-> {"PENDING", "AWAITING_RISK_ANALYSIS"}, late |-> {"OVERDUE"},
              approved |-> {"CONFIRMED", "RECEIVED", "RECEIVED_IN_CASH"},
              rejected |-> {"DELETED"}, reversed |-> {"REFUNDED"}],
   pagbank |-> [open |-> {"WAITING", "IN_ANALYSIS", "AUTHORIZED"}, late |-> {},
                approved |-> {"PAID"}, rejected |-> {"DECLINED"},
                reversed |-> {"CANCELED"}],
   efi |-> [open |-> {"waiting", "approved"}, late |-> {}, approved |-> {"paid"},
            rejected |-> {"unpaid", "expired"}, reversed |-> {"refunded"}],
   stripe |-> [open |-> {"unpaid"}, late |-> {}, approved |-> {"paid"},
               rejected |-> {"payment_failed"}, reversed |-> {}],
   pagarme |-> [open |-> {"pending", "processing"}, late |-> {},
                approved |-> {"paid"}, rejected |-> {"failed"},
                reversed |-> {"canceled"}]]

(* The checkouts on which a payer may try again after a rejection.           *)
RetriableCheckouts == {"mercadopago", "pagbank", "infinitepay"}

Becomes(g, from, to) ==
  \/ /\ from = None
     /\ to \in Life[g].open \cup Life[g].approved \cup Life[g].rejected
  \/ /\ from \in Life[g].open
     /\ to \in Life[g].late \cup Life[g].approved \cup Life[g].rejected
  \/ from \in Life[g].late /\ to \in Life[g].approved
  \/ from \in Life[g].approved /\ to \in Life[g].reversed

WordsOf(g) == UNION {Life[g][stage] : stage \in DOMAIN Life[g]}

AllWords == UNION {WordsOf(g) : g \in Providers}

ASSUME GatewaysAssumption ==
  /\ Offered \cup Others \subseteq Providers
  /\ Words \subseteq AllWords
  /\ None \notin AllWords
  /\ Tries # {}

FirstTry == CHOOSE t \in Tries : TRUE

-----------------------------------------------------------------------------
Notifications == [try : Tries, word : AllWords, later : BOOLEAN]

Keys == Tries \cup Notifications

(* What verifyAndParseWebhook makes of a notification: its payment and status.*)
Events == [of : Notifications, status : {"PAID", "OVERDUE", "FAILED", "PENDING"}]

NoLocal == [of |-> None, status |-> None]

VARIABLES
  provider,  \* the gateway that charged the invoice
  own,       \* the tenant has an account of its own; FALSE: the environment's
  setting,   \* PaymentSetting.provider, which the owner may change
  charge,    \* [calls, opened]: the calls of createCharge answered so far,
             \* and whether the provider holds a charge
  invoice,   \* Invoice.status, or "ABSENT" once deleted
  attached,  \* the invoice carries its gatewayId
  word,      \* the provider's present word for each payment; None: not tried
  sent,      \* notifications the provider has sent
  acked,     \* those answered with 200: not resent for want of an answer
  keys,      \* WebhookEvent rows
  local,     \* what each request holds: the notification and its status
  unread     \* notifications answered 200 although their content was not read

gatewaysVars == <<provider, own, setting, charge, invoice, attached, word, sent,
                  acked, keys, local, unread>>

GatewaysTypeOK ==
  /\ provider \in Offered
  /\ own \in BOOLEAN
  /\ setting \in Providers
  /\ charge \in [calls : 0 .. 3, opened : BOOLEAN]
  /\ invoice \in (InvoiceStatuses \ {"RENEGOTIATED"}) \cup {"ABSENT"}
  /\ attached \in BOOLEAN
  /\ word \in [Tries -> AllWords \cup {None}]
  /\ sent \subseteq Notifications
  /\ acked \subseteq sent
  /\ keys \subseteq Keys
  /\ local \in [Handlers -> Events \cup {NoLocal}]
  /\ unread \subseteq acked

GatewaysInit ==
  /\ provider \in Offered
  /\ own \in BOOLEAN
  /\ setting = provider
  /\ charge = [calls |-> 0, opened |-> FALSE]
  /\ invoice = "PENDING"
  /\ attached = FALSE
  /\ word = [t \in Tries |-> None]
  /\ sent = {}
  /\ acked = {}
  /\ keys = {}
  /\ local = [h \in Handlers |-> NoLocal]
  /\ unread = {}

G == Gateway[provider]

-----------------------------------------------------------------------------
(* createCharge: one call after the other, then attachCharge.                *)
Charging == invoice # "ABSENT" /\ ~attached /\ charge.calls < Len(G.calls)

Opens(call) == G.calls[call] = "charge"

CallAnswered ==
  /\ Charging
  /\ charge' = [calls |-> charge.calls + 1,
                opened |-> charge.opened \/ Opens(charge.calls + 1)]
  /\ UNCHANGED <<provider, own, setting, invoice, attached, word, sent, acked,
                 keys, local, unread>>

(* A call is refused, or carried out and its answer lost: createCharge       *)
(* throws and the reserved invoice is deleted.                               *)
CallFails ==
  /\ Charging
  /\ \E carriedOut \in BOOLEAN :
       charge' = [charge EXCEPT
                    !.opened = @ \/ (carriedOut /\ Opens(charge.calls + 1))]
  /\ invoice' = "ABSENT"
  /\ UNCHANGED <<provider, own, setting, attached, word, sent, acked, keys,
                 local, unread>>

AttachCharge ==
  /\ invoice # "ABSENT"
  /\ ~attached
  /\ charge.calls = Len(G.calls)
  /\ attached' = TRUE
  /\ UNCHANGED <<provider, own, setting, charge, invoice, word, sent, acked,
                 keys, local, unread>>

(* The sweep of the recovery engine: the due date has passed.                *)
MarkOverdue ==
  /\ invoice = "PENDING"
  /\ invoice' = "OVERDUE"
  /\ UNCHANGED <<provider, own, setting, charge, attached, word, sent, acked,
                 keys, local, unread>>

(* The owner moves to another gateway, and perhaps back; charges that are    *)
(* open at the first stay there.                                             *)
ChangeProvider(p) ==
  /\ attached
  /\ setting # p
  /\ setting' = p
  /\ UNCHANGED <<provider, own, charge, invoice, attached, word, sent, acked,
                 keys, local, unread>>

-----------------------------------------------------------------------------
(* External: a payment is tried or moves on, and the provider notifies it.   *)
(* A payer needs the link, which is shown once the charge is attached; the   *)
(* provider itself may announce the open charge before that.                 *)
PaymentMoves(t, w) ==
  /\ Becomes(provider, word[t], w)
  /\ t = FirstTry \/ provider \in RetriableCheckouts
  /\ \/ attached
     \/ charge.opened /\ w \in Life[provider].open
  /\ word' = [word EXCEPT ![t] = w]
  /\ sent' = sent \cup {[try |-> t, word |-> w, later |-> word[t] # None]}
  /\ UNCHANGED <<provider, own, setting, charge, invoice, attached, acked, keys,
                 local, unread>>

-----------------------------------------------------------------------------
(* POST /webhook/:provider                                                   *)
Free(h) == local[h] = NoLocal

(* Answered with 200 and nothing else is done.                               *)
Answer(n) ==
  /\ acked' = acked \cup {n}
  /\ UNCHANGED <<provider, own, setting, charge, invoice, attached, word, sent,
                 keys>>

AnswerUnread(n) ==
  /\ Answer(n)
  /\ unread' = unread \cup {n}

(* The gateway that reads the notification.  With our reference in it, the   *)
(* invoice leads to its tenant, and to the gateway the tenant has NOW.       *)
Reader == IF G.peeks /\ attached THEN setting ELSE provider

(* The signature holds: the reader has the secrets of the account that sent  *)
(* the notification.  Without the reference, the reader has only what the    *)
(* environment holds; the secret of the mock is always the environment's.    *)
SignatureHolds ==
  \/ G.peeks /\ attached
  \/ provider = "mock"
  \/ ~own

(* What is not about a payment's completion at Stripe is not read.           *)
Skipped(n) == provider = "stripe" /\ n.later

(* The tenant has left for a gateway that does not recognise the             *)
(* notification and takes it for one that does not concern it.               *)
IgnoreForeign(h, n) ==
  /\ Free(h)
  /\ n \in sent
  /\ Reader # provider
  /\ Gateway[Reader].foreign = "ignored"
  /\ AnswerUnread(n)
  /\ UNCHANGED local

IgnoreSkipped(h, n) ==
  /\ Free(h)
  /\ n \in sent
  /\ Reader = provider
  /\ SignatureHolds
  /\ Skipped(n)
  /\ AnswerUnread(n)
  /\ UNCHANGED local

(* InfinitePay: payment_check cannot be reached, times out or knows nothing  *)
(* of the handle: "could not confirm" is answered like "not about us".       *)
CheckFails(h, n) ==
  /\ Free(h)
  /\ n \in sent
  /\ provider = "infinitepay"
  /\ AnswerUnread(n)
  /\ UNCHANGED local

(* The notification is verified and turned into an event, with the word it   *)
(* carries or with the one the provider answers now.                         *)
ParseNotification(h, n) ==
  /\ Free(h)
  /\ n \in sent
  /\ Reader = provider
  /\ SignatureHolds
  /\ ~Skipped(n)
  /\ LET w == IF G.asks THEN word[n.try] ELSE n.word IN
     local' = [local EXCEPT ![h] = [of |-> n, status |-> StatusOf(provider, w)]]
  /\ UNCHANGED <<provider, own, setting, charge, invoice, attached, word, sent,
                 acked, keys, unread>>

(* Mutant of KeyOf: the event is always named after its payment.             *)
KeyByPayment(n) == IF G.id = "none" THEN {} ELSE {n.try}

KeyOf(n) ==
  CASE G.id = "payment" -> {n.try}
    [] G.id = "event" -> {n}
    [] G.id = "none" -> {}

(* Mutant of ApplyEvent: the event is recorded in a transaction of its own.  *)
RecordBeforeApplying(h) ==
  LET n == local[h].of IN
  /\ ~Free(h)
  /\ attached
  /\ CanTransitionInvoice(invoice, local[h].status)
  /\ KeyOf(n) \cap keys = {}
  /\ keys' = keys \cup KeyOf(n)
  /\ UNCHANGED <<provider, own, setting, charge, invoice, attached, word, sent,
                 acked, local, unread>>

(* applyWebhook: the invoice is found, the move is allowed and the event is  *)
(* new.                                                                      *)
ApplyEvent(h) ==
  LET n == local[h].of IN
  /\ ~Free(h)
  /\ attached
  /\ CanTransitionInvoice(invoice, local[h].status)
  /\ KeyOf(n) \cap keys = {}
  /\ invoice' = local[h].status
  /\ keys' = keys \cup KeyOf(n)
  /\ acked' = acked \cup {n}
  /\ local' = [local EXCEPT ![h] = NoLocal]
  /\ UNCHANGED <<provider, own, setting, charge, attached, word, sent, unread>>

(* The move is not allowed, or the event is already there: 200 all the same. *)
SkipEvent(h) ==
  LET n == local[h].of IN
  /\ ~Free(h)
  /\ attached
  /\ \/ ~CanTransitionInvoice(invoice, local[h].status)
     \/ KeyOf(n) \cap keys # {}
  /\ Answer(n)
  /\ local' = [local EXCEPT ![h] = NoLocal]
  /\ UNCHANGED unread

(* The invoice is not found (404), a call or the database fails, or the      *)
(* process dies: no 200.  (A refused signature changes nothing and is left   *)
(* out: the notification stays unanswered.)                                  *)
DropEvent(h) ==
  /\ ~Free(h)
  /\ local' = [local EXCEPT ![h] = NoLocal]
  /\ UNCHANGED <<provider, own, setting, charge, invoice, attached, word, sent,
                 acked, keys, unread>>

-----------------------------------------------------------------------------
Handle(h) ==
  \/ \E n \in sent : \/ IgnoreForeign(h, n)
                     \/ IgnoreSkipped(h, n)
                     \/ CheckFails(h, n)
                     \/ ParseNotification(h, n)
  \/ ApplyEvent(h)
  \/ SkipEvent(h)
  \/ DropEvent(h)

GatewaysNext ==
  \/ CallAnswered
  \/ CallFails
  \/ AttachCharge
  \/ MarkOverdue
  \/ \E p \in Others \cup {provider} : ChangeProvider(p)
  \/ \E t \in Tries, w \in Words : PaymentMoves(t, w)
  \/ \E h \in Handlers : Handle(h)

GatewaysSpec == GatewaysInit /\ [][GatewaysNext]_gatewaysVars

(* Every request ends, one way or another; the provider resends what was     *)
(* not answered, and a request that keeps being tried succeeds at last:      *)
(* neither a broken connection nor a crash lasts for ever.                   *)
Confirms(n, t) == n.try = t /\ n.word \in Life[provider].approved

ReadConfirmation(t) ==
  \E h \in Handlers, n \in sent :
    /\ Confirms(n, t)
    /\ n \notin acked
    /\ ParseNotification(h, n) \/ IgnoreSkipped(h, n)

FinishConfirmation(t) ==
  \E h \in Handlers :
    /\ ~Free(h)
    /\ Confirms(local[h].of, t)
    /\ ApplyEvent(h) \/ SkipEvent(h)

Fairness ==
  /\ \A h \in Handlers : WF_gatewaysVars(ApplyEvent(h) \/ SkipEvent(h) \/ DropEvent(h))
  /\ \A t \in Tries : SF_gatewaysVars(ReadConfirmation(t)) /\ SF_gatewaysVars(FinishConfirmation(t))

FairSpec == GatewaysSpec /\ Fairness
=============================================================================
