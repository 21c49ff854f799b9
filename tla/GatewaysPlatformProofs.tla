----------------------- MODULE GatewaysPlatformProofs -----------------------
(***************************************************************************)
(* Proofs about Gateways, for any number of payments tried on a charge and *)
(* of requests; and about Platform, for any number of bills and requests,  *)
(* and any lengths of a period and of the trial.  The two have nothing in  *)
(* common but this module.                                                 *)
(***************************************************************************)
EXTENDS GatewaysProperties, PlatformProperties, FiniteSetTheorems, TLAPS

-----------------------------------------------------------------------------
(***************************************************************************)
(* Gateways.                                                               *)
(***************************************************************************)

(* The table of the gateways beside the words of their providers: at most     *)
(* three calls, no word has two translations, a confirmation is translated to *)
(* PAID and nothing else is, and a gateway that asks names its events after   *)
(* their payment and hears of a reversal as FAILED.                           *)
LEMMA GatewayTable ==
  ASSUME NEW g \in Providers
  PROVE  /\ Len(Gateway[g].calls) \in 0 .. 3
         /\ Gateway[g].paid \cap (Gateway[g].overdue \cup Gateway[g].failed) = {}
         /\ Gateway[g].overdue \cap Gateway[g].failed = {}
         /\ \A w \in WordsOf(g) : w \in Gateway[g].paid <=> w \in Life[g].approved
         /\ Life[g].approved \cup Life[g].reversed \subseteq WordsOf(g)
         /\ Gateway[g].asks => /\ Gateway[g].id = "payment"
                               /\ Life[g].reversed \cap Gateway[g].overdue = {}
                               /\ Life[g].reversed \subseteq Gateway[g].failed
<1> DEFINE stages == {"open", "late", "approved", "rejected", "reversed"}
<1> USE DEF Gateway, Life
<1>0. WordsOf(g) = Life[g].open \cup Life[g].late \cup Life[g].approved
                     \cup Life[g].rejected \cup Life[g].reversed
  <2>1. DOMAIN Life[g] = stages
    BY DEF Providers
  <2> QED
    BY <2>1 DEF WordsOf, Providers
<1>1. CASE g = "mercadopago"
  BY <1>0, <1>1 DEF MercadoPago
<1>2. CASE g = "infinitepay"
  BY <1>0, <1>2 DEF InfinitePay
<1>3. CASE g = "mock"
  BY <1>0, <1>3 DEF Mock
<1>4. CASE g = "asaas"
  BY <1>0, <1>4 DEF Asaas
<1>5. CASE g = "pagbank"
  BY <1>0, <1>5 DEF PagBank
<1>6. CASE g = "efi"
  BY <1>0, <1>6 DEF Efi
<1>7. CASE g = "stripe"
  BY <1>0, <1>7 DEF Stripe
<1>8. CASE g = "pagarme"
  BY <1>0, <1>8 DEF Pagarme
<1> QED
  BY <1>1, <1>2, <1>3, <1>4, <1>5, <1>6, <1>7, <1>8 DEF Providers

(* A payment moves among the words of its provider, and one that was approved *)
(* moves to a reversal only.                                                  *)
LEMMA ApprovalStays ==
  ASSUME NEW g \in Providers, NEW from, NEW to, Becomes(g, from, to)
  PROVE  /\ to \in WordsOf(g)
         /\ from \in Life[g].approved \cup Life[g].reversed =>
              to \in Life[g].approved \cup Life[g].reversed
<1> USE DEF Life
<1>1. to \in WordsOf(g)
  <2>1. /\ Life[g].open \cup Life[g].late \cup Life[g].approved \subseteq WordsOf(g)
        /\ Life[g].rejected \cup Life[g].reversed \subseteq WordsOf(g)
    <3>1. DOMAIN Life[g] = {"open", "late", "approved", "rejected", "reversed"}
      BY DEF Providers, Gateway
    <3> QED
      BY <3>1 DEF WordsOf
  <2> QED
    BY <2>1 DEF Becomes
<1>2. ASSUME from \in Life[g].approved \cup Life[g].reversed
      PROVE  from # None
  <2>1. from \in WordsOf(g)
    BY <1>2, GatewayTable
  <2>2. from \in AllWords
    BY <2>1 DEF AllWords
  <2> QED
    BY <2>2, GatewaysAssumption
<1>3. from \in Life[g].approved \cup Life[g].reversed =>
        from \notin Life[g].open /\ from \notin Life[g].late
  BY DEF Providers, Gateway
<1> QED
  BY <1>1, <1>2, <1>3 DEF Becomes

(* How a gateway reads the words of its provider.                             *)
LEMMA WordsAreRead ==
  ASSUME NEW g \in Providers, NEW w \in WordsOf(g)
  PROVE  /\ StatusOf(g, w) \in {"PAID", "OVERDUE", "FAILED", "PENDING"}
         /\ StatusOf(g, w) = "PAID" <=> w \in Life[g].approved
         /\ Gateway[g].asks /\ w \in Life[g].reversed => StatusOf(g, w) \in {"PAID", "FAILED"}
<1>1. w \in Gateway[g].paid <=> w \in Life[g].approved
  BY GatewayTable
<1>2. /\ StatusOf(g, w) \in {"PAID", "OVERDUE", "FAILED", "PENDING"}
      /\ StatusOf(g, w) = "PAID" <=> w \in Gateway[g].paid
      /\ w \notin Gateway[g].overdue /\ w \in Gateway[g].failed =>
           StatusOf(g, w) \in {"PAID", "FAILED"}
  <2>0. /\ Gateway[g].paid \cap (Gateway[g].overdue \cup Gateway[g].failed) = {}
        /\ Gateway[g].overdue \cap Gateway[g].failed = {}
    BY GatewayTable
  <2>1. CASE w \in Gateway[g].paid
    <3>1. StatusOf(g, w) = "PAID"
      BY <2>0, <2>1, Zenon DEF StatusOf
    <3> QED
      BY <2>1, <3>1
  <2>2. CASE w \notin Gateway[g].paid /\ w \in Gateway[g].overdue
    <3>1. StatusOf(g, w) = "OVERDUE"
      BY <2>0, <2>2, Zenon DEF StatusOf
    <3> QED
      BY <2>2, <3>1
  <2>3. CASE w \notin Gateway[g].paid \cup Gateway[g].overdue /\ w \in Gateway[g].failed
    <3>1. StatusOf(g, w) = "FAILED"
      BY <2>0, <2>3, Zenon DEF StatusOf
    <3> QED
      BY <2>3, <3>1
  <2>4. CASE w \notin Gateway[g].paid \cup Gateway[g].overdue \cup Gateway[g].failed
    <3>1. StatusOf(g, w) = "PENDING"
      BY <2>0, <2>4, Zenon DEF StatusOf
    <3> QED
      BY <2>4, <3>1
  <2> QED
    BY <2>1, <2>2, <2>3, <2>4
<1>3. Gateway[g].asks /\ w \in Life[g].reversed =>
        w \notin Gateway[g].overdue /\ w \in Gateway[g].failed
  BY GatewayTable
<1> QED
  BY <1>1, <1>2, <1>3

LEMMA GatewaysInitIInv == GatewaysInit => GatewaysIInv
<1> SUFFICES ASSUME GatewaysInit PROVE GatewaysIInv
  OBVIOUS
<1> USE DEF GatewaysInit
<1>1. GatewaysTypeOK
  <2>1. provider \in Offered /\ setting \in Providers
    BY GatewaysAssumption
  <2>2. word \in [Tries -> AllWords \cup {None}]
    OBVIOUS
  <2>3. local \in [Handlers -> Events \cup {NoLocal}]
    OBVIOUS
  <2>4. charge \in [calls : 0 .. 3, opened : BOOLEAN]
    OBVIOUS
  <2> QED
    BY <2>1, <2>2, <2>3, <2>4 DEF GatewaysTypeOK, InvoiceStatuses
<1>2. PaidWasApproved
  BY <1>1 DEF PaidWasApproved
<1>3. WordsAreNotified
  BY DEF WordsAreNotified
<1>4. EventsAreNotified
  BY DEF EventsAreNotified, Free
<1>5. ChargedStays /\ KeysAreApplied /\ ConfirmationIsKept
  BY DEF ChargedStays, KeysAreApplied, ConfirmationIsKept
<1> QED
  BY <1>2, <1>3, <1>4, <1>5 DEF GatewaysIInv

(* Every step keeps the types.                                                *)
LEMMA GatewaysTypeStep ==
  ASSUME GatewaysIInv, [GatewaysNext]_gatewaysVars
  PROVE  GatewaysTypeOK'
<1> USE DEF GatewaysTypeOK
<1>0. GatewaysTypeOK /\ WordsAreNotified
  BY DEF GatewaysIInv, PaidWasApproved
<1>1. provider \in Providers
  BY <1>0, GatewaysAssumption
<1>2. CASE CallAnswered
  <2>1. Len(G.calls) \in 0 .. 3
    BY <1>1, GatewayTable DEF G
  <2>2. charge.calls + 1 \in 0 .. 3
    <3>1. charge.calls \in 0 .. 3 /\ charge.calls < Len(G.calls)
      BY <1>0, <1>2, Zenon DEF CallAnswered, Charging
    <3> DEFINE length == Len(G.calls)
    <3>2. length \in 0 .. 3 /\ charge.calls < length
      BY <2>1, <3>1
    <3> HIDE DEF length
    <3> QED
      BY <3>1, <3>2
  <2>3. (charge.opened \/ Opens(charge.calls + 1)) \in BOOLEAN
    BY Zenon
  <2>4. charge' \in [calls : 0 .. 3, opened : BOOLEAN]
    BY <1>2, <2>2, <2>3, Zenon DEF CallAnswered
  <2> QED
    BY <1>0, <1>2, <2>4 DEF CallAnswered
<1>3. CASE CallFails
  <2>1. PICK carriedOut \in BOOLEAN :
          charge' = [charge EXCEPT
                       !.opened = @ \/ (carriedOut /\ Opens(charge.calls + 1))]
    BY <1>3 DEF CallFails
  <2>2. (charge.opened \/ (carriedOut /\ Opens(charge.calls + 1))) \in BOOLEAN
    BY Zenon
  <2>3. charge' \in [calls : 0 .. 3, opened : BOOLEAN]
    BY <1>0, <2>1, <2>2
  <2> QED
    BY <1>0, <1>3, <2>3 DEF CallFails
<1>4. CASE AttachCharge \/ MarkOverdue
  BY <1>0, <1>4 DEF AttachCharge, MarkOverdue, InvoiceStatuses
<1>5. ASSUME NEW p \in Others \cup {provider}, ChangeProvider(p)
      PROVE  GatewaysTypeOK'
  BY <1>0, <1>1, <1>5, GatewaysAssumption DEF ChangeProvider
<1>6. ASSUME NEW t \in Tries, NEW w \in Words, PaymentMoves(t, w)
      PROVE  GatewaysTypeOK'
  <2>1. w \in AllWords
    BY GatewaysAssumption
  <2>2. [try |-> t, word |-> w, later |-> word[t] # None] \in Notifications
    BY <2>1 DEF Notifications
  <2> QED
    BY <1>0, <1>6, <2>1, <2>2 DEF PaymentMoves
<1>7. ASSUME NEW h \in Handlers, Handle(h)
      PROVE  GatewaysTypeOK'
  <2>1. ASSUME NEW n \in sent, IgnoreForeign(h, n) \/ IgnoreSkipped(h, n) \/ CheckFails(h, n)
        PROVE  GatewaysTypeOK'
    BY <1>0, <2>1 DEF IgnoreForeign, IgnoreSkipped, CheckFails, AnswerUnread, Answer
  <2>2. ASSUME NEW n \in sent, ParseNotification(h, n)
        PROVE  GatewaysTypeOK'
    <3> DEFINE w == IF G.asks THEN word[n.try] ELSE n.word
    <3>1. w \in WordsOf(provider)
      BY <1>0 DEF WordsAreNotified
    <3>2. [of |-> n, status |-> StatusOf(provider, w)] \in Events
      BY <1>0, <1>1, <3>1, WordsAreRead DEF Events
    <3> HIDE DEF w
    <3>3. local' = [local EXCEPT ![h] = [of |-> n, status |-> StatusOf(provider, w)]]
      BY <2>2 DEF ParseNotification, w
    <3> QED
      BY <1>0, <2>2, <3>2, <3>3 DEF ParseNotification
  <2>3. ASSUME ~Free(h)
        PROVE  /\ local[h] \in Events /\ local[h].of \in sent
               /\ local[h].status \in InvoiceStatuses \ {"RENEGOTIATED"}
               /\ KeyOf(local[h].of) \subseteq Keys
    <3>1. local[h] \in Events /\ local[h].of \in sent
      BY <1>0, <2>3 DEF GatewaysIInv, EventsAreNotified, Free
    <3>2. local[h].of.try \in Tries
      BY <3>1 DEF Events, Notifications
    <3>3. KeyOf(local[h].of) \subseteq Keys
      <4>1. G.id \in {"payment", "event", "none"}
        BY <1>1 DEF G, Providers, Gateway, MercadoPago, InfinitePay, Mock, Asaas, PagBank,
                    Efi, Stripe, Pagarme
      <4>2. local[h].of \in Notifications
        BY <3>1 DEF Events
      <4> QED
        BY <3>2, <4>1, <4>2 DEF KeyOf, Keys
    <3> QED
      BY <3>1, <3>3 DEF Events, InvoiceStatuses
  <2>4. CASE ApplyEvent(h)
    BY <1>0, <2>3, <2>4 DEF ApplyEvent
  <2>5. CASE SkipEvent(h)
    BY <1>0, <2>3, <2>5 DEF SkipEvent, Answer
  <2>6. CASE DropEvent(h)
    BY <1>0, <2>6 DEF DropEvent
  <2> QED
    BY <1>7, <2>1, <2>2, <2>4, <2>5, <2>6 DEF Handle
<1>8. CASE UNCHANGED gatewaysVars
  BY <1>0, <1>8 DEF gatewaysVars
<1> QED
  BY <1>2, <1>3, <1>4, <1>5, <1>6, <1>7, <1>8 DEF GatewaysNext

(* A step that leaves the notifications, what requests hold, the events and   *)
(* the invoice alone keeps everything.                                        *)
LEMMA NothingHeardOf ==
  ASSUME GatewaysIInv, GatewaysTypeOK',
         UNCHANGED <<provider, invoice, attached, word, sent, acked, keys, local, unread>>
  PROVE  GatewaysIInv'
BY DEF GatewaysIInv, PaidWasApproved, WordsAreNotified, EventsAreNotified, ChargedStays,
       KeysAreApplied, ConfirmationIsKept, OnceApproved, Confirms, Free, Spent, G

(* What is said of approvals stays while there are more notifications.        *)
LEMMA ApprovalsAreKept ==
  ASSUME NEW t, provider' = provider, sent \subseteq sent'
  PROVE  /\ OnceApproved(t) => OnceApproved(t)'
         /\ \A n : Confirms(n, t)' <=> Confirms(n, t)
BY DEF OnceApproved, Confirms

LEMMA PaymentMovesIInv ==
  ASSUME GatewaysIInv, GatewaysTypeOK', NEW t \in Tries, NEW w \in Words, PaymentMoves(t, w)
  PROVE  GatewaysIInv'
<1> DEFINE new == [try |-> t, word |-> w, later |-> word[t] # None]
           firm == Life[provider].approved \cup Life[provider].reversed
<1>1. GatewaysTypeOK /\ provider \in Providers
  BY GatewaysAssumption DEF GatewaysIInv, PaidWasApproved, GatewaysTypeOK
<1>2. /\ w \in WordsOf(provider)
      /\ word[t] \in firm => w \in firm
  BY <1>1, ApprovalStays DEF PaymentMoves
<1>3. /\ sent' = sent \cup {new} /\ word' = [word EXCEPT ![t] = w]
      /\ new.try = t /\ new.word = w
      /\ word \in [Tries -> AllWords \cup {None}] /\ sent \subseteq Notifications
      /\ UNCHANGED <<provider, invoice, attached, acked, keys, local, unread>>
  BY <1>1 DEF PaymentMoves, GatewaysTypeOK
<1> HIDE DEF new
<1>4. \A n \in sent : n.try \in Tries
  BY <1>3 DEF Notifications
<1>5. PaidWasApproved'
  BY <1>3, ApprovalsAreKept DEF GatewaysIInv, PaidWasApproved
<1>6. WordsAreNotified'
  <2>1. WordsAreNotified
    BY DEF GatewaysIInv
  <2>2. ASSUME NEW n \in sent'
        PROVE  /\ n.word \in WordsOf(provider)
               /\ word'[n.try] \in WordsOf(provider)
               /\ n.word \in Life[provider].approved => word'[n.try] \in firm
    <3>1. CASE n = new
      <4>1. n.word = w /\ word'[n.try] = w
        BY <1>3, <3>1
      <4> QED
        BY <1>2, <4>1
    <3>2. CASE n \in sent
      <4>1. /\ n.word \in WordsOf(provider) /\ word[n.try] \in WordsOf(provider)
            /\ n.word \in Life[provider].approved => word[n.try] \in firm
        BY <2>1, <3>2 DEF WordsAreNotified
      <4>2. word'[n.try] = IF n.try = t THEN w ELSE word[n.try]
        BY <1>3, <1>4, <3>2
      <4> QED
        BY <1>2, <4>1, <4>2
    <3> QED
      BY <1>3, <3>1, <3>2
  <2>3. ASSUME NEW u \in Tries, word'[u] # None
        PROVE  \E n \in sent' : n.try = u /\ n.word = word'[u]
    <3>1. CASE u = t
      BY <1>3, <3>1
    <3>2. CASE u # t
      BY <1>3, <2>1, <2>3, <3>2 DEF WordsAreNotified
    <3> QED
      BY <3>1, <3>2
  <2> QED
    BY <1>3, <2>2, <2>3 DEF WordsAreNotified
<1>7. EventsAreNotified'
  BY <1>3, ApprovalsAreKept DEF GatewaysIInv, EventsAreNotified, Free, G
<1>8. ChargedStays' /\ KeysAreApplied'
  BY <1>3 DEF GatewaysIInv, ChargedStays, KeysAreApplied, G
<1>9. ConfirmationIsKept'
  BY <1>3 DEF GatewaysIInv, ConfirmationIsKept, Confirms, Spent, G
<1> QED
  BY <1>5, <1>6, <1>7, <1>8, <1>9 DEF GatewaysIInv

(* A notification is answered with 200, unread.                               *)
LEMMA AnswerUnreadIInv ==
  ASSUME GatewaysIInv, GatewaysTypeOK', NEW n \in sent, AnswerUnread(n), UNCHANGED local
  PROVE  GatewaysIInv'
<1>1. UNCHANGED <<provider, invoice, attached, word, sent, keys, local>>
  BY DEF AnswerUnread, Answer
<1>2. acked' = acked \cup {n} /\ unread' = unread \cup {n}
  BY DEF AnswerUnread, Answer
<1>3. PaidWasApproved' /\ WordsAreNotified' /\ EventsAreNotified' /\ ChargedStays' /\ KeysAreApplied'
  BY <1>1 DEF GatewaysIInv, PaidWasApproved, WordsAreNotified, EventsAreNotified, ChargedStays,
              KeysAreApplied, OnceApproved, Confirms, Free, G
<1>4. ConfirmationIsKept'
  BY <1>1, <1>2 DEF GatewaysIInv, ConfirmationIsKept, Confirms, Spent, G
<1> QED
  BY <1>3, <1>4 DEF GatewaysIInv

(* A notification becomes an event, with its own word or the present one.     *)
LEMMA ParseNotificationIInv ==
  ASSUME GatewaysIInv, GatewaysTypeOK', NEW h \in Handlers, NEW n \in sent,
         ParseNotification(h, n)
  PROVE  GatewaysIInv'
<1> DEFINE heard == IF G.asks THEN word[n.try] ELSE n.word
           event == [of |-> n, status |-> StatusOf(provider, heard)]
           firm == Life[provider].approved \cup Life[provider].reversed
<1>1. GatewaysTypeOK /\ provider \in Providers /\ WordsAreNotified
  BY GatewaysAssumption DEF GatewaysIInv, PaidWasApproved, GatewaysTypeOK
<1>2. /\ n.word \in WordsOf(provider) /\ word[n.try] \in WordsOf(provider)
      /\ n.word \in Life[provider].approved => word[n.try] \in firm
      /\ n \in Notifications
  BY <1>1 DEF WordsAreNotified, GatewaysTypeOK
<1>3. UNCHANGED <<provider, invoice, attached, word, sent, acked, keys, unread>>
  BY DEF ParseNotification
<1>4. local' = [local EXCEPT ![h] = event]
  BY DEF ParseNotification
<1>5. event.of = n /\ event.status = StatusOf(provider, heard) /\ heard \in WordsOf(provider)
  BY <1>2
<1>6. event.status = "PAID" => OnceApproved(n.try)
  <2>1. SUFFICES ASSUME event.status = "PAID" PROVE OnceApproved(n.try)
    OBVIOUS
  <2>2. heard \in Life[provider].approved
    BY <1>1, <1>5, <2>1, WordsAreRead
  <2>3. CASE G.asks
    <3>1. word[n.try] \in Life[provider].approved
      BY <2>2, <2>3
    <3>2. n.try \in Tries
      BY <1>2 DEF Notifications
    <3>3. word[n.try] # None
      BY <1>1, <1>2, GatewaysAssumption DEF AllWords
    <3>4. PICK m \in sent : m.try = n.try /\ m.word = word[n.try]
      BY <1>1, <3>2, <3>3 DEF WordsAreNotified
    <3> QED
      BY <3>1, <3>4 DEF OnceApproved, Confirms
  <2>4. CASE ~G.asks
    BY <2>2, <2>4 DEF OnceApproved, Confirms
  <2> QED
    BY <2>3, <2>4
<1>7. n.word \in Life[provider].approved =>
        event.status = "PAID" \/ (G.asks /\ event.status = "FAILED")
  BY <1>1, <1>2, <1>5, WordsAreRead DEF G
<1> HIDE DEF event
<1>8. EventsAreNotified'
  <2>1. EventsAreNotified /\ local \in [Handlers -> Events \cup {NoLocal}]
    BY <1>1 DEF GatewaysIInv, GatewaysTypeOK
  <2>2. SUFFICES ASSUME NEW i \in Handlers, ~Free(i)'
                 PROVE  /\ local'[i].of \in sent
                        /\ local'[i].status = "PAID" => OnceApproved(local'[i].of.try)
                        /\ local'[i].of.word \in Life[provider].approved =>
                             local'[i].status = "PAID" \/ (G.asks /\ local'[i].status = "FAILED")
    BY <1>3 DEF EventsAreNotified, OnceApproved, Confirms, G
  <2>3. CASE i = h
    <3>1. local'[i] = event
      BY <1>4, <2>1, <2>3
    <3> QED
      BY <1>5, <1>6, <1>7, <3>1
  <2>4. CASE i # h
    <3>1. local'[i] = local[i]
      BY <1>4, <2>4
    <3> QED
      BY <2>1, <2>2, <3>1 DEF EventsAreNotified, Free
  <2> QED
    BY <2>3, <2>4
<1>9. PaidWasApproved' /\ WordsAreNotified' /\ ChargedStays' /\ KeysAreApplied' /\ ConfirmationIsKept'
  BY <1>3 DEF GatewaysIInv, PaidWasApproved, WordsAreNotified, ChargedStays, KeysAreApplied,
              ConfirmationIsKept, OnceApproved, Confirms, Spent, G
<1> QED
  BY <1>8, <1>9 DEF GatewaysIInv

(* A request that ends holds nothing; the others hold what they held.         *)
LEMMA RequestEnds ==
  ASSUME EventsAreNotified, NEW h \in Handlers,
         local \in [Handlers -> Events \cup {NoLocal}],
         local' = [local EXCEPT ![h] = NoLocal],
         UNCHANGED <<provider, sent>>
  PROVE  EventsAreNotified'
<1>1. SUFFICES ASSUME NEW i \in Handlers, ~Free(i)'
               PROVE  /\ local'[i].of \in sent
                      /\ local'[i].status = "PAID" => OnceApproved(local'[i].of.try)
                      /\ local'[i].of.word \in Life[provider].approved =>
                           local'[i].status = "PAID" \/ (G.asks /\ local'[i].status = "FAILED")
  BY DEF EventsAreNotified, OnceApproved, Confirms, G
<1>2. local'[i] = local[i]
  BY <1>1 DEF Free
<1> QED
  BY <1>1, <1>2 DEF EventsAreNotified, Free

(* The event of a request that is about to end: its notification was sent,    *)
(* and a confirmation is PAID, or the gateway names its events after their    *)
(* payment.                                                                   *)
LEMMA EventOf ==
  ASSUME GatewaysIInv, NEW h \in Handlers, ~Free(h)
  PROVE  /\ local[h].of \in sent /\ local[h].of.try \in Tries
         /\ local[h].status \in {"PAID", "OVERDUE", "FAILED", "PENDING"}
         /\ local[h].status = "PAID" => OnceApproved(local[h].of.try)
         /\ local[h].of.word \in Life[provider].approved =>
              \/ local[h].status = "PAID"
              \/ G.id = "payment" /\ local[h].status = "FAILED"
         /\ G.id = "payment" => KeyOf(local[h].of) = {local[h].of.try}
         /\ G.id = "event" => KeyOf(local[h].of) = {local[h].of}
         /\ G.id = "none" => KeyOf(local[h].of) = {}
         /\ G.id \in {"payment", "event", "none"}
<1>1. GatewaysTypeOK /\ provider \in Providers /\ EventsAreNotified
  BY GatewaysAssumption DEF GatewaysIInv, PaidWasApproved, GatewaysTypeOK
<1>2. local[h] \in Events /\ local[h].of \in sent
  BY <1>1 DEF EventsAreNotified, GatewaysTypeOK, Free
<1>3. local[h].of \in Notifications
  BY <1>2 DEF Events
<1>4. /\ local[h].of.try \in Tries
      /\ local[h].status \in {"PAID", "OVERDUE", "FAILED", "PENDING"}
  BY <1>2, <1>3 DEF Events, Notifications
<1>5. /\ local[h].status = "PAID" => OnceApproved(local[h].of.try)
      /\ local[h].of.word \in Life[provider].approved =>
           local[h].status = "PAID" \/ (G.asks /\ local[h].status = "FAILED")
  BY <1>1 DEF EventsAreNotified
<1>6. G.asks => G.id = "payment"
  BY <1>1, GatewayTable DEF G
<1>7. G.id \in {"payment", "event", "none"}
  BY <1>1 DEF G, Providers, Gateway, MercadoPago, InfinitePay, Mock, Asaas, PagBank, Efi,
              Stripe, Pagarme
<1>8. /\ G.id = "payment" => KeyOf(local[h].of) = {local[h].of.try}
      /\ G.id = "event" => KeyOf(local[h].of) = {local[h].of}
      /\ G.id = "none" => KeyOf(local[h].of) = {}
  BY DEF KeyOf
<1> QED
  BY <1>2, <1>4, <1>5, <1>6, <1>7, <1>8

(* An event is applied: a confirmation pays, or its payment's id is recorded. *)
LEMMA ApplyEventIInv ==
  ASSUME GatewaysIInv, GatewaysTypeOK', NEW h \in Handlers, ApplyEvent(h)
  PROVE  GatewaysIInv'
<1> DEFINE n == local[h].of
           s == local[h].status
<1>1. /\ ~Free(h) /\ attached /\ CanTransitionInvoice(invoice, s)
      /\ KeyOf(n) \cap keys = {}
      /\ invoice' = s /\ keys' = keys \cup KeyOf(n) /\ acked' = acked \cup {n}
      /\ local' = [local EXCEPT ![h] = NoLocal]
      /\ UNCHANGED <<provider, attached, word, sent, unread>>
  BY DEF ApplyEvent
<1>2. local \in [Handlers -> Events \cup {NoLocal}] /\ acked \subseteq sent
  BY DEF GatewaysIInv, PaidWasApproved, GatewaysTypeOK
<1>3. /\ n \in sent /\ n.try \in Tries /\ s \in {"PAID", "OVERDUE", "FAILED", "PENDING"}
      /\ s = "PAID" => OnceApproved(n.try)
      /\ n.word \in Life[provider].approved =>
           s = "PAID" \/ (G.id = "payment" /\ s = "FAILED")
      /\ G.id = "payment" => KeyOf(n) = {n.try}
      /\ G.id = "event" => KeyOf(n) = {n}
      /\ G.id = "none" => KeyOf(n) = {}
      /\ G.id \in {"payment", "event", "none"}
  BY <1>1, EventOf
<1>4. invoice = "PAID" => s = "PAID"
  BY <1>1 DEF CanTransitionInvoice, InvoiceTransitions
<1> HIDE DEF n, s
<1>5. PaidWasApproved'
  BY <1>1, <1>3 DEF PaidWasApproved, OnceApproved, Confirms
<1>6. WordsAreNotified' /\ ChargedStays'
  BY <1>1, <1>3 DEF GatewaysIInv, WordsAreNotified, ChargedStays
<1>7. EventsAreNotified'
  BY <1>1, <1>2, RequestEnds DEF GatewaysIInv
<1>8. KeysAreApplied'
  <2>1. SUFFICES ASSUME G.id = "event", NEW m \in keys'
                 PROVE  m \in sent /\ (m.word \in Life[provider].approved => s = "PAID")
    BY <1>1 DEF KeysAreApplied, G
  <2>2. CASE m \in keys
    BY <1>4, <2>1, <2>2 DEF GatewaysIInv, KeysAreApplied
  <2>3. CASE m = n
    BY <1>3, <2>1, <2>3
  <2> QED
    BY <1>1, <1>3, <2>1, <2>2, <2>3
<1>9. ConfirmationIsKept'
  <2>1. SUFFICES ASSUME NEW m \in acked', NEW t \in Tries, Confirms(m, t)
                 PROVE  s = "PAID" \/ (G.id = "payment" /\ t \in keys') \/ m \in unread
    BY <1>1 DEF ConfirmationIsKept, Confirms, Spent, G
  <2>2. CASE m \in acked
    BY <1>1, <1>4, <2>1, <2>2 DEF GatewaysIInv, ConfirmationIsKept, Spent
  <2>3. CASE m = n
    BY <1>1, <1>3, <2>1, <2>3 DEF Confirms
  <2> QED
    BY <1>1, <2>1, <2>2, <2>3
<1> QED
  BY <1>5, <1>6, <1>7, <1>8, <1>9 DEF GatewaysIInv

(* An event is skipped: a confirmation that cannot move the invoice finds it  *)
(* PAID, and one whose event was recorded was applied, or its id was spent.   *)
LEMMA SkipEventIInv ==
  ASSUME GatewaysIInv, GatewaysTypeOK', NEW h \in Handlers, SkipEvent(h)
  PROVE  GatewaysIInv'
<1> DEFINE n == local[h].of
           s == local[h].status
<1>1. /\ ~Free(h) /\ attached
      /\ ~CanTransitionInvoice(invoice, s) \/ KeyOf(n) \cap keys # {}
      /\ acked' = acked \cup {n} /\ local' = [local EXCEPT ![h] = NoLocal]
      /\ UNCHANGED <<provider, invoice, attached, word, sent, keys, unread>>
  BY DEF SkipEvent, Answer
<1>2. /\ local \in [Handlers -> Events \cup {NoLocal}]
      /\ invoice \in {"PENDING", "PAID", "OVERDUE", "FAILED"}
  BY <1>1 DEF GatewaysIInv, PaidWasApproved, GatewaysTypeOK, InvoiceStatuses, ChargedStays
<1>3. /\ n \in sent /\ n.try \in Tries /\ s \in {"PAID", "OVERDUE", "FAILED", "PENDING"}
      /\ n.word \in Life[provider].approved =>
           s = "PAID" \/ (G.id = "payment" /\ s = "FAILED")
      /\ G.id = "payment" => KeyOf(n) = {n.try}
      /\ G.id = "event" => KeyOf(n) = {n}
      /\ G.id = "none" => KeyOf(n) = {}
      /\ G.id \in {"payment", "event", "none"}
  BY <1>1, EventOf
<1>4. invoice # "PAID" => CanTransitionInvoice(invoice, "PAID") /\ CanTransitionInvoice(invoice, "FAILED")
  BY <1>2 DEF CanTransitionInvoice, InvoiceTransitions
<1> HIDE DEF n, s
<1>5. PaidWasApproved' /\ WordsAreNotified' /\ ChargedStays' /\ KeysAreApplied'
  BY <1>1 DEF GatewaysIInv, PaidWasApproved, WordsAreNotified, ChargedStays, KeysAreApplied,
              OnceApproved, Confirms, G
<1>6. EventsAreNotified'
  BY <1>1, <1>2, RequestEnds DEF GatewaysIInv
<1>7. ConfirmationIsKept'
  <2>1. SUFFICES ASSUME NEW m \in acked', NEW t \in Tries, Confirms(m, t)
                 PROVE  invoice = "PAID" \/ (G.id = "payment" /\ t \in keys) \/ m \in unread
    BY <1>1 DEF ConfirmationIsKept, Confirms, Spent, G
  <2>2. CASE m \in acked
    BY <2>1, <2>2 DEF GatewaysIInv, ConfirmationIsKept, Spent
  <2>3. CASE m = n
    <3>1. n.try = t /\ n.word \in Life[provider].approved
      BY <2>1, <2>3 DEF Confirms
    <3>2. CASE ~CanTransitionInvoice(invoice, s)
      BY <1>3, <1>4, <3>1, <3>2
    <3>3. CASE KeyOf(n) \cap keys # {}
      BY <1>3, <3>1, <3>3 DEF GatewaysIInv, KeysAreApplied
    <3> QED
      BY <1>1, <3>2, <3>3
  <2> QED
    BY <1>1, <2>1, <2>2, <2>3
<1> QED
  BY <1>5, <1>6, <1>7 DEF GatewaysIInv

LEMMA GatewaysNextIInv == GatewaysIInv /\ [GatewaysNext]_gatewaysVars => GatewaysIInv'
<1> SUFFICES ASSUME GatewaysIInv, [GatewaysNext]_gatewaysVars PROVE GatewaysIInv'
  OBVIOUS
<1>1. GatewaysTypeOK'
  BY GatewaysTypeStep
<1>2. CASE CallAnswered
  BY <1>1, <1>2, NothingHeardOf DEF CallAnswered
<1>3. CASE CallFails
  <2>1. /\ ~attached /\ invoice' = "ABSENT"
        /\ UNCHANGED <<provider, attached, word, sent, acked, keys, local, unread>>
    BY <1>3 DEF CallFails, Charging
  <2>2. invoice # "PAID"
    BY <2>1 DEF GatewaysIInv, ChargedStays
  <2> QED
    BY <1>1, <2>1, <2>2 DEF GatewaysIInv, PaidWasApproved, WordsAreNotified, EventsAreNotified,
       ChargedStays, KeysAreApplied, ConfirmationIsKept, OnceApproved, Confirms, Free, Spent, G
<1>4. CASE AttachCharge
  <2>1. /\ invoice # "ABSENT" /\ attached'
        /\ UNCHANGED <<provider, invoice, word, sent, acked, keys, local, unread>>
    BY <1>4 DEF AttachCharge
  <2> QED
    BY <1>1, <2>1 DEF GatewaysIInv, PaidWasApproved, WordsAreNotified, EventsAreNotified,
       ChargedStays, KeysAreApplied, ConfirmationIsKept, OnceApproved, Confirms, Free, Spent, G
<1>5. CASE MarkOverdue
  <2>1. /\ invoice = "PENDING" /\ invoice' = "OVERDUE"
        /\ UNCHANGED <<provider, attached, word, sent, acked, keys, local, unread>>
    BY <1>5 DEF MarkOverdue
  <2> QED
    BY <1>1, <2>1 DEF GatewaysIInv, PaidWasApproved, WordsAreNotified, EventsAreNotified,
       ChargedStays, KeysAreApplied, ConfirmationIsKept, OnceApproved, Confirms, Free, Spent, G
<1>6. ASSUME NEW p \in Others \cup {provider}, ChangeProvider(p)
      PROVE  GatewaysIInv'
  BY <1>1, <1>6, NothingHeardOf DEF ChangeProvider
<1>7. ASSUME NEW t \in Tries, NEW w \in Words, PaymentMoves(t, w)
      PROVE  GatewaysIInv'
  BY <1>1, <1>7, PaymentMovesIInv
<1>8. ASSUME NEW h \in Handlers, Handle(h)
      PROVE  GatewaysIInv'
  <2>1. ASSUME NEW n \in sent, IgnoreForeign(h, n) \/ IgnoreSkipped(h, n) \/ CheckFails(h, n)
        PROVE  GatewaysIInv'
    BY <1>1, <2>1, AnswerUnreadIInv DEF IgnoreForeign, IgnoreSkipped, CheckFails
  <2>2. ASSUME NEW n \in sent, ParseNotification(h, n)
        PROVE  GatewaysIInv'
    BY <1>1, <2>2, ParseNotificationIInv
  <2>3. CASE ApplyEvent(h)
    BY <1>1, <2>3, ApplyEventIInv
  <2>4. CASE SkipEvent(h)
    BY <1>1, <2>4, SkipEventIInv
  <2>5. CASE DropEvent(h)
    <3>1. /\ local' = [local EXCEPT ![h] = NoLocal]
          /\ UNCHANGED <<provider, invoice, attached, word, sent, acked, keys, unread>>
      BY <2>5 DEF DropEvent
    <3>2. local \in [Handlers -> Events \cup {NoLocal}]
      BY DEF GatewaysIInv, PaidWasApproved, GatewaysTypeOK
    <3>3. EventsAreNotified'
      BY <3>1, <3>2, RequestEnds DEF GatewaysIInv
    <3> QED
      BY <1>1, <3>1, <3>3 DEF GatewaysIInv, PaidWasApproved, WordsAreNotified, ChargedStays,
         KeysAreApplied, ConfirmationIsKept, OnceApproved, Confirms, Spent, G
  <2> QED
    BY <1>8, <2>1, <2>2, <2>3, <2>4, <2>5 DEF Handle
<1>9. CASE UNCHANGED gatewaysVars
  BY <1>1, <1>9, NothingHeardOf DEF gatewaysVars
<1> QED
  BY <1>2, <1>3, <1>4, <1>5, <1>6, <1>7, <1>8, <1>9 DEF GatewaysNext

(* Whatever the provider, the number of payments tried on a charge and of     *)
(* requests at once, and the order in which notifications are read and        *)
(* applied (applyWebhook, verifyAndParseWebhook of every gateway).            *)
THEOREM GatewaysInvariance == GatewaysSpec => []GatewaysIInv
<1> QED
  BY GatewaysInitIInv, GatewaysNextIInv, PTL DEF GatewaysSpec

(* An invoice is PAID only if its provider approved a payment: no gateway     *)
(* takes another word for money (map*Status).                                 *)
THEOREM OnlyApprovedMoneyPays == GatewaysSpec => []PaidWasApproved
<1>1. GatewaysIInv => PaidWasApproved
  BY DEF GatewaysIInv
<1> QED
  BY <1>1, GatewaysInvariance, PTL

(* A confirmation that was answered with 200 has paid the invoice, unless its *)
(* id was spent on an earlier notification or nobody read it (applyWebhook).  *)
THEOREM ConfirmationsAreKept == GatewaysSpec => []ConfirmationIsKept
<1>1. GatewaysIInv => ConfirmationIsKept
  BY DEF GatewaysIInv
<1> QED
  BY <1>1, GatewaysInvariance, PTL

-----------------------------------------------------------------------------
(***************************************************************************)
(* Platform.                                                               *)
(***************************************************************************)

USE PlatformAssumption

(* Setting or clearing what one request holds changes the number of those    *)
(* that invite by the right amount.                                          *)
LEMMA InvitingChanges ==
  ASSUME NEW r \in Requests, NEW what \in Pending, request \in [Requests -> Pending],
         request' = [request EXCEPT ![r] = what]
  PROVE  /\ Cardinality(Inviting) \in Nat /\ Cardinality(Inviting') \in Nat
         /\ Cardinality(Inviting) <= Cardinality(Requests)
         /\ Cardinality(Inviting') <= Cardinality(Requests)
         /\ what.op # "inviting" => Cardinality(Inviting') <= Cardinality(Inviting)
         /\ what.op # "inviting" /\ request[r].op = "inviting" =>
              Cardinality(Inviting') = Cardinality(Inviting) - 1
<1>1. Inviting \subseteq Requests /\ Inviting' \subseteq Requests
  BY DEF Inviting
<1>2. IsFiniteSet(Inviting) /\ IsFiniteSet(Inviting')
  BY <1>1, FS_Subset
<1>3. /\ Cardinality(Inviting) \in Nat /\ Cardinality(Inviting') \in Nat
      /\ Cardinality(Inviting) <= Cardinality(Requests)
      /\ Cardinality(Inviting') <= Cardinality(Requests)
  BY <1>1, <1>2, FS_Subset, FS_CardinalityType
<1>4. ASSUME what.op # "inviting"
      PROVE  Inviting' = Inviting \ {r}
  BY <1>4 DEF Inviting
<1>5. ASSUME what.op # "inviting"
      PROVE  Cardinality(Inviting') <= Cardinality(Inviting)
  BY <1>2, <1>4, <1>5, FS_Subset
<1>6. ASSUME what.op # "inviting", request[r].op = "inviting"
      PROVE  Cardinality(Inviting') = Cardinality(Inviting) - 1
  <2>1. r \in Inviting
    BY <1>6 DEF Inviting
  <2> QED
    BY <1>2, <1>4, <1>6, <2>1, FS_RemoveElement
<1> QED
  BY <1>3, <1>5, <1>6

LEMMA InitIInv == Init => IInv
<1> SUFFICES ASSUME Init PROVE IInv
  OBVIOUS
<1>1. TypeOK
  <2>1. NewAccount \in Subscriptions
    BY DEF NewAccount, Subscriptions, Plans, Dates, Null
  <2>2. NoBill \in BillRows /\ Idle \in Pending /\ 1 \in Days
    BY DEF BillRows, Pending, Days
  <2> QED
    BY <2>1, <2>2 DEF Init, TypeOK
<1>2. SubJustified
  BY DEF Init, SubJustified, NewAccount
<1>3. Confirmable
  BY DEF Init, Confirmable, Idle
<1>4. SeatsCounted
  <2>1. Inviting = {}
    BY DEF Init, Inviting, Idle
  <2>2. Cardinality(Inviting) = 0 /\ Cardinality(Requests) \in Nat
    BY <2>1, FS_EmptySet, FS_CardinalityType
  <2> QED
    BY <2>2 DEF Init, SeatsCounted, Seats
<1>5. ReadsWereDue
  BY DEF Init, ReadsWereDue, Idle
<1> QED
  BY <1>1, <1>2, <1>3, <1>4, <1>5 DEF IInv


(* A request that confirms does so for a bill that was paid.                 *)
LEMMA Confirming ==
  ASSUME NEW what \in Pending, what.op = "confirming"
  PROVE  what.bill \in Bills
<1>1. CASE what = Idle
  BY <1>1 DEF Idle
<1>2. CASE what = [op |-> "inviting"]
  BY <1>2
<1>3. CASE what \in [op : {"confirming"}, bill : Bills]
  BY <1>3
<1>4. CASE what \in [op : {"renewing"}, seen : Subscriptions]
  BY <1>4
<1> QED
  BY <1>1, <1>2, <1>3, <1>4 DEF Pending

LEMMA ConfirmWrites ==
  ASSUME IInv, NEW r \in Requests, Confirm(r)
  PROVE  \E b \in Bills, at \in Days :
           /\ bill[b].plan \in PaidPlans /\ bill[b] \in BillRows
           /\ bill' = [bill EXCEPT ![b].status = "PAID", ![b].paidAt = at]
           /\ sub' = [sub EXCEPT !.plan = bill[b].plan, !.status = "active",
                                 !.currentPeriodEnd = at + Month]
           /\ request' = [request EXCEPT ![r] = Idle]
           /\ request[r].op = "confirming"
           /\ UNCHANGED <<today, suspended, paidOn, granted, users>>
<1> DEFINE b == request[r].bill
<1>1. PICK at : (at = today \/ \E c \in Bills : request[r] = [op |-> "confirming", bill |-> c] /\ at = paidOn[c])
                  /\ ConfirmAt(r, at, at)
  BY DEF Confirm
<1>2. request[r] \in Pending /\ request[r].op = "confirming"
  BY <1>1 DEF ConfirmAt, IInv, TypeOK
<1>3. b \in Bills
  BY <1>2, Confirming
<1>4. paidOn[b] # Null /\ paidOn[b] \in {Null} \cup Days /\ bill[b].status # "none" /\ bill[b] \in BillRows
  BY <1>2, <1>3 DEF IInv, TypeOK, Confirmable
<1>5. bill[b].plan \in PaidPlans
  BY <1>4 DEF BillRows, NoBill
<1>6. at \in Days
  BY <1>1, <1>4 DEF IInv, TypeOK
<1> QED
  BY <1>1, <1>2, <1>3, <1>4, <1>5, <1>6 DEF ConfirmAt, nextPeriodEnd

LEMMA PeriodEnds ==
  ASSUME NEW at \in Days
  PROVE  at # Null /\ at + Month \in Dates
BY DEF Days, Dates, Null

LEMMA SubUpdates ==
  ASSUME sub \in Subscriptions, NEW plan \in Plans, NEW end \in Dates
  PROVE  /\ [sub EXCEPT !.plan = plan, !.status = "active", !.currentPeriodEnd = end] \in Subscriptions
         /\ [sub EXCEPT !.status = "past_due"] \in Subscriptions
BY DEF Subscriptions

(* Each action, one conjunct of the invariant after another.                 *)

LEMMA TypeKeeps == IInv /\ [Next]_vars => TypeOK'
<1> SUFFICES ASSUME IInv, [Next]_vars PROVE TypeOK'
  OBVIOUS
<1> USE DEF IInv, TypeOK
<1>1. Idle \in Pending /\ [op |-> "inviting"] \in Pending
  BY DEF Pending
<1>2. CASE CheckoutFree
  <2>1. "free" \in Plans /\ Null \in Dates
    BY DEF Plans, Dates, Null
  <2> QED
    BY <1>2, <2>1, SubUpdates DEF CheckoutFree
<1>3. ASSUME NEW b \in Bills, NEW plan \in PaidPlans, Checkout(b, plan)
      PROVE  TypeOK'
  BY <1>3 DEF Checkout, BillRows, PaidPlans, Null
<1>4. ASSUME NEW b \in Bills, Pay(b)
      PROVE  TypeOK'
  BY <1>4 DEF Pay
<1>5. ASSUME NEW r \in Requests, NEW b \in Bills, ReadBill(r, b)
      PROVE  TypeOK'
  <2>1. [op |-> "confirming", bill |-> b] \in Pending
    BY DEF Pending
  <2> QED
    BY <1>5, <2>1 DEF ReadBill, Hold
<1>6. ASSUME NEW r \in Requests, Confirm(r)
      PROVE  TypeOK'
  <2>1. PICK b \in Bills, at \in Days :
           /\ bill[b].plan \in PaidPlans /\ bill[b] \in BillRows
           /\ bill' = [bill EXCEPT ![b].status = "PAID", ![b].paidAt = at]
           /\ sub' = [sub EXCEPT !.plan = bill[b].plan, !.status = "active",
                                 !.currentPeriodEnd = at + Month]
           /\ request' = [request EXCEPT ![r] = Idle]
           /\ UNCHANGED <<today, suspended, paidOn, granted, users>>
    BY <1>6, ConfirmWrites
  <2>2. sub' \in Subscriptions
    BY <2>1, SubUpdates, PeriodEnds DEF PaidPlans
  <2>3. [bill[b] EXCEPT !.status = "PAID", !.paidAt = at] \in BillRows
    BY <2>1 DEF BillRows, NoBill
  <2>4. bill' \in [Bills -> BillRows]
    BY <2>1, <2>3
  <2> QED
    BY <1>1, <2>1, <2>2, <2>4
<1>7. ASSUME NEW r \in Requests, FindDueForRenewal(r)
      PROVE  TypeOK'
  <2>1. [op |-> "renewing", seen |-> sub] \in Pending
    BY DEF Pending
  <2> QED
    BY <1>7, <2>1 DEF FindDueForRenewal, Hold
<1>8. ASSUME NEW r \in Requests, MarkPastDue(r)
      PROVE  TypeOK'
  <2>1. [sub EXCEPT !.status = "past_due"] \in Subscriptions
    BY DEF Subscriptions
  <2> QED
    BY <1>1, <1>8, <2>1 DEF MarkPastDue
<1>9. ASSUME NEW r \in Requests, Invite(r) \/ CreateMember(r) \/ Fail(r)
      PROVE  TypeOK'
  BY <1>1, <1>9 DEF Invite, InviteIf, Hold, CreateMember, Fail
<1>10. CASE SetAccountStatus
  BY <1>10 DEF SetAccountStatus
<1>11. ASSUME NEW plan \in Plans, ChangePlan(plan)
       PROVE  TypeOK'
  <2>1. nextPeriodEnd(today) \in Dates /\ Null \in Dates
    BY DEF nextPeriodEnd, Dates, Null, Days
  <2>2. sub' \in Subscriptions
    BY <1>11, <2>1, SubUpdates DEF ChangePlan
  <2>3. granted' \in [PaidPlans -> {Null} \cup Days]
    BY <1>11 DEF ChangePlan
  <2> QED
    BY <1>11, <2>2, <2>3 DEF ChangePlan
<1>12. CASE RemoveMember
  BY <1>12 DEF RemoveMember
<1>13. CASE NextDay
  BY <1>13 DEF NextDay, Days
<1>14. CASE UNCHANGED vars
  BY <1>14 DEF vars
<1> QED
  BY <1>2, <1>3, <1>4, <1>5, <1>6, <1>7, <1>8, <1>9, <1>10, <1>11, <1>12, <1>13, <1>14 DEF Next

(* The actions that leave the subscription, bills and gifts alone.           *)
LEMMA SubKeepers ==
  ASSUME [Next]_vars
  PROVE  \/ UNCHANGED <<sub, bill, granted>>
         \/ CheckoutFree
         \/ \E b \in Bills, plan \in PaidPlans : Checkout(b, plan)
         \/ \E r \in Requests : Confirm(r) \/ MarkPastDue(r)
         \/ \E plan \in Plans : ChangePlan(plan)
BY DEF Next, vars, Pay, ReadBill, Hold, FindDueForRenewal, Invite, InviteIf, CreateMember, Fail,
       SetAccountStatus, RemoveMember, NextDay

LEMMA JustifiedKeeps == IInv /\ [Next]_vars => SubJustified'
<1> SUFFICES ASSUME IInv, [Next]_vars PROVE SubJustified'
  OBVIOUS
<1>1. sub \in Subscriptions /\ today \in Days /\ SubJustified
  BY DEF IInv, TypeOK
<1>2. CASE UNCHANGED <<sub, bill, granted>>
  BY <1>1, <1>2 DEF SubJustified
<1>3. CASE CheckoutFree
  <2>1. sub'.plan = "free" /\ sub'.status = "active"
    BY <1>1, <1>3 DEF CheckoutFree, Subscriptions
  <2> QED
    BY <2>1 DEF SubJustified
<1>4. ASSUME NEW b \in Bills, NEW plan \in PaidPlans, Checkout(b, plan)
      PROVE  SubJustified'
  <2>1. \A c \in Bills : bill[c].status = "PAID" => bill'[c] = bill[c]
    BY <1>4 DEF Checkout, NoBill, IInv, TypeOK
  <2>2. UNCHANGED <<sub, granted>>
    BY <1>4 DEF Checkout
  <2> QED
    BY <1>1, <2>1, <2>2 DEF SubJustified
<1>5. ASSUME NEW r \in Requests, Confirm(r)
      PROVE  SubJustified'
  <2>1. PICK b \in Bills, at \in Days :
           /\ bill[b] \in BillRows
           /\ bill' = [bill EXCEPT ![b].status = "PAID", ![b].paidAt = at]
           /\ sub' = [sub EXCEPT !.plan = bill[b].plan, !.status = "active",
                                 !.currentPeriodEnd = at + Month]
    BY <1>5, ConfirmWrites
  <2>2. sub'.status = "active" /\ sub'.plan = bill[b].plan /\ sub'.currentPeriodEnd = at + Month
    BY <1>1, <2>1 DEF Subscriptions
  <2>3. bill'[b] = [bill[b] EXCEPT !.status = "PAID", !.paidAt = at]
    BY <2>1 DEF IInv, TypeOK
  <2>4. bill'[b].status = "PAID" /\ bill'[b].plan = bill[b].plan /\ bill'[b].paidAt = at
    BY <2>1, <2>3 DEF BillRows, NoBill
  <2>5. at # Null
    BY PeriodEnds
  <2> QED
    BY <2>2, <2>4, <2>5 DEF SubJustified
<1>6. ASSUME NEW r \in Requests, MarkPastDue(r)
      PROVE  SubJustified'
  <2>1. sub'.status = "past_due"
    BY <1>1, <1>6 DEF MarkPastDue, Subscriptions
  <2> QED
    BY <2>1 DEF SubJustified
<1>7. ASSUME NEW plan \in Plans, ChangePlan(plan)
      PROVE  SubJustified'
  <2>1. sub'.status = "active" /\ sub'.plan = plan
    BY <1>1, <1>7 DEF ChangePlan, Subscriptions
  <2>2. CASE plan = "free"
    BY <2>1, <2>2 DEF SubJustified
  <2>3. CASE plan \in PaidPlans
    <3>1. granted'[plan] = today /\ sub'.currentPeriodEnd = today + Month
      BY <1>1, <1>7, <2>3 DEF ChangePlan, Subscriptions, nextPeriodEnd
    <3> QED
      BY <1>1, <2>1, <3>1, PeriodEnds DEF SubJustified
  <2> QED
    BY <2>2, <2>3 DEF PaidPlans
<1> QED
  BY <1>2, <1>3, <1>4, <1>5, <1>6, <1>7, SubKeepers

(* Nobody starts to confirm what was not paid, and what was paid stays so.   *)
LEMMA ConfirmableKeeps == IInv /\ [Next]_vars => Confirmable'
<1> SUFFICES ASSUME IInv, [Next]_vars PROVE Confirmable'
  OBVIOUS
<1> USE DEF IInv, TypeOK
<1>1. \A b \in Bills : bill[b].status # "none" => bill'[b].status # "none"
  <2>1. ASSUME NEW b \in Bills, NEW plan \in PaidPlans, Checkout(b, plan)
        PROVE  \A c \in Bills : bill'[c].status # "none" \/ bill'[c] = bill[c]
    BY <2>1 DEF Checkout
  <2>2. ASSUME NEW r \in Requests, Confirm(r)
        PROVE  \A c \in Bills : bill'[c].status # "none" \/ bill'[c] = bill[c]
    <3>1. PICK b \in Bills, at \in Days :
             /\ bill[b] \in BillRows
             /\ bill' = [bill EXCEPT ![b].status = "PAID", ![b].paidAt = at]
      BY <2>2, ConfirmWrites
    <3>2. bill'[b].status = "PAID"
      BY <3>1 DEF BillRows, NoBill
    <3> QED
      BY <3>1, <3>2
  <2>3. CASE CheckoutFree \/ UNCHANGED <<sub, bill, granted>> \/ (\E r \in Requests : MarkPastDue(r))
              \/ (\E plan \in Plans : ChangePlan(plan))
    BY <2>3 DEF CheckoutFree, MarkPastDue, ChangePlan
  <2> QED
    BY <2>1, <2>2, <2>3, SubKeepers
<1>2. \A b \in Bills : paidOn'[b] # Null => bill'[b].status # "none"
  <2>1. ASSUME NEW b \in Bills, Pay(b)
        PROVE  \A c \in Bills : paidOn'[c] # Null => bill[c].status # "none"
    BY <2>1 DEF Pay, Confirmable
  <2>2. (\E b \in Bills : Pay(b)) \/ UNCHANGED paidOn
    BY DEF Next, vars, CheckoutFree, Checkout, ReadBill, Hold, Confirm, ConfirmAt, FindDueForRenewal,
           MarkPastDue, Invite, InviteIf, CreateMember, Fail, SetAccountStatus, ChangePlan,
           RemoveMember, NextDay
  <2> QED
    BY <1>1, <2>1, <2>2 DEF Confirmable
<1>3. \A b \in Bills : paidOn[b] # Null => paidOn'[b] # Null
  <2>1. ASSUME NEW b \in Bills, Pay(b)
        PROVE  \A c \in Bills : paidOn[c] # Null => paidOn'[c] # Null
    BY <2>1 DEF Pay
  <2>2. (\E b \in Bills : Pay(b)) \/ UNCHANGED paidOn
    BY DEF Next, vars, CheckoutFree, Checkout, ReadBill, Hold, Confirm, ConfirmAt, FindDueForRenewal,
           MarkPastDue, Invite, InviteIf, CreateMember, Fail, SetAccountStatus, ChangePlan,
           RemoveMember, NextDay
  <2> QED
    BY <2>1, <2>2
<1>4. \A r \in Requests : request'[r].op = "confirming" =>
        \/ request'[r] = request[r]
        \/ \E b \in Bills : paidOn[b] # Null /\ request'[r].bill = b
  <2>1. ASSUME NEW q \in Requests, NEW b \in Bills, ReadBill(q, b)
        PROVE  \A r \in Requests : request'[r].op = "confirming" =>
                 request'[r] = request[r] \/ (paidOn[b] # Null /\ request'[r].bill = b)
    BY <2>1 DEF ReadBill, Hold
  <2>2. ASSUME NEW q \in Requests,
               Confirm(q) \/ FindDueForRenewal(q) \/ MarkPastDue(q) \/ Invite(q) \/ CreateMember(q) \/ Fail(q)
        PROVE  \A r \in Requests : request'[r].op = "confirming" => request'[r] = request[r]
    <3>1. CASE request' = [request EXCEPT ![q] = Idle]
      BY <3>1 DEF Idle
    <3>2. CASE request' = [request EXCEPT ![q] = [op |-> "renewing", seen |-> sub]]
      BY <3>2
    <3>3. CASE request' = [request EXCEPT ![q] = [op |-> "inviting"]]
      BY <3>3
    <3>4. \/ request' = [request EXCEPT ![q] = Idle]
          \/ request' = [request EXCEPT ![q] = [op |-> "renewing", seen |-> sub]]
          \/ request' = [request EXCEPT ![q] = [op |-> "inviting"]]
      BY <2>2 DEF Confirm, ConfirmAt, FindDueForRenewal, Hold, MarkPastDue, Invite, InviteIf,
                  CreateMember, Fail
    <3> QED
      BY <3>1, <3>2, <3>3, <3>4
  <2>3. \/ \E q \in Requests, b \in Bills : ReadBill(q, b)
        \/ \E q \in Requests : Confirm(q) \/ FindDueForRenewal(q) \/ MarkPastDue(q) \/ Invite(q)
                                 \/ CreateMember(q) \/ Fail(q)
        \/ UNCHANGED request
    BY DEF Next, vars, CheckoutFree, Checkout, Pay, SetAccountStatus, ChangePlan, RemoveMember, NextDay
  <2> QED
    BY <2>1, <2>2, <2>3
<1>5. ASSUME NEW r \in Requests, request'[r].op = "confirming"
      PROVE  paidOn'[request'[r].bill] # Null
  <2>1. CASE request'[r] = request[r]
    <3>1. request[r].bill \in Bills /\ paidOn[request[r].bill] # Null
      BY <1>5, <2>1, Confirming DEF Confirmable
    <3> QED
      BY <1>3, <2>1, <3>1
  <2>2. ASSUME NEW b \in Bills, paidOn[b] # Null, request'[r].bill = b
        PROVE  paidOn'[request'[r].bill] # Null
    BY <1>3, <2>2
  <2> QED
    BY <1>4, <1>5, <2>1, <2>2
<1> QED
  BY <1>2, <1>5 DEF Confirmable

LEMMA SeatsKeep == IInv /\ [Next]_vars => SeatsCounted'
<1> SUFFICES ASSUME IInv, [Next]_vars PROVE SeatsCounted'
  OBVIOUS
<1> DEFINE N == Cardinality(Requests)
<1>1. /\ users \in Nat /\ request \in [Requests -> Pending] /\ Idle \in Pending /\ N \in Nat
      /\ users + Cardinality(Inviting) <= 2 + N
  BY FS_CardinalityType DEF IInv, TypeOK, SeatsCounted, Seats, Pending
<1>2. ASSUME NEW r \in Requests, NEW what \in Pending, what.op # "inviting",
             request' = [request EXCEPT ![r] = what], UNCHANGED users
      PROVE  SeatsCounted'
  <2>1. Cardinality(Inviting') <= Cardinality(Inviting)
        /\ Cardinality(Inviting) \in Nat /\ Cardinality(Inviting') \in Nat
    BY <1>1, <1>2, InvitingChanges
  <2> QED
    BY <1>1, <1>2, <2>1 DEF SeatsCounted, Seats
<1>3. ASSUME NEW r \in Requests, Invite(r)
      PROVE  SeatsCounted'
  <2>1. /\ users < 3 /\ users' = users
        /\ request' = [request EXCEPT ![r] = [op |-> "inviting"]]
        /\ [op |-> "inviting"] \in Pending
    BY <1>1, <1>3 DEF Invite, InviteIf, Hold, Seats, Entitlements, ReadOnly, Full, IInv, TypeOK,
                      Subscriptions, Plans, Pending
  <2>2. Cardinality(Inviting') \in Nat /\ Cardinality(Inviting') <= N
    BY <1>1, <2>1, InvitingChanges
  <2> QED
    BY <1>1, <2>1, <2>2 DEF SeatsCounted, Seats
<1>4. ASSUME NEW r \in Requests, CreateMember(r)
      PROVE  SeatsCounted'
  <2>1. /\ request[r].op = "inviting" /\ users' = users + 1
        /\ request' = [request EXCEPT ![r] = Idle] /\ Idle.op # "inviting"
    BY <1>4 DEF CreateMember, Idle
  <2>2. Cardinality(Inviting') = Cardinality(Inviting) - 1
        /\ Cardinality(Inviting) \in Nat /\ Cardinality(Inviting') \in Nat
    BY <1>1, <2>1, InvitingChanges
  <2> QED
    BY <1>1, <2>1, <2>2 DEF SeatsCounted, Seats
<1>5. ASSUME UNCHANGED request, users' \in Nat, users' <= users
      PROVE  SeatsCounted'
  <2>1. Inviting' = Inviting /\ Cardinality(Inviting) \in Nat
    <3>1. IsFiniteSet(Inviting)
      BY FS_Subset DEF Inviting
    <3> QED
      BY <1>5, <3>1, FS_CardinalityType DEF Inviting
  <2> QED
    BY <1>1, <1>5, <2>1 DEF SeatsCounted, Seats
<1>6. ASSUME NEW r \in Requests, NEW b \in Bills, ReadBill(r, b)
      PROVE  SeatsCounted'
  <2>1. [op |-> "confirming", bill |-> b] \in Pending
    BY DEF Pending
  <2>2. request' = [request EXCEPT ![r] = [op |-> "confirming", bill |-> b]] /\ UNCHANGED users
    BY <1>6 DEF ReadBill, Hold
  <2> QED
    BY <1>2, <2>1, <2>2
<1>7. ASSUME NEW r \in Requests, FindDueForRenewal(r)
      PROVE  SeatsCounted'
  <2>1. [op |-> "renewing", seen |-> sub] \in Pending
    BY DEF Pending, IInv, TypeOK
  <2>2. request' = [request EXCEPT ![r] = [op |-> "renewing", seen |-> sub]] /\ UNCHANGED users
    BY <1>7 DEF FindDueForRenewal, Hold
  <2> QED
    BY <1>2, <2>1, <2>2
<1>8. ASSUME NEW r \in Requests, Confirm(r) \/ MarkPastDue(r) \/ Fail(r)
      PROVE  SeatsCounted'
  <2>1. request' = [request EXCEPT ![r] = Idle] /\ UNCHANGED users
    BY <1>8 DEF Confirm, ConfirmAt, MarkPastDue, Fail
  <2>2. Idle.op # "inviting"
    BY DEF Idle
  <2> QED
    BY <1>1, <1>2, <2>1, <2>2
<1>9. \/ \E r \in Requests, b \in Bills : ReadBill(r, b)
      \/ \E r \in Requests : \/ Confirm(r) \/ MarkPastDue(r) \/ Fail(r)
                            \/ FindDueForRenewal(r) \/ Invite(r) \/ CreateMember(r)
      \/ UNCHANGED request /\ users' \in Nat /\ users' <= users
  <2>1. CASE RemoveMember
    BY <1>1, <2>1 DEF RemoveMember
  <2>2. CASE \/ CheckoutFree \/ (\E b \in Bills, plan \in PaidPlans : Checkout(b, plan))
             \/ (\E b \in Bills : Pay(b)) \/ SetAccountStatus
             \/ (\E plan \in Plans : ChangePlan(plan)) \/ NextDay \/ UNCHANGED vars
    <3>1. UNCHANGED <<request, users>>
      BY <2>2 DEF CheckoutFree, Checkout, Pay, SetAccountStatus, ChangePlan, NextDay, vars
    <3> QED
      BY <1>1, <3>1
  <2> QED
    BY <2>1, <2>2 DEF Next
<1> QED
  BY <1>3, <1>4, <1>5, <1>6, <1>7, <1>8, <1>9

(* Days pass, and what was due stays so.                                     *)
LEMMA DueKeeps == IInv /\ [Next]_vars => ReadsWereDue'
<1> SUFFICES ASSUME IInv, [Next]_vars,
                    NEW r \in Requests, request'[r].op = "renewing"
             PROVE  Due(request'[r].seen, today') /\ request'[r].seen \in Subscriptions
  BY DEF ReadsWereDue
<1>1. request \in [Requests -> Pending] /\ sub \in Subscriptions
  BY DEF IInv, TypeOK
<1>2. today \in Nat /\ today' \in Nat /\ today' >= today
  <2>1. today \in Nat /\ today' \in Nat
    BY TypeKeeps DEF IInv, TypeOK, Days
  <2>2. UNCHANGED today \/ NextDay
    BY DEF Next, vars, CheckoutFree, Checkout, Pay, ReadBill, Hold, Confirm, ConfirmAt, FindDueForRenewal,
           MarkPastDue, Invite, InviteIf, CreateMember, Fail, SetAccountStatus, ChangePlan, RemoveMember
  <2> QED
    BY <2>1, <2>2 DEF NextDay
<1>3. ASSUME NEW s \in Subscriptions, Due(s, today)
      PROVE  Due(s, today')
  BY <1>2, <1>3 DEF Due, Subscriptions, Dates
<1>4. \/ request'[r] = request[r]
      \/ request'[r] = [op |-> "renewing", seen |-> sub] /\ Due(sub, today)
  <2>1. ASSUME NEW q \in Requests, NEW b \in Bills, ReadBill(q, b)
        PROVE  request'[r] = request[r]
    BY <1>1, <2>1 DEF ReadBill, Hold
  <2>2. ASSUME NEW q \in Requests, FindDueForRenewal(q)
        PROVE  \/ request'[r] = request[r]
               \/ request'[r] = [op |-> "renewing", seen |-> sub] /\ Due(sub, today)
    BY <1>1, <2>2 DEF FindDueForRenewal, Hold
  <2>3. ASSUME NEW q \in Requests, Confirm(q) \/ MarkPastDue(q) \/ Invite(q) \/ CreateMember(q) \/ Fail(q)
        PROVE  request'[r] = request[r]
    <3>1. \/ request' = [request EXCEPT ![q] = Idle]
          \/ request' = [request EXCEPT ![q] = [op |-> "inviting"]]
      BY <2>3 DEF Confirm, ConfirmAt, MarkPastDue, Invite, InviteIf, Hold, CreateMember, Fail
    <3> QED
      BY <1>1, <3>1 DEF Idle
  <2>4. \/ \E q \in Requests, b \in Bills : ReadBill(q, b)
        \/ \E q \in Requests : FindDueForRenewal(q)
        \/ \E q \in Requests : Confirm(q) \/ MarkPastDue(q) \/ Invite(q) \/ CreateMember(q) \/ Fail(q)
        \/ UNCHANGED request
    BY DEF Next, vars, CheckoutFree, Checkout, Pay, SetAccountStatus, ChangePlan, RemoveMember, NextDay
  <2> QED
    BY <2>1, <2>2, <2>3, <2>4
<1>5. CASE request'[r] = request[r]
  <2>1. Due(request[r].seen, today) /\ request[r].seen \in Subscriptions
    BY <1>5 DEF IInv, ReadsWereDue
  <2> QED
    BY <1>3, <1>5, <2>1
<1>6. CASE request'[r] = [op |-> "renewing", seen |-> sub] /\ Due(sub, today)
  <2>1. request'[r].seen = sub
    BY <1>6
  <2> QED
    BY <1>1, <1>3, <1>6, <2>1
<1> QED
  BY <1>4, <1>5, <1>6

-----------------------------------------------------------------------------
(* The induction.                                                            *)
THEOREM PlatformInvariance == Spec => []IInv
<1>1. IInv /\ [Next]_vars => IInv'
  BY TypeKeeps, JustifiedKeeps, ConfirmableKeeps, SeatsKeep, DueKeeps DEF IInv
<1> QED
  BY InitIInv, <1>1, PTL DEF Spec

(* RN-SB3: whoever works with a paid plan is in the trial, or the plan was paid *)
(* for or given within the last period, whatever resolveEntitlements reads.  *)
THEOREM PaidPlansArePaid == Spec => []PaidPlanHasPayment
<1>1. IInv => PaidPlanHasPayment
  <2> SUFFICES ASSUME IInv, Entitlements.canWrite, Entitlements.plan # "free"
               PROVE  \/ today <= TrialDays
                      \/ \E b \in Bills : /\ bill[b].status = "PAID" /\ bill[b].plan = sub.plan
                                          /\ Runs(bill[b].paidAt)
                      \/ Runs(granted[sub.plan])
    BY DEF PaidPlanHasPayment
  <2>1. \/ sub.status = "trialing" /\ today < sub.trialEndsAt
        \/ sub.status = "active" /\ sub.plan # "free" /\ today < sub.currentPeriodEnd
    BY DEF Entitlements, ReadOnly, Full
  <2>2. CASE sub.status = "trialing" /\ today < sub.trialEndsAt
    BY <2>2 DEF IInv, TypeOK, SubJustified, Days
  <2>3. CASE sub.status = "active" /\ sub.plan # "free" /\ today < sub.currentPeriodEnd
    BY <2>3 DEF IInv, SubJustified, Runs
  <2> QED
    BY <2>1, <2>2, <2>3
<1> QED
  BY PlatformInvariance, <1>1, PTL

(* The seats of the largest plan are exceeded at most by invitations that were *)
(* checked at the same time (isOverSeatLimit and createMember).              *)
THEOREM SeatsAreHeld == Spec => []SeatsHeld
<1>1. IInv => SeatsHeld
  <2> SUFFICES ASSUME IInv PROVE SeatsHeld
    OBVIOUS
  <2>1. IsFiniteSet(Inviting)
    BY FS_Subset DEF Inviting
  <2>2. Cardinality(Inviting) \in Nat /\ Cardinality(Requests) \in Nat
    BY <2>1, FS_CardinalityType
  <2> QED
    BY <2>2 DEF IInv, TypeOK, SeatsCounted, SeatsHeld, Seats
<1> QED
  BY PlatformInvariance, <1>1, PTL

(* A tenant that may write loses that only to a suspension, a stale sweep or *)
(* a late confirmation: nothing else in the code takes it away (RN-SB3).     *)
THEOREM AccessIsKept == Spec => AccessLostOnlyByStaleReader
<1>1. ASSUME IInv, [Next]_vars, Entitlements.canWrite, ~Entitlements'.canWrite, today' = today, ~suspended'
      PROVE  \/ \E r \in Requests : request[r].op = "renewing" /\ request[r].seen # sub
             \/ \E r \in Requests : LateBill(r)
  <2>1. /\ sub \in Subscriptions /\ today \in Nat /\ sub' \in Subscriptions /\ suspended \in BOOLEAN
        /\ today \in Days
    BY <1>1, TypeKeeps DEF IInv, TypeOK, Days
  <2>2. ~suspended
    BY <1>1 DEF Entitlements, ReadOnly
  <2>3. \/ sub.status = "trialing" /\ today < sub.trialEndsAt
        \/ sub.status = "active" /\ sub.plan = "free"
        \/ sub.status = "active" /\ sub.plan # "free" /\ today < sub.currentPeriodEnd
    BY <1>1 DEF Entitlements, ReadOnly, Full
  <2>4. /\ ~(sub'.status = "trialing" /\ today < sub'.trialEndsAt)
        /\ ~(sub'.status = "active" /\ sub'.plan = "free")
        /\ ~(sub'.status = "active" /\ sub'.plan # "free" /\ today < sub'.currentPeriodEnd)
    BY <1>1 DEF Entitlements, ReadOnly, Full
  <2>5. sub' # sub
    BY <2>3, <2>4
  <2>6. ~CheckoutFree
    BY <2>1, <2>4 DEF CheckoutFree, Subscriptions
  <2>7. ASSUME NEW plan \in Plans, ChangePlan(plan)
        PROVE  FALSE
    BY <2>1, <2>4, <2>7 DEF ChangePlan, Subscriptions, nextPeriodEnd, PaidPlans
  <2>8. ASSUME NEW r \in Requests, MarkPastDue(r)
        PROVE  request[r].op = "renewing" /\ request[r].seen # sub
    <3>1. request[r].op = "renewing" /\ Due(request[r].seen, today)
      BY <1>1, <2>8 DEF MarkPastDue, IInv, ReadsWereDue
    <3>2. ~Due(sub, today)
      BY <2>1, <2>3 DEF Due, Subscriptions, Dates
    <3> QED
      BY <3>1, <3>2
  <2>9. ASSUME NEW r \in Requests, Confirm(r)
        PROVE  LateBill(r)
    <3>1. PICK at : /\ ConfirmAt(r, at, at)
                    /\ \/ at = today
                       \/ \E b \in Bills : request[r] = [op |-> "confirming", bill |-> b] /\ at = paidOn[b]
      BY <2>9 DEF Confirm
    <3>2. request[r] \in Pending /\ request[r].op = "confirming"
      BY <1>1, <3>1 DEF ConfirmAt, IInv, TypeOK
    <3>3. request[r].bill \in Bills
      BY <3>2, Confirming
    <3>4. bill[request[r].bill].plan \in PaidPlans /\ at \in Nat
      BY <1>1, <2>1, <3>1, <3>2, <3>3 DEF IInv, TypeOK, Confirmable, BillRows, NoBill, Days, Null
    <3>5. sub'.status = "active" /\ sub'.plan # "free" /\ sub'.currentPeriodEnd = at + Month
      BY <2>1, <3>1, <3>4 DEF ConfirmAt, Subscriptions, nextPeriodEnd, PaidPlans
    <3>6. ~(today < at + Month)
      BY <2>4, <3>5
    <3>7. at # today
      BY <2>1, <3>6
    <3>8. PICK b \in Bills : request[r] = [op |-> "confirming", bill |-> b] /\ at = paidOn[b]
      BY <3>1, <3>7
    <3>9. at = paidOn[request[r].bill]
      BY <3>8
    <3> QED
      BY <3>2, <3>6, <3>9 DEF LateBill, Runs
  <2>10. \/ CheckoutFree
         \/ \E r \in Requests : Confirm(r) \/ MarkPastDue(r)
         \/ \E plan \in Plans : ChangePlan(plan)
    BY <1>1, <2>5, SubKeepers DEF Checkout
  <2> QED
    BY <2>6, <2>7, <2>8, <2>9, <2>10
<1>2. IInv /\ [Next]_vars =>
        [Entitlements.canWrite /\ ~Entitlements'.canWrite /\ today' = today =>
           \/ suspended'
           \/ \E r \in Requests : request[r].op = "renewing" /\ request[r].seen # sub
           \/ \E r \in Requests : LateBill(r)]_vars
  BY <1>1
<1> QED
  BY PlatformInvariance, <1>2, PTL DEF Spec, AccessLostOnlyByStaleReader

=============================================================================
