------------------------------ MODULE Delivery ------------------------------
(***************************************************************************)
(* How a reminder reaches its payer: the API publishes it to the invoice   *)
(* queue, workers take one message at a time, send it through the channels *)
(* of the tenant and acknowledge it; what cannot be sent is retried and    *)
(* ends in the dead-letter queue.                                          *)
(*                                                                         *)
(* invoice.worker.ts, invoice-queue.ts, publish.messaging.ts,              *)
(* infrastructure/errors.ts, rabbitmql.config.ts, worker.ts; the providers *)
(* of whatsapp.api.ts and email.api.ts.  The broker                        *)
(* (a RabbitMQ quorum queue) is external: it gives a message to one        *)
(* consumer at a time, returns it when that one rejects it or is gone, and *)
(* dead-letters it when it was returned more than DeliveryLimit times.     *)
(***************************************************************************)
EXTENDS Integers, FiniteSets

CONSTANTS
  Messages,       \* what the producers publish
  Malformed,      \* the messages that cannot be parsed or carry no tenant
  Invoices,
  InvoiceOf,      \* the invoice a message is about
  Workers,
  DeliveryLimit,  \* INVOICE_DELIVERY_LIMIT
  WhatsappSettings, \* what a tenant may have set: a provider, with its token or not
  EmailProvider,    \* EMAIL_PROVIDER of the process
  MaxFailures     \* bound: connections lost, processes died

ASSUME DeliveryAssumption ==
  /\ Malformed \subseteq Messages
  /\ InvoiceOf \in [Messages -> Invoices]
  /\ DeliveryLimit \in Nat
  /\ MaxFailures \in Nat
  /\ WhatsappSettings \subseteq [provider : STRING, token : BOOLEAN]
  /\ "none" \notin Messages

Channels == {"whatsapp", "email"}

(* The channels of a tenant's preference: e-mail needs an address.           *)
NotifyChannels == {"whatsapp", "email", "both"}

ChannelsFor(preferred, hasEmail) ==
  CASE preferred = "email" /\ hasEmail -> {"email"}
    [] preferred = "both" /\ hasEmail -> Channels
    [] OTHER -> {"whatsapp"}

(* WhatsApp is the tenant's own, e-mail the platform's; whatever is not set   *)
(* up completely is only logged.                                             *)
ResolveWhatsappForTenant(setting) ==
  IF setting.provider = "cloud" /\ setting.token THEN "cloud" ELSE "log"

ResolveEmailProvider == IF EmailProvider = "smtp" THEN "smtp" ELSE "log"

ProviderOf(channel, setting) ==
  IF channel = "email" THEN ResolveEmailProvider ELSE ResolveWhatsappForTenant(setting)

(* What sending comes to: taken, a payer gets it; success, the worker hears   *)
(* so.  The log says yes to everything; a real provider takes the message     *)
(* and says so, or not in time, or refuses it.                               *)
LogOnly == {[taken |-> FALSE, success |-> TRUE]}
CloudApi == {[taken |-> TRUE, success |-> TRUE], [taken |-> TRUE, success |-> FALSE],
             [taken |-> FALSE, success |-> FALSE]}
Smtp == CloudApi

Results(provider) ==
  CASE provider = "cloud" -> CloudApi [] provider = "smtp" -> Smtp [] OTHER -> LogOnly

VARIABLES
  plain,      \* the messages without a step: the worker marks their invoice
  place,      \* where the broker has each message
  returns,    \* x-delivery-count
  invoices,   \* Invoice rows
  notified,   \* Invoice.notificationSent
  copies,     \* how often a payer got a message through each channel
  logged,     \* messages that were only logged, though as if they were sent
  worker,     \* connection and current handler of each worker
  failures

deliveryVars == <<plain, place, returns, invoices, notified, copies, logged, worker, failures>>

broker == <<place, returns>>

(* The connection of a worker is up, lost (its process lives on without it:  *)
(* rabbitMQ never reconnects), or down with its process.  msg, todo, sent:   *)
(* the message its handler works on, the channels left, anySuccess.          *)
Labels == {"idle", "taken", "sending", "marked"}

Handlers == [connection : {"up", "lost", "down"}, label : Labels,
             msg : Messages \cup {"none"}, todo : SUBSET Channels, sent : BOOLEAN]

Waiting == [connection |-> "up", label |-> "idle", msg |-> "none", todo |-> {}, sent |-> FALSE]

DeliveryTypeOK ==
  /\ plain \subseteq Messages
  /\ place \in [Messages -> {"nowhere", "queue", "held", "acked", "dead", "lost"}]
  /\ returns \in [Messages -> 0 .. DeliveryLimit + 1]
  /\ invoices \subseteq Invoices
  /\ notified \subseteq Invoices
  /\ copies \in [Messages -> [Channels -> Nat]]
  /\ logged \subseteq Messages
  /\ worker \in [Workers -> Handlers]
  /\ failures \in 0 .. MaxFailures

DeliveryInit ==
  /\ plain = {}
  /\ place = [m \in Messages |-> "nowhere"]
  /\ returns = [m \in Messages |-> 0]
  /\ invoices = Invoices
  /\ notified = {}
  /\ copies = [m \in Messages |-> [c \in Channels |-> 0]]
  /\ logged = {}
  /\ worker = [w \in Workers |-> Waiting]
  /\ failures = 0

-----------------------------------------------------------------------------
(* sendToQueue without publisher confirms: the message reaches the broker,   *)
(* or its connection is gone before it does and nobody notices.  The regua    *)
(* and the recovery engine number their steps, the others do not.            *)
Publish(m, step) ==
  /\ place[m] = "nowhere"
  /\ plain' = IF step THEN plain ELSE plain \cup {m}
  /\ place' = [place EXCEPT ![m] = "queue"]
  /\ UNCHANGED <<returns, invoices, notified, copies, logged, worker, failures>>

PublishLost(m) ==
  /\ place[m] = "nowhere"
  /\ failures < MaxFailures
  /\ failures' = failures + 1
  /\ place' = [place EXCEPT ![m] = "lost"]
  /\ UNCHANGED <<plain, returns, invoices, notified, copies, logged, worker>>

(* prefetch(1): a worker is given a message when it has none to answer.      *)
Deliver(w, m) ==
  /\ worker[w] = Waiting
  /\ place[m] = "queue"
  /\ place' = [place EXCEPT ![m] = "held"]
  /\ worker' = [worker EXCEPT ![w].label = "taken", ![w].msg = m]
  /\ UNCHANGED <<plain, returns, invoices, notified, copies, logged, failures>>

Up(w) == worker[w].connection = "up"

(* The handler ends; without its connection the worker gets no other message.*)
HandlerEnds(w) ==
  worker' = [worker EXCEPT ![w] = [Waiting EXCEPT !.connection = worker[w].connection]]

(* Mutant of Returned: the broker has no limit.                               *)
ReturnedForEver(m) ==
  /\ returns' = [returns EXCEPT ![m] = @ + 1]
  /\ place' = [place EXCEPT ![m] = "queue"]

(* The broker takes m back and counts it; above the limit it dead-letters it.*)
Returned(m) ==
  /\ returns' = [returns EXCEPT ![m] = @ + 1]
  /\ place' = [place EXCEPT ![m] = IF returns[m] >= DeliveryLimit THEN "dead" ELSE "queue"]

Answer(w, where) ==
  IF Up(w) THEN place' = [place EXCEPT ![worker[w].msg] = where] ELSE UNCHANGED place

(* channel.ack; without a connection it throws, and so does the nack after it.*)
Ack(w) == Answer(w, "acked") /\ UNCHANGED returns

(* nack with requeue: shouldRequeue of any error that is not permanent.      *)
Requeue(w) ==
  IF Up(w) THEN Returned(worker[w].msg) ELSE UNCHANGED broker

-----------------------------------------------------------------------------
(***************************************************************************)
(* The handler of a message.                                               *)
(***************************************************************************)

(* PermanentError: nack without requeue dead-letters the message.            *)
RejectMalformed(w) ==
  /\ worker[w].label = "taken"
  /\ worker[w].msg \in Malformed
  /\ Answer(w, "dead")
  /\ HandlerEnds(w)
  /\ UNCHANGED <<plain, returns, invoices, notified, copies, logged, failures>>

Parsed(w) == worker[w].label = "taken" /\ worker[w].msg \notin Malformed

InvoiceOfWorker(w) == InvoiceOf[worker[w].msg]

(* Mutant of InvoiceGone: the early return does not acknowledge.              *)
GoneUnanswered(w) ==
  /\ Parsed(w)
  /\ InvoiceOfWorker(w) \notin invoices
  /\ HandlerEnds(w)
  /\ UNCHANGED <<plain, broker, invoices, notified, copies, logged, failures>>

(* The invoice does not exist: logged and acknowledged.                      *)
InvoiceGone(w) ==
  /\ Parsed(w)
  /\ InvoiceOfWorker(w) \notin invoices
  /\ Ack(w)
  /\ HandlerEnds(w)
  /\ UNCHANGED <<plain, invoices, notified, copies, logged, failures>>

(* resolveChannels of the tenant's preference.                               *)
ResolveChannels(w, preferred, hasEmail) ==
  /\ Parsed(w)
  /\ InvoiceOfWorker(w) \in invoices
  /\ worker' = [worker EXCEPT ![w].label = "sending",
                              ![w].todo = ChannelsFor(preferred, hasEmail)]
  /\ UNCHANGED <<plain, broker, invoices, notified, copies, logged, failures>>

(* One channel, through the provider the tenant has set up by now.           *)
Send(w, channel, setting) ==
  /\ worker[w].label = "sending"
  /\ channel \in worker[w].todo
  /\ channel = "email" => "whatsapp" \notin worker[w].todo
  /\ \E result \in Results(ProviderOf(channel, setting)) :
       /\ copies' = IF result.taken THEN [copies EXCEPT ![worker[w].msg][channel] = @ + 1]
                    ELSE copies
       /\ logged' = IF result.success /\ ~result.taken THEN logged \cup {worker[w].msg}
                    ELSE logged
       /\ worker' = [worker EXCEPT ![w].todo = @ \ {channel}, ![w].sent = @ \/ result.success]
  /\ UNCHANGED <<plain, broker, invoices, notified, failures>>

AllTried(w) == worker[w].label = "sending" /\ worker[w].todo = {}

(* Mutant of AllFailed: the error is logged and the message acknowledged.     *)
FailedAck(w) ==
  /\ AllTried(w)
  /\ ~worker[w].sent
  /\ Ack(w)
  /\ HandlerEnds(w)
  /\ UNCHANGED <<plain, invoices, notified, copies, logged, failures>>

(* No channel took it: the handler throws.                                   *)
AllFailed(w) ==
  /\ AllTried(w)
  /\ ~worker[w].sent
  /\ Requeue(w)
  /\ HandlerEnds(w)
  /\ UNCHANGED <<plain, invoices, notified, copies, logged, failures>>

(* markNotificationSent, for a message without a step.                       *)
MarkNotified(w) ==
  /\ AllTried(w)
  /\ worker[w].sent
  /\ worker[w].msg \in plain
  /\ InvoiceOfWorker(w) \in invoices
  /\ notified' = notified \cup {InvoiceOfWorker(w)}
  /\ worker' = [worker EXCEPT ![w].label = "marked"]
  /\ UNCHANGED <<plain, broker, invoices, copies, logged, failures>>

Acknowledge(w) ==
  /\ \/ worker[w].label = "marked"
     \/ AllTried(w) /\ worker[w].sent /\ worker[w].msg \notin plain
  /\ Ack(w)
  /\ HandlerEnds(w)
  /\ UNCHANGED <<plain, invoices, notified, copies, logged, failures>>

(* A query of the handler throws: it reads the invoice, the channels and the *)
(* settings, and marks the invoice, which may be deleted by then.            *)
Throws(w) ==
  /\ worker[w].label = "sending" \/ Parsed(w)
  /\ Requeue(w)
  /\ HandlerEnds(w)
  /\ UNCHANGED <<plain, invoices, notified, copies, logged, failures>>

-----------------------------------------------------------------------------
(***************************************************************************)
(* What goes wrong around it.                                              *)
(***************************************************************************)

(* The broker takes back what a consumer that is gone has not answered;      *)
(* whether it counts as a return depends on the release of the broker.       *)
TakenBack(m, counted) ==
  IF counted THEN Returned(m)
  ELSE place' = [place EXCEPT ![m] = "queue"] /\ UNCHANGED returns

Holding(w) == Up(w) /\ worker[w].msg # "none"

Disconnect(w, counted) ==
  /\ failures < MaxFailures
  /\ failures' = failures + 1
  /\ IF Holding(w) THEN TakenBack(worker[w].msg, counted) ELSE UNCHANGED broker
  /\ UNCHANGED <<plain, invoices, notified, copies, logged>>

(* The connection closes; the handler goes on, and sends what it has to send.*)
LoseConnection(w, counted) ==
  /\ Up(w)
  /\ Disconnect(w, counted)
  /\ worker' = [worker EXCEPT ![w].connection = "lost"]

Crash(w, counted) ==
  /\ worker[w].connection # "down"
  /\ Disconnect(w, counted)
  /\ worker' = [worker EXCEPT ![w] = [Waiting EXCEPT !.connection = "down"]]

(* restart: unless-stopped.                                                  *)
Restart(w) ==
  /\ worker[w].connection = "down"
  /\ worker' = [worker EXCEPT ![w] = Waiting]
  /\ UNCHANGED <<plain, broker, invoices, notified, copies, logged, failures>>

(* deleteById, from a renegotiation that failed.                             *)
DeleteInvoice(i) ==
  /\ i \in invoices
  /\ invoices' = invoices \ {i}
  /\ notified' = notified \ {i}
  /\ UNCHANGED <<plain, broker, copies, logged, worker, failures>>

-----------------------------------------------------------------------------
Progress(w) ==
  \/ \E m \in Messages : Deliver(w, m)
  \/ RejectMalformed(w)
  \/ InvoiceGone(w)
  \/ \E preferred \in NotifyChannels, hasEmail \in BOOLEAN : ResolveChannels(w, preferred, hasEmail)
  \/ \E channel \in Channels, setting \in WhatsappSettings : Send(w, channel, setting)
  \/ AllFailed(w)
  \/ MarkNotified(w)
  \/ Acknowledge(w)
  \/ Throws(w)

Failure(w) ==
  \E counted \in BOOLEAN : LoseConnection(w, counted) \/ Crash(w, counted)

DeliveryNext ==
  \/ \E m \in Messages : PublishLost(m) \/ \E step \in BOOLEAN : Publish(m, step)
  \/ \E w \in Workers : Progress(w) \/ Failure(w) \/ Restart(w)
  \/ \E i \in Invoices : DeleteInvoice(i)

DeliverySpec == DeliveryInit /\ [][DeliveryNext]_deliveryVars

(* A worker that runs goes on, and its container is restarted.               *)
DeliveryFairSpec == DeliverySpec /\ \A w \in Workers : WF_deliveryVars(Progress(w)) /\ WF_deliveryVars(Restart(w))

=============================================================================
