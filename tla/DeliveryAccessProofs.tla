------------------------ MODULE DeliveryAccessProofs ------------------------
(***************************************************************************)
(* Proofs about Delivery, for any number of workers, messages, failures    *)
(* and any limit; and about Access, for any number of requests and sweeps, *)
(* and any texts, settings and days.  The two have nothing in common but   *)
(* this module.                                                            *)
(***************************************************************************)
EXTENDS DeliveryProperties, AccessProperties, FiniteSetTheorems, TLAPS

-----------------------------------------------------------------------------
(***************************************************************************)
(* Delivery.                                                               *)
(***************************************************************************)

(* What becomes of the message of w, which has a live consumer no more: it is *)
(* acknowledged for a reason, given up, or goes back to the queue.            *)
Settles(w, to, n) ==
  LET m == worker[w].msg IN
  /\ place' = [place EXCEPT ![m] = to]
  /\ returns' = [returns EXCEPT ![m] = n]
  /\ \/ to = "acked" /\ n = returns[m] /\ (InvoiceOf[m] \notin invoices \/ Reached(m))
     \/ to = "dead" /\ n = returns[m] /\ m \in Malformed /\ worker[w].label = "taken"
     \/ to = "dead" /\ n = returns[m] + 1 /\ returns[m] = DeliveryLimit
     \/ to = "queue" /\ n = returns[m] + 1 /\ returns[m] < DeliveryLimit
     \/ to = "queue" /\ n = returns[m] /\ failures' = failures + 1

(* w ends its handler, or is gone.                                            *)
Leaves(w) ==
  IF Holding(w) THEN \E to, n : Settles(w, to, n) ELSE UNCHANGED broker

(* w goes on with its message.                                                *)
GoesOn(w) ==
  /\ worker'[w].msg = worker[w].msg
  /\ worker'[w].connection = worker[w].connection
  /\ worker'[w].label # "idle"
  /\ UNCHANGED broker

OnlyWorker(w) == \A v \in Workers : v # w => worker'[v] = worker[v]

(* A worker that has a message and its connection holds it at the broker.     *)
LEMMA HoldingIsHeld ==
  ASSUME MessagesIInv, NEW w \in Workers, Holding(w)
  PROVE  /\ worker[w].msg \in Messages /\ place[worker[w].msg] = "held"
         /\ returns[worker[w].msg] \in 0 .. DeliveryLimit
         /\ Consumers(worker[w].msg) = {w}
<1>1. DeliveryTypeOK
  BY DEF MessagesIInv, MessagesAccountedFor
<1>2. worker[w].msg \in Messages
  BY <1>1 DEF DeliveryTypeOK, Handlers, Holding
<1>3. w \in Consumers(worker[w].msg)
  BY DEF Holding, Consumers
<1>4. place[worker[w].msg] = "held" /\ Consumers(worker[w].msg) = {w}
  BY <1>2, <1>3 DEF MessagesIInv, OneConsumer
<1>5. returns[worker[w].msg] \in 0 .. DeliveryLimit
  BY <1>1, <1>2, <1>4, DeliveryAssumption DEF MessagesIInv, ReturnsAreLimited, DeliveryTypeOK
<1> QED
  BY <1>2, <1>4, <1>5

(* The ways a handler ends, and those a worker is gone.                       *)
LEMMA EndingSettles ==
  ASSUME MessagesIInv, NEW w \in Workers,
         \/ RejectMalformed(w) \/ InvoiceGone(w) \/ AllFailed(w) \/ Acknowledge(w) \/ Throws(w)
         \/ \E counted \in BOOLEAN : LoseConnection(w, counted) \/ Crash(w, counted)
  PROVE  Leaves(w)
<1> DEFINE m == worker[w].msg
<1>1. DeliveryTypeOK /\ HandlersAreTrue
  BY DEF MessagesIInv, MessagesAccountedFor
<1>2. worker[w] \in Handlers
  BY <1>1 DEF DeliveryTypeOK
<1>3. worker[w].label # "idle" => m # "none"
  BY <1>1 DEF HandlersAreTrue
<1>4. Up(w) /\ worker[w].label # "idle" => Holding(w)
  BY <1>3 DEF Holding
<1>5. ASSUME Holding(w), Returned(m)
      PROVE  \E to, n : Settles(w, to, n)
  <2>1. returns[m] \in 0 .. DeliveryLimit
    BY <1>5, HoldingIsHeld
  <2>2. CASE returns[m] = DeliveryLimit
    <3>1. Settles(w, "dead", returns[m] + 1)
      BY <1>5, <2>2, DeliveryAssumption DEF Settles, Returned
    <3> QED
      BY <3>1
  <2>3. CASE returns[m] < DeliveryLimit
    <3>1. Settles(w, "queue", returns[m] + 1)
      <4>1. ~(returns[m] >= DeliveryLimit)
        BY <2>1, <2>3, DeliveryAssumption
      <4>2. /\ returns' = [returns EXCEPT ![m] = returns[m] + 1]
            /\ place' = [place EXCEPT ![m] = "queue"]
        BY <1>5, <4>1 DEF Returned
      <4> QED
        BY <2>3, <4>2 DEF Settles
    <3> QED
      BY <3>1
  <2> QED
    BY <2>1, <2>2, <2>3, DeliveryAssumption
<1>6. ASSUME Up(w), NEW where, Answer(w, where), UNCHANGED returns
      PROVE  place' = [place EXCEPT ![m] = where] /\ returns' = [returns EXCEPT ![m] = returns[m]]
  <2>1. returns \in [Messages -> 0 .. DeliveryLimit + 1]
    BY <1>1 DEF DeliveryTypeOK
  <2> QED
    BY <1>6, <2>1 DEF Answer
<1>7. CASE RejectMalformed(w)
  <2>1. worker[w].label = "taken" /\ m \in Malformed /\ Answer(w, "dead") /\ UNCHANGED returns
    BY <1>7 DEF RejectMalformed
  <2>2. CASE Up(w)
    <3>1. Settles(w, "dead", returns[m])
      BY <1>6, <2>1, <2>2 DEF Settles
    <3> QED
      BY <1>4, <2>1, <2>2, <3>1 DEF Leaves
  <2>3. CASE ~Up(w)
    BY <2>1, <2>3 DEF Leaves, Holding, Answer, broker
  <2> QED
    BY <2>2, <2>3
<1>8. ASSUME Ack(w), worker[w].label # "idle", InvoiceOf[m] \notin invoices \/ Reached(m)
      PROVE  Leaves(w)
  <2>1. Answer(w, "acked") /\ UNCHANGED returns
    BY <1>8 DEF Ack
  <2>2. CASE Up(w)
    <3>1. Settles(w, "acked", returns[m])
      BY <1>6, <1>8, <2>1, <2>2 DEF Settles
    <3> QED
      BY <1>4, <1>8, <2>2, <3>1 DEF Leaves
  <2>3. CASE ~Up(w)
    BY <2>1, <2>3 DEF Leaves, Holding, Answer, broker
  <2> QED
    BY <2>2, <2>3
<1>9. CASE InvoiceGone(w)
  BY <1>8, <1>9 DEF InvoiceGone, Parsed, InvoiceOfWorker
<1>10. CASE Acknowledge(w)
  <2>1. worker[w].sent /\ worker[w].label # "idle" /\ Ack(w)
    BY <1>1, <1>10 DEF Acknowledge, AllTried, HandlersAreTrue
  <2>2. Reached(m)
    BY <1>1, <2>1 DEF HandlersAreTrue
  <2> QED
    BY <1>8, <2>1, <2>2
<1>11. ASSUME Requeue(w), worker[w].label # "idle"
       PROVE  Leaves(w)
  BY <1>4, <1>5, <1>11 DEF Requeue, Leaves, Holding
<1>12. CASE AllFailed(w) \/ Throws(w)
  BY <1>11, <1>12 DEF AllFailed, Throws, AllTried, Parsed
<1>13. ASSUME NEW counted \in BOOLEAN, LoseConnection(w, counted) \/ Crash(w, counted)
       PROVE  Leaves(w)
  <2>1. Disconnect(w, counted)
    BY <1>13 DEF LoseConnection, Crash
  <2>2. CASE ~Holding(w)
    BY <2>1, <2>2 DEF Disconnect, Leaves
  <2>3. CASE Holding(w) /\ counted
    BY <1>5, <2>1, <2>3 DEF Disconnect, TakenBack, Leaves
  <2>4. CASE Holding(w) /\ ~counted
    <3>1. returns \in [Messages -> 0 .. DeliveryLimit + 1]
      BY <1>1 DEF DeliveryTypeOK
    <3>2. /\ failures' = failures + 1 /\ place' = [place EXCEPT ![m] = "queue"]
          /\ returns' = [returns EXCEPT ![m] = returns[m]]
      BY <2>1, <2>4, <3>1 DEF Disconnect, TakenBack
    <3>3. Settles(w, "queue", returns[m])
      BY <3>2 DEF Settles
    <3> QED
      BY <2>4, <3>3 DEF Leaves
  <2> QED
    BY <2>2, <2>3, <2>4
<1> QED
  BY <1>7, <1>9, <1>10, <1>12, <1>13

LEMMA ChannelsChosen ==
  ASSUME NEW preferred, NEW hasEmail \in BOOLEAN
  PROVE  ChannelsFor(preferred, hasEmail) \subseteq Channels
<1>1. CASE preferred = "email" /\ hasEmail
  <2>1. ChannelsFor(preferred, hasEmail) = {"email"}
    BY <1>1, Zenon DEF ChannelsFor
  <2> QED
    BY <2>1 DEF Channels
<1>2. CASE preferred = "both" /\ hasEmail
  <2>1. ChannelsFor(preferred, hasEmail) = Channels
    BY <1>2, Zenon DEF ChannelsFor
  <2> QED
    BY <2>1
<1>3. CASE ~(preferred = "email" /\ hasEmail) /\ ~(preferred = "both" /\ hasEmail)
  <2>1. ChannelsFor(preferred, hasEmail) = {"whatsapp"}
    BY <1>3, Zenon DEF ChannelsFor
  <2> QED
    BY <2>1 DEF Channels
<1> QED
  BY <1>1, <1>2, <1>3

(* Sending is taken or not, and succeeds or not.                              *)
LEMMA ResultsOfSending ==
  ASSUME NEW provider, NEW result \in Results(provider)
  PROVE  result \in [taken : BOOLEAN, success : BOOLEAN]
<1>1. Results(provider) \in {LogOnly, CloudApi, Smtp}
  <2>1. CASE provider = "cloud"
    BY <2>1, Zenon DEF Results
  <2>2. CASE provider = "smtp"
    BY <2>2, Zenon DEF Results
  <2>3. CASE provider # "cloud" /\ provider # "smtp"
    BY <2>3, Zenon DEF Results
  <2> QED
    BY <2>1, <2>2, <2>3
<1>2. LogOnly \subseteq [taken : BOOLEAN, success : BOOLEAN]
  BY DEF LogOnly
<1>3. CloudApi \subseteq [taken : BOOLEAN, success : BOOLEAN]
  BY DEF CloudApi
<1>4. Results(provider) \subseteq [taken : BOOLEAN, success : BOOLEAN]
  BY <1>1, <1>2, <1>3 DEF Smtp
<1> QED
  BY <1>4

(* What becomes of a message keeps the broker's types.                        *)
LEMMA LeavingTypes ==
  ASSUME MessagesIInv, NEW w \in Workers, Leaves(w)
  PROVE  /\ place' \in [Messages -> {"nowhere", "queue", "held", "acked", "dead", "lost"}]
         /\ returns' \in [Messages -> 0 .. DeliveryLimit + 1]
<1>1. /\ place \in [Messages -> {"nowhere", "queue", "held", "acked", "dead", "lost"}]
      /\ returns \in [Messages -> 0 .. DeliveryLimit + 1]
  BY DEF MessagesIInv, MessagesAccountedFor, DeliveryTypeOK
<1>2. CASE Holding(w)
  <2>1. worker[w].msg \in Messages /\ returns[worker[w].msg] \in 0 .. DeliveryLimit
    BY <1>2, HoldingIsHeld
  <2>2. PICK to, n : Settles(w, to, n)
    BY <1>2 DEF Leaves
  <2>3. to \in {"acked", "dead", "queue"} /\ n \in 0 .. DeliveryLimit + 1
    BY <2>1, <2>2, DeliveryAssumption DEF Settles
  <2> QED
    BY <1>1, <2>2, <2>3 DEF Settles
<1>3. CASE ~Holding(w)
  BY <1>1, <1>3 DEF Leaves, broker
<1> QED
  BY <1>2, <1>3

LEMMA DeliveryTypeStep ==
  ASSUME MessagesIInv, [DeliveryNext]_deliveryVars
  PROVE  DeliveryTypeOK'
<1> USE DEF DeliveryTypeOK
<1>0. DeliveryTypeOK /\ HandlersAreTrue
  BY DEF MessagesIInv, MessagesAccountedFor
<1>1. ASSUME NEW m \in Messages, NEW step \in BOOLEAN, PublishLost(m) \/ Publish(m, step)
      PROVE  DeliveryTypeOK'
  BY <1>0, <1>1, DeliveryAssumption DEF PublishLost, Publish
<1>2. \A w \in Workers : Waiting \in Handlers /\ [Waiting EXCEPT !.connection = worker[w].connection] \in Handlers
                         /\ [Waiting EXCEPT !.connection = "down"] \in Handlers
  BY <1>0 DEF Waiting, Handlers, Labels
<1>3. ASSUME NEW w \in Workers, NEW m \in Messages, Deliver(w, m)
      PROVE  DeliveryTypeOK'
  <2>1. [worker[w] EXCEPT !.label = "taken", !.msg = m] \in Handlers
    BY <1>0 DEF Handlers, Labels
  <2>2. worker' = [worker EXCEPT ![w] = [worker[w] EXCEPT !.label = "taken", !.msg = m]]
    BY <1>0, <1>3 DEF Deliver
  <2> QED
    BY <1>0, <1>3, <2>1, <2>2 DEF Deliver
<1>4. ASSUME NEW w \in Workers,
             RejectMalformed(w) \/ InvoiceGone(w) \/ AllFailed(w) \/ Acknowledge(w) \/ Throws(w)
      PROVE  DeliveryTypeOK'
  <2>1. Leaves(w)
    BY <1>4, EndingSettles
  <2>2. HandlerEnds(w) /\ UNCHANGED <<plain, invoices, notified, copies, logged, failures>>
    BY <1>4 DEF RejectMalformed, InvoiceGone, AllFailed, Acknowledge, Throws
  <2> QED
    BY <1>0, <1>2, <2>1, <2>2, LeavingTypes DEF HandlerEnds
<1>5. ASSUME NEW w \in Workers, NEW preferred, NEW hasEmail \in BOOLEAN,
             ResolveChannels(w, preferred, hasEmail)
      PROVE  DeliveryTypeOK'
  <2> DEFINE new == [worker[w] EXCEPT !.label = "sending", !.todo = ChannelsFor(preferred, hasEmail)]
  <2>1. new \in Handlers
    BY <1>0, ChannelsChosen DEF Handlers, Labels
  <2>2. worker' = [worker EXCEPT ![w] = new]
    BY <1>0, <1>5 DEF ResolveChannels
  <2> HIDE DEF new
  <2> QED
    BY <1>0, <1>5, <2>1, <2>2 DEF ResolveChannels, broker
<1>6. ASSUME NEW w \in Workers, NEW channel \in Channels, NEW setting, Send(w, channel, setting)
      PROVE  DeliveryTypeOK'
  <2>1. PICK result \in Results(ProviderOf(channel, setting)) :
       /\ copies' = IF result.taken THEN [copies EXCEPT ![worker[w].msg][channel] = @ + 1]
                    ELSE copies
       /\ logged' = IF result.success /\ ~result.taken THEN logged \cup {worker[w].msg}
                    ELSE logged
       /\ worker' = [worker EXCEPT ![w].todo = @ \ {channel}, ![w].sent = @ \/ result.success]
    BY <1>6 DEF Send
  <2>2. worker[w].msg \in Messages
    BY <1>0, <1>6 DEF Send, HandlersAreTrue, Handlers
  <2>3. result \in [taken : BOOLEAN, success : BOOLEAN]
    BY ResultsOfSending
  <2> DEFINE sent == worker[w].sent \/ result.success
             new == [worker[w] EXCEPT !.todo = @ \ {channel}, !.sent = sent]
  <2>4. new \in Handlers
    <3>1. sent \in BOOLEAN
      BY Zenon
    <3> HIDE DEF sent
    <3> QED
      BY <1>0, <3>1 DEF Handlers
  <2>5. worker' = [worker EXCEPT ![w] = new]
    BY <1>0, <2>1
  <2> HIDE DEF new
  <2>6. copies' \in [Messages -> [Channels -> Nat]]
    BY <1>0, <2>1, <2>2
  <2>7. logged' \subseteq Messages
    BY <1>0, <2>1, <2>2
  <2> QED
    BY <1>0, <1>6, <2>4, <2>5, <2>6, <2>7 DEF Send, broker
<1>7. ASSUME NEW w \in Workers, MarkNotified(w)
      PROVE  DeliveryTypeOK'
  <2>1. [worker[w] EXCEPT !.label = "marked"] \in Handlers
    BY <1>0 DEF Handlers, Labels
  <2>2. worker' = [worker EXCEPT ![w] = [worker[w] EXCEPT !.label = "marked"]]
    BY <1>0, <1>7 DEF MarkNotified
  <2>3. InvoiceOfWorker(w) \in Invoices
    BY <1>0, <1>7 DEF MarkNotified
  <2> QED
    BY <1>0, <1>7, <2>1, <2>2, <2>3 DEF MarkNotified, broker
<1>8. ASSUME NEW w \in Workers, NEW counted \in BOOLEAN, LoseConnection(w, counted) \/ Crash(w, counted)
      PROVE  DeliveryTypeOK'
  <2>1. Leaves(w)
    BY <1>8, EndingSettles
  <2>2. /\ failures < MaxFailures /\ failures' = failures + 1
        /\ UNCHANGED <<plain, invoices, notified, copies, logged>>
    BY <1>8 DEF LoseConnection, Crash, Disconnect
  <2>3. PICK new \in Handlers : worker' = [worker EXCEPT ![w] = new]
    <3>1. CASE LoseConnection(w, counted)
      <4>1. [worker[w] EXCEPT !.connection = "lost"] \in Handlers
        BY <1>0 DEF Handlers
      <4> QED
        BY <1>0, <3>1, <4>1 DEF LoseConnection
    <3>2. CASE Crash(w, counted)
      BY <1>2, <3>2 DEF Crash
    <3> QED
      BY <1>8, <3>1, <3>2
  <2> QED
    BY <1>0, <2>1, <2>2, <2>3, LeavingTypes, DeliveryAssumption
<1>9. ASSUME NEW w \in Workers, Restart(w)
      PROVE  DeliveryTypeOK'
  BY <1>0, <1>2, <1>9 DEF Restart, broker
<1>10. ASSUME NEW i \in Invoices, DeleteInvoice(i)
       PROVE  DeliveryTypeOK'
  BY <1>0, <1>10 DEF DeleteInvoice, broker
<1>11. CASE UNCHANGED deliveryVars
  BY <1>0, <1>11 DEF deliveryVars
<1> QED
  BY <1>1, <1>3, <1>4, <1>5, <1>6, <1>7, <1>8, <1>9, <1>10, <1>11
     DEF DeliveryNext, Progress, Failure

LEMMA ConsumersOf ==
  ASSUME NEW w \in Workers, OnlyWorker(w), NEW m
  PROVE  /\ Consumers(m)' \ {w} = Consumers(m) \ {w}
         /\ w \in Consumers(m)' <=> worker'[w].connection = "up" /\ worker'[w].msg = m
BY DEF OnlyWorker, Consumers, Up

LEMMA OneConsumerCounts ==
  ASSUME OneConsumer, NEW m \in Messages
  PROVE  Cardinality(Consumers(m)) = (IF place[m] = "held" THEN 1 ELSE 0)
<1>1. CASE place[m] = "held"
  <2>1. PICK w \in Workers : Consumers(m) = {w}
    BY <1>1 DEF OneConsumer
  <2>2. Cardinality({w}) = 1
    BY FS_Singleton
  <2> QED
    BY <1>1, <2>1, <2>2
<1>2. CASE place[m] # "held"
  <2>1. Consumers(m) = {}
    BY <1>2 DEF OneConsumer
  <2> QED
    BY <1>2, <2>1, FS_EmptySet
<1> QED
  BY <1>1, <1>2

(* What a message that is over has come to.                                   *)
Accounts ==
  \A m \in Messages :
    /\ place[m] = "acked" => InvoiceOf[m] \notin invoices \/ Reached(m)
    /\ place[m] = "dead" /\ m \notin Malformed => returns[m] > DeliveryLimit

LEMMA AccountsSuffice ==
  DeliveryTypeOK /\ HandlersAreTrue /\ OneConsumer /\ ReturnsAreLimited /\ Accounts
    => MessagesIInv
BY OneConsumerCounts DEF MessagesIInv, MessagesAccountedFor, Accounts

LEMMA AccountsSufficeNext ==
  ASSUME DeliveryTypeOK', HandlersAreTrue', OneConsumer', ReturnsAreLimited', Accounts'
  PROVE  MessagesIInv'
<1>1. (DeliveryTypeOK /\ HandlersAreTrue /\ OneConsumer /\ ReturnsAreLimited /\ Accounts
         => MessagesIInv)'
  BY AccountsSuffice, PTL
<1> QED
  BY <1>1

LEMMA PartsOfIInv ==
  MessagesIInv => /\ DeliveryTypeOK /\ HandlersAreTrue /\ OneConsumer /\ ReturnsAreLimited
                  /\ Accounts
BY DEF MessagesIInv, MessagesAccountedFor, Accounts

(* What was reached stays reached.                                            *)
LEMMA ReachedStays ==
  ASSUME NEW m, logged \subseteq logged',
         \A c \in Channels : copies[m][c] > 0 => copies'[m][c] > 0
  PROVE  Reached(m) => Reached(m)'
BY DEF Reached

(* A handler ends or a worker is gone: its message is settled, and nobody     *)
(* else had it.                                                               *)
LEMMA LeavingIInv ==
  ASSUME MessagesIInv, DeliveryTypeOK', NEW w \in Workers, Leaves(w), OnlyWorker(w),
         worker'[w].msg = "none" \/ worker'[w].connection # "up",
         \/ worker'[w].label = "idle" /\ worker'[w].msg = "none" /\ ~worker'[w].sent
         \/ /\ worker'[w].label = worker[w].label /\ worker'[w].msg = worker[w].msg
            /\ worker'[w].sent = worker[w].sent,
         UNCHANGED <<invoices, copies, logged>>
  PROVE  MessagesIInv'
<1> DEFINE m0 == worker[w].msg
<1>1. DeliveryTypeOK /\ HandlersAreTrue /\ OneConsumer /\ ReturnsAreLimited /\ Accounts
  BY PartsOfIInv
<1>2. HandlersAreTrue'
  BY <1>1 DEF HandlersAreTrue, OnlyWorker, Reached
<1>3. ASSUME NEW m \in Messages
      PROVE  w \notin Consumers(m)' /\ Consumers(m)' = Consumers(m) \ {w}
  <2>1. w \notin Consumers(m)'
    BY ConsumersOf, DeliveryAssumption
  <2> QED
    BY <2>1, ConsumersOf
<1>4. CASE Holding(w)
  <2>1. /\ m0 \in Messages /\ place[m0] = "held" /\ Consumers(m0) = {w}
        /\ returns[m0] \in 0 .. DeliveryLimit
    BY <1>4, HoldingIsHeld
  <2>2. PICK to, n : Settles(w, to, n)
    BY <1>4 DEF Leaves
  <2>3. /\ place' = [place EXCEPT ![m0] = to] /\ returns' = [returns EXCEPT ![m0] = n]
        /\ \/ to = "acked" /\ n = returns[m0] /\ (InvoiceOf[m0] \notin invoices \/ Reached(m0))
           \/ to = "dead" /\ n = returns[m0] /\ m0 \in Malformed
           \/ to = "dead" /\ n = returns[m0] + 1 /\ returns[m0] = DeliveryLimit
           \/ to = "queue" /\ n = returns[m0] + 1 /\ returns[m0] < DeliveryLimit
           \/ to = "queue" /\ n = returns[m0]
    BY <2>2 DEF Settles
  <2>4. /\ place \in [Messages -> {"nowhere", "queue", "held", "acked", "dead", "lost"}]
        /\ returns \in [Messages -> 0 .. DeliveryLimit + 1]
    BY <1>1 DEF DeliveryTypeOK
  <2> HIDE DEF m0
  <2>5. /\ place'[m0] = to /\ returns'[m0] = n
        /\ \A m \in Messages \ {m0} : place'[m] = place[m] /\ returns'[m] = returns[m]
    BY <2>1, <2>3, <2>4
  <2>6. OneConsumer'
    <3>1. SUFFICES ASSUME NEW m \in Messages
                   PROVE  IF place'[m] = "held" THEN \E v \in Workers : Consumers(m)' = {v}
                          ELSE Consumers(m)' = {}
      BY DEF OneConsumer
    <3>2. CASE m = m0
      BY <1>3, <2>1, <2>3, <2>5, <3>2
    <3>3. CASE m # m0
      <4>1. w \notin Consumers(m)
        BY <3>3 DEF Consumers, m0
      <4>2. Consumers(m)' = Consumers(m)
        BY <1>3, <4>1
      <4>3. IF place[m] = "held" THEN \E v \in Workers : Consumers(m) = {v} ELSE Consumers(m) = {}
        BY <1>1 DEF OneConsumer
      <4>4. place'[m] = place[m]
        BY <2>5, <3>3
      <4> QED
        BY <4>2, <4>3, <4>4
    <3> QED
      BY <3>2, <3>3
  <2>7. ReturnsAreLimited'
    <3>1. SUFFICES ASSUME NEW m \in Messages, place'[m] # "dead"
                   PROVE  returns'[m] <= DeliveryLimit
      BY DEF ReturnsAreLimited
    <3> QED
      BY <1>1, <2>1, <2>3, <2>5, <3>1, DeliveryAssumption DEF ReturnsAreLimited
  <2>8. Accounts'
    <3>1. SUFFICES ASSUME NEW m \in Messages
                   PROVE  /\ place'[m] = "acked" => InvoiceOf[m] \notin invoices \/ Reached(m)
                          /\ place'[m] = "dead" /\ m \notin Malformed => returns'[m] > DeliveryLimit
      BY DEF Accounts, Reached
    <3>2. CASE m = m0
      BY <2>1, <2>3, <2>5, <3>2, DeliveryAssumption
    <3>3. CASE m # m0
      BY <1>1, <2>5, <3>3 DEF Accounts
    <3> QED
      BY <3>2, <3>3
  <2> QED
    BY <1>2, <2>6, <2>7, <2>8, AccountsSufficeNext
<1>5. CASE ~Holding(w)
  <2>1. place' = place /\ returns' = returns
    BY <1>5 DEF Leaves, broker
  <2>2. \A m \in Messages : Consumers(m)' = Consumers(m)
    <3>1. \A m \in Messages : w \notin Consumers(m)
      BY <1>5, DeliveryAssumption DEF Holding, Consumers
    <3> QED
      BY <1>3, <3>1
  <2>3. OneConsumer' /\ ReturnsAreLimited' /\ Accounts'
    BY <1>1, <2>1, <2>2 DEF OneConsumer, ReturnsAreLimited, Accounts, Reached
  <2> QED
    BY <1>2, <2>3, AccountsSufficeNext
<1> QED
  BY <1>4, <1>5

(* A handler goes on: it keeps its message, and what was reached stays so.    *)
LEMMA GoingOnIInv ==
  ASSUME MessagesIInv, DeliveryTypeOK', NEW w \in Workers, GoesOn(w), OnlyWorker(w),
         worker[w].label # "idle", worker'[w].label # "taken",
         worker'[w].label = "marked" => worker'[w].sent,
         worker'[w].sent => Reached(worker[w].msg)',
         invoices' = invoices,
         \A m \in Messages : Reached(m) => Reached(m)'
  PROVE  MessagesIInv'
<1>1. DeliveryTypeOK /\ HandlersAreTrue /\ OneConsumer /\ ReturnsAreLimited /\ Accounts
  BY PartsOfIInv
<1>2. HandlersAreTrue'
  <2>1. SUFFICES ASSUME NEW v \in Workers
                 PROVE  /\ worker'[v].label = "idle" <=> worker'[v].msg = "none"
                        /\ worker'[v].label \in {"idle", "taken"} => ~worker'[v].sent
                        /\ worker'[v].label = "marked" => worker'[v].sent
                        /\ worker'[v].sent => Reached(worker[v].msg)'
    BY DEF HandlersAreTrue
  <2>2. CASE v = w
    BY <1>1, <2>2 DEF HandlersAreTrue, GoesOn
  <2>3. CASE v # w
    <3>1. worker'[v] = worker[v] /\ worker[v].msg \in Messages \cup {"none"}
      BY <1>1, <2>3 DEF OnlyWorker, DeliveryTypeOK, Handlers
    <3>2. worker[v].sent => worker[v].msg \in Messages
      BY <1>1, <3>1 DEF HandlersAreTrue
    <3>3. worker[v].sent => Reached(worker[v].msg)'
      BY <1>1, <3>1, <3>2 DEF HandlersAreTrue, Reached
    <3> QED
      BY <1>1, <3>1, <3>3 DEF HandlersAreTrue
  <2> QED
    BY <2>2, <2>3
<1>3. \A m : Consumers(m)' = Consumers(m)
  BY DEF GoesOn, OnlyWorker, Consumers, Up
<1>4. OneConsumer' /\ ReturnsAreLimited' /\ Accounts'
  BY <1>1, <1>3 DEF GoesOn, broker, OneConsumer, ReturnsAreLimited, Accounts
<1> QED
  BY <1>2, <1>4, AccountsSufficeNext

(* A queued message, which nobody has, is given to an idle worker.            *)
LEMMA DeliverIInv ==
  ASSUME MessagesIInv, DeliveryTypeOK', NEW w \in Workers, NEW m \in Messages, Deliver(w, m)
  PROVE  MessagesIInv'
<1>1. DeliveryTypeOK /\ HandlersAreTrue /\ OneConsumer /\ ReturnsAreLimited /\ Accounts
  BY PartsOfIInv
<1>2. /\ worker[w] = Waiting /\ place[m] = "queue"
      /\ place' = [place EXCEPT ![m] = "held"]
      /\ worker' = [worker EXCEPT ![w] = [Waiting EXCEPT !.label = "taken", !.msg = m]]
      /\ UNCHANGED <<returns, invoices, copies, logged>>
  BY <1>1 DEF Deliver, DeliveryTypeOK
<1>3. /\ worker'[w].label = "taken" /\ worker'[w].msg = m /\ ~worker'[w].sent
      /\ worker'[w].connection = "up" /\ OnlyWorker(w)
  BY <1>1, <1>2 DEF Waiting, OnlyWorker, DeliveryTypeOK
<1>4. place'[m] = "held" /\ \A k \in Messages \ {m} : place'[k] = place[k]
  BY <1>1, <1>2 DEF DeliveryTypeOK
<1>5. HandlersAreTrue'
  BY <1>1, <1>2, <1>3, DeliveryAssumption DEF HandlersAreTrue, OnlyWorker, Reached
<1>6. OneConsumer'
  <2>1. SUFFICES ASSUME NEW k \in Messages
                 PROVE  IF place'[k] = "held" THEN \E v \in Workers : Consumers(k)' = {v}
                        ELSE Consumers(k)' = {}
    BY DEF OneConsumer
  <2>2. w \notin Consumers(k)
    BY <1>2, DeliveryAssumption DEF Consumers, Waiting
  <2>3. Consumers(k)' \ {w} = Consumers(k) /\ (w \in Consumers(k)' <=> k = m)
    BY <1>3, <2>2, ConsumersOf
  <2>4. IF place[k] = "held" THEN \E v \in Workers : Consumers(k) = {v} ELSE Consumers(k) = {}
    BY <1>1 DEF OneConsumer
  <2>5. CASE k = m
    <3>1. Consumers(k)' = {w}
      BY <1>2, <2>3, <2>4, <2>5
    <3> QED
      BY <1>4, <2>5, <3>1
  <2>6. CASE k # m
    <3>1. Consumers(k)' = Consumers(k) /\ place'[k] = place[k]
      BY <1>4, <2>3, <2>6
    <3> QED
      BY <2>4, <3>1
  <2> QED
    BY <2>5, <2>6
<1>7. ReturnsAreLimited' /\ Accounts'
  BY <1>1, <1>2, <1>4 DEF ReturnsAreLimited, Accounts, Reached
<1> QED
  BY <1>5, <1>6, <1>7, AccountsSufficeNext

(* A step of no worker: a message is published or lost on its way, an invoice *)
(* is deleted.                                                                *)
LEMMA OutsideIInv ==
  ASSUME MessagesIInv, DeliveryTypeOK',
         \/ \E m \in Messages : PublishLost(m) \/ \E step \in BOOLEAN : Publish(m, step)
         \/ \E i \in Invoices : DeleteInvoice(i)
         \/ UNCHANGED deliveryVars
  PROVE  MessagesIInv'
<1>1. DeliveryTypeOK /\ HandlersAreTrue /\ OneConsumer /\ ReturnsAreLimited /\ Accounts
  BY PartsOfIInv
<1>2. UNCHANGED <<returns, copies, logged, worker>> /\ invoices' \subseteq invoices
  BY DEF PublishLost, Publish, DeleteInvoice, deliveryVars, broker
<1>3. \A m \in Messages : \/ place'[m] = place[m]
                          \/ place[m] = "nowhere" /\ place'[m] \in {"queue", "lost"}
  BY <1>1 DEF PublishLost, Publish, DeleteInvoice, deliveryVars, broker, DeliveryTypeOK
<1>4. HandlersAreTrue'
  BY <1>1, <1>2 DEF HandlersAreTrue, Reached
<1>5. OneConsumer'
  <2>1. \A m : Consumers(m)' = Consumers(m)
    BY <1>2 DEF Consumers, Up
  <2> QED
    BY <1>1, <1>3, <2>1 DEF OneConsumer
<1>6. ReturnsAreLimited' /\ Accounts'
  BY <1>1, <1>2, <1>3 DEF ReturnsAreLimited, Accounts, Reached
<1> QED
  BY <1>4, <1>5, <1>6, AccountsSufficeNext

(* A channel was tried: what the worker hears of success is a copy, or a line *)
(* in the log.                                                                *)
LEMMA SendIInv ==
  ASSUME MessagesIInv, DeliveryTypeOK', NEW w \in Workers, NEW channel \in Channels, NEW setting,
         Send(w, channel, setting)
  PROVE  MessagesIInv'
<1>1. DeliveryTypeOK /\ HandlersAreTrue /\ worker[w].label = "sending"
  BY PartsOfIInv DEF Send
<1>2. worker[w].msg \in Messages
  BY <1>1 DEF DeliveryTypeOK, HandlersAreTrue, Handlers
<1>3. PICK result \in Results(ProviderOf(channel, setting)) :
       /\ copies' = IF result.taken THEN [copies EXCEPT ![worker[w].msg][channel] = @ + 1]
                    ELSE copies
       /\ logged' = IF result.success /\ ~result.taken THEN logged \cup {worker[w].msg}
                    ELSE logged
       /\ worker' = [worker EXCEPT ![w].todo = @ \ {channel}, ![w].sent = @ \/ result.success]
  BY DEF Send
<1>4. /\ worker'[w].msg = worker[w].msg /\ worker'[w].connection = worker[w].connection
      /\ worker'[w].label = "sending" /\ OnlyWorker(w)
      /\ worker'[w].sent = (worker[w].sent \/ result.success)
  BY <1>1, <1>3 DEF DeliveryTypeOK, Handlers, OnlyWorker
<1>5. copies \in [Messages -> [Channels -> Nat]]
  BY <1>1 DEF DeliveryTypeOK
<1>6. \A m \in Messages : Reached(m) => Reached(m)'
  <2>1. \A m \in Messages : \A c \in Channels : copies[m][c] > 0 => copies'[m][c] > 0
    BY <1>2, <1>3, <1>5
  <2> QED
    BY <1>3, <2>1, ReachedStays
<1>7. result.success => Reached(worker[w].msg)'
  <2>1. CASE result.taken
    <3>1. copies'[worker[w].msg][channel] > 0
      BY <1>2, <1>3, <1>5, <2>1
    <3> QED
      BY <1>4, <3>1 DEF Reached
  <2>2. CASE ~result.taken
    BY <1>3, <1>4, <2>2 DEF Reached
  <2> QED
    BY <2>1, <2>2
<1>8. worker'[w].sent => Reached(worker[w].msg)'
  <2>1. worker[w].sent => Reached(worker[w].msg)'
    BY <1>1, <1>2, <1>4, <1>6 DEF HandlersAreTrue, Reached
  <2> QED
    BY <1>4, <1>7, <2>1
<1>9. GoesOn(w) /\ invoices' = invoices
  BY <1>4 DEF GoesOn, Send
<1> QED
  BY <1>1, <1>4, <1>6, <1>8, <1>9, GoingOnIInv

LEMMA MessagesNextIInv == MessagesIInv /\ [DeliveryNext]_deliveryVars => MessagesIInv'
<1> SUFFICES ASSUME MessagesIInv, [DeliveryNext]_deliveryVars PROVE MessagesIInv'
  OBVIOUS
<1>0. DeliveryTypeOK /\ HandlersAreTrue /\ DeliveryTypeOK'
  BY PartsOfIInv, DeliveryTypeStep
<1>1. ASSUME \/ \E m \in Messages : PublishLost(m) \/ \E step \in BOOLEAN : Publish(m, step)
             \/ \E i \in Invoices : DeleteInvoice(i)
             \/ UNCHANGED deliveryVars
      PROVE  MessagesIInv'
  BY <1>0, <1>1, OutsideIInv
<1>2. ASSUME NEW w \in Workers, NEW m \in Messages, Deliver(w, m)
      PROVE  MessagesIInv'
  BY <1>0, <1>2, DeliverIInv
<1>3. ASSUME NEW w \in Workers,
             RejectMalformed(w) \/ InvoiceGone(w) \/ AllFailed(w) \/ Acknowledge(w) \/ Throws(w)
      PROVE  MessagesIInv'
  <2>1. Leaves(w)
    BY <1>3, EndingSettles
  <2>2. HandlerEnds(w) /\ UNCHANGED <<invoices, copies, logged>>
    BY <1>3 DEF RejectMalformed, InvoiceGone, AllFailed, Acknowledge, Throws
  <2>3. /\ worker'[w].label = "idle" /\ worker'[w].msg = "none" /\ ~worker'[w].sent
        /\ OnlyWorker(w)
    BY <1>0, <2>2 DEF HandlerEnds, Waiting, OnlyWorker, DeliveryTypeOK
  <2> QED
    BY <1>0, <2>1, <2>2, <2>3, LeavingIInv
<1>4. ASSUME NEW w \in Workers, NEW preferred, NEW hasEmail \in BOOLEAN,
             ResolveChannels(w, preferred, hasEmail)
      PROVE  MessagesIInv'
  <2>1. /\ worker[w].label = "taken" /\ ~worker[w].sent
        /\ UNCHANGED <<place, returns, invoices, copies, logged>>
    BY <1>0, <1>4 DEF ResolveChannels, Parsed, broker, HandlersAreTrue
  <2>2. /\ worker'[w].label = "sending" /\ worker'[w].msg = worker[w].msg
        /\ worker'[w].connection = worker[w].connection /\ worker'[w].sent = worker[w].sent
        /\ OnlyWorker(w)
    BY <1>0, <1>4 DEF ResolveChannels, DeliveryTypeOK, Handlers, OnlyWorker
  <2>3. GoesOn(w) /\ \A m \in Messages : Reached(m) => Reached(m)'
    BY <2>1, <2>2 DEF GoesOn, broker, Reached
  <2> QED
    BY <1>0, <2>1, <2>2, <2>3, GoingOnIInv
<1>5. ASSUME NEW w \in Workers, NEW channel \in Channels, NEW setting \in WhatsappSettings,
             Send(w, channel, setting)
      PROVE  MessagesIInv'
  BY <1>0, <1>5, SendIInv
<1>6. ASSUME NEW w \in Workers, MarkNotified(w)
      PROVE  MessagesIInv'
  <2>1. /\ worker[w].label = "sending" /\ worker[w].sent
        /\ UNCHANGED <<place, returns, invoices, copies, logged>>
    BY <1>6 DEF MarkNotified, AllTried, broker
  <2>2. /\ worker'[w].label = "marked" /\ worker'[w].msg = worker[w].msg
        /\ worker'[w].connection = worker[w].connection /\ worker'[w].sent = worker[w].sent
        /\ OnlyWorker(w)
    BY <1>0, <1>6 DEF MarkNotified, DeliveryTypeOK, Handlers, OnlyWorker
  <2>3. /\ GoesOn(w) /\ \A m \in Messages : Reached(m) => Reached(m)'
        /\ Reached(worker[w].msg)'
    BY <1>0, <2>1, <2>2 DEF GoesOn, broker, Reached, HandlersAreTrue
  <2> QED
    BY <1>0, <2>1, <2>2, <2>3, GoingOnIInv
<1>7. ASSUME NEW w \in Workers, NEW counted \in BOOLEAN, LoseConnection(w, counted) \/ Crash(w, counted)
      PROVE  MessagesIInv'
  <2>1. Leaves(w)
    BY <1>7, EndingSettles
  <2>2. UNCHANGED <<invoices, copies, logged>>
    BY <1>7 DEF LoseConnection, Crash, Disconnect
  <2>3. CASE LoseConnection(w, counted)
    <3>1. /\ worker'[w].connection = "lost" /\ worker'[w].label = worker[w].label
          /\ worker'[w].msg = worker[w].msg /\ worker'[w].sent = worker[w].sent
          /\ OnlyWorker(w)
      BY <1>0, <2>3 DEF LoseConnection, DeliveryTypeOK, Handlers, OnlyWorker
    <3> QED
      BY <1>0, <2>1, <2>2, <3>1, LeavingIInv
  <2>4. CASE Crash(w, counted)
    <3>1. /\ worker'[w].label = "idle" /\ worker'[w].msg = "none" /\ ~worker'[w].sent
          /\ OnlyWorker(w)
      BY <1>0, <2>4 DEF Crash, Waiting, OnlyWorker, DeliveryTypeOK
    <3> QED
      BY <1>0, <2>1, <2>2, <3>1, LeavingIInv
  <2> QED
    BY <1>7, <2>3, <2>4
<1>8. ASSUME NEW w \in Workers, Restart(w)
      PROVE  MessagesIInv'
  <2>1. /\ worker[w].connection = "down" /\ UNCHANGED <<place, returns, invoices, copies, logged>>
    BY <1>8 DEF Restart, broker
  <2>2. /\ worker'[w].label = "idle" /\ worker'[w].msg = "none" /\ ~worker'[w].sent
        /\ OnlyWorker(w)
    BY <1>0, <1>8 DEF Restart, Waiting, OnlyWorker, DeliveryTypeOK
  <2>3. Leaves(w)
    BY <2>1 DEF Leaves, Holding, Up, broker
  <2> QED
    BY <1>0, <2>1, <2>2, <2>3, LeavingIInv
<1> QED
  BY <1>1, <1>2, <1>3, <1>4, <1>5, <1>6, <1>7, <1>8 DEF DeliveryNext, Progress, Failure

LEMMA MessagesInitIInv == DeliveryInit => MessagesIInv
<1> SUFFICES ASSUME DeliveryInit PROVE MessagesIInv
  OBVIOUS
<1> USE DEF DeliveryInit
<1>1. DeliveryTypeOK
  <2>1. Waiting \in Handlers
    BY DEF Waiting, Handlers, Labels
  <2>2. returns \in [Messages -> 0 .. DeliveryLimit + 1] /\ failures \in 0 .. MaxFailures
    BY DeliveryAssumption
  <2> QED
    BY <2>1, <2>2 DEF DeliveryTypeOK
<1>2. HandlersAreTrue
  BY DEF HandlersAreTrue, Waiting
<1>3. OneConsumer
  <2>1. \A m \in Messages : Consumers(m) = {}
    BY DeliveryAssumption DEF Consumers, Waiting
  <2> QED
    BY <2>1 DEF OneConsumer
<1>4. ReturnsAreLimited /\ Accounts
  BY DeliveryAssumption DEF ReturnsAreLimited, Accounts
<1> QED
  BY <1>1, <1>2, <1>3, <1>4, AccountsSuffice

(* What m may cost: its returns, the failures so far, and the delivery that   *)
(* is under way or was the last.                                              *)
Deliveries(m) == returns[m] + failures + (IF place[m] \in {"held", "acked"} THEN 1 ELSE 0)

LEMMA SendersOf ==
  ASSUME NEW w \in Workers, OnlyWorker(w), NEW m, NEW c, IsFiniteSet(Senders(m, c))
  PROVE  /\ IsFiniteSet(Senders(m, c)')
         /\ Cardinality(Senders(m, c)) \in Nat /\ Cardinality(Senders(m, c)') \in Nat
         /\ w \in Senders(m, c) /\ w \notin Senders(m, c)' =>
              Cardinality(Senders(m, c)') = Cardinality(Senders(m, c)) - 1
         /\ (w \in Senders(m, c)' => w \in Senders(m, c)) =>
              Cardinality(Senders(m, c)') <= Cardinality(Senders(m, c))
         /\ Cardinality(Senders(m, c)') <= Cardinality(Senders(m, c)) + 1
<1> DEFINE S == Senders(m, c)
           T == Senders(m, c)'
<1>1. T \ {w} = S \ {w}
  BY DEF OnlyWorker, Senders
<1> HIDE DEF S, T
<1>2. IsFiniteSet(S \cup {w}) /\ T \subseteq S \cup {w}
  <2>1. IsFiniteSet(S)
    BY DEF S
  <2> QED
    BY <1>1, <2>1, FS_AddElement
<1>3. IsFiniteSet(S) /\ IsFiniteSet(T) /\ Cardinality(S) \in Nat /\ Cardinality(T) \in Nat
  BY <1>2, FS_Subset, FS_CardinalityType DEF S
<1>4. Cardinality(T) <= Cardinality(S) + 1
  <2>1. Cardinality(T) <= Cardinality(S \cup {w})
    BY <1>2, FS_Subset
  <2>2. Cardinality(S \cup {w}) = IF w \in S THEN Cardinality(S) ELSE Cardinality(S) + 1
    BY <1>3, FS_AddElement
  <2>3. Cardinality(S \cup {w}) \in Nat
    BY <1>2, FS_CardinalityType
  <2> QED
    BY <1>3, <2>1, <2>2, <2>3
<1>5. (w \in T => w \in S) => Cardinality(T) <= Cardinality(S)
  <2>1. (w \in T => w \in S) => T \subseteq S
    BY <1>1
  <2> QED
    BY <1>3, <2>1, FS_Subset
<1>6. w \in S /\ w \notin T => Cardinality(T) = Cardinality(S) - 1
  <2>1. w \in S /\ w \notin T => T = S \ {w}
    BY <1>1
  <2> QED
    BY <1>3, <2>1, FS_RemoveElement
<1> QED
  BY <1>3, <1>4, <1>5, <1>6 DEF S, T

LEMMA CopyTypes ==
  ASSUME DeliveryTypeOK
  PROVE  /\ \A m \in Messages : \A c \in Channels : copies[m][c] \in Nat
         /\ \A m \in Messages : Deliveries(m) \in Nat /\ returns[m] \in Nat
         /\ failures \in Nat
BY DeliveryAssumption DEF DeliveryTypeOK, Deliveries

(* Copies of each message, with those to come, are within its deliveries.     *)
LEMMA CopiesCounted ==
  CopiesAreDeliveries <=>
    \A m \in Messages : \A c \in Channels :
      /\ IsFiniteSet(Senders(m, c))
      /\ copies[m][c] + Cardinality(Senders(m, c)) <= Deliveries(m)
BY DEF CopiesAreDeliveries, Deliveries

LEMMA CopiesCountedNext ==
  ASSUME \A m \in Messages : \A c \in Channels :
           /\ IsFiniteSet(Senders(m, c)')
           /\ copies'[m][c] + Cardinality(Senders(m, c)') <= Deliveries(m)'
  PROVE  CopiesAreDeliveries'
BY DEF CopiesAreDeliveries, Deliveries

(* A handler that ends, or a worker that is gone, uses up its delivery.       *)
LEMMA LeavingCopies ==
  ASSUME CopiesIInv, DeliveryTypeOK', NEW w \in Workers, Leaves(w), OnlyWorker(w),
         copies' = copies,
         \A m \in Messages, c \in Channels : w \in Senders(m, c)' => w \in Senders(m, c),
         \/ failures' = failures + 1
         \/ /\ failures' = failures
            /\ \A m \in Messages, c \in Channels : w \notin Senders(m, c)'
  PROVE  CopiesAreDeliveries'
<1> SUFFICES ASSUME NEW m \in Messages, NEW c \in Channels
             PROVE  /\ IsFiniteSet(Senders(m, c)')
                    /\ copies'[m][c] + Cardinality(Senders(m, c)') <= Deliveries(m)'
  BY CopiesCountedNext
<1>1. DeliveryTypeOK /\ MessagesIInv /\ CopiesAreDeliveries
  BY PartsOfIInv DEF CopiesIInv
<1>2. /\ IsFiniteSet(Senders(m, c))
      /\ copies[m][c] + Cardinality(Senders(m, c)) <= Deliveries(m)
  BY <1>1, CopiesCounted
<1>3. /\ IsFiniteSet(Senders(m, c)')
      /\ Cardinality(Senders(m, c)) \in Nat /\ Cardinality(Senders(m, c)') \in Nat
      /\ w \in Senders(m, c) /\ w \notin Senders(m, c)' =>
           Cardinality(Senders(m, c)') = Cardinality(Senders(m, c)) - 1
      /\ Cardinality(Senders(m, c)') <= Cardinality(Senders(m, c))
  BY <1>2, SendersOf
<1>4. copies[m][c] \in Nat /\ Deliveries(m) \in Nat /\ returns[m] \in Nat /\ failures \in Nat
  BY <1>1, CopyTypes
<1>5. \/ Deliveries(m)' >= Deliveries(m)
      \/ /\ Deliveries(m)' = Deliveries(m) - 1
         /\ w \in Senders(m, c) /\ w \notin Senders(m, c)'
  <2>1. CASE Holding(w) /\ worker[w].msg = m
    <3>1. place[m] = "held"
      BY <1>1, <2>1, HoldingIsHeld
    <3>2. PICK to, n : Settles(w, to, n)
      BY <2>1 DEF Leaves
    <3>3. place'[m] = to /\ returns'[m] = n
      BY <1>1, <2>1, <3>2 DEF Settles, DeliveryTypeOK
    <3>4. Deliveries(m) = returns[m] + failures + 1
      BY <3>1 DEF Deliveries
    <3>5. CASE to = "acked" /\ n = returns[m]
      BY <1>4, <3>3, <3>4, <3>5 DEF Deliveries
    <3>6. CASE to = "dead" /\ n = returns[m] /\ worker[w].label = "taken"
      <4>1. w \in Senders(m, c)
        BY <2>1, <3>6 DEF Senders
      <4>2. Deliveries(m)' = returns[m] + failures'
        BY <1>4, <3>3, <3>6 DEF Deliveries
      <4> QED
        BY <1>4, <3>4, <4>1, <4>2
    <3>7. CASE to \in {"dead", "queue"} /\ n = returns[m] + 1
      BY <1>4, <3>3, <3>4, <3>7 DEF Deliveries
    <3>8. CASE to = "queue" /\ n = returns[m] /\ failures' = failures + 1
      BY <1>4, <3>3, <3>4, <3>8 DEF Deliveries
    <3> QED
      BY <2>1, <3>2, <3>5, <3>6, <3>7, <3>8 DEF Settles
  <2>2. CASE ~(Holding(w) /\ worker[w].msg = m)
    <3>1. place'[m] = place[m] /\ returns'[m] = returns[m]
      BY <1>1, <2>2 DEF Leaves, Settles, broker, DeliveryTypeOK
    <3> QED
      BY <1>4, <3>1 DEF Deliveries
  <2> QED
    BY <2>1, <2>2
<1>6. Deliveries(m)' \in Nat
  BY DeliveryAssumption DEF DeliveryTypeOK, Deliveries
<1> QED
  BY <1>2, <1>3, <1>4, <1>5, <1>6

(* Any other step of a worker that has its message still, or of none: what    *)
(* the message may cost does not sink.                                        *)
LEMMA GoingOnCopies ==
  ASSUME CopiesIInv, NEW w \in Workers, OnlyWorker(w), UNCHANGED <<broker, failures>>,
         \A m \in Messages, c \in Channels : copies'[m][c] = copies[m][c],
         \A m \in Messages, c \in Channels : w \in Senders(m, c)' => w \in Senders(m, c)
  PROVE  CopiesAreDeliveries'
<1> SUFFICES ASSUME NEW m \in Messages, NEW c \in Channels
             PROVE  /\ IsFiniteSet(Senders(m, c)')
                    /\ copies'[m][c] + Cardinality(Senders(m, c)') <= Deliveries(m)'
  BY CopiesCountedNext
<1>1. /\ IsFiniteSet(Senders(m, c))
      /\ copies[m][c] + Cardinality(Senders(m, c)) <= Deliveries(m)
  BY CopiesCounted DEF CopiesIInv
<1>2. /\ IsFiniteSet(Senders(m, c)')
      /\ Cardinality(Senders(m, c)) \in Nat /\ Cardinality(Senders(m, c)') \in Nat
      /\ Cardinality(Senders(m, c)') <= Cardinality(Senders(m, c))
  BY <1>1, SendersOf
<1>3. Deliveries(m)' = Deliveries(m)
  BY DEF Deliveries, broker
<1>4. copies[m][c] \in Nat /\ Deliveries(m) \in Nat
  BY PartsOfIInv, CopyTypes DEF CopiesIInv
<1> QED
  BY <1>1, <1>2, <1>3, <1>4

LEMMA DeliverCopies ==
  ASSUME CopiesIInv, NEW w \in Workers, NEW m0 \in Messages, Deliver(w, m0)
  PROVE  CopiesAreDeliveries'
<1> SUFFICES ASSUME NEW m \in Messages, NEW c \in Channels
             PROVE  /\ IsFiniteSet(Senders(m, c)')
                    /\ copies'[m][c] + Cardinality(Senders(m, c)') <= Deliveries(m)'
  BY CopiesCountedNext
<1>1. DeliveryTypeOK /\ CopiesAreDeliveries
  BY PartsOfIInv DEF CopiesIInv
<1>2. /\ worker[w] = Waiting /\ place[m0] = "queue" /\ place' = [place EXCEPT ![m0] = "held"]
      /\ worker' = [worker EXCEPT ![w].label = "taken", ![w].msg = m0]
      /\ UNCHANGED <<returns, copies, failures>>
  BY DEF Deliver
<1>3. OnlyWorker(w) /\ worker'[w].msg = m0
  BY <1>1, <1>2 DEF OnlyWorker, DeliveryTypeOK, Handlers
<1>4. /\ IsFiniteSet(Senders(m, c))
      /\ copies[m][c] + Cardinality(Senders(m, c)) <= Deliveries(m)
  BY <1>1, CopiesCounted
<1>5. /\ IsFiniteSet(Senders(m, c)')
      /\ Cardinality(Senders(m, c)) \in Nat /\ Cardinality(Senders(m, c)') \in Nat
      /\ (w \in Senders(m, c)' => w \in Senders(m, c)) =>
           Cardinality(Senders(m, c)') <= Cardinality(Senders(m, c))
      /\ Cardinality(Senders(m, c)') <= Cardinality(Senders(m, c)) + 1
  BY <1>3, <1>4, SendersOf
<1>6. copies[m][c] \in Nat /\ Deliveries(m) \in Nat /\ returns[m] \in Nat /\ failures \in Nat
  BY <1>1, CopyTypes
<1>7. CASE m = m0
  <2>1. place[m] = "queue" /\ place'[m] = "held"
    BY <1>1, <1>2, <1>7 DEF DeliveryTypeOK
  <2>2. Deliveries(m)' = Deliveries(m) + 1
    BY <1>2, <1>6, <2>1 DEF Deliveries
  <2> QED
    BY <1>2, <1>4, <1>5, <1>6, <2>2
<1>8. CASE m # m0
  <2>1. w \notin Senders(m, c)'
    BY <1>3, <1>8 DEF Senders
  <2>2. place'[m] = place[m]
    BY <1>1, <1>2, <1>8 DEF DeliveryTypeOK
  <2>3. Deliveries(m)' = Deliveries(m)
    BY <1>2, <2>2 DEF Deliveries
  <2> QED
    BY <1>2, <1>4, <1>5, <1>6, <2>1, <2>3
<1> QED
  BY <1>7, <1>8

(* A channel is tried once in a delivery: the copy was one of those to come.  *)
LEMMA SendCopies ==
  ASSUME CopiesIInv, NEW w \in Workers, NEW channel \in Channels, NEW setting,
         Send(w, channel, setting)
  PROVE  CopiesAreDeliveries'
<1> SUFFICES ASSUME NEW m \in Messages, NEW c \in Channels
             PROVE  /\ IsFiniteSet(Senders(m, c)')
                    /\ copies'[m][c] + Cardinality(Senders(m, c)') <= Deliveries(m)'
  BY CopiesCountedNext
<1>1. DeliveryTypeOK /\ CopiesAreDeliveries
  BY PartsOfIInv DEF CopiesIInv
<1>2. /\ worker[w].label = "sending" /\ channel \in worker[w].todo
      /\ UNCHANGED <<place, returns, failures>>
  BY DEF Send, broker
<1>3. PICK result \in Results(ProviderOf(channel, setting)) :
       /\ copies' = IF result.taken THEN [copies EXCEPT ![worker[w].msg][channel] = @ + 1]
                    ELSE copies
       /\ worker' = [worker EXCEPT ![w].todo = @ \ {channel}, ![w].sent = @ \/ result.success]
  BY DEF Send
<1>4. /\ OnlyWorker(w) /\ worker'[w].msg = worker[w].msg /\ worker'[w].label = "sending"
      /\ worker'[w].todo = worker[w].todo \ {channel}
  BY <1>1, <1>2, <1>3 DEF OnlyWorker, DeliveryTypeOK, Handlers
<1>5. /\ IsFiniteSet(Senders(m, c))
      /\ copies[m][c] + Cardinality(Senders(m, c)) <= Deliveries(m)
  BY <1>1, CopiesCounted
<1>6. /\ IsFiniteSet(Senders(m, c)')
      /\ Cardinality(Senders(m, c)) \in Nat /\ Cardinality(Senders(m, c)') \in Nat
      /\ w \in Senders(m, c) /\ w \notin Senders(m, c)' =>
           Cardinality(Senders(m, c)') = Cardinality(Senders(m, c)) - 1
      /\ (w \in Senders(m, c)' => w \in Senders(m, c)) =>
           Cardinality(Senders(m, c)') <= Cardinality(Senders(m, c))
  BY <1>4, <1>5, SendersOf
<1>7. copies[m][c] \in Nat /\ Deliveries(m) \in Nat
  BY <1>1, CopyTypes
<1>8. Deliveries(m)' = Deliveries(m)
  BY <1>2 DEF Deliveries
<1>9. copies \in [Messages -> [Channels -> Nat]]
  BY <1>1 DEF DeliveryTypeOK
<1>10. CASE m = worker[w].msg /\ c = channel
  <2>1. w \in Senders(m, c) /\ w \notin Senders(m, c)'
    BY <1>2, <1>4, <1>10 DEF Senders
  <2>2. copies'[m][c] \in {copies[m][c], copies[m][c] + 1}
    BY <1>3, <1>9, <1>10
  <2> QED
    BY <1>5, <1>6, <1>7, <1>8, <2>1, <2>2
<1>11. CASE ~(m = worker[w].msg /\ c = channel)
  <2>1. w \in Senders(m, c)' => w \in Senders(m, c)
    BY <1>2, <1>4, <1>11 DEF Senders
  <2>2. copies'[m][c] = copies[m][c]
    BY <1>3, <1>9, <1>11
  <2> QED
    BY <1>5, <1>6, <1>7, <1>8, <2>1, <2>2
<1> QED
  BY <1>10, <1>11

LEMMA OutsideCopies ==
  ASSUME CopiesIInv,
         \/ \E m \in Messages : PublishLost(m) \/ \E step \in BOOLEAN : Publish(m, step)
         \/ \E i \in Invoices : DeleteInvoice(i)
         \/ UNCHANGED deliveryVars
  PROVE  CopiesAreDeliveries'
<1> SUFFICES ASSUME NEW m \in Messages, NEW c \in Channels
             PROVE  /\ IsFiniteSet(Senders(m, c)')
                    /\ copies'[m][c] + Cardinality(Senders(m, c)') <= Deliveries(m)'
  BY CopiesCountedNext
<1>1. DeliveryTypeOK /\ CopiesAreDeliveries
  BY PartsOfIInv DEF CopiesIInv
<1>2. /\ IsFiniteSet(Senders(m, c))
      /\ copies[m][c] + Cardinality(Senders(m, c)) <= Deliveries(m)
  BY <1>1, CopiesCounted
<1>3. /\ UNCHANGED <<returns, copies, worker>> /\ failures' \in {failures, failures + 1}
      /\ \/ place'[m] = place[m]
         \/ place[m] = "nowhere"
  BY <1>1 DEF PublishLost, Publish, DeleteInvoice, deliveryVars, broker, DeliveryTypeOK
<1>4. copies[m][c] \in Nat /\ Deliveries(m) \in Nat /\ returns[m] \in Nat /\ failures \in Nat
  BY <1>1, CopyTypes
<1>5. Senders(m, c)' = Senders(m, c)
  BY <1>3 DEF Senders
<1>6. Deliveries(m)' >= Deliveries(m) /\ Deliveries(m)' \in Nat
  BY <1>3, <1>4 DEF Deliveries
<1>7. Cardinality(Senders(m, c)) \in Nat
  BY <1>2, FS_CardinalityType
<1> QED
  BY <1>2, <1>3, <1>4, <1>5, <1>6, <1>7

LEMMA CopiesNextIInv == CopiesIInv /\ [DeliveryNext]_deliveryVars => CopiesIInv'
<1> SUFFICES ASSUME CopiesIInv, [DeliveryNext]_deliveryVars PROVE CopiesIInv'
  OBVIOUS
<1>0. MessagesIInv /\ MessagesIInv' /\ DeliveryTypeOK /\ HandlersAreTrue /\ DeliveryTypeOK'
  BY PartsOfIInv, DeliveryTypeStep, MessagesNextIInv DEF CopiesIInv
<1>1. ASSUME \/ \E m \in Messages : PublishLost(m) \/ \E step \in BOOLEAN : Publish(m, step)
             \/ \E i \in Invoices : DeleteInvoice(i)
             \/ UNCHANGED deliveryVars
      PROVE  CopiesAreDeliveries'
  BY <1>1, OutsideCopies
<1>2. ASSUME NEW w \in Workers, NEW m \in Messages, Deliver(w, m)
      PROVE  CopiesAreDeliveries'
  BY <1>2, DeliverCopies
<1>3. ASSUME NEW w \in Workers,
             RejectMalformed(w) \/ InvoiceGone(w) \/ AllFailed(w) \/ Acknowledge(w) \/ Throws(w)
      PROVE  CopiesAreDeliveries'
  <2>1. Leaves(w)
    BY <1>0, <1>3, EndingSettles
  <2>2. HandlerEnds(w) /\ copies' = copies /\ failures' = failures
    BY <1>3 DEF RejectMalformed, InvoiceGone, AllFailed, Acknowledge, Throws
  <2>3. worker'[w].msg = "none" /\ OnlyWorker(w)
    BY <1>0, <2>2 DEF HandlerEnds, Waiting, OnlyWorker, DeliveryTypeOK
  <2>4. \A m \in Messages, c \in Channels : w \notin Senders(m, c)'
    BY <2>3, DeliveryAssumption DEF Senders
  <2> QED
    BY <1>0, <2>1, <2>2, <2>3, <2>4, LeavingCopies
<1>4. ASSUME NEW w \in Workers, NEW preferred, NEW hasEmail \in BOOLEAN,
             ResolveChannels(w, preferred, hasEmail)
      PROVE  CopiesAreDeliveries'
  <2>1. worker[w].label = "taken" /\ UNCHANGED <<broker, failures, copies>>
    BY <1>4 DEF ResolveChannels, Parsed
  <2>2. worker'[w].msg = worker[w].msg /\ OnlyWorker(w)
    BY <1>0, <1>4 DEF ResolveChannels, DeliveryTypeOK, Handlers, OnlyWorker
  <2>3. \A m, c : w \in Senders(m, c)' => w \in Senders(m, c)
    BY <2>1, <2>2 DEF Senders
  <2> QED
    BY <2>1, <2>2, <2>3, GoingOnCopies
<1>5. ASSUME NEW w \in Workers, NEW channel \in Channels, NEW setting \in WhatsappSettings,
             Send(w, channel, setting)
      PROVE  CopiesAreDeliveries'
  BY <1>5, SendCopies
<1>6. ASSUME NEW w \in Workers, MarkNotified(w)
      PROVE  CopiesAreDeliveries'
  <2>1. UNCHANGED <<broker, failures, copies>>
    BY <1>6 DEF MarkNotified
  <2>2. /\ worker'[w].msg = worker[w].msg /\ worker'[w].todo = worker[w].todo
        /\ worker'[w].label = "marked" /\ OnlyWorker(w)
    BY <1>0, <1>6 DEF MarkNotified, DeliveryTypeOK, Handlers, OnlyWorker
  <2>3. \A m, c : w \in Senders(m, c)' => w \in Senders(m, c)
    BY <2>2 DEF Senders
  <2> QED
    BY <2>1, <2>2, <2>3, GoingOnCopies
<1>7. ASSUME NEW w \in Workers, NEW counted \in BOOLEAN, LoseConnection(w, counted) \/ Crash(w, counted)
      PROVE  CopiesAreDeliveries'
  <2>1. Leaves(w)
    BY <1>0, <1>7, EndingSettles
  <2>2. failures' = failures + 1 /\ copies' = copies
    BY <1>7 DEF LoseConnection, Crash, Disconnect
  <2>3. /\ OnlyWorker(w)
        /\ \A m \in Messages, c \in Channels : w \in Senders(m, c)' => w \in Senders(m, c)
    <3>1. CASE LoseConnection(w, counted)
      <4>1. /\ worker'[w].label = worker[w].label /\ worker'[w].msg = worker[w].msg
            /\ worker'[w].todo = worker[w].todo /\ OnlyWorker(w)
        BY <1>0, <3>1 DEF LoseConnection, DeliveryTypeOK, Handlers, OnlyWorker
      <4> QED
        BY <4>1 DEF Senders
    <3>2. CASE Crash(w, counted)
      <4>1. worker'[w].msg = "none" /\ OnlyWorker(w)
        BY <1>0, <3>2 DEF Crash, Waiting, OnlyWorker, DeliveryTypeOK
      <4> QED
        BY <4>1, DeliveryAssumption DEF Senders
    <3> QED
      BY <1>7, <3>1, <3>2
  <2> QED
    BY <1>0, <2>1, <2>2, <2>3, LeavingCopies
<1>8. ASSUME NEW w \in Workers, Restart(w)
      PROVE  CopiesAreDeliveries'
  <2>1. UNCHANGED <<broker, failures, copies>>
    BY <1>8 DEF Restart
  <2>2. worker'[w].msg = "none" /\ OnlyWorker(w)
    BY <1>0, <1>8 DEF Restart, Waiting, OnlyWorker, DeliveryTypeOK
  <2>3. \A m \in Messages, c \in Channels : w \notin Senders(m, c)'
    BY <2>2, DeliveryAssumption DEF Senders
  <2> QED
    BY <2>1, <2>2, <2>3, GoingOnCopies
<1> QED
  BY <1>0, <1>1, <1>2, <1>3, <1>4, <1>5, <1>6, <1>7, <1>8
     DEF CopiesIInv, DeliveryNext, Progress, Failure

LEMMA CopiesInitIInv == DeliveryInit => CopiesIInv
<1> SUFFICES ASSUME DeliveryInit PROVE CopiesIInv
  OBVIOUS
<1>1. MessagesIInv
  BY MessagesInitIInv
<1>2. CopiesAreDeliveries
  <2>1. ASSUME NEW m \in Messages, NEW c \in Channels
        PROVE  /\ IsFiniteSet(Senders(m, c))
               /\ copies[m][c] + Cardinality(Senders(m, c)) <= Deliveries(m)
    <3>1. Senders(m, c) = {}
      BY DeliveryAssumption DEF DeliveryInit, Senders, Waiting
    <3>2. copies[m][c] = 0 /\ Deliveries(m) = 0
      BY DEF DeliveryInit, Deliveries
    <3> QED
      BY <3>1, <3>2, FS_EmptySet
  <2> QED
    BY <2>1, CopiesCounted
<1> QED
  BY <1>1, <1>2 DEF CopiesIInv

(* The inductive invariant of the delivery, whatever the broker takes back,   *)
(* the workers lose and the providers answer (invoice.worker.ts).             *)
THEOREM DeliveryInvariance == DeliverySpec => []CopiesIInv
<1> QED
  BY CopiesInitIInv, CopiesNextIInv, PTL DEF DeliverySpec

(* No message is lost between the broker and its consumers, or acknowledged   *)
(* or given up without a reason (invoice.worker.ts, RN-N5).                   *)
THEOREM MessagesAreAccountedFor == DeliverySpec => []MessagesAccountedFor
<1>1. CopiesIInv => MessagesAccountedFor
  BY DEF CopiesIInv, MessagesIInv
<1> QED
  BY <1>1, DeliveryInvariance, PTL

(* A payer gets one copy for each delivery the limit allows, and one for each *)
(* worker that failed without an answer.                                      *)
THEOREM CopiesAreBounded == DeliverySpec => []CopiesBounded
<1>1. CopiesIInv => CopiesBounded
  <2> SUFFICES ASSUME CopiesIInv, NEW m \in Messages, NEW c \in Channels
               PROVE  copies[m][c] <= DeliveryLimit + 1 + failures
    BY DEF CopiesBounded
  <2>1. DeliveryTypeOK /\ ReturnsAreLimited
    BY PartsOfIInv DEF CopiesIInv
  <2>2. /\ IsFiniteSet(Senders(m, c))
        /\ copies[m][c] + Cardinality(Senders(m, c)) <= Deliveries(m)
    BY CopiesCounted DEF CopiesIInv
  <2>3. Cardinality(Senders(m, c)) \in Nat
    BY <2>2, FS_CardinalityType
  <2>4. copies[m][c] \in Nat /\ returns[m] \in 0 .. DeliveryLimit + 1 /\ failures \in Nat
    BY <2>1, CopyTypes DEF DeliveryTypeOK
  <2>5. Deliveries(m) <= DeliveryLimit + 1 + failures /\ Deliveries(m) \in Nat
    BY <2>1, <2>4, DeliveryAssumption DEF Deliveries, ReturnsAreLimited
  <2> QED
    BY <2>2, <2>3, <2>4, <2>5, DeliveryAssumption
<1> QED
  BY <1>1, DeliveryInvariance, PTL

-----------------------------------------------------------------------------
(***************************************************************************)
(* Access.                                                                 *)
(***************************************************************************)

USE AccessAssumption

-----------------------------------------------------------------------------
(* What the steps have in common.                                            *)

(* A sweep that holds something will tell or write a state.                  *)
LEMMA SweepHolds ==
  ASSUME NEW x \in SweepStates
  PROVE  /\ x.at = "dispatching" => x.to \in States
         /\ x.at = "storing" => x.to \in States /\ x.sent \in BOOLEAN
<1>1. CASE x = Idle
  BY <1>1 DEF Idle
<1>2. CASE x \in [at : {"dispatching"}, to : States]
  BY <1>2
<1>3. CASE x \in [at : {"storing"}, to : States, sent : BOOLEAN]
  BY <1>3
<1> QED
  BY <1>1, <1>2, <1>3 DEF SweepStates

(* What a request holds depends on what it does.                             *)
LEMMA RequestHolds ==
  ASSUME NEW x \in Pending
  PROVE  /\ x.at = "saving" => x.form \in Forms /\ x.seen \in Contracts
         /\ x.at = "uploading" => x.seen \in Contracts
         /\ x.at = "recording" => x.version \in Nat /\ x.content \in Contents
<1>1. CASE x = Idle
  BY <1>1 DEF Idle
<1>2. CASE x \in [at : {"saving"}, form : Forms, seen : Contracts]
  BY <1>2
<1>3. CASE x \in [at : {"uploading"}, seen : Contracts]
  BY <1>3
<1>4. CASE x \in [at : {"recording"}, version : Nat, content : Contents]
  BY <1>4
<1> QED
  BY <1>1, <1>2, <1>3, <1>4 DEF Pending

LEMMA DecisionType == TypeOK => Decision \in States
BY DEF TypeOK, Decision, States

(* Payers, days and the owner touch neither contract nor turnstile.          *)
LEMMA OutsiderStep ==
  ASSUME TypeOK, FallDue \/ NextDay \/ Pay \/ UpdateSettings \/ SetOverride \/ SetIntegration
  PROVE  /\ TypeOK'
         /\ UNCHANGED <<accessState, contract, accepted, blurred, turnstile, missed, sweep, request>>
<1>1. CASE FallDue
  BY <1>1 DEF FallDue, TypeOK, owners, NotDue
<1>2. CASE NextDay
  BY <1>2 DEF NextDay, TypeOK, owners, NotDue
<1>3. CASE Pay
  BY <1>3 DEF Pay, TypeOK, owners, NotDue
<1>4. CASE UpdateSettings
  BY <1>4 DEF UpdateSettings, OwnerChanges, TypeOK
<1>5. CASE SetOverride
  BY <1>5 DEF SetOverride, OwnerChanges, TypeOK
<1>6. CASE SetIntegration
  BY <1>6 DEF SetIntegration, OwnerChanges, TypeOK
<1> QED
  BY <1>1, <1>2, <1>3, <1>4, <1>5, <1>6

-----------------------------------------------------------------------------
(* The contract.                                                             *)

LEMMA ContractType ==
  ASSUME NEW c \in Contracts
  PROVE  /\ c.enabled \in BOOLEAN /\ c.text \in Texts /\ c.mode \in Modes
         /\ c.file \in Nat /\ c.version \in Nat
         /\ Content(c) \in Contents
BY DEF Contracts, Contents, Content

(* A save gives a contract, with a row behind it; one that blurs nothing     *)
(* shows another content under a higher version only.                        *)
LEMMA SaveWrites ==
  ASSUME TypeOK, NEW r \in Requests, Save(r)
  PROVE  /\ contract' \in Contracts /\ blurred' \in BOOLEAN
         /\ request' = [request EXCEPT ![r] = Idle]
         /\ contract'.version > 0
         /\ ~blurred' => /\ ~blurred /\ contract'.version >= contract.version
                         /\ contract'.version > contract.version \/ Content(contract') = Content(contract)
<1> DEFINE form == request[r].form
           seen == request[r].seen
<1>1. request[r] \in Pending /\ request[r].at = "saving" /\ contract \in Contracts /\ blurred \in BOOLEAN
  BY DEF Save, TypeOK
<1>2. form \in Forms /\ seen \in Contracts
  BY <1>1, RequestHolds
<1>3. form.text \in Texts \cup {Keep} /\ form.mode \in Modes \cup {Keep}
  BY <1>2 DEF Forms
<1>4. /\ contract.version \in Nat /\ contract.text \in Texts /\ contract.mode \in Modes
      /\ contract.enabled \in BOOLEAN /\ contract.file \in Nat
      /\ seen.version \in Nat /\ seen.text \in Texts
  BY <1>1, <1>2, ContractType
<1> DEFINE text == Given(form.text, contract.text)
           mode == Given(form.mode, contract.mode)
           version == IF contract.version = 0 THEN 1 ELSE NextVersion(form, seen)
           enabled == IF form.enabled = Keep THEN contract.enabled ELSE form.enabled = "on"
<1>5. text \in Texts /\ mode \in Modes /\ enabled \in BOOLEAN
  BY <1>3, <1>4 DEF Given
<1>6. version \in Nat /\ version > 0
  BY <1>4 DEF NextVersion
<1>7. contract' = [contract EXCEPT !.enabled = enabled, !.text = text, !.mode = mode, !.version = version]
  BY DEF Save
<1>8. /\ contract'.text = text /\ contract'.mode = mode /\ contract'.version = version
      /\ contract'.file = contract.file
      /\ contract' \in Contracts
  <2> HIDE DEF text, mode, version, enabled
  <2> QED
    BY <1>1, <1>5, <1>6, <1>7 DEF Contracts
<1>9. ASSUME ~blurred'
      PROVE  /\ ~blurred /\ contract'.version >= contract.version
             /\ contract'.version > contract.version \/ Content(contract') = Content(contract)
  <2>1. ~blurred /\ seen = contract /\ (NewText(form, contract) \/ mode = contract.mode)
    BY <1>1, <1>9 DEF Save, Blurs
  <2>2. version >= contract.version
    BY <2>1, <1>4 DEF NextVersion
  <2>3. CASE NewText(form, contract)
    BY <2>1, <2>2, <2>3, <1>4, <1>8 DEF NextVersion
  <2>4. CASE ~NewText(form, contract)
    <3>1. mode = contract.mode /\ text = contract.text
      BY <2>1, <2>4 DEF NewText
    <3> QED
      BY <3>1, <2>1, <2>2, <1>8 DEF Content
  <2> QED
    BY <2>1, <2>2, <2>3, <2>4, <1>8
<1> QED
  BY <1>1, <1>6, <1>8, <1>9 DEF Save

LEMMA UploadWrites ==
  ASSUME TypeOK, NEW r \in Requests, Upload(r)
  PROVE  /\ contract' \in Contracts /\ blurred' \in BOOLEAN
         /\ request' = [request EXCEPT ![r] = Idle]
         /\ contract'.version > 0
         /\ ~blurred' => ~blurred /\ contract'.version > contract.version
<1>1. request[r] \in Pending /\ request[r].at = "uploading" /\ contract \in Contracts /\ blurred \in BOOLEAN
  BY DEF Upload, TypeOK
<1>2. request[r].seen \in Contracts
  BY <1>1, RequestHolds
<1> DEFINE version == IF contract.version = 0 THEN 1 ELSE request[r].seen.version + 1
<1>3. version \in Nat /\ version > 0 /\ contract.version \in Nat
  BY <1>1, <1>2, ContractType
<1>4. contract'.version = version /\ contract' \in Contracts
  <2> DEFINE enabled == contract.enabled \/ contract.version = 0
             file == contract.file + 1
  <2>1. contract' = [contract EXCEPT !.enabled = enabled, !.mode = "file",
                                     !.file = file, !.version = version]
    BY DEF Upload
  <2>2. enabled \in BOOLEAN
    OBVIOUS
  <2>3. file \in Nat
    BY <1>1, ContractType
  <2> HIDE DEF version, enabled, file
  <2> QED
    BY <2>1, <2>2, <2>3, <1>1, <1>3 DEF Contracts, Modes
<1>5. ~blurred' => ~blurred /\ request[r].seen = contract
  BY DEF Upload, Blurs
<1> QED
  BY <1>1, <1>3, <1>4, <1>5 DEF Upload

LEMMA AcceptWrites ==
  ASSUME TypeOK, NEW r \in Requests, Accept(r)
  PROVE  /\ request' = [request EXCEPT ![r] =
                         [at |-> "recording", version |-> contract.version, content |-> Content(contract)]]
         /\ contract.version \in Nat /\ Content(contract) \in Contents
         /\ UNCHANGED <<contract, accepted, blurred>>
BY ContractType DEF Accept, Hold, TypeOK

LEMMA RecordWrites ==
  ASSUME TypeOK, NEW r \in Requests, RecordAcceptance(r)
  PROVE  /\ request' = [request EXCEPT ![r] = Idle]
         /\ accepted' \in [latest : Nat, highest : Nat, content : Contents]
         /\ request[r].at = "recording"
         /\ \/ /\ accepted'.highest = accepted.highest
               /\ accepted'.content = accepted.content
            \/ /\ accepted'.highest = request[r].version
               /\ accepted'.content = request[r].content
         /\ UNCHANGED <<contract, blurred>>
<1> DEFINE version == request[r].version
           content == request[r].content
<1>1. version \in Nat /\ content \in Contents /\ request[r].at = "recording"
  BY RequestHolds DEF RecordAcceptance, TypeOK
<1>2. accepted' = [accepted EXCEPT !.latest = version,
                     !.highest = IF version > accepted.highest THEN version ELSE accepted.highest,
                     !.content = IF version > accepted.highest THEN content ELSE accepted.content]
  BY DEF RecordAcceptance
<1>3. accepted \in [latest : Nat, highest : Nat, content : Contents]
  BY DEF TypeOK
<1> HIDE DEF version, content
<1>4. accepted' \in [latest : Nat, highest : Nat, content : Contents]
  BY <1>1, <1>2, <1>3
<1>5. \/ accepted'.highest = accepted.highest /\ accepted'.content = accepted.content
      \/ accepted'.highest = version /\ accepted'.content = content
  BY <1>1, <1>2, <1>3
<1> QED
  BY <1>1, <1>4, <1>5 DEF RecordAcceptance, version, content

LEMMA RequestType ==
  ASSUME TypeOK, NEW r \in Requests, RequestStep(r)
  PROVE  TypeOK'
<1>1. ASSUME UNCHANGED Outside, contract' \in Contracts, blurred' \in BOOLEAN, changes' \in Nat,
             accepted' \in [latest : Nat, highest : Nat, content : Contents],
             NEW what \in Pending, request' = [request EXCEPT ![r] = what]
      PROVE  TypeOK'
  BY <1>1 DEF TypeOK, Outside
<1>2. Idle \in Pending
  BY DEF Pending
<1>3. CASE ReadContract(r)
  <2>1. PICK what \in Pending : request' = [request EXCEPT ![r] = what]
    <3>1. CASE \E form \in Edits : Hold(r, [at |-> "saving", form |-> form, seen |-> contract])
      BY <3>1 DEF Hold, Pending, TypeOK
    <3>2. CASE Hold(r, [at |-> "uploading", seen |-> contract])
      BY <3>2 DEF Hold, Pending, TypeOK
    <3> QED
      BY <1>3, <3>1, <3>2 DEF ReadContract
  <2>2. /\ contract \in Contracts /\ blurred \in BOOLEAN /\ changes \in Nat
        /\ accepted \in [latest : Nat, highest : Nat, content : Contents]
    BY DEF TypeOK
  <2>3. /\ UNCHANGED Outside
        /\ contract' \in Contracts /\ blurred' \in BOOLEAN /\ changes' \in Nat
        /\ accepted' \in [latest : Nat, highest : Nat, content : Contents]
    BY <1>3, <2>2 DEF ReadContract
  <2> QED
    BY <1>1, <2>1, <2>3
<1>4. CASE Save(r)
  BY <1>1, <1>2, <1>4, SaveWrites DEF Save, TypeOK
<1>5. CASE Upload(r)
  BY <1>1, <1>2, <1>5, UploadWrites DEF Upload, TypeOK
<1>6. CASE Accept(r)
  <2> DEFINE what == [at |-> "recording", version |-> contract.version, content |-> Content(contract)]
  <2>1. what \in Pending /\ request' = [request EXCEPT ![r] = what]
    BY <1>6, AcceptWrites DEF Pending
  <2> QED
    BY <1>1, <1>6, <2>1 DEF Accept, TypeOK
<1>7. CASE RecordAcceptance(r)
  BY <1>1, <1>2, <1>7, RecordWrites DEF RecordAcceptance, TypeOK
<1>8. CASE RequestFails(r)
  BY <1>1, <1>2, <1>8 DEF RequestFails, TypeOK
<1> QED
  BY <1>3, <1>4, <1>5, <1>6, <1>7, <1>8 DEF RequestStep

(* The versions of the acceptances stay behind the one in force, and what     *)
(* they stand for stays what it shows.                                       *)
LEMMA AnswersStill ==
  ASSUME contract \in Contracts, contract' \in Contracts, NEW v \in Nat, NEW content, Answers(v, content),
         contract'.version >= contract.version,
         contract'.version > contract.version \/ Content(contract') = Content(contract)
  PROVE  v <= contract'.version /\ (v = contract'.version /\ v > 0 => content = Content(contract'))
<1>1. contract.version \in Nat /\ contract'.version \in Nat
  BY ContractType
<1> HIDE DEF Content
<1> QED
  BY <1>1 DEF Answers

LEMMA ContractStep ==
  ASSUME IInv, NEW r \in Requests, RequestStep(r)
  PROVE  InForce' /\ VersionsAreContents'
<1> USE DEF IInv
<1>1. TypeOK /\ TypeOK'
  BY RequestType
<1>2. /\ contract \in Contracts /\ contract' \in Contracts
      /\ request \in [Requests -> Pending]
      /\ accepted \in [latest : Nat, highest : Nat, content : Contents]
  BY <1>1 DEF TypeOK
<1>3. CASE Save(r) \/ Upload(r)
  <2>1. /\ request' = [request EXCEPT ![r] = Idle] /\ accepted' = accepted
        /\ contract'.version > 0
        /\ ~blurred' => /\ ~blurred /\ contract'.version >= contract.version
                        /\ contract'.version > contract.version \/ Content(contract') = Content(contract)
    <3>1. contract.version \in Nat /\ contract'.version \in Nat
      BY <1>2, ContractType
    <3>2. CASE Save(r)
      BY <3>2, SaveWrites DEF Save
    <3>3. CASE Upload(r)
      <4>1. /\ request' = [request EXCEPT ![r] = Idle] /\ contract'.version > 0
            /\ ~blurred' => ~blurred /\ contract'.version > contract.version
        BY <1>1, <3>3, UploadWrites
      <4>2. accepted' = accepted
        BY <3>3 DEF Upload
      <4> QED
        BY <3>1, <4>1, <4>2
    <3> QED
      BY <1>3, <3>2, <3>3
  <2>2. InForce'
    BY <2>1 DEF InForce
  <2>3. ASSUME ~blurred'
        PROVE  VersionsAreContents'
    <3>1. /\ Answers(accepted.highest, accepted.content)
          /\ \A q \in Requests : request[q].at = "recording" => Answers(request[q].version, request[q].content)
      BY <2>1, <2>3 DEF VersionsAreContents
    <3>2. Answers(accepted.highest, accepted.content)'
      BY <1>2, <2>1, <2>3, <3>1, AnswersStill DEF Answers
    <3>3. ASSUME NEW q \in Requests, request'[q].at = "recording"
          PROVE  Answers(request[q].version, request[q].content)'
      <4>1. q # r /\ request'[q] = request[q]
        BY <1>2, <2>1, <3>3 DEF Idle
      <4>2. request[q].version \in Nat
        BY <1>2, <3>3, <4>1, RequestHolds
      <4> QED
        BY <1>2, <2>1, <2>3, <3>1, <3>3, <4>1, <4>2, AnswersStill DEF Answers
    <3> QED
      BY <3>2, <3>3 DEF VersionsAreContents
  <2> QED
    BY <2>2, <2>3 DEF VersionsAreContents
<1>4. CASE ReadContract(r) \/ RequestFails(r)
  <2>1. /\ UNCHANGED <<contract, accepted, blurred>>
        /\ \A q \in Requests : request'[q].at = "recording" => request'[q] = request[q]
    BY <1>2, <1>4 DEF ReadContract, RequestFails, Hold, Idle
  <2> QED
    BY <2>1 DEF InForce, VersionsAreContents, Answers
<1>5. CASE Accept(r)
  <2> DEFINE what == [at |-> "recording", version |-> contract.version, content |-> Content(contract)]
  <2>1. request' = [request EXCEPT ![r] = what] /\ UNCHANGED <<contract, accepted, blurred>>
        /\ contract.version \in Nat
    BY <1>1, <1>5, AcceptWrites
  <2>2. Answers(what.version, what.content)
    BY <2>1 DEF Answers
  <2>3. InForce'
    BY <2>1 DEF InForce
  <2>4. ASSUME ~blurred, NEW q \in Requests, request'[q].at = "recording"
        PROVE  Answers(request'[q].version, request'[q].content)
    <3>1. CASE q = r
      BY <1>2, <2>1, <2>2, <3>1
    <3>2. CASE q # r
      BY <1>2, <2>1, <2>4, <3>2 DEF VersionsAreContents
    <3> QED
      BY <3>1, <3>2
  <2> HIDE DEF what
  <2> QED
    BY <2>1, <2>3, <2>4 DEF VersionsAreContents, Answers
<1>6. CASE RecordAcceptance(r)
  <2>1. /\ request' = [request EXCEPT ![r] = Idle] /\ request[r].at = "recording"
        /\ UNCHANGED <<contract, blurred>>
        /\ \/ accepted'.highest = accepted.highest /\ accepted'.content = accepted.content
           \/ accepted'.highest = request[r].version /\ accepted'.content = request[r].content
    BY <1>1, <1>6, RecordWrites
  <2>2. InForce'
    BY <2>1 DEF InForce
  <2>3. \A q \in Requests : request'[q].at = "recording" => request'[q] = request[q]
    BY <1>2, <2>1 DEF Idle
  <2> QED
    BY <2>1, <2>2, <2>3 DEF VersionsAreContents, Answers
<1> QED
  BY <1>3, <1>4, <1>5, <1>6 DEF RequestStep

(* A contract whose versions are contents shows what was accepted.           *)
LEMMA ShowsAccepted ==
  ASSUME TypeOK, InForce, VersionsAreContents
  PROVE  AcceptedIsShown
<1>1. contract.version \in Nat /\ accepted.highest \in Nat
  BY ContractType DEF TypeOK
<1> QED
  BY <1>1 DEF InForce, VersionsAreContents, Answers, AcceptedIsShown, ContractAccepted

-----------------------------------------------------------------------------
(* The turnstile.                                                            *)

LEMMA CompareWrites ==
  ASSUME TypeOK, NEW s \in Sweeps, ReadInputs(s)
  PROVE  \E x \in SweepStates :
           /\ sweep' = [sweep EXCEPT ![s] = x] /\ x.at \in {"dispatching", "storing"}
           /\ UNCHANGED <<Inside, accessState, turnstile, crashes>>
           /\ missed' \in BOOLEAN /\ (missed => missed')
           /\ x.at = "storing" => ~x.sent /\ (missed' \/ (accessState = Never /\ x.to = "allowed"))
<1>1. Decision \in States /\ missed \in BOOLEAN
  BY DecisionType DEF TypeOK
<1> DEFINE telling == [at |-> "dispatching", to |-> Decision]
           writing == [at |-> "storing", to |-> Decision, sent |-> FALSE]
<1>2. telling \in SweepStates /\ writing \in SweepStates
  BY <1>1 DEF SweepStates
<1>3. UNCHANGED <<Inside, accessState, turnstile, crashes>>
  BY DEF ReadInputs, Compare
<1>4. CASE Goes(s, telling) /\ UNCHANGED missed
  BY <1>1, <1>2, <1>3, <1>4 DEF Goes
<1>5. CASE Goes(s, writing) /\ missed' = TRUE
  BY <1>1, <1>2, <1>3, <1>5 DEF Goes
<1>6. CASE Decision = Known /\ accessState = Never /\ Goes(s, writing) /\ UNCHANGED missed
  <2>1. Decision = "allowed"
    BY <1>6 DEF Known
  <2> QED
    BY <1>1, <1>2, <1>3, <1>6, <2>1 DEF Goes
<1> QED
  BY <1>4, <1>5, <1>6 DEF ReadInputs, Compare

LEMMA DispatchWrites ==
  ASSUME TypeOK, NEW s \in Sweeps, Dispatch(s)
  PROVE  \E x \in SweepStates :
           /\ sweep' = [sweep EXCEPT ![s] = x] /\ x.at = "storing"
           /\ sweep[s].at = "dispatching"
           /\ UNCHANGED <<Inside, accessState, crashes>>
           /\ missed' \in BOOLEAN /\ turnstile' \in States
           /\ \/ x.sent /\ x.to = turnstile' /\ missed' = missed
              \/ ~x.sent /\ missed'
<1> DEFINE to == sweep[s].to
           sent(b) == [at |-> "storing", to |-> to, sent |-> b]
<1>1. to \in States /\ turnstile \in States /\ missed \in BOOLEAN
  BY SweepHolds DEF TypeOK, Dispatch
<1>2. sent(TRUE) \in SweepStates /\ sent(FALSE) \in SweepStates
  BY <1>1 DEF SweepStates
<1>3. sweep[s].at = "dispatching" /\ UNCHANGED <<Inside, accessState, crashes>>
  BY DEF Dispatch
<1>4. CASE turnstile' = to /\ Goes(s, sent(TRUE)) /\ UNCHANGED missed
  BY <1>1, <1>2, <1>3, <1>4 DEF Goes
<1>5. CASE turnstile' \in {turnstile, to} /\ Goes(s, sent(FALSE)) /\ missed' = TRUE
  BY <1>1, <1>2, <1>3, <1>5 DEF Goes
<1> QED
  BY <1>4, <1>5 DEF Dispatch

LEMMA StoreWrites ==
  ASSUME TypeOK, NEW s \in Sweeps, UpdateClientState(s)
  PROVE  /\ sweep' = [sweep EXCEPT ![s] = Idle] /\ sweep[s].at = "storing"
         /\ sweep[s].to \in States /\ sweep[s].sent \in BOOLEAN
         /\ accessState' = sweep[s].to /\ missed' \in BOOLEAN
         /\ ~missed' => Alone(s) /\ (sweep[s].to = turnstile \/ ~missed)
         /\ UNCHANGED <<Inside, turnstile, crashes>>
<1>1. sweep[s].to \in States /\ sweep[s].sent \in BOOLEAN /\ missed \in BOOLEAN
  BY SweepHolds DEF TypeOK, UpdateClientState, Store
<1>2. missed' = IF Alone(s) /\ sweep[s].to = turnstile THEN FALSE ELSE missed \/ ~Alone(s)
  BY DEF UpdateClientState, Store
<1> QED
  BY <1>1, <1>2 DEF UpdateClientState, Store, Goes

LEMMA FailWrites ==
  ASSUME TypeOK, NEW s \in Sweeps, SweepFails(s)
  PROVE  /\ sweep' = [sweep EXCEPT ![s] = Idle]
         /\ missed' \in BOOLEAN /\ (missed' <=> missed \/ Told(s))
         /\ UNCHANGED <<Inside, accessState, turnstile>> /\ crashes' \in Nat
<1>1. missed \in BOOLEAN /\ crashes \in Nat
  BY DEF TypeOK
<1>2. missed' = (missed \/ Told(s)) /\ crashes' = crashes + 1
  BY DEF SweepFails
<1>3. Told(s) \in BOOLEAN
  BY Zenon DEF Told
<1>4. missed' \in BOOLEAN /\ (missed' <=> missed \/ Told(s))
  BY ONLY <1>1, <1>2, <1>3
<1> QED
  BY <1>1, <1>2, <1>4 DEF SweepFails, Goes

LEMMA SweepType ==
  ASSUME TypeOK, NEW s \in Sweeps, SweepStep(s) \/ SweepFails(s)
  PROVE  TypeOK'
<1>1. ASSUME UNCHANGED Inside, accessState' \in States \cup {Never}, turnstile' \in States,
             missed' \in BOOLEAN, crashes' \in Nat,
             NEW x \in SweepStates, sweep' = [sweep EXCEPT ![s] = x]
      PROVE  TypeOK'
  BY <1>1 DEF TypeOK, Inside, owners
<1>2. /\ Idle \in SweepStates /\ accessState \in States \cup {Never}
      /\ turnstile \in States /\ crashes \in Nat
  BY DEF SweepStates, TypeOK
<1>3. CASE ReadInputs(s)
  BY <1>1, <1>2, <1>3, CompareWrites
<1>4. CASE Dispatch(s)
  BY <1>1, <1>2, <1>4, DispatchWrites
<1>5. CASE UpdateClientState(s)
  BY <1>1, <1>2, <1>5, StoreWrites
<1>6. CASE SweepFails(s)
  BY <1>1, <1>2, <1>6, FailWrites
<1> QED
  BY <1>3, <1>4, <1>5, <1>6 DEF SweepStep

LEMMA TurnstileStep ==
  ASSUME IInv, NEW s \in Sweeps, SweepStep(s) \/ SweepFails(s)
  PROVE  RecordIsTold' /\ SentIsCurrent' /\ UnsentIsFirst'
<1> USE DEF IInv
<1>1. TypeOK /\ sweep \in [Sweeps -> SweepStates] /\ accessState \in States \cup {Never}
  BY DEF TypeOK
<1>2. CASE ReadInputs(s)
  <2>1. PICK x \in SweepStates :
          /\ sweep' = [sweep EXCEPT ![s] = x] /\ x.at \in {"dispatching", "storing"}
          /\ UNCHANGED <<accessState, turnstile>>
          /\ missed => missed'
          /\ x.at = "storing" => ~x.sent /\ (missed' \/ (accessState = Never /\ x.to = "allowed"))
    BY <1>1, <1>2, CompareWrites
  <2>2. sweep[s] = Idle /\ ~Told(s)
    BY <1>2 DEF ReadInputs, Compare, Told, Idle
  <2>3. sweep'[s] = x /\ \A w \in Sweeps \ {s} : sweep'[w] = sweep[w]
    BY <1>1, <2>1
  <2>4. ~Told(s)' /\ \A w \in Sweeps \ {s} : Told(w)' = Told(w)
    BY <2>1, <2>3 DEF Told
  <2>5. RecordIsTold'
    BY <2>1, <2>2, <2>4 DEF RecordIsTold, Known
  <2>6. SentIsCurrent'
    BY <2>1, <2>2, <2>3, <2>4 DEF SentIsCurrent
  <2>7. UnsentIsFirst'
    BY <2>1, <2>3 DEF UnsentIsFirst
  <2> QED
    BY <2>5, <2>6, <2>7
<1>3. CASE Dispatch(s)
  <2>1. PICK x \in SweepStates :
          /\ sweep' = [sweep EXCEPT ![s] = x] /\ x.at = "storing"
          /\ sweep[s].at = "dispatching" /\ UNCHANGED accessState
          /\ \/ x.sent /\ x.to = turnstile' /\ missed' = missed
             \/ ~x.sent /\ missed'
    BY <1>1, <1>3, DispatchWrites
  <2>2. sweep'[s] = x /\ \A w \in Sweeps \ {s} : sweep'[w] = sweep[w]
    BY <1>1, <2>1
  <2>3. CASE missed'
    BY <2>3 DEF RecordIsTold, SentIsCurrent, UnsentIsFirst
  <2>4. CASE x.sent /\ x.to = turnstile' /\ missed' = missed
    <3>1. Told(s)'
      BY <2>1, <2>2, <2>4 DEF Told
    <3>2. SentIsCurrent'
      BY <2>2, <2>4, <3>1 DEF SentIsCurrent
    <3>3. UnsentIsFirst'
      BY <2>1, <2>2, <2>4 DEF UnsentIsFirst
    <3> QED
      BY <3>1, <3>2, <3>3 DEF RecordIsTold
  <2> QED
    BY <2>1, <2>3, <2>4
<1>4. CASE UpdateClientState(s)
  <2>1. /\ sweep' = [sweep EXCEPT ![s] = Idle] /\ sweep[s].at = "storing"
        /\ sweep[s].to \in States /\ sweep[s].sent \in BOOLEAN
        /\ accessState' = sweep[s].to /\ turnstile' = turnstile
        /\ ~missed' => Alone(s) /\ (sweep[s].to = turnstile \/ ~missed)
    BY <1>1, <1>4, StoreWrites
  <2>2. CASE missed'
    BY <2>2 DEF RecordIsTold, SentIsCurrent, UnsentIsFirst
  <2>3. CASE ~missed'
    <3>1. \A w \in Sweeps : sweep'[w] = Idle /\ (w # s => ~Told(w))
      BY <1>1, <2>1, <2>3 DEF Alone, Told, Idle
    <3>2. \A w \in Sweeps : ~Told(w)' /\ sweep'[w].at # "storing"
      BY <3>1 DEF Told, Idle
    <3>3. sweep[s].to = turnstile
      <4>1. CASE missed
        BY <2>1, <2>3, <4>1
      <4>2. CASE ~missed /\ sweep[s].sent
        BY <2>1, <3>1, <4>2 DEF SentIsCurrent, Told
      <4>3. CASE ~missed /\ ~sweep[s].sent
        <5>1. accessState = Never /\ sweep[s].to = "allowed" /\ ~Told(s)
          BY <2>1, <4>3 DEF UnsentIsFirst, Told
        <5> QED
          BY <3>1, <4>3, <5>1 DEF RecordIsTold, Known
      <4> QED
        BY <2>1, <4>1, <4>2, <4>3
    <3>4. RecordIsTold'
      BY <2>1, <3>3 DEF RecordIsTold, Known, States, Never
    <3> QED
      BY <3>2, <3>4 DEF SentIsCurrent, UnsentIsFirst
  <2> QED
    BY <2>2, <2>3
<1>5. CASE SweepFails(s)
  <2>1. /\ sweep' = [sweep EXCEPT ![s] = Idle]
        /\ (missed' <=> missed \/ Told(s)) /\ UNCHANGED <<accessState, turnstile>>
    BY <1>1, <1>5, FailWrites
  <2>2. sweep'[s] = Idle /\ \A w \in Sweeps \ {s} : sweep'[w] = sweep[w]
    BY <1>1, <2>1
  <2>3. CASE missed'
    BY <2>3 DEF RecordIsTold, SentIsCurrent, UnsentIsFirst
  <2>4. CASE ~missed'
    <3>1. ~missed /\ ~Told(s) /\ ~Told(s)' /\ \A w \in Sweeps \ {s} : Told(w)' = Told(w)
      BY <2>1, <2>2, <2>4 DEF Told, Idle
    <3>2. RecordIsTold'
      BY <2>1, <3>1 DEF RecordIsTold, Known
    <3>3. SentIsCurrent'
      BY <2>1, <2>2, <3>1 DEF SentIsCurrent
    <3>4. UnsentIsFirst'
      BY <2>1, <2>2, <3>1 DEF UnsentIsFirst, Idle
    <3> QED
      BY <3>2, <3>3, <3>4
  <2> QED
    BY <2>3, <2>4
<1> QED
  BY <1>2, <1>3, <1>4, <1>5 DEF SweepStep

-----------------------------------------------------------------------------

LEMMA InitIInv == Init => IInv
<1> SUFFICES ASSUME Init PROVE IInv
  OBVIOUS
<1>1. TypeOK
  <2>1. contract \in Contracts
    BY DEF Init, NoContract, Contracts, Modes
  <2>2. accepted \in [latest : Nat, highest : Nat, content : Contents]
    BY DEF Init, Contents
  <2>3. Idle \in SweepStates /\ Idle \in Pending
    BY DEF SweepStates, Pending
  <2>4. sweep \in [Sweeps -> SweepStates] /\ request \in [Requests -> Pending]
    BY <2>3 DEF Init
  <2>5. late \in NotDue .. Patience /\ changes \in Nat /\ crashes \in Nat
    BY DEF Init, NotDue
  <2>6. settings \in Settings /\ configured \in BOOLEAN /\ override \in {"allow", "block", "none"}
    BY DEF Init
  <2>7. /\ accessState \in States \cup {Never} /\ turnstile \in States
        /\ missed \in BOOLEAN /\ blurred \in BOOLEAN
    BY DEF Init, States
  <2> QED
    BY <2>1, <2>2, <2>4, <2>5, <2>6, <2>7 DEF TypeOK
<1>2. RecordIsTold
  BY DEF Init, RecordIsTold, Known
<1>3. SentIsCurrent /\ UnsentIsFirst
  BY DEF Init, SentIsCurrent, UnsentIsFirst, Told, Idle
<1>4. InForce /\ VersionsAreContents
  BY DEF Init, InForce, VersionsAreContents, Answers, NoContract, Idle
<1> QED
  BY <1>1, <1>2, <1>3, <1>4, ShowsAccepted DEF IInv

LEMMA NextIInv == IInv /\ [Next]_vars => IInv'
<1> SUFFICES ASSUME IInv, [Next]_vars PROVE IInv'
  OBVIOUS
<1>1. TypeOK
  BY DEF IInv
<1>2. ASSUME TypeOK', UNCHANGED <<accessState, contract, accepted, blurred, turnstile, missed, sweep, request>>
      PROVE  IInv'
  BY <1>2 DEF IInv, RecordIsTold, SentIsCurrent, UnsentIsFirst, InForce, AcceptedIsShown,
              VersionsAreContents, Answers, ContractAccepted, Known, Told
<1>3. CASE FallDue \/ NextDay \/ Pay \/ UpdateSettings \/ SetOverride \/ SetIntegration
  BY <1>1, <1>2, <1>3, OutsiderStep
<1>4. ASSUME NEW r \in Requests, RequestStep(r)
      PROVE  IInv'
  <2>1. TypeOK' /\ InForce' /\ VersionsAreContents'
    BY <1>1, <1>4, RequestType, ContractStep
  <2>2. AcceptedIsShown'
    BY <2>1, ShowsAccepted, PTL
  <2>3. UNCHANGED Outside
    BY <1>4 DEF RequestStep, ReadContract, Save, Upload, Accept, RecordAcceptance, RequestFails
  <2>4. RecordIsTold' /\ SentIsCurrent' /\ UnsentIsFirst'
    BY <2>3 DEF IInv, Outside, RecordIsTold, SentIsCurrent, UnsentIsFirst, Known, Told
  <2> QED
    BY <2>1, <2>2, <2>4 DEF IInv
<1>5. ASSUME NEW s \in Sweeps, SweepStep(s) \/ SweepFails(s)
      PROVE  IInv'
  <2>1. TypeOK' /\ RecordIsTold' /\ SentIsCurrent' /\ UnsentIsFirst'
    BY <1>1, <1>5, SweepType, TurnstileStep
  <2>2. UNCHANGED Inside
    BY <1>5 DEF SweepStep, ReadInputs, Compare, Dispatch, UpdateClientState, Store, SweepFails
  <2>3. InForce' /\ AcceptedIsShown' /\ VersionsAreContents'
    BY <2>2 DEF IInv, Inside, InForce, AcceptedIsShown, VersionsAreContents, Answers, ContractAccepted
  <2> QED
    BY <2>1, <2>3 DEF IInv
<1>6. CASE UNCHANGED vars
  BY <1>1, <1>2, <1>6 DEF vars, owners, TypeOK
<1> QED
  BY <1>3, <1>4, <1>5, <1>6 DEF Next

(* The inductive invariant, for any requests and sweeps at once.             *)
THEOREM AccessInvariance == Spec => []IInv
BY InitIInv, NextIInv, PTL DEF Spec

(* What counts as accepted is what the contract says, but for editors that    *)
(* save over what they have not seen and for a switch of its mode.           *)
THEOREM AcceptedContractIsShown == Spec => []AcceptedIsShown
BY AccessInvariance, PTL DEF IInv

(* The state on record is what the turnstile was told last, but while a sweep *)
(* is between the two, and until the next transition after one that failed,  *)
(* was skipped, died or overlapped another.                                  *)
THEOREM RecordIsWhatWasTold == Spec => []RecordIsTold
BY AccessInvariance, PTL DEF IInv
=============================================================================
