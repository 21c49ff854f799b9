------------------------- MODULE DeliveryProperties -------------------------
(* What must be true of Delivery.                                             *)
EXTENDS Delivery

(* The live consumers that have m; somebody got m, or it was logged instead.  *)
Consumers(m) == {w \in Workers : Up(w) /\ worker[w].msg = m}

Reached(m) == m \in logged \/ \E c \in Channels : copies[m][c] > 0

(* No message is lost between the broker and its consumers: one that is given *)
(* out is with exactly one live consumer, and none is with any otherwise; one *)
(* is acknowledged only when a payer got it, its invoice does not exist any   *)
(* more, or a channel that is not set up logged it in place of sending it;    *)
(* and one that could have been sent is given up only after more than         *)
(* DeliveryLimit returns (RN-N5).                                             *)
MessagesAccountedFor ==
  /\ DeliveryTypeOK
  /\ \A m \in Messages :
       /\ Cardinality(Consumers(m)) = (IF place[m] = "held" THEN 1 ELSE 0)
       /\ place[m] = "acked" => InvoiceOf[m] \notin invoices \/ Reached(m)
       /\ place[m] = "dead" /\ m \notin Malformed => returns[m] > DeliveryLimit

(* Retries cannot flood a payer: one copy for each delivery the limit allows, *)
(* and one for each worker that failed without an answer.                     *)
CopiesBounded ==
  \A m \in Messages : \A c \in Channels : copies[m][c] <= DeliveryLimit + 1 + failures

(* A message in the queue ends, sent or dead-lettered, unless every worker    *)
(* has lost its connection: nobody reconnects, and a process that is alive is *)
(* not restarted.                                                             *)
MessageEnds ==
  \A m \in Messages :
    place[m] = "queue" ~> place[m] \in {"acked", "dead"} \/ \A w \in Workers : worker[w].connection = "lost"

(***************************************************************************)
(* The inductive invariants behind the safety properties.                  *)
(***************************************************************************)

(* A handler has a message from its delivery to its end, and believes that it *)
(* was sent only if it was, or was logged.                                    *)
HandlersAreTrue ==
  \A w \in Workers :
    /\ worker[w].label = "idle" <=> worker[w].msg = "none"
    /\ worker[w].label \in {"idle", "taken"} => ~worker[w].sent
    /\ worker[w].label = "marked" => worker[w].sent
    /\ worker[w].sent => Reached(worker[w].msg)

(* A message that is given out has one consumer, any other has none.          *)
OneConsumer ==
  \A m \in Messages :
    IF place[m] = "held" THEN \E w \in Workers : Consumers(m) = {w} ELSE Consumers(m) = {}

(* Only what is given up was returned more often than the limit allows.       *)
ReturnsAreLimited ==
  \A m \in Messages : place[m] # "dead" => returns[m] <= DeliveryLimit

MessagesIInv ==
  /\ HandlersAreTrue
  /\ OneConsumer
  /\ ReturnsAreLimited
  /\ MessagesAccountedFor

(* The handlers that may still send m through c, whatever their connection.   *)
Senders(m, c) ==
  {w \in Workers : worker[w].msg = m /\ (worker[w].label = "taken" \/ c \in worker[w].todo)}

(* Copies, with those still to come, are as many as the deliveries: each came *)
(* back, was lost with a worker, or is the last one.                          *)
CopiesAreDeliveries ==
  \A m \in Messages : \A c \in Channels :
    /\ IsFiniteSet(Senders(m, c))
    /\ copies[m][c] + Cardinality(Senders(m, c))
         <= returns[m] + failures + (IF place[m] \in {"held", "acked"} THEN 1 ELSE 0)

CopiesIInv == MessagesIInv /\ CopiesAreDeliveries
=============================================================================
