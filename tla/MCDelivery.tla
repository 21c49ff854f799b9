----------------------------- MODULE MCDelivery -----------------------------
(* Instances of Delivery for TLC: m1 is about invoice i1, m2 cannot be parsed.*)
EXTENDS DeliveryProperties

CONSTANTS i1, m1, m2, w1, w2

MCWhatsappSettings == {[provider |-> "cloud", token |-> t] : t \in BOOLEAN}

MCInvoiceOf == [m \in Messages |-> i1]
=============================================================================
