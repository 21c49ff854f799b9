---------------------------- MODULE MCSettlement ----------------------------
(* Instances of Settlement for TLC: invoice i1 was issued, n1 and n2 may be   *)
(* created by renegotiations.                                                 *)
EXTENDS SettlementProperties

CONSTANTS i1, n1, n2, h1, h2, h3, evA, evB, evC, evN

Notification(id, i, s) == [id |-> id, invoice |-> i, status |-> s]

(* A failed attempt, two different confirmations of the same charge, one      *)
(* confirmation without an id, and the confirmation of a renegotiated one.    *)
UniqueIdEvents ==
  {Notification(evA, i1, "PAID"), Notification(evB, i1, "PAID"),
   Notification(None, i1, "PAID"), Notification(evC, i1, "FAILED"),
   Notification(evN, n1, "PAID")}
=============================================================================
