------------------------------ MODULE MCAccess ------------------------------
(* An instance of Access for TLC.                                            *)
EXTENDS AccessProperties, TLC

CONSTANTS t1, t2, s1, s2, r1, r2

(* A contract, and another one.                                              *)
OwnersEdits ==
  {[enabled |-> "on", text |-> t1, mode |-> Keep], [enabled |-> Keep, text |-> t2, mode |-> "text"]}

DefaultSettings == {[enabled |-> TRUE, graceDays |-> 0, requireSignedContract |-> TRUE]}

=============================================================================
