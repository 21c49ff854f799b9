------------------------------- MODULE MCFiscal -------------------------------
(* Instances of Fiscal for TLC.                                              *)
EXTENDS FiscalProperties

CONSTANTS r1, r2

(* NFE.io with its webhook, the mock, and NFE.io switched off.               *)
MCSetups ==
  {[enabled |-> TRUE, autoEmitOnPaid |-> TRUE, provider |-> "nfeio", webhookSecret |-> TRUE],
   [enabled |-> TRUE, autoEmitOnPaid |-> FALSE, provider |-> "mock", webhookSecret |-> FALSE],
   [enabled |-> FALSE, autoEmitOnPaid |-> FALSE, provider |-> "nfeio", webhookSecret |-> FALSE]}
=============================================================================
