-------------------------- MODULE MCPaymentRequests --------------------------
(* Small instances of PaymentRequests for TLC. *)
EXTENDS PaymentRequests
==============================================================================
