---------------------------- MODULE PaymentStatus ----------------------------
(***************************************************************************)
(* The vocabulary the payment service's components share: the values of    *)
(* the status columns of tables payments and payment_requests              *)
(* (constant/payment.go), and how a call to a remote dependency can end.   *)
(***************************************************************************)

PaymentStatusPaid    == "PAID"
PaymentStatusFailed  == "FAILED"
PaymentStatusPending == "PENDING"
PaymentStatusExpired == "EXPIRED"

\* No row of the table has this order_id.
NoRow == "NO_ROW"

(***************************************************************************)
(* The end of a write to a dependency, as its caller sees it:              *)
(*   "ok"    applied, and the caller is told so;                           *)
(*   "err"   not applied, and the caller gets an error;                    *)
(*   "lost"  applied, but the answer is lost: the caller gets an error     *)
(*           (connection dropped after commit, client-side deadline).      *)
(***************************************************************************)
CallOutcomes == {"ok", "err", "lost"}

Applied(r) == r \in {"ok", "lost"}
==============================================================================
