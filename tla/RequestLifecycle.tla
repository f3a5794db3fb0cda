-------------------------- MODULE RequestLifecycle --------------------------
(***************************************************************************)
(* The life of a row of payment_requests as the two processors mean it:    *)
(* PENDING until it is invoiced (PAID, for good) or fails; a failure is    *)
(* counted, and put back to PENDING while the count is within the limit.   *)
(***************************************************************************)
EXTENDS PaymentStatus, Naturals

CONSTANTS Orders, RetryLimit

VARIABLE request

Init == request = [o \in Orders |-> [status |-> NoRow, retry |-> 0]]

Becomes(o, s, n) == request' = [request EXCEPT ![o] = [status |-> s, retry |-> n]]

Accept(o) == request[o].status = NoRow /\ Becomes(o, PaymentStatusPending, 0)

Succeed(o) ==
    /\ request[o].status = PaymentStatusPending
    /\ Becomes(o, PaymentStatusPaid, request[o].retry)

Fail(o) ==
    /\ request[o].status = PaymentStatusPending
    /\ Becomes(o, PaymentStatusFailed, request[o].retry + 1)

Retryable(o) ==
    /\ request[o].status = PaymentStatusFailed
    /\ request[o].retry <= RetryLimit

Retry(o) == Retryable(o) /\ Becomes(o, PaymentStatusPending, request[o].retry)

\* Putting it back did not work, which counts as another failure.
RetryFails(o) ==
    Retryable(o) /\ Becomes(o, PaymentStatusFailed, request[o].retry + 1)

Next == \E o \in Orders :
           Accept(o) \/ Succeed(o) \/ Fail(o) \/ Retry(o) \/ RetryFails(o)

Spec == Init /\ [][Next]_request
==============================================================================
