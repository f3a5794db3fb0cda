----------------------------- MODULE InvoicePdf -----------------------------
(***************************************************************************)
(* Downloads of the invoice of one order.  Each request reads the row of   *)
(* the payment, writes the PDF to /go-commerce/invoice_<order>.pdf and     *)
(* serves that file: all downloads of an order go through one file.  Of a  *)
(* PDF only the status in it is kept.                                      *)
(***************************************************************************)
EXTENDS PaymentStatus

CONSTANT Downloads   \* requests for the invoice of the order

VARIABLES
    status,    \* payments.status of the order, NoRow before there is a row
    file,      \* the status in the file; or NoFile, Empty, or Torn
    pc,        \* pc[d]: the call download d makes next; "served", "error"
    payment,   \* payment[d]: the status in the row it has read
    opened,    \* opened[d]: the file when its length was taken
    sent,      \* sent[d]: what the client has got; Torn is no whole PDF
    disturbed  \* downloads during which another one wrote to the file after
               \* their own creating it; not in the code

vars == <<status, file, pc, payment, opened, sent, disturbed>>

NoFile == "no file"
Empty  == "empty"
Torn   == "torn"
Rows   == {PaymentStatusPending, PaymentStatusPaid,
           PaymentStatusFailed, PaymentStatusExpired}

Init ==
    /\ status \in {NoRow, PaymentStatusPending}
    /\ file = NoFile
    /\ pc      = [d \in Downloads |-> "read"]
    /\ payment = [d \in Downloads |-> NoRow]
    /\ opened  = [d \in Downloads |-> NoFile]
    /\ sent    = [d \in Downloads |-> NoFile]
    /\ disturbed = {}

Goto(d, l) == pc' = [pc EXCEPT ![d] = l]

\* Those that have created the file and not yet served it.
Busy == {d \in Downloads : pc[d] \in {"write", "open", "copy"}}
Disturb(d) == disturbed' = disturbed \union (Busy \ {d})

-----------------------------------------------------------------------------
\* The payment is made, fails or expires meanwhile.
StatusChanges ==
    /\ status # NoRow
    /\ status' \in Rows \ {status, PaymentStatusPending}
    /\ UNCHANGED <<file, pc, payment, opened, sent, disturbed>>

\* A failed query, and an order without a row, end the request with status 500.
GetPaymentByOrderID(d) ==
    /\ pc[d] = "read"
    /\ \/ /\ status # NoRow
          /\ payment' = [payment EXCEPT ![d] = status]
          /\ Goto(d, "create")
       \/ Goto(d, "error") /\ UNCHANGED payment
    /\ UNCHANGED <<status, file, opened, sent, disturbed>>

\* Mutant: the file is opened without O_TRUNC.
Kept(f) == IF f = NoFile THEN Empty ELSE f

\* os.Create truncates what is there.
Created(f) == Empty

CreateFile(d) ==
    /\ pc[d] = "create"
    /\ \/ file' = Created(file) /\ Goto(d, "write") /\ Disturb(d)
       \/ Goto(d, "error") /\ UNCHANGED <<file, disturbed>>
    /\ UNCHANGED <<status, payment, opened, sent>>

\* What another download has written meanwhile is written over from its
\* beginning, and its end stays if it was longer.
Written(f, s) == IF f \in {Empty, s} THEN {s} ELSE {s, Torn}

\* A write that fails has written some of it, or nothing.
PartlyWritten(f, s) == IF f = s THEN {s} ELSE {f, Torn}

WriteFile(d) ==
    /\ pc[d] = "write"
    /\ \/ file' \in Written(file, payment[d]) /\ Goto(d, "open")
       \/ file' \in PartlyWritten(file, payment[d]) /\ Goto(d, "error")
    /\ Disturb(d)
    /\ UNCHANGED <<status, payment, opened, sent>>

\* FileAttachment takes the length of the file for the Content-Length ...
OpenFile(d) ==
    /\ pc[d] = "open"
    /\ opened' = [opened EXCEPT ![d] = file]
    /\ Goto(d, "copy")
    /\ UNCHANGED <<status, file, payment, sent, disturbed>>

\* ... and copies as much of what is in it now.  The PDF of another status may
\* be longer, shorter, or of the same length.
CopyFile(d) ==
    /\ pc[d] = "copy"
    /\ \E s \in IF Empty \in {opened[d], file} THEN {Empty}
                ELSE IF opened[d] = file THEN {file} ELSE {file, Torn} :
          sent' = [sent EXCEPT ![d] = s]
    /\ Goto(d, "served")
    /\ UNCHANGED <<status, file, payment, opened, disturbed>>

Next ==
    \/ StatusChanges
    \/ \E d \in Downloads :
          \/ GetPaymentByOrderID(d) \/ CreateFile(d) \/ WriteFile(d)
          \/ OpenFile(d) \/ CopyFile(d)

Spec == Init /\ [][Next]_vars

-----------------------------------------------------------------------------
(* Properties. *)

TypeOK ==
    /\ status \in Rows \union {NoRow}
    /\ file \in Rows \union {NoFile, Empty, Torn}
    /\ pc \in [Downloads -> {"read", "create", "write", "open", "copy",
                             "served", "error"}]
    /\ payment \in [Downloads -> Rows \union {NoRow}]
    /\ opened \in [Downloads -> Rows \union {NoFile, Empty, Torn}]
    /\ sent \in [Downloads -> Rows \union {NoFile, Empty, Torn}]
    /\ disturbed \subseteq Downloads

\* A client gets the whole invoice, with the status its own request has read,
\* unless another download of the order wrote to the file between its own
\* os.Create and its last read: what earlier downloads have left in the file,
\* torn or whole, does not show.
PdfAlone ==
    \A d \in Downloads :
        pc[d] = "served" /\ d \notin disturbed => sent[d] = payment[d]
=============================================================================
