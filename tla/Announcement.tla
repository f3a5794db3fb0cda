---------------------------- MODULE Announcement ----------------------------
(***************************************************************************)
(* What the settlement of orders promises the services that consume its    *)
(* events: an outcome is announced only on evidence, and recorded only     *)
(* once announced.  An outcome may be replaced by another (a late webhook), *)
(* never by PENDING, and announcements are not withdrawn.                  *)
(***************************************************************************)
EXTENDS PaymentStatus

CONSTANT Orders

VARIABLES
    evidence,   \* <<o, s>>: there is a reason to announce s of o
    announced,  \* <<o, s>>: s of o has been announced
    recorded    \* the status the service itself reads

avars == <<evidence, announced, recorded>>

Outcomes == {PaymentStatusPaid, PaymentStatusFailed, PaymentStatusExpired}

Init ==
    /\ evidence = {}
    /\ announced = {}
    /\ recorded = [o \in Orders |-> NoRow]

Open(o) ==
    /\ recorded[o] = NoRow
    /\ recorded' = [recorded EXCEPT ![o] = PaymentStatusPending]
    /\ UNCHANGED <<evidence, announced>>

Discover(o, s) ==
    /\ evidence' = evidence \union {<<o, s>>}
    /\ UNCHANGED <<announced, recorded>>

Announce(o, s) ==
    /\ <<o, s>> \in evidence
    /\ recorded[o] # NoRow
    /\ announced' = announced \union {<<o, s>>}
    /\ UNCHANGED <<evidence, recorded>>

Record(o, s) ==
    /\ <<o, s>> \in announced
    /\ recorded' = [recorded EXCEPT ![o] = s]
    /\ UNCHANGED <<evidence, announced>>

Next ==
    \E o \in Orders :
        \/ Open(o)
        \/ \E s \in Outcomes : Discover(o, s) \/ Announce(o, s) \/ Record(o, s)

Spec == Init /\ [][Next]_avars
==============================================================================
