--------------------------- MODULE LogicalPayment ---------------------------
(***************************************************************************)
(* What EXECUTE promises about one payment, without workers, leases,       *)
(* retries, fences or messages: the provider is charged at most once, what *)
(* the mission and the payment record is what the provider holds, and a    *)
(* record is made once. PaymentExecutor implements this specification.     *)
(***************************************************************************)
VARIABLES
    record,   \* what the system has recorded: open, paid or failed
    mission,  \* what it tells the user
    charge,   \* the provider's order made for this payment
    other     \* an order of someone else's making under the same receipt

pvars == <<record, mission, charge, other>>

Settled(s) == IF s = "paid" THEN "PAYMENT_SUCCEEDED" ELSE "PAYMENT_FAILED"

(* A payment taken over from an older worker may have been charged.        *)
PInit ==
    /\ record = "open" /\ mission = "PAYMENT_PENDING"
    /\ charge \in {"none", "open"} /\ other = "none"

(* The one charge.                                                         *)
Charge ==
    /\ record = "open" /\ charge = "none"
    /\ charge' \in {"open", "paid"}
    /\ UNCHANGED <<record, mission, other>>

ProviderSettles ==
    /\ \/ charge = "open" /\ charge' \in {"paid", "failed"} /\ UNCHANGED other
       \/ other = "open" /\ other' \in {"paid", "failed"} /\ UNCHANGED charge
    /\ UNCHANGED <<record, mission>>

OtherOrder ==
    /\ other = "none" /\ other' = "open"
    /\ UNCHANGED <<record, mission, charge>>

(* Success is recorded only when an order was paid.                        *)
RecordPaid ==
    /\ record = "open" /\ "paid" \in {charge, other}
    /\ record' = "paid" /\ mission' = Settled("paid")
    /\ UNCHANGED <<charge, other>>

(* Failure is recorded only when this system's order can no longer be paid.*)
RecordFailed ==
    /\ record = "open" /\ charge \in {"none", "failed"}
    /\ record' = "failed" /\ mission' = Settled("failed")
    /\ UNCHANGED <<charge, other>>

PNext == Charge \/ ProviderSettles \/ OtherOrder \/ RecordPaid \/ RecordFailed

PSpec == PInit /\ [][PNext]_pvars
=============================================================================
