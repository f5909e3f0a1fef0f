------------------------- MODULE PaymentRefinement -------------------------
(***************************************************************************)
(* PaymentExecutor implements LogicalPayment: every step of a worker, a    *)
(* webhook, the provider or a fault is one step of the logical payment or  *)
(* leaves it alone.                                                        *)
(***************************************************************************)
EXTENDS PaymentExecutor

Recorded ==
    CASE intent.state = "SUCCEEDED"       -> "paid"
      [] intent.state = "FAILED_TERMINAL" -> "failed"
      [] OTHER                            -> "open"

(* The order of this system's making, or of another's, as the provider     *)
(* holds it. A second one is no state of the logical payment.              *)
OrderMade(own) ==
    LET made == {o \in Orders : orders[o].status # "absent" /\ orders[o].own = own}
        held == {orders[o].status : o \in made}
    IN CASE made = {}              -> "none"
         [] Cardinality(made) > 1  -> "several"
         [] held = {"PENDING"}     -> "open"
         [] held = {"SUCCEEDED"}   -> "paid"
         [] held = {"FAILED"}      -> "failed"

Logical == INSTANCE LogicalPayment WITH
    record <- Recorded, charge <- OrderMade(TRUE), other <- OrderMade(FALSE)

(* The detailed protocol is a logical payment: one charge, one truthful    *)
(* record, whatever crashes, lapses, races and retries lie in between.     *)
RefinesLogicalPayment == Logical!PSpec
=============================================================================
