---------------------------- MODULE PaymentStates ----------------------------
(***************************************************************************)
(* The deterministic payment state machine every durable change of a       *)
(* PaymentIntent goes through, and the fixed tables that translate a       *)
(* provider's report into one of its states                                *)
(* (services/payment_executor/state_machine.py, packages/schemas/payment.py).*)
(***************************************************************************)

PaymentIntentState ==
    {"CREATED", "QUEUED", "PROCESSING", "PROVIDER_PENDING", "SUCCEEDED",
     "FAILED_RETRYABLE", "FAILED_TERMINAL", "CANCELLED"}

TERMINAL_PAYMENT_STATES == {"SUCCEEDED", "FAILED_TERMINAL", "CANCELLED"}

(* The states a payment may move to from s.                                *)
ALLOWED_PAYMENT_TRANSITIONS(s) ==
    CASE s = "CREATED"          -> {"QUEUED", "CANCELLED"}
      [] s = "QUEUED"           -> {"PROCESSING", "PROVIDER_PENDING", "CANCELLED"}
      [] s = "PROCESSING"       -> {"SUCCEEDED", "PROVIDER_PENDING",
                                    "FAILED_RETRYABLE", "FAILED_TERMINAL"}
      [] s = "PROVIDER_PENDING" -> {"SUCCEEDED", "FAILED_TERMINAL", "FAILED_RETRYABLE"}
      [] s = "FAILED_RETRYABLE" -> {"QUEUED", "PROVIDER_PENDING", "FAILED_TERMINAL",
                                    "CANCELLED"}
      [] OTHER                  -> {}

can_transition(s, t) == t \in ALLOWED_PAYMENT_TRANSITIONS(s)

is_terminal(s) == s \in TERMINAL_PAYMENT_STATES

(* What a provider says of one of its payments. CREATED and PENDING are    *)
(* translated alike, so the model keeps PENDING for both.                  *)
ProviderPaymentStatus == {"PENDING", "SUCCEEDED", "FAILED"}

provider_status_to_state(p) ==
    CASE p = "SUCCEEDED" -> "SUCCEEDED"
      [] p = "FAILED"    -> "FAILED_TERMINAL"
      [] p = "PENDING"   -> "PROVIDER_PENDING"

(* Verified webhook types: the two non-settling ones (payment.pending and  *)
(* payment.attempt_failed) are translated alike and are one type here.     *)
WebhookEventType == {"payment.pending", "payment.succeeded", "payment.failed"}

webhook_type_to_state(t) ==
    CASE t = "payment.succeeded" -> "SUCCEEDED"
      [] t = "payment.failed"    -> "FAILED_TERMINAL"
      [] t = "payment.pending"   -> "PROVIDER_PENDING"
=============================================================================
