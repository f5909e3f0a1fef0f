---------------------------- MODULE MissionStates ----------------------------
(***************************************************************************)
(* The mission state machine (services/agent_orchestrator/state_machine.py).*)
(***************************************************************************)

MissionState ==
    {"CREATED", "INTENT_PARSED", "DISCOVERING", "OFFERS_RECEIVED",
     "OFFERS_NORMALIZED", "RANKED", "POLICY_CHECKED", "AWAITING_APPROVAL",
     "AUTHORIZED", "PAYMENT_PENDING", "PAYMENT_SUCCEEDED", "PAYMENT_FAILED",
     "COMPLETED", "CANCELLED"}

(* The states a mission may move to from s.                                *)
ALLOWED_TRANSITIONS(s) ==
    CASE s = "CREATED"           -> {"INTENT_PARSED", "CANCELLED"}
      [] s = "INTENT_PARSED"     -> {"DISCOVERING", "CANCELLED"}
      [] s = "DISCOVERING"       -> {"OFFERS_RECEIVED", "CANCELLED"}
      [] s = "OFFERS_RECEIVED"   -> {"OFFERS_NORMALIZED", "CANCELLED"}
      [] s = "OFFERS_NORMALIZED" -> {"RANKED", "CANCELLED"}
      [] s = "RANKED"            -> {"POLICY_CHECKED", "CANCELLED"}
      [] s = "POLICY_CHECKED"    -> {"AWAITING_APPROVAL", "AUTHORIZED", "CANCELLED"}
      [] s = "AWAITING_APPROVAL" -> {"AUTHORIZED", "CANCELLED"}
      [] s = "AUTHORIZED"        -> {"PAYMENT_PENDING", "CANCELLED"}
      [] s = "PAYMENT_PENDING"   -> {"PAYMENT_SUCCEEDED", "PAYMENT_FAILED"}
      [] s = "PAYMENT_SUCCEEDED" -> {"COMPLETED"}
      [] s = "PAYMENT_FAILED"    -> {"CANCELLED", "PAYMENT_PENDING"}
      [] OTHER                   -> {}

can_transition(s, t) == t \in ALLOWED_TRANSITIONS(s)
=============================================================================
